------------------------ MODULE PersonalSync_proofs ------------------------
(***************************************************************************)
(* Proofs about PersonalSync, for every set of hosts and every bound.      *)
(* That bases are endorsed, and overwrites never blind, holds whatever     *)
(* overlaps a pass.  That disk and memory tell the same story, and that    *)
(* every step is one the contract allows, needs an edit, a lock, a second  *)
(* pass and a partial write of the metadata to stay out of a pass: each of *)
(* the four breaks the contract.                                           *)
(***************************************************************************)
EXTENDS PersonalSync, FiniteSetTheorems, TLAPS

\* The inductive invariant: a pass holds versions the server issued, so that
\* the documents it takes over exist; and a base is an endorsed version.
IInv == TypeOK /\ VersionsIssued /\ BaseEndorsed

-----------------------------------------------------------------------------
(* The flights and their records. *)

\* A document is neither a missing one nor a wiped fingerprint.
LEMMA DocIsKnown == None \notin Doc /\ Zeros \notin Doc
  BY NoDocs

\* A pass begins as an active flight, at its first step.
LEMMA BegunIsActive ==
  ASSUME session \in Doc, NEW op \in {"pass", "repass", "keep", "take"}
  PROVE  /\ Begun(op) \in Active
         /\ Begun(op).pc = "load"
         /\ Begun(op).rem = 0
  BY DEF Begun, Idle, Active, Pc, Meta, NoMeta, Fingerprint

\* Giving one flight a legal record keeps the flights legal.
LEMMA SetKeepsFlights ==
  ASSUME flight \in [FlightId -> {Idle} \cup Active],
         NEW f \in FlightId, NEW fl \in {Idle} \cup Active, Set(f, fl)
  PROVE  /\ flight' \in [FlightId -> {Idle} \cup Active]
         /\ flight'[f] = fl
         /\ \A g \in FlightId \ {f} : flight'[g] = flight[g]
  BY DEF Set

Moved(fl, pc, v) == [fl EXCEPT !.pc = pc, !.rem = v]
Answered(fl, pc, v) == [fl EXCEPT !.pc = pc, !.rem = v, !.up = None]

\* Moving a flight to another step and version leaves it legal.
LEMMA MovedFlight ==
  ASSUME NEW fl \in Active, NEW pc \in Pc, NEW v \in Nat
  PROVE  /\ Moved(fl, pc, v) \in Active
         /\ Moved(fl, pc, v).pc = pc
         /\ Moved(fl, pc, v).rem = v
  BY DEF Moved, Active

\* So does dropping the document of an answered upload.
LEMMA AnsweredFlight ==
  ASSUME NEW fl \in Active, NEW pc \in Pc, NEW v \in Nat
  PROVE  /\ Answered(fl, pc, v) \in Active
         /\ Answered(fl, pc, v).pc = pc
         /\ Answered(fl, pc, v).rem = v
  BY DEF Answered, Active

\* Zero-filling a captured buffer leaves the flight legal, at its step.
LEMMA WipedFlight ==
  ASSUME NEW fl \in Active
  PROVE  LET w == [fl EXCEPT !.wiped = TRUE] IN
         w \in Active /\ w.pc = fl.pc /\ w.rem = fl.rem /\ w.base = fl.base /\ w.up = fl.up
  BY DEF Active

\* Zero-filling the captured buffers changes neither steps nor versions.
LEMMA WipedKeepsFlights ==
  ASSUME NEW fls \in [FlightId -> {Idle} \cup Active]
  PROVE  /\ Wiped(fls) \in [FlightId -> {Idle} \cup Active]
         /\ \A f \in FlightId : /\ Wiped(fls)[f].pc = fls[f].pc
                                /\ Wiped(fls)[f].rem = fls[f].rem
                                /\ Wiped(fls)[f].base = fls[f].base
                                /\ Wiped(fls)[f].up = fls[f].up
<1> SUFFICES ASSUME NEW f \in FlightId
             PROVE  /\ Wiped(fls)[f] \in {Idle} \cup Active
                    /\ Wiped(fls)[f].pc = fls[f].pc
                    /\ Wiped(fls)[f].rem = fls[f].rem
                    /\ Wiped(fls)[f].base = fls[f].base
                    /\ Wiped(fls)[f].up = fls[f].up
  BY DEF Wiped
<1>1. CASE fls[f] = Idle
  BY <1>1 DEF Wiped, Idle
<1>2. CASE fls[f] \in Active
  <2>1. fls[f].pc # "idle"
    BY <1>2 DEF Active, Pc
  <2>2. Wiped(fls)[f] = [fls[f] EXCEPT !.wiped = TRUE]
    BY <2>1 DEF Wiped
  <2> QED
    BY <1>2, <2>2, WipedFlight
<1> QED
  BY <1>1, <1>2

-----------------------------------------------------------------------------
(* The invariant, one flight at a time. *)

\* What the invariant says of one flight when the server is at version n and
\* E are the endorsed versions.
Sound(fl, n, E) ==
  /\ fl \in {Idle} \cup Active
  /\ fl.pc \notin {"idle", "load", "fetch"} => fl.rem \in 1..n
  /\ fl.pc = "fetch" => fl.base.ver \in E
  /\ fl.pc \in {"push", "sent"} => fl.rem \in E
  /\ fl.pc = "sent" => fl.up \in Doc

AllSound == \A f \in FlightId : Sound(flight[f], Version, endorsed)

\* What it says of the rest of the state.
Shared ==
  /\ remote \in Seq(Doc) /\ remote # <<>>
  /\ late \subseteq Upload /\ \A u \in late : u.ver \in endorsed
  /\ blob \in Doc
  /\ meta \in Meta /\ meta.ver \in endorsed
  /\ session \in {None} \cup Doc
  /\ shown \in {None} \cup Doc
  /\ pending \in 0..Version
  /\ sheet \in BOOLEAN
  /\ DOMAIN flight = FlightId /\ flight = [f \in FlightId |-> flight[f]]
  /\ patch \in [pc : {"none", "check", "merge", "write"}, fp : Fingerprint, snap : Meta]
  /\ patch.pc = "write" => patch.snap.ver \in endorsed
  /\ edits \in Nat
  /\ endorsed \subseteq 1..Version

\* The invariant is a part about the shared state, and one about each flight.
LEMMA IInvSplits == IInv <=> Shared /\ AllSound
<1>1. IInv => Shared /\ AllSound
  BY DEF IInv, TypeOK, VersionsIssued, BaseEndorsed, Shared, AllSound, Sound, Version
<1>2. Shared /\ AllSound => IInv
  <2> SUFFICES ASSUME Shared, AllSound PROVE IInv
    OBVIOUS
  <2>1. Version \in Nat
    BY DEF Shared, Version
  <2>2. TypeOK
    BY <2>1 DEF Shared, AllSound, Sound, TypeOK
  <2>3. VersionsIssued
    BY DEF Shared, AllSound, Sound, VersionsIssued
  <2>4. BaseEndorsed
    BY DEF Shared, AllSound, Sound, BaseEndorsed
  <2> QED
    BY <2>2, <2>3, <2>4 DEF IInv
<1> QED
  BY <1>1, <1>2

\* The server's versions and the endorsed ones only grow.
Grows == /\ Version \in Nat /\ Version' \in Nat /\ Version <= Version'
         /\ endorsed \subseteq endorsed'

\* A sound flight stays sound while the history and the endorsements grow.
LEMMA SoundGrows ==
  ASSUME NEW fl, Sound(fl, Version, endorsed), Grows
  PROVE  Sound(fl, Version', endorsed')
  BY DEF Sound, Grows, Active

\* No pass in flight is always sound.
LEMMA IdleIsSound == \A n, E : Sound(Idle, n, E)
  BY DEF Sound, Idle

\* So is a pass that has just begun: it holds no version yet.
LEMMA BegunIsSound ==
  ASSUME session \in Doc, NEW op \in {"pass", "repass", "keep", "take"}, NEW n, NEW E
  PROVE  Sound(Begun(op), n, E)
  BY BegunIsActive DEF Sound

\* A step that sets one flight has to answer for that flight only.
LEMMA OneFlight ==
  ASSUME Shared, AllSound, Grows,
         NEW f \in FlightId, NEW fl, Set(f, fl), Sound(fl, Version', endorsed')
  PROVE  AllSound' /\ (DOMAIN flight = FlightId /\ flight = [g \in FlightId |-> flight[g]])'
<1>1. DOMAIN flight' = FlightId /\ flight' = [g \in FlightId |-> flight'[g]]
  BY DEF Shared, Set
<1>2. ASSUME NEW g \in FlightId PROVE Sound(flight[g], Version, endorsed)'
  <2>1. CASE g = f
    BY <2>1 DEF Shared, Set
  <2>2. CASE g # f
    BY <2>2, SoundGrows DEF Shared, Set, AllSound
  <2> QED
    BY <2>1, <2>2
<1> QED
  BY <1>1, <1>2 DEF AllSound

\* A step that leaves the flights alone has to answer for none.
LEMMA NoFlight ==
  ASSUME Shared, AllSound, Grows, UNCHANGED flight
  PROVE  AllSound'
  BY SoundGrows DEF AllSound

-----------------------------------------------------------------------------
(* The steps of a pass. *)

\* A server that stays at its version, while no version is endorsed, grows.
LEMMA Standing ==
  ASSUME Shared, UNCHANGED <<remote, endorsed>>
  PROVE  Grows
  BY DEF Shared, Grows, Version

\* So does one that stays at its version while one of its versions is endorsed.
LEMMA Endorsing ==
  ASSUME Shared, UNCHANGED remote, NEW v \in 1..Version, endorsed' = endorsed \cup {v}
  PROVE  Grows /\ endorsed' \subseteq 1..Version'
  BY DEF Shared, Grows, Version

\* The steps that only move the pass along.
LEMMA ReadingSteps ==
  ASSUME Shared, AllSound, NEW f \in FlightId,
         LoadState(f) \/ FetchNothing(f) \/ FetchDone(f) \/ FetchPush(f) \/ FetchMoved(f)
           \/ OpenFailed(f) \/ OpenSame(f) \/ ReadBlob(f)
  PROVE  Shared' /\ AllSound'
<1> DEFINE fl == flight[f]
<1>1. Sound(fl, Version, endorsed) /\ fl \in Active
  <2>1. Sound(fl, Version, endorsed)
    BY DEF AllSound
  <2>2. fl.pc # "idle"
    BY DEF LoadState, FetchNothing, FetchDone, FetchPush, FetchMoved, OpenFailed, OpenSame, ReadBlob
  <2> QED
    BY <2>1, <2>2 DEF Sound, Idle
<1>2. Version \in Nat /\ Version \in 1..Version
  BY DEF Shared, Version
<1>3. UNCHANGED <<remote, late, phone, patch, edits, endorsed>>
  BY DEF LoadState, FetchNothing, FetchDone, FetchPush, FetchMoved, OpenFailed, OpenSame, ReadBlob
<1>4. Grows
  BY <1>3, Standing
<1>5. PICK g : Set(f, g) /\ Sound(g, Version, endorsed)
  <2>1. CASE LoadState(f)
    <3>1. Sound([fl EXCEPT !.pc = "fetch", !.base = meta], Version, endorsed)
      BY <1>1, <2>1 DEF LoadState, Sound, Active, Pc, Shared
    <3> QED
      BY <2>1, <3>1 DEF LoadState
  <2>2. CASE FetchNothing(f) \/ FetchDone(f) \/ OpenFailed(f)
    BY <2>2, IdleIsSound DEF FetchNothing, FetchDone, OpenFailed, End
  <2>3. CASE FetchPush(f)
    <3>1. Sound([fl EXCEPT !.pc = "push", !.rem = Version,
                            !.base = NoMeta, !.wiped = FALSE], Version, endorsed)
      BY <1>1, <1>2, <2>3 DEF FetchPush, Sound, Active, Pc, RemoteMoved, Meta, NoMeta, Fingerprint
    <3> QED
      BY <2>3, <3>1 DEF FetchPush
  <2>4. CASE FetchMoved(f)
    <3>1. Sound([fl EXCEPT !.pc = "open", !.rem = Version], Version, endorsed)
      BY <1>1, <1>2, <2>4 DEF FetchMoved, Sound, Active, Pc
    <3> QED
      BY <2>4, <3>1 DEF FetchMoved
  <2>5. CASE OpenSame(f)
    <3>1. Sound([fl EXCEPT !.pc = "agree", !.base = NoMeta], Version, endorsed)
      BY <1>1, <2>5 DEF OpenSame, Sound, Active, Pc, Meta, NoMeta, Fingerprint
    <3> QED
      BY <2>5, <3>1 DEF OpenSame
  <2>6. CASE ReadBlob(f)
    <3>1. Sound([fl EXCEPT !.pc = "sent", !.up = blob], Version, endorsed)
      BY <1>1, <2>6 DEF ReadBlob, Sound, Active, Pc, Shared
    <3> QED
      BY <2>6, <3>1 DEF ReadBlob
  <2> QED
    BY <2>1, <2>2, <2>3, <2>4, <2>5, <2>6
<1>6. Sound(g, Version', endorsed')
  BY <1>3, <1>5 DEF Version
<1>7. AllSound' /\ (DOMAIN flight = FlightId /\ flight = [h \in FlightId |-> flight[h]])'
  BY <1>4, <1>5, <1>6, OneFlight
<1>8. Shared'
  BY <1>3, <1>7 DEF Shared, phone, Version
<1> QED
  BY <1>7, <1>8

\* A version the server issued has a document.
LEMMA IssuedDoc ==
  ASSUME Shared, NEW v \in 1..Version
  PROVE  v \in Nat /\ remote[v] \in Doc
  BY DEF Shared, Version

\* Adopting starts by writing the blob file; a conflict stashes the remote.
LEMMA DecidingSteps ==
  ASSUME Shared, AllSound, NEW f \in FlightId,
         OpenAdopt(f) \/ OpenConflict(f) \/ PushAccepted(f) \/ PushRefused(f)
  PROVE  Shared' /\ AllSound'
<1> DEFINE fl == flight[f]
<1>1. Sound(fl, Version, endorsed) /\ fl \in Active
  <2>1. Sound(fl, Version, endorsed)
    BY DEF AllSound
  <2>2. fl.pc # "idle"
    BY DEF OpenAdopt, OpenConflict, PushAccepted, PushRefused
  <2> QED
    BY <2>1, <2>2 DEF Sound, Idle
<1>2. Version \in Nat
  BY DEF Shared, Version
<1>3. UNCHANGED <<remote, late, meta, session, shown, patch, edits, endorsed>>
  BY DEF OpenAdopt, OpenConflict, PushAccepted, PushRefused
<1>4. Grows
  BY <1>3, Standing
<1>5. fl.rem \in 1..Version
  BY <1>1 DEF OpenAdopt, OpenConflict, PushAccepted, PushRefused, Sound
<1>6. PICK g : Set(f, g) /\ Sound(g, Version, endorsed)
  <2>1. CASE OpenAdopt(f)
    <3>1. Sound([fl EXCEPT !.pc = "adopt", !.base = NoMeta], Version, endorsed)
      BY <1>1, <2>1 DEF OpenAdopt, Sound, Active, Pc, Meta, NoMeta, Fingerprint
    <3> QED
      BY <2>1, <3>1 DEF OpenAdopt
  <2>2. CASE OpenConflict(f)
    BY <2>2, IdleIsSound DEF OpenConflict, End
  <2>3. CASE PushAccepted(f)
    <3>1. Sound([fl EXCEPT !.pc = "commit"], Version, endorsed)
      BY <1>1, <2>3 DEF PushAccepted, Sound, Active, Pc
    <3> QED
      BY <2>3, <3>1 DEF PushAccepted
  <2>4. CASE PushRefused(f) /\ (fl.op = "repass" \/ ~Unlocked)
    BY <2>4, IdleIsSound DEF PushRefused, End
  <2>5. CASE PushRefused(f) /\ ~(fl.op = "repass" \/ ~Unlocked)
    <3> DEFINE op == IF fl.op = "keep" THEN "pass" ELSE "repass"
               g == [Begun(op) EXCEPT !.live = fl.live]
    <3>1. session \in Doc
      BY <2>5 DEF Unlocked, Shared
    <3>2. Begun(op) \in Active /\ Begun(op).pc = "load"
      BY <3>1, BegunIsActive
    <3>3. fl.live \in BOOLEAN
      BY <1>1 DEF Active
    <3>4. g \in Active /\ g.pc = "load"
      BY <3>2, <3>3 DEF Active
    <3>5. Sound(g, Version, endorsed)
      BY <3>4 DEF Sound
    <3> QED
      BY <2>5, <3>5 DEF PushRefused
  <2> QED
    BY <2>1, <2>2, <2>3, <2>4, <2>5
<1>7. Sound(g, Version', endorsed')
  BY <1>3, <1>6 DEF Version
<1>8. AllSound' /\ (DOMAIN flight = FlightId /\ flight = [h \in FlightId |-> flight[h]])'
  BY <1>4, <1>6, <1>7, OneFlight
<1>9. blob' \in Doc /\ pending' \in 0..Version /\ sheet' \in BOOLEAN
  <2>1. remote[fl.rem] \in Doc
    BY <1>5, IssuedDoc
  <2>2. CASE OpenAdopt(f)
    BY <2>1, <2>2 DEF OpenAdopt, Shared
  <2>3. CASE OpenConflict(f)
    BY <1>2, <1>5, <2>3 DEF OpenConflict, Shared
  <2>4. CASE PushAccepted(f) \/ PushRefused(f)
    BY <1>2, <2>4 DEF PushAccepted, PushRefused, DropPending, Shared
  <2> QED
    BY <2>2, <2>3, <2>4
<1>10. Shared'
  BY <1>3, <1>8, <1>9 DEF Shared, Version
<1> QED
  BY <1>8, <1>10

\* The steps that endorse the version in hand.
LEMMA EndorsingSteps ==
  ASSUME Shared, AllSound, NEW f \in FlightId,
         OpenPush(f) \/ AdoptFinish(f) \/ CommitFinish(f)
  PROVE  Shared' /\ AllSound'
<1> DEFINE fl == flight[f]
<1>1. Sound(fl, Version, endorsed)
  BY DEF AllSound
<1>2. Version \in Nat
  BY DEF Shared, Version
<1>3. /\ UNCHANGED <<remote, late, blob, edits>>
      /\ endorsed' = endorsed \cup {fl.rem}
  BY DEF OpenPush, AdoptFinish, CommitFinish, phone
<1>4. /\ fl.pc \in {"open", "adopt", "agree", "commit"}
      /\ fl.rem \in 1..Version
      /\ fl \in Active
  BY <1>1 DEF OpenPush, AdoptFinish, CommitFinish, Sound, Idle
<1>5. Grows /\ endorsed' \subseteq 1..Version' /\ Version' = Version
  BY <1>3, <1>4, Endorsing DEF Version
<1>6. remote[fl.rem] \in Doc /\ fl.rem \in Nat
  BY <1>4, IssuedDoc
<1>7. AllSound' /\ (DOMAIN flight = FlightId /\ flight = [h \in FlightId |-> flight[h]])'
  <2>1. CASE OpenPush(f)
    <3>1. Sound([fl EXCEPT !.pc = "push", !.base = NoMeta], Version, endorsed \cup {fl.rem})
      BY <1>4 DEF Sound, Active, Pc, Meta, NoMeta, Fingerprint
    <3> QED
      BY <1>3, <1>5, <2>1, <3>1, OneFlight DEF OpenPush
  <2>2. CASE CommitFinish(f)
    BY <1>5, <2>2, IdleIsSound, OneFlight DEF CommitFinish, End
  <2>3. CASE AdoptFinish(f)
    <3> DEFINE rest == [flight EXCEPT ![f] = Idle]
    <3>1. rest \in [FlightId -> {Idle} \cup Active]
      BY DEF Shared, AllSound, Sound
    <3>2. \A g \in FlightId : Sound(rest[g], Version', endorsed')
      BY <1>5, IdleIsSound, SoundGrows DEF Shared, AllSound
    <3>3. flight' = Wiped(rest) \/ flight' = rest
      BY <2>3 DEF AdoptFinish
    <3>4. \A g \in FlightId : Sound(Wiped(rest)[g], Version', endorsed')
      <4> HIDE DEF rest
      <4> QED
        BY <3>1, <3>2, WipedKeepsFlights DEF Sound
    <3>5. flight' \in [FlightId -> {Idle} \cup Active]
      BY <3>1, <3>3, WipedKeepsFlights
    <3>6. \A g \in FlightId : Sound(flight'[g], Version', endorsed')
      BY <3>2, <3>3, <3>4
    <3> QED
      BY <3>5, <3>6 DEF AllSound
  <2> QED
    BY <2>1, <2>2, <2>3
<1>8. meta' \in Meta /\ meta'.ver \in endorsed'
  <2>1. CASE OpenPush(f)
    BY <1>5, <2>1 DEF OpenPush, phone, Shared, Grows
  <2>2. CASE CommitFinish(f)
    BY <1>3, <1>4, <1>6, <2>2 DEF CommitFinish, Meta, Fingerprint, Active
  <2>3. CASE AdoptFinish(f)
    BY <1>3, <1>6, <2>3 DEF AdoptFinish, Meta, Fingerprint
  <2> QED
    BY <2>1, <2>2, <2>3
<1>9. /\ session' \in {None} \cup Doc
      /\ shown' \in {None} \cup Doc
      /\ pending' \in 0..Version'
      /\ sheet' \in BOOLEAN
  BY <1>2, <1>5, <1>6 DEF OpenPush, AdoptFinish, CommitFinish, DropPending, phone, Shared
<1>10. /\ patch' \in [pc : {"none", "check", "merge", "write"}, fp : Fingerprint, snap : Meta]
       /\ patch'.pc = "write" => patch'.snap.ver \in endorsed'
  <2>1. patch' = patch \/ (patch.pc = "check" /\ patch' = [patch EXCEPT !.fp = Zeros])
    BY DEF OpenPush, AdoptFinish, CommitFinish, Blanked
  <2> QED
    BY <1>5, <2>1 DEF Shared, Grows, Fingerprint
<1>11. \A u \in late' : u.ver \in endorsed'
  BY <1>3 DEF Shared
<1>12. Shared'
  BY <1>3, <1>5, <1>7, <1>8, <1>9, <1>10, <1>11 DEF Shared
<1> QED
  BY <1>7, <1>12

\* A longer history of documents keeps what Shared says of it.
LEMMA Appending ==
  ASSUME Shared, NEW d \in Doc, remote' = Append(remote, d), endorsed' = endorsed
  PROVE  /\ remote' \in Seq(Doc) /\ remote' # <<>>
         /\ Version' = Version + 1
         /\ Grows
         /\ endorsed' \subseteq 1..Version'
  BY DEF Shared, Grows, Version

\* The steps of an upload at the server, and its failure.
LEMMA UploadSteps ==
  ASSUME Shared, AllSound, NEW f \in FlightId, ServerHandles(f) \/ PushFailed(f)
  PROVE  Shared' /\ AllSound'
<1> DEFINE fl == flight[f]
<1>1. Sound(fl, Version, endorsed) /\ fl \in Active
  <2>1. Sound(fl, Version, endorsed)
    BY DEF AllSound
  <2>2. fl.pc # "idle"
    BY DEF ServerHandles, PushFailed
  <2> QED
    BY <2>1, <2>2 DEF Sound, Idle
<1>2. Version \in Nat
  BY DEF Shared, Version
<1>3. CASE ServerHandles(f) /\ fl.rem = Version
  <2> DEFINE g == Answered(fl, "accepted", Version + 1)
  <2>1. /\ fl.up \in Doc
        /\ remote' = Append(remote, fl.up)
        /\ Set(f, g)
        /\ UNCHANGED <<late, phone, patch, edits, endorsed>>
    BY <1>1, <1>3 DEF ServerHandles, Sound, Answered
  <2>2. /\ remote' \in Seq(Doc) /\ remote' # <<>>
        /\ Version' = Version + 1
        /\ Grows
        /\ endorsed' \subseteq 1..Version'
    BY <2>1, Appending
  <2>3. Sound(g, Version', endorsed')
    <3>1. g \in Active /\ g.pc = "accepted" /\ g.rem = Version + 1
      <4>1. "accepted" \in Pc /\ Version + 1 \in Nat
        BY <1>2 DEF Pc
      <4> QED
        BY <1>1, <4>1, AnsweredFlight
    <3> QED
      BY <1>2, <2>2, <3>1 DEF Sound
  <2>4. AllSound' /\ (DOMAIN flight = FlightId /\ flight = [h \in FlightId |-> flight[h]])'
    BY <2>1, <2>2, <2>3, OneFlight
  <2>5. Shared'
    BY <1>2, <2>1, <2>2, <2>4 DEF Shared, phone
  <2> QED
    BY <2>4, <2>5
<1>4. CASE ServerHandles(f) /\ fl.rem # Version
  <2> DEFINE g == [fl EXCEPT !.pc = "refused", !.up = None]
  <2>1. Set(f, g) /\ UNCHANGED <<remote, late, phone, patch, edits, endorsed>>
    BY <1>4 DEF ServerHandles
  <2>2. Sound(g, Version', endorsed')
    BY <1>1, <1>4, <2>1 DEF ServerHandles, Sound, Active, Pc, Version
  <2>3. AllSound' /\ (DOMAIN flight = FlightId /\ flight = [h \in FlightId |-> flight[h]])'
    BY <2>1, <2>2, Standing, OneFlight
  <2>4. Shared'
    BY <2>1, <2>3 DEF Shared, phone, Version
  <2> QED
    BY <2>3, <2>4
<1>5. CASE PushFailed(f)
  <2>1. /\ Set(f, Idle)
        /\ UNCHANGED <<remote, blob, meta, session, shown, sheet, patch, edits, endorsed>>
    BY <1>5 DEF PushFailed, End
  <2>2. Sound(Idle, Version', endorsed')
    BY IdleIsSound
  <2>3. AllSound' /\ (DOMAIN flight = FlightId /\ flight = [h \in FlightId |-> flight[h]])'
    BY <2>1, <2>2, Standing, OneFlight
  <2>4. late' \subseteq Upload /\ \A u \in late' : u.ver \in endorsed
    BY <1>1, <1>5 DEF PushFailed, Shared, Sound, Active, Upload
  <2>5. pending' \in 0..Version
    BY <1>2, <1>5 DEF PushFailed, DropPending, Shared
  <2>6. Shared'
    BY <2>1, <2>3, <2>4, <2>5 DEF Shared, Version
  <2> QED
    BY <2>3, <2>6
<1> QED
  BY <1>3, <1>4, <1>5

-----------------------------------------------------------------------------
(* The steps of the user. *)

\* Every way to start a pass (runSync, resolveConflict) keeps the invariant.
LEMMA StartingSteps ==
  ASSUME Shared, AllSound, SyncStart \/ ResolveEvaporated \/ KeepLocal \/ TakeRemote
  PROVE  Shared' /\ AllSound'
<1>1. Version \in Nat /\ session \in Doc
  BY DEF Shared, Version, SyncStart, ResolveEvaporated, KeepLocal, TakeRemote, ResolveStart,
         Unlocked
<1>2. CASE SyncStart \/ ResolveEvaporated
  <2>1. PICK f \in FlightId : Set(f, Begun("pass"))
    BY <1>2 DEF SyncStart, ResolveEvaporated, FlightId
  <2>2. UNCHANGED <<remote, late, blob, meta, session, shown, pending, patch, edits, endorsed>>
    BY <1>2 DEF SyncStart, ResolveEvaporated, phone
  <2>3. Sound(Begun("pass"), Version', endorsed')
    BY <1>1, BegunIsSound
  <2>4. AllSound' /\ (DOMAIN flight = FlightId /\ flight = [h \in FlightId |-> flight[h]])'
    BY <2>1, <2>2, <2>3, Standing, OneFlight
  <2>5. sheet' \in BOOLEAN
    BY <1>2 DEF SyncStart, ResolveEvaporated, ResolveStart, phone, Shared
  <2>6. Shared'
    BY <2>2, <2>4, <2>5 DEF Shared, Version
  <2> QED
    BY <2>4, <2>6
<1>3. CASE KeepLocal
  <2> DEFINE g == Moved(Begun("keep"), "push", pending)
  <2>1. /\ Set("resolve", g)
        /\ pending # 0
        /\ endorsed' = endorsed \cup {pending}
        /\ sheet' = FALSE
        /\ UNCHANGED <<remote, late, blob, meta, session, shown, pending, patch, edits>>
    BY <1>3 DEF KeepLocal, ResolveStart, Moved
  <2>2. pending \in 1..Version
    BY <1>1, <2>1 DEF Shared
  <2>3. Grows /\ endorsed' \subseteq 1..Version'
    BY <2>1, <2>2, Endorsing
  <2>4. Begun("keep") \in Active
    BY <1>1, BegunIsActive
  <2>5. Sound(g, Version, endorsed \cup {pending})
    <3>1. g \in Active /\ g.pc = "push" /\ g.rem = pending
      <4>1. "push" \in Pc /\ pending \in Nat
        BY <1>1, <2>2 DEF Pc
      <4> QED
        BY <2>4, <4>1, MovedFlight
    <3> QED
      BY <2>2, <3>1 DEF Sound
  <2>6. AllSound' /\ (DOMAIN flight = FlightId /\ flight = [h \in FlightId |-> flight[h]])'
    BY <2>1, <2>3, <2>5, OneFlight DEF FlightId, Version
  <2>7. Shared'
    BY <2>1, <2>3, <2>6 DEF Shared, Version, Grows
  <2> QED
    BY <2>6, <2>7
<1>4. CASE TakeRemote
  <2> DEFINE g == Moved(Begun("take"), "adopt", pending)
  <2>1. /\ Set("resolve", g)
        /\ pending # 0
        /\ blob' = remote[pending]
        /\ sheet' = FALSE
        /\ UNCHANGED <<remote, late, meta, session, shown, pending, patch, edits, endorsed>>
    BY <1>4 DEF TakeRemote, ResolveStart, Moved
  <2>2. pending \in 1..Version /\ remote[pending] \in Doc
    BY <1>1, <2>1, IssuedDoc DEF Shared
  <2>3. Begun("take") \in Active
    BY <1>1, BegunIsActive
  <2>4. Sound(g, Version, endorsed)
    <3>1. g \in Active /\ g.pc = "adopt" /\ g.rem = pending
      <4>1. "adopt" \in Pc /\ pending \in Nat
        BY <1>1, <2>2 DEF Pc
      <4> QED
        BY <2>3, <4>1, MovedFlight
    <3> QED
      BY <2>2, <3>1 DEF Sound
  <2>5. AllSound' /\ (DOMAIN flight = FlightId /\ flight = [h \in FlightId |-> flight[h]])'
    BY <2>1, <2>4, Standing, OneFlight DEF FlightId, Version
  <2>6. Shared'
    BY <2>1, <2>2, <2>5 DEF Shared, Version
  <2> QED
    BY <2>5, <2>6
<1> QED
  BY <1>2, <1>3, <1>4

\* So does an edit of a host, in the middle of any pass.
LEMMA EditStep ==
  ASSUME Shared, AllSound, Edit
  PROVE  Shared' /\ AllSound'
<1>1. UNCHANGED <<remote, late, meta, pending, sheet, endorsed>> /\ Grows
  BY Standing DEF Edit
<1>2. PICK d \in Doc : blob' = d /\ session' = d /\ shown' = d
  <2>1. session \in Doc
    BY DEF Edit, Unlocked, Shared
  <2> QED
    BY <2>1 DEF Edit, Doc
<1>3. flight \in [FlightId -> {Idle} \cup Active]
  BY DEF Shared, AllSound, Sound
<1>4. AllSound' /\ (DOMAIN flight = FlightId /\ flight = [f \in FlightId |-> flight[f]])'
  BY <1>1, <1>3, SoundGrows, WipedKeepsFlights DEF Edit, AllSound, Sound
<1>5. /\ patch' \in [pc : {"none", "check", "merge", "write"}, fp : Fingerprint, snap : Meta]
      /\ patch'.pc = "write" => patch'.snap.ver \in endorsed
  BY DEF Edit, Blanked, Shared, Fingerprint
<1>6. edits' \in Nat
  BY DEF Edit, Shared
<1>7. Shared'
  BY <1>1, <1>2, <1>4, <1>5, <1>6 DEF Shared, Version
<1> QED
  BY <1>4, <1>7

\* So does a lock, in the middle of any pass.
LEMMA LockStep ==
  ASSUME Shared, AllSound, Lock
  PROVE  Shared' /\ AllSound'
<1>1. /\ UNCHANGED <<remote, late, blob, meta, edits, endorsed>> /\ Grows
      /\ session' = None /\ shown' = None /\ pending' = 0 /\ sheet' = FALSE
  BY Standing DEF Lock
<1>2. ASSUME NEW f \in FlightId PROVE Sound(flight'[f], Version, endorsed)
  <2> DEFINE fl == flight[f]
  <2>1. Sound(fl, Version, endorsed)
    BY DEF AllSound
  <2>2. CASE fl.pc = "idle"
    BY <2>2, IdleIsSound DEF Lock
  <2>3. CASE fl.pc # "idle"
    <3> DEFINE w == [fl EXCEPT !.wiped = TRUE, !.live = FALSE]
    <3>1. fl \in Active
      BY <2>1, <2>3 DEF Sound, Idle
    <3>2. /\ w \in Active
          /\ w.pc = fl.pc /\ w.rem = fl.rem /\ w.base = fl.base /\ w.up = fl.up
      BY <3>1 DEF Active
    <3>3. flight'[f] = w
      BY <2>3 DEF Lock
    <3> QED
      BY <2>1, <3>2, <3>3 DEF Sound
  <2> QED
    BY <2>2, <2>3
<1>3. AllSound' /\ (DOMAIN flight = FlightId /\ flight = [f \in FlightId |-> flight[f]])'
  BY <1>1, <1>2 DEF Lock, AllSound, Version
<1>4. /\ patch' \in [pc : {"none", "check", "merge", "write"}, fp : Fingerprint, snap : Meta]
      /\ patch'.pc = "write" => patch'.snap.ver \in endorsed
  BY DEF Lock, Blanked, Shared, Fingerprint
<1>5. 0 \in 0..Version
  BY DEF Shared, Version
<1>6. Shared'
  BY <1>1, <1>3, <1>4, <1>5 DEF Shared, Version
<1> QED
  BY <1>3, <1>6

\* So does an unlock, even with a pass of the last session in flight.
LEMMA UnlockStep ==
  ASSUME Shared, AllSound, Unlock
  PROVE  Shared' /\ AllSound'
<1>1. AllSound'
  BY Standing, NoFlight DEF Unlock
<1>2. patch' \in [pc : {"none", "check", "merge", "write"}, fp : Fingerprint, snap : Meta]
  BY DEF Unlock, Shared, Meta, NoMeta, Fingerprint
<1>3. Shared'
  BY <1>2 DEF Unlock, Shared, Version
<1> QED
  BY <1>1, <1>3

\* So does a crash at any point: only the disk stays.
LEMMA CrashStep ==
  ASSUME Shared, AllSound, Crash
  PROVE  Shared' /\ AllSound'
<1>1. AllSound' /\ (DOMAIN flight = FlightId /\ flight = [f \in FlightId |-> flight[f]])'
  BY IdleIsSound DEF Crash, AllSound
<1>2. late' \subseteq Upload /\ \A u \in late' : u.ver \in endorsed
  <2>1. CASE late' = late
    BY <2>1 DEF Shared
  <2>2. CASE late' # late
    <3>1. PICK f \in FlightId : /\ flight[f].pc = "sent"
                                /\ late' = {[ver |-> flight[f].rem, doc |-> flight[f].up]}
      BY <2>2 DEF Crash
    <3>2. flight[f].rem \in Nat /\ flight[f].up \in Doc /\ flight[f].rem \in endorsed
      BY <3>1 DEF AllSound, Sound, Active, Idle
    <3> QED
      BY <3>1, <3>2 DEF Upload
  <2> QED
    BY <2>1, <2>2
<1>3. patch' \in [pc : {"none", "check", "merge", "write"}, fp : Fingerprint, snap : Meta]
  BY DEF Crash, NoPatch, Meta, NoMeta, Fingerprint
<1>4. 0 \in 0..Version
  BY DEF Shared, Version
<1>5. Shared'
  BY <1>1, <1>2, <1>3, <1>4 DEF Crash, Shared, Version, NoPatch
<1> QED
  BY <1>1, <1>5

-----------------------------------------------------------------------------
(* The partial writes of the metadata file, and the other writers. *)

\* So do partial writes of the metadata file, which bring an old version back.
LEMMA PatchSteps ==
  ASSUME Shared, AllSound, BaselineCheck \/ ProjectPatch \/ PatchRead \/ PatchWrite
  PROVE  Shared' /\ AllSound'
<1>1. UNCHANGED <<remote, late, blob, session, shown, pending, sheet, flight, edits, endorsed>>
  BY DEF BaselineCheck, ProjectPatch, PatchRead, PatchWrite, phone
<1>2. AllSound'
  BY <1>1, Standing, NoFlight
<1>3. /\ patch' \in [pc : {"none", "check", "merge", "write"}, fp : Fingerprint, snap : Meta]
      /\ patch'.pc = "write" => patch'.snap.ver \in endorsed
  <2>1. CASE BaselineCheck
    BY <2>1 DEF BaselineCheck, NoPatch, NoMeta, Meta, Fingerprint, Shared
  <2>2. CASE ProjectPatch
    BY <2>2 DEF ProjectPatch, NoPatch, NoMeta, Meta, Fingerprint, Shared
  <2>3. CASE PatchRead
    BY <2>3 DEF PatchRead, phone, Shared
  <2>4. CASE PatchWrite
    BY <2>4 DEF PatchWrite, NoPatch, NoMeta, Meta, Fingerprint, Shared
  <2> QED
    BY <2>1, <2>2, <2>3, <2>4
<1>4. meta' \in Meta /\ meta'.ver \in endorsed
  <2>1. CASE PatchWrite
    <3> DEFINE fp == IF patch.fp = None THEN patch.snap.fp ELSE patch.fp
    <3>1. /\ patch.snap \in Meta /\ patch.snap.ver \in endorsed
          /\ fp \in Fingerprint
      BY <2>1 DEF PatchWrite, Shared, Meta
    <3>2. meta' = [patch.snap EXCEPT !.fp = fp]
      BY <2>1 DEF PatchWrite
    <3> QED
      BY <3>1, <3>2 DEF Meta
  <2>2. CASE ~PatchWrite
    BY <2>2 DEF BaselineCheck, ProjectPatch, PatchRead, phone, Shared
  <2> QED
    BY <2>1, <2>2
<1>5. Shared'
  BY <1>1, <1>3, <1>4 DEF Shared, Version
<1> QED
  BY <1>2, <1>5

\* So do the other devices, and an upload handled after its sender gave up.
LEMMA OtherWriters ==
  ASSUME Shared, AllSound, OtherDevice \/ LateUpload
  PROVE  Shared' /\ AllSound'
<1>1. UNCHANGED <<phone, flight, patch, edits, endorsed>>
  BY DEF OtherDevice, LateUpload
<1>2. late' \subseteq late
  BY DEF OtherDevice, LateUpload
<1>3. remote' = remote \/ \E d \in Doc : remote' = Append(remote, d)
  BY DEF OtherDevice, LateUpload, Shared, Upload
<1>4. /\ remote' \in Seq(Doc) /\ remote' # <<>>
      /\ Grows
      /\ endorsed' \subseteq 1..Version'
  <2>1. CASE remote' = remote
    BY <1>1, <2>1, Standing DEF Shared, Version
  <2>2. CASE \E d \in Doc : remote' = Append(remote, d)
    BY <1>1, <2>2, Appending
  <2> QED
    BY <1>3, <2>1, <2>2
<1>5. AllSound'
  BY <1>1, <1>4, NoFlight
<1>6. Shared'
  BY <1>1, <1>2, <1>4 DEF Shared, phone, Grows
<1> QED
  BY <1>5, <1>6

-----------------------------------------------------------------------------
(* The theorems. *)

\* A phone that has just been paired satisfies the invariant.
LEMMA InitSound == Init => IInv
<1> SUFFICES ASSUME Init PROVE Shared /\ AllSound
  BY IInvSplits
<1>1. PICK d \in Doc : remote = <<d>> /\ blob = d
  BY DEF Init
<1>2. remote \in Seq(Doc) /\ remote # <<>> /\ Version = 1
  BY <1>1 DEF Version
<1>3. AllSound
  BY IdleIsSound DEF Init, AllSound
<1>4. /\ meta \in Meta /\ meta.ver \in endorsed
      /\ patch \in [pc : {"none", "check", "merge", "write"}, fp : Fingerprint, snap : Meta]
      /\ patch.pc # "write"
  BY DEF Init, Meta, Fingerprint, NoPatch, NoMeta
<1>5. DOMAIN flight = FlightId /\ flight = [f \in FlightId |-> flight[f]]
  BY DEF Init
<1>6. pending \in 0..Version /\ endorsed \subseteq 1..Version
  BY <1>2 DEF Init
<1>7. Shared
  BY <1>1, <1>2, <1>4, <1>5, <1>6 DEF Init, Shared
<1> QED
  BY <1>3, <1>7

\* Every step keeps the invariant.
LEMMA StepSound == IInv /\ [Next]_vars => IInv'
<1> SUFFICES ASSUME Shared, AllSound, [Next]_vars PROVE Shared' /\ AllSound'
  <2>1. IInv' <=> Shared' /\ AllSound'
    BY IInvSplits, PTL
  <2> QED
    BY <2>1, IInvSplits
<1>1. CASE \E f \in FlightId : PassStep(f)
  BY <1>1, ReadingSteps, DecidingSteps, EndorsingSteps, UploadSteps DEF PassStep
<1>2. CASE User
  BY <1>2, StartingSteps, EditStep, LockStep, UnlockStep DEF User
<1>3. CASE Crash
  BY <1>3, CrashStep
<1>4. CASE BaselineCheck \/ ProjectPatch \/ PatchRead \/ PatchWrite
  BY <1>4, PatchSteps
<1>5. CASE OtherDevice \/ LateUpload
  BY <1>5, OtherWriters
<1>6. CASE UNCHANGED vars
  BY <1>6 DEF vars, phone, Shared, AllSound, Version
<1> QED
  BY <1>1, <1>2, <1>3, <1>4, <1>5, <1>6 DEF Next

\* The invariant holds for every set of hosts, bounds and overlaps.
THEOREM Invariance == Spec => []IInv
  BY InitSound, StepSound, PTL DEF Spec

\* Every variable keeps its type: no step leaves a pass without its document,
\* whatever locks and crashes come in between (personal.ts, deps.ts).
THEOREM TypeCorrect == Spec => []TypeOK
  BY Invariance, PTL DEF IInv

\* Every version that may become the base of a push was endorsed.
THEOREM BasesAreEndorsed == Spec => []BaseEndorsed
  BY Invariance, PTL DEF IInv

\* An upload that replaces a version replaces an endorsed one.
LEMMA ReplacesEndorsed == IInv => [ReplacesVersion /\ remote' # remote => Version \in endorsed]_vars
<1> SUFFICES ASSUME IInv, ReplacesVersion, remote' # remote PROVE Version \in endorsed
  OBVIOUS
<1>1. CASE LateUpload
  BY <1>1 DEF LateUpload, IInv, BaseEndorsed
<1>2. ASSUME NEW f \in FlightId, ServerHandles(f) PROVE Version \in endorsed
  BY <1>2 DEF ServerHandles, IInv, BaseEndorsed
<1> QED
  BY <1>1, <1>2 DEF ReplacesVersion

\* No upload of this phone replaces a version it has not looked at.
THEOREM NeverBlind == Spec => NoBlindOverwrite
  BY Invariance, ReplacesEndorsed, PTL DEF NoBlindOverwrite

-----------------------------------------------------------------------------
(* Disk, memory and the contract, when nothing but a late upload overlaps. *)

\* At most one pass is in flight.
Lone == \A f, g \in FlightId : flight[f].pc # "idle" /\ flight[g].pc # "idle" => f = g

\* What a pass holds is what the phone holds: the session stands still under it, and the
\* baseline; what it decided, it decided by the table.
Held(fl) ==
  /\ session = fl.fp /\ ~fl.wiped /\ patch.pc = "none"
  /\ fl.op \in {"keep", "take"} => ~sheet
  /\ fl.op = "take" => fl.pc = "adopt"
  /\ fl.pc \in {"fetch", "open"} => fl.base = meta
  /\ fl.pc = "push" /\ fl.op # "keep" =>
       fl.fp # meta.fp /\ (fl.rem = meta.ver \/ remote[fl.rem] = {})
  /\ fl.pc = "sent" => fl.up = fl.fp
  /\ fl.pc \in {"agree", "accepted", "commit"} => remote[fl.rem] = fl.fp
  /\ fl.pc = "adopt" => blob = remote[fl.rem]
  /\ fl.pc = "adopt" /\ fl.op # "take" => fl.fp \in {meta.fp, {}}

AllHeld == \A f \in FlightId : flight[f].pc # "idle" => Held(flight[f])

\* A fingerprint that is still to be recorded is that of the blob, at its version; it is
\* recorded before anything else may happen.
Recording ==
  /\ meta.fp = None => blob = remote[meta.ver] /\ (Unlocked => patch.pc # "none")
  /\ patch.pc # "none" => Unlocked /\ patch.fp = blob
  /\ patch.pc = "merge" => meta.fp = None
  /\ patch.pc = "write" => meta.fp = None /\ patch.snap = meta

Based == BaselineHonest /\ Recording

\* The inductive invariant of disk and memory.
Honest == Lone /\ AllHeld /\ Based /\ EditDurable

\* The overlaps this rests on.
Apart == ~May("edit") /\ ~May("lock") /\ ~May("resolve") /\ ~May("meta")

-----------------------------------------------------------------------------
(* The one pass, and what the contract sees of it. *)

\* The upload a pass has under way.
SentBy(fl) == IF fl.pc = "sent" THEN {[ver |-> fl.rem, doc |-> fl.up]} ELSE {}

\* No pass but f is in flight.
Alone(f) == \A g \in FlightId \ {f} : flight[g] = Idle

\* With one pass in flight, what travels is late or its own, and what is asked is on the
\* sheet or being carried out by it.
View ==
  \A f \in FlightId :
    Alone(f) => /\ Travelling = late \cup SentBy(flight[f])
                /\ Asked <=> sheet \/ flight[f].op \in {"keep", "take"}

\* So it is in every state: the two mapped variables are read off the one pass.
LEMMA Views == View
<1> SUFFICES ASSUME NEW f \in FlightId, Alone(f)
             PROVE  /\ Travelling = late \cup SentBy(flight[f])
                    /\ Asked <=> sheet \/ flight[f].op \in {"keep", "take"}
  BY DEF View
<1>1. \A g \in FlightId : g = f \/ (flight[g].pc = "idle" /\ flight[g].op = "pass")
  BY DEF Alone, Idle
<1>2. Travelling = late \cup SentBy(flight[f])
  BY <1>1 DEF Travelling, SentBy
<1>3. Asked <=> sheet \/ flight[f].op \in {"keep", "take"}
  BY <1>1 DEF Asked
<1> QED
  BY <1>2, <1>3

\* With nothing in flight, the uploads are the late ones, and the sheet is the question.
LEMMA QuietView ==
  ASSUME IInv, Quiet
  PROVE  /\ \A f \in FlightId : flight[f] = Idle /\ Alone(f)
         /\ Travelling = late /\ (Asked <=> sheet)
<1>1. \A f \in FlightId : flight[f] = Idle
  BY IInvSplits DEF Quiet, AllSound, Sound, Active, Pc
<1>2. \A f \in FlightId : Alone(f)
  BY <1>1 DEF Alone
<1>3. "sync" \in FlightId
  BY DEF FlightId
<1>4. Idle.pc = "idle" /\ Idle.op = "pass"
  BY DEF Idle
<1>5. SentBy(Idle) = {}
  BY <1>4 DEF SentBy
<1>6. Travelling = late \cup SentBy(Idle) /\ (Asked <=> sheet \/ Idle.op \in {"keep", "take"})
  BY <1>1, <1>2, <1>3, Views DEF View
<1> QED
  BY <1>1, <1>2, <1>4, <1>5, <1>6

\* What is known while pass f is in flight.
LEMMA InFlight ==
  ASSUME IInv, Honest, NEW f \in FlightId, flight[f].pc # "idle"
  PROVE  /\ flight[f] \in Active /\ Alone(f) /\ Held(flight[f])
         /\ session = flight[f].fp /\ session \in Doc /\ Unlocked /\ LocalDoc = session
         /\ meta.fp # None /\ meta \in Meta /\ meta.ver \in 1..Version /\ Version \in Nat
         /\ flight[f].pc \notin {"idle", "load", "fetch"} => flight[f].rem \in 1..Version
         /\ flight[f].pc # "adopt" => blob = session
         /\ Travelling = late \cup SentBy(flight[f])
         /\ Asked <=> sheet \/ flight[f].op \in {"keep", "take"}
<1>1. Shared /\ Sound(flight[f], Version, endorsed) /\ AllSound
  BY IInvSplits DEF AllSound
<1>2. flight[f] \in Active
  BY <1>1 DEF Sound, Idle
<1>3. Held(flight[f])
  BY DEF Honest, AllHeld
<1>4. session = flight[f].fp /\ session \in Doc /\ Unlocked
  BY <1>2, <1>3, DocIsKnown DEF Held, Active, Unlocked
<1>5. \A g \in FlightId \ {f} : flight[g].pc = "idle"
  BY DEF Honest, Lone
<1>6. Alone(f)
  BY <1>1, <1>5 DEF Alone, AllSound, Sound, Active, Pc
<1>7. patch.pc = "none"
  BY <1>3 DEF Held
<1>8. meta.fp # None /\ (flight[f].pc # "adopt" => blob = session)
  BY <1>4, <1>5, <1>7 DEF Honest, Based, Recording, EditDurable
<1>9. /\ meta \in Meta /\ meta.ver \in 1..Version /\ Version \in Nat
      /\ flight[f].pc \notin {"idle", "load", "fetch"} => flight[f].rem \in 1..Version
  BY <1>1 DEF Shared, Sound, Version
<1> QED
  BY <1>2, <1>3, <1>4, <1>6, <1>8, <1>9, Views DEF View, LocalDoc

\* A step that sets the one pass has to answer for that pass only.
LEMMA OneHeld ==
  ASSUME NEW f \in FlightId, Alone(f), DOMAIN flight = FlightId, NEW g, Set(f, g),
         g.pc # "idle" => Held(g)'
  PROVE  /\ Lone' /\ AllHeld'
         /\ Travelling' = late' \cup SentBy(g)
         /\ Asked' <=> sheet' \/ g.op \in {"keep", "take"}
<1>1. flight'[f] = g /\ \A h \in FlightId \ {f} : flight'[h] = Idle /\ flight'[h].pc = "idle"
  BY DEF Set, Alone, Idle
<1>2. View'
  BY Views, PTL
<1>3. Alone(f)'
  BY <1>1 DEF Alone
<1> QED
  BY <1>1, <1>2, <1>3 DEF View, Lone, AllHeld, SentBy

\* A step the contract does not see, or sees as the end of a question.
LEMMA Unseen ==
  ASSUME UNCHANGED <<remote, LocalDoc, meta, Travelling>>, Asked' => Asked
  PROVE  [Contract!Next]_(Contract!vars)
<1>1. CASE ~Asked'
  <2>1. Contract!Withdraw
    BY <1>1 DEF Contract!Withdraw
  <2> QED
    BY <2>1 DEF Contract!Next
<1>2. CASE Asked'
  <2>1. Asked' = Asked
    BY <1>2, SMT DEF Asked
  <2> QED
    BY <2>1 DEF Contract!vars
<1> QED
  BY <1>1, <1>2

\* The baseline stays honest while the server's versions keep their documents.
LEMMA StillBased ==
  ASSUME IInv, Based, UNCHANGED <<meta, blob, session, patch>>,
         \A v \in 1..Version : remote'[v] = remote[v]
  PROVE  Based'
<1>1. meta.ver \in 1..Version
  BY DEF IInv, BaseEndorsed
<1> QED
  BY <1>1 DEF Based, BaselineHonest, Recording, Unlocked

-----------------------------------------------------------------------------
(* The steps of a pass. *)

\* A step that only moves the pass along: the contract sees none of it.
LEMMA Along ==
  ASSUME IInv, Honest, NEW f \in FlightId, flight[f].pc \notin {"idle", "sent", "adopt"},
         NEW g, Set(f, g), g.pc # "sent", g.pc # "idle" => Held(g)',
         g.op \in {"keep", "take"} => g.op = flight[f].op,
         UNCHANGED <<remote, late, meta, session, sheet, patch>>,
         g.pc = "adopt" \/ UNCHANGED blob
  PROVE  Honest' /\ [Contract!Next]_(Contract!vars)
<1>1. /\ Alone(f) /\ Unlocked /\ LocalDoc = session /\ meta.fp # None /\ blob = session
      /\ Travelling = late \cup SentBy(flight[f]) /\ SentBy(flight[f]) = {}
      /\ Asked <=> sheet \/ flight[f].op \in {"keep", "take"}
      /\ patch.pc = "none"
  BY InFlight DEF SentBy, Held
<1>2. DOMAIN flight = FlightId
  BY IInvSplits DEF Shared
<1>3. /\ Lone' /\ AllHeld'
      /\ Travelling' = late' \cup SentBy(g) /\ SentBy(g) = {}
      /\ Asked' <=> sheet' \/ g.op \in {"keep", "take"}
  BY <1>1, <1>2, OneHeld DEF SentBy
<1>4. LocalDoc' = session'
  BY <1>1 DEF LocalDoc, Unlocked
<1>5. Based'
  BY <1>1 DEF Honest, Based, BaselineHonest, Recording
<1>6. EditDurable'
  BY <1>1, <1>2 DEF EditDurable, Set
<1>7. [Contract!Next]_(Contract!vars)
  <2>1. UNCHANGED <<remote, LocalDoc, meta, Travelling>> /\ (Asked' => Asked)
    BY <1>1, <1>3, <1>4
  <2> QED
    BY <2>1, Unseen
<1> QED
  BY <1>3, <1>5, <1>6, <1>7 DEF Honest

\* The steps that load, fetch, open and decide, and the answers to an upload.
LEMMA AlongSteps ==
  ASSUME IInv, Honest, NEW f \in FlightId,
         LoadState(f) \/ FetchNothing(f) \/ FetchDone(f) \/ FetchPush(f) \/ FetchMoved(f)
           \/ OpenFailed(f) \/ OpenSame(f) \/ OpenAdopt(f) \/ OpenPush(f)
           \/ PushAccepted(f) \/ PushRefused(f)
  PROVE  Honest' /\ [Contract!Next]_(Contract!vars)
<1> DEFINE fl == flight[f]
<1>0. /\ fl.pc \notin {"idle", "sent", "adopt"}
      /\ UNCHANGED <<remote, late, meta, session, sheet, patch>>
  BY DEF LoadState, FetchNothing, FetchDone, FetchPush, FetchMoved, OpenFailed, OpenSame, OpenAdopt,
         OpenPush, PushAccepted, PushRefused, phone
<1>1. /\ fl \in Active /\ Held(fl) /\ Unlocked /\ session \in Doc /\ meta.fp # None
      /\ fl.pc \notin {"idle", "load", "fetch"} => fl.rem \in 1..Version
  BY <1>0, InFlight
<1>2. PICK g : /\ Set(f, g) /\ g.pc # "sent" /\ (g.pc = "adopt" \/ UNCHANGED blob)
               /\ g.op \in {"keep", "take"} => g.op = fl.op
               /\ g.pc # "idle" => Held(g)'
  <2>1. CASE Set(f, Idle) /\ UNCHANGED blob
    BY <2>1 DEF Idle
  <2>2. CASE LoadState(f)
    <3>1. PICK g : g = [fl EXCEPT !.pc = "fetch", !.base = meta]
      OBVIOUS
    <3>2. g.pc = "fetch" /\ g.base = meta /\ g.op = fl.op /\ g.fp = fl.fp /\ g.wiped = fl.wiped
      BY <1>1, <3>1 DEF Active
    <3>3. Set(f, g) /\ UNCHANGED blob /\ fl.pc = "load"
      BY <2>2, <3>1 DEF LoadState, phone
    <3>4. Held(g)'
      BY <1>0, <1>1, <3>2, <3>3 DEF Held
    <3> QED
      BY <3>2, <3>3, <3>4
  <2>3. CASE FetchPush(f)
    <3>1. PICK g : g = [fl EXCEPT !.pc = "push", !.rem = Version, !.base = NoMeta, !.wiped = FALSE]
      OBVIOUS
    <3>2. g.pc = "push" /\ g.rem = Version /\ g.op = fl.op /\ g.fp = fl.fp /\ g.wiped = FALSE
      BY <1>1, <3>1 DEF Active
    <3>3. Set(f, g) /\ UNCHANGED blob /\ fl.pc = "fetch"
      BY <2>3, <3>1 DEF FetchPush, phone
    <3>5. fl.fp # meta.fp /\ Version = meta.ver
      BY <1>1, <2>3, <3>3 DEF FetchPush, LocalChanged, RemoteMoved, Held
    <3>4. Held(g)'
      BY <1>0, <1>1, <3>2, <3>3, <3>5 DEF Held
    <3> QED
      BY <3>2, <3>3, <3>4
  <2>4. CASE FetchMoved(f)
    <3>1. PICK g : g = [fl EXCEPT !.pc = "open", !.rem = Version]
      OBVIOUS
    <3>2. g.pc = "open" /\ g.base = fl.base /\ g.op = fl.op /\ g.fp = fl.fp /\ g.wiped = fl.wiped
      BY <1>1, <3>1 DEF Active
    <3>3. Set(f, g) /\ UNCHANGED blob /\ fl.pc = "fetch"
      BY <2>4, <3>1 DEF FetchMoved, phone
    <3>4. Held(g)'
      BY <1>0, <1>1, <3>2, <3>3 DEF Held
    <3> QED
      BY <3>2, <3>3, <3>4
  <2>5. CASE OpenSame(f)
    <3>1. PICK g : g = [fl EXCEPT !.pc = "agree", !.base = NoMeta]
      OBVIOUS
    <3>2. g.pc = "agree" /\ g.rem = fl.rem /\ g.op = fl.op /\ g.fp = fl.fp /\ g.wiped = fl.wiped
      BY <1>1, <3>1 DEF Active
    <3>3. Set(f, g) /\ UNCHANGED blob /\ fl.pc = "open" /\ remote[fl.rem] = fl.fp
      BY <2>5, <3>1 DEF OpenSame, phone
    <3>4. Held(g)'
      BY <1>0, <1>1, <3>2, <3>3 DEF Held
    <3> QED
      BY <3>2, <3>3, <3>4
  <2>6. CASE OpenAdopt(f)
    <3>1. PICK g : g = [fl EXCEPT !.pc = "adopt", !.base = NoMeta]
      OBVIOUS
    <3>2. g.pc = "adopt" /\ g.rem = fl.rem /\ g.op = fl.op /\ g.fp = fl.fp /\ g.wiped = fl.wiped
      BY <1>1, <3>1 DEF Active
    <3>3. Set(f, g) /\ fl.pc = "open" /\ blob' = remote[fl.rem]
      BY <2>6, <3>1 DEF OpenAdopt
    <3>5. fl.fp \in {meta.fp, {}}
      <4>1. fl.fp = fl.base.fp \/ Cardinality(fl.fp) = 0
        BY <1>1, <2>6 DEF OpenAdopt, LocalChanged, LocalHosts, Held
      <4>2. Cardinality(fl.fp) = 0 => fl.fp = {}
        BY <1>1, HostsAreFinite, FS_Subset, FS_EmptySet DEF Active, Doc
      <4> QED
        BY <1>1, <3>3, <4>1, <4>2 DEF Held
    <3>4. Held(g)'
      BY <1>0, <1>1, <3>2, <3>3, <3>5 DEF Held
    <3> QED
      BY <3>2, <3>3, <3>4
  <2>7. CASE OpenPush(f)
    <3>1. PICK g : g = [fl EXCEPT !.pc = "push", !.base = NoMeta]
      OBVIOUS
    <3>2. g.pc = "push" /\ g.rem = fl.rem /\ g.op = fl.op /\ g.fp = fl.fp /\ g.wiped = fl.wiped
      BY <1>1, <3>1 DEF Active
    <3>3. Set(f, g) /\ UNCHANGED blob /\ fl.pc = "open" /\ remote[fl.rem] = {} /\ fl.fp # meta.fp
      BY <1>1, <2>7, <3>1 DEF OpenPush, phone, LocalChanged, Held
    <3>4. Held(g)'
      BY <1>0, <1>1, <3>2, <3>3 DEF Held
    <3> QED
      BY <3>2, <3>3, <3>4
  <2>8. CASE PushAccepted(f)
    <3>1. PICK g : g = [fl EXCEPT !.pc = "commit"]
      OBVIOUS
    <3>2. g.pc = "commit" /\ g.rem = fl.rem /\ g.op = fl.op /\ g.fp = fl.fp /\ g.wiped = fl.wiped
      BY <1>1, <3>1 DEF Active
    <3>3. Set(f, g) /\ UNCHANGED blob /\ fl.pc = "accepted"
      BY <2>8, <3>1 DEF PushAccepted
    <3>4. Held(g)'
      BY <1>0, <1>1, <3>2, <3>3 DEF Held
    <3> QED
      BY <3>2, <3>3, <3>4
  <2>9. CASE PushRefused(f) /\ ~Set(f, Idle)
    <3>0. PICK op \in {"pass", "repass"} :
            Set(f, [Begun(op) EXCEPT !.live = fl.live]) /\ UNCHANGED blob
      BY <2>9 DEF PushRefused, End
    <3>1. PICK g : g = [Begun(op) EXCEPT !.live = fl.live] /\ Set(f, g) /\ UNCHANGED blob
      BY <3>0
    <3>2. /\ Begun(op) \in Active /\ Begun(op).pc = "load" /\ Begun(op).op = op
          /\ Begun(op).fp = session /\ Begun(op).wiped = FALSE
      BY <1>1, BegunIsActive DEF Begun, Idle
    <3>3. g.pc = "load" /\ g.op = op /\ g.fp = session /\ g.wiped = FALSE
      BY <3>1, <3>2 DEF Active
    <3>4. Held(g)'
      BY <1>0, <1>1, <3>3 DEF Held
    <3> QED
      BY <3>1, <3>3, <3>4
  <2> QED
    BY <2>1, <2>2, <2>3, <2>4, <2>5, <2>6, <2>7, <2>8, <2>9
    DEF FetchNothing, FetchDone, OpenFailed, PushRefused, End, phone
<1> QED
  BY <1>0, <1>2, Along

\* A step of a pass that leaves disk and memory alone, and old versions their documents.
LEMMA DiskStands ==
  ASSUME IInv, Honest, NEW f \in FlightId, flight[f].pc \notin {"idle", "adopt"},
         NEW g, Set(f, g), g.pc # "idle" => Held(g)',
         UNCHANGED <<meta, blob, session, patch>>,
         \A v \in 1..Version : remote'[v] = remote[v]
  PROVE  /\ Honest' /\ LocalDoc' = LocalDoc
         /\ Travelling' = late' \cup SentBy(g)
         /\ Asked' <=> sheet' \/ g.op \in {"keep", "take"}
<1>1. Alone(f) /\ blob = session
  BY InFlight
<1>2. DOMAIN flight = FlightId
  BY IInvSplits DEF Shared
<1>3. /\ Lone' /\ AllHeld'
      /\ Travelling' = late' \cup SentBy(g)
      /\ Asked' <=> sheet' \/ g.op \in {"keep", "take"}
  BY <1>1, <1>2, OneHeld
<1>4. Based'
  BY StillBased DEF Honest
<1>5. EditDurable' /\ LocalDoc' = LocalDoc
  BY <1>1 DEF EditDurable, LocalDoc, Unlocked
<1> QED
  BY <1>3, <1>4, <1>5 DEF Honest

\* Both sides changed: the user is asked.
LEMMA ConflictStep ==
  ASSUME IInv, Honest, NEW f \in FlightId, OpenConflict(f)
  PROVE  Honest' /\ [Contract!Next]_(Contract!vars)
<1> DEFINE fl == flight[f]
<1>1. /\ fl.pc = "open" /\ remote[fl.rem] # fl.fp /\ remote[fl.rem] # {} /\ sheet' = TRUE
      /\ LocalChanged(fl) /\ LocalHosts(fl) # 0 /\ Set(f, Idle)
      /\ UNCHANGED <<remote, late, blob, meta, session, patch>>
  BY DEF OpenConflict, End
<1>2. /\ Held(fl) /\ session = fl.fp /\ LocalDoc = session /\ fl.rem \in 1..Version
      /\ Travelling = late \cup SentBy(fl) /\ SentBy(fl) = {}
  BY <1>1, InFlight DEF SentBy
<1>3. Idle.pc = "idle" /\ SentBy(Idle) = {}
  BY DEF Idle, SentBy
<1>4. /\ Honest' /\ LocalDoc' = LocalDoc /\ Travelling' = late' \cup SentBy(Idle)
      /\ Asked' <=> sheet' \/ Idle.op \in {"keep", "take"}
  BY <1>1, <1>3, DiskStands
<1>5. LocalDoc # meta.fp
  BY <1>1, <1>2 DEF LocalChanged, Held
<1>6. LocalDoc # {}
  BY <1>1, <1>2, FS_EmptySet DEF LocalHosts
<1>7. fl.rem \in DOMAIN remote
  BY <1>2, IInvSplits DEF Shared, Version
<1>8. Asked' = TRUE
  BY <1>1, <1>4, SMT DEF Asked
<1>9. Contract!Ask
  BY <1>1, <1>2, <1>3, <1>4, <1>5, <1>6, <1>7, <1>8 DEF Contract!Ask, Contract!Changed
<1> QED
  BY <1>4, <1>9 DEF Contract!Next

\* The blob leaves for the server: a change over its base, over no hosts, or as told.
LEMMA ReadBlobStep ==
  ASSUME IInv, Honest, NEW f \in FlightId, ReadBlob(f)
  PROVE  Honest' /\ [Contract!Next]_(Contract!vars)
<1> DEFINE fl == flight[f]
<1>1. /\ fl.pc = "push" /\ Set(f, [fl EXCEPT !.pc = "sent", !.up = blob])
      /\ UNCHANGED <<remote, late, blob, meta, session, sheet, patch>>
  BY DEF ReadBlob, phone
<1>2. /\ fl \in Active /\ Held(fl) /\ session = fl.fp /\ LocalDoc = session
      /\ fl.rem \in 1..Version /\ blob = session
      /\ Travelling = late \cup SentBy(fl) /\ SentBy(fl) = {}
      /\ Asked <=> sheet \/ fl.op \in {"keep", "take"}
  BY <1>1, InFlight DEF SentBy
<1>3. PICK g : g = [fl EXCEPT !.pc = "sent", !.up = blob]
  OBVIOUS
<1>4. /\ g.pc = "sent" /\ g.up = blob /\ g.op = fl.op /\ g.fp = fl.fp /\ g.wiped = fl.wiped
      /\ g.rem = fl.rem
  BY <1>2, <1>3 DEF Active
<1>5. Held(g)'
  BY <1>1, <1>2, <1>4 DEF Held
<1>6. /\ Honest' /\ LocalDoc' = LocalDoc /\ Travelling' = late' \cup SentBy(g)
      /\ Asked' <=> sheet' \/ g.op \in {"keep", "take"}
  BY <1>1, <1>3, <1>5, DiskStands
<1>7. Travelling' = Travelling \cup {[ver |-> fl.rem, doc |-> LocalDoc]}
  BY <1>1, <1>2, <1>4, <1>6 DEF SentBy
<1>8. fl.rem \in DOMAIN remote
  BY <1>2, IInvSplits DEF Shared, Version
<1>9. Asked' \in BOOLEAN
  BY Zenon DEF Asked
<1>10. Asked' = Asked
  BY <1>1, <1>2, <1>4, <1>6, SMT DEF Asked
<1>11. [Contract!Next]_(Contract!vars)
  <2>1. CASE fl.op = "keep"
    <3>1. Asked
      BY <1>2, <2>1
    <3>2. Contract!UploadAsTold
      BY <1>1, <1>6, <1>7, <1>8, <1>9, <3>1 DEF Contract!UploadAsTold, Contract!SendOver
    <3> QED
      BY <3>2 DEF Contract!Next
  <2>2. CASE fl.op # "keep" /\ fl.rem = meta.ver
    <3>1. LocalDoc # meta.fp
      BY <1>1, <1>2, <2>2 DEF Held
    <3>2. Contract!UploadChange
      BY <1>1, <1>6, <1>7, <1>10, <2>2, <3>1
      DEF Contract!UploadChange, Contract!SendOver, Contract!Changed
    <3> QED
      BY <3>2 DEF Contract!Next
  <2>3. CASE fl.op # "keep" /\ fl.rem # meta.ver
    <3>1. LocalDoc # meta.fp /\ remote[fl.rem] = {}
      BY <1>1, <1>2, <2>3 DEF Held
    <3>2. Contract!UploadOverEmpty
      BY <1>1, <1>6, <1>7, <1>8, <1>10, <3>1
      DEF Contract!UploadOverEmpty, Contract!SendOver, Contract!Changed
    <3> QED
      BY <3>2 DEF Contract!Next
  <2> QED
    BY <2>1, <2>2, <2>3
<1> QED
  BY <1>6, <1>11

\* The PUT at the server: the upload arrives, and takes its version's place or none.
LEMMA ServerStep ==
  ASSUME IInv, Honest, NEW f \in FlightId, ServerHandles(f)
  PROVE  Honest' /\ [Contract!Next]_(Contract!vars)
<1> DEFINE fl == flight[f]
           u == [ver |-> fl.rem, doc |-> fl.up]
<1>1. /\ fl.pc = "sent" /\ UNCHANGED <<late, blob, meta, session, sheet, patch>>
  BY DEF ServerHandles, phone
<1>2. /\ fl \in Active /\ Held(fl) /\ session = fl.fp /\ session \in Doc
      /\ Travelling = late \cup {u} /\ Version \in Nat
      /\ Asked <=> sheet \/ fl.op \in {"keep", "take"}
  BY <1>1, InFlight DEF SentBy
<1>3. fl.up = session
  BY <1>1, <1>2 DEF Held
<1>4. PICK g : /\ Set(f, g) /\ g.pc \in {"accepted", "refused"}
               /\ g.op = fl.op /\ g.fp = fl.fp /\ g.wiped = fl.wiped
               /\ \/ /\ fl.rem = Version /\ remote' = Append(remote, fl.up)
                     /\ g.pc = "accepted" /\ g.rem = Version + 1
                  \/ /\ fl.rem # Version /\ remote' = remote /\ g.pc = "refused"
  <2>1. CASE fl.rem = Version
    <3>1. PICK g : g = [fl EXCEPT !.pc = "accepted", !.rem = Version + 1, !.up = None]
      OBVIOUS
    <3>2. g.pc = "accepted" /\ g.rem = Version + 1 /\ g.op = fl.op /\ g.fp = fl.fp
          /\ g.wiped = fl.wiped
      BY <1>2, <3>1 DEF Active
    <3>3. Set(f, g) /\ remote' = Append(remote, fl.up)
      BY <2>1, <3>1 DEF ServerHandles
    <3> QED
      BY <2>1, <3>2, <3>3
  <2>2. CASE fl.rem # Version
    <3>1. PICK g : g = [fl EXCEPT !.pc = "refused", !.up = None]
      OBVIOUS
    <3>2. g.pc = "refused" /\ g.op = fl.op /\ g.fp = fl.fp /\ g.wiped = fl.wiped
      BY <1>2, <3>1 DEF Active
    <3>3. Set(f, g) /\ remote' = remote
      BY <2>2, <3>1 DEF ServerHandles
    <3> QED
      BY <2>2, <3>2, <3>3
  <2> QED
    BY <2>1, <2>2
<1>5. remote \in Seq(Doc) /\ Version = Len(remote)
  BY IInvSplits DEF Shared, Version
<1>6. \A v \in 1..Version : remote'[v] = remote[v]
  BY <1>2, <1>3, <1>4, <1>5
<1>7. g.pc = "accepted" => remote'[g.rem] = g.fp
  BY <1>2, <1>3, <1>4, <1>5
<1>8. Held(g)'
  BY <1>1, <1>2, <1>4, <1>7 DEF Held
<1>9. /\ Honest' /\ LocalDoc' = LocalDoc /\ Travelling' = late' \cup SentBy(g)
      /\ Asked' <=> sheet' \/ g.op \in {"keep", "take"}
  BY <1>1, <1>4, <1>6, <1>8, DiskStands
<1>10. Travelling' = late
  BY <1>1, <1>4, <1>9 DEF SentBy
<1>11. Asked' = Asked
  BY <1>1, <1>2, <1>4, <1>9, SMT DEF Asked
<1>12. [Contract!Next]_(Contract!vars)
  <2>1. CASE u \notin late
    <3>1. u.ver = fl.rem /\ u.doc = fl.up
      OBVIOUS
    <3>2. Contract!Arrive
      BY <1>1, <1>2, <1>4, <1>5, <1>9, <1>10, <1>11, <2>1, <3>1 DEF Contract!Arrive
    <3> QED
      BY <3>2 DEF Contract!Next
  <2>2. CASE u \in late /\ fl.rem = Version
    <3>1. Contract!OtherWrites
      BY <1>1, <1>2, <1>3, <1>4, <1>9, <1>10, <1>11, <2>2
      DEF Contract!OtherWrites, Contract!Doc, Doc
    <3> QED
      BY <3>1 DEF Contract!Next
  <2>3. CASE u \in late /\ fl.rem # Version
    BY <1>1, <1>2, <1>4, <1>9, <1>10, <1>11, <2>3 DEF Contract!vars
  <2> QED
    BY <2>1, <2>2, <2>3
<1> QED
  BY <1>9, <1>12

\* The phone gives up: the upload is lost, or travels on.
LEMMA FailedStep ==
  ASSUME IInv, Honest, NEW f \in FlightId, PushFailed(f)
  PROVE  Honest' /\ [Contract!Next]_(Contract!vars)
<1> DEFINE fl == flight[f]
           u == [ver |-> fl.rem, doc |-> fl.up]
<1>1. /\ fl.pc \in {"sent", "accepted", "refused"} /\ Set(f, Idle)
      /\ UNCHANGED <<remote, blob, meta, session, sheet, patch>>
      /\ late' = late \/ (fl.pc = "sent" /\ late = {} /\ late' = {u})
  BY DEF PushFailed, End
<1>2. /\ Travelling = late \cup SentBy(fl)
      /\ Asked <=> sheet \/ fl.op \in {"keep", "take"}
  BY <1>1, InFlight
<1>3. Idle.pc = "idle" /\ Idle.op = "pass" /\ SentBy(Idle) = {}
  BY DEF Idle, SentBy
<1>4. /\ Honest' /\ LocalDoc' = LocalDoc /\ Travelling' = late' \cup SentBy(Idle)
      /\ Asked' <=> sheet' \/ Idle.op \in {"keep", "take"}
  BY <1>1, <1>3, DiskStands
<1>5. Travelling' = late' /\ (Asked' => Asked)
  BY <1>1, <1>2, <1>3, <1>4
<1>6. [Contract!Next]_(Contract!vars)
  <2>1. CASE Travelling' = Travelling
    BY <1>1, <1>4, <1>5, <2>1, Unseen
  <2>2. CASE Travelling' # Travelling
    <3>1. fl.pc = "sent" /\ u \in Travelling /\ Travelling' = Travelling \ {u}
      BY <1>1, <1>2, <1>5, <2>2 DEF SentBy
    <3>2. Asked' \in {Asked, FALSE}
      <4>1. CASE Asked
        BY <4>1, Zenon DEF Asked
      <4>2. CASE ~Asked
        BY <1>5, <4>2, Zenon DEF Asked
      <4> QED
        BY <4>1, <4>2
    <3>3. Contract!Lose
      BY <1>1, <1>4, <3>1, <3>2 DEF Contract!Lose
    <3> QED
      BY <3>3 DEF Contract!Next
  <2> QED
    BY <2>1, <2>2
<1> QED
  BY <1>4, <1>6

\* commit: what the phone holds is recorded as what the server holds.
LEMMA CommitStep ==
  ASSUME IInv, Honest, NEW f \in FlightId, CommitFinish(f)
  PROVE  Honest' /\ [Contract!Next]_(Contract!vars)
<1> DEFINE fl == flight[f]
<1>1. /\ fl.pc \in {"commit", "agree"} /\ Set(f, Idle)
      /\ meta' = [ver |-> fl.rem, fp |-> fl.fp]
      /\ UNCHANGED <<remote, late, blob, session, sheet, patch>>
  BY DEF CommitFinish, End
<1>2. /\ Alone(f) /\ Held(fl) /\ session = fl.fp /\ session \in Doc /\ Unlocked
      /\ LocalDoc = session /\ blob = session /\ fl.rem \in 1..Version
      /\ Travelling = late \cup SentBy(fl) /\ SentBy(fl) = {}
      /\ Asked <=> sheet \/ fl.op \in {"keep", "take"}
  BY <1>1, InFlight DEF SentBy
<1>3. Idle.pc = "idle" /\ Idle.op = "pass" /\ SentBy(Idle) = {}
  BY DEF Idle, SentBy
<1>4. DOMAIN flight = FlightId
  BY IInvSplits DEF Shared
<1>5. /\ Lone' /\ AllHeld' /\ Travelling' = late' \cup SentBy(Idle)
      /\ Asked' <=> sheet' \/ Idle.op \in {"keep", "take"}
  BY <1>1, <1>2, <1>3, <1>4, OneHeld
<1>6. remote[fl.rem] = fl.fp /\ patch.pc = "none" /\ fl.fp # None
  BY <1>1, <1>2, DocIsKnown DEF Held
<1>7. Based'
  BY <1>1, <1>6 DEF Based, BaselineHonest, Recording
<1>8. EditDurable' /\ LocalDoc' = LocalDoc
  BY <1>1, <1>2 DEF EditDurable, LocalDoc, Unlocked
<1>9. Asked' \in {Asked, FALSE}
  <2>1. CASE Asked
    BY <2>1, Zenon DEF Asked
  <2>2. CASE ~Asked
    <3>1. ~Asked'
      BY <1>1, <1>2, <1>3, <1>5, <2>2
    <3> QED
      BY <3>1, Zenon DEF Asked
  <2> QED
    BY <2>1, <2>2
<1>10. fl.rem \in DOMAIN remote
  BY <1>2, IInvSplits DEF Shared, Version
<1>11. Contract!Agree
  BY <1>1, <1>2, <1>3, <1>5, <1>6, <1>8, <1>9, <1>10 DEF Contract!Agree
<1> QED
  BY <1>5, <1>7, <1>8, <1>11 DEF Contract!Next, Honest

\* With no pass in flight after the step, the phone has only its disk and memory to answer for.
LEMMA Calm ==
  ASSUME \A f \in FlightId : flight'[f] = Idle
  PROVE  Lone' /\ AllHeld' /\ Travelling' = late' /\ (Asked' <=> sheet')
<1>1. Idle.pc = "idle" /\ Idle.op = "pass" /\ SentBy(Idle) = {}
  BY DEF Idle, SentBy
<1>2. "sync" \in FlightId
  BY DEF FlightId
<1>3. View' /\ Alone("sync")'
  <2>1. View'
    BY Views, PTL
  <2> QED
    BY <2>1 DEF Alone
<1>4. /\ Travelling' = late' \cup SentBy(flight'["sync"])
      /\ Asked' <=> sheet' \/ flight'["sync"].op \in {"keep", "take"}
  BY <1>2, <1>3 DEF View, SentBy
<1> QED
  BY <1>1, <1>2, <1>4 DEF Lone, AllHeld

\* The second half of adopt: what is on disk becomes what is in memory, and the baseline.
LEMMA AdoptStep ==
  ASSUME IInv, Honest, NEW f \in FlightId, AdoptFinish(f)
  PROVE  Honest' /\ [Contract!Next]_(Contract!vars)
<1> DEFINE fl == flight[f]
           rest == [flight EXCEPT ![f] = Idle]
<1>0. fl.pc = "adopt"
  BY DEF AdoptFinish
<1>1. /\ Alone(f) /\ Held(fl) /\ session = fl.fp /\ Unlocked /\ LocalDoc = session
      /\ fl.rem \in 1..Version
      /\ Travelling = late \cup SentBy(fl) /\ SentBy(fl) = {}
      /\ Asked <=> sheet \/ fl.op \in {"keep", "take"}
  BY <1>0, InFlight DEF SentBy
<1>2. blob = remote[fl.rem] /\ patch.pc = "none"
  BY <1>0, <1>1 DEF Held
<1>3. /\ meta' = [ver |-> fl.rem, fp |-> blob] /\ session' = blob
      /\ flight' = Wiped(rest) /\ patch' = Blanked
      /\ UNCHANGED <<remote, late, blob, sheet>>
  BY <1>1, <1>2 DEF AdoptFinish
<1>4. patch' = patch
  BY <1>2, <1>3 DEF Blanked
<1>5. \A g \in FlightId : rest[g] = Idle
  BY <1>1, IInvSplits DEF Alone, Shared
<1>6. \A g \in FlightId : flight'[g] = Idle
  <2>1. Idle.pc = "idle"
    BY DEF Idle
  <2> HIDE DEF rest
  <2> QED
    BY <1>3, <1>5, <2>1 DEF Wiped
<1>7. Lone' /\ AllHeld' /\ Travelling' = late' /\ (Asked' <=> sheet')
  BY <1>6, Calm
<1>8. blob \in Doc /\ blob # None /\ fl.rem \in DOMAIN remote
  BY <1>1, IInvSplits, DocIsKnown DEF Shared, Version
<1>9. Based' /\ EditDurable' /\ LocalDoc' = blob
  BY <1>2, <1>3, <1>4, <1>8
  DEF Based, BaselineHonest, Recording, EditDurable, LocalDoc, Unlocked
<1>10. Contract!TakeOver
  BY <1>2, <1>3, <1>8, <1>9 DEF Contract!TakeOver
<1>11. CASE fl.op = "take"
  <2>1. Asked /\ ~Asked'
    BY <1>1, <1>3, <1>7, <1>11 DEF Held
  <2>2. Asked' = FALSE
    BY <2>1, Zenon DEF Asked
  <2>3. Contract!AdoptAsTold
    BY <1>1, <1>3, <1>7, <1>10, <2>1, <2>2 DEF Contract!AdoptAsTold
  <2> QED
    BY <1>7, <1>9, <2>3 DEF Contract!Next, Honest
<1>12. CASE fl.op # "take"
  <2>1. LocalDoc = meta.fp \/ LocalDoc = {}
    BY <1>0, <1>1, <1>12 DEF Held
  <2>2. Asked' \in {Asked, FALSE}
    <3>1. CASE Asked
      BY <3>1, Zenon DEF Asked
    <3>2. CASE ~Asked
      <4>1. ~Asked'
        BY <1>1, <1>3, <1>7, <3>2
      <4> QED
        BY <4>1, Zenon DEF Asked
    <3> QED
      BY <3>1, <3>2
  <2>3. Contract!Adopt
    BY <1>1, <1>3, <1>7, <1>10, <2>1, <2>2 DEF Contract!Adopt, Contract!Changed
  <2> QED
    BY <1>7, <1>9, <2>3 DEF Contract!Next, Honest
<1> QED
  BY <1>11, <1>12

-----------------------------------------------------------------------------
(* The steps around a pass. *)

\* A pass begins: the contract sees none of it.
LEMMA Begins ==
  ASSUME IInv, Honest, Quiet, Unlocked, patch.pc = "none",
         NEW f \in FlightId, NEW g, Set(f, g), g.pc # "sent", g.pc # "idle", Held(g)',
         UNCHANGED <<remote, late, meta, session, patch>>,
         g.pc = "adopt" \/ UNCHANGED blob,
         sheet' \/ g.op \in {"keep", "take"} => sheet
  PROVE  Honest' /\ [Contract!Next]_(Contract!vars)
<1>1. Alone(f) /\ Travelling = late /\ (Asked <=> sheet)
  BY QuietView
<1>2. DOMAIN flight = FlightId
  BY IInvSplits DEF Shared
<1>3. /\ Lone' /\ AllHeld' /\ Travelling' = late' \cup SentBy(g) /\ SentBy(g) = {}
      /\ Asked' <=> sheet' \/ g.op \in {"keep", "take"}
  BY <1>1, <1>2, OneHeld DEF SentBy
<1>4. Based' /\ LocalDoc' = LocalDoc
  BY DEF Honest, Based, BaselineHonest, Recording, LocalDoc, Unlocked
<1>5. EditDurable'
  BY <1>2 DEF Honest, EditDurable, Set, Quiet, Unlocked
<1>6. UNCHANGED <<remote, LocalDoc, meta, Travelling>> /\ (Asked' => Asked)
  BY <1>1, <1>3, <1>4
<1> QED
  BY <1>3, <1>4, <1>5, <1>6, Unseen DEF Honest

\* Every way to begin one: runSync, and the choices of the conflict sheet.
LEMMA BeginSteps ==
  ASSUME IInv, Honest, Apart, SyncStart \/ ResolveEvaporated \/ KeepLocal \/ TakeRemote
  PROVE  Honest' /\ [Contract!Next]_(Contract!vars)
<1>1. Quiet /\ Unlocked /\ patch.pc = "none"
  BY DEF Apart, SyncStart, ResolveEvaporated, KeepLocal, TakeRemote, ResolveStart, Settled
<1>2. session \in Doc /\ pending \in Nat
  BY <1>1, IInvSplits DEF Shared, Unlocked, Version
<1>3. UNCHANGED <<remote, late, meta, session, patch>>
  BY DEF SyncStart, ResolveEvaporated, KeepLocal, TakeRemote, phone
<1>4. ASSUME NEW op \in {"pass", "repass", "keep", "take"}
      PROVE  /\ Begun(op) \in Active /\ Begun(op).pc = "load" /\ Begun(op).op = op
             /\ Begun(op).fp = session /\ Begun(op).wiped = FALSE
  BY <1>2, BegunIsActive DEF Begun, Idle
<1>5. CASE SyncStart \/ ResolveEvaporated
  <2>1. PICK f \in FlightId : Set(f, Begun("pass"))
    BY <1>5 DEF SyncStart, ResolveEvaporated, FlightId
  <2>2. UNCHANGED blob /\ (sheet' => sheet)
    BY <1>5 DEF SyncStart, ResolveEvaporated, ResolveStart, phone
  <2>3. PICK g : g = Begun("pass")
    OBVIOUS
  <2>4. g.pc = "load" /\ g.op = "pass" /\ g.fp = session /\ g.wiped = FALSE
    BY <1>4, <2>3
  <2>5. Held(g)'
    BY <1>1, <1>3, <2>4 DEF Held
  <2> QED
    BY <1>1, <1>3, <2>1, <2>2, <2>3, <2>4, <2>5, Begins
<1>6. CASE KeepLocal
  <2>1. "resolve" \in FlightId
    BY DEF FlightId
  <2>2. PICK g : g = [Begun("keep") EXCEPT !.pc = "push", !.rem = pending]
    OBVIOUS
  <2>3. g.pc = "push" /\ g.op = "keep" /\ g.fp = session /\ g.wiped = FALSE
    BY <1>4, <2>2 DEF Active
  <2>4. Set("resolve", g) /\ UNCHANGED blob /\ sheet' = FALSE /\ sheet
    BY <1>6, <2>2 DEF KeepLocal, ResolveStart
  <2>5. Held(g)'
    BY <1>1, <1>3, <2>3, <2>4 DEF Held
  <2> QED
    BY <1>1, <1>3, <2>1, <2>3, <2>4, <2>5, Begins
<1>7. CASE TakeRemote
  <2>1. "resolve" \in FlightId
    BY DEF FlightId
  <2>2. PICK g : g = [Begun("take") EXCEPT !.pc = "adopt", !.rem = pending]
    OBVIOUS
  <2>3. g.pc = "adopt" /\ g.op = "take" /\ g.fp = session /\ g.wiped = FALSE /\ g.rem = pending
    BY <1>2, <1>4, <2>2 DEF Active
  <2>4. Set("resolve", g) /\ blob' = remote[pending] /\ sheet' = FALSE /\ sheet
    BY <1>7, <2>2 DEF TakeRemote, ResolveStart
  <2>5. Held(g)'
    BY <1>1, <1>3, <2>3, <2>4 DEF Held
  <2> QED
    BY <1>1, <1>3, <2>1, <2>3, <2>4, <2>5, Begins
<1> QED
  BY <1>5, <1>6, <1>7

\* An edit, with nothing in flight and nothing left to record.
LEMMA EditedStep ==
  ASSUME IInv, Honest, Apart, Edit
  PROVE  Honest' /\ [Contract!Next]_(Contract!vars)
<1>1. Quiet /\ Unlocked /\ patch.pc = "none" /\ UNCHANGED <<remote, late, meta, sheet>>
  BY DEF Apart, Edit, Settled
<1>2. /\ \A f \in FlightId : flight[f] = Idle
      /\ Travelling = late /\ (Asked <=> sheet)
  BY <1>1, QuietView
<1>3. PICK h \in Host : /\ blob' = session' /\ session' \in Doc
                        /\ session' \in {session \cup {h}, session \ {h}}
  BY <1>1, IInvSplits DEF Edit, Shared, Unlocked, Doc
<1>4. \A f \in FlightId : flight'[f] = Idle
  <2>1. flight' = Wiped(flight) /\ \A f \in FlightId : flight[f].pc = "idle"
    BY <1>1 DEF Edit, Quiet
  <2> QED
    BY <1>2, <2>1 DEF Wiped
<1>5. Lone' /\ AllHeld' /\ Travelling' = late' /\ (Asked' <=> sheet')
  BY <1>4, Calm
<1>6. patch' = patch /\ session' # None
  BY <1>1, <1>3, DocIsKnown DEF Edit, Blanked
<1>7. Based' /\ EditDurable'
  BY <1>1, <1>3, <1>6
  DEF Honest, Based, BaselineHonest, Recording, EditDurable, Unlocked
<1>8. LocalDoc = session /\ LocalDoc' = session'
  BY <1>1, <1>6 DEF LocalDoc, Unlocked
<1>9. Asked' = Asked
  BY <1>1, <1>2, <1>5, SMT DEF Asked
<1>10. Contract!UserEdits
  BY <1>1, <1>2, <1>3, <1>5, <1>8, <1>9 DEF Contract!UserEdits
<1> QED
  BY <1>5, <1>7, <1>10 DEF Contract!Next, Honest

\* A lock, with nothing in flight: the blob is what was in memory.
LEMMA LockedStep ==
  ASSUME IInv, Honest, Apart, Lock
  PROVE  Honest' /\ [Contract!Next]_(Contract!vars)
<1>1. /\ Quiet /\ Unlocked /\ patch.pc = "none" /\ UNCHANGED <<remote, late, blob, meta>>
      /\ session' = None /\ sheet' = FALSE
  BY DEF Apart, Lock, Settled
<1>2. /\ \A f \in FlightId : flight[f] = Idle
      /\ Travelling = late /\ (Asked <=> sheet)
  BY <1>1, QuietView
<1>3. \A f \in FlightId : flight'[f] = Idle
  BY <1>1 DEF Lock, Quiet
<1>4. Lone' /\ AllHeld' /\ Travelling' = late' /\ (Asked' <=> sheet')
  BY <1>3, Calm
<1>5. patch' = patch
  BY <1>1 DEF Lock, Blanked
<1>6. Based' /\ EditDurable' /\ LocalDoc' = LocalDoc
  BY <1>1, <1>5
  DEF Honest, Based, BaselineHonest, Recording, EditDurable, LocalDoc, Unlocked, Quiet
<1> QED
  BY <1>1, <1>2, <1>4, <1>6, Unseen DEF Honest

\* An unlock: what was sealed is in memory again, and its baseline is to be recorded.
LEMMA UnlockedStep ==
  ASSUME IInv, Honest, Unlock
  PROVE  Honest' /\ [Contract!Next]_(Contract!vars)
<1>1. /\ ~Unlocked /\ patch.pc = "none" /\ session' = blob
      /\ UNCHANGED <<remote, late, blob, meta, sheet, flight>>
  BY DEF Unlock
<1>2. \A f \in FlightId : flight[f].pc = "idle"
  BY <1>1, InFlight
<1>3. blob # None
  BY IInvSplits, DocIsKnown DEF Shared
<1>4. patch'.pc = "check" /\ patch'.fp = blob
  BY DEF Unlock
<1>5. Lone' /\ AllHeld'
  BY <1>1, <1>2 DEF Lone, AllHeld
<1>6. Based' /\ EditDurable' /\ LocalDoc' = LocalDoc
  BY <1>1, <1>3, <1>4
  DEF Honest, Based, BaselineHonest, Recording, EditDurable, LocalDoc, Unlocked
<1>7. Travelling' = Travelling /\ (Asked' => Asked)
  BY <1>1 DEF Travelling, Asked
<1> QED
  BY <1>1, <1>5, <1>6, <1>7, Unseen DEF Honest

\* A crash: the disk stays.  An upload may be lost, or travel on; an adopt stops half way.
LEMMA CrashedStep ==
  ASSUME IInv, Honest, Crash
  PROVE  Honest' /\ [Contract!Next]_(Contract!vars)
<1>1. /\ session' = None /\ sheet' = FALSE /\ patch' = NoPatch
      /\ \A f \in FlightId : flight'[f] = Idle
      /\ UNCHANGED <<remote, blob, meta>>
  BY DEF Crash
<1>2. Lone' /\ AllHeld' /\ Travelling' = late' /\ ~Asked'
  BY <1>1, Calm
<1>3. LocalDoc' = blob /\ patch'.pc = "none" /\ ~Unlocked'
  BY <1>1 DEF LocalDoc, Unlocked, NoPatch
<1>4. Based' /\ EditDurable'
  BY <1>1, <1>3 DEF Honest, Based, BaselineHonest, Recording, EditDurable
<1>5. Asked' = FALSE
  BY <1>2, Zenon DEF Asked
<1>6. CASE Quiet
  <2>1. Travelling = late
    BY <1>6, QuietView
  <2>2. late' = late
    BY <1>6 DEF Crash, Quiet
  <2>3. LocalDoc = blob
    BY <1>6 DEF Honest, EditDurable, LocalDoc, Quiet
  <2> QED
    BY <1>1, <1>2, <1>3, <1>4, <2>1, <2>2, <2>3, Unseen DEF Honest
<1>7. CASE ~Quiet
  <2>1. PICK f \in FlightId : flight[f].pc # "idle"
    BY <1>7 DEF Quiet
  <2> DEFINE fl == flight[f]
             u == [ver |-> fl.rem, doc |-> fl.up]
  <2>2. /\ Alone(f) /\ Held(fl) /\ session = fl.fp /\ LocalDoc = session
        /\ fl.pc \notin {"idle", "load", "fetch"} => fl.rem \in 1..Version
        /\ fl.pc # "adopt" => blob = session
        /\ Travelling = late \cup SentBy(fl)
        /\ Asked <=> sheet \/ fl.op \in {"keep", "take"}
    BY <2>1, InFlight
  <2>3. late' = late \/ (fl.pc = "sent" /\ late = {} /\ late' = {u})
    <3>1. Idle.pc # "sent"
      BY DEF Idle
    <3> QED
      BY <2>2, <3>1 DEF Crash, Alone
  <2>4. CASE fl.pc = "adopt"
    <3>1. fl.rem \in DOMAIN remote /\ blob = remote[fl.rem]
      BY <2>2, <2>4, IInvSplits DEF Shared, Version, Held
    <3>2. Travelling' = Travelling
      BY <1>2, <2>2, <2>3, <2>4 DEF SentBy
    <3>3. Contract!TakeOver
      BY <1>1, <1>3, <3>1 DEF Contract!TakeOver
    <3>4. CASE fl.op = "take"
      <4>1. Contract!AdoptAsTold
        BY <1>1, <1>5, <2>2, <3>2, <3>3, <3>4 DEF Contract!AdoptAsTold
      <4> QED
        BY <1>2, <1>4, <4>1 DEF Contract!Next, Honest
    <3>5. CASE fl.op # "take"
      <4>1. LocalDoc = meta.fp \/ LocalDoc = {}
        BY <2>2, <2>4, <3>5 DEF Held
      <4>2. Contract!Adopt
        BY <1>1, <1>5, <3>2, <3>3, <4>1 DEF Contract!Adopt, Contract!Changed
      <4> QED
        BY <1>2, <1>4, <4>2 DEF Contract!Next, Honest
    <3> QED
      BY <3>4, <3>5
  <2>5. CASE fl.pc # "adopt" /\ Travelling' = Travelling
    BY <1>1, <1>2, <1>3, <1>4, <2>2, <2>5, Unseen DEF Honest
  <2>6. CASE fl.pc # "adopt" /\ Travelling' # Travelling
    <3>1. u \in Travelling /\ Travelling' = Travelling \ {u}
      BY <1>2, <2>2, <2>3, <2>6 DEF SentBy
    <3>2. LocalDoc' = LocalDoc
      BY <1>3, <2>2, <2>6
    <3>3. Contract!Lose
      BY <1>1, <1>5, <3>1, <3>2 DEF Contract!Lose
    <3> QED
      BY <1>2, <1>4, <3>3 DEF Contract!Next, Honest
  <2> QED
    BY <2>4, <2>5, <2>6
<1> QED
  BY <1>6, <1>7

\* Recording the fingerprint after an unlock: what it agrees on is what both sides hold.
LEMMA RecordingSteps ==
  ASSUME IInv, Honest, Apart, BaselineCheck \/ ProjectPatch \/ PatchRead \/ PatchWrite
  PROVE  Honest' /\ [Contract!Next]_(Contract!vars)
<1>1. /\ patch.pc # "none" /\ ~ProjectPatch
      /\ UNCHANGED <<remote, late, blob, session, sheet, flight>>
  BY DEF Apart, BaselineCheck, ProjectPatch, PatchRead, PatchWrite, phone
<1>2. \A f \in FlightId : flight[f].pc = "idle"
  BY <1>1 DEF Honest, AllHeld, Held
<1>3. Lone' /\ AllHeld'
  BY <1>1, <1>2 DEF Lone, AllHeld
<1>4. Unlocked /\ patch.fp = blob /\ blob = session /\ LocalDoc = session
  BY <1>1, <1>2 DEF Honest, Based, Recording, EditDurable, LocalDoc
<1>5. EditDurable' /\ LocalDoc' = LocalDoc
  BY <1>1, <1>4 DEF EditDurable, LocalDoc, Unlocked
<1>6. Travelling' = Travelling /\ Asked' = Asked
  BY <1>1 DEF Travelling, Asked
<1>7. /\ patch \in [pc : {"none", "check", "merge", "write"}, fp : Fingerprint, snap : Meta]
      /\ meta \in Meta /\ meta.ver \in DOMAIN remote /\ blob \in Doc /\ blob # None
  BY IInvSplits, DocIsKnown DEF Shared, Version
<1>8. CASE BaselineCheck \/ PatchRead
  <2>1. UNCHANGED meta
    BY <1>8 DEF BaselineCheck, PatchRead, phone
  <2>2. Based'
    <3>1. CASE BaselineCheck /\ meta.fp = None
      <4>1. patch'.pc = "merge" /\ patch'.fp = patch.fp
        BY <1>7, <3>1 DEF BaselineCheck
      <4> QED
        BY <1>1, <1>4, <2>1, <3>1, <4>1
        DEF Honest, Based, BaselineHonest, Recording, Unlocked
    <3>2. CASE BaselineCheck /\ meta.fp # None
      BY <1>1, <2>1, <3>2
      DEF BaselineCheck, NoPatch, Honest, Based, BaselineHonest, Recording
    <3>3. CASE PatchRead
      <4>1. patch.pc = "merge" /\ patch' = [patch EXCEPT !.pc = "write", !.snap = meta]
        BY <3>3 DEF PatchRead
      <4>2. patch'.pc = "write" /\ patch'.fp = patch.fp /\ patch'.snap = meta
        BY <1>7, <4>1
      <4> QED
        BY <1>1, <1>4, <2>1, <4>1, <4>2
        DEF Honest, Based, BaselineHonest, Recording, Unlocked
    <3> QED
      BY <1>8, <3>1, <3>2, <3>3
  <2> QED
    BY <1>1, <1>3, <1>5, <1>6, <2>1, <2>2, Unseen DEF Honest
<1>9. CASE PatchWrite
  <2>1. patch.pc = "write" /\ patch' = NoPatch
    BY <1>9 DEF PatchWrite
  <2>2. meta.fp = None /\ patch.snap = meta /\ blob = remote[meta.ver]
    BY <2>1 DEF Honest, Based, Recording
  <2>3. meta' = [patch.snap EXCEPT !.fp = patch.fp]
    BY <1>4, <1>7, <1>9 DEF PatchWrite
  <2>4. meta' = [ver |-> meta.ver, fp |-> blob]
    BY <1>4, <1>7, <2>2, <2>3 DEF Meta
  <2>5. Based'
    BY <1>1, <1>7, <2>1, <2>2, <2>4 DEF NoPatch, Based, BaselineHonest, Recording
  <2>6. Asked' \in {Asked, FALSE}
    BY <1>6
  <2>7. Contract!Agree
    BY <1>1, <1>4, <1>5, <1>6, <1>7, <2>2, <2>4, <2>6 DEF Contract!Agree
  <2> QED
    BY <1>3, <1>5, <2>5, <2>7 DEF Contract!Next, Honest
<1> QED
  BY <1>1, <1>8, <1>9

\* The other writers leave the phone alone, and old versions their documents.
LEMMA WriterSteps ==
  ASSUME IInv, Honest, OtherDevice \/ LateUpload
  PROVE  Honest' /\ [Contract!Next]_(Contract!vars)
<1>1. UNCHANGED <<blob, meta, session, sheet, flight, patch>>
  BY DEF OtherDevice, LateUpload, phone
<1>2. /\ remote \in Seq(Doc) /\ Version = Len(remote) /\ late \subseteq Upload
  BY IInvSplits DEF Shared, Version
<1>3. remote' = remote \/ \E d \in Doc : remote' = Append(remote, d)
  BY <1>2 DEF OtherDevice, LateUpload, Upload
<1>4. \A v \in 1..Version : remote'[v] = remote[v]
  BY <1>2, <1>3
<1>5. AllHeld'
  <2> SUFFICES ASSUME NEW f \in FlightId, flight[f].pc # "idle" PROVE Held(flight[f])'
    BY <1>1 DEF AllHeld
  <2>1. /\ flight[f] \in Active /\ Held(flight[f])
        /\ flight[f].pc \notin {"idle", "load", "fetch"} => flight[f].rem \in 1..Version
    BY InFlight
  <2> QED
    BY <1>1, <1>4, <2>1 DEF Held
<1>6. Based'
  BY <1>1, <1>4, StillBased DEF Honest
<1>7. Honest' /\ LocalDoc' = LocalDoc /\ Asked' = Asked
  BY <1>1, <1>5, <1>6 DEF Honest, Lone, EditDurable, Unlocked, LocalDoc, Asked
<1>8. CASE OtherDevice
  <2>1. Travelling' = Travelling
    BY <1>1, <1>8 DEF OtherDevice, Travelling
  <2>2. \E d \in Doc : remote' = Append(remote, d)
    BY <1>8 DEF OtherDevice
  <2>3. Contract!OtherWrites
    BY <1>1, <1>7, <2>1, <2>2 DEF Contract!OtherWrites, Contract!Doc, Doc
  <2> QED
    BY <1>7, <2>3 DEF Contract!Next
<1>9. CASE LateUpload
  <2>1. PICK u \in late : /\ late' = late \ {u}
                          /\ remote' = IF u.ver = Version THEN Append(remote, u.doc) ELSE remote
    BY <1>9 DEF LateUpload
  <2>2. u \in Travelling /\ Travelling' \in {Travelling, Travelling \ {u}}
    BY <1>1, <2>1 DEF Travelling
  <2>3. CASE Travelling' # Travelling
    <3>1. Contract!Arrive
      BY <1>1, <1>2, <1>7, <2>1, <2>2, <2>3 DEF Contract!Arrive
    <3> QED
      BY <1>7, <3>1 DEF Contract!Next
  <2>4. CASE Travelling' = Travelling /\ remote' = remote
    BY <1>1, <1>7, <2>4 DEF Contract!vars
  <2>5. CASE Travelling' = Travelling /\ remote' # remote
    <3>1. Contract!OtherWrites
      BY <1>1, <1>3, <1>7, <2>5 DEF Contract!OtherWrites, Contract!Doc, Doc
    <3> QED
      BY <1>7, <3>1 DEF Contract!Next
  <2> QED
    BY <2>3, <2>4, <2>5
<1> QED
  BY <1>8, <1>9

-----------------------------------------------------------------------------
(* The theorems about disk, memory and the contract. *)

\* A phone that has just been paired is honest, and where the contract starts.
LEMMA InitHonest == Init => Honest /\ Contract!Init
<1> SUFFICES ASSUME Init PROVE Honest /\ Contract!Init
  OBVIOUS
<1>1. /\ \A f \in FlightId : flight[f] = Idle
      /\ Idle.pc = "idle" /\ Idle.op = "pass"
  BY DEF Init, Idle
<1>2. Lone /\ AllHeld
  BY <1>1 DEF Lone, AllHeld
<1>3. PICK d \in Doc : remote = <<d>> /\ blob = d
  BY DEF Init
<1>4. Based /\ EditDurable /\ LocalDoc = d
  BY <1>3 DEF Init, NoPatch, Based, BaselineHonest, Recording, EditDurable, Unlocked, LocalDoc
<1>5. Travelling = {}
  BY <1>1 DEF Init, Travelling
<1>6. Asked = FALSE
  BY <1>1, SMT DEF Init, Asked
<1>7. Contract!Init
  BY <1>3, <1>4, <1>5, <1>6 DEF Init, Contract!Init, Contract!Doc, Doc
<1> QED
  BY <1>2, <1>4, <1>7 DEF Honest

\* Every step keeps disk and memory honest, and is one the contract allows.
LEMMA StepHonest ==
  ASSUME Apart, IInv, Honest, [Next]_vars
  PROVE  Honest' /\ [Contract!Next]_(Contract!vars)
<1>1. CASE \E f \in FlightId : PassStep(f)
  BY <1>1, AlongSteps, ConflictStep, AdoptStep, ReadBlobStep, ServerStep, FailedStep, CommitStep
  DEF PassStep
<1>2. CASE User
  BY <1>2, BeginSteps, EditedStep, LockedStep, UnlockedStep DEF User
<1>3. CASE Crash
  BY <1>3, CrashedStep
<1>4. CASE BaselineCheck \/ ProjectPatch \/ PatchRead \/ PatchWrite
  BY <1>4, RecordingSteps
<1>5. CASE OtherDevice \/ LateUpload
  BY <1>5, WriterSteps
<1>6. CASE UNCHANGED vars
  <2>1. UNCHANGED <<LocalDoc, Travelling, Asked>>
    BY <1>6 DEF vars, phone, LocalDoc, Unlocked, Travelling, Asked
  <2>2. Honest'
    BY <1>6 DEF vars, phone, Honest, Lone, AllHeld, Held, Based, BaselineHonest, Recording,
                EditDurable, Unlocked
  <2> QED
    BY <1>6, <2>1, <2>2 DEF vars, phone, Contract!vars
<1> QED
  BY <1>1, <1>2, <1>3, <1>4, <1>5, <1>6 DEF Next

\* Disk and memory tell the same story, as long as nothing overlaps a pass but an upload
\* the phone gave up on: the baseline is a document the server held, and what a restart
\* finds is what the phone had.
THEOREM DiskStaysHonest ==
  ASSUME Overlap \subseteq {"late"}
  PROVE  Spec => []DiskHonest
<1>1. Apart
  BY DEF Apart, May
<1>2. IInv /\ Honest /\ [Next]_vars => Honest'
  BY <1>1, StepHonest
<1>3. Honest => DiskHonest
  BY DEF Honest, Based, DiskHonest
<1> QED
  BY <1>2, <1>3, Invariance, InitHonest, PTL DEF Spec

\* Under the same overlaps every step is one that the table heading personal.ts allows, and
\* the phone's first state is one it starts from.
THEOREM PassesMeetContract ==
  ASSUME Overlap \subseteq {"late"}
  PROVE  Spec => MeetsContract
<1>1. Apart
  BY DEF Apart, May
<1>2. IInv /\ Honest /\ [Next]_vars => Honest' /\ [Contract!Next]_(Contract!vars)
  BY <1>1, StepHonest
<1> QED
  BY <1>2, Invariance, InitHonest, PTL DEF Spec, MeetsContract, Contract!Spec
=============================================================================
