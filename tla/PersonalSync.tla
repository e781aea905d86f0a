---------------------------- MODULE PersonalSync ----------------------------
(***************************************************************************)
(* The personal-vault sync of Wharf Mobile: the pass of                    *)
(* src/sync/personal.ts with its effects (src/sync/deps.ts), the local     *)
(* vault (blob file, metadata file, in-memory session), host edits         *)
(* (src/vault/hostMutations.ts), lock and unlock, and the versioned vault  *)
(* row of the server, written by this phone and by the account's other     *)
(* devices.                                                                *)
(*                                                                         *)
(* A step is what runs between two native awaits (file read, HTTP answer,  *)
(* argon2): sealing and fingerprinting are synchronous code, so the lines  *)
(* around them belong to one step.                                         *)
(*                                                                         *)
(* A vault document is the set of its hosts: the pass tells documents      *)
(* apart by fingerprint only, which is equality of documents, and counts   *)
(* hosts.  The DEK, the seal and the display-only state are left out.      *)
(***************************************************************************)
EXTENDS Naturals, Sequences, FiniteSets

CONSTANTS
  Host,        \* the hosts a vault may hold
  None,        \* no document: a locked session, a missing fingerprint
  Zeros,       \* the fingerprint of a zero-filled buffer
  Overlap,     \* what may happen while a pass is in flight (see OverlapKind)
  MaxEdits,    \* bound on the edits made on this phone
  MaxOther,    \* bound: the other devices write while the version is below it
  MaxVersion   \* bound: the server takes no upload beyond this version

(***************************************************************************)
(* What the app lets overlap a pass in flight: an edit ("edit"), a lock    *)
(* ("lock"), a second pass, started by resolveConflict ("resolve"), an     *)
(* upload the phone gave up on and the server handles later ("late"); and  *)
(* what it lets overlap a partial write of the metadata file: all of it    *)
(* ("meta").  The program allows all of them; a smaller set is an          *)
(* assumption on the environment, and says what a property rests on.       *)
(***************************************************************************)
OverlapKind == {"edit", "lock", "resolve", "meta", "late"}

Doc == SUBSET Host

ASSUME NoDocs == None # Zeros /\ \A d \in Doc : d # None /\ d # Zeros
ASSUME HostsAreFinite == IsFiniteSet(Host)
ASSUME OverlapIsKinds == Overlap \subseteq OverlapKind
ASSUME BoundsAreNat == MaxEdits \in Nat /\ MaxOther \in Nat /\ MaxVersion \in Nat

VARIABLES
  remote,    \* server: the documents of the vault row, by version
  late,      \* uploads given up by the phone that still travel
  blob,      \* disk: the document sealed in vault.blob
  meta,      \* disk: version and fingerprint of vault.meta.json
  session,   \* memory: the decrypted payload, None when locked
  shown,     \* Redux: the document behind the host list, None when empty
  pending,   \* engine: version of the stashed remote payload, 0 when none
  sheet,     \* Redux: the conflict sheet is shown
  flight,    \* the passes in flight
  patch,     \* a read-merge-write of the metadata file by another caller
  edits,     \* edits made so far, at most MaxEdits
  endorsed   \* history: versions the phone took in, or may overwrite

phone == <<blob, meta, session, shown, pending, sheet>>
vars == <<remote, late, phone, flight, patch, edits, endorsed>>

-----------------------------------------------------------------------------

(***************************************************************************)
(* A pass in flight.  op: "pass" is pass(true), "repass" is pass(false),   *)
(* "keep" and "take" are the two choices of resolve.  fp is the document   *)
(* fingerprinted when the pass began; wiped says that the captured buffer  *)
(* was zero-filled since; base is what loadState returned; rem the remote  *)
(* version in hand; up the document uploaded; live that the engine object  *)
(* running the pass is still the current one.  A field nothing reads any   *)
(* more goes back to its first value, so that states differ only in what   *)
(* matters.                                                                *)
(***************************************************************************)
FlightId == {"sync", "resolve"}

Pc == {"load", "fetch", "open", "adopt", "agree",
       "push", "sent", "accepted", "refused", "commit"}

Fingerprint == {None, Zeros} \cup Doc

Meta == [ver : Nat, fp : Fingerprint]

NoMeta == [ver |-> 0, fp |-> None]

Active == [pc : Pc, op : {"pass", "repass", "keep", "take"}, fp : Doc, wiped : BOOLEAN,
           base : Meta, rem : Nat, up : {None} \cup Doc, live : BOOLEAN]

Idle == [pc |-> "idle", op |-> "pass", fp |-> None, wiped |-> FALSE,
         base |-> NoMeta, rem |-> 0, up |-> None, live |-> FALSE]

Upload == [ver : Nat, doc : Doc]

NoPatch == [pc |-> "none", fp |-> None, snap |-> NoMeta]

TypeOK ==
  /\ remote \in Seq(Doc) /\ remote # <<>>
  /\ late \subseteq Upload
  /\ blob \in Doc
  /\ meta \in Meta
  /\ session \in {None} \cup Doc
  /\ shown \in {None} \cup Doc
  /\ pending \in Nat
  /\ sheet \in BOOLEAN
  /\ flight \in [FlightId -> {Idle} \cup Active]
  /\ \A f \in FlightId : flight[f].pc = "sent" => flight[f].up \in Doc
  /\ patch \in [pc : {"none", "check", "merge", "write"},
                fp : Fingerprint, snap : Meta]
  /\ edits \in Nat
  /\ endorsed \subseteq Nat

(***************************************************************************)
(* The phone has just been paired: ensureVaultBlob stored the blob and its *)
(* version, and no fingerprint has been recorded.                          *)
(***************************************************************************)
Init ==
  /\ \E d \in Doc : remote = <<d>> /\ blob = d
  /\ late = {}
  /\ meta = [ver |-> 1, fp |-> None]
  /\ session = None
  /\ shown = None
  /\ pending = 0
  /\ sheet = FALSE
  /\ flight = [f \in FlightId |-> Idle]
  /\ patch = NoPatch
  /\ edits = 0
  /\ endorsed = {1}

-----------------------------------------------------------------------------

Version == Len(remote)
Unlocked == session # None
Quiet == \A f \in FlightId : flight[f].pc = "idle"
May(kind) == kind \in Overlap
Settled == May("meta") \/ patch.pc = "none"

LocalChanged(fl) == fl.fp # fl.base.fp
RemoteMoved(fl, v) == v # fl.base.ver

\* countHosts of the captured buffer: a zero-filled buffer does not parse.
LocalHosts(fl) == IF fl.wiped THEN 0 ELSE Cardinality(fl.fp)

\* Replacing or clearing the session zero-fills the buffer passes captured.
Wiped(fls) ==
  [f \in FlightId |-> IF fls[f].pc = "idle" THEN fls[f]
                      ELSE [fls[f] EXCEPT !.wiped = TRUE]]

\* So does a baseline still to be recorded, of which only the buffer is known.
Blanked == IF patch.pc = "check" THEN [patch EXCEPT !.fp = Zeros] ELSE patch

Begun(op) == [Idle EXCEPT !.pc = "load", !.op = op, !.fp = session, !.live = TRUE]

Set(f, fl) == flight' = [flight EXCEPT ![f] = fl]
End(f) == Set(f, Idle)

\* The engine drops its stash, unless it is itself no longer the current one.
DropPending(fl) == pending' = IF fl.live THEN 0 ELSE pending

-----------------------------------------------------------------------------
(* Starting a pass. *)

\* runSync: not while locked, and not while its own pass is running.
SyncStart ==
  /\ Unlocked
  /\ flight["sync"].pc = "idle"
  /\ May("resolve") \/ Quiet
  /\ Settled
  /\ Set("sync", Begun("pass"))
  /\ UNCHANGED <<remote, late, phone, patch, edits, endorsed>>

\* What every choice on the conflict sheet does first.
ResolveStart ==
  /\ Unlocked
  /\ sheet
  /\ flight["resolve"].pc = "idle"
  /\ Settled
  /\ May("resolve") \/ Quiet
  /\ sheet' = FALSE

\* The stash is gone: resolve runs a fresh pass.
ResolveEvaporated ==
  /\ ResolveStart
  /\ pending = 0
  /\ Set("resolve", Begun("pass"))
  /\ UNCHANGED <<remote, late, blob, meta, session, shown, pending, patch, edits, endorsed>>

\* Keep local: its button is off while a pass is shown as running.
KeepLocal ==
  /\ ResolveStart
  /\ pending # 0
  /\ Quiet
  /\ Set("resolve", [Begun("keep") EXCEPT !.pc = "push", !.rem = pending])
  /\ endorsed' = endorsed \cup {pending}
  /\ UNCHANGED <<remote, late, blob, meta, session, shown, pending, patch, edits>>

\* Take remote: adopt the stash; the back gesture reaches it at any time.
TakeRemote ==
  /\ ResolveStart
  /\ pending # 0
  /\ Set("resolve", [Begun("take") EXCEPT !.pc = "adopt", !.rem = pending])
  /\ blob' = remote[pending]
  /\ UNCHANGED <<remote, late, meta, session, shown, pending, patch, edits, endorsed>>

-----------------------------------------------------------------------------
(* One pass: load the baseline, fetch, compare. *)

LoadState(f) ==
  /\ flight[f].pc = "load"
  /\ Set(f, [flight[f] EXCEPT !.pc = "fetch", !.base = meta])
  /\ UNCHANGED <<remote, late, phone, patch, edits, endorsed>>

\* The fetch throws, or the server knows no vault: nothing to do.
FetchNothing(f) ==
  /\ flight[f].pc = "fetch"
  /\ End(f)
  /\ UNCHANGED <<remote, late, phone, patch, edits, endorsed>>

\* no/no: in sync.  A moved remote cannot be opened while locked.
FetchDone(f) ==
  /\ flight[f].pc = "fetch"
  /\ \/ ~LocalChanged(flight[f]) /\ ~RemoteMoved(flight[f], Version)
     \/ RemoteMoved(flight[f], Version) /\ ~Unlocked
  /\ End(f)
  /\ UNCHANGED <<remote, late, phone, patch, edits, endorsed>>

\* yes/no: push.
FetchPush(f) ==
  /\ flight[f].pc = "fetch"
  /\ LocalChanged(flight[f])
  /\ ~RemoteMoved(flight[f], Version)
  /\ Set(f, [flight[f] EXCEPT !.pc = "push", !.rem = Version,
                                !.base = NoMeta, !.wiped = FALSE])
  /\ UNCHANGED <<remote, late, phone, patch, edits, endorsed>>

\* The remote moved: its payload is needed.
FetchMoved(f) ==
  /\ flight[f].pc = "fetch"
  /\ RemoteMoved(flight[f], Version)
  /\ Unlocked
  /\ Set(f, [flight[f] EXCEPT !.pc = "open", !.rem = Version])
  /\ UNCHANGED <<remote, late, phone, patch, edits, endorsed>>

-----------------------------------------------------------------------------
(* The moved remote has been opened. *)

\* Needs a password, or the blob is corrupt, or adopt finds the vault locked.
OpenFailed(f) ==
  /\ flight[f].pc = "open"
  /\ End(f)
  /\ UNCHANGED <<remote, late, phone, patch, edits, endorsed>>

OpenSame(f) ==
  /\ flight[f].pc = "open"
  /\ remote[flight[f].rem] = flight[f].fp
  /\ Set(f, [flight[f] EXCEPT !.pc = "agree", !.base = NoMeta])
  /\ UNCHANGED <<remote, late, phone, patch, edits, endorsed>>

\* A slip the runs catch: the blob file is not written.
OpenAdoptInMemory(f) ==
  /\ flight[f].pc = "open"
  /\ ~LocalChanged(flight[f])
  /\ Unlocked
  /\ Set(f, [flight[f] EXCEPT !.pc = "adopt"])
  /\ UNCHANGED <<remote, late, phone, patch, edits, endorsed>>

\* no/yes, or both changed and no local host: adopt, blob file first.
OpenAdopt(f) ==
  LET fl == flight[f] IN
  /\ fl.pc = "open"
  /\ remote[fl.rem] # fl.fp
  /\ ~LocalChanged(fl) \/ LocalHosts(fl) = 0
  /\ Unlocked
  /\ blob' = remote[fl.rem]
  /\ Set(f, [fl EXCEPT !.pc = "adopt", !.base = NoMeta])
  /\ UNCHANGED <<remote, late, meta, session, shown, pending, sheet, patch, edits, endorsed>>

\* Both changed and the remote has no host: push over it.
OpenPush(f) ==
  LET fl == flight[f] IN
  /\ fl.pc = "open"
  /\ remote[fl.rem] # fl.fp
  /\ LocalChanged(fl) /\ LocalHosts(fl) # 0
  /\ remote[fl.rem] = {}
  /\ Set(f, [fl EXCEPT !.pc = "push", !.base = NoMeta])
  /\ endorsed' = endorsed \cup {fl.rem}
  /\ UNCHANGED <<remote, late, phone, patch, edits>>

\* Both changed: stash the remote and ask.
OpenConflict(f) ==
  LET fl == flight[f] IN
  /\ fl.pc = "open"
  /\ remote[fl.rem] # fl.fp
  /\ LocalChanged(fl) /\ LocalHosts(fl) # 0
  /\ remote[fl.rem] # {}
  /\ pending' = IF fl.live THEN fl.rem ELSE pending
  /\ sheet' = TRUE
  /\ End(f)
  /\ UNCHANGED <<remote, late, blob, meta, session, shown, patch, edits, endorsed>>

\* The second half of adopt: metadata, session, host list.
AdoptFinish(f) ==
  LET fl == flight[f] IN
  /\ fl.pc = "adopt"
  /\ meta' = [ver |-> fl.rem, fp |-> remote[fl.rem]]
  /\ session' = IF Unlocked THEN remote[fl.rem] ELSE None
  /\ shown' = remote[fl.rem]
  /\ flight' = LET rest == [flight EXCEPT ![f] = Idle]
               IN  IF Unlocked THEN Wiped(rest) ELSE rest
  /\ patch' = IF Unlocked THEN Blanked ELSE patch
  /\ IF fl.op = "take" THEN DropPending(fl) ELSE UNCHANGED pending
  /\ endorsed' = endorsed \cup {fl.rem}
  /\ UNCHANGED <<remote, late, blob, sheet, edits>>

-----------------------------------------------------------------------------
(* Uploading: the blob file is read when the upload is made. *)

ReadBlob(f) ==
  /\ flight[f].pc = "push"
  /\ Set(f, [flight[f] EXCEPT !.pc = "sent", !.up = blob])
  /\ UNCHANGED <<remote, late, phone, patch, edits, endorsed>>

\* PUT with expectedVersion, at the server.
ServerHandles(f) ==
  LET fl == flight[f] IN
  /\ fl.pc = "sent"
  /\ IF fl.rem = Version
     THEN /\ Version < MaxVersion
          /\ remote' = Append(remote, fl.up)
          /\ Set(f, [fl EXCEPT !.pc = "accepted", !.rem = Version + 1, !.up = None])
     ELSE /\ Set(f, [fl EXCEPT !.pc = "refused", !.up = None])
          /\ UNCHANGED remote
  /\ UNCHANGED <<late, phone, patch, edits, endorsed>>

\* The phone gives up: the request may be lost, still travel, or be handled.
PushFailed(f) ==
  LET fl == flight[f] IN
  /\ fl.pc \in {"sent", "accepted", "refused"}
  /\ End(f)
  /\ \/ UNCHANGED late
     \/ /\ May("late")
        /\ fl.pc = "sent"
        /\ late = {}
        /\ late' = {[ver |-> fl.rem, doc |-> fl.up]}
  /\ IF fl.op = "keep" THEN DropPending(fl) ELSE UNCHANGED pending
  /\ UNCHANGED <<remote, blob, meta, session, shown, sheet, patch, edits, endorsed>>

\* 200: record the new version and the fingerprint taken when the pass began.
PushAccepted(f) ==
  LET fl == flight[f] IN
  /\ fl.pc = "accepted"
  /\ Set(f, [fl EXCEPT !.pc = "commit"])
  /\ IF fl.op = "keep" THEN DropPending(fl) ELSE UNCHANGED pending
  /\ UNCHANGED <<remote, late, blob, meta, session, shown, sheet, patch, edits, endorsed>>

\* Slips the runs catch: the pass begins again without looking at the lock; it
\* pushes again at the version it lost to; a 409 is taken for a success.
PushRefusedThoughLocked(f) ==
  /\ flight[f].pc = "refused"
  /\ Set(f, Begun("repass"))
  /\ UNCHANGED <<remote, late, phone, patch, edits, endorsed>>

PushRefusedPushAgain(f) ==
  /\ flight[f].pc = "refused"
  /\ Set(f, [flight[f] EXCEPT !.pc = "push", !.rem = Version])
  /\ UNCHANGED <<remote, late, phone, patch, edits, endorsed>>

PushRefusedCommits(f) ==
  /\ flight[f].pc = "refused"
  /\ Set(f, [flight[f] EXCEPT !.pc = "commit"])
  /\ UNCHANGED <<remote, late, phone, patch, edits, endorsed>>

\* 409: evaluate again, once; keep-local starts the whole pass over.
PushRefused(f) ==
  LET fl == flight[f] IN
  /\ fl.pc = "refused"
  /\ IF fl.op = "repass" \/ ~Unlocked
     THEN End(f)
     ELSE Set(f, [Begun(IF fl.op = "keep" THEN "pass" ELSE "repass") EXCEPT !.live = fl.live])
  /\ IF fl.op = "keep" THEN DropPending(fl) ELSE UNCHANGED pending
  /\ UNCHANGED <<remote, late, blob, meta, session, shown, sheet, patch, edits, endorsed>>

\* A slip the runs catch: the fingerprint is not recorded with the version.
CommitFinishVersionOnly(f) ==
  /\ flight[f].pc \in {"commit", "agree"}
  /\ meta' = [meta EXCEPT !.ver = flight[f].rem]
  /\ endorsed' = endorsed \cup {flight[f].rem}
  /\ End(f)
  /\ UNCHANGED <<remote, late, blob, session, shown, pending, sheet, patch, edits>>

\* commit of deps.ts, after a push or after finding both sides equal.
CommitFinish(f) ==
  LET fl == flight[f] IN
  /\ fl.pc \in {"commit", "agree"}
  /\ meta' = [ver |-> fl.rem, fp |-> fl.fp]
  /\ IF fl.pc = "commit" /\ fl.op # "keep" THEN DropPending(fl) ELSE UNCHANGED pending
  /\ endorsed' = endorsed \cup {fl.rem}
  /\ End(f)
  /\ UNCHANGED <<remote, late, blob, session, shown, sheet, patch, edits>>

-----------------------------------------------------------------------------
(* The user, and the system around the pass. *)

\* commitPayload of hostMutations.ts: blob, session and host list in one step.
Edit ==
  /\ Unlocked
  /\ edits < MaxEdits
  /\ Settled
  /\ May("edit") \/ Quiet
  /\ \E h \in Host :
       LET d == IF h \in session THEN session \ {h} ELSE session \cup {h} IN
       /\ blob' = d
       /\ session' = d
       /\ shown' = d
  /\ flight' = Wiped(flight)
  /\ patch' = Blanked
  /\ edits' = edits + 1
  /\ UNCHANGED <<remote, late, meta, pending, sheet, endorsed>>

\* lockVault, and stopSyncEngine as the tabs unmount: the passes go on.
Lock ==
  /\ Unlocked
  /\ Settled
  /\ May("lock") \/ Quiet
  /\ session' = None
  /\ shown' = None
  /\ pending' = 0
  /\ sheet' = FALSE
  /\ flight' = [f \in FlightId |-> IF flight[f].pc = "idle" THEN Idle
                                   ELSE [flight[f] EXCEPT !.wiped = TRUE, !.live = FALSE]]
  /\ patch' = Blanked
  /\ UNCHANGED <<remote, late, blob, meta, edits, endorsed>>

\* Unlock from the stored blob, then establishSyncBaseline in the background.
Unlock ==
  /\ ~Unlocked
  /\ patch.pc = "none"
  /\ session' = blob
  /\ shown' = blob
  /\ patch' = [pc |-> "check", fp |-> blob, snap |-> NoMeta]
  /\ UNCHANGED <<remote, late, blob, meta, pending, sheet, flight, edits, endorsed>>

\* The app is killed: only the disk stays.
Crash ==
  /\ session' = None
  /\ shown' = None
  /\ pending' = 0
  /\ sheet' = FALSE
  /\ flight' = [f \in FlightId |-> Idle]
  /\ patch' = NoPatch
  /\ \/ UNCHANGED late
     \/ /\ May("late")
        /\ late = {}
        /\ \E f \in FlightId :
             /\ flight[f].pc = "sent"
             /\ late' = {[ver |-> flight[f].rem, doc |-> flight[f].up]}
  /\ UNCHANGED <<remote, blob, meta, edits, endorsed>>

\* establishSyncBaseline records a fingerprint only when none is there.
BaselineCheck ==
  /\ patch.pc = "check"
  /\ patch' = IF meta.fp = None THEN [patch EXCEPT !.pc = "merge"] ELSE NoPatch
  /\ UNCHANGED <<remote, late, phone, flight, edits, endorsed>>

\* The project sync records its own bookkeeping in the same file.
ProjectPatch ==
  /\ May("meta")
  /\ patch.pc = "none"
  /\ patch' = [NoPatch EXCEPT !.pc = "merge"]
  /\ UNCHANGED <<remote, late, phone, flight, edits, endorsed>>

\* updateVaultMeta: an awaited read ...
PatchRead ==
  /\ patch.pc = "merge"
  /\ patch' = [patch EXCEPT !.pc = "write", !.snap = meta]
  /\ UNCHANGED <<remote, late, phone, flight, edits, endorsed>>

\* ... then a write of what was read with the patch over it.
PatchWrite ==
  /\ patch.pc = "write"
  /\ meta' = [patch.snap EXCEPT !.fp = IF patch.fp = None THEN @ ELSE patch.fp]
  /\ patch' = NoPatch
  /\ UNCHANGED <<remote, late, blob, session, shown, pending, sheet, flight, edits, endorsed>>

-----------------------------------------------------------------------------
(* The server and the account's other devices. *)

OtherDevice ==
  /\ Version < MaxOther
  /\ \E d \in Doc \ {remote[Version]} : remote' = Append(remote, d)
  /\ UNCHANGED <<late, phone, flight, patch, edits, endorsed>>

\* An abandoned upload reaches the server, whose answer nobody reads.
LateUpload ==
  /\ \E u \in late :
       /\ late' = late \ {u}
       /\ u.ver = Version => Version < MaxVersion
       /\ remote' = IF u.ver = Version THEN Append(remote, u.doc) ELSE remote
  /\ UNCHANGED <<phone, flight, patch, edits, endorsed>>

-----------------------------------------------------------------------------

PassStep(f) ==
  \/ LoadState(f)
  \/ FetchNothing(f) \/ FetchDone(f) \/ FetchPush(f) \/ FetchMoved(f)
  \/ OpenFailed(f) \/ OpenSame(f) \/ OpenAdopt(f) \/ OpenPush(f) \/ OpenConflict(f)
  \/ AdoptFinish(f)
  \/ ReadBlob(f) \/ ServerHandles(f)
  \/ PushFailed(f) \/ PushAccepted(f) \/ PushRefused(f)
  \/ CommitFinish(f)

User == SyncStart \/ ResolveEvaporated \/ KeepLocal \/ TakeRemote \/ Edit \/ Lock \/ Unlock

Next ==
  \/ \E f \in FlightId : PassStep(f)
  \/ User
  \/ Crash
  \/ BaselineCheck \/ ProjectPatch \/ PatchRead \/ PatchWrite
  \/ OtherDevice \/ LateUpload

Spec == Init /\ [][Next]_vars

(***************************************************************************)
(* Fairness of the run that asks for progress.  The app comes to the       *)
(* foreground and is unlocked again (its triggers start a pass), a native  *)
(* read and a request come back, and the user answers a conflict sheet     *)
(* that keeps coming back.  Nothing is asked of edits, of other devices,   *)
(* nor of what Trouble names, which Convergence asks to stop.              *)
(***************************************************************************)
PassAdvance ==
  \E f \in FlightId :
    \/ LoadState(f)
    \/ FetchDone(f) \/ FetchPush(f) \/ FetchMoved(f)
    \/ OpenSame(f) \/ OpenAdopt(f) \/ OpenPush(f) \/ OpenConflict(f)
    \/ AdoptFinish(f)
    \/ ReadBlob(f) \/ ServerHandles(f) \/ PushAccepted(f) \/ PushRefused(f)
    \/ CommitFinish(f)

GivesUp == \E f \in FlightId : FetchNothing(f) \/ OpenFailed(f) \/ PushFailed(f)

Trouble == Lock \/ Crash \/ (GivesUp /\ ~PassAdvance)

FairSpec ==
  /\ Spec
  /\ WF_vars(Unlock)
  /\ WF_vars(BaselineCheck \/ PatchRead \/ PatchWrite)
  /\ WF_vars(SyncStart)
  /\ WF_vars(PassAdvance)
  /\ SF_vars(ResolveEvaporated \/ KeepLocal \/ TakeRemote)

-----------------------------------------------------------------------------
(* Properties. *)

\* An upload of this phone replaces only a version the phone took in before,
\* found without hosts, or was told by its user to overwrite: no interleaving
\* of passes, retries after a 409, locks, crashes and late uploads makes it
\* replace a version it has not looked at (push and resolve of personal.ts).
ReplacesVersion ==
  \/ LateUpload
  \/ \E f \in FlightId : ServerHandles(f)

NoBlindOverwrite == [][ReplacesVersion /\ remote' # remote => Version \in endorsed]_vars

\* Versions in hand are versions the server issued.
VersionsIssued ==
  /\ pending \in 0..Version
  /\ \A f \in FlightId :
       flight[f].pc \notin {"idle", "load", "fetch"} => flight[f].rem \in 1..Version

\* The version that a push will give as its base, wherever it is kept on the
\* way there (the metadata file, the copy a partial write merges into, a pass,
\* an upload under way), was endorsed in that sense, and the server issued it.
BaseEndorsed ==
  /\ endorsed \subseteq 1..Version
  /\ meta.ver \in endorsed
  /\ patch.pc = "write" => patch.snap.ver \in endorsed
  /\ \A f \in FlightId :
       /\ flight[f].pc = "fetch" => flight[f].base.ver \in endorsed
       /\ flight[f].pc \in {"push", "sent"} => flight[f].rem \in endorsed
  /\ \A u \in late : u.ver \in endorsed

\* The fingerprint is of the document at the version it is kept with, and the blob,
\* between passes that replace it, is the document in memory: what a restart finds is
\* what the phone had.  (storage.ts on VaultMeta, hostMutations.ts.)
BaselineHonest == meta.fp # None => remote[meta.ver] = meta.fp
EditDurable ==
  Unlocked /\ (\A f \in FlightId : flight[f].pc # "adopt") => blob = session
DiskHonest == BaselineHonest /\ EditDurable

\* Once locks, crashes and failed requests stop, and edits and the other
\* writers with them, phone and server come to hold the same document, and
\* the baseline says so: no retry loop, no question asked for ever.
Agreed == blob = remote[Version] /\ meta = [ver |-> Version, fp |-> blob]
Convergence == <>[][~Trouble]_vars => <>[]Agreed

-----------------------------------------------------------------------------
(* The contract of the header of personal.ts, and how this module meets it. *)

LocalDoc == IF Unlocked THEN session ELSE blob

Asked == sheet \/ \E f \in FlightId : flight[f].op \in {"keep", "take"}

Travelling ==
  late \cup {[ver |-> flight[f].rem, doc |-> flight[f].up] :
               f \in {g \in FlightId : flight[g].pc = "sent"}}

Contract ==
  INSTANCE SyncContract WITH
    local <- LocalDoc, base <- meta, asked <- Asked, travelling <- Travelling

\* Every step of a pass is a step the table allows.
MeetsContract == Contract!Spec
=============================================================================
