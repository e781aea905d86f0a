------------------------- MODULE HostDocument_proofs -------------------------
(***************************************************************************)
(* Proofs about HostDocument: types, the uniqueness of ids and names, that *)
(* no edit of this phone and no move loses a host or what the form does    *)
(* not show, and, where no terminal dials while a pass is half way, that a *)
(* stored password goes only where it was stored for.                      *)
(***************************************************************************)
EXTENDS HostDocument, TLAPS

USE FoldIsFunction, NothingIsNone, BlankIsNothing, NumbersAreNat

\* The parts of the inductive invariant.
NoAgain == "again" \notin Overlap
NoPass  == "pass" \notin Overlap

\* A move may leave its id in both documents; a second one of the host, in one twice.
OneOfEach(d, p) == OneHostEach(d) /\ (NoAgain => OneHostEach(p))

ViewIsDoc == view = IF open THEN View(doc) ELSE {}

\* Where a stored password may go; what is cached was in the project.
SecretsAtHome ==
  /\ Together(doc) \subseteq stored /\ Together(project) \subseteq stored
  /\ Together(cache) \subseteq stored /\ (NoAgain => OneHostEach(cache))
  /\ NoPass /\ dial.pc = "taken" => \E h \in cache : h.id = dial.id /\ h.addr = dial.addr
  /\ NoPass /\ NoAgain => SecretGoesHome

HostInv == TypeOK /\ OneOfEach(doc, project) /\ ViewIsDoc /\ SecretsAtHome

FormOK(f) ==
  /\ f \in [pc : {"closed", "add", "edit"}, id : Id \cup {None}, seed : Values]
  /\ f.pc = "edit" => f.id \in Id
MoveOK(m) == m \in {Still} \cup [pc : {"taken", "put"}, host : RawHost]
DialOK(d) ==
  d \in [pc : {"idle", "taken", "dialled"}, proj : BOOLEAN, id : Id \cup {None},
         addr : Addr \cup {Blank}, auth : {"key", "password"}, key : Key \cup {None},
         pw : Secret \cup {None}, keys : SUBSET Key]

-----------------------------------------------------------------------------
(* What the operations on hosts return.                                    *)

\* The typed host of a raw one is a typed host.  (toHost.)
LEMMA ViewType == ASSUME NEW hosts \in SUBSET RawHost PROVE View(hosts) \subseteq VaultHost
  BY DEF View, ToHost, RawHost, VaultHost

\* What validate lets pass makes a host.  (applyEditable.)
LEMMA ApplyType ==
  ASSUME NEW hosts, NEW ex, NEW h \in RawHost, NEW in \in Values, Valid(hosts, in, ex)
  PROVE  /\ ApplyEditable(h, in) \in RawHost
         /\ ApplyEditable(h, in).id = h.id /\ ApplyEditable(h, in).name = in.name
         /\ ApplyEditable(h, in).key = h.key /\ ApplyEditable(h, in).pw = h.pw
<1>1. in.name \in Name /\ in.addr \in Addr /\ NormalizePort(in.port) \in PortMin..PortMax
  BY DEF Valid, Values
<1> QED
  BY <1>1 DEF ApplyEditable, RawHost

\* (addHostToPayload.)
LEMMA NewHostType ==
  ASSUME NEW hosts, NEW ex, NEW id \in Id, NEW in \in Values, Valid(hosts, in, ex)
  PROVE  NewHost(id, in) \in RawHost /\ NewHost(id, in).id = id /\ NewHost(id, in).name = in.name
<1>1. in.name \in Name /\ in.addr \in Addr /\ NormalizePort(in.port) \in PortMin..PortMax
  BY DEF Valid, Values
<1> QED
  BY <1>1 DEF NewHost, ApplyEditable, RawHost

\* (setHostPasswordInPayload.)
LEMMA PasswordType ==
  ASSUME NEW h \in RawHost, NEW pw \in Secret
  PROVE  /\ WithPassword(h, pw) \in RawHost
         /\ WithPassword(h, pw).id = h.id /\ WithPassword(h, pw).name = h.name
         /\ WithPassword(h, pw).key = h.key /\ WithPassword(h, pw).pw = pw
  BY DEF WithPassword, RawHost

\* The three shapes of a change of a list of hosts: one is added, one leaves, and one
\* takes the place of another with its id.
LEMMA Adding ==
  ASSUME NEW hosts \in SUBSET RawHost, OneHostEach(hosts),
         NEW h \in RawHost, ~Has(hosts, h.id), ~NameTaken(hosts, h.name, None)
  PROVE  OneHostEach(hosts \cup {h})
<1>1. \A g \in hosts : g.id # None
  BY DEF RawHost
<1> QED
  BY <1>1 DEF OneHostEach, Has, NameTaken

\* A document that loses hosts keeps ids and names apart.
LEMMA Leaving ==
  ASSUME NEW hosts, OneHostEach(hosts), NEW fewer \in SUBSET hosts
  PROVE  OneHostEach(fewer)
  BY DEF OneHostEach

\* So does one in which a host is replaced, with its name or one that is free.
LEMMA Replacing ==
  ASSUME NEW hosts \in SUBSET RawHost, OneHostEach(hosts),
         NEW h \in hosts, NEW g \in RawHost, g.id = h.id,
         g.name = h.name \/ ~NameTaken(hosts, g.name, h.id)
  PROVE  OneHostEach((hosts \ {h}) \cup {g})
<1>1. \A f \in hosts \ {h} : f.id # h.id
  BY DEF OneHostEach
<1>2. \A f \in hosts \ {h} : Fold[f.name] # Fold[g.name]
  BY <1>1 DEF OneHostEach, NameTaken
<1> QED
  BY <1>1, <1>2 DEF OneHostEach

\* What another client makes of a host is one, with its id, and a name of no other.
LEMMA ChangedKeeps ==
  ASSUME NEW hosts, NEW h \in RawHost, NEW g \in Changed(hosts, h)
  PROVE  /\ g \in RawHost /\ g.id = h.id
         /\ g.name = h.name \/ ~NameTaken(hosts, g.name, h.id)
<1>1. CASE g \in {[h EXCEPT !.name = n] : n \in {m \in Name : ~NameTaken(hosts, m, h.id)}}
  <2> PICK n \in Name : ~NameTaken(hosts, n, h.id) /\ g = [h EXCEPT !.name = n]
    BY <1>1
  <2> QED
    BY DEF RawHost
<1>2. CASE g \in {[h EXCEPT !.key = k] : k \in Key \cup {None}}
  <2> PICK k \in Key \cup {None} : g = [h EXCEPT !.key = k]
    BY <1>2
  <2> QED
    BY DEF RawHost
<1>3. CASE g \in {[h EXCEPT !.addr = m[1], !.pw = m[2]] : m \in Addr \X Secret}
  <2> PICK a \in Addr, pw \in Secret : g = [h EXCEPT !.addr = a, !.pw = pw]
    BY <1>3
  <2> QED
    BY DEF RawHost
<1> QED
  BY <1>1, <1>2, <1>3 DEF Changed

\* What another client uploads is hosts, and keeps to the rules: it validates as this one
\* does.
LEMMA OthersKeep ==
  ASSUME NEW hosts \in SUBSET RawHost, hosts \subseteq doc \cup project,
         NEW next \in OtherClient(hosts)
  PROVE  next \in SUBSET RawHost /\ (OneHostEach(hosts) => OneHostEach(next))
<1>1. CASE \E h \in Arrivals(hosts) : next = hosts \cup {h}
  <2> PICK h \in Arrivals(hosts) : next = hosts \cup {h}
    BY <1>1
  <2>1. ~Has(hosts, h.id) /\ ~NameTaken(hosts, h.name, None)
    BY DEF Arrivals, Fresh, Has
  <2>2. DefaultPort \in PortMin..PortMax
    BY DEF DefaultPort, PortMin, PortMax
  <2>3. h \in RawHost
    BY <2>2 DEF Arrivals, RawHost
  <2> QED
    BY <2>1, <2>3, Adding
<1>2. CASE \E h \in hosts : next = Without(hosts, h.id)
  <2>1. next \in SUBSET hosts
    BY <1>2 DEF Without
  <2> QED
    BY <2>1, Leaving
<1>3. CASE \E h \in hosts : \E g \in Changed(hosts, h) : next = (hosts \ {h}) \cup {g}
  <2> PICK h \in hosts : \E g \in Changed(hosts, h) : next = (hosts \ {h}) \cup {g}
    BY <1>3
  <2> PICK g \in Changed(hosts, h) : next = (hosts \ {h}) \cup {g}
    OBVIOUS
  <2>1. /\ g \in RawHost /\ g.id = h.id
        /\ g.name = h.name \/ ~NameTaken(hosts, g.name, h.id)
    BY ChangedKeeps
  <2> QED
    BY <2>1, Replacing
<1> QED
  BY <1>1, <1>2, <1>3 DEF OtherClient

\* The password stored for a host is kept with a host of its id.  (extractStoredPassword.)
LEMMA StoredIsThere ==
  ASSUME NEW hosts \in SUBSET RawHost, NEW id, NEW pw \in StoredPassword(hosts, id)
  PROVE  /\ pw \in Secret \cup {None}
         /\ pw # None => \E g \in hosts : g.id = id /\ g.pw = pw
  BY DEF StoredPassword, Has, RawHost

\* What is stored together is an address and a password.
LEMMA TogetherType ==
  ASSUME NEW hosts \in SUBSET RawHost PROVE Together(hosts) \subseteq Addr \X Secret
<1> SUFFICES ASSUME NEW h \in hosts, h.pw # None PROVE <<h.addr, h.pw>> \in Addr \X Secret
  BY DEF Together
<1> QED
  BY DEF RawHost

\* The address and password of a host in a document are stored together.
LEMMA IsTogether ==
  ASSUME NEW hosts, NEW h \in hosts, h.pw # None PROVE <<h.addr, h.pw>> \in Together(hosts)
  BY DEF Together

-----------------------------------------------------------------------------
(* The invariant, action by action.                                        *)

\* An account with no hosts keeps the rules.
LEMMA HostInit == Init => HostInv
<1> SUFFICES ASSUME Init PROVE HostInv
  OBVIOUS
<1>1. FormOK(form) /\ DialOK(dial) /\ MoveOK(move)
  BY DEF Init, Closed, HungUp, EmptyForm, Values, FormOK, DialOK, MoveOK
<1>2. TypeOK
  <2>1. edits \in 0..MaxEdits
    BY DEF Init
  <2>2. /\ doc = {} /\ keys \subseteq Key /\ open = FALSE /\ view = {} /\ project = {}
        /\ cache = {} /\ pview = {} /\ stored = {}
    BY DEF Init
  <2> QED
    BY <1>1, <2>1, <2>2 DEF TypeOK, FormOK, DialOK, MoveOK
<1>3. OneOfEach(doc, project) /\ ViewIsDoc
  BY DEF Init, OneOfEach, OneHostEach, ViewIsDoc
<1>4. SecretsAtHome
  BY DEF Init, SecretsAtHome, Together, OneHostEach, SecretGoesHome, HungUp
<1> QED
  BY <1>2, <1>3, <1>4 DEF HostInv

\* Every change of a document, once the document it makes is known to be sound.
LEMMA CommitKeeps ==
  ASSUME HostInv, NEW d \in SUBSET RawHost, NEW p \in SUBSET RawHost, OneOfEach(d, p),
         Commits(d, p), FormOK(form'), MoveOK(move'), keys' \subseteq Key,
         UNCHANGED <<open, cache, pview, dial>>
  PROVE  HostInv'
<1> USE DEF Commits
<1>1. TypeOK'
  <2>1. Together(d) \subseteq Addr \X Secret /\ Together(p) \subseteq Addr \X Secret
    BY TogetherType
  <2>2. edits' \in 0..MaxEdits
    BY DEF HostInv, TypeOK
  <2> QED
    BY <2>1, <2>2, ViewType DEF HostInv, TypeOK, FormOK, MoveOK
<1>2. OneOfEach(doc', project')
  OBVIOUS
<1>3. ViewIsDoc'
  BY DEF HostInv, ViewIsDoc
<1>4. SecretsAtHome'
  BY DEF HostInv, SecretsAtHome, SecretGoesHome, NoPass, NoAgain
<1> QED
  BY <1>1, <1>2, <1>3, <1>4 DEF HostInv, OneOfEach, NoAgain

\* Every step that leaves the documents alone.
LEMMA AsideKeeps ==
  ASSUME HostInv, UNCHANGED <<doc, keys, project, stored, edits>>,
         FormOK(form'), MoveOK(move'), DialOK(dial'), open' \in BOOLEAN,
         view' = (IF open' THEN View(doc) ELSE {}), pview' \subseteq VaultHost,
         cache' \in {cache, project}, SecretsAtHome'
  PROVE  HostInv'
<1>1. TypeOK'
  BY ViewType DEF HostInv, TypeOK, FormOK, MoveOK, DialOK
<1>2. ViewIsDoc' /\ OneOfEach(doc', project')
  BY DEF HostInv, ViewIsDoc
<1> QED
  BY <1>1, <1>2 DEF HostInv, OneOfEach, NoAgain

\* Opening, typing into, saving and leaving a form.
LEMMA FormSteps ==
  ASSUME HostInv, Forms PROVE HostInv'
<1> USE DEF HostInv
<1>1. doc \in SUBSET RawHost /\ project \in SUBSET RawHost /\ FormOK(form) /\ MoveOK(move) /\ DialOK(dial)
  BY DEF TypeOK, FormOK, MoveOK, DialOK
<1>2. CASE OpenAdd
  <2>1. FormOK(form')
    BY <1>2 DEF OpenAdd, Closed, EmptyForm, Values, FormOK
  <2>2. SecretsAtHome'
    BY <1>2 DEF OpenAdd, SecretsAtHome, SecretGoesHome, NoPass, NoAgain
  <2> QED
    BY <1>1, <1>2, <2>1, <2>2, AsideKeeps DEF OpenAdd, ViewIsDoc, TypeOK
<1>3. CASE \E h \in view : OpenEdit(h)
  <2> PICK h \in view : OpenEdit(h)
    BY <1>3
  <2>1. h \in VaultHost
    BY DEF TypeOK
  <2>2. h.port \in Nat
    <3>1. h.port \in PortMin..PortMax
      BY <2>1 DEF VaultHost
    <3>2. PortMin \in Nat /\ PortMax \in Nat
      BY DEF PortMin, PortMax
    <3> QED
      BY <3>1, <3>2
  <2>3. FormOK(form')
    BY <2>1, <2>2 DEF OpenEdit, HostToFormValues, Values, VaultHost, FormOK
  <2>4. SecretsAtHome'
    BY DEF OpenEdit, SecretsAtHome, SecretGoesHome, NoPass, NoAgain
  <2> QED
    BY <1>1, <2>3, <2>4, AsideKeeps DEF OpenEdit, ViewIsDoc, TypeOK
<1>4. CASE \E id \in Id, now \in Typed : Submit(id, now)
  <2> PICK id \in Id, now \in Typed : Submit(id, now)
    BY <1>4
  <2>1. now \in Values
    BY <1>1 DEF Typed, Values, FormOK
  <2>2. /\ FormOK(form') /\ MoveOK(move') /\ keys' \subseteq Key
        /\ UNCHANGED <<open, cache, pview, dial>>
    BY <1>1 DEF Submit, Closed, EmptyForm, Values, FormOK, TypeOK
  <2>3. CASE /\ Fresh(id) /\ Valid(doc, now, None)
             /\ Commits(doc \cup {NewHost(id, now)}, project)
    <3>1. ~NameTaken(doc, now.name, None) /\ ~Has(doc, id)
      BY <2>3 DEF Valid, Fresh, Has
    <3>2. /\ NewHost(id, now) \in RawHost /\ NewHost(id, now).id = id
          /\ NewHost(id, now).name = now.name
      BY <2>1, <2>3, NewHostType
    <3>3. OneOfEach(doc \cup {NewHost(id, now)}, project)
      BY <1>1, <3>1, <3>2, Adding DEF OneOfEach
    <3> QED
      BY <1>1, <2>2, <2>3, <3>2, <3>3, CommitKeeps
  <2>4. CASE /\ Valid(doc, now, id)
             /\ \E h \in doc : /\ h.id = id
                               /\ Commits((doc \ {h}) \cup {ApplyEditable(h, now)}, project)
    <3> PICK h \in doc : h.id = id /\ Commits((doc \ {h}) \cup {ApplyEditable(h, now)}, project)
      BY <2>4
    <3>1. ~NameTaken(doc, now.name, id)
      BY <2>4 DEF Valid
    <3>2. /\ ApplyEditable(h, now) \in RawHost /\ ApplyEditable(h, now).id = id
          /\ ApplyEditable(h, now).name = now.name
      BY <1>1, <2>1, <2>4, ApplyType
    <3>3. OneOfEach((doc \ {h}) \cup {ApplyEditable(h, now)}, project)
      BY <1>1, <3>1, <3>2, Replacing DEF OneOfEach
    <3> QED
      BY <1>1, <2>2, <3>2, <3>3, CommitKeeps
  <2> QED
    BY <2>3, <2>4 DEF Submit
<1>5. CASE Cancel
  <2>1. FormOK(form')
    BY <1>5 DEF Cancel, Closed, EmptyForm, Values, FormOK
  <2>2. SecretsAtHome'
    BY <1>5 DEF Cancel, SecretsAtHome, SecretGoesHome, NoPass, NoAgain
  <2> QED
    BY <1>1, <1>5, <2>1, <2>2, AsideKeeps DEF Cancel, ViewIsDoc, TypeOK
<1> QED
  BY <1>2, <1>3, <1>4, <1>5 DEF Forms

\* Deleting a host, and moving it to the project, which is given it and then loses it here.
LEMMA MenuSteps ==
  ASSUME HostInv, Menu PROVE HostInv'
<1> USE DEF HostInv
<1>1. /\ doc \in SUBSET RawHost /\ project \in SUBSET RawHost /\ keys \subseteq Key
      /\ FormOK(form) /\ MoveOK(move) /\ DialOK(dial) /\ open \in BOOLEAN
  BY DEF TypeOK, FormOK, MoveOK, DialOK
<1>2. ASSUME NEW id \in Id, Delete(id) PROVE HostInv'
  <2>1. Without(doc, id) \in SUBSET doc
    BY DEF Without
  <2>2. OneOfEach(Without(doc, id), project)
    BY <2>1, Leaving DEF OneOfEach
  <2>3. FormOK(form') /\ MoveOK(move') /\ keys' \subseteq Key
    BY <1>1, <1>2 DEF Delete
  <2> QED
    BY <1>1, <1>2, <2>1, <2>2, <2>3, CommitKeeps DEF Delete
<1>3. ASSUME NEW h \in doc, MoveTake(h) PROVE HostInv'
  <2>1. MoveOK(move')
    BY <1>1, <1>3 DEF MoveTake, MoveOK
  <2>2. SecretsAtHome'
    BY <1>3 DEF MoveTake, SecretsAtHome, SecretGoesHome, NoPass, NoAgain
  <2> QED
    BY <1>1, <1>3, <2>1, <2>2, AsideKeeps DEF MoveTake, ViewIsDoc, TypeOK
<1>4. CASE MovePut
  <2>1. move.host \in RawHost /\ MoveOK(move')
    BY <1>1, <1>4 DEF MovePut, MoveOK, Still
  <2>2. NoAgain => ~Has(project, move.host.id)
    BY <1>4 DEF MovePut, NoAgain
  <2>3. OneOfEach(doc, project \cup {move.host})
    BY <1>1, <1>4, <2>1, <2>2, Adding DEF MovePut, OneOfEach
  <2>4. Commits(doc, project \cup {move.host}) /\ UNCHANGED <<keys, open, form, cache, pview, dial>>
    BY <1>4 DEF MovePut
  <2> QED
    BY <1>1, <2>1, <2>3, <2>4, CommitKeeps
<1>5. CASE MoveFails
  <2>1. MoveOK(move')
    BY <1>5 DEF MoveFails, MoveOK
  <2>2. SecretsAtHome'
    BY <1>5 DEF MoveFails, SecretsAtHome, SecretGoesHome, NoPass, NoAgain
  <2> QED
    BY <1>1, <1>5, <2>1, <2>2, AsideKeeps DEF MoveFails, ViewIsDoc, TypeOK
<1>6. CASE MoveDelete
  <2>1. /\ move' = Still /\ UNCHANGED <<keys, open, form, project, cache, pview, dial, stored, edits>>
        /\ doc' \in SUBSET doc /\ view' = IF open THEN View(doc') ELSE view
    BY <1>6 DEF MoveDelete, Without
  <2>2. MoveOK(move') /\ FormOK(form') /\ DialOK(dial')
    BY <1>1, <2>1 DEF MoveOK
  <2>3. doc' \in SUBSET RawHost /\ View(doc') \subseteq VaultHost
    BY <1>1, <2>1, ViewType
  <2>4. TypeOK'
    BY <2>1, <2>2, <2>3 DEF TypeOK, FormOK, MoveOK, DialOK
  <2>5. OneOfEach(doc', project')
    BY <2>1, Leaving DEF OneOfEach
  <2>6. ViewIsDoc'
    BY <2>1 DEF ViewIsDoc
  <2>7. Together(doc') \subseteq Together(doc)
    BY <2>1 DEF Together
  <2>8. SecretsAtHome'
    BY <2>1, <2>7 DEF SecretsAtHome, SecretGoesHome, NoPass, NoAgain
  <2> QED
    BY <2>4, <2>5, <2>6, <2>8 DEF OneOfEach, NoAgain
<1> QED
  BY <1>2, <1>3, <1>4, <1>5, <1>6 DEF Menu

\* Dialling, and remembering the password that was typed.
LEMMA DialSteps ==
  ASSUME HostInv, Dialing PROVE HostInv'
<1> USE DEF HostInv
<1>1. /\ doc \in SUBSET RawHost /\ project \in SUBSET RawHost /\ cache \in SUBSET RawHost
      /\ FormOK(form) /\ MoveOK(move) /\ DialOK(dial) /\ keys \subseteq Key
  BY DEF TypeOK, FormOK, MoveOK, DialOK
<1>2. ASSUME NEW h \in view, DialPersonal(h) PROVE HostInv'
  <2>1. PICK pw \in StoredPassword(doc, h.id) : Dials(h, FALSE, pw)
    BY <1>2 DEF DialPersonal
  <2>2. h \in VaultHost /\ h \in View(doc)
    BY DEF TypeOK, ViewIsDoc
  <2>3. PICK r \in doc : r.id = h.id /\ r.addr = h.addr
    BY <2>2 DEF View, ToHost
  <2>4. pw \in Secret \cup {None} /\ (pw # None => r.pw = pw)
    BY <1>1, <2>1, <2>3, StoredIsThere DEF OneOfEach, OneHostEach
  <2>5. DialOK(dial')
    BY <1>1, <2>1, <2>2, <2>4 DEF Dials, KeyRefs, DialOK, VaultHost
  <2>6. pw # None => <<h.addr, pw>> \in stored
    BY <2>3, <2>4, IsTogether DEF SecretsAtHome
  <2>7. SecretsAtHome'
    BY <1>2, <2>1, <2>6 DEF DialPersonal, Dials, SecretsAtHome, SecretGoesHome, NoPass, NoAgain
  <2> QED
    BY <1>1, <1>2, <2>5, <2>7, AsideKeeps DEF DialPersonal, ViewIsDoc, TypeOK
<1>3. ASSUME NEW h \in pview, DialTake(h) PROVE HostInv'
  <2>1. h \in VaultHost
    BY DEF TypeOK
  <2>2. DialOK(dial')
    BY <1>3, <2>1 DEF DialTake, HungUp, DialOK, VaultHost
  <2>3. NoPass => \E g \in cache : g.id = h.id /\ g.addr = h.addr
    BY <1>3 DEF NoPass, DialTake, View, ToHost
  <2>4. SecretsAtHome'
    BY <1>3, <2>3 DEF DialTake, HungUp, SecretsAtHome, SecretGoesHome, NoPass, NoAgain
  <2> QED
    BY <1>1, <1>3, <2>2, <2>4, AsideKeeps DEF DialTake, ViewIsDoc, TypeOK
<1>4. CASE DialProject
  <2>1. PICK pw \in StoredPassword(cache, dial.id) \cup {None} : Dials(dial, TRUE, pw)
    BY <1>4 DEF DialProject
  <2>2. pw \in Secret \cup {None}
    BY <1>1, StoredIsThere
  <2>3. DialOK(dial')
    BY <1>1, <2>1, <2>2 DEF Dials, KeyRefs, DialOK
  <2>4. NoPass /\ NoAgain /\ pw # None => <<dial.addr, pw>> \in stored
    <3> SUFFICES ASSUME NoPass, NoAgain, pw # None PROVE <<dial.addr, pw>> \in stored
      OBVIOUS
    <3>1. PICK h \in cache : h.id = dial.id /\ h.addr = dial.addr
      BY <1>4 DEF DialProject, SecretsAtHome
    <3>2. PICK g \in cache : g.id = dial.id /\ g.pw = pw
      BY <1>1, <2>1, StoredIsThere
    <3>3. g = h
      BY <3>1, <3>2 DEF SecretsAtHome, OneHostEach
    <3> QED
      BY <3>1, <3>2, <3>3, IsTogether DEF SecretsAtHome
  <2>5. SecretsAtHome'
    BY <1>4, <2>1, <2>4 DEF DialProject, Dials, SecretsAtHome, SecretGoesHome, NoPass, NoAgain
  <2> QED
    BY <1>1, <1>4, <2>3, <2>5, AsideKeeps DEF DialProject, ViewIsDoc, TypeOK
<1>5. CASE HangUp
  <2>1. DialOK(dial')
    BY <1>5 DEF HangUp, HungUp, DialOK
  <2>2. SecretsAtHome'
    BY <1>5 DEF HangUp, HungUp, SecretsAtHome, SecretGoesHome, NoPass, NoAgain
  <2> QED
    BY <1>1, <1>5, <2>1, <2>2, AsideKeeps DEF HangUp, ViewIsDoc, TypeOK
<1>6. ASSUME NEW pw \in Secret, Remember(pw) PROVE HostInv'
  <2>1. /\ FormOK(form') /\ MoveOK(move') /\ keys' \subseteq Key
        /\ UNCHANGED <<open, cache, pview, dial>>
    BY <1>1, <1>6 DEF Remember
  <2>2. ASSUME NEW h \in project,
               Commits(doc, (project \ {h}) \cup {WithPassword(h, pw)}) PROVE HostInv'
    <3>1. OneOfEach(doc, (project \ {h}) \cup {WithPassword(h, pw)})
      BY <1>1, PasswordType, Replacing DEF OneOfEach
    <3> QED
      BY <1>1, <2>1, <2>2, <3>1, PasswordType, CommitKeeps
  <2>3. ASSUME NEW h \in doc,
               Commits((doc \ {h}) \cup {WithPassword(h, pw)}, project) PROVE HostInv'
    <3>1. OneOfEach((doc \ {h}) \cup {WithPassword(h, pw)}, project)
      BY <1>1, PasswordType, Replacing DEF OneOfEach
    <3> QED
      BY <1>1, <2>1, <2>3, <3>1, PasswordType, CommitKeeps
  <2> QED
    BY <1>6, <2>2, <2>3 DEF Remember
<1> QED
  BY <1>2, <1>3, <1>4, <1>5, <1>6 DEF Dialing

\* What passes and other clients bring.
LEMMA ArrivalSteps ==
  ASSUME HostInv, Arrives PROVE HostInv'
<1> USE DEF HostInv
<1>1. /\ doc \in SUBSET RawHost /\ project \in SUBSET RawHost /\ cache \in SUBSET RawHost
      /\ FormOK(form) /\ MoveOK(move) /\ DialOK(dial)
  BY DEF TypeOK, FormOK, MoveOK, DialOK
<1>2. CASE PassCache
  <2>1. SecretsAtHome'
    BY <1>2 DEF PassCache, SecretsAtHome, SecretGoesHome, NoPass, NoAgain, OneOfEach
  <2> QED
    BY <1>1, <1>2, <2>1, AsideKeeps DEF PassCache, ViewIsDoc, TypeOK, FormOK, MoveOK, DialOK
<1>3. CASE PassShow
  <2>1. SecretsAtHome'
    BY <1>3 DEF PassShow, SecretsAtHome, SecretGoesHome, NoPass, NoAgain
  <2>2. pview' \subseteq VaultHost
    BY <1>1, <1>3, ViewType DEF PassShow
  <2> QED
    BY <1>1, <1>3, <2>1, <2>2, AsideKeeps DEF PassShow, ViewIsDoc, TypeOK, FormOK, MoveOK, DialOK
<1>4. CASE Adopt
  <2> PICK d \in OtherClient(doc) : Commits(d, project)
    BY <1>4 DEF Adopt
  <2>1. d \in SUBSET RawHost /\ OneOfEach(d, project)
    BY <1>1, OthersKeep DEF OneOfEach
  <2> QED
    BY <1>1, <1>4, <2>1, CommitKeeps DEF Adopt
<1>5. CASE OtherProject
  <2> PICK p \in OtherClient(project) : Commits(doc, p)
    BY <1>5 DEF OtherProject
  <2>1. p \in SUBSET RawHost /\ OneOfEach(doc, p)
    BY <1>1, OthersKeep DEF OneOfEach
  <2> QED
    BY <1>1, <1>5, <2>1, CommitKeeps DEF OtherProject, TypeOK
<1> QED
  BY <1>2, <1>3, <1>4, <1>5 DEF Arrives

\* Every step keeps the invariant.
LEMMA HostStep ==
  ASSUME HostInv, [Next]_vars PROVE HostInv'
<1> USE DEF HostInv
<1>1. /\ doc \in SUBSET RawHost /\ FormOK(form) /\ MoveOK(move) /\ DialOK(dial) /\ open \in BOOLEAN
  BY DEF TypeOK, FormOK, MoveOK, DialOK
<1>2. CASE Unlock
  <2>1. SecretsAtHome'
    BY <1>2 DEF Unlock, SecretsAtHome, SecretGoesHome, NoPass, NoAgain
  <2> QED
    BY <1>1, <1>2, <2>1, AsideKeeps DEF Unlock, TypeOK, FormOK, MoveOK, DialOK
<1>3. CASE Lock
  <2>1. FormOK(form') /\ DialOK(dial')
    BY <1>3 DEF Lock, Closed, HungUp, EmptyForm, Values, FormOK, DialOK
  <2>2. SecretsAtHome'
    BY <1>3 DEF Lock, HungUp, SecretsAtHome, SecretGoesHome, NoPass, NoAgain
  <2> QED
    BY <1>1, <1>3, <2>1, <2>2, AsideKeeps DEF Lock, TypeOK
<1>4. CASE UNCHANGED vars
  <2>1. SecretsAtHome'
    BY <1>4 DEF vars, SecretsAtHome, SecretGoesHome, NoPass, NoAgain
  <2> QED
    BY <1>1, <1>4, <2>1, AsideKeeps DEF vars, ViewIsDoc, TypeOK, FormOK, MoveOK, DialOK
<1> QED
  BY <1>2, <1>3, <1>4, FormSteps, MenuSteps, DialSteps, ArrivalSteps DEF Next

-----------------------------------------------------------------------------
(* The theorems.                                                           *)

\* The inductive invariant holds of every behaviour: types, one host of an id and of
\* a name in a document, the list of Redux, and where a stored password belongs.
\* (mutate.ts, vaultSlice.ts, hostSecret.ts.)
THEOREM HostInvariance == Spec => []HostInv
  BY HostInit, HostStep, PTL DEF Spec

\* Every variable keeps its type, for every set of hosts and every bound: in
\* particular no port out of range is ever stored.  (validate.)
THEOREM HostTypes == Spec => []TypeOK
<1>1. HostInv => TypeOK
  BY DEF HostInv
<1> QED
  BY <1>1, HostInvariance, PTL

\* However forms, moves, other devices and other members follow one another, an id and a
\* name each name one host of the personal document; and one of the project, if no host
\* that a move left in both documents is moved again.  (validate, addRawHostToPayload.)
THEOREM NamesStayUnique == Spec => [](OneHostEach(doc) /\ (NoAgain => NamesUnique))
<1>1. HostInv => OneHostEach(doc) /\ (NoAgain => NamesUnique)
  BY DEF HostInv, OneOfEach, NamesUnique
<1> QED
  BY <1>1, HostInvariance, PTL

\* Where no pass is between a project's cache and its list while a terminal dials, and an
\* id names one host of the cache, a stored password goes only to an address it was kept
\* together with.
\* (useTerminalLogic.startSession, readProjectStoredPassword.)
THEOREM PasswordsGoHome == Spec => [](NoPass /\ NoAgain => SecretGoesHome)
<1>1. HostInv => (NoPass /\ NoAgain => SecretGoesHome)
  BY DEF HostInv, SecretsAtHome
<1> QED
  BY <1>1, HostInvariance, PTL

-----------------------------------------------------------------------------
(* What becomes of a host that is being moved.                             *)

\* The host that was taken is the one that is there, unless it is gone.
MoveIsCurrent == move # Still => \A h \in doc : h.id = move.host.id => h = move.host

\* It is if what is new in the document is of another id.
LEMMA MoveStays ==
  ASSUME MoveIsCurrent, move' = move, move # Still => \A h \in doc' : h.id = move.host.id => h \in doc
  PROVE  MoveIsCurrent'
  BY DEF MoveIsCurrent, Still

\* If nothing changes the host that is being moved, what was taken stays current.
LEMMA MoveStaysCurrent ==
  ASSUME "move" \notin Overlap, HostInv, MoveIsCurrent, [Next]_vars
  PROVE  MoveIsCurrent'
<1>1. doc \in SUBSET RawHost /\ OneHostEach(doc) /\ MoveOK(move)
  BY DEF HostInv, TypeOK, OneOfEach, MoveOK
<1>2. ASSUME move' = Still PROVE MoveIsCurrent'
  BY <1>2 DEF MoveIsCurrent, Still
<1>3. CASE UNCHANGED <<doc, move>>
  BY <1>3, MoveStays
<1>4. ASSUME NEW id \in Id, NEW now \in Typed, Submit(id, now) PROVE MoveIsCurrent'
  <2>1. CASE Fresh(id) /\ Valid(doc, now, None) /\ doc' = doc \cup {NewHost(id, now)}
    <3>1. NewHost(id, now).id = id
      <4>1. now \in Values
        BY DEF Typed, Values, HostInv, TypeOK
      <4> QED
        BY <2>1, <4>1, NewHostType
    <3> QED
      BY <1>4, <2>1, <3>1, MoveStays DEF Submit, Fresh
  <2>2. CASE LeavesMoved(doc')
    BY <1>4, <2>2, MoveStays DEF Submit, LeavesMoved
  <2> QED
    BY <1>4, <2>1, <2>2 DEF Submit, Commits
<1>5. ASSUME NEW id \in Id, Delete(id) PROVE MoveIsCurrent'
  BY <1>5, MoveStays DEF Delete, Commits, Without
<1>6. ASSUME NEW h \in doc, MoveTake(h) PROVE MoveIsCurrent'
  BY <1>1, <1>6 DEF MoveTake, MoveIsCurrent, OneHostEach
<1>7. CASE MovePut
  <2>1. CASE move' = [move EXCEPT !.pc = "put"]
    <3>1. doc' = doc /\ move # Still /\ move'.host = move.host
      BY <1>1, <1>7, <2>1 DEF MovePut, Commits, Still, MoveOK
    <3> QED
      BY <3>1 DEF MoveIsCurrent
  <2> QED
    BY <1>2, <1>7, <2>1 DEF MovePut
<1>8. CASE Menu
  BY <1>2, <1>5, <1>6, <1>7, <1>8 DEF Menu, MoveFails, MoveDelete
<1>9. CASE Forms
  BY <1>3, <1>4, <1>9 DEF Forms, OpenAdd, OpenEdit, Cancel
<1>10. ASSUME NEW pw \in Secret, Remember(pw) PROVE MoveIsCurrent'
  <2>1. doc' = doc \/ LeavesMoved(doc')
    BY <1>10 DEF Remember, Commits
  <2>2. move' = move
    BY <1>10 DEF Remember
  <2> QED
    BY <2>1, <2>2, MoveStays DEF LeavesMoved
<1>11. CASE Dialing
  BY <1>3, <1>10, <1>11 DEF Dialing, DialPersonal, DialTake, DialProject, HangUp
<1>12. CASE Adopt
  <2>1. LeavesMoved(doc') /\ move' = move
    BY <1>12 DEF Adopt, Commits
  <2> QED
    BY <2>1, MoveStays DEF LeavesMoved
<1>13. CASE Unlock \/ Lock \/ PassCache \/ PassShow \/ OtherProject \/ UNCHANGED vars
  BY <1>3, <1>13 DEF Unlock, Lock, PassCache, PassShow, OtherProject, Commits, vars
<1> QED
  BY <1>8, <1>9, <1>11, <1>12, <1>13 DEF Next, Arrives

\* A step that changes the document keeps every host it does not delete; the one that a
\* move deletes is as it was taken.
LEMMA StepKeeps ==
  ASSUME HostInv, MoveIsCurrent, Next, ~Adopt, NEW h \in doc
  PROVE  Kept(h, doc') \/ Delete(h.id) \/ MovedWhole(h)
<1>1. doc \in SUBSET RawHost /\ OneHostEach(doc) /\ FormOK(form) /\ MoveOK(move)
  BY DEF HostInv, TypeOK, OneOfEach, FormOK, MoveOK
<1>2. \A hosts : h \in hosts => Kept(h, hosts)
  BY DEF Kept
<1>3. CASE doc' = doc
  BY <1>2, <1>3
<1>4. ASSUME NEW id \in Id, NEW now \in Typed, Submit(id, now) PROVE Kept(h, doc')
  <2>1. now \in Values
    BY <1>1 DEF Typed, Values, FormOK
  <2>2. CASE h \in doc'
    BY <1>2, <2>2
  <2>3. CASE h \notin doc'
    <3>1. PICK g \in doc : /\ g.id = id /\ Valid(doc, now, id)
                           /\ doc' = (doc \ {g}) \cup {ApplyEditable(g, now)}
      BY <1>4, <2>3 DEF Submit, Commits
    <3>2. g = h
      BY <2>3, <3>1
    <3>3. /\ ApplyEditable(h, now).id = h.id /\ ApplyEditable(h, now).key = h.key
          /\ ApplyEditable(h, now).pw = h.pw
      BY <1>1, <2>1, <3>1, <3>2, ApplyType
    <3> QED
      BY <3>1, <3>2, <3>3 DEF Kept
  <2> QED
    BY <2>2, <2>3
<1>5. ASSUME NEW id \in Id, Delete(id) PROVE Kept(h, doc') \/ Delete(h.id)
  <2>1. doc' = Without(doc, id)
    BY <1>5 DEF Delete, Commits
  <2> QED
    BY <1>2, <1>5, <2>1 DEF Without
<1>6. CASE MoveDelete
  <2>1. CASE h \in doc'
    BY <1>2, <2>1
  <2>2. CASE h \notin doc'
    <3>1. h.id = move.host.id /\ move # Still
      BY <1>6, <2>2 DEF MoveDelete, Without, Still
    <3>2. h = move.host
      BY <3>1 DEF MoveIsCurrent
    <3> QED
      BY <1>6, <3>2 DEF MovedWhole, Kept
  <2> QED
    BY <2>1, <2>2
<1>7. ASSUME NEW pw \in Secret, Remember(pw) PROVE Kept(h, doc')
  <2>1. CASE h \in doc'
    BY <1>2, <2>1
  <2>2. CASE h \notin doc'
    <3>1. PICK g \in doc : doc' = (doc \ {g}) \cup {WithPassword(g, pw)}
      BY <1>7, <2>2 DEF Remember, Commits
    <3>2. g = h
      BY <2>2, <3>1
    <3> QED
      BY <1>1, <3>1, <3>2, PasswordType, NothingIsNone DEF Kept
  <2> QED
    BY <2>1, <2>2
<1>8. CASE Forms
  BY <1>3, <1>4, <1>8 DEF Forms, OpenAdd, OpenEdit, Cancel
<1>9. CASE Dialing
  BY <1>3, <1>7, <1>9 DEF Dialing, DialPersonal, DialTake, DialProject, HangUp
<1>10. CASE Unlock \/ Lock \/ PassCache \/ PassShow \/ OtherProject
  BY <1>3, <1>10 DEF Unlock, Lock, PassCache, PassShow, OtherProject, Commits
<1>11. CASE Menu
  BY <1>3, <1>5, <1>6, <1>11 DEF Menu, MoveTake, MovePut, MoveFails, Commits
<1> QED
  BY <1>8, <1>9, <1>10, <1>11 DEF Next, Arrives

\* Nothing but the project's word that it has the host brings a move to its deletion.
LEMMA StepPutsWhole ==
  ASSUME HostInv, Next PROVE PutWhole
<1>1. MoveOK(move)
  BY DEF HostInv, TypeOK, MoveOK
<1>2. CASE MovePut
  BY <1>2 DEF MovePut, Commits, PutWhole
<1>3. CASE move' \in {move, Still}
  BY <1>3 DEF PutWhole, Still
<1>4. ASSUME NEW h \in doc, MoveTake(h) PROVE PutWhole
  BY <1>4 DEF MoveTake, PutWhole, Still
<1>5. CASE Forms \/ Arrives
  BY <1>3, <1>5 DEF Forms, OpenAdd, OpenEdit, Submit, Cancel, Arrives, PassCache, PassShow,
     Adopt, OtherProject
<1>6. CASE Dialing
  BY <1>3, <1>6 DEF Dialing, DialPersonal, DialTake, DialProject, HangUp, Remember
<1>7. CASE Unlock \/ Lock
  BY <1>3, <1>7 DEF Unlock, Lock
<1>8. CASE Menu
  BY <1>2, <1>3, <1>4, <1>8 DEF Menu, Delete, MoveFails, MoveDelete
<1> QED
  BY <1>5, <1>6, <1>7, <1>8 DEF Next

\* As long as nothing changes a host while it is being moved: no edit, deletion, move or
\* remembered password loses another host, or what of a host the form does not show.
\* (mutate.ts: "unknown fields are preserved"; moveHostToProject: "never loses the host".)
THEOREM EditsLoseNothing ==
  ASSUME "move" \notin Overlap
  PROVE  Spec => EditsKeep
<1>1. Init => MoveIsCurrent
  BY DEF Init, MoveIsCurrent
<1>2. Spec => []MoveIsCurrent
  BY <1>1, MoveStaysCurrent, HostInvariance, PTL DEF Spec
<1>3. HostInv /\ MoveIsCurrent /\ [Next]_vars =>
        [/\ Adopt \/ \A h \in doc : Kept(h, doc') \/ Delete(h.id) \/ MovedWhole(h)
         /\ PutWhole]_vars
  BY StepKeeps, StepPutsWhole
<1> QED
  BY <1>2, <1>3, HostInvariance, PTL DEF Spec, EditsKeep

-----------------------------------------------------------------------------
(* What is saved from a form.                                              *)

\* An open form still shows what the document holds of its host.
FormIsCurrent ==
  /\ form.pc = "add" => form.id = None
  /\ form.pc = "edit" => \A g \in doc : g.id = form.id => form.seed = HostToFormValues(g)

\* The fields of the form are those of the host it was opened for.  (hostToFormValues.)
LEMMA SeedOfView ==
  ASSUME NEW g PROVE HostToFormValues(ToHost(g)) = HostToFormValues(g)
  BY DEF HostToFormValues, ToHost

\* A remembered password leaves them alone.  (setHostPasswordInPayload.)
LEMMA SeedOfPassword ==
  ASSUME NEW g \in RawHost, NEW pw
  PROVE  HostToFormValues(WithPassword(g, pw)) = HostToFormValues(g)
<1>1. /\ WithPassword(g, pw).name = g.name /\ WithPassword(g, pw).addr = g.addr
      /\ WithPassword(g, pw).port = g.port
  BY DEF WithPassword, RawHost
<1> QED
  BY <1>1 DEF HostToFormValues

\* Only another device could change the host behind an open form, and it is kept out: while
\* a form is open this phone edits by that form alone, or adds a password.
LEMMA FormStaysCurrent ==
  ASSUME "form" \notin Overlap, HostInv, FormIsCurrent, [Next]_vars
  PROVE  FormIsCurrent'
<1>1. doc \in SUBSET RawHost /\ OneHostEach(doc)
  BY DEF HostInv, TypeOK, OneOfEach
<1>2. ASSUME form' = Closed PROVE FormIsCurrent'
  BY <1>2 DEF FormIsCurrent, Closed
<1>3. CASE UNCHANGED <<form, doc>>
  BY <1>3 DEF FormIsCurrent
<1>4. CASE OpenAdd
  <2>1. form'.pc = "add" /\ form'.id = None
    BY <1>4 DEF OpenAdd, Closed
  <2> QED
    BY <2>1 DEF FormIsCurrent
<1>5. ASSUME NEW h \in view, OpenEdit(h) PROVE FormIsCurrent'
  <2>1. /\ form'.pc = "edit" /\ form'.id = h.id /\ form'.seed = HostToFormValues(h)
        /\ doc' = doc /\ h \in View(doc)
    BY <1>5 DEF OpenEdit, HostInv, ViewIsDoc
  <2>2. PICK r \in doc : h = ToHost(r)
    BY <2>1 DEF View
  <2>3. h.id = r.id
    BY <2>2 DEF ToHost
  <2>4. \A g \in doc : g.id = h.id => form'.seed = HostToFormValues(g)
    BY <1>1, <2>1, <2>2, <2>3, SeedOfView DEF OneHostEach
  <2> QED
    BY <2>1, <2>4 DEF FormIsCurrent
<1>6. CASE Forms
  <2>1. CASE (\E id \in Id, now \in Typed : Submit(id, now)) \/ Cancel
    BY <1>2, <2>1 DEF Submit, Cancel
  <2> QED
    BY <1>4, <1>5, <1>6, <2>1 DEF Forms
<1>7. CASE Menu
  <2>1. form' = Closed \/ (form' = form /\ doc' \in SUBSET doc)
    BY <1>7 DEF Menu, Delete, MoveTake, MovePut, MoveFails, MoveDelete, Without, Commits
  <2>2. CASE form' = form /\ doc' \in SUBSET doc
    BY <2>2 DEF FormIsCurrent
  <2> QED
    BY <1>2, <2>1, <2>2
<1>8. ASSUME NEW pw \in Secret, Remember(pw) PROVE FormIsCurrent'
  <2>1. form' = form
    BY <1>8 DEF Remember
  <2>2. CASE doc' = doc
    BY <1>3, <2>1, <2>2
  <2>3. CASE doc' # doc
    <3>1. PICK h \in doc : doc' = (doc \ {h}) \cup {WithPassword(h, pw)}
      BY <1>8, <2>3 DEF Remember, Commits
    <3>2. WithPassword(h, pw).id = h.id
      BY <1>1, PasswordType
    <3>3. HostToFormValues(WithPassword(h, pw)) = HostToFormValues(h)
      BY <1>1, SeedOfPassword
    <3> QED
      BY <2>1, <3>1, <3>2, <3>3 DEF FormIsCurrent
  <2> QED
    BY <2>2, <2>3
<1>9. CASE Dialing
  <2>1. CASE (\E h \in view : DialPersonal(h)) \/ (\E h \in pview : DialTake(h)) \/ DialProject
             \/ HangUp
    BY <1>3, <2>1 DEF DialPersonal, DialTake, DialProject, HangUp
  <2> QED
    BY <1>8, <1>9, <2>1 DEF Dialing
<1>10. CASE Unlock \/ Lock \/ PassCache \/ PassShow \/ OtherProject \/ UNCHANGED vars
  BY <1>2, <1>3, <1>10 DEF Unlock, Lock, PassCache, PassShow, OtherProject, Commits, vars
<1>11. CASE Adopt
  BY <1>2, <1>11 DEF Adopt
<1> QED
  BY <1>6, <1>7, <1>9, <1>10, <1>11 DEF Next, Arrives

\* The port of a stored host is no default left open.  (validate.)
LEMMA StoredPort == ASSUME NEW g \in RawHost PROVE NormalizePort(g.port) = g.port
<1>1. g.port \in PortMin..PortMax
  BY DEF RawHost
<1>2. \A x \in PortMin..PortMax : x # 0
  BY DEF PortMin, PortMax
<1>3. g.port # 0
  BY <1>1, <1>2, Zenon
<1> QED
  BY <1>3, Zenon DEF NormalizePort

\* What a current form saves differs from the document only where its user typed.
LEMMA SubmitSavesSeen ==
  ASSUME HostInv, FormIsCurrent, NEW id \in Id, NEW now \in Typed, form.id = id, doc' # doc,
         Submit(id, now), NEW g \in doc, NEW h \in doc', g.id = id, h.id = id,
         NEW f \in {"name", "addr", "port"}, now[f] = form.seed[f]
  PROVE  h[f] = g[f]
<1>1. doc \in SUBSET RawHost /\ OneHostEach(doc) /\ FormOK(form)
  BY DEF HostInv, TypeOK, OneOfEach, FormOK
<1>2. form.pc = "edit"
  <2>1. form.pc # "add"
    BY NothingIsNone DEF FormIsCurrent
  <2> QED
    BY <2>1 DEF Submit
<1>3. now \in Values /\ g \in RawHost
  BY <1>1 DEF Typed, Values, FormOK
<1>4. PICK r \in doc : r.id = id /\ doc' = (doc \ {r}) \cup {ApplyEditable(r, now)}
  BY <1>2 DEF Submit, Commits
<1>5. r = g /\ h = ApplyEditable(g, now)
  BY <1>1, <1>4 DEF OneHostEach
<1>6. form.seed.name = g.name /\ form.seed.addr = g.addr /\ form.seed.port = g.port
  <2>1. form.seed = HostToFormValues(g)
    BY <1>2 DEF FormIsCurrent
  <2> QED
    BY <2>1 DEF HostToFormValues
<1>7. /\ h.name = now.name /\ h.addr = now.addr /\ h.port = NormalizePort(now.port)
  BY <1>3, <1>5 DEF ApplyEditable, RawHost
<1>8. NormalizePort(g.port) = g.port
  BY <1>3, StoredPort
<1> QED
  BY <1>6, <1>7, <1>8

\* As long as no other device's edit arrives under an open form: what its user left as it was
\* stays as it is in the document.  (useHostFormLogic, updateHostInPayload.)
THEOREM FormsSaveWhatIsSeen ==
  ASSUME "form" \notin Overlap
  PROVE  Spec => SavedAsSeen
<1>1. Init => FormIsCurrent
  BY DEF Init, Closed, FormIsCurrent
<1>2. Spec => []FormIsCurrent
  BY <1>1, FormStaysCurrent, HostInvariance, PTL DEF Spec
<1>3. HostInv /\ FormIsCurrent =>
        [\A id \in Id, now \in Typed :
           form.id = id /\ form' = Closed /\ doc' # doc /\ Submit(id, now) =>
             \A g \in doc, h \in doc' : g.id = id /\ h.id = id =>
               \A f \in {"name", "addr", "port"} : now[f] = form.seed[f] => h[f] = g[f]]_vars
  BY SubmitSavesSeen
<1> QED
  BY <1>2, <1>3, HostInvariance, PTL DEF Spec, SavedAsSeen
=============================================================================
