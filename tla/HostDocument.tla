---------------------------- MODULE HostDocument ----------------------------
(***************************************************************************)
(* The hosts as the screens see and change them: the operations on the     *)
(* decrypted document (vault/mutate.ts), the stripped list in Redux        *)
(* (document.ts), the form that edits a host (features/hostForm), the      *)
(* hosts of a project, and what a terminal takes of a host when it dials   *)
(* (hostSecret.ts, keySecret.ts, projectHostSecret.ts).  How documents     *)
(* reach disk and server is PersonalSync and ProjectSharing: here an edit  *)
(* is one step.  The move of a host is a write of the project's document   *)
(* and then of the personal one.                                           *)
(***************************************************************************)
EXTENDS Naturals

CONSTANTS Id,       \* host ids
          Name,     \* names as spelled
          Fold,     \* ... and as compared: trimmed, in lower case
          Addr,     \* what else the form shows: address, user, tags
          Blank,    \* a field left empty
          Port,     \* the ports a user may type; 0: none
          Secret,   \* passwords
          Key,      \* synced SSH keys
          None,     \* no password, no key, no host
          MaxEdits, \* bound: changes of a document
          Overlap   \* what may meet a form, a dial or a move (below)

(***************************************************************************)
(* "form": another device's edit may arrive while a form is open.          *)
(* "pass": a terminal may dial a project host while a pass has cached the  *)
(*         project and not listed it yet, or the pass run in the dial.     *)
(* "move": the personal host may be changed while it is being moved.       *)
(* "again": a host may be moved to the project although its id is there:   *)
(*         a move came half way, and a copy was renamed.                   *)
(* The program excludes none of it.                                        *)
(***************************************************************************)
ASSUME FoldIsFunction == DOMAIN Fold = Name
ASSUME NothingIsNone  == None \notin Secret \cup Key \cup Id
ASSUME BlankIsNothing == Blank \notin Name \cup Addr
ASSUME NumbersAreNat  == Port \subseteq Nat /\ MaxEdits \in Nat
ASSUME OverlapIsKinds == Overlap \subseteq {"form", "pass", "move", "again"}

VARIABLES
  doc,      \* the hosts of the personal document, in memory and on disk
  keys,     \* its synced keys
  open,     \* the vault is unlocked
  view,     \* Redux: the personal hosts without their secrets
  form,     \* the form: which host, and what it was seeded with
  move,     \* a move to the project: where it is, and the raw host as it was taken
  project,  \* the hosts of a project, at the server
  cache,    \* ... in its cached blob
  pview,    \* ... and in Redux
  dial,     \* a terminal's host as it was taken, and what was dialled with
  stored,   \* history: address and password that were once stored together
  edits     \* bound

vars == <<doc, keys, open, view, form, move, project, cache, pview, dial, stored, edits>>

PortMin     == 1
PortMax     == 65535
DefaultPort == 22

\* A raw host.  "key" stands for all that neither the form nor a remembered password
\* touches: the bound key, its path, source, last seen, what newer clients add.
RawHost == [id : Id, name : Name, addr : Addr, port : PortMin..PortMax,
            auth : {"key", "password"}, pw : Secret \cup {None}, key : Key \cup {None}]

\* The typed host of the screens: no password.
ToHost(h) == [id |-> h.id, name |-> h.name, addr |-> h.addr, port |-> h.port,
              auth |-> h.auth, key |-> h.key]
View(hosts) == {ToHost(h) : h \in hosts}
VaultHost == [id : Id, name : Name, addr : Addr, port : PortMin..PortMax,
              auth : {"key", "password"}, key : Key \cup {None}]

\* The fields of the form.
Values    == [name : Name \cup {Blank}, addr : Addr \cup {Blank}, port : Nat]
EmptyForm == [name |-> Blank, addr |-> Blank, port |-> 0]
Closed    == [pc |-> "closed", id |-> None, seed |-> EmptyForm]
Still     == [pc |-> "idle", host |-> None]
HungUp    == [pc |-> "idle", proj |-> FALSE, id |-> None, addr |-> Blank, auth |-> "key",
              key |-> None, pw |-> None, keys |-> {}]

TypeOK ==
  /\ doc \subseteq RawHost /\ project \subseteq RawHost /\ cache \subseteq RawHost
  /\ keys \subseteq Key /\ open \in BOOLEAN
  /\ view \subseteq VaultHost /\ pview \subseteq VaultHost
  /\ form \in [pc : {"closed", "add", "edit"}, id : Id \cup {None}, seed : Values]
  /\ form.pc = "edit" => form.id \in Id
  /\ move \in {Still} \cup [pc : {"taken", "put"}, host : RawHost]
  /\ dial \in [pc : {"idle", "taken", "dialled"}, proj : BOOLEAN, id : Id \cup {None},
               addr : Addr \cup {Blank}, auth : {"key", "password"}, key : Key \cup {None},
               pw : Secret \cup {None}, keys : SUBSET Key]
  /\ stored \subseteq Addr \X Secret
  /\ edits \in 0..MaxEdits

-----------------------------------------------------------------------------
(* The operations on a document's hosts.                                   *)

NormalizePort(p) == IF p = 0 THEN DefaultPort ELSE p

Has(hosts, id) == \E h \in hosts : h.id = id

\* Mutant of NameTaken: names are compared as spelled.
NameTakenAsSpelled(hosts, name, exclude) == \E h \in hosts : h.id # exclude /\ h.name = name

NameTaken(hosts, name, exclude) ==
  \E h \in hosts : h.id # exclude /\ Fold[h.name] = Fold[name]

\* Mutant of Valid: the port is left to the form, which checks no default.
ValidAnyPort(hosts, in, exclude) ==
  in.name # Blank /\ in.addr # Blank /\ ~NameTaken(hosts, in.name, exclude)

\* What validate lets pass; exclude is the host that is edited.
Valid(hosts, in, exclude) ==
  /\ in.name # Blank /\ in.addr # Blank
  /\ NormalizePort(in.port) \in PortMin..PortMax
  /\ ~NameTaken(hosts, in.name, exclude)

\* Mutant of ApplyEditable: the host is built anew from the form.
ApplyEditableAnew(h, in) ==
  [id |-> h.id, name |-> in.name, addr |-> in.addr, port |-> NormalizePort(in.port),
   auth |-> "key", pw |-> None, key |-> None]

ApplyEditable(h, in) ==
  [h EXCEPT !.name = in.name, !.addr = in.addr, !.port = NormalizePort(in.port)]

NewHost(id, in) ==
  ApplyEditable([id |-> id, name |-> in.name, addr |-> in.addr, port |-> DefaultPort,
                 auth |-> "key", pw |-> None, key |-> None], in)

Without(hosts, id) == {h \in hosts : h.id # id}

WithPassword(h, pw) == [h EXCEPT !.pw = pw, !.auth = "password"]

\* The synced keys offered for a host: the one it is bound to if it is there, or all.
KeyRefs(all, bound) == IF bound \in all THEN {bound} ELSE all

\* Mutant of StoredPassword: the password of another host of the list.
StoredPasswordOfAny(hosts, id) == {h.pw : h \in hosts} \cup {None}

\* The password stored for the host.
StoredPassword(hosts, id) ==
  IF Has(hosts, id) THEN {h.pw : h \in {g \in hosts : g.id = id}} ELSE {None}

-----------------------------------------------------------------------------
Init ==
  /\ doc = {} /\ keys \in SUBSET Key /\ open = FALSE /\ view = {} /\ form = Closed /\ move = Still
  /\ project = {} /\ cache = {} /\ pview = {} /\ dial = HungUp /\ stored = {} /\ edits = 0

Together(hosts) == {<<h.addr, h.pw>> : h \in {g \in hosts : g.pw # None}}

\* An id drawn at random is that of no host, also of none on its way.
Fresh(id) == ~Has(doc \cup project, id) /\ (move # Still => id # move.host.id)

\* What becomes of the personal hosts leaves the one that is being moved as it is.
LeavesMoved(hosts) ==
  "move" \notin Overlap /\ move # Still => \A h \in hosts : h.id = move.host.id => h \in doc

\* A change of the documents: the hosts of an unlocked vault are in Redux with it.
Commits(d, p) ==
  /\ edits < MaxEdits /\ edits' = edits + 1
  /\ doc' = d /\ project' = p
  /\ view' = IF open THEN View(d) ELSE view
  /\ stored' = stored \cup Together(d) \cup Together(p)

Unlock == ~open /\ open' = TRUE /\ view' = View(doc)
          /\ UNCHANGED <<doc, keys, form, move, project, cache, pview, dial, stored, edits>>

\* The screens of an unlocked vault go with its lists; a move goes on.
Lock ==
  /\ open /\ open' = FALSE
  /\ view' = {} /\ pview' = {} /\ form' = Closed /\ dial' = HungUp
  /\ UNCHANGED <<doc, keys, move, project, cache, stored, edits>>

-----------------------------------------------------------------------------
(* The form.                                                               *)

\* Mutant of HostToFormValues: the port is left for the user to type.
HostToFormValuesNoPort(h) == [name |-> h.name, addr |-> h.addr, port |-> 0]

HostToFormValues(h) == [name |-> h.name, addr |-> h.addr, port |-> h.port]

OpenAdd ==
  /\ open /\ form = Closed /\ dial = HungUp
  /\ form' = [Closed EXCEPT !.pc = "add"]
  /\ UNCHANGED <<doc, keys, open, view, move, project, cache, pview, dial, stored, edits>>

OpenEdit(h) ==
  /\ open /\ form = Closed /\ dial = HungUp /\ h \in view
  /\ form' = [pc |-> "edit", id |-> h.id, seed |-> HostToFormValues(h)]
  /\ UNCHANGED <<doc, keys, open, view, move, project, cache, pview, dial, stored, edits>>

\* The form is stored with what it now holds, and closes; what the form or the
\* document refuses stays in the form.
Submit(id, now) ==
  /\ form # Closed
  /\ \/ /\ form.pc = "add" /\ Fresh(id) /\ Valid(doc, now, None)
        /\ Commits(doc \cup {NewHost(id, now)}, project)
     \/ /\ form.pc = "edit" /\ id = form.id /\ Valid(doc, now, id)
        /\ \E h \in doc : LET d == (doc \ {h}) \cup {ApplyEditable(h, now)} IN
             h.id = id /\ LeavesMoved(d) /\ Commits(d, project)
  /\ form' = Closed
  /\ UNCHANGED <<keys, open, move, cache, pview, dial>>

Cancel ==
  /\ form # Closed /\ form' = Closed
  /\ UNCHANGED <<doc, keys, open, view, move, project, cache, pview, dial, stored, edits>>

-----------------------------------------------------------------------------
(* Deletion, the move to a project, and a remembered password.             *)

Delete(id) ==
  /\ open /\ form = Closed /\ Has(doc, id)
  /\ Commits(Without(doc, id), project)
  /\ UNCHANGED <<keys, open, form, move, cache, pview, dial>>

\* The raw host, all its fields included, is taken for the project.
MoveTake(h) ==
  /\ open /\ form = Closed /\ move = Still /\ h \in doc
  /\ move' = [pc |-> "taken", host |-> h]
  /\ UNCHANGED <<doc, keys, open, view, form, project, cache, pview, dial, stored, edits>>

\* The project takes it unless it has its name; of the answer the phone may hear nothing.
MovePut ==
  /\ move.pc = "taken" /\ ~NameTaken(project, move.host.name, None)
  /\ "again" \in Overlap \/ ~Has(project, move.host.id)
  /\ Commits(doc, project \cup {move.host})
  /\ move' \in {[move EXCEPT !.pc = "put"], Still}
  /\ UNCHANGED <<keys, open, form, cache, pview, dial>>

\* Mutant of MoveFails: the host is deleted although the project has not got it.
MoveFailsUnseen ==
  /\ move.pc = "taken" /\ move' = [move EXCEPT !.pc = "put"]
  /\ UNCHANGED <<doc, keys, open, view, form, project, cache, pview, dial, stored, edits>>

\* A name that is taken, no connection, no key, a kill: the host stays where it is.
MoveFails ==
  /\ move # Still /\ move' = Still
  /\ UNCHANGED <<doc, keys, open, view, form, project, cache, pview, dial, stored, edits>>

\* Then the personal host of its id is deleted; not if it is gone, or the vault locked.
MoveDelete ==
  /\ move.pc = "put" /\ move' = Still
  /\ IF open THEN doc' = Without(doc, move.host.id) /\ view' = View(doc')
             ELSE UNCHANGED <<doc, view>>
  /\ UNCHANGED <<keys, open, form, project, cache, pview, dial, stored, edits>>

\* The password that was typed for the dial, kept with the host it was taken from.
Remember(pw) ==
  /\ dial.pc = "dialled"
  /\ IF dial.proj
       THEN \E h \in project : /\ h.id = dial.id
                               /\ Commits(doc, (project \ {h}) \cup {WithPassword(h, pw)})
       ELSE \E h \in doc : LET d == (doc \ {h}) \cup {WithPassword(h, pw)} IN
              h.id = dial.id /\ LeavesMoved(d) /\ Commits(d, project)
  /\ UNCHANGED <<keys, open, form, move, cache, pview, dial>>

-----------------------------------------------------------------------------
(* A terminal: the host as the list shows it, then the secrets stored for  *)
(* its id.  Those of a project are read from its cache, which takes a      *)
(* while; those of the personal document are in memory.                    *)

Dials(h, proj, pw) ==
  dial' = [pc |-> "dialled", proj |-> proj, id |-> h.id, addr |-> h.addr, auth |-> h.auth,
           key |-> h.key, pw |-> pw,
           keys |-> IF h.auth = "key" THEN KeyRefs(keys, h.key) ELSE {}]

DialPersonal(h) ==
  /\ open /\ form = Closed /\ dial = HungUp /\ h \in view
  /\ \E pw \in StoredPassword(doc, h.id) : Dials(h, FALSE, pw)
  /\ UNCHANGED <<doc, keys, open, view, form, move, project, cache, pview, stored, edits>>

DialTake(h) ==
  /\ open /\ form = Closed /\ dial = HungUp /\ h \in pview
  /\ "pass" \in Overlap \/ pview = View(cache)
  /\ dial' = [HungUp EXCEPT !.pc = "taken", !.proj = TRUE, !.id = h.id, !.addr = h.addr,
                            !.auth = h.auth, !.key = h.key]
  /\ UNCHANGED <<doc, keys, open, view, form, move, project, cache, pview, stored, edits>>

\* No password if the cache does not open.
DialProject ==
  /\ dial.pc = "taken"
  /\ \E pw \in StoredPassword(cache, dial.id) \cup {None} : Dials(dial, TRUE, pw)
  /\ UNCHANGED <<doc, keys, open, view, form, move, project, cache, pview, stored, edits>>

HangUp ==
  /\ dial # HungUp /\ dial' = HungUp
  /\ UNCHANGED <<doc, keys, open, view, form, move, project, cache, pview, stored, edits>>

\* A pass over the projects: the cache, then the list.
PassCache ==
  /\ open /\ cache' = project /\ cache' # cache
  /\ "pass" \in Overlap \/ dial.pc # "taken"
  /\ UNCHANGED <<doc, keys, open, view, form, move, project, pview, dial, stored, edits>>

PassShow ==
  /\ open /\ pview' = View(cache) /\ pview' # pview
  /\ UNCHANGED <<doc, keys, open, view, form, move, project, cache, dial, stored, edits>>

-----------------------------------------------------------------------------
(* The other clients, which validate as this one does.                     *)

\* A host of another client, its id drawn at random, and what it makes of one: renamed,
\* bound to another key, or moved to another machine, with that one's password.
Arrivals(hosts) ==
  {h \in [id : Id, name : Name, addr : Addr, port : {DefaultPort}, auth : {"key"},
          pw : Secret \cup {None}, key : Key \cup {None}] :
     Fresh(h.id) /\ ~NameTaken(hosts, h.name, None)}
Changed(hosts, h) ==
  {[h EXCEPT !.name = n] : n \in {m \in Name : ~NameTaken(hosts, m, h.id)}}
    \cup {[h EXCEPT !.key = k] : k \in Key \cup {None}}
    \cup {[h EXCEPT !.addr = m[1], !.pw = m[2]] : m \in Addr \X Secret}

OtherClient(hosts) ==
  {hosts \cup {h} : h \in Arrivals(hosts)}
    \cup {Without(hosts, h.id) : h \in hosts}
    \cup UNION {{(hosts \ {h}) \cup {g} : g \in Changed(hosts, h)} : h \in hosts}

\* Adopted by a pass, with the keys of the document.
Adopt ==
  /\ open
  /\ "form" \in Overlap \/ form = Closed
  /\ \E d \in OtherClient(doc) : LeavesMoved(d) /\ Commits(d, project)
  /\ keys' \in SUBSET Key
  /\ UNCHANGED <<open, form, move, cache, pview, dial>>

OtherProject ==
  /\ \E p \in OtherClient(project) : Commits(doc, p)
  /\ UNCHANGED <<keys, open, form, move, cache, pview, dial>>

-----------------------------------------------------------------------------
Typed   == [name : Name \cup {Blank}, addr : Addr \cup {Blank}, port : Port \cup {form.seed.port}]
Forms   == \/ OpenAdd \/ (\E h \in view : OpenEdit(h))
           \/ (\E id \in Id, now \in Typed : Submit(id, now)) \/ Cancel
Menu    == \/ (\E id \in Id : Delete(id)) \/ (\E h \in doc : MoveTake(h))
           \/ MovePut \/ MoveFails \/ MoveDelete
Dialing == \/ (\E h \in view : DialPersonal(h)) \/ (\E h \in pview : DialTake(h)) \/ DialProject
           \/ HangUp \/ \E pw \in Secret : Remember(pw)
Arrives == PassCache \/ PassShow \/ Adopt \/ OtherProject

Next == Unlock \/ Lock \/ Forms \/ Menu \/ Dialing \/ Arrives

Spec == Init /\ [][Next]_vars

-----------------------------------------------------------------------------
(* Properties.                                                             *)

\* However forms, other devices and moves follow one another, an id and a name, as
\* compared, each name one host of a document.  (After a move that came half way the id
\* is in both.)  (validate, addRawHostToPayload.)
OneHostEach(hosts) ==
  \A g, h \in hosts : g.id = h.id \/ Fold[g.name] = Fold[h.name] => g = h
NamesUnique == OneHostEach(doc) /\ OneHostEach(project)

\* Nothing this phone does to its document loses what it does not show: the host it
\* does not delete is still there with all that no form touches, and with a password if
\* it had one; and if a move deletes it, the project got the same.
\* (mutate.ts: "unknown fields are preserved"; moveHostToProject: "never loses the host".)
Kept(h, hosts) ==
  \E g \in hosts : g.id = h.id /\ g.key = h.key /\ (h.pw # None => g.pw # None)
MovedWhole(h) == MoveDelete /\ Kept(h, {move.host})
PutWhole      == move.pc = "taken" /\ move'.pc = "put" => move.host \in project'
EditsKeep ==
  [][/\ Adopt \/ \A h \in doc : Kept(h, doc') \/ Delete(h.id) \/ MovedWhole(h)
     /\ PutWhole]_vars

\* What the user of a form left as it was stays as it is in the document.
SavedAsSeen ==
  [][\A id \in Id, now \in Typed :
       form.id = id /\ form' = Closed /\ doc' # doc /\ Submit(id, now) =>
         \A g \in doc, h \in doc' : g.id = id /\ h.id = id =>
           \A f \in {"name", "addr", "port"} : now[f] = form.seed[f] => h[f] = g[f]]_vars

\* A stored password is sent only where it was stored for: to an address it was at
\* some time kept together with.  (useTerminalLogic.startSession.)
SecretGoesHome == dial.pc = "dialled" /\ dial.pw # None => <<dial.addr, dial.pw>> \in stored
=============================================================================
