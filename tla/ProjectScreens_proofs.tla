------------------------ MODULE ProjectScreens_proofs ------------------------
(***************************************************************************)
(* Proofs about ProjectScreens, for every set of projects and every bound. *)
(* Types, and that a project which its user left is not in the cache of a  *)
(* list that is shown, hold whatever meets a request.  A screen, a sheet   *)
(* and what is typed into it each stay for as long as one kind of step     *)
(* does not meet them, which the theorem names.  The lemmas say once what  *)
(* a step may make of the server, of the requests, of what is shown and of *)
(* the screens; the parts of the invariant are proved from those alone.    *)
(***************************************************************************)
EXTENDS ProjectScreens, TLAPS

\* What the user, and a pass, do not do: leave a screen, close a form, or bring another
\* name, under a request or an edit.
NoBack   == "back" \notin Overlap
NoClose  == "sheet" \notin Overlap
NoReseed == "reseed" \notin Overlap

\* The pass under way, part by part.
PassRec == [pc : {"idle", "identity", "list", "invites", "read"},
            list : [Project -> Summary \cup {None}], at : [Project -> Nat],
            inv : SUBSET Project, todo : SUBSET Project,
            views : [Project -> Summary \cup {None}]]

\* The types in groups: of the server's side, of what is shown, of the screens, of the
\* requests.  Also of what TypeOK leaves out: only a republish is of no project, and
\* the change that a call reports is one the server has made.
ServerTypes ==
  /\ srv \in [Project -> OnServer]
  /\ \A p \in Project : srv[p].copy # None => srv[p].role \in Roles
  /\ pub \in Keys /\ mine \in BOOLEAN
StatusType == status \in [loaded : BOOLEAN, offline : BOOLEAN, notices : SUBSET {"needsSync", "mismatch"}]
ShownTypes ==
  /\ view \in [Project -> Summary \cup {None}] /\ invites \subseteq Project
  /\ cache \in [Project -> Cached \cup {None}]
  /\ pass \in PassRec /\ pass.todo = {p \in Project : pass.list[p] # None}
SheetType ==
  /\ sheet \in [kind : {"none", "create", "edit", "invite"}, state : {"filled", "typed", "sent"}]
  /\ (sheet.kind = "create" => screen = None) /\ (sheet.kind \in {"edit", "invite"} => screen # None)
ScreenTypes ==
  /\ screen \in Project \cup {None}
  /\ detail \in [Project -> Roles \cup {None}]
  /\ SheetType
CallTypes ==
  /\ calls \subseteq Call
  /\ \A c \in calls : /\ c.op = "republish" <=> c.p = None
                      /\ c.p # None => c.at <= srv[c.p].rev
ToldType == told \in [Project -> Nat] /\ \A p \in Project : told[p] <= srv[p].rev
Types == ServerTypes /\ StatusType /\ ShownTypes /\ pull \in BOOLEAN /\ ScreenTypes /\ CallTypes /\ ToldType

\* The types, group by group, are those of TypeOK.
LEMMA TypesGive == Types => TypeOK
<1> SUFFICES ASSUME Types PROVE TypeOK
  OBVIOUS
<1> USE DEF Types
<1>1. \A p \in Project : told[p] \in 0..srv[p].rev
  BY SMT DEF ToldType, ServerTypes, OnServer
<1>2. /\ pass.pc \in {"idle", "identity", "list", "invites", "read"}
      /\ pass.list \in [Project -> Summary \cup {None}] /\ pass.views \in [Project -> Summary \cup {None}]
  BY DEF ShownTypes, PassRec
<1> QED
  BY <1>1, <1>2 DEF TypeOK, ServerTypes, StatusType, ShownTypes, ScreenTypes, SheetType, CallTypes

-----------------------------------------------------------------------------
(* What a step leaves alone.                                               *)

\* What others do concerns the server alone.
LEMMA ElsewhereKeeps ==
  Elsewhere => UNCHANGED <<mine, redux, cache, pass, pull, ui, calls, told>>
  BY DEF Elsewhere, OtherKey, OtherMember, OtherSeals, ids, redux, ui

\* A pass leaves the server, the requests and the screen alone.
LEMMA PassKeeps ==
  PassStart \/ Passing => UNCHANGED <<srv, calls, screen, detail>>
<1> USE DEF passing, unlisted, ids, redux, ui, NoShow, Settles, Shows, Read
<1>1. PassStart => UNCHANGED <<srv, calls, screen, detail>>
  BY DEF PassStart
<1>2. PassIdentity => UNCHANGED <<srv, calls, screen, detail>>
  BY DEF PassIdentity
<1>3. PassList => UNCHANGED <<srv, calls, screen, detail>>
  BY DEF PassList
<1>4. PassInvites => UNCHANGED <<srv, calls, screen, detail>>
  BY DEF PassInvites
<1>5. PassApply => UNCHANGED <<srv, calls, screen, detail>>
  BY DEF PassApply
<1>6. ASSUME NEW p \in Project, PassRead(p) PROVE UNCHANGED <<srv, calls, screen, detail>>
  BY <1>6 DEF PassRead, Vanished
<1> QED
  BY <1>1, <1>2, <1>3, <1>4, <1>5, <1>6 DEF Passing

\* What is done on the screens leaves the rest of the phone alone.
LEMMA ScreensKeep == Screens => UNCHANGED still
  BY DEF Screens, Focus, GoBack, Type, CloseSheet, OpenDetail, Fetch, OpenSheet

\* So does making a request.
LEMMA AsksKeep ==
  Republish \/ Submit \/ Manage \/ (\E p \in Project : Respond(p)) =>
    UNCHANGED <<still, pull, screen, detail>>
  BY DEF Republish, Submit, Manage, Respond, SubmitCreate, SubmitEdit, SubmitInvite, Delete, Leave, Ask

\* A request that goes on shows nothing by itself: the pass that it asks for does.
LEMMA RequestsKeep ==
  Requests => UNCHANGED <<view, invites, cache, pass, detail>>
<1> USE DEF redux, ui, calling
<1>1. ASSUME NEW c \in calls, CallIdentity(c) \/ Handle(c) \/ Succeeds(c) \/ FailsFor(c)
      PROVE  UNCHANGED <<view, invites, cache, pass, detail>>
  BY <1>1 DEF CallIdentity, Handle, Succeeds, FailsFor
<1>2. UNCHANGED <<still, pull, screen, detail>> => UNCHANGED <<view, invites, cache, pass, detail>>
  BY DEF still
<1> QED
  BY <1>1, <1>2, AsksKeep DEF Requests
-----------------------------------------------------------------------------
(* Types.                                                                  *)

Copies == {SealDek(p, k) : p \in Project, k \in Keys} \cup {None}

\* A project at the server, by the names that are used here.
LEMMA ServerIs == OnServer = [role : Roles \cup {"free", "none", "invited", "gone"}, name : Nat,
                              rev : Nat, copy : Copies]
  BY DEF OnServer, Copies

\* The three keys are keys.
LEMMA KeysAre == OwnKey \in Keys /\ EncodeIdentity(Classical) \in Keys /\ EncodeIdentity(Foreign) \in Keys
  BY DEF Keys

\* A sealed DEK is a copy, and so is none.
LEMMA CopiesAre == None \in Copies /\ \A p \in Project, k \in Keys : SealDek(p, k) \in Copies
  BY DEF Copies

\* What is made of a record of the server, changed in one place or in two.
ServerRoles == Roles \cup {"free", "none", "invited", "gone"}
IsMade(t, role, name, rev, copy) ==
  t \in OnServer /\ t.role = role /\ t.name = name /\ t.rev = rev /\ t.copy = copy

\* The parts of a project at the server have their types.
LEMMA ServerParts ==
  ASSUME NEW s \in OnServer
  PROVE  s.role \in ServerRoles /\ s.name \in Nat /\ s.rev \in Nat /\ s.copy \in Copies
  BY ServerIs, SMT DEF ServerRoles

\* What a change of one or two parts of a project leaves.
LEMMA ServerChanges ==
  ASSUME NEW s \in OnServer, NEW role \in ServerRoles, NEW copy \in Copies, NEW n \in Nat
  PROVE  /\ IsMade([s EXCEPT !.role = role], role, s.name, s.rev, s.copy)
         /\ IsMade([s EXCEPT !.role = role, !.copy = copy], role, s.name, s.rev, copy)
         /\ IsMade([s EXCEPT !.copy = copy], s.role, s.name, s.rev, copy)
         /\ IsMade([s EXCEPT !.name = n], s.role, n, s.rev, s.copy)
         /\ IsMade([s EXCEPT !.rev = n], s.role, s.name, n, s.copy)
<1>1. s \in [role : ServerRoles, name : Nat, rev : Nat, copy : Copies]
  BY ServerIs DEF ServerRoles
<1>2. OnServer = [role : ServerRoles, name : Nat, rev : Nat, copy : Copies]
  BY ServerIs DEF ServerRoles
<1>3. IsMade([s EXCEPT !.role = role], role, s.name, s.rev, s.copy)
  BY <1>1, <1>2, SMT DEF IsMade
<1>4. IsMade([s EXCEPT !.role = role, !.copy = copy], role, s.name, s.rev, copy)
  BY <1>1, <1>2, Zenon DEF IsMade
<1>5. IsMade([s EXCEPT !.copy = copy], s.role, s.name, s.rev, copy)
  BY <1>1, <1>2, SMT DEF IsMade
<1>6. IsMade([s EXCEPT !.name = n], s.role, n, s.rev, s.copy)
  BY <1>1, <1>2, SMT DEF IsMade
<1>7. IsMade([s EXCEPT !.rev = n], s.role, s.name, n, s.copy)
  BY <1>1, <1>2, SMT DEF IsMade
<1> QED
  BY <1>3, <1>4, <1>5, <1>6, <1>7

\* A user who is put out has no copy.
LEMMA OutIs ==
  ASSUME NEW s \in OnServer, NEW role \in ServerRoles
  PROVE  IsMade(Out(s, role), role, s.name, s.rev, None)
<1>1. [s EXCEPT !.role = role, !.copy = None] = Out(s, role)
  BY DEF Out
<1>2. 0 \in Nat
  BY SMT
<1> QED
  BY <1>1, <1>2, ServerChanges, CopiesAre

\* What the server makes of a request.
LEMMA EffectIs ==
  ASSUME NEW s \in OnServer, NEW c \in Call, c.p \in Project, Allowed(c.op, s), c.op # "republish",
         s.copy # None => s.role \in Roles
  PROVE  LET e == [Effect(c, s) EXCEPT !.rev = @ + 1] IN
         /\ e \in OnServer /\ e.rev = s.rev + 1 /\ e.name \in {s.name, s.name + 1}
         /\ e.copy # None => e.role \in Roles
         /\ s.role # "gone"
         /\ s.role = "free" => e.role = "OWNER"
         /\ s.role = "OWNER" => e.role \in {"OWNER", "gone"}
         /\ s.role \notin {"free", "OWNER"} => e.role \notin {"free", "OWNER"}
         /\ e.name = s.name \/ c.op = "update"
<1> DEFINE t == Effect(c, s)
<1>0. s.name \in Nat /\ s.rev \in Nat /\ s.copy \in Copies
  BY ServerParts
<1> DEFINE Fits == /\ t \in OnServer /\ t.rev = s.rev /\ t.name \in {s.name, s.name + 1}
                   /\ t.copy # None => t.role \in Roles
                   /\ s.role # "gone"
                   /\ s.role = "free" => t.role = "OWNER"
                   /\ s.role = "OWNER" => t.role \in {"OWNER", "gone"}
                   /\ s.role \notin {"free", "OWNER"} => t.role \notin {"free", "OWNER"}
                   /\ t.name = s.name \/ c.op = "update"
<1>r. {"OWNER", "MEMBER", "none", "gone"} \subseteq ServerRoles /\ 0 \in Nat
  BY SMT DEF ServerRoles, Roles, Admins
<1>1. Fits
  <2>1. CASE c.op = "create"
    <3> DEFINE k == SealDek(c.p, OwnKey)
    <3>1. BuildCreateProject(c.p, OwnKey).wrappedDek = k
      BY DEF BuildCreateProject
    <3>2. k \in Copies
      BY CopiesAre, KeysAre
    <3>3. t = [s EXCEPT !.role = "OWNER", !.copy = k] /\ s.role = "free"
      BY <2>1, <3>1 DEF Effect, Allowed
    <3> HIDE DEF k, t
    <3>4. IsMade(t, "OWNER", s.name, s.rev, k)
      BY <3>2, <3>3, <1>r, ServerChanges
    <3> QED
      BY <3>3, <3>4, SMT DEF IsMade, Roles, Admins
  <2>2. CASE c.op = "accept"
    <3>1. t = [s EXCEPT !.role = "MEMBER"] /\ s.role = "invited"
      BY <2>2 DEF Effect, Allowed
    <3> HIDE DEF t
    <3>2. IsMade(t, "MEMBER", s.name, s.rev, s.copy)
      BY <1>0, <1>r, <3>1, ServerChanges
    <3> QED
      BY <3>1, <3>2, SMT DEF IsMade, Roles, Admins
  <2>3. CASE c.op = "decline"
    <3>1. t = [s EXCEPT !.role = "none"] /\ s.role = "invited"
      BY <2>3 DEF Effect, Allowed
    <3> HIDE DEF t
    <3>2. IsMade(t, "none", s.name, s.rev, s.copy)
      BY <1>0, <1>r, <3>1, ServerChanges
    <3> QED
      BY <3>1, <3>2, SMT DEF IsMade, Roles, Admins
  <2>4. CASE c.op = "invite"
    <3>1. t = s /\ s.role \in Admins
      BY <2>4 DEF Effect, Allowed
    <3> HIDE DEF t
    <3> QED
      BY <3>1, SMT DEF Roles, Admins
  <2>5. CASE c.op = "update"
    <3>1. t = [s EXCEPT !.name = s.name + 1] /\ s.role \in Admins
      BY <2>5 DEF Effect, Allowed
    <3>2. s.name + 1 \in Nat
      BY <1>0, SMT
    <3> HIDE DEF t
    <3>3. IsMade(t, s.role, s.name + 1, s.rev, s.copy)
      BY <1>0, <1>r, <3>1, <3>2, ServerChanges
    <3> QED
      BY <2>5, <3>1, <3>3, SMT DEF IsMade, Roles, Admins
  <2>6. CASE c.op = "delete"
    <3>1. t = Out(s, "gone") /\ s.role = "OWNER"
      BY <2>6 DEF Effect, Allowed
    <3> HIDE DEF t
    <3>2. IsMade(t, "gone", s.name, s.rev, None)
      BY <1>r, <3>1, OutIs
    <3> QED
      BY <3>1, <3>2, SMT DEF IsMade, Roles, Admins
  <2>7. CASE c.op = "leave"
    <3>1. t = Out(s, "none") /\ s.role \in {"MEMBER", "ADMIN"}
      BY <2>7 DEF Effect, Allowed
    <3> HIDE DEF t
    <3>2. IsMade(t, "none", s.name, s.rev, None)
      BY <1>r, <3>1, OutIs
    <3> QED
      BY <3>1, <3>2, SMT DEF IsMade, Roles, Admins
  <2> QED
    BY <2>1, <2>2, <2>3, <2>4, <2>5, <2>6, <2>7 DEF Call
<1>2. t.rev + 1 \in Nat
  BY <1>0, <1>1, SMT
<1>3. [Effect(c, s) EXCEPT !.rev = @ + 1] = [t EXCEPT !.rev = t.rev + 1]
  OBVIOUS
<1> HIDE DEF t
<1>4. IsMade([t EXCEPT !.rev = t.rev + 1], t.role, t.name, t.rev + 1, t.copy)
  BY <1>1, <1>2, ServerChanges, CopiesAre, <1>r
<1> QED
  BY <1>1, <1>3, <1>4 DEF IsMade

\* A project at the server, from one state to the next: its counts grow, its owner
\* stays its owner, and another's project stays another's.
Moves(s, t) ==
  /\ t \in OnServer
  /\ t.copy # None => t.role \in Roles
  /\ s.rev <= t.rev /\ s.name <= t.name
  /\ s.role = "OWNER" => t.role \in {"OWNER", "gone"}
  /\ s.role = "gone" => t.role = "gone"
  /\ s.role \notin {"free", "OWNER"} => t.role \notin {"free", "OWNER"}
ServerMoves == \A p \in Project : Moves(srv[p], srv'[p])

\* A step that leaves the server alone moves nothing.
LEMMA Stays == ServerTypes /\ UNCHANGED srv => ServerMoves
  BY ServerParts, SMT DEF ServerTypes, ServerMoves, Moves

\* A step that moves one project leaves the others where they are.
LEMMA OneMoves ==
  ASSUME ServerTypes, NEW p \in Project, NEW t, Is(p, t), Moves(srv[p], t)
  PROVE  srv' \in [Project -> OnServer] /\ ServerMoves
<1>1. srv' = [srv EXCEPT ![p] = t] /\ t \in OnServer /\ srv \in [Project -> OnServer]
  BY DEF Is, Moves, ServerTypes
<1>2. \A q \in Project : srv'[q] = IF q = p THEN t ELSE srv[q]
  BY <1>1
<1>3. \A q \in Project : Moves(srv[q], srv[q])
  BY ServerParts, SMT DEF ServerTypes, Moves
<1> QED
  BY <1>1, <1>2, <1>3 DEF ServerMoves

\* Types of the server's side.
ServerStep == ServerTypes' /\ ServerMoves

\* A move is typed when the keys are.
LEMMA MovesTyped ==
  ServerMoves /\ srv' \in [Project -> OnServer] /\ pub' \in Keys /\ mine' \in BOOLEAN => ServerStep
  BY DEF ServerStep, ServerTypes, ServerMoves, Moves

\* ensureIdentity keeps the types of the keys.
LEMMA EnsureTypes ==
  ASSUME NEW res, ServerTypes, Ensure(res), UNCHANGED srv
  PROVE  ServerStep
<1>1. mine' \in BOOLEAN /\ pub' \in Keys
  BY DEF Ensure, ServerTypes
<1> QED
  BY <1>1, MovesTyped, Stays DEF ServerTypes

\* Each of the actions at the server is a move: what another member does,
LEMMA OtherMemberMoves ==
  ASSUME ServerTypes, NEW p \in Project, OtherMember(p)
  PROVE  ServerStep
<1> DEFINE s == srv[p]
<1>1. s \in OnServer /\ s.role \in ServerRoles /\ s.name \in Nat /\ s.rev \in Nat /\ s.copy \in Copies
      /\ (s.copy # None => s.role \in Roles)
  BY ServerParts DEF ServerTypes
<1>2. {"invited", "none", "gone", "ADMIN", "MEMBER"} \subseteq ServerRoles /\ s.name + 1 \in Nat
  BY <1>1, SMT DEF ServerRoles, Roles, Admins
<1>3. \E t : Is(p, t) /\ Moves(s, t)
  <2>1. CASE s.role = "none" /\ Is(p, [s EXCEPT !.role = "invited"])
    <3>1. IsMade([s EXCEPT !.role = "invited"], "invited", s.name, s.rev, s.copy)
      BY <1>1, <1>2, ServerChanges
    <3>2. Moves(s, [s EXCEPT !.role = "invited"])
      BY <1>1, <2>1, <3>1, SMT DEF IsMade, Moves, Roles, Admins
    <3> QED
      BY <2>1, <3>2
  <2>2. CASE s.role = "invited" /\ Is(p, [s EXCEPT !.role = "none"])
    <3>1. IsMade([s EXCEPT !.role = "none"], "none", s.name, s.rev, s.copy)
      BY <1>1, <1>2, ServerChanges
    <3>2. Moves(s, [s EXCEPT !.role = "none"])
      BY <1>1, <2>2, <3>1, SMT DEF IsMade, Moves, Roles, Admins
    <3> QED
      BY <2>2, <3>2
  <2>3. CASE s.role \in {"MEMBER", "ADMIN"} /\ \E out \in {"none", "gone"} : Is(p, Out(s, out))
    <3>1. PICK out \in {"none", "gone"} : Is(p, Out(s, out))
      BY <2>3
    <3>2. IsMade(Out(s, out), out, s.name, s.rev, None)
      BY <1>1, <1>2, OutIs
    <3>3. Moves(s, Out(s, out))
      BY <1>1, <2>3, <3>2, SMT DEF IsMade, Moves, Roles, Admins
    <3> QED
      BY <3>1, <3>3
  <2>4. CASE s.role = "MEMBER" /\ Is(p, [s EXCEPT !.role = "ADMIN"])
    <3>1. IsMade([s EXCEPT !.role = "ADMIN"], "ADMIN", s.name, s.rev, s.copy)
      BY <1>1, <1>2, ServerChanges
    <3>2. Moves(s, [s EXCEPT !.role = "ADMIN"])
      BY <1>1, <2>4, <3>1, SMT DEF IsMade, Moves, Roles, Admins
    <3> QED
      BY <2>4, <3>2
  <2>5. CASE s.role = "ADMIN" /\ Is(p, [s EXCEPT !.role = "MEMBER"])
    <3>1. IsMade([s EXCEPT !.role = "MEMBER"], "MEMBER", s.name, s.rev, s.copy)
      BY <1>1, <1>2, ServerChanges
    <3>2. Moves(s, [s EXCEPT !.role = "MEMBER"])
      BY <1>1, <2>5, <3>1, SMT DEF IsMade, Moves, Roles, Admins
    <3> QED
      BY <2>5, <3>2
  <2>6. CASE Is(p, [s EXCEPT !.name = @ + 1])
    <3> DEFINE n == s.name + 1
    <3>1. n \in Nat /\ s.name <= n
      BY <1>1, SMT
    <3>2. [s EXCEPT !.name = @ + 1] = [s EXCEPT !.name = n]
      OBVIOUS
    <3> HIDE DEF n
    <3>3. IsMade([s EXCEPT !.name = n], s.role, n, s.rev, s.copy)
      BY <1>1, <3>1, ServerChanges
    <3>4. Moves(s, [s EXCEPT !.name = n])
      BY <1>1, <3>1, <3>3, SMT DEF IsMade, Moves
    <3> QED
      BY <2>6, <3>2, <3>4
  <2> QED
    BY <2>1, <2>2, <2>3, <2>4, <2>5, <2>6 DEF OtherMember
<1>4. pub' \in Keys /\ mine' \in BOOLEAN
  BY DEF OtherMember, ids, ServerTypes
<1> QED
  BY <1>3, <1>4, OneMoves, MovesTyped

\* a copy that is sealed for the user,
LEMMA OtherSealsMoves ==
  ASSUME ServerTypes, NEW p \in Project, OtherSeals(p)
  PROVE  ServerStep
<1> DEFINE s == srv[p]
           k == SealDek(p, pub)
<1>1. s \in OnServer /\ s.role \in ServerRoles /\ s.name \in Nat /\ s.rev \in Nat /\ k \in Copies
  BY ServerParts, CopiesAre DEF ServerTypes
<1>2. s.role \in {"MEMBER", "ADMIN"} /\ Is(p, [s EXCEPT !.copy = k])
  BY DEF OtherSeals
<1> HIDE DEF k
<1>3. IsMade([s EXCEPT !.copy = k], s.role, s.name, s.rev, k)
  BY <1>1, ServerChanges
<1>4. Moves(s, [s EXCEPT !.copy = k])
  BY <1>1, <1>2, <1>3, SMT DEF IsMade, Moves, Roles, Admins
<1>5. pub' \in Keys /\ mine' \in BOOLEAN
  BY DEF OtherSeals, ids, ServerTypes
<1> QED
  BY <1>2, <1>4, <1>5, OneMoves, MovesTyped

\* and a request of the user.
LEMMA HandleMoves ==
  ASSUME Types, NEW c \in calls, Handle(c)
  PROVE  ServerStep
<1>0. ServerTypes /\ c \in Call /\ mine' \in BOOLEAN
  BY DEF Types, CallTypes, ServerTypes, Handle
<1>1. CASE c.p # None /\ Allowed(c.op, srv[c.p]) /\ Is(c.p, [Effect(c, srv[c.p]) EXCEPT !.rev = @ + 1])
           /\ UNCHANGED pub
  <2> DEFINE s == srv[c.p]
             e == [Effect(c, s) EXCEPT !.rev = @ + 1]
  <2>1. c.p \in Project /\ c.op # "republish"
    BY <1>0, <1>1, SMT DEF Types, CallTypes, Call
  <2>2. s \in OnServer /\ s.name \in Nat /\ s.rev \in Nat /\ (s.copy # None => s.role \in Roles)
    BY <1>0, <2>1, ServerParts DEF ServerTypes
  <2>3. /\ e \in OnServer /\ e.rev = s.rev + 1 /\ e.name \in {s.name, s.name + 1}
        /\ e.copy # None => e.role \in Roles
        /\ s.role # "gone"
        /\ s.role = "OWNER" => e.role \in {"OWNER", "gone"}
        /\ s.role \notin {"free", "OWNER"} => e.role \notin {"free", "OWNER"}
    BY <1>0, <1>1, <2>1, <2>2, EffectIs
  <2>4. Is(c.p, e)
    BY <1>1
  <2> HIDE DEF e
  <2>5. Moves(s, e)
    BY <2>2, <2>3, SMT DEF Moves
  <2> QED
    BY <1>0, <1>1, <2>1, <2>4, <2>5, OneMoves, MovesTyped DEF ServerTypes
<1>2. CASE pub' = OwnKey /\ srv' = [p \in Project |-> [srv[p] EXCEPT !.copy = None]]
  <2>1. ASSUME NEW p \in Project PROVE srv'[p] \in OnServer /\ Moves(srv[p], srv'[p])
    <3>1. srv[p] \in OnServer /\ srv[p].role \in ServerRoles /\ srv[p].name \in Nat /\ srv[p].rev \in Nat
      BY <1>0, ServerParts DEF ServerTypes
    <3>2. IsMade([srv[p] EXCEPT !.copy = None], srv[p].role, srv[p].name, srv[p].rev, None)
      BY <3>1, ServerChanges, CopiesAre
    <3>3. srv'[p] = [srv[p] EXCEPT !.copy = None]
      BY <1>2
    <3> QED
      BY <3>1, <3>2, <3>3, SMT DEF IsMade, Moves
  <2>2. srv' \in [Project -> OnServer] /\ ServerMoves
    BY <1>2, <2>1 DEF ServerMoves
  <2> QED
    BY <1>0, <1>2, <2>2, KeysAre, MovesTyped
<1>3. CASE UNCHANGED <<srv, pub>>
  BY <1>0, <1>3, MovesTyped, Stays DEF ServerTypes
<1> QED
  BY <1>1, <1>2, <1>3 DEF Handle

\* So every step is one.
LEMMA ServerSteps == Types /\ [Next]_vars => ServerStep
<1> SUFFICES ASSUME Types, [Next]_vars PROVE ServerStep
  OBVIOUS
<1>0. ServerTypes
  BY DEF Types
<1>1. UNCHANGED <<srv, ids>> => ServerStep
  BY <1>0, MovesTyped, Stays DEF ServerTypes, ids
<1>2. CASE Elsewhere
  <2>1. CASE OtherKey
    <3>1. UNCHANGED <<srv, mine>> /\ pub' \in Keys
      BY <2>1, KeysAre DEF OtherKey
    <3> QED
      BY <1>0, <3>1, MovesTyped, Stays DEF ServerTypes
  <2> QED
    BY <1>0, <1>2, <2>1, OtherMemberMoves, OtherSealsMoves DEF Elsewhere
<1>3. CASE PassStart \/ Passing
  <2>1. UNCHANGED srv
    BY <1>3, PassKeeps
  <2>2. CASE PassIdentity
    BY <1>0, <1>1, <2>1, <2>2, EnsureTypes DEF PassIdentity
  <2>3. CASE PassStart \/ PassList \/ PassInvites \/ PassApply \/ \E p \in Project : PassRead(p)
    BY <1>1, <2>3 DEF PassStart, PassList, PassInvites, PassApply, PassRead
  <2> QED
    BY <1>3, <2>2, <2>3 DEF Passing
<1>4. CASE Screens
  BY <1>1, <1>4, ScreensKeep DEF still
<1>5. CASE Requests
  <2>1. ASSUME NEW c \in calls, CallIdentity(c) PROVE ServerStep
    BY <1>0, <2>1, EnsureTypes DEF CallIdentity
  <2>2. ASSUME NEW c \in calls, Succeeds(c) \/ FailsFor(c) PROVE ServerStep
    BY <1>1, <2>2 DEF Succeeds, FailsFor, ids
  <2>3. UNCHANGED <<still, pull, screen, detail>> => ServerStep
    BY <1>1 DEF still
  <2> QED
    BY <1>5, <2>1, <2>2, <2>3, AsksKeep, HandleMoves DEF Requests
<1>6. CASE Kill
  BY <1>1, <1>6 DEF Kill, ids
<1>7. CASE UNCHANGED vars
  BY <1>1, <1>7 DEF vars
<1> QED
  BY <1>2, <1>3, <1>4, <1>5, <1>6, <1>7 DEF Next

-----------------------------------------------------------------------------
(* The requests.                                                           *)

\* A request is still the one it was: it may have gone on, or lost its sheet.
Descends(d) == \E c \in calls : c.op = d.op /\ c.p = d.p /\ (d.own => c.own)

\* The request that the user makes.
NewCall(op, p) == [op |-> op, p |-> p, st |-> IF op = "create" THEN "identity" ELSE "sent",
                   at |-> 0, own |-> TRUE]
CallOps == {"create", "accept", "decline", "invite", "update", "delete", "leave", "republish"}
FitsCall(op, p) == op \in CallOps /\ p \in Project \cup {None} /\ (op = "republish" <=> p = None)

\* What a change of a request keeps.
LEMMA StChanges ==
  ASSUME NEW c \in Call, NEW st \in {"identity", "sent", "done", "refused"}
  PROVE  /\ [c EXCEPT !.st = st] \in Call /\ [c EXCEPT !.st = st].op = c.op
         /\ [c EXCEPT !.st = st].p = c.p /\ [c EXCEPT !.st = st].at = c.at /\ [c EXCEPT !.st = st].own = c.own
  BY SMT DEF Call

\* The same when the request is done,
LEMMA DoneChanges ==
  ASSUME NEW c \in Call, NEW at \in Nat
  PROVE  LET d == [c EXCEPT !.st = "done", !.at = at] IN
         d \in Call /\ d.op = c.op /\ d.p = c.p /\ d.at = at /\ d.own = c.own
  BY Zenon DEF Call

\* and when it loses its sheet.
LEMMA OwnChanges ==
  ASSUME NEW c \in Call, NEW own \in BOOLEAN
  PROVE  /\ [c EXCEPT !.own = own] \in Call /\ [c EXCEPT !.own = own].op = c.op
         /\ [c EXCEPT !.own = own].p = c.p /\ [c EXCEPT !.own = own].at = c.at
         /\ [c EXCEPT !.own = own].own = own
  BY SMT DEF Call

\* The request that is made is a request.
LEMMA CallIsNew ==
  ASSUME NEW op, NEW p, FitsCall(op, p)
  PROVE  /\ NewCall(op, p) \in Call /\ NewCall(op, p).op = op /\ NewCall(op, p).p = p
         /\ NewCall(op, p).own /\ NewCall(op, p).at = 0
  BY SMT DEF NewCall, FitsCall, CallOps, Call

\* The requests after a screen is left, or the invite sheet: each is one that was, and
\* may have lost its sheet.
LEMMA UnmountedAre ==
  ASSUME calls \subseteq Call, NEW d \in Unmounted
  PROVE  /\ d \in Call
         /\ d.own => d.op \in {"create", "accept", "decline", "republish"}
         /\ \E c \in calls : c.op = d.op /\ c.p = d.p /\ c.at = d.at /\ (d.own => c.own)
                             /\ d = [c EXCEPT !.own = d.own]
<1>1. PICK c \in calls : d = [c EXCEPT !.own = @ /\ c.op \in {"create", "accept", "decline", "republish"}]
  BY DEF Unmounted
<1> DEFINE own == c.own /\ c.op \in {"create", "accept", "decline", "republish"}
<1>2. c \in Call /\ own \in BOOLEAN /\ d = [c EXCEPT !.own = own]
  BY <1>1
<1>3. own => c.own /\ c.op \in {"create", "accept", "decline", "republish"}
  OBVIOUS
<1> HIDE DEF own
<1>4. d \in Call /\ d.op = c.op /\ d.p = c.p /\ d.at = c.at /\ d.own = own
  BY <1>2, OwnChanges
<1> QED
  BY <1>2, <1>3, <1>4

\* The requests after the invite sheet is closed.
ResetCalls == {[c EXCEPT !.own = @ /\ c.op # "invite"] : c \in calls}
\* The same for the invite sheet.
LEMMA ResetAre ==
  ASSUME calls \subseteq Call, NEW d \in ResetCalls
  PROVE  /\ d \in Call
         /\ d.own => d.op # "invite"
         /\ \E c \in calls : c.op = d.op /\ c.p = d.p /\ c.at = d.at /\ (d.own => c.own)
                             /\ d = [c EXCEPT !.own = d.own]
<1>1. PICK c \in calls : d = [c EXCEPT !.own = @ /\ c.op # "invite"]
  BY DEF ResetCalls
<1> DEFINE own == c.own /\ c.op # "invite"
<1>2. c \in Call /\ own \in BOOLEAN /\ d = [c EXCEPT !.own = own]
  BY <1>1
<1>3. own => c.own /\ c.op # "invite"
  OBVIOUS
<1> HIDE DEF own
<1>4. d \in Call /\ d.op = c.op /\ d.p = c.p /\ d.at = c.at /\ d.own = own
  BY <1>2, OwnChanges
<1> QED
  BY <1>2, <1>3, <1>4

\* A request that goes on.
GoesOn(c, d) ==
  /\ calls' = (calls \ {c}) \cup {d}
  /\ d \in Call /\ d.op = c.op /\ d.p = c.p /\ d.own = c.own
  /\ d.p # None => d.at <= srv'[d.p].rev

\* A request that ensureIdentity or the server answers goes on.
LEMMA CallGoesOn ==
  ASSUME Types, ServerStep, NEW c \in calls, CallIdentity(c) \/ Handle(c)
  PROVE  \E d : GoesOn(c, d)
<1>1. c \in Call /\ (c.p # None => c.p \in Project /\ c.at <= srv'[c.p].rev)
  <2>1. c \in Call /\ (c.p # None => c.at <= srv[c.p].rev) /\ c.p \in Project \cup {None} /\ c.at \in Nat
    BY DEF Types, CallTypes, Call
  <2>2. ASSUME c.p # None PROVE c.at <= srv'[c.p].rev
    <3>1. srv[c.p] \in OnServer /\ srv'[c.p] \in OnServer /\ srv[c.p].rev <= srv'[c.p].rev
      BY <2>1, <2>2 DEF ServerStep, ServerTypes, ServerMoves, Moves, Types
    <3>2. srv[c.p].rev \in Nat /\ srv'[c.p].rev \in Nat
      BY <3>1, ServerParts
    <3> QED
      BY <2>1, <2>2, <3>1, <3>2, SMT
  <2> QED
    BY <2>1, <2>2
<1>2. ASSUME NEW st \in {"identity", "sent", "done", "refused"},
             calls' = (calls \ {c}) \cup {[c EXCEPT !.st = st]}
      PROVE  GoesOn(c, [c EXCEPT !.st = st])
  BY <1>1, <1>2, StChanges DEF GoesOn
<1>3. ASSUME CallIdentity(c) PROVE \E d : GoesOn(c, d)
  <2>1. PICK res \in {"ready", "needsSync", "mismatch"} :
          calls' = (calls \ {c}) \cup {[c EXCEPT !.st = IF res = "ready" THEN "sent" ELSE "refused"]}
    BY <1>3 DEF CallIdentity
  <2> QED
    BY <1>2, <2>1
<1>4. ASSUME c.p # None, Allowed(c.op, srv[c.p]), Is(c.p, [Effect(c, srv[c.p]) EXCEPT !.rev = @ + 1]),
             calls' = (calls \ {c}) \cup {[c EXCEPT !.st = "done", !.at = srv[c.p].rev + 1]}
      PROVE  \E d : GoesOn(c, d)
  <2> DEFINE s == srv[c.p]
             e == [Effect(c, s) EXCEPT !.rev = @ + 1]
             at == s.rev + 1
             d == [c EXCEPT !.st = "done", !.at = at]
  <2>1. s \in OnServer /\ (s.copy # None => s.role \in Roles) /\ c.op # "republish" /\ srv \in [Project -> OnServer]
    BY <1>1, <1>4 DEF Types, ServerTypes, CallTypes
  <2>2. e.rev = s.rev + 1
    BY <1>1, <1>4, <2>1, EffectIs
  <2>3. srv' = [srv EXCEPT ![c.p] = e]
    BY <1>4 DEF Is
  <2>4. at \in Nat
    BY <2>1, ServerParts, SMT
  <2> HIDE DEF e
  <2>5. srv'[c.p] = e
    BY <1>1, <1>4, <2>1, <2>3
  <2>6. at <= srv'[c.p].rev
    BY <2>2, <2>4, <2>5, SMT
  <2>7. calls' = (calls \ {c}) \cup {d}
    BY <1>4
  <2> HIDE DEF at
  <2>8. d \in Call /\ d.op = c.op /\ d.p = c.p /\ d.at = at /\ d.own = c.own
    BY <1>1, <2>4, DoneChanges
  <2> HIDE DEF d
  <2>9. GoesOn(c, d)
    BY <2>6, <2>7, <2>8 DEF GoesOn
  <2> QED
    BY <2>9
<1> QED
  BY <1>2, <1>3, <1>4 DEF Handle

\* Where a request is made: from a card or the warning, from the screen of the project
\* by the role that is known, or from a sheet of its kind.
KindOf(op) == CASE op = "create" -> "create" [] op = "update" -> "edit" [] op = "invite" -> "invite"
AskedFrom(op, p) ==
  \/ op \in {"accept", "decline", "republish"} /\ UNCHANGED sheet
  \/ /\ op \in {"delete", "leave"} /\ p = screen /\ screen # None /\ Found /\ UNCHANGED sheet
     /\ op = "delete" <=> Role(screen, view, detail) = "OWNER"
  \/ /\ op \in {"create", "update", "invite"} /\ sheet.kind = KindOf(op)
     /\ sheet'.kind = sheet.kind /\ sheet'.state = "sent"

\* What a step makes of the requests.
CallsMove ==
  \/ UNCHANGED calls
  \/ calls' \subseteq Unmounted
  \/ calls' = ResetCalls
  \/ \E c \in calls : calls' = calls \ {c}
  \/ \E c \in calls : \E d : GoesOn(c, d)
  \/ \E op, p : FitsCall(op, p) /\ Ask(op, p) /\ AskedFrom(op, p)
  \/ calls' = {}

\* What the user asks for is asked from where it may be.
LEMMA AsksFit ==
  ASSUME Types, Republish \/ Submit \/ Manage \/ \E p \in Project : Respond(p)
  PROVE  \E op, p : FitsCall(op, p) /\ Ask(op, p) /\ AskedFrom(op, p)
<1>0. screen # None => screen \in Project
  BY DEF Types, ScreenTypes
<1>1. None \notin Project
  BY NoneIsNone
<1>2. CASE Republish
  BY <1>1, <1>2 DEF Republish, FitsCall, CallOps, AskedFrom
<1>3. CASE Submit
  <2>1. sheet'.kind = sheet.kind /\ sheet'.state = "sent"
    BY <1>3 DEF Submit, Types, ScreenTypes, SheetType
  <2>2. CASE SubmitCreate
    BY <1>1, <2>1, <2>2 DEF SubmitCreate, FitsCall, CallOps, AskedFrom, KindOf
  <2>3. CASE SubmitEdit \/ SubmitInvite
    <3>1. screen # None
      BY <2>3 DEF SubmitEdit, SubmitInvite, Types, ScreenTypes, SheetType
    <3>2. FitsCall("update", screen) /\ FitsCall("invite", screen)
      BY <1>0, <1>1, <3>1 DEF FitsCall, CallOps
    <3>3. SubmitEdit => AskedFrom("update", screen)
      BY <2>1 DEF AskedFrom, KindOf, SubmitEdit
    <3>4. SubmitInvite => AskedFrom("invite", screen)
      BY <2>1 DEF AskedFrom, KindOf, SubmitInvite
    <3> QED
      BY <2>3, <3>2, <3>3, <3>4 DEF SubmitEdit, SubmitInvite
  <2> QED
    BY <1>3, <2>2, <2>3 DEF Submit
<1>4. CASE Manage
  <2>1. screen # None /\ Found /\ UNCHANGED sheet
    BY <1>4 DEF Manage, OnScreen
  <2>2. FitsCall("delete", screen) /\ FitsCall("leave", screen)
    BY <1>0, <1>1, <2>1 DEF FitsCall, CallOps
  <2>3. CASE Role(screen, view, detail) = "OWNER"
    <3>1. Ask("delete", screen)
      BY <1>4, <2>3 DEF Manage, Delete
    <3>2. AskedFrom("delete", screen)
      BY <2>1, <2>3 DEF AskedFrom
    <3> QED
      BY <2>2, <3>1, <3>2
  <2>4. CASE Role(screen, view, detail) # "OWNER"
    <3>1. Ask("leave", screen)
      BY <1>4, <2>4 DEF Manage, Leave
    <3>2. AskedFrom("leave", screen)
      BY <2>1, <2>4 DEF AskedFrom
    <3> QED
      BY <2>2, <3>1, <3>2
  <2> QED
    BY <2>3, <2>4
<1>5. ASSUME NEW p \in Project, Respond(p) PROVE \E op, q : FitsCall(op, q) /\ Ask(op, q) /\ AskedFrom(op, q)
  <2>1. PICK op \in {"accept", "decline"} : Ask(op, p)
    BY <1>5 DEF Respond
  <2>2. FitsCall(op, p) /\ AskedFrom(op, p)
    BY <1>1, <1>5 DEF FitsCall, CallOps, Respond, AskedFrom
  <2> QED
    BY <2>1, <2>2
<1> QED
  BY <1>2, <1>3, <1>4, <1>5

\* Every step makes one of those of the requests.
LEMMA CallSteps == Types /\ ServerStep /\ [Next]_vars => CallsMove
<1> SUFFICES ASSUME Types, ServerStep, [Next]_vars PROVE CallsMove
  OBVIOUS
<1>1. CASE Elsewhere
  BY <1>1, ElsewhereKeeps DEF CallsMove
<1>2. CASE PassStart \/ Passing
  BY <1>2, PassKeeps DEF CallsMove
<1>3. CASE Screens
  BY <1>3 DEF Screens, Focus, GoBack, Type, CloseSheet, Reset, OpenDetail, Fetch, OpenSheet, CallsMove, ResetCalls
<1>4. CASE Requests
  <2>1. ASSUME NEW c \in calls, CallIdentity(c) \/ Handle(c) PROVE CallsMove
    BY <2>1, CallGoesOn DEF CallsMove
  <2>2. ASSUME NEW c \in calls, Succeeds(c) PROVE CallsMove
    BY <2>2 DEF CallsMove, Succeeds
  <2>3. ASSUME NEW c \in calls, FailsFor(c) PROVE CallsMove
    BY <2>3 DEF CallsMove, FailsFor
  <2>4. CASE Republish \/ Submit \/ Manage \/ \E p \in Project : Respond(p)
    BY <2>4, AsksFit DEF CallsMove
  <2> QED
    BY <1>4, <2>1, <2>2, <2>3, <2>4 DEF Requests
<1>5. CASE Kill
  BY <1>5 DEF Kill, CallsMove
<1>6. CASE UNCHANGED vars
  BY <1>6 DEF vars, CallsMove
<1> QED
  BY <1>1, <1>2, <1>3, <1>4, <1>5, <1>6 DEF Next

\* Types of the requests.
LEMMA CallTypesStep ==
  ASSUME Types, ServerStep, CallsMove
  PROVE  CallTypes'
<1> DEFINE Good(d) == /\ d \in Call /\ (d.op = "republish" <=> d.p = None)
                      /\ (d.p # None => d.at <= srv'[d.p].rev)
<1>0. calls \subseteq Call /\ \A c \in calls : Good(c)
  <2>1. ASSUME NEW c \in calls PROVE Good(c)
    <3>1. c \in Call /\ (c.op = "republish" <=> c.p = None) /\ (c.p # None => c.at <= srv[c.p].rev)
          /\ c.p \in Project \cup {None} /\ c.at \in Nat
      BY DEF Types, CallTypes, Call
    <3>2. ASSUME c.p # None PROVE c.at <= srv'[c.p].rev
      <4>1. srv[c.p] \in OnServer /\ srv'[c.p] \in OnServer /\ srv[c.p].rev <= srv'[c.p].rev
        BY <3>1, <3>2 DEF ServerStep, ServerTypes, ServerMoves, Moves, Types
      <4>2. srv[c.p].rev \in Nat /\ srv'[c.p].rev \in Nat
        BY <4>1, ServerParts
      <4> QED
        BY <3>1, <3>2, <4>1, <4>2, SMT
    <3> QED
      BY <3>1, <3>2
  <2> QED
    BY <2>1 DEF Types, CallTypes
<1>1. ASSUME NEW d \in calls' PROVE Good(d)
  <2>1. CASE d \in Unmounted
    <3>1. PICK c \in calls : c.op = d.op /\ c.p = d.p /\ c.at = d.at
      BY <1>0, <2>1, UnmountedAre
    <3>2. d \in Call
      BY <1>0, <2>1, UnmountedAre
    <3> QED
      BY <1>0, <3>1, <3>2
  <2>2. CASE d \in ResetCalls
    <3>1. PICK c \in calls : c.op = d.op /\ c.p = d.p /\ c.at = d.at
      BY <1>0, <2>2, ResetAre
    <3>2. d \in Call
      BY <1>0, <2>2, ResetAre
    <3> QED
      BY <1>0, <3>1, <3>2
  <2>3. CASE d \in calls
    BY <1>0, <2>3
  <2>4. ASSUME NEW c \in calls, NEW e, GoesOn(c, e) PROVE Good(d)
    BY <1>0, <2>3, <2>4 DEF GoesOn
  <2>5. ASSUME NEW op, NEW p, FitsCall(op, p), Ask(op, p) PROVE Good(d)
    <3>1. d \in calls \/ d = NewCall(op, p)
      BY <2>5 DEF Ask, NewCall
    <3>2. CASE d = NewCall(op, p)
      <4>1. d \in Call /\ d.op = op /\ d.p = p /\ d.at = 0
        BY <2>5, <3>2, CallIsNew
      <4>2. p # None => srv'[p].rev \in Nat
        BY <2>5, ServerParts DEF FitsCall, ServerStep, ServerTypes
      <4> QED
        BY <2>5, <4>1, <4>2, SMT DEF FitsCall
    <3> QED
      BY <2>3, <3>1, <3>2
  <2> QED
    BY <2>1, <2>2, <2>3, <2>4, <2>5 DEF CallsMove
<1> QED
  BY <1>1 DEF CallTypes

-----------------------------------------------------------------------------
(* The pass.                                                               *)

Shown == [Project -> Summary \cup {None}]
Pcs   == {"idle", "identity", "list", "invites", "read"}
IsPass(t, pc, list, at, inv, todo, views) ==
  /\ t \in PassRec
  /\ t.pc = pc /\ t.list = list /\ t.at = at /\ t.inv = inv /\ t.todo = todo /\ t.views = views

\* The parts of a pass have their types.
LEMMA PassParts ==
  ASSUME NEW t \in PassRec
  PROVE  /\ IsPass(t, t.pc, t.list, t.at, t.inv, t.todo, t.views)
         /\ t.pc \in Pcs /\ t.list \in Shown /\ t.at \in [Project -> Nat] /\ t.inv \in SUBSET Project
         /\ t.todo \in SUBSET Project /\ t.views \in Shown
  BY DEF PassRec, IsPass, Pcs, Shown

\* An empty list is a list.
LEMMA NothingIsShown == Nothing \in Shown /\ (\A p \in Project : Nothing[p] = None)
                        /\ NoPass.at \in [Project -> Nat]
  BY SMT DEF Nothing, NoPass, Shown

\* No pass, part by part.
LEMMA NoPassIs == IsPass(NoPass, "idle", Nothing, NoPass.at, {}, {}, Nothing)
<1>1. NoPass.at \in [Project -> Nat] /\ Nothing \in Shown
  BY NothingIsShown
<1> QED
  BY <1>1, Zenon DEF NoPass, IsPass, PassRec, Shown

\* What a change of some parts of a pass leaves.
LEMMA PassChanges ==
  ASSUME NEW t \in PassRec, NEW pc \in Pcs, NEW list \in Shown, NEW at \in [Project -> Nat],
         NEW inv \in SUBSET Project, NEW todo \in SUBSET Project, NEW views \in Shown
  PROVE  /\ IsPass([t EXCEPT !.pc = pc], pc, t.list, t.at, t.inv, t.todo, t.views)
         /\ IsPass([t EXCEPT !.pc = pc, !.inv = inv], pc, t.list, t.at, inv, t.todo, t.views)
         /\ IsPass([t EXCEPT !.pc = pc, !.todo = todo, !.list = list, !.at = at],
                   pc, list, at, t.inv, todo, t.views)
         /\ IsPass([t EXCEPT !.todo = todo, !.list = list, !.views = views],
                   t.pc, list, t.at, t.inv, todo, views)
<1>1. t \in [pc : Pcs, list : Shown, at : [Project -> Nat], inv : SUBSET Project,
             todo : SUBSET Project, views : Shown]
  BY DEF PassRec, Pcs, Shown
<1>2. PassRec = [pc : Pcs, list : Shown, at : [Project -> Nat], inv : SUBSET Project,
                 todo : SUBSET Project, views : Shown]
  BY DEF PassRec, Pcs, Shown
<1>3. IsPass([t EXCEPT !.pc = pc], pc, t.list, t.at, t.inv, t.todo, t.views)
  BY <1>1, <1>2, Zenon DEF IsPass
<1>4. IsPass([t EXCEPT !.pc = pc, !.inv = inv], pc, t.list, t.at, inv, t.todo, t.views)
  BY <1>1, <1>2, Zenon DEF IsPass
<1>5. IsPass([t EXCEPT !.pc = pc, !.todo = todo, !.list = list, !.at = at], pc, list, at, t.inv, todo, t.views)
  BY <1>1, <1>2, Zenon DEF IsPass
<1>6. IsPass([t EXCEPT !.todo = todo, !.list = list, !.views = views], t.pc, list, t.at, t.inv, todo, views)
  BY <1>1, <1>2, Zenon DEF IsPass
<1> QED
  BY <1>3, <1>4, <1>5, <1>6

\* A pass that moves on keeps what it has.
LEMMA PassMovesOn ==
  ASSUME pass \in PassRec, NEW pc \in Pcs, pass' = [pass EXCEPT !.pc = pc]
  PROVE  IsPass(pass', pc, pass.list, pass.at, pass.inv, pass.todo, pass.views)
<1>1. /\ pass.list \in Shown /\ pass.at \in [Project -> Nat] /\ pass.inv \in SUBSET Project
      /\ pass.todo \in SUBSET Project /\ pass.views \in Shown
  BY PassParts
<1> QED
  BY <1>1, PassChanges

\* One project of the list is dealt with.
LEMMA ReadIs ==
  ASSUME ShownTypes, NEW p \in Project, NEW v \in Summary \cup {None}, NEW c \in Cached \cup {None},
         Read(p, v, c)
  PROVE  /\ IsPass(pass', pass.pc, [pass.list EXCEPT ![p] = None], pass.at, pass.inv, pass.todo \ {p},
                   [pass.views EXCEPT ![p] = v])
         /\ cache' = [cache EXCEPT ![p] = c]
         /\ UNCHANGED <<view, invites, status, sheet>>
<1> DEFINE list  == [pass.list EXCEPT ![p] = None]
           views == [pass.views EXCEPT ![p] = v]
           todo  == pass.todo \ {p}
<1>1. pass \in PassRec /\ pass.list \in Shown /\ pass.views \in Shown /\ pass.todo \in SUBSET Project
  BY PassParts DEF ShownTypes
<1>2. list \in Shown /\ views \in Shown /\ todo \in SUBSET Project
  BY <1>1 DEF Shown
<1>3. pass' = [pass EXCEPT !.todo = todo, !.list = list, !.views = views]
  BY DEF Read
<1>4. pass.pc \in Pcs /\ pass.at \in [Project -> Nat] /\ pass.inv \in SUBSET Project
  BY <1>1, PassParts
<1> HIDE DEF list, views, todo
<1>5. IsPass(pass', pass.pc, list, pass.at, pass.inv, todo, views)
  BY <1>1, <1>2, <1>3, <1>4, PassChanges
<1> QED
  BY <1>5 DEF list, views, todo, Read, NoShow, ui

\* What a step makes of the pass, the cache and what is shown: an end, without or
\* with the cache shown; a beginning; the list; the invites; a project; the result.
Reading(p) ==
  \E v, c : /\ p \in pass.todo /\ pass.list[p] # None
            /\ IsPass(pass', pass.pc, [pass.list EXCEPT ![p] = None], pass.at, pass.inv, pass.todo \ {p},
                      [pass.views EXCEPT ![p] = v])
            /\ cache' = [cache EXCEPT ![p] = c]
            /\ UNCHANGED <<view, invites, sheet>>
            /\ \/ v = None /\ c = None
               \/ v = [pass.list[p] EXCEPT !.awaiting = TRUE] /\ c = cache[p]
               \/ v = pass.list[p] /\ c = Kept(pass.list[p])
Listing ==
  LET listed == {p \in Project : srv[p].role \in Roles} IN
  /\ IsPass(pass', "invites", [p \in Project |-> IF p \in listed THEN BaseView(p) ELSE None],
            [p \in Project |-> srv[p].rev], pass.inv, listed, pass.views)
  /\ UNCHANGED <<view, invites, cache, sheet>>
ShownMove ==
  \/ UNCHANGED <<view, invites, cache, sheet>> /\ pass' = NoPass
  \/ UNCHANGED <<view, invites, cache, sheet>> /\ pass = NoPass /\ pass' = [NoPass EXCEPT !.pc = "identity"]
  \/ UNCHANGED <<view, invites, cache, sheet>> /\ pass.pc = "identity" /\ pass' = [pass EXCEPT !.pc = "list"]
  \/ pass.pc = "list" /\ Listing
  \/ PassList /\ Shows([p \in Project |-> CachedView(p)]) /\ invites' = {} /\ UNCHANGED cache /\ pass' = NoPass
     /\ (NoReseed => sheet.kind # "edit")
  \/ PassInvites
  \/ pass.pc = "read" /\ \E p \in Project : Reading(p)
  \/ PassApply
  \/ view' = Nothing /\ invites' = {} /\ UNCHANGED cache /\ pass' = NoPass /\ sheet' = NoSheet

\* What is kept of a summary, and what a change of it leaves.
LEMMA SummaryIs ==
  ASSUME NEW s \in Summary
  PROVE  /\ s # None /\ s.role \in Roles /\ s.name \in Nat /\ s.cached \in BOOLEAN
         /\ [s EXCEPT !.awaiting = TRUE] \in Summary /\ [s EXCEPT !.awaiting = TRUE].role = s.role
         /\ [s EXCEPT !.awaiting = TRUE].name = s.name /\ [s EXCEPT !.awaiting = TRUE].cached = s.cached
         /\ [s EXCEPT !.awaiting = TRUE] # None
         /\ Kept(s) \in Cached /\ Kept(s).role = s.role /\ Kept(s).name = s.name
<1>1. /\ s # None /\ s.role \in Roles /\ s.name \in Nat /\ s.cached \in BOOLEAN
  BY NoneIsNone DEF Summary
<1>2. Kept(s) \in Cached /\ Kept(s).role = s.role /\ Kept(s).name = s.name
  BY <1>1, SMT DEF Kept, Cached
<1>3. /\ [s EXCEPT !.awaiting = TRUE] \in Summary /\ [s EXCEPT !.awaiting = TRUE].role = s.role
      /\ [s EXCEPT !.awaiting = TRUE].name = s.name /\ [s EXCEPT !.awaiting = TRUE].cached = s.cached
  BY Zenon DEF Summary
<1> QED
  BY <1>1, <1>2, <1>3, NoneIsNone

\* The list has the name and the role at the server,
LEMMA BaseIs ==
  ASSUME ServerTypes, NEW p \in Project, srv[p].role \in Roles
  PROVE  BaseView(p) \in Summary /\ BaseView(p) # None /\ BaseView(p).role = srv[p].role
         /\ BaseView(p).name = srv[p].name /\ BaseView(p).cached = FALSE
<1>1. srv[p].name \in Nat /\ (srv[p].copy = None) \in BOOLEAN
  BY ServerParts DEF ServerTypes
<1>2. BaseView(p) \in Summary /\ BaseView(p).role = srv[p].role
      /\ BaseView(p).name = srv[p].name /\ BaseView(p).cached = FALSE
  BY <1>1, Zenon DEF BaseView, Summary
<1> QED
  BY <1>2, NoneIsNone

\* and without a network those in the cache.
LEMMA CachedIs ==
  ASSUME cache \in [Project -> Cached \cup {None}], NEW p \in Project
  PROVE  /\ CachedView(p) \in Summary \cup {None}
         /\ CachedView(p) # None => /\ cache[p] # None /\ CachedView(p).role = cache[p].role
                                    /\ CachedView(p).name = cache[p].name
<1>1. CASE cache[p] = None
  BY <1>1 DEF CachedView, Loads
<1>2. CASE cache[p] # None
  <2>1. cache[p].role \in Roles /\ cache[p].name \in Nat
    BY <1>2, SMT DEF Cached
  <2> DEFINE r == [role |-> cache[p].role, awaiting |-> FALSE, name |-> cache[p].name, cached |-> TRUE]
  <2>2. CachedView(p) = r
    BY <1>2 DEF CachedView, Loads
  <2>3. r \in Summary /\ r.role = cache[p].role /\ r.name = cache[p].name
    BY <2>1, Zenon DEF Summary
  <2> HIDE DEF r
  <2> QED
    BY <1>2, <2>2, <2>3
<1> QED
  BY <1>1, <1>2

\* A pass that reads a project is a move of what is shown,
LEMMA PassReads ==
  ASSUME Types, NEW p \in Project, PassRead(p)
  PROVE  ShownMove
<1> DEFINE s == pass.list[p]
<1>1. p \in pass.todo /\ pass.pc = "read"
  BY DEF PassRead
<1>2. ShownTypes /\ s # None /\ s \in Summary \cup {None} /\ cache[p] \in Cached \cup {None}
  BY <1>1, PassParts DEF Types, ShownTypes, Shown
<1>3. s \in Summary /\ [s EXCEPT !.awaiting = TRUE] \in Summary /\ Kept(s) \in Cached
  BY <1>2, SummaryIs
<1>4. CASE Vanished(p)
  <2>1. Read(p, None, None)
    BY <1>4 DEF Vanished
  <2>2. Reading(p)
    BY <1>1, <1>2, <2>1, ReadIs DEF Reading
  <2> QED
    BY <1>1, <2>2 DEF ShownMove
<1>5. CASE Read(p, [s EXCEPT !.awaiting = TRUE], cache[p])
  <2>1. Reading(p)
    BY <1>1, <1>2, <1>3, <1>5, ReadIs DEF Reading
  <2> QED
    BY <1>1, <2>1 DEF ShownMove
<1>6. CASE Read(p, s, Kept(s))
  <2>1. Reading(p)
    BY <1>1, <1>2, <1>3, <1>6, ReadIs DEF Reading
  <2> QED
    BY <1>1, <2>1 DEF ShownMove
<1>7. CASE Settles /\ UNCHANGED cache
  BY <1>7 DEF Settles, NoShow, ui, ShownMove
<1> QED
  BY <1>4, <1>5, <1>6, <1>7 DEF PassRead

\* and so is one that lists them.
LEMMA PassLists ==
  ASSUME Types, PassList
  PROVE  ShownMove
<1> DEFINE listed == {p \in Project : srv[p].role \in Roles}
           list == [p \in Project |-> IF p \in listed THEN BaseView(p) ELSE None]
           at == [p \in Project |-> srv[p].rev]
<1>1. pass \in PassRec /\ pass.pc = "list" /\ ServerTypes
  BY DEF PassList, Types, ShownTypes
<1>2. CASE NoShow /\ UNCHANGED invites /\ pass' = [pass EXCEPT !.pc = "invites", !.todo = listed, !.list = list, !.at = at]
  <2>1. listed \in SUBSET Project /\ list \in Shown
    BY <1>1, BaseIs DEF Shown
  <2>2. at \in [Project -> Nat]
    BY <1>1, ServerParts DEF ServerTypes
  <2>3. pass' = [pass EXCEPT !.pc = "invites", !.todo = listed, !.list = list, !.at = at]
    BY <1>2
  <2>4. "invites" \in Pcs
    BY DEF Pcs
  <2>5. pass.inv \in SUBSET Project /\ pass.views \in Shown
    BY <1>1, PassParts
  <2> HIDE DEF listed, list, at
  <2>6. IsPass(pass', "invites", list, at, pass.inv, listed, pass.views)
    BY <1>1, <2>1, <2>2, <2>3, <2>4, <2>5, PassChanges
  <2>7. Listing
    BY <1>2, <2>6 DEF Listing, list, listed, at, NoShow, ui, PassList
  <2> QED
    BY <1>1, <2>7 DEF ShownMove
<1>3. CASE Settles
  BY <1>3 DEF Settles, NoShow, ui, ShownMove, PassList
<1>4. CASE /\ May("reseed") \/ sheet.kind # "edit"
           /\ Shows([p \in Project |-> CachedView(p)])
           /\ invites' = {} /\ pass' = NoPass
  <2>1. NoReseed => sheet.kind # "edit"
    BY <1>4 DEF NoReseed, May
  <2>2. UNCHANGED cache
    BY DEF PassList
  <2> QED
    BY <1>4, <2>1, <2>2 DEF ShownMove
<1> QED
  BY <1>2, <1>3, <1>4 DEF PassList

\* Every step is such a move, or leaves all that is shown alone.
LEMMA ShownSteps == Types /\ [Next]_vars => (ShownMove \/ UNCHANGED <<view, invites, cache, pass>>)
<1> SUFFICES ASSUME Types, [Next]_vars PROVE ShownMove \/ UNCHANGED <<view, invites, cache, pass>>
  OBVIOUS
<1>1. CASE Elsewhere
  BY <1>1, ElsewhereKeeps DEF redux
<1>2. CASE PassStart
  BY <1>2 DEF PassStart, redux, ui, ShownMove
<1>3. CASE PassIdentity
  BY <1>3 DEF PassIdentity, NoShow, Settles, ui, ShownMove
<1>4. CASE PassInvites
  BY <1>4 DEF ShownMove
<1>5. CASE PassApply
  BY <1>5 DEF ShownMove
<1>6. CASE Screens
  BY <1>6, ScreensKeep DEF still, redux
<1>7. CASE Requests
  BY <1>7, RequestsKeep
<1>8. CASE Kill
  BY <1>8 DEF Kill, ShownMove
<1>9. CASE UNCHANGED vars
  BY <1>9 DEF vars, redux
<1> QED
  BY <1>1, <1>2, <1>3, <1>4, <1>5, <1>6, <1>7, <1>8, <1>9, PassReads, PassLists DEF Next, Passing

\* Types of what is shown.
LEMMA ShownTypesStep ==
  ASSUME Types, ServerStep, ShownMove \/ UNCHANGED <<view, invites, cache, pass>>
  PROVE  ShownTypes'
<1>0. /\ view \in Shown /\ invites \subseteq Project /\ cache \in [Project -> Cached \cup {None}]
      /\ pass \in PassRec /\ pass.todo = {p \in Project : pass.list[p] # None} /\ ServerTypes
      /\ pass.list \in Shown /\ pass.views \in Shown
  BY PassParts DEF Types, ShownTypes, Shown
<1> DEFINE Fits(v, i, c, t) == /\ v \in Shown /\ i \subseteq Project /\ c \in [Project -> Cached \cup {None}]
                               /\ t \in PassRec /\ t.todo = {p \in Project : t.list[p] # None}
<1> SUFFICES Fits(view', invites', cache', pass')
  BY DEF ShownTypes, Shown
<1>1. UNCHANGED <<view, invites, cache, pass>> => Fits(view', invites', cache', pass')
  BY <1>0
<1>2. NoPass \in PassRec /\ NoPass.todo = {p \in Project : NoPass.list[p] # None}
  BY NoPassIs, NothingIsShown DEF IsPass
<1>3. CASE pass' = NoPass /\ view' \in Shown /\ invites' \subseteq Project /\ UNCHANGED cache
  BY <1>0, <1>2, <1>3
<1>4. CASE UNCHANGED <<view, invites, cache>> /\ pass = NoPass /\ pass' = [NoPass EXCEPT !.pc = "identity"]
  <2>1. IsPass(pass', "identity", pass.list, pass.at, pass.inv, pass.todo, pass.views)
    <3>1. pass' = [pass EXCEPT !.pc = "identity"] /\ "identity" \in Pcs
      BY <1>4 DEF Pcs
    <3> QED
      BY <1>0, <3>1, PassMovesOn
  <2> QED
    BY <1>0, <1>4, <2>1 DEF IsPass
<1>5. CASE UNCHANGED <<view, invites, cache>> /\ pass' = [pass EXCEPT !.pc = "list"]
  <2>1. IsPass(pass', "list", pass.list, pass.at, pass.inv, pass.todo, pass.views)
    <3>1. "list" \in Pcs
      BY DEF Pcs
    <3> QED
      BY <1>0, <1>5, <3>1, PassMovesOn
  <2> QED
    BY <1>0, <1>5, <2>1 DEF IsPass
<1>6. CASE Listing
  <2>1. \A p \in Project : p \in pass'.todo <=> pass'.list[p] # None
    BY <1>0, <1>6, BaseIs DEF Listing, IsPass
  <2>2. pass' \in PassRec /\ pass'.todo \subseteq Project
    BY <1>6 DEF Listing, IsPass
  <2> QED
    BY <1>0, <1>6, <2>1, <2>2 DEF Listing
<1>7. CASE PassInvites
  <2>1. \E inv \in SUBSET Project : IsPass(pass', "read", pass.list, pass.at, inv, pass.todo, pass.views)
    <3> DEFINE inv == {p \in Project : srv[p].role = "invited"}
    <3>1. inv \in SUBSET Project /\ "read" \in Pcs
      BY DEF Pcs
    <3>2. CASE pass' = [pass EXCEPT !.pc = "read", !.inv = inv]
      <4> HIDE DEF inv
      <4> QED
        BY <1>0, <3>1, <3>2, PassParts, PassChanges
    <3>3. CASE pass' = [pass EXCEPT !.pc = "read"]
      <4>1. pass.inv \in SUBSET Project /\ pass.at \in [Project -> Nat] /\ pass.todo \in SUBSET Project
        BY <1>0, PassParts
      <4>2. IsPass(pass', "read", pass.list, pass.at, pass.inv, pass.todo, pass.views)
        BY <1>0, <3>1, <3>3, <4>1, PassChanges
      <4> QED
        BY <4>1, <4>2
    <3> QED
      BY <1>7, <3>2, <3>3 DEF PassInvites
  <2>2. cache' \in [Project -> Cached \cup {None}] /\ UNCHANGED <<view, invites>>
    BY <1>0, <1>7 DEF PassInvites, redux
  <2> QED
    BY <1>0, <2>1, <2>2 DEF IsPass
<1>8. ASSUME NEW p \in Project, Reading(p) PROVE Fits(view', invites', cache', pass')
  <2>1. pass.list[p] \in Summary /\ cache[p] \in Cached \cup {None}
    BY <1>0, <1>8 DEF Reading, Shown
  <2>2. \E c \in Cached \cup {None} : cache' = [cache EXCEPT ![p] = c]
    BY <2>1, <1>8, SummaryIs DEF Reading
  <2>3. pass' \in PassRec /\ pass'.todo = pass.todo \ {p} /\ pass'.list = [pass.list EXCEPT ![p] = None]
    BY <1>8 DEF Reading, IsPass
  <2>4. pass'.todo = {q \in Project : pass'.list[q] # None}
    BY <1>0, <2>3 DEF Shown
  <2>5. UNCHANGED <<view, invites>>
    BY <1>8 DEF Reading
  <2> QED
    BY <1>0, <2>2, <2>3, <2>4, <2>5
<1>9. CASE PassApply
  <2>1. view' = pass.views /\ invites' = pass.inv /\ pass' = NoPass /\ UNCHANGED cache
    BY <1>9 DEF PassApply, Shows
  <2> QED
    BY <1>0, <1>3, <2>1, PassParts
<1>10. CASE Shows([p \in Project |-> CachedView(p)]) /\ invites' = {} /\ UNCHANGED cache /\ pass' = NoPass
  <2>1. view' = [p \in Project |-> CachedView(p)]
    BY <1>10 DEF Shows
  <2>2. view' \in Shown
    BY <1>0, <2>1, CachedIs DEF Shown
  <2> QED
    BY <1>3, <1>10, <2>2
<1>11. CASE view' = Nothing /\ invites' = {} /\ UNCHANGED cache /\ pass' = NoPass
  BY <1>3, <1>11, NothingIsShown
<1> QED
  BY <1>0, <1>1, <1>3, <1>4, <1>5, <1>6, <1>7, <1>8, <1>9, <1>10, <1>11 DEF ShownMove

\* Types of what the slice says of the passes.
LEMMA StatusStep ==
  ASSUME StatusType, [Next]_vars
  PROVE  StatusType'
<1> DEFINE S == [loaded : BOOLEAN, offline : BOOLEAN, notices : SUBSET {"needsSync", "mismatch"}]
<1>1. UNCHANGED status => StatusType'
  BY DEF StatusType
<1>2. \A n \in SUBSET {"needsSync", "mismatch"} :
        /\ [status EXCEPT !.notices = n] \in S
        /\ [status EXCEPT !.loaded = TRUE, !.notices = n] \in S
  BY Zenon DEF StatusType
<1>3. [status EXCEPT !.loaded = TRUE, !.offline = TRUE] \in S
  BY Zenon DEF StatusType
<1>4. status.notices \in SUBSET {"needsSync", "mismatch"}
  BY DEF StatusType
<1>5. \A b \in BOOLEAN : [loaded |-> TRUE, offline |-> b, notices |-> {}] \in S
  BY Zenon
<1>6. Fresh \in S
  BY Zenon DEF Fresh
<1>7. CASE Elsewhere
  BY <1>1, <1>7, ElsewhereKeeps DEF redux
<1>8. CASE Settles
  BY <1>3, <1>8 DEF Settles, StatusType
<1>9. CASE PassStart
  BY <1>1, <1>9 DEF PassStart, redux
<1>10. CASE PassIdentity
  <2>1. ASSUME NEW res \in {"ready", "needsSync", "mismatch"}, res # "ready",
               status' = [status EXCEPT !.loaded = TRUE, !.notices = @ \cup {res}]
        PROVE  StatusType'
    <3> DEFINE n == status.notices \cup {res}
    <3>1. n \in SUBSET {"needsSync", "mismatch"} /\ status' = [status EXCEPT !.loaded = TRUE, !.notices = n]
      BY <1>4, <2>1
    <3> HIDE DEF n
    <3> QED
      BY <1>2, <3>1 DEF StatusType
  <2> QED
    BY <1>1, <1>8, <1>10, <2>1 DEF PassIdentity
<1>11. CASE PassList
  BY <1>1, <1>5, <1>8, <1>11 DEF PassList, StatusType
<1>12. CASE PassInvites
  BY <1>1, <1>12 DEF PassInvites, redux
<1>13. CASE PassApply
  BY <1>5, <1>13 DEF PassApply, StatusType
<1>14. ASSUME NEW p \in Project, PassRead(p) PROVE StatusType'
  BY <1>1, <1>8, <1>14 DEF PassRead, Vanished, Read
<1>15. CASE Screens
  BY <1>1, <1>15, ScreensKeep DEF still, redux
<1>16. CASE Requests
  <2>1. ASSUME NEW c \in calls, CallIdentity(c) \/ Handle(c) \/ FailsFor(c) PROVE StatusType'
    BY <1>1, <2>1 DEF CallIdentity, Handle, FailsFor, calling, redux
  <2>2. ASSUME NEW c \in calls, Succeeds(c) PROVE StatusType'
    <3>1. CASE status' = [status EXCEPT !.notices = @ \ {"mismatch"}]
      <4> DEFINE n == status.notices \ {"mismatch"}
      <4>1. n \in SUBSET {"needsSync", "mismatch"} /\ status' = [status EXCEPT !.notices = n]
        BY <1>4, <3>1
      <4> HIDE DEF n
      <4> QED
        BY <1>2, <4>1 DEF StatusType
    <3> QED
      BY <1>1, <2>2, <3>1 DEF Succeeds
  <2>3. UNCHANGED <<still, pull, screen, detail>> => StatusType'
    BY <1>1 DEF still, redux
  <2> QED
    BY <1>16, <2>1, <2>2, <2>3, AsksKeep DEF Requests
<1>17. CASE Kill
  BY <1>6, <1>17 DEF Kill, StatusType
<1>18. CASE UNCHANGED vars
  BY <1>1, <1>18 DEF vars, redux
<1> QED
  BY <1>7, <1>9, <1>10, <1>11, <1>12, <1>13, <1>14, <1>15, <1>16, <1>17, <1>18 DEF Next, Passing

\* Types of what was reported.
LEMMA ToldStep ==
  ASSUME Types, ServerStep, [Next]_vars
  PROVE  ToldType'
<1>0. /\ told \in [Project -> Nat]
      /\ \A p \in Project : told[p] <= srv'[p].rev /\ srv'[p].rev \in Nat /\ told[p] \in Nat
  <2>1. told \in [Project -> Nat]
    BY DEF Types, ToldType
  <2>2. ASSUME NEW p \in Project PROVE told[p] <= srv'[p].rev /\ srv'[p].rev \in Nat /\ told[p] \in Nat
    <3>1. srv[p] \in OnServer /\ srv'[p] \in OnServer /\ srv[p].rev <= srv'[p].rev /\ told[p] <= srv[p].rev
      BY <2>2 DEF ServerStep, ServerTypes, ServerMoves, Moves, Types, ToldType
    <3>2. srv[p].rev \in Nat /\ srv'[p].rev \in Nat /\ told[p] \in Nat
      BY <2>1, <3>1, ServerParts
    <3> QED
      BY <3>1, <3>2, SMT
  <2> QED
    BY <2>1, <2>2
<1>1. UNCHANGED told => ToldType'
  BY <1>0 DEF ToldType
<1>2. CASE Elsewhere
  BY <1>1, <1>2, ElsewhereKeeps
<1>3. CASE PassStart \/ PassIdentity \/ PassList \/ PassInvites \/ \E p \in Project : PassRead(p)
  BY <1>1, <1>3 DEF PassStart, PassIdentity, PassList, PassInvites, PassRead, unlisted
<1>4. CASE PassApply
  <2>1. told' = [p \in Project |-> IF pass.at[p] >= told[p] THEN 0 ELSE told[p]]
    BY <1>4 DEF PassApply
  <2> QED
    BY <1>0, <2>1, SMT DEF ToldType
<1>5. CASE Screens
  BY <1>1, <1>5, ScreensKeep DEF still
<1>6. CASE Requests
  <2>1. ASSUME NEW c \in calls, CallIdentity(c) \/ Handle(c) \/ FailsFor(c) PROVE ToldType'
    BY <1>1, <2>1 DEF CallIdentity, Handle, FailsFor, calling
  <2>2. ASSUME NEW c \in calls, Succeeds(c) PROVE ToldType'
    <3>1. CASE c.p # None /\ told' = [told EXCEPT ![c.p] = c.at]
      <4>1. c.p \in Project /\ c.at \in Nat /\ c.at <= srv[c.p].rev /\ srv' = srv
        BY <2>2, <3>1 DEF Types, CallTypes, Call, Succeeds
      <4> QED
        BY <1>0, <3>1, <4>1, SMT DEF ToldType
    <3> QED
      BY <1>1, <2>2, <3>1 DEF Succeeds
  <2>3. UNCHANGED <<still, pull, screen, detail>> => ToldType'
    BY <1>1 DEF still
  <2> QED
    BY <1>6, <2>1, <2>2, <2>3, AsksKeep DEF Requests
<1>7. CASE Kill
  <2>1. told' = [p \in Project |-> 0]
    BY <1>7 DEF Kill, NoPass
  <2> QED
    BY <1>0, <2>1, SMT DEF ToldType
<1>8. CASE UNCHANGED vars
  BY <1>1, <1>8 DEF vars
<1> QED
  BY <1>2, <1>3, <1>4, <1>5, <1>6, <1>7, <1>8 DEF Next, Passing

-----------------------------------------------------------------------------
(* The screens.                                                            *)

Kinds  == {"none", "create", "edit", "invite"}
States == {"filled", "typed", "sent"}

\* What a change of a sheet leaves.
LEMMA SheetChanges ==
  ASSUME NEW k \in Kinds, NEW st \in States, NEW s \in [kind : Kinds, state : States]
  PROVE  /\ [s EXCEPT !.state = st] \in [kind : Kinds, state : States]
         /\ [s EXCEPT !.state = st].kind = s.kind /\ [s EXCEPT !.state = st].state = st
         /\ [s EXCEPT !.kind = k] \in [kind : Kinds, state : States]
         /\ [s EXCEPT !.kind = k].kind = k /\ [s EXCEPT !.kind = k].state = s.state
         /\ s = [kind |-> s.kind, state |-> s.state]
  BY SMT

\* No sheet, part by part.
LEMMA NoSheetIs == NoSheet \in [kind : Kinds, state : States] /\ NoSheet.kind = "none" /\ NoSheet.state = "filled"
  BY SMT DEF NoSheet, Kinds, States

\* A sheet that is filled anew was typed into, and is of the same kind.
LEMMA RefillIs ==
  ASSUME SheetType, NEW v, NEW d, Refill(v, d)
  PROVE  /\ sheet' \in [kind : Kinds, state : States] /\ sheet'.kind = sheet.kind
         /\ sheet' = sheet \/ /\ sheet.state = "typed" /\ sheet'.state = "filled"
                              /\ sheet.kind \in {"edit", "invite"}
                              /\ v[screen] = None \/ ~CanAdminister(Role(screen, v, d)) \/ Reseeds(v)
<1>1. sheet \in [kind : Kinds, state : States]
  BY DEF SheetType, Kinds, States
<1>2. CASE sheet' = sheet
  BY <1>1, <1>2
<1>3. CASE sheet' # sheet
  <2> DEFINE st == IF sheet.state = "typed" THEN "filled" ELSE sheet.state
  <2>1. sheet' = [sheet EXCEPT !.state = st] /\ sheet.kind \in {"edit", "invite"}
        /\ (v[screen] = None \/ ~CanAdminister(Role(screen, v, d)) \/ Reseeds(v))
    BY <1>3 DEF Refill
  <2>2. st \in States /\ "none" \in Kinds
    BY <1>1, SMT DEF States, Kinds
  <2> HIDE DEF st
  <2>3. sheet' \in [kind : Kinds, state : States] /\ sheet'.kind = sheet.kind /\ sheet'.state = st
    BY <1>1, <2>1, <2>2, SheetChanges
  <2>4. sheet.state = "typed"
    <3>1. ASSUME sheet.state # "typed" PROVE FALSE
      <4>1. st = sheet.state
        BY <3>1 DEF st
      <4>2. sheet' = [kind |-> sheet'.kind, state |-> sheet'.state] /\ sheet = [kind |-> sheet.kind, state |-> sheet.state]
        BY <1>1, <2>2, <2>3, SheetChanges
      <4> QED
        BY <1>3, <2>3, <4>1, <4>2
    <3> QED
      BY <3>1
  <2>5. st = "filled"
    BY <2>4 DEF st
  <2> QED
    BY <2>1, <2>3, <2>4, <2>5
<1> QED
  BY <1>2, <1>3

\* What a step makes of the screen and the sheet over it.
SheetMove ==
  \/ UNCHANGED <<screen, sheet>>
  \/ UNCHANGED <<screen, calls, srv>> /\ Refill(view', detail')
  \/ \E p \in Project : OpenDetail(p)
  \/ GoBack
  \/ \E kind \in {"create", "edit", "invite"} : OpenSheet(kind)
  \/ Type
  \/ CloseSheet
  \/ Submit
  \/ \E c \in calls : Succeeds(c)
  \/ Kill

\* Every step makes one of those of the screen.
LEMMA SheetSteps == [Next]_vars => SheetMove
<1> SUFFICES ASSUME [Next]_vars PROVE SheetMove
  OBVIOUS
<1> USE DEF SheetMove
<1>1. CASE Elsewhere
  BY <1>1, ElsewhereKeeps DEF ui
<1>2. CASE PassStart \/ Passing
  <2>1. UNCHANGED <<screen, calls, detail, srv>>
    BY <1>2, PassKeeps
  <2>2. UNCHANGED sheet \/ Refill(view', detail')
    <3>1. CASE NoShow
      BY <3>1 DEF NoShow, ui
    <3>2. ASSUME NEW v, Shows(v) PROVE Refill(view', detail')
      BY <3>2 DEF Shows
    <3> QED
      BY <1>2, <3>1, <3>2 DEF PassStart, Passing, PassIdentity, PassList, PassInvites, PassRead, PassApply,
                             Settles, Vanished, Read, ui
  <2> QED
    BY <2>1, <2>2
<1>3. CASE Screens
  <2>1. CASE Focus
    BY <2>1 DEF Focus, ui
  <2>2. ASSUME NEW p \in Project, Fetch(p) PROVE SheetMove
    BY <2>2 DEF Fetch, still, redux
  <2> QED
    BY <1>3, <2>1, <2>2 DEF Screens
<1>4. CASE Requests
  <2>1. ASSUME NEW c \in calls, CallIdentity(c) \/ Handle(c) \/ FailsFor(c) PROVE SheetMove
    BY <2>1 DEF CallIdentity, Handle, FailsFor, calling, ui
  <2>2. CASE Republish \/ Manage \/ \E p \in Project : Respond(p)
    BY <2>2, AsksKeep DEF Republish, Manage, Respond
  <2> QED
    BY <1>4, <2>1, <2>2 DEF Requests
<1>5. CASE UNCHANGED vars
  BY <1>5 DEF vars, ui
<1> QED
  BY <1>1, <1>2, <1>3, <1>4, <1>5 DEF Next

\* Types of the details,
LEMMA DetailStep ==
  ASSUME detail \in [Project -> Roles \cup {None}], [Next]_vars
  PROVE  detail' \in [Project -> Roles \cup {None}]
<1>1. CASE UNCHANGED detail
  BY <1>1
<1>2. CASE PassStart \/ Passing
  BY <1>2, PassKeeps
<1>3. CASE Screens
  <2>1. ASSUME NEW p \in Project, Fetch(p) PROVE detail' \in [Project -> Roles \cup {None}]
    BY <2>1 DEF Fetch
  <2> QED
    BY <1>1, <1>3, <2>1 DEF Screens, Focus, GoBack, Type, CloseSheet, OpenDetail, OpenSheet, ui
<1>4. CASE Kill
  BY <1>4 DEF Kill, Nothing
<1> QED
  BY <1>1, <1>2, <1>3, <1>4, ElsewhereKeeps, RequestsKeep DEF Next, vars, ui

\* Types of the screens.
LEMMA ScreenTypesStep ==
  ASSUME Types, [Next]_vars, SheetMove
  PROVE  ScreenTypes'
<1>0. /\ screen \in Project \cup {None} /\ sheet \in [kind : Kinds, state : States]
      /\ (sheet.kind = "create" => screen = None) /\ (sheet.kind \in {"edit", "invite"} => screen # None)
      /\ SheetType /\ sheet.kind \in Kinds /\ sheet.state \in States
  BY DEF Types, ScreenTypes, SheetType, Kinds, States
<1>1. detail' \in [Project -> Roles \cup {None}]
  BY DetailStep DEF Types, ScreenTypes
<1> DEFINE Fits(sc, sh) == /\ sc \in Project \cup {None} /\ sh \in [kind : Kinds, state : States]
                           /\ (sh.kind = "create" => sc = None)
                           /\ (sh.kind \in {"edit", "invite"} => sc # None)
<1> SUFFICES Fits(screen', sheet')
  BY <1>1 DEF ScreenTypes, SheetType, Kinds, States
<1>2. \A sc \in Project \cup {None} : Fits(sc, NoSheet)
  BY NoSheetIs
<1>3. CASE UNCHANGED <<screen, sheet>>
  BY <1>0, <1>3
<1>4. CASE UNCHANGED screen /\ Refill(view', detail')
  BY <1>0, <1>4, RefillIs
<1>5. ASSUME NEW p \in Project, OpenDetail(p) PROVE Fits(screen', sheet')
  BY <1>2, <1>5 DEF OpenDetail
<1>6. CASE GoBack
  BY <1>2, <1>6 DEF GoBack, OnScreen
<1>7. ASSUME NEW kind \in {"create", "edit", "invite"}, OpenSheet(kind) PROVE Fits(screen', sheet')
  <2>1. sheet' = [NoSheet EXCEPT !.kind = kind] /\ kind \in Kinds /\ "filled" \in States
    BY <1>7 DEF OpenSheet, Kinds, States
  <2>2. sheet' \in [kind : Kinds, state : States] /\ sheet'.kind = kind
    BY <2>1, NoSheetIs, SheetChanges
  <2>3. kind = "create" => screen = None
    BY <1>7 DEF OpenSheet
  <2>4. kind \in {"edit", "invite"} => screen # None
    BY <1>7 DEF OpenSheet, Found
  <2> QED
    BY <1>0, <1>7, <2>2, <2>3, <2>4 DEF OpenSheet
<1>8. CASE Type
  <2>1. sheet' = [sheet EXCEPT !.state = "typed"] /\ "none" \in Kinds /\ "typed" \in States /\ screen' = screen
    BY <1>8 DEF Type, Kinds, States
  <2>2. sheet' \in [kind : Kinds, state : States] /\ sheet'.kind = sheet.kind
    BY <1>0, <2>1, SheetChanges
  <2> QED
    BY <1>0, <2>1, <2>2
<1>9. CASE CloseSheet
  BY <1>0, <1>2, <1>9 DEF CloseSheet
<1>10. CASE Submit
  <2>1. sheet' = [sheet EXCEPT !.state = "sent"] /\ "none" \in Kinds /\ "sent" \in States /\ screen' = screen
    BY <1>10, AsksKeep DEF Submit, Kinds, States
  <2>2. sheet' \in [kind : Kinds, state : States] /\ sheet'.kind = sheet.kind
    BY <1>0, <2>1, SheetChanges
  <2> QED
    BY <1>0, <2>1, <2>2
<1>11. ASSUME NEW c \in calls, Succeeds(c) PROVE Fits(screen', sheet')
  <2>1. \/ screen' = None /\ sheet' = NoSheet
        \/ screen' = screen /\ sheet' \in {NoSheet, sheet}
    BY <1>11 DEF Succeeds
  <2> QED
    BY <1>0, <1>2, <2>1
<1>12. CASE Kill
  BY <1>2, <1>12 DEF Kill
<1> QED
  BY <1>3, <1>4, <1>5, <1>6, <1>7, <1>8, <1>9, <1>10, <1>11, <1>12 DEF SheetMove

\* and of the flag that a pass was asked for.
LEMMA PullStep == pull \in BOOLEAN /\ [Next]_vars => pull' \in BOOLEAN
<1> SUFFICES ASSUME pull \in BOOLEAN, [Next]_vars PROVE pull' \in BOOLEAN
  OBVIOUS
<1>1. CASE UNCHANGED pull
  BY <1>1
<1>2. CASE PassStart \/ Passing
  BY <1>2 DEF PassStart, Passing, PassIdentity, PassList, PassInvites, PassRead, PassApply, unlisted, passing
<1>3. CASE Screens
  BY <1>3 DEF Screens, Focus, GoBack, Type, CloseSheet, OpenDetail, Fetch, OpenSheet
<1>4. CASE Requests
  <2>1. ASSUME NEW c \in calls, CallIdentity(c) \/ Handle(c) \/ Succeeds(c) PROVE pull' \in BOOLEAN
    BY <2>1 DEF CallIdentity, Handle, calling, Succeeds, Pulls
  <2>2. ASSUME NEW c \in calls, FailsFor(c) PROVE pull' \in BOOLEAN
    <3>1. pull' = (pull \/ c.op \in {"accept", "decline"})
      BY <2>2 DEF FailsFor
    <3> QED
      BY <3>1
  <2> QED
    BY <1>1, <1>4, <2>1, <2>2, AsksKeep DEF Requests
<1>5. CASE Kill
  BY <1>5 DEF Kill
<1> QED
  BY <1>1, <1>2, <1>3, <1>4, <1>5, ElsewhereKeeps DEF Next, vars

\* What every step does, in the terms of the lemmas above.
Steps == ServerStep /\ CallsMove /\ (ShownMove \/ UNCHANGED <<view, invites, cache, pass>>) /\ SheetMove

\* Every step is all of these at once.
LEMMA StepsAre == Types /\ [Next]_vars => Steps
  BY ServerSteps, CallSteps, ShownSteps, SheetSteps DEF Steps

\* So it keeps the types,
LEMMA TypesStep == Types /\ [Next]_vars => Types'
<1> SUFFICES ASSUME Types, [Next]_vars PROVE Types'
  OBVIOUS
<1>1. Steps
  BY StepsAre
<1>2. ServerTypes'
  BY <1>1 DEF Steps, ServerStep
<1>3. StatusType'
  BY StatusStep DEF Types
<1>4. ShownTypes'
  BY <1>1, ShownTypesStep DEF Steps
<1>5. pull' \in BOOLEAN
  BY PullStep DEF Types
<1>6. ScreenTypes'
  BY <1>1, ScreenTypesStep DEF Steps
<1>7. CallTypes'
  BY <1>1, CallTypesStep DEF Steps
<1>8. ToldType'
  BY <1>1, ToldStep DEF Steps
<1> QED
  BY <1>2, <1>3, <1>4, <1>5, <1>6, <1>7, <1>8 DEF Types

\* which the initial states have.
LEMMA TypesInit == Init => Types
<1> SUFFICES ASSUME Init PROVE Types
  OBVIOUS
<1>1. PICK role \in [Project -> {"free", "OWNER", "ADMIN", "invited"}] :
        srv = [p \in Project |->
                [role |-> role[p], name |-> 0, rev |-> 0,
                 copy |-> IF role[p] \in Roles THEN SealDek(p, EncodeIdentity(Classical)) ELSE None]]
  BY DEF Init
<1>2. ASSUME NEW p \in Project
      PROVE  srv[p] \in OnServer /\ (srv[p].copy # None => srv[p].role \in Roles) /\ srv[p].rev = 0
  <2> DEFINE c == IF role[p] \in Roles THEN SealDek(p, EncodeIdentity(Classical)) ELSE None
  <2>1. c \in Copies /\ (c # None => role[p] \in Roles)
    BY CopiesAre, KeysAre
  <2>2. role[p] \in ServerRoles
    BY DEF ServerRoles, Roles, Admins
  <2>3. srv[p] = [role |-> role[p], name |-> 0, rev |-> 0, copy |-> c]
    BY <1>1
  <2> HIDE DEF c
  <2> QED
    BY <2>1, <2>2, <2>3, ServerIs, SMT DEF ServerRoles
<1>3. ServerTypes
  BY <1>1, <1>2, KeysAre DEF Init, ServerTypes
<1>4. StatusType
  BY Zenon DEF Init, StatusType, Fresh
<1>5. ShownTypes
  BY NoPassIs, NothingIsShown DEF Init, ShownTypes, IsPass, Shown, Nothing
<1>6. ScreenTypes
  BY NoSheetIs DEF Init, ScreenTypes, SheetType, Kinds, States, Nothing
<1>7. CallTypes
  BY DEF Init, CallTypes
<1>8. ToldType
  <2>1. told = [p \in Project |-> 0]
    BY DEF Init, NoPass
  <2> QED
    BY <1>2, <2>1, SMT DEF ToldType
<1> QED
  BY <1>3, <1>4, <1>5, <1>6, <1>7, <1>8 DEF Types, Init

-----------------------------------------------------------------------------
(* The inductive invariant, part by part.                                  *)

\* A project that is cached is still to be read, or will be on the list.
CacheCovered ==
  pass.pc = "read" => \A p \in Project : cache[p] # None => p \in pass.todo \/ pass.views[p] # None

\* The cache is covered after every step: a project leaves both, or neither.
LEMMA CacheCoveredStep ==
  ASSUME Types, Steps, CacheCovered
  PROVE  CacheCovered'
<1>0. /\ pass \in PassRec /\ pass.todo = {p \in Project : pass.list[p] # None}
      /\ pass.list \in Shown /\ pass.views \in Shown /\ cache \in [Project -> Cached \cup {None}]
  BY PassParts DEF Types, ShownTypes
<1>1. CASE UNCHANGED <<cache, pass>>
  BY <1>1 DEF CacheCovered
<1>2. ASSUME pass'.pc # "read" PROVE CacheCovered'
  BY <1>2 DEF CacheCovered
<1>3. NoPass.pc = "idle"
  BY NoPassIs DEF IsPass
<1>4. CASE pass' = NoPass
  BY <1>2, <1>3, <1>4
<1>5. CASE pass = NoPass /\ pass' = [NoPass EXCEPT !.pc = "identity"]
  <2>1. IsPass(pass', "identity", pass.list, pass.at, pass.inv, pass.todo, pass.views)
    <3>1. pass' = [pass EXCEPT !.pc = "identity"] /\ "identity" \in Pcs
      BY <1>5 DEF Pcs
    <3> QED
      BY <1>0, <3>1, PassMovesOn
  <2> QED
    BY <1>2, <2>1 DEF IsPass
<1>6. CASE pass' = [pass EXCEPT !.pc = "list"]
  <2>1. IsPass(pass', "list", pass.list, pass.at, pass.inv, pass.todo, pass.views)
    <3>1. "list" \in Pcs
      BY DEF Pcs
    <3> QED
      BY <1>0, <1>6, <3>1, PassMovesOn
  <2> QED
    BY <1>2, <2>1 DEF IsPass
<1>7. CASE Listing
  BY <1>2, <1>7 DEF Listing, IsPass
<1>8. CASE PassInvites
  <2>1. pass'.todo = pass.todo
    BY <1>0, <1>8, Zenon DEF PassInvites, PassRec
  <2>2. \A p \in Project : cache'[p] # None => pass.list[p] # None
    BY <1>8 DEF PassInvites
  <2> QED
    BY <1>0, <2>1, <2>2 DEF CacheCovered
<1>9. ASSUME NEW p \in Project, pass.pc = "read", Reading(p) PROVE CacheCovered'
  <2>1. PICK v, c :
            /\ IsPass(pass', pass.pc, [pass.list EXCEPT ![p] = None], pass.at, pass.inv, pass.todo \ {p},
                      [pass.views EXCEPT ![p] = v])
            /\ cache' = [cache EXCEPT ![p] = c] /\ pass.list[p] # None
            /\ \/ v = None /\ c = None
               \/ v = [pass.list[p] EXCEPT !.awaiting = TRUE] /\ c = cache[p]
               \/ v = pass.list[p] /\ c = Kept(pass.list[p])
    BY <1>9 DEF Reading
  <2>2. pass'.todo = pass.todo \ {p} /\ pass'.views = [pass.views EXCEPT ![p] = v]
    BY <2>1 DEF IsPass
  <2>3. pass.list[p] \in Summary
    BY <1>0, <2>1 DEF Shown
  <2>4. v # None \/ c = None
    BY <2>1, <2>3, SummaryIs
  <2>5. ASSUME NEW q \in Project, cache'[q] # None PROVE q \in pass'.todo \/ pass'.views[q] # None
    <3>1. CASE q = p
      BY <1>0, <2>1, <2>2, <2>4, <2>5, <3>1 DEF Shown
    <3>2. CASE q # p
      BY <1>0, <1>9, <2>1, <2>2, <2>5, <3>2 DEF Shown, CacheCovered
    <3> QED
      BY <3>1, <3>2
  <2> QED
    BY <2>5 DEF CacheCovered
<1>10. CASE PassApply
  BY <1>4, <1>10 DEF PassApply
<1> QED
  BY <1>1, <1>4, <1>5, <1>6, <1>7, <1>8, <1>9, <1>10 DEF Steps, ShownMove

\* A list is shown with every project that is cached.
LEMMA ApplyShows ==
  ASSUME CacheCovered, PassApply
  PROVE  \A p \in Project : cache'[p] # None => view'[p] # None
  BY DEF CacheCovered, PassApply, Shows

\* The user's roles that the phone keeps for a project, wherever it does.
In(f, p, R) == f[p] # None /\ f[p].role \in R
Knows(p, R) ==
  \/ detail[p] # None /\ detail[p] \in R
  \/ In(view, p, R) \/ In(cache, p, R) \/ In(pass.list, p, R) \/ In(pass.views, p, R)

\* An owner's project, as far as the phone knows or a request says; and another's.
OwnersSide(p)  == Knows(p, {"OWNER"}) \/ Under("delete", p)
MembersSide(p) == Knows(p, {"MEMBER", "ADMIN"}) \/ Under("leave", p)

\* Nobody comes to own a project of another: what the phone knows of a project is
\* either all an owner's or all another's, and true to the server.
RolesKnown ==
  \A p \in Project :
    /\ OwnersSide(p) => srv[p].role \in {"OWNER", "gone"} /\ ~MembersSide(p)
    /\ MembersSide(p) => srv[p].role \notin {"free", "OWNER"}

\* A detail that is fetched is the role at the server.
LEMMA DetailMoves ==
  ASSUME Types, [Next]_vars, NEW p \in Project, detail'[p] # None
  PROVE  detail'[p] \in {detail[p], srv[p].role}
<1>1. CASE UNCHANGED detail
  BY <1>1
<1>2. CASE PassStart \/ Passing
  BY <1>1, <1>2, PassKeeps
<1>3. CASE Screens
  <2>1. ASSUME NEW q \in Project, Fetch(q) PROVE detail'[p] \in {detail[p], srv[p].role}
    BY <2>1 DEF Fetch, Types, ScreenTypes
  <2> QED
    BY <1>1, <1>3, <2>1 DEF Screens, Focus, GoBack, Type, CloseSheet, OpenDetail, OpenSheet, ui
<1>4. CASE Kill
  BY <1>4, NothingIsShown DEF Kill
<1> QED
  BY <1>1, <1>2, <1>3, <1>4, ElsewhereKeeps, RequestsKeep DEF Next, vars, ui

\* What is learnt of a role was known, or is so at the server.
LEMMA KnowsStep ==
  ASSUME Types, Steps, [Next]_vars, NEW p \in Project, NEW R, Knows(p, R)'
  PROVE  Knows(p, R) \/ srv[p].role \in R
<1>0. /\ view \in Shown /\ pass \in PassRec /\ cache \in [Project -> Cached \cup {None}]
      /\ pass.list \in Shown /\ pass.views \in Shown /\ ServerTypes
      /\ pass.todo = {q \in Project : pass.list[q] # None}
  BY PassParts DEF Types, ShownTypes, Shown
<1> DEFINE Known == Knows(p, R) \/ srv[p].role \in R
<1>1. detail'[p] # None /\ detail'[p] \in R => Known
  BY DetailMoves DEF Knows
<1>2. ~In(Nothing, p, R)
  BY NothingIsShown DEF In
<1>3. In(view, p, R) \/ In(cache, p, R) \/ In(pass.list, p, R) \/ In(pass.views, p, R) => Known
  BY DEF Knows
<1>4. ASSUME In(view', p, R) \/ In(cache', p, R) \/ In(pass'.list, p, R) \/ In(pass'.views, p, R) PROVE Known
  <2> HIDE DEF Known
  <2>1. CASE UNCHANGED <<view, cache, pass>>
    BY <1>3, <1>4, <2>1
  <2>2. CASE pass' = NoPass /\ UNCHANGED cache /\ (view' \in {view, pass.views, Nothing} \/ (In(view', p, R) => Known))
    BY <1>2, <1>3, <1>4, <2>2, NoPassIs DEF IsPass
  <2>3. CASE UNCHANGED <<view, cache>> /\ pass'.list \in {pass.list, Nothing} /\ pass'.views = pass.views
    BY <1>2, <1>3, <1>4, <2>3
  <2>4. CASE pass = NoPass /\ pass' = [NoPass EXCEPT !.pc = "identity"] /\ UNCHANGED <<view, cache>>
    <3>1. pass' = [pass EXCEPT !.pc = "identity"]
      BY <2>4
    <3>2. pass'.list = pass.list /\ pass'.views = pass.views
      BY <1>0, <3>1, Zenon DEF PassRec
    <3> QED
      BY <2>3, <2>4, <3>2
  <2>5. CASE pass' = [pass EXCEPT !.pc = "list"] /\ UNCHANGED <<view, cache>>
    <3>2. pass'.list = pass.list /\ pass'.views = pass.views
      BY <1>0, <2>5, Zenon DEF PassRec
    <3> QED
      BY <2>3, <2>5, <3>2
  <2>6. CASE Listing
    <3>1. In(pass'.list, p, R) => srv[p].role \in R
      BY <1>0, <2>6, BaseIs DEF Listing, IsPass, In
    <3>2. pass'.views = pass.views /\ UNCHANGED <<view, cache>>
      BY <2>6 DEF Listing, IsPass
    <3> QED
      BY <1>3, <1>4, <3>1, <3>2 DEF Known
  <2>7. CASE PassInvites
    <3>1. pass'.list = pass.list /\ pass'.views = pass.views
      BY <1>0, <2>7, Zenon DEF PassInvites, PassRec
    <3>2. In(cache', p, R) => In(cache, p, R)
      BY <2>7 DEF PassInvites, In
    <3>3. UNCHANGED view
      BY <2>7 DEF PassInvites, redux
    <3> QED
      BY <1>3, <1>4, <3>1, <3>2, <3>3
  <2>8. ASSUME NEW q \in Project, Reading(q) PROVE Known
    <3>1. PICK v, c :
            /\ IsPass(pass', pass.pc, [pass.list EXCEPT ![q] = None], pass.at, pass.inv, pass.todo \ {q},
                      [pass.views EXCEPT ![q] = v])
            /\ cache' = [cache EXCEPT ![q] = c] /\ pass.list[q] # None /\ UNCHANGED view
            /\ \/ v = None /\ c = None
               \/ v = [pass.list[q] EXCEPT !.awaiting = TRUE] /\ c = cache[q]
               \/ v = pass.list[q] /\ c = Kept(pass.list[q])
      BY <2>8 DEF Reading
    <3>2. pass'.list = [pass.list EXCEPT ![q] = None] /\ pass'.views = [pass.views EXCEPT ![q] = v]
      BY <3>1 DEF IsPass
    <3>3. pass.list[q] \in Summary
      BY <1>0, <3>1 DEF Shown
    <3>4. /\ v # None => v.role = pass.list[q].role
          /\ c # None => c = cache[q] \/ c.role = pass.list[q].role
      BY <3>1, <3>3, SummaryIs
    <3>5. In(pass'.list, p, R) => In(pass.list, p, R)
      BY <1>0, <3>2 DEF In, Shown
    <3>6. In(pass'.views, p, R) => In(pass.views, p, R) \/ In(pass.list, p, R)
      BY <1>0, <3>1, <3>2, <3>4 DEF In, Shown
    <3>7. In(cache', p, R) => In(cache, p, R) \/ In(pass.list, p, R)
      BY <1>0, <3>1, <3>4 DEF In
    <3> QED
      BY <1>3, <1>4, <3>1, <3>5, <3>6, <3>7
  <2>9. CASE PassApply
    <3>1. view' = pass.views /\ pass' = NoPass /\ UNCHANGED cache
      BY <2>9 DEF PassApply, Shows
    <3> QED
      BY <2>2, <3>1
  <2>10. CASE Shows([q \in Project |-> CachedView(q)]) /\ pass' = NoPass /\ UNCHANGED cache
    <3>1. view'[p] = CachedView(p)
      BY <2>10 DEF Shows
    <3>2. In(view', p, R) => In(cache, p, R)
      BY <1>0, <3>1, CachedIs DEF In
    <3> QED
      BY <1>3, <2>2, <2>10, <3>2
  <2> QED
    BY <2>1, <2>2, <2>3, <2>4, <2>5, <2>6, <2>7, <2>8, <2>9, <2>10 DEF Steps, ShownMove
<1> QED
  BY <1>1, <1>4 DEF Knows

\* A request under way was, or is made now.
LEMMA UnderMoves ==
  ASSUME Types, Steps, NEW d \in calls'
  PROVE  \/ \E c \in calls : c.op = d.op /\ c.p = d.p /\ (d.own => c.own)
         \/ FitsCall(d.op, d.p) /\ Ask(d.op, d.p) /\ AskedFrom(d.op, d.p)
<1>0. calls \subseteq Call /\ CallsMove
  BY DEF Types, CallTypes, Steps
<1>1. CASE d \in calls
  BY <1>1
<1>2. CASE d \in Unmounted
  BY <1>0, <1>2, UnmountedAre
<1>3. CASE d \in ResetCalls
  BY <1>0, <1>3, ResetAre
<1>4. ASSUME NEW c \in calls, NEW e, GoesOn(c, e)
      PROVE  \E b \in calls : b.op = d.op /\ b.p = d.p /\ (d.own => b.own)
  BY <1>4 DEF GoesOn
<1>5. ASSUME NEW op, NEW p, FitsCall(op, p), Ask(op, p), AskedFrom(op, p), d \notin calls
      PROVE  FitsCall(d.op, d.p) /\ Ask(d.op, d.p) /\ AskedFrom(d.op, d.p)
  <2>1. d = NewCall(op, p)
    BY <1>5 DEF Ask, NewCall
  <2>2. d.op = op /\ d.p = p
    BY <1>5, <2>1, CallIsNew
  <2> QED
    BY <1>5, <2>2
<1> QED
  BY <1>0, <1>1, <1>2, <1>3, <1>4, <1>5 DEF CallsMove

\* What the user is offered for a project is known.
LEMMA RoleIsKnown ==
  ASSUME Types, Found
  PROVE  /\ Role(screen, view, detail) \in Roles
         /\ Role(screen, view, detail) = "OWNER" => Knows(screen, {"OWNER"})
         /\ Role(screen, view, detail) # "OWNER" => Knows(screen, {"MEMBER", "ADMIN"})
<1>1. screen \in Project /\ view[screen] # None /\ view[screen] \in Summary /\ detail[screen] \in Roles \cup {None}
  BY DEF Found, Types, ScreenTypes, ShownTypes
<1>2. Role(screen, view, detail) = IF detail[screen] # None THEN detail[screen] ELSE view[screen].role
  BY <1>1 DEF Role
<1>3. view[screen].role \in Roles
  BY <1>1, SummaryIs
<1> QED
  BY <1>1, <1>2, <1>3 DEF Knows, In, Roles, Admins

\* The roles that are known stay apart: what is learnt was known, or is so at the server.
LEMMA RolesKnownStep ==
  ASSUME Types, Steps, [Next]_vars, RolesKnown
  PROVE  RolesKnown'
<1> SUFFICES ASSUME NEW p \in Project
             PROVE  /\ OwnersSide(p)' => srv'[p].role \in {"OWNER", "gone"} /\ ~MembersSide(p)'
                    /\ MembersSide(p)' => srv'[p].role \notin {"free", "OWNER"}
  BY DEF RolesKnown
<1>1. Moves(srv[p], srv'[p])
  BY DEF Steps, ServerStep, ServerMoves
<1>2. ASSUME NEW op \in {"delete", "leave"}, Under(op, p)'
      PROVE  Under(op, p) \/ (Found /\ p = screen /\ (op = "delete" <=> Role(screen, view, detail) = "OWNER"))
  <2>1. PICK d \in calls' : d.op = op /\ d.p = p
    BY <1>2 DEF Under
  <2>2. CASE AskedFrom(d.op, d.p)
    BY <2>1, <2>2 DEF AskedFrom
  <2> QED
    BY <2>1, <2>2, UnderMoves DEF Under
<1>3. OwnersSide(p)' => OwnersSide(p) \/ srv[p].role = "OWNER"
  BY <1>2, KnowsStep, RoleIsKnown DEF OwnersSide
<1>4. MembersSide(p)' => MembersSide(p) \/ srv[p].role \in {"MEMBER", "ADMIN"}
  BY <1>2, KnowsStep, RoleIsKnown DEF MembersSide
<1>5. /\ OwnersSide(p) => srv[p].role \in {"OWNER", "gone"} /\ ~MembersSide(p)
      /\ MembersSide(p) => srv[p].role \notin {"free", "OWNER"}
  BY DEF RolesKnown
<1> HIDE DEF RolesKnown
<1> QED
  BY <1>1, <1>3, <1>4, <1>5 DEF Moves

\* No request is made twice at a time: not for a project, nor from a sheet or a button.
Once ==
  \A c, d \in calls : c.op = d.op /\ (c.p = d.p \/ (c.own /\ d.own)) => c = d

\* A request is made only where none of its kind is under way.
LEMMA OnceStep ==
  ASSUME Types, Steps, Once
  PROVE  Once'
<1>0. calls \subseteq Call
  BY DEF Types, CallTypes
<1> SUFFICES ASSUME NEW d \in calls', NEW e \in calls', d.op = e.op, d.p = e.p \/ (d.own /\ e.own)
             PROVE  d = e
  BY DEF Once
<1>1. CASE d \in calls /\ e \in calls
  BY <1>1 DEF Once
<1>2. CASE calls' \subseteq Unmounted
  <2>1. PICK c \in calls : d = [c EXCEPT !.own = @ /\ c.op \in {"create", "accept", "decline", "republish"}]
    BY <1>2 DEF Unmounted
  <2>2. PICK b \in calls : e = [b EXCEPT !.own = @ /\ b.op \in {"create", "accept", "decline", "republish"}]
    BY <1>2 DEF Unmounted
  <2>3. c.op = d.op /\ c.p = d.p /\ (d.own => c.own)
    <3> DEFINE own == c.own /\ c.op \in {"create", "accept", "decline", "republish"}
    <3>1. c \in Call /\ own \in BOOLEAN /\ d = [c EXCEPT !.own = own] /\ (own => c.own)
      BY <1>0, <2>1
    <3> HIDE DEF own
    <3> QED
      BY <3>1, OwnChanges
  <2>4. b.op = e.op /\ b.p = e.p /\ (e.own => b.own)
    <3> DEFINE own == b.own /\ b.op \in {"create", "accept", "decline", "republish"}
    <3>1. b \in Call /\ own \in BOOLEAN /\ e = [b EXCEPT !.own = own] /\ (own => b.own)
      BY <1>0, <2>2
    <3> HIDE DEF own
    <3> QED
      BY <3>1, OwnChanges
  <2>5. b = c
    BY <2>3, <2>4 DEF Once
  <2> QED
    BY <2>1, <2>2, <2>5
<1>3. CASE calls' = ResetCalls
  <2>1. PICK c \in calls : d = [c EXCEPT !.own = @ /\ c.op # "invite"]
    BY <1>3 DEF ResetCalls
  <2>2. PICK b \in calls : e = [b EXCEPT !.own = @ /\ b.op # "invite"]
    BY <1>3 DEF ResetCalls
  <2>3. c.op = d.op /\ c.p = d.p /\ (d.own => c.own)
    <3> DEFINE own == c.own /\ c.op # "invite"
    <3>1. c \in Call /\ own \in BOOLEAN /\ d = [c EXCEPT !.own = own] /\ (own => c.own)
      BY <1>0, <2>1
    <3> HIDE DEF own
    <3> QED
      BY <3>1, OwnChanges
  <2>4. b.op = e.op /\ b.p = e.p /\ (e.own => b.own)
    <3> DEFINE own == b.own /\ b.op # "invite"
    <3>1. b \in Call /\ own \in BOOLEAN /\ e = [b EXCEPT !.own = own] /\ (own => b.own)
      BY <1>0, <2>2
    <3> HIDE DEF own
    <3> QED
      BY <3>1, OwnChanges
  <2>5. b = c
    BY <2>3, <2>4 DEF Once
  <2> QED
    BY <2>1, <2>2, <2>5
<1>4. ASSUME NEW c \in calls, NEW f, GoesOn(c, f) PROVE d = e
  <2>1. \A b \in calls' : b = f \/ (b \in calls /\ b # c)
    BY <1>4 DEF GoesOn
  <2>2. f.op = c.op /\ f.p = c.p /\ f.own = c.own
    BY <1>4 DEF GoesOn
  <2> QED
    BY <1>1, <2>1, <2>2 DEF Once
<1>5. ASSUME NEW op, NEW p, FitsCall(op, p), Ask(op, p) PROVE d = e
  <2>1. \A b \in calls' : b \in calls \/ b = NewCall(op, p)
    BY <1>5 DEF Ask, NewCall
  <2>2. NewCall(op, p).op = op /\ NewCall(op, p).p = p
    BY <1>5, CallIsNew
  <2>3. ~\E c \in calls : c.op = op /\ (c.p = p \/ c.own)
    BY <1>5 DEF Ask
  <2> QED
    BY <1>1, <2>1, <2>2, <2>3
<1> QED
  BY <1>1, <1>2, <1>3, <1>4, <1>5 DEF Steps, CallsMove

\* As long as its user does not leave a screen from under them, the end of a project,
\* or of a membership, is under way on its own screen.
Ending(c) == c.op \in {"delete", "leave"}
EndsHere  == \A c \in calls : Ending(c) => c.p = screen

\* There is one of them at most.
LEMMA OneEnds ==
  ASSUME Types, Once, RolesKnown, EndsHere, NEW c \in calls, NEW d \in calls, Ending(c), Ending(d)
  PROVE  c = d
<1>1. c.p = screen /\ d.p = screen
  BY DEF EndsHere
<1>2. c.p \in Project
  BY DEF Types, CallTypes, Call, Ending
<1>3. ~(Under("delete", c.p) /\ Under("leave", c.p))
  BY <1>2 DEF RolesKnown, OwnersSide, MembersSide
<1> QED
  BY <1>1, <1>3 DEF Once, Ending, Under

\* With it, they are all over.
LEMMA NoneEnds ==
  ASSUME Types, Once, RolesKnown, EndsHere, NEW c \in calls, Succeeds(c), Ending(c)
  PROVE  \A d \in calls' : ~Ending(d)
<1> SUFFICES ASSUME NEW d \in calls', Ending(d) PROVE FALSE
  OBVIOUS
<1>0. calls \subseteq Call
  BY DEF Types, CallTypes
<1>1. calls' = Unmounted \ {[c EXCEPT !.own = FALSE]}
  BY DEF Succeeds, Ending
<1>2. PICK b \in calls : d = [b EXCEPT !.own = @ /\ b.op \in {"create", "accept", "decline", "republish"}]
  BY <1>1 DEF Unmounted
<1> DEFINE own == b.own /\ b.op \in {"create", "accept", "decline", "republish"}
<1>3. own \in BOOLEAN /\ d = [b EXCEPT !.own = own] /\ b \in Call
  BY <1>0, <1>2
<1>4. b.op = d.op
  <2> HIDE DEF own
  <2> QED
    BY <1>3, OwnChanges
<1>5. own = FALSE /\ Ending(b)
  BY <1>4 DEF Ending
<1>6. b = c
  BY <1>5, OneEnds
<1> HIDE DEF own
<1> QED
  BY <1>1, <1>3, <1>5, <1>6

\* So they stay on their screen until they are over.
LEMMA EndsHereStep ==
  ASSUME Types, Steps, Once, RolesKnown, NoBack, EndsHere
  PROVE  EndsHere'
<1> SUFFICES ASSUME NEW d \in calls', Ending(d) PROVE d.p = screen'
  BY DEF EndsHere, Ending
<1>0. calls \subseteq Call
  BY DEF Types, CallTypes
<1>1. \/ \E c \in calls : c.op = d.op /\ c.p = d.p
      \/ d.p = screen /\ UNCHANGED screen
  <2>1. Ask(d.op, d.p) /\ AskedFrom(d.op, d.p) => d.p = screen /\ UNCHANGED screen
    BY DEF Ask, AskedFrom, Ending
  <2> QED
    BY <2>1, UnderMoves
<1>2. CASE UNCHANGED screen
  BY <1>1, <1>2 DEF EndsHere, Ending
<1>3. ASSUME NEW p \in Project, OpenDetail(p) PROVE FALSE
  <2>1. screen = None /\ d \in calls
    BY <1>3 DEF OpenDetail
  <2> QED
    BY <2>1 DEF EndsHere, Ending, Types, CallTypes
<1>4. CASE GoBack
  <2>1. ~(Under("delete", screen) \/ Under("leave", screen))
    BY <1>4 DEF GoBack, NoBack, May
  <2>2. calls' = Unmounted
    BY <1>4 DEF GoBack
  <2>3. PICK c \in calls : c.op = d.op /\ c.p = d.p
    BY <1>0, <2>2, UnmountedAre
  <2> QED
    BY <2>1, <2>3 DEF EndsHere, Ending, Under
<1>5. ASSUME NEW c \in calls, Succeeds(c), Ending(c) PROVE FALSE
  BY <1>5, NoneEnds
<1>6. ASSUME NEW c \in calls, Succeeds(c), ~Ending(c) PROVE UNCHANGED screen
  BY <1>6 DEF Succeeds, Ending
<1>7. CASE Kill
  BY <1>7 DEF Kill
<1> QED
  BY <1>2, <1>3, <1>4, <1>5, <1>6, <1>7, AsksKeep
     DEF Steps, SheetMove, OpenSheet, Type, CloseSheet, Submit

\* As long as its user neither closes a form under a request nor leaves its screen, what
\* was submitted from a sheet has it open.
SheetOps   == {"create", "update", "invite"}
SheetWaits == \A c \in calls : c.own /\ c.op \in SheetOps => sheet.kind = KindOf(c.op) /\ sheet.state = "sent"

\* The kinds of sheet tell the requests apart.
LEMMA KindsDiffer ==
  /\ KindOf("create") = "create" /\ KindOf("update") = "edit" /\ KindOf("invite") = "invite"
  /\ \A op \in SheetOps : KindOf(op) # "none" /\ \A o \in SheetOps : KindOf(o) = KindOf(op) => o = op
  BY DEF KindOf, SheetOps

\* That a request waits is kept by every step.
LEMMA SheetWaitsStep ==
  ASSUME Types, Steps, Once, EndsHere, NoBack, NoClose, SheetWaits
  PROVE  SheetWaits'
<1> SUFFICES ASSUME NEW d \in calls', d.own, d.op \in SheetOps
             PROVE  sheet'.kind = KindOf(d.op) /\ sheet'.state = "sent"
  BY DEF SheetWaits, KindOf, SheetOps
<1>0. calls \subseteq Call /\ sheet \in [kind : Kinds, state : States]
  BY DEF Types, CallTypes, ScreenTypes, SheetType, Kinds, States
<1> DEFINE Before == sheet.kind = KindOf(d.op) /\ sheet.state = "sent"
<1>1. Before \/ (sheet.kind = KindOf(d.op) /\ sheet'.kind = sheet.kind /\ sheet'.state = "sent")
  <2>1. Ask(d.op, d.p) /\ AskedFrom(d.op, d.p) =>
          sheet.kind = KindOf(d.op) /\ sheet'.kind = sheet.kind /\ sheet'.state = "sent"
    BY DEF AskedFrom, SheetOps
  <2>2. ASSUME NEW c \in calls, c.op = d.op, c.own PROVE Before
    BY <2>2 DEF SheetWaits
  <2> QED
    BY <2>1, <2>2, UnderMoves
<1> SUFFICES ASSUME Before PROVE sheet'.kind = KindOf(d.op) /\ sheet'.state = "sent"
  BY <1>1
<1>2. sheet # NoSheet
  BY NoSheetIs
<1>3. CASE UNCHANGED sheet
  BY <1>3
<1>4. CASE Refill(view', detail')
  <2>1. SheetType
    BY DEF Types, ScreenTypes
  <2> QED
    BY <1>4, <2>1, RefillIs
<1>5. ~GoBack /\ \A p \in Project : ~OpenDetail(p)
  BY <1>2 DEF OpenDetail, GoBack, OnScreen
<1>6. ASSUME NEW kind \in {"create", "edit", "invite"}, OpenSheet(kind) PROVE FALSE
  BY <1>2, <1>6 DEF OpenSheet
<1>7. CASE Type
  BY <1>7 DEF Type
<1>8. CASE CloseSheet
  <2>1. CASE sheet.kind = "invite"
    <3>1. calls' = ResetCalls
      BY <1>8, <2>1 DEF CloseSheet, Reset, ResetCalls
    <3> QED
      BY <1>0, <2>1, <3>1, ResetAre, KindsDiffer DEF SheetOps
  <2>2. CASE sheet.kind # "invite"
    <3>1. d \in calls /\ ~\E c \in calls : c.own /\ c.op \in {"create", "update"}
      BY <1>8, <2>2 DEF CloseSheet, NoClose, May
    <3> QED
      BY <2>2, <3>1, KindsDiffer DEF SheetOps
  <2> QED
    BY <2>1, <2>2
<1>9. CASE Submit
  <2>1. sheet' = [sheet EXCEPT !.state = "sent"] /\ "none" \in Kinds /\ "sent" \in States
    BY <1>9 DEF Submit, Kinds, States
  <2> QED
    BY <1>0, <2>1, SheetChanges
<1>10. ASSUME NEW c \in calls, Succeeds(c), Ending(c) PROVE FALSE
  <2>1. calls' \subseteq Unmounted
    BY <1>10 DEF Succeeds, Ending
  <2>2. d.op = "create"
    BY <1>0, <2>1, UnmountedAre DEF SheetOps
  <2>3. screen = None
    BY <2>2, KindsDiffer DEF Types, ScreenTypes, SheetType
  <2>4. c.p = screen /\ c.p # None
    BY <1>10 DEF EndsHere, Ending, Types, CallTypes
  <2> QED
    BY <2>3, <2>4
<1>11. ASSUME NEW c \in calls, Succeeds(c), ~Ending(c) PROVE UNCHANGED sheet
  <2>1. d \in calls /\ d # c
    BY <1>11 DEF Succeeds, Ending
  <2>2. ASSUME c.own, c.op \in SheetOps, sheet.kind = KindOf(c.op) PROVE FALSE
    <3>1. c.op = d.op
      BY <2>2, KindsDiffer
    <3> QED
      BY <2>1, <2>2, <3>1 DEF Once
  <2>3. <<c.op, sheet.kind>> \in {<<"create", "create">>, <<"update", "edit">>, <<"invite", "invite">>} =>
          c.op \in SheetOps /\ sheet.kind = KindOf(c.op)
    BY KindsDiffer DEF SheetOps
  <2> QED
    BY <1>11, <2>2, <2>3 DEF Succeeds, Ending
<1>12. CASE Kill
  BY <1>12 DEF Kill
<1> QED
  BY <1>3, <1>4, <1>5, <1>6, <1>7, <1>8, <1>9, <1>10, <1>11, <1>12 DEF Steps, SheetMove

\* A project's name only moves on, and what is shown, cached or read of it was its name
\* once; what a pass has read is of the network, and as new as what is shown.
Below(f, p, n)   == f[p] # None => f[p].name <= n
Fresher(f, v, p) == f[p] # None => ~f[p].cached /\ (v[p] # None => v[p].name <= f[p].name)
Named(p, n, v, c, list, views) ==
  /\ Below(v, p, n) /\ Below(c, p, n) /\ Below(list, p, n) /\ Below(views, p, n)
  /\ Fresher(list, v, p) /\ Fresher(views, v, p)
NamesGrow == \A p \in Project : Named(p, srv[p].name, view, cache, pass.list, pass.views)

\* Names are numbers, also after a step.
LEMMA NamesAre ==
  ASSUME Types, Steps, NEW p \in Project
  PROVE  /\ srv[p].name \in Nat /\ srv'[p].name \in Nat /\ srv[p].name <= srv'[p].name
         /\ view[p] # None => view[p].name \in Nat
         /\ cache[p] # None => cache[p].name \in Nat
         /\ pass.list[p] # None => pass.list[p].name \in Nat
         /\ pass.views[p] # None => pass.views[p].name \in Nat
<1>1. view[p] \in Summary \cup {None} /\ cache[p] \in Cached \cup {None}
      /\ pass.list[p] \in Summary \cup {None} /\ pass.views[p] \in Summary \cup {None}
  BY PassParts DEF Types, ShownTypes, Shown
<1>2. srv[p] \in OnServer /\ srv'[p] \in OnServer /\ srv[p].name <= srv'[p].name
  BY DEF Types, ServerTypes, Steps, ServerStep, ServerMoves, Moves
<1>3. \A c \in Cached : c.name \in Nat
  BY DEF Cached
<1> QED
  BY <1>1, <1>2, <1>3, SummaryIs, ServerParts

\* That names grow is kept by every step.
LEMMA NamesGrowStep ==
  ASSUME Types, Steps, NamesGrow
  PROVE  NamesGrow'
<1> SUFFICES ASSUME NEW p \in Project
             PROVE  Named(p, srv'[p].name, view', cache', pass'.list, pass'.views)
  BY DEF NamesGrow
<1>0. /\ view \in Shown /\ pass \in PassRec /\ cache \in [Project -> Cached \cup {None}]
      /\ pass.list \in Shown /\ pass.views \in Shown /\ ServerTypes
  BY PassParts DEF Types, ShownTypes, Shown
<1> DEFINE n == srv'[p].name
<1>1. Named(p, n, view, cache, pass.list, pass.views)
  <2>1. Named(p, srv[p].name, view, cache, pass.list, pass.views)
    BY DEF NamesGrow
  <2> QED
    BY <2>1, NamesAre, SMT DEF Named, Below
<1>2. ASSUME NEW v, NEW c, Below(v, p, n), Below(c, p, n) PROVE Named(p, n, v, c, Nothing, Nothing)
  BY <1>2, NothingIsShown DEF Named, Below, Fresher
<1>3. Below(Nothing, p, n)
  BY NothingIsShown DEF Below
<1>4. CASE pass' = NoPass /\ UNCHANGED cache /\ (view' \in {view, pass.views, Nothing} \/ Below(view', p, n))
  <2>1. pass'.list = Nothing /\ pass'.views = Nothing
    BY <1>4, NoPassIs DEF IsPass
  <2> QED
    BY <1>1, <1>2, <1>3, <1>4, <2>1 DEF Named
<1>5. CASE UNCHANGED <<view, cache>> /\ pass'.list = pass.list /\ pass'.views = pass.views
  BY <1>1, <1>5
<1>6. CASE pass = NoPass /\ pass' = [NoPass EXCEPT !.pc = "identity"] /\ UNCHANGED <<view, cache>>
  <2>1. pass' = [pass EXCEPT !.pc = "identity"]
    BY <1>6
  <2>2. pass'.list = pass.list /\ pass'.views = pass.views
    BY <1>0, <2>1, Zenon DEF PassRec
  <2> QED
    BY <1>5, <1>6, <2>2
<1>7. CASE pass' = [pass EXCEPT !.pc = "list"] /\ UNCHANGED <<view, cache>>
  <2>1. pass'.list = pass.list /\ pass'.views = pass.views
    BY <1>0, <1>7, Zenon DEF PassRec
  <2> QED
    BY <1>5, <1>7, <2>1
<1>8. CASE Listing
  <2>1. pass'.views = pass.views /\ UNCHANGED <<view, cache>>
    BY <1>8 DEF Listing, IsPass
  <2>2. pass'.list[p] # None => pass'.list[p].name = srv[p].name /\ ~pass'.list[p].cached
    <3>1. pass'.list[p] # None => pass'.list[p] = BaseView(p) /\ srv[p].role \in Roles
      BY <1>8 DEF Listing, IsPass
    <3> QED
      BY <1>0, <3>1, BaseIs
  <2>3. Named(p, srv[p].name, view, cache, pass.list, pass.views)
    BY DEF NamesGrow
  <2>4. Below(pass'.list, p, n) /\ Fresher(pass'.list, view, p)
    BY <2>2, <2>3, NamesAre DEF Named, Below, Fresher
  <2> QED
    BY <1>1, <2>1, <2>4 DEF Named
<1>9. CASE PassInvites
  <2>1. pass'.list = pass.list /\ pass'.views = pass.views
    BY <1>0, <1>9, Zenon DEF PassInvites, PassRec
  <2>2. cache'[p] # None => cache'[p] = cache[p]
    BY <1>9 DEF PassInvites
  <2>3. UNCHANGED view
    BY <1>9 DEF PassInvites, redux
  <2> QED
    BY <1>1, <2>1, <2>2, <2>3 DEF Named, Below
<1>10. ASSUME NEW q \in Project, Reading(q) PROVE Named(p, n, view', cache', pass'.list, pass'.views)
  <2>1. PICK v, c :
          /\ IsPass(pass', pass.pc, [pass.list EXCEPT ![q] = None], pass.at, pass.inv, pass.todo \ {q},
                    [pass.views EXCEPT ![q] = v])
          /\ cache' = [cache EXCEPT ![q] = c] /\ pass.list[q] # None /\ UNCHANGED view
          /\ \/ v = None /\ c = None
             \/ v = [pass.list[q] EXCEPT !.awaiting = TRUE] /\ c = cache[q]
             \/ v = pass.list[q] /\ c = Kept(pass.list[q])
    BY <1>10 DEF Reading
  <2>2. pass'.list = [pass.list EXCEPT ![q] = None] /\ pass'.views = [pass.views EXCEPT ![q] = v]
    BY <2>1 DEF IsPass
  <2>3. pass.list[q] \in Summary
    BY <1>0, <2>1 DEF Shown
  <2>4. /\ v # None => v.name = pass.list[q].name /\ v.cached = pass.list[q].cached
        /\ c # None => c = cache[q] \/ c.name = pass.list[q].name
    BY <2>1, <2>3, SummaryIs
  <2>5. CASE p # q
    <3>1. pass'.list[p] = pass.list[p] /\ pass'.views[p] = pass.views[p] /\ cache'[p] = cache[p]
      BY <1>0, <2>1, <2>2, <2>5 DEF Shown
    <3> QED
      BY <1>1, <2>1, <3>1 DEF Named, Below, Fresher
  <2>6. CASE p = q
    <3>1. pass'.list[p] = None /\ pass'.views[p] = v /\ cache'[p] = c
      BY <1>0, <2>1, <2>2, <2>6 DEF Shown
    <3>2. Below(pass'.list, p, n) /\ Fresher(pass'.list, view, p)
      BY <3>1 DEF Below, Fresher
    <3>3. Below(pass'.views, p, n) /\ Fresher(pass'.views, view, p)
      BY <1>1, <2>1, <2>4, <2>6, <3>1 DEF Named, Below, Fresher
    <3>4. Below(cache', p, n)
      BY <1>1, <2>1, <2>4, <2>6, <3>1 DEF Named, Below
    <3> QED
      BY <1>1, <2>1, <3>2, <3>3, <3>4 DEF Named
  <2> QED
    BY <2>5, <2>6
<1>11. CASE PassApply
  <2>1. view' = pass.views /\ pass' = NoPass /\ UNCHANGED cache
    BY <1>11 DEF PassApply, Shows
  <2> QED
    BY <1>4, <2>1
<1>12. CASE Shows([q \in Project |-> CachedView(q)]) /\ pass' = NoPass /\ UNCHANGED cache
  <2>1. view'[p] = CachedView(p)
    BY <1>12 DEF Shows
  <2>2. Below(view', p, n)
    BY <1>0, <1>1, <2>1, CachedIs DEF Named, Below
  <2> QED
    BY <1>4, <1>12, <2>2
<1> HIDE DEF n
<1> QED
  BY <1>4, <1>5, <1>6, <1>7, <1>8, <1>9, <1>10, <1>11, <1>12 DEF Steps, ShownMove, n

\* A project's name changes when another member renames it, or the user does.
LEMMA OtherMemberNames ==
  ASSUME ServerTypes, NEW p \in Project, NEW q \in Project, OtherMember(p),
         p # q \/ (NoReseed /\ sheet.kind = "edit" /\ screen = q)
  PROVE  srv'[q].name = srv[q].name
<1> DEFINE s == srv[p]
<1>1. s \in OnServer /\ srv \in [Project -> OnServer] /\ None \in Copies /\ 0 \in Nat
  BY CopiesAre, SMT DEF ServerTypes
<1>2. {"invited", "none", "gone", "ADMIN", "MEMBER"} \subseteq ServerRoles
  BY DEF ServerRoles, Roles, Admins
<1>3. ASSUME NEW t, Is(p, t), p = q => t.name = s.name PROVE srv'[q].name = srv[q].name
  <2>1. srv' = [srv EXCEPT ![p] = t]
    BY <1>3 DEF Is
  <2>2. srv'[q] = IF q = p THEN t ELSE srv[q]
    BY <1>1, <2>1
  <2> QED
    BY <1>3, <2>2
<1>4. ASSUME NEW role \in {"invited", "none", "ADMIN", "MEMBER"}, Is(p, [s EXCEPT !.role = role])
      PROVE  srv'[q].name = srv[q].name
  <2>0. role \in ServerRoles
    BY <1>2
  <2>1. [s EXCEPT !.role = role].name = s.name
    <3> HIDE DEF s
    <3> QED
      BY <1>1, <2>0, ServerChanges DEF IsMade
  <2> QED
    BY <1>3, <1>4, <2>1
<1>5. ASSUME NEW out \in {"none", "gone"}, Is(p, Out(s, out)) PROVE srv'[q].name = srv[q].name
  <2>0. out \in ServerRoles
    BY <1>2
  <2>1. Out(s, out).name = s.name
    <3> HIDE DEF s
    <3> QED
      BY <1>1, <2>0, OutIs DEF IsMade
  <2> QED
    BY <1>3, <1>5, <2>1
<1>6. CASE Is(p, [s EXCEPT !.name = @ + 1]) /\ (May("reseed") \/ ~(sheet.kind = "edit" /\ screen = p))
  <2>1. p # q
    BY <1>6 DEF NoReseed, May
  <2> QED
    BY <1>3, <1>6, <2>1
<1> QED
  BY <1>4, <1>5, <1>6 DEF OtherMember

\* So it does not while the edit sheet is open and nothing is submitted from it.
LEMMA NameHolds ==
  ASSUME Types, [Next]_vars, NoReseed, sheet.kind = "edit", ~Under("update", screen), screen \in Project
  PROVE  srv'[screen].name = srv[screen].name
<1>0. ServerTypes
  BY DEF Types
<1>1. CASE UNCHANGED srv
  BY <1>1
<1>2. ASSUME NEW p \in Project, OtherMember(p) PROVE srv'[screen].name = srv[screen].name
  BY <1>0, <1>2, OtherMemberNames
<1>3. ASSUME NEW p \in Project, OtherSeals(p) PROVE srv'[screen].name = srv[screen].name
  <2> DEFINE k == SealDek(p, pub)
             t == [srv[p] EXCEPT !.copy = k]
  <2>1. srv \in [Project -> OnServer] /\ k \in Copies /\ 0 \in Nat /\ "none" \in ServerRoles
    BY <1>0, CopiesAre, SMT DEF ServerTypes, ServerRoles
  <2>2. srv' = [srv EXCEPT ![p] = t]
    BY <1>3 DEF OtherSeals, Is
  <2> HIDE DEF k
  <2>3. t.name = srv[p].name
    BY <2>1, ServerChanges DEF IsMade
  <2> HIDE DEF t
  <2> QED
    BY <2>1, <2>2, <2>3
<1>4. ASSUME NEW c \in calls, Handle(c) PROVE srv'[screen].name = srv[screen].name
  <2>1. CASE c.p # None /\ Allowed(c.op, srv[c.p]) /\ Is(c.p, [Effect(c, srv[c.p]) EXCEPT !.rev = @ + 1])
    <3> DEFINE e == [Effect(c, srv[c.p]) EXCEPT !.rev = @ + 1]
    <3>1. c.p \in Project /\ c.op # "republish" /\ c \in Call
      BY <2>1, SMT DEF Types, CallTypes, Call
    <3>2. srv[c.p] \in OnServer /\ (srv[c.p].copy # None => srv[c.p].role \in Roles) /\ srv \in [Project -> OnServer]
      BY <1>0, <3>1 DEF ServerTypes
    <3>3. e.name = srv[c.p].name \/ c.op = "update"
      BY <2>1, <3>1, <3>2, EffectIs
    <3>4. srv' = [srv EXCEPT ![c.p] = e]
      BY <2>1 DEF Is
    <3> HIDE DEF e
    <3> QED
      BY <3>1, <3>2, <3>3, <3>4 DEF Under
  <2>2. CASE srv' = [p \in Project |-> [srv[p] EXCEPT !.copy = None]]
    <3>1. srv[screen] \in OnServer /\ 0 \in Nat /\ "none" \in ServerRoles
      BY <1>0, SMT DEF ServerTypes, ServerRoles
    <3>2. [srv[screen] EXCEPT !.copy = None].name = srv[screen].name
      BY <3>1, ServerChanges, CopiesAre DEF IsMade
    <3> QED
      BY <2>2, <3>2
  <2> QED
    BY <1>1, <1>4, <2>1, <2>2 DEF Handle
<1>5. CASE OtherKey
  BY <1>1, <1>5 DEF OtherKey
<1>6. CASE PassStart \/ Passing
  BY <1>1, <1>6, PassKeeps
<1>7. CASE Screens
  BY <1>1, <1>7, ScreensKeep DEF still
<1>8. CASE Requests
  <2>1. ASSUME NEW c \in calls, CallIdentity(c) \/ Succeeds(c) \/ FailsFor(c) PROVE UNCHANGED srv
    BY <2>1 DEF CallIdentity, Succeeds, FailsFor
  <2>2. UNCHANGED <<still, pull, screen, detail>> => UNCHANGED srv
    BY DEF still
  <2> QED
    BY <1>1, <1>4, <1>8, <2>1, <2>2, AsksKeep DEF Requests
<1>9. CASE Kill \/ UNCHANGED vars
  BY <1>1, <1>9 DEF Kill, vars
<1> QED
  BY <1>2, <1>3, <1>4, <1>5, <1>6, <1>7, <1>8, <1>9 DEF Next, Elsewhere

\* As long as no pass brings another name under it, the edit sheet shows the name that
\* the project has, until what is typed is submitted.
Same(f, p, n) == f[p] # None => f[p].name = n /\ ~f[p].cached
Editing(s)    == s.kind = "edit" /\ s.state # "sent"
EditStable ==
  Editing(sheet) =>
    /\ ~Under("update", screen)
    /\ \A f \in {view, pass.list, pass.views} : Same(f, screen, srv[screen].name)

\* The edit sheet opens with the name at the server.
LEMMA OpensStable ==
  ASSUME Types, NoReseed, NamesGrow, OpenSheet("edit")
  PROVE  EditStable'
<1>1. UNCHANGED <<srv, view, pass, screen, calls>>
  BY DEF OpenSheet, still, redux
<1>2. screen \in Project /\ view[screen] # None
  BY DEF OpenSheet, Found, Types, ScreenTypes
<1>3. view[screen].name = srv[screen].name /\ ~view[screen].cached /\ ~Under("update", screen)
  BY DEF OpenSheet, NoReseed, May
<1>4. Named(screen, srv[screen].name, view, cache, pass.list, pass.views)
  BY <1>2 DEF NamesGrow
<1>5. /\ view[screen].name \in Nat /\ (pass.list[screen] # None => pass.list[screen].name \in Nat)
      /\ (pass.views[screen] # None => pass.views[screen].name \in Nat)
  <2>1. view \in Shown /\ pass.list \in Shown /\ pass.views \in Shown
    BY PassParts DEF Types, ShownTypes, Shown
  <2>2. \A f \in Shown : f[screen] # None => f[screen] \in Summary
    BY <1>2 DEF Shown
  <2> QED
    BY <1>2, <2>1, <2>2, SummaryIs
<1>6. \A f \in {view, pass.list, pass.views} : Same(f, screen, srv[screen].name)
  BY <1>2, <1>3, <1>4, <1>5, SMT DEF Named, Below, Fresher, Same
<1>7. ~Under("update", screen)'
  BY <1>1, <1>3 DEF Under
<1> QED
  BY <1>1, <1>6, <1>7 DEF EditStable

\* While the sheet stays open, a pass brings that name again.
LEMMA StaysSame ==
  ASSUME Types, Steps, NoReseed, sheet.kind = "edit", NEW p \in Project,
         \A f \in {view, pass.list, pass.views} : Same(f, p, srv[p].name)
  PROVE  \A f \in {view', pass'.list, pass'.views} : Same(f, p, srv[p].name)
<1>0. /\ view \in Shown /\ pass \in PassRec /\ pass.list \in Shown /\ pass.views \in Shown /\ ServerTypes
  BY PassParts DEF Types, ShownTypes, Shown
<1> DEFINE n == srv[p].name
<1>1. Same(view, p, n) /\ Same(pass.list, p, n) /\ Same(pass.views, p, n) /\ Same(Nothing, p, n)
  BY NothingIsShown DEF Same
<1> SUFFICES Same(view', p, n) /\ Same(pass'.list, p, n) /\ Same(pass'.views, p, n)
  OBVIOUS
<1> HIDE DEF n
<1>2. CASE pass' = NoPass /\ view' \in {view, pass.views, Nothing}
  BY <1>1, <1>2, NoPassIs DEF IsPass
<1>3. CASE UNCHANGED view /\ pass'.list = pass.list /\ pass'.views = pass.views
  BY <1>1, <1>3
<1>4. CASE pass = NoPass /\ pass' = [NoPass EXCEPT !.pc = "identity"] /\ UNCHANGED view
  <2>1. pass' = [pass EXCEPT !.pc = "identity"]
    BY <1>4
  <2>2. pass'.list = pass.list /\ pass'.views = pass.views
    BY <1>0, <2>1, Zenon DEF PassRec
  <2> QED
    BY <1>3, <1>4, <2>2
<1>5. CASE pass' = [pass EXCEPT !.pc = "list"] /\ UNCHANGED view
  <2>1. pass'.list = pass.list /\ pass'.views = pass.views
    BY <1>0, <1>5, Zenon DEF PassRec
  <2> QED
    BY <1>3, <1>5, <2>1
<1>6. CASE Listing
  <2>1. pass'.views = pass.views /\ UNCHANGED view
    BY <1>6 DEF Listing, IsPass
  <2>2. pass'.list[p] # None => pass'.list[p] = BaseView(p) /\ srv[p].role \in Roles
    BY <1>6 DEF Listing, IsPass
  <2>3. Same(pass'.list, p, n)
    BY <1>0, <2>2, BaseIs DEF Same, n
  <2> QED
    BY <1>1, <2>1, <2>3
<1>7. CASE PassInvites
  <2>1. pass'.list = pass.list /\ pass'.views = pass.views
    BY <1>0, <1>7, Zenon DEF PassInvites, PassRec
  <2> QED
    BY <1>3, <1>7, <2>1 DEF PassInvites, redux
<1>8. ASSUME NEW q \in Project, Reading(q) PROVE Same(view', p, n) /\ Same(pass'.list, p, n) /\ Same(pass'.views, p, n)
  <2>1. PICK v, c :
          /\ IsPass(pass', pass.pc, [pass.list EXCEPT ![q] = None], pass.at, pass.inv, pass.todo \ {q},
                    [pass.views EXCEPT ![q] = v])
          /\ pass.list[q] # None /\ UNCHANGED view
          /\ \/ v = None /\ c = None
             \/ v = [pass.list[q] EXCEPT !.awaiting = TRUE] /\ c = cache[q]
             \/ v = pass.list[q] /\ c = Kept(pass.list[q])
    BY <1>8 DEF Reading
  <2>2. pass'.list = [pass.list EXCEPT ![q] = None] /\ pass'.views = [pass.views EXCEPT ![q] = v]
    BY <2>1 DEF IsPass
  <2>3. pass.list[q] \in Summary
    BY <1>0, <2>1 DEF Shown
  <2>4. v # None => v.name = pass.list[q].name /\ v.cached = pass.list[q].cached
    BY <2>1, <2>3, SummaryIs
  <2>5. pass'.list[p] \in {None, pass.list[p]} /\ pass'.views[p] = IF p = q THEN v ELSE pass.views[p]
    BY <1>0, <2>2 DEF Shown
  <2>6. Same(pass'.list, p, n)
    BY <1>1, <2>5 DEF Same
  <2>7. Same(pass'.views, p, n)
    BY <1>1, <2>1, <2>4, <2>5 DEF Same
  <2> QED
    BY <1>1, <2>1, <2>6, <2>7
<1>9. CASE PassApply
  <2>1. view' = pass.views /\ pass' = NoPass
    BY <1>9 DEF PassApply, Shows
  <2> QED
    BY <1>2, <2>1
<1> QED
  BY <1>2, <1>3, <1>4, <1>5, <1>6, <1>7, <1>8, <1>9 DEF Steps, ShownMove

\* That the edit sheet is stable is kept by every step.
LEMMA EditStableStep ==
  ASSUME Types, Steps, [Next]_vars, NoReseed, NamesGrow, EditStable
  PROVE  EditStable'
<1> SUFFICES ASSUME Editing(sheet') PROVE EditStable'
  BY DEF EditStable
<1>0. /\ sheet \in [kind : Kinds, state : States] /\ SheetType
      /\ NoSheet.kind = "none"
  BY NoSheetIs DEF Types, ScreenTypes, SheetType, Kinds, States
<1>1. CASE OpenSheet("edit")
  BY <1>1, OpensStable
<1>2. CASE Editing(sheet) /\ UNCHANGED screen
  <2>1. screen \in Project
    BY <1>2 DEF Editing, Types, ScreenTypes, SheetType
  <2>2. ~Under("update", screen) /\ (\A f \in {view, pass.list, pass.views} : Same(f, screen, srv[screen].name))
    BY <1>2 DEF EditStable
  <2>3. srv'[screen].name = srv[screen].name
    BY <1>2, <2>1, <2>2, NameHolds DEF Editing
  <2>4. \A f \in {view', pass'.list, pass'.views} : Same(f, screen, srv'[screen].name)
    BY <1>2, <2>1, <2>2, <2>3, StaysSame DEF Editing
  <2>5. ASSUME NEW d \in calls', d.op = "update", d.p = screen PROVE FALSE
    <3>1. ~AskedFrom(d.op, d.p)
      BY <2>5 DEF AskedFrom, Editing
    <3> QED
      BY <2>2, <2>5, <3>1, UnderMoves DEF Under
  <2> QED
    BY <1>2, <2>4, <2>5 DEF EditStable, Under
<1>3. CASE UNCHANGED <<screen, sheet>>
  BY <1>2, <1>3
<1>4. CASE UNCHANGED screen /\ Refill(view', detail')
  <2>1. Editing(sheet)
    BY <1>0, <1>4, RefillIs DEF Editing
  <2> QED
    BY <1>2, <1>4, <2>1
<1>5. sheet' # NoSheet
  BY <1>0 DEF Editing
<1>6. ~CloseSheet /\ ~Kill
  BY <1>5 DEF CloseSheet, Kill
<1>7. ~GoBack /\ \A p \in Project : ~OpenDetail(p)
  BY <1>5 DEF OpenDetail, GoBack, OnScreen
<1>8. ASSUME NEW kind \in {"create", "edit", "invite"}, OpenSheet(kind) PROVE kind = "edit"
  <2>1. sheet' = [NoSheet EXCEPT !.kind = kind] /\ kind \in Kinds /\ "filled" \in States
    BY <1>8 DEF OpenSheet, Kinds, States
  <2>2. sheet'.kind = kind
    BY <2>1, NoSheetIs, SheetChanges
  <2> QED
    BY <2>2 DEF Editing
<1>9. CASE Type
  <2>1. sheet' = [sheet EXCEPT !.state = "typed"] /\ "none" \in Kinds /\ "typed" \in States /\ screen' = screen
        /\ sheet.state = "filled"
    BY <1>9 DEF Type, Kinds, States
  <2>2. sheet'.kind = sheet.kind
    BY <1>0, <2>1, SheetChanges
  <2> QED
    BY <1>2, <2>1, <2>2 DEF Editing
<1>10. ~Submit
  <2>1. ASSUME Submit PROVE FALSE
    <3>1. sheet' = [sheet EXCEPT !.state = "sent"] /\ "none" \in Kinds /\ "sent" \in States
      BY <2>1 DEF Submit, Kinds, States
    <3> QED
      BY <1>0, <3>1, SheetChanges DEF Editing
  <2> QED
    BY <2>1
<1>11. ASSUME NEW c \in calls, Succeeds(c) PROVE UNCHANGED <<screen, sheet>>
  BY <1>5, <1>11 DEF Succeeds
<1> QED
  BY <1>1, <1>3, <1>4, <1>6, <1>7, <1>8, <1>9, <1>10, <1>11 DEF Steps, SheetMove

-----------------------------------------------------------------------------
(* The inductive invariant, and the properties.                            *)

ScreensInv ==
  /\ Types /\ CacheCovered /\ RolesKnown /\ Once /\ NamesGrow
  /\ NoBack => EndsHere
  /\ (NoBack /\ NoClose) => SheetWaits
  /\ NoReseed => EditStable

\* It holds at first.
LEMMA ScreensInvInit == Init => ScreensInv
<1> SUFFICES ASSUME Init PROVE ScreensInv
  OBVIOUS
<1>1. Types
  BY TypesInit
<1>2. calls = {} /\ sheet.kind = "none" /\ detail = Nothing /\ view = Nothing /\ cache = Nothing
      /\ pass.pc = "idle" /\ pass.list = Nothing /\ pass.views = Nothing
  BY NoPassIs, NoSheetIs DEF Init, IsPass
<1>3. \A p \in Project : Nothing[p] = None
  BY NothingIsShown
<1>4. CacheCovered /\ Once /\ EndsHere /\ SheetWaits /\ EditStable
  BY <1>2 DEF CacheCovered, Once, EndsHere, SheetWaits, EditStable, Editing
<1>5. NamesGrow
  BY <1>2, <1>3 DEF NamesGrow, Named, Below, Fresher
<1>6. RolesKnown
  BY <1>2, <1>3 DEF RolesKnown, OwnersSide, MembersSide, Knows, In, Under
<1> QED
  BY <1>1, <1>4, <1>5, <1>6 DEF ScreensInv

\* Every step keeps it.
LEMMA ScreensInvStep == ScreensInv /\ [Next]_vars => ScreensInv'
<1> SUFFICES ASSUME ScreensInv, [Next]_vars PROVE ScreensInv'
  OBVIOUS
<1>1. Types /\ CacheCovered /\ RolesKnown /\ Once /\ NamesGrow
  BY DEF ScreensInv
<1>2. Steps /\ Types'
  BY <1>1, StepsAre, TypesStep
<1>3. CacheCovered' /\ RolesKnown' /\ Once' /\ NamesGrow'
  BY <1>1, <1>2, CacheCoveredStep, RolesKnownStep, OnceStep, NamesGrowStep
<1>4. NoBack => EndsHere'
  BY <1>1, <1>2, EndsHereStep DEF ScreensInv
<1>5. (NoBack /\ NoClose) => SheetWaits'
  BY <1>1, <1>2, SheetWaitsStep DEF ScreensInv
<1>6. NoReseed => EditStable'
  BY <1>1, <1>2, EditStableStep DEF ScreensInv
<1>7. (NoBack' <=> NoBack) /\ (NoClose' <=> NoClose) /\ (NoReseed' <=> NoReseed)
  BY DEF NoBack, NoClose, NoReseed
<1> QED
  BY <1>2, <1>3, <1>4, <1>5, <1>6, <1>7 DEF ScreensInv

\* A screen stays until its user goes back, or its project is left.
LEMMA ScreenIsKept ==
  ASSUME ScreensInv, [Next]_vars, NoBack, ~Kill
  PROVE  ScreenStays
<1> SUFFICES ASSUME screen # None, screen' = None PROVE Left \/ GoBack
  BY DEF ScreenStays
<1>0. Types /\ Steps /\ Once /\ RolesKnown /\ EndsHere
  BY StepsAre DEF ScreensInv
<1>1. screen # screen'
  OBVIOUS
<1>2. \A p \in Project : ~OpenDetail(p)
  BY DEF OpenDetail
<1>3. ASSUME NEW c \in calls, Succeeds(c) PROVE Left
  <2>1. Ending(c)
    BY <1>1, <1>3 DEF Succeeds, Ending
  <2>2. c \notin calls'
    BY <1>0, <1>3, <2>1, NoneEnds
  <2> QED
    BY <1>0, <2>1, <2>2 DEF Left, EndsHere, Ending
<1> QED
  BY <1>0, <1>1, <1>2, <1>3, AsksKeep DEF Steps, SheetMove, OpenSheet, Type, CloseSheet, Submit

\* A sheet stays until it is closed, its request succeeds, or its project is left.
LEMMA SheetIsKept ==
  ASSUME ScreensInv, [Next]_vars, NoBack, NoClose, ~Kill
  PROVE  SheetStays
<1> SUFFICES ASSUME sheet.kind # "none", sheet'.kind = "none", ~CloseSheet
             PROVE  sheet.state = "sent" \/ Left
  BY DEF SheetStays
<1>0. Types /\ Steps /\ Once /\ RolesKnown /\ EndsHere /\ SheetWaits
  BY StepsAre DEF ScreensInv
<1>1. SheetType /\ sheet \in [kind : Kinds, state : States] /\ NoSheet.kind = "none" /\ sheet # sheet'
  BY <1>0, NoSheetIs DEF Types, ScreenTypes, SheetType, Kinds, States
<1>2. ~Refill(view', detail')
  BY <1>1, RefillIs
<1>3. /\ ~GoBack /\ \A p \in Project : ~OpenDetail(p)
      /\ \A kind \in {"create", "edit", "invite"} : ~OpenSheet(kind)
  BY <1>1 DEF OpenDetail, GoBack, OnScreen, OpenSheet
<1>4. ASSUME NEW st \in States, sheet' = [sheet EXCEPT !.state = st] PROVE FALSE
  <2>1. "none" \in Kinds
    BY DEF Kinds
  <2> QED
    BY <1>1, <1>4, <2>1, SheetChanges
<1>5. ~Type /\ ~Submit
  BY <1>4 DEF Type, Submit, States
<1>6. ASSUME NEW c \in calls, Succeeds(c) PROVE sheet.state = "sent" \/ Left
  <2>1. CASE Ending(c)
    <3>1. c \notin calls'
      BY <1>0, <1>6, <2>1, NoneEnds
    <3> QED
      BY <1>0, <2>1, <3>1 DEF Left, EndsHere, Ending
  <2>2. CASE ~Ending(c)
    <3>1. c.own /\ <<c.op, sheet.kind>> \in {<<"create", "create">>, <<"update", "edit">>, <<"invite", "invite">>}
      BY <1>1, <1>6, <2>2 DEF Succeeds, Ending
    <3>2. c.op \in SheetOps
      BY <3>1 DEF SheetOps
    <3> QED
      BY <1>0, <3>1, <3>2 DEF SheetWaits
  <2> QED
    BY <2>1, <2>2
<1> QED
  BY <1>0, <1>1, <1>2, <1>3, <1>5, <1>6 DEF Steps, SheetMove

\* What is typed into a sheet stays until its project is gone, or its user may not edit it.
LEMMA TypedIsKept ==
  ASSUME ScreensInv, [Next]_vars, NoReseed, ~Kill
  PROVE  TypedStays
<1> SUFFICES ASSUME sheet.state = "typed", sheet'.kind # "none", sheet'.state = "filled"
             PROVE  view'[screen] = None \/ ~CanAdminister(Role(screen, view', detail'))
  BY DEF TypedStays
<1>0. Types /\ Types' /\ Steps /\ EditStable /\ EditStable'
  BY StepsAre, ScreensInvStep DEF ScreensInv, NoReseed
<1>1. /\ SheetType /\ sheet \in [kind : Kinds, state : States] /\ sheet # sheet' /\ sheet # NoSheet
      /\ sheet' # NoSheet
  BY <1>0, NoSheetIs DEF Types, ScreenTypes, SheetType, Kinds, States
<1>2. /\ ~GoBack /\ \A p \in Project : ~OpenDetail(p)
      /\ \A kind \in {"create", "edit", "invite"} : ~OpenSheet(kind)
  BY <1>1 DEF OpenDetail, GoBack, OnScreen, OpenSheet
<1>3. ~Type /\ ~CloseSheet /\ \A c \in calls : ~Succeeds(c)
  BY <1>1 DEF Type, CloseSheet, Succeeds
<1>4. ~Submit
  <2>1. ASSUME Submit PROVE FALSE
    <3>1. sheet' = [sheet EXCEPT !.state = "sent"] /\ "none" \in Kinds /\ "sent" \in States
      BY <2>1 DEF Submit, Kinds, States
    <3> QED
      BY <1>1, <3>1, SheetChanges
  <2> QED
    BY <2>1
<1>5. UNCHANGED <<screen, srv>> /\ Refill(view', detail')
  BY <1>0, <1>1, <1>2, <1>3, <1>4 DEF Steps, SheetMove
<1>6. /\ sheet'.kind = sheet.kind
      /\ view'[screen] = None \/ ~CanAdminister(Role(screen, view', detail')) \/ Reseeds(view')
  BY <1>1, <1>5, RefillIs
<1>7. ASSUME Reseeds(view') PROVE FALSE
  <2>1. Editing(sheet) /\ Editing(sheet)'
    BY <1>6, <1>7 DEF Editing, Reseeds
  <2>2. screen \in Project
    BY <1>0, <2>1 DEF Editing, Types, ScreenTypes, SheetType
  <2>3. Same(view, screen, srv[screen].name)
    BY <1>0, <2>1 DEF EditStable
  <2>4. Same(view', screen, srv[screen].name)
    BY <1>0, <1>5, <2>1 DEF EditStable
  <2>5. /\ view[screen] \in Summary /\ view'[screen] \in Summary
    BY <1>0, <1>7, <2>2 DEF Reseeds, Types, ShownTypes
  <2>6. view[screen].cached \in BOOLEAN /\ view'[screen].cached \in BOOLEAN
    BY <2>5, SummaryIs
  <2> QED
    BY <1>7, <2>3, <2>4, <2>5, <2>6 DEF Same, Reseeds
<1> QED
  BY <1>6, <1>7

\* The process ends with nothing loaded.
LEMMA KillForgets == Kill => ~status'.loaded
  BY SMT DEF Kill, Fresh

\* What the phone knows of the projects is kept in order, whatever may meet a request.
THEOREM ScreensInvariance == Spec => []ScreensInv
<1>1. ScreensInv /\ UNCHANGED vars => ScreensInv'
  BY ScreensInvStep
<1> QED
  BY ScreensInvInit, ScreensInvStep, <1>1, PTL DEF Spec

\* Every variable keeps its type.
THEOREM ScreensTypes == Spec => []TypeOK
<1>1. ScreensInv => TypeOK
  BY TypesGive DEF ScreensInv
<1> QED
  BY <1>1, ScreensInvariance, PTL

\* A project that its user left or lost is not in the cache when a list is shown, and so
\* does not come back when the network is gone.  (sync, syncOne of projects.ts.)
THEOREM CacheIsAlwaysShown == Spec => CacheIsShown
<1>1. ScreensInv /\ [Next]_vars => [PassApply => \A p \in Project : cache'[p] # None => view'[p] # None]_vars
  BY ApplyShows DEF ScreensInv
<1> QED
  BY <1>1, ScreensInvariance, PTL DEF Spec, CacheIsShown

\* What its user was at stays, and each part of it by what may not meet a request: a
\* screen if no user leaves it under a request; a sheet if none closes it, either; what
\* is typed if no pass brings another name under it.  (useProjectDetailLogic,
\* useProjectFormSheetLogic.)
THEOREM KeptByPart ==
  Spec => [][status'.loaded => /\ NoBack => ScreenStays
                               /\ (NoBack /\ NoClose) => SheetStays
                               /\ NoReseed => TypedStays]_vars
<1> DEFINE A == status'.loaded => /\ NoBack => ScreenStays
                                  /\ (NoBack /\ NoClose) => SheetStays
                                  /\ NoReseed => TypedStays
<1>1. ScreensInv /\ [Next]_vars => A
  BY ScreenIsKept, SheetIsKept, TypedIsKept, KillForgets
<1>2. ScreensInv /\ [Next]_vars => [A]_vars
  BY <1>1
<1> HIDE DEF A
<1>3. Spec => [][A]_vars
  BY <1>2, ScreensInvariance, PTL DEF Spec
<1> QED
  BY <1>3 DEF A

\* So the screens are their user's when nothing meets a request under way.
THEOREM ScreenStaysUsers ==
  ASSUME Overlap = {}
  PROVE  Spec => ScreenIsUsers
<1> DEFINE A == status'.loaded => ScreenStays /\ SheetStays /\ TypedStays
<1>0. NoBack /\ NoClose /\ NoReseed
  BY DEF NoBack, NoClose, NoReseed
<1>1. ScreensInv /\ [Next]_vars => A
  BY <1>0, ScreenIsKept, SheetIsKept, TypedIsKept, KillForgets
<1>2. ScreensInv /\ [Next]_vars => [A]_vars
  BY <1>1
<1> HIDE DEF A
<1>3. Spec => [][A]_vars
  BY <1>2, ScreensInvariance, PTL DEF Spec
<1> QED
  BY <1>3 DEF A, ScreenIsUsers
=============================================================================
