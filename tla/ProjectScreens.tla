--------------------------- MODULE ProjectScreens ---------------------------
(***************************************************************************)
(* The projects of one user as the phone shows them: the list and the      *)
(* screen of a project (useProjectsLogic.ts, useProjectDetailLogic.ts),    *)
(* the sheets over them, the requests they make, and the pass that reads   *)
(* every project and caches it (projects.ts), among other members.  The    *)
(* hosts of a project and the sealing to its members are in ProjectSharing,*)
(* ensureIdentity is in IdentityBootstrap, the keys are ProjectCrypto's.   *)
(***************************************************************************)
EXTENDS Naturals, ProjectCrypto

CONSTANTS Project,   \* the projects, made or not made yet
          None,      \* no project, no summary
          MaxChance, \* bound: lost requests and answers, kills, what others do
          MaxAsked,  \* bound: requests the user makes
          Overlap    \* what may meet a sheet or a request under way (below)

(***************************************************************************)
(* "reseed": a pass may bring another name, or the cache with no           *)
(*           description, while the edit sheet is open.                    *)
(* "sheet":  the user may close a form whose request is under way.         *)
(* "back":   the user may leave a screen whose request is under way.       *)
(* The program excludes none of them.                                      *)
(***************************************************************************)
ASSUME BoundsAreNat   == {MaxChance, MaxAsked} \subseteq Nat
ASSUME OverlapIsKinds == Overlap \subseteq {"reseed", "sheet", "back"}

VARIABLES
  srv,     \* the projects at the server, as far as they concern the user
  pub,     \* the key the server publishes for the user
  mine,    \* the user's identity is in the phone's vault
  view,    \* Redux: the projects shown
  invites, \* Redux: the invites shown
  status,  \* Redux: loaded, offline, and the notice about the identity
  cache,   \* the projects on the phone's disk
  pass,    \* the pass under way
  pull,    \* a pass was asked for that has not begun
  screen,  \* the project whose screen is open; None: the list
  detail,  \* the details of projects, as last fetched
  sheet,   \* the sheet open over the screen
  calls,   \* the user's requests under way
  told,    \* the change to each project that was reported and no list has shown; 0: none
  chances, asked \* bounds

ids    == <<pub, mine>>
redux  == <<view, invites, status>>
ui     == <<screen, detail, sheet>>
bounds == <<chances, asked>>
vars   == <<srv, ids, redux, cache, pass, pull, ui, calls, told, bounds>>

Admins   == {"ADMIN", "OWNER"}
Roles    == Admins \cup {"MEMBER"}

\* The user's identity, since its upgrade and before, and one that is not the user's.
Own       == [x25519 |-> "own", mlkemSeed |-> "own"]
Classical == [Own EXCEPT !.mlkemSeed = NoSeed]
Foreign   == [x25519 |-> "foreign", mlkemSeed |-> "foreign"]
OwnKey    == EncodeIdentity(Own)
Keys      == {OwnKey, EncodeIdentity(Classical), EncodeIdentity(Foreign)}

\* What the server has: the user's role, the user's copy of the DEK (of p: p itself), the
\* name, and a count of the user's changes.
OnServer ==
  [role : Roles \cup {"free", "none", "invited", "gone"}, name : Nat, rev : Nat,
   copy : {SealDek(p, k) : p \in Project, k \in Keys} \cup {None}]
Summary  == [role : Roles, awaiting : BOOLEAN, name : Nat, cached : BOOLEAN]
Cached   == [role : Roles, name : Nat]
ASSUME NoneIsNone == None \notin Project \cup Summary

Call     == [op : {"create", "accept", "decline", "invite", "update", "delete",
                   "leave", "republish"},
             p : Project \cup {None}, st : {"identity", "sent", "done", "refused"},
             at : Nat, own : BOOLEAN]

Nothing == [p \in Project |-> None]
NoPass  == [pc |-> "idle", list |-> Nothing, at |-> [p \in Project |-> 0],
            inv |-> {}, todo |-> {}, views |-> Nothing]
NoSheet == [kind |-> "none", state |-> "filled"]
Fresh   == [loaded |-> FALSE, offline |-> FALSE, notices |-> {}]

TypeOK ==
  /\ srv \in [Project -> OnServer]
  /\ \A p \in Project : srv[p].copy # None => srv[p].role \in Roles
  /\ pub \in Keys /\ mine \in BOOLEAN
  /\ view \in [Project -> Summary \cup {None}] /\ invites \subseteq Project
  /\ status \in [loaded : BOOLEAN, offline : BOOLEAN, notices : SUBSET {"needsSync", "mismatch"}]
  /\ cache \in [Project -> Cached \cup {None}]
  /\ pass.pc \in {"idle", "identity", "list", "invites", "read"}
  /\ pass.list \in [Project -> Summary \cup {None}]
  /\ pass.todo = {p \in Project : pass.list[p] # None}
  /\ pass.views \in [Project -> Summary \cup {None}]
  /\ pull \in BOOLEAN
  /\ screen \in Project \cup {None}
  /\ detail \in [Project -> Roles \cup {None}]
  /\ sheet \in [kind : {"none", "create", "edit", "invite"}, state : {"filled", "typed", "sent"}]
  /\ (sheet.kind = "create" => screen = None) /\ (sheet.kind \in {"edit", "invite"} => screen # None)
  /\ calls \subseteq Call
  /\ \A p \in Project : told[p] \in 0..srv[p].rev

\* Each project is not made yet, the user's own, another's who invites the user, or one
\* the user administers; the identity is in the phone's vault or still to come.
Init ==
  /\ \E role \in [Project -> {"free", "OWNER", "ADMIN", "invited"}] :
       srv = [p \in Project |->
                [role |-> role[p], name |-> 0, rev |-> 0,
                 copy |-> IF role[p] \in Roles THEN SealDek(p, EncodeIdentity(Classical)) ELSE None]]
  /\ pub = OwnKey /\ mine = FALSE
  /\ view = Nothing /\ invites = {} /\ status = Fresh
  /\ cache = Nothing /\ pass = NoPass /\ pull = FALSE
  /\ screen = None /\ detail = Nothing /\ sheet = NoSheet
  /\ calls = {} /\ told = NoPass.at
  /\ chances = 0 /\ asked = 0

-----------------------------------------------------------------------------
May(kind) == kind \in Overlap
Chance == chances < MaxChance /\ chances' = chances + 1

CanAdminister(role) == role \in Admins

\* The role the screen goes by: the one fetched for it, or the list's.
Role(p, v, d) == IF d[p] # None THEN d[p] ELSE IF v[p] # None THEN v[p].role ELSE "none"

-----------------------------------------------------------------------------
(* The other members, and the user's other devices.                        *)

Is(p, s) == srv' = [srv EXCEPT ![p] = s]
Out(s, role) == [s EXCEPT !.role = role, !.copy = None]

OtherMember(p) ==
  /\ Chance
  /\ LET s == srv[p] IN
       \/ s.role = "none" /\ Is(p, [s EXCEPT !.role = "invited"])
       \/ s.role = "invited" /\ Is(p, [s EXCEPT !.role = "none"])
       \/ s.role \in {"MEMBER", "ADMIN"} /\ \E out \in {"none", "gone"} : Is(p, Out(s, out))
       \/ s.role = "MEMBER" /\ Is(p, [s EXCEPT !.role = "ADMIN"])
       \/ s.role = "ADMIN" /\ Is(p, [s EXCEPT !.role = "MEMBER"])
       \/ /\ s.role \in {"MEMBER", "ADMIN"} /\ Is(p, [s EXCEPT !.name = @ + 1])
          /\ May("reseed") \/ ~(sheet.kind = "edit" /\ screen = p)
  /\ UNCHANGED <<ids, redux, cache, pass, pull, ui, calls, told, asked>>

\* Another admin seals the DEK to the user.
OtherSeals(p) ==
  /\ srv[p].role \in {"MEMBER", "ADMIN"} /\ srv[p].copy = None
  /\ Is(p, [srv[p] EXCEPT !.copy = SealDek(p, pub)])
  /\ UNCHANGED <<ids, redux, cache, pass, pull, ui, calls, told, bounds>>

\* Another key is published for the user.
OtherKey ==
  /\ Chance
  /\ pub' = EncodeIdentity(Foreign)
  /\ UNCHANGED <<srv, mine, redux, cache, pass, pull, ui, calls, told, asked>>

-----------------------------------------------------------------------------
(* ensureIdentity, in a few words: IdentityBootstrap has it in full.       *)

\* The vault has the identity, or a sync brings it, or not; and the server publishes its
\* key or another.
Ensure(res) ==
  /\ mine' \in {mine, TRUE} /\ pub' = pub
  /\ res = IF ~mine' THEN "needsSync" ELSE IF pub # OwnKey THEN "mismatch" ELSE "ready"

-----------------------------------------------------------------------------
(* The pass: runProjectsSync, ProjectSyncEngine.sync.                       *)

\* A sheet over a project that is gone, or that its user may no longer administer, is
\* taken down with what was typed; the edit sheet is filled anew when the name or the
\* description it began with changes.
Reseeds(v) == sheet.kind = "edit" /\ v[screen] # None /\ view[screen] # None
              /\ <<v[screen].name, v[screen].cached>> # <<view[screen].name, view[screen].cached>>
Refill(v, d) ==
  sheet' = IF /\ sheet.kind \in {"edit", "invite"}
              /\ v[screen] = None \/ ~CanAdminister(Role(screen, v, d)) \/ Reseeds(v)
             THEN [sheet EXCEPT !.state = IF @ = "typed" THEN "filled" ELSE @] ELSE sheet

Shows(v) == view' = v /\ Refill(v, detail) /\ UNCHANGED <<screen, detail>>
NoShow   == UNCHANGED <<view, ui>>

\* A pass that throws settles offline and leaves what is shown.
Settles ==
  /\ status' = [status EXCEPT !.loaded = TRUE, !.offline = TRUE]
  /\ pass' = NoPass
  /\ NoShow /\ UNCHANGED invites

passing == <<pull, calls, asked>>
unlisted == <<passing, told>>

PassStart ==
  /\ pass = NoPass /\ pull
  /\ pass' = [NoPass EXCEPT !.pc = "identity"] /\ pull' = FALSE
  /\ UNCHANGED <<srv, ids, redux, cache, ui, calls, told, bounds>>

PassIdentity ==
  /\ pass.pc = "identity"
  /\ \/ \E res \in {"ready", "needsSync", "mismatch"} :
          /\ Ensure(res)
          /\ IF res = "ready"
               THEN pass' = [pass EXCEPT !.pc = "list"] /\ UNCHANGED status
               ELSE /\ pass' = NoPass
                    /\ status' = [status EXCEPT !.loaded = TRUE, !.notices = @ \cup {res}]
          /\ NoShow /\ UNCHANGED <<invites, chances>>
     \/ Settles /\ Chance /\ UNCHANGED ids
  /\ UNCHANGED <<srv, cache, unlisted>>

\* What was cached opened then with the identity, and opens again.
Loads(p) == cache[p] # None

\* The list; without it, what the cache holds and opens.
CachedView(p) ==
  IF ~Loads(p) THEN None
  ELSE [role |-> cache[p].role, awaiting |-> FALSE, name |-> cache[p].name, cached |-> TRUE]

BaseView(p) ==
  [role |-> srv[p].role, awaiting |-> srv[p].copy = None, name |-> srv[p].name, cached |-> FALSE]

PassList ==
  /\ pass.pc = "list"
  /\ LET listed == {p \in Project : srv[p].role \in Roles} IN
     \/ /\ pass' = [pass EXCEPT !.pc = "invites", !.todo = listed,
                      !.list = [p \in Project |-> IF p \in listed THEN BaseView(p) ELSE None],
                      !.at = [p \in Project |-> srv[p].rev]]
        /\ NoShow /\ UNCHANGED <<invites, status, chances>>
     \/ /\ Chance
        /\ May("reseed") \/ sheet.kind # "edit"
        /\ IF cache = Nothing THEN Settles
           ELSE /\ Shows([p \in Project |-> CachedView(p)])
                /\ invites' = {} /\ status' = [loaded |-> TRUE, offline |-> TRUE, notices |-> {}]
                /\ pass' = NoPass
  /\ UNCHANGED <<srv, ids, cache, unlisted>>

\* The invites, as far as they can be had; cached projects that are not on the list are
\* dropped.
PassInvites ==
  /\ pass.pc = "invites"
  /\ \/ /\ pass' = [pass EXCEPT !.pc = "read", !.inv = {p \in Project : srv[p].role = "invited"}]
        /\ UNCHANGED chances
     \/ pass' = [pass EXCEPT !.pc = "read"] /\ Chance
  /\ cache' = [p \in Project |-> IF pass.list[p] = None THEN None ELSE cache[p]]
  /\ UNCHANGED <<srv, ids, redux, unlisted, ui>>

\* The server has no vault of the project for its user, or no project.
NotFound(p) == srv[p].role \notin Roles

\* What is kept of a project that was read.
Kept(s) == [role |-> s.role, name |-> s.name]

\* There is a copy, the phone opens it, and the project with it.
Reads(p) == srv[p].copy # None /\ ReadProject(srv[p].copy, SealProject(p, Empty), Own) # Corrupt

\* One project of the list: it waits for its key, is gone by now, does not open, or is
\* read and cached.
Read(p, v, c) ==
  /\ pass' = [pass EXCEPT !.todo = @ \ {p}, !.list[p] = None, !.views[p] = v]
  /\ cache' = [cache EXCEPT ![p] = c]
  /\ NoShow /\ UNCHANGED <<invites, status, chances>>

\* Mutant of Vanished: a project that is gone is left out of the list only.
VanishedKeepsCache(p) == Read(p, None, cache[p])
Vanished(p) == Read(p, None, None)

PassRead(p) ==
  /\ pass.pc = "read" /\ p \in pass.todo
  /\ LET s == pass.list[p] IN
     \/ ~s.awaiting /\ NotFound(p) /\ Vanished(p)
     \/ /\ s.awaiting \/ ~(NotFound(p) \/ Reads(p))
        /\ Read(p, [s EXCEPT !.awaiting = TRUE], cache[p])
     \/ /\ ~s.awaiting /\ ~NotFound(p) /\ Reads(p)
        /\ Read(p, s, Kept(s))
     \/ ~s.awaiting /\ Settles /\ Chance /\ UNCHANGED cache
  /\ UNCHANGED <<srv, ids, unlisted>>

\* The list is shown.
PassApply ==
  /\ pass.pc = "read" /\ pass.todo = {}
  /\ Shows(pass.views) /\ invites' = pass.inv
  /\ told' = [p \in Project |-> IF pass.at[p] >= told[p] THEN 0 ELSE told[p]]
  /\ status' = [loaded |-> TRUE, offline |-> FALSE, notices |-> {}]
  /\ pass' = NoPass
  /\ UNCHANGED <<srv, ids, cache, passing, chances>>

-----------------------------------------------------------------------------
(* The screens.                                                            *)

still == <<srv, ids, redux, cache, pass, told, chances>>

\* A skeleton stands for the list before any pass has told of it, and is then replaced.
Skeleton == screen = None /\ ~status.loaded /\ pass # NoPass

\* The screen of a project that is listed; of one that is not, it shows no more than that.
Found == screen # None /\ view[screen] # None

\* The Projects tab gets the focus, also from a project's screen.
Focus ==
  /\ screen = None /\ ~pull /\ pull' = TRUE
  /\ UNCHANGED <<still, ui, calls, asked>>

OpenDetail(p) ==
  /\ screen = None /\ sheet = NoSheet /\ view[p] # None
  /\ screen' = p
  /\ UNCHANGED <<still, pull, detail, sheet, calls, asked>>

\* A fetch of the details: a user who is no member gets none, and keeps the old ones.
Fetch(p) ==
  /\ screen = p /\ srv[p].role \in Roles
  /\ detail' = [detail EXCEPT ![p] = srv[p].role]
  /\ Refill(view, detail')
  /\ UNCHANGED <<still, pull, screen, calls, asked>>

Under(op, p) == \E c \in calls : c.op = op /\ c.p = p

\* Leaving the screen unmounts it: requests under way have no sheet to close any more.
Unmounted == {[c EXCEPT !.own = @ /\ c.op \in {"create", "accept", "decline", "republish"}] : c \in calls}

\* Mutant of OnScreen: the screen is left from under a sheet.
OnScreenUnder == screen # None
OnScreen == screen # None /\ sheet = NoSheet

GoBack ==
  /\ OnScreen
  /\ May("back") \/ ~(Under("delete", screen) \/ Under("leave", screen))
  /\ screen' = None /\ calls' = Unmounted /\ pull' = TRUE
  /\ UNCHANGED <<still, detail, sheet, asked>>

\* The sheets: filled when they open, typed into, closed.
OpenSheet(kind) ==
  /\ sheet = NoSheet
  /\ IF kind = "create" THEN screen = None
     ELSE /\ Found
          /\ CanAdminister(Role(screen, view, detail))
  /\ kind = "edit" => May("reseed") \/ ( /\ view[screen].name = srv[screen].name
                                         /\ ~view[screen].cached
                                         /\ ~Under("update", screen) )
  /\ sheet' = [NoSheet EXCEPT !.kind = kind]
  /\ UNCHANGED <<still, pull, screen, detail, calls, asked>>

Type ==
  /\ sheet.kind # "none" /\ sheet.state = "filled"
  /\ sheet' = [sheet EXCEPT !.state = "typed"]
  /\ UNCHANGED <<still, pull, screen, detail, calls, asked>>

\* Mutant of Reset: an invite under way still finds the sheet.
ResetKeeps == calls' = calls
\* Closing the invite sheet detaches it from an invite under way.
Reset == calls' = {[c EXCEPT !.own = @ /\ c.op # "invite"] : c \in calls}

CloseSheet ==
  /\ sheet.kind # "none"
  /\ \/ sheet.kind = "invite" /\ Reset
     \/ /\ sheet.kind # "invite" /\ UNCHANGED calls
        /\ May("sheet") \/ ~\E c \in calls : c.own /\ c.op \in {"create", "update"}
  /\ sheet' = NoSheet
  /\ UNCHANGED <<still, pull, screen, detail, asked>>

-----------------------------------------------------------------------------
(* The user's requests.                                                    *)

Ask(op, p) ==
  /\ asked < MaxAsked /\ asked' = asked + 1
  /\ ~\E c \in calls : c.op = op /\ (c.p = p \/ c.own)
  /\ calls' = calls \cup {[op |-> op, p |-> p, st |-> IF op = "create" THEN "identity" ELSE "sent",
                           at |-> 0, own |-> TRUE]}
  /\ UNCHANGED <<still, pull, screen, detail>>

\* The card of an invite, and its two buttons.
Invited(p) == screen = None /\ sheet = NoSheet /\ p \in invites
Respond(p) ==
  /\ Invited(p)
  /\ \E op \in {"accept", "decline"} : Ask(op, p)
  /\ UNCHANGED sheet

\* The warning stays above the list, with one button, until the keys agree.
Warned    == screen = None /\ "mismatch" \in status.notices
Republish == Warned /\ Ask("republish", None) /\ UNCHANGED sheet

\* The three sheets, each with its request.
SubmitCreate ==
  /\ sheet.kind = "create" /\ sheet.state # "filled"
  /\ \E p \in Project : srv[p].role = "free" /\ Ask("create", p)
SubmitEdit   == sheet.kind = "edit" /\ Ask("update", screen)
SubmitInvite == sheet.kind = "invite" /\ sheet.state # "filled" /\ Ask("invite", screen)

Submit ==
  /\ SubmitCreate \/ SubmitEdit \/ SubmitInvite
  /\ sheet' = [sheet EXCEPT !.state = "sent"]

\* The end of a project, and of a membership, which the user confirms.
Delete == Ask("delete", screen)
Leave  == Ask("leave", screen)

Manage ==
  /\ OnScreen /\ Found
  /\ IF Role(screen, view, detail) = "OWNER" THEN Delete ELSE Leave
  /\ UNCHANGED sheet

calling == <<redux, cache, pass, pull, ui, told, asked>>

\* A project is made only with an identity; its DEK is sealed to that.
CallIdentity(c) ==
  /\ c \in calls /\ c.st = "identity"
  /\ \E res \in {"ready", "needsSync", "mismatch"} :
       /\ Ensure(res)
       /\ calls' = (calls \ {c}) \cup {[c EXCEPT !.st = IF res = "ready" THEN "sent" ELSE "refused"]}
  /\ UNCHANGED <<srv, calling, chances>>

\* What the server makes of a request, if it takes it.
Allowed(op, s) ==
  CASE op = "create" -> s.role = "free"
    [] op \in {"accept", "decline"} -> s.role = "invited"
    [] op \in {"invite", "update"} -> s.role \in Admins
    [] op = "delete" -> s.role = "OWNER"
    [] op = "leave"  -> s.role \in {"MEMBER", "ADMIN"}

Effect(c, s) ==
  CASE c.op = "create"  -> [s EXCEPT !.role = "OWNER", !.copy = BuildCreateProject(c.p, OwnKey).wrappedDek]
    [] c.op = "accept"  -> [s EXCEPT !.role = "MEMBER"]
    [] c.op = "decline" -> [s EXCEPT !.role = "none"]
    [] c.op = "invite"  -> s
    [] c.op = "update"  -> [s EXCEPT !.name = @ + 1]
    [] c.op = "delete"  -> Out(s, "gone")
    [] c.op = "leave"   -> Out(s, "none")

Handle(c) ==
  /\ c \in calls /\ c.st = "sent"
  /\ \/ /\ c.p # None /\ Allowed(c.op, srv[c.p]) /\ Is(c.p, [Effect(c, srv[c.p]) EXCEPT !.rev = @ + 1])
        /\ calls' = (calls \ {c}) \cup {[c EXCEPT !.st = "done", !.at = srv[c.p].rev + 1]}
        /\ UNCHANGED <<pub, chances>>
     \/ /\ c.op = "republish" /\ pub' = OwnKey
        /\ srv' = [p \in Project |-> [srv[p] EXCEPT !.copy = None]]
        /\ calls' = (calls \ {c}) \cup {[c EXCEPT !.st = "done"]}
        /\ UNCHANGED chances
     \/ /\ \/ /\ c.op = "invite" \/ (c.p # None /\ ~Allowed(c.op, srv[c.p]))
              /\ UNCHANGED chances
           \/ Chance
        /\ calls' = (calls \ {c}) \cup {[c EXCEPT !.st = "refused"]}
        /\ UNCHANGED <<srv, pub>>
  /\ UNCHANGED <<mine, calling>>

\* It has succeeded: a pass is asked for, and its sheet or screen is left.
\* Mutant of Pulls: not when a project was left.
PullsNotForLeave(c) == pull' = (pull \/ c.op # "leave")
Pulls(c) == pull' = TRUE

Succeeds(c) ==
  /\ c \in calls /\ c.st = "done"
  /\ Pulls(c)
  /\ IF c.p # None /\ c.at > told[c.p]
       THEN told' = [told EXCEPT ![c.p] = c.at] ELSE UNCHANGED told
  /\ \/ /\ c.op \in {"delete", "leave"}
        /\ screen' = None /\ sheet' = NoSheet /\ calls' = Unmounted \ {[c EXCEPT !.own = FALSE]}
     \/ /\ c.op \notin {"delete", "leave"}
        /\ calls' = calls \ {c} /\ UNCHANGED screen
        /\ sheet' = IF c.own /\ <<c.op, sheet.kind>> \in {<<"create", "create">>, <<"update", "edit">>,
                                                          <<"invite", "invite">>}
                      THEN NoSheet ELSE sheet
  /\ IF c.op = "republish" THEN status' = [status EXCEPT !.notices = @ \ {"mismatch"}]
     ELSE UNCHANGED status
  /\ UNCHANGED <<srv, pub, mine, view, invites, cache, pass, detail, bounds>>

\* It has failed, or its answer is lost.
FailsFor(c) ==
  /\ c \in calls
  /\ \/ c.st = "refused" /\ UNCHANGED chances
     \/ c.st = "done" /\ Chance
  /\ calls' = calls \ {c}
  /\ pull' = (pull \/ c.op \in {"accept", "decline"})
  /\ UNCHANGED <<srv, ids, redux, cache, pass, ui, told, asked>>

\* The process ends.
Kill ==
  /\ Chance
  /\ view' = Nothing /\ invites' = {} /\ status' = Fresh /\ told' = NoPass.at
  /\ pass' = NoPass /\ pull' = FALSE
  /\ screen' = None /\ detail' = Nothing /\ sheet' = NoSheet /\ calls' = {}
  /\ UNCHANGED <<srv, pub, mine, cache, asked>>

-----------------------------------------------------------------------------
Elsewhere == OtherKey \/ \E p \in Project : OtherMember(p) \/ OtherSeals(p)
Passing   == \/ PassIdentity \/ PassList \/ PassInvites \/ PassApply
             \/ \E p \in Project : PassRead(p)
Screens   == \/ Focus \/ GoBack \/ Type \/ CloseSheet
             \/ \E p \in Project : OpenDetail(p) \/ Fetch(p)
             \/ \E kind \in {"create", "edit", "invite"} : OpenSheet(kind)
Requests  == \/ Republish \/ Submit \/ Manage
             \/ \E p \in Project : Respond(p)
             \/ \E c \in calls : CallIdentity(c) \/ Handle(c) \/ Succeeds(c) \/ FailsFor(c)

Next == Elsewhere \/ PassStart \/ Passing \/ Screens \/ Requests \/ Kill
Spec == Init /\ [][Next]_vars

\* A pass that was asked for begins, and its requests are answered or fail.
FairSpec == Spec /\ WF_vars(PassStart) /\ WF_vars(Passing)
-----------------------------------------------------------------------------
(* Properties.                                                             *)

\* What a request of the user is reported to have changed comes to be what the list
\* shows, or the pass after it fails: also when a pass that read the list before it is
\* under way.  And the list does not stay a skeleton.  (onSuccess and onSettled of
\* useProjectsLogic and useProjectDetailLogic; showLoading.)
ListIsCurrent ==
  /\ \A p \in Project : told[p] # 0 ~> (told[p] = 0 \/ status.offline \/ status.notices # {})
  /\ Skeleton ~> ~Skeleton

\* What is cached when a list is shown is on that list: a project that its user left or
\* lost does not come back when the network is gone.  (sync, syncOne.)
CacheIsShown == [][PassApply => \A p \in Project : cache'[p] # None => view'[p] # None]_vars

\* What the user was at stays: a screen until its user leaves it or its project; a sheet
\* until its user closes it, what was submitted from it succeeds, or its project is gone;
\* and what was typed into it until its project is gone, or its user may not edit it.
Left == \E c \in calls \ calls' : c.op \in {"delete", "leave"} /\ c.p = screen
ScreenStays == screen # None /\ screen' = None => Left \/ GoBack
SheetStays  == sheet.kind # "none" /\ sheet'.kind = "none" =>
                 sheet.state = "sent" \/ Left \/ CloseSheet
TypedStays  == sheet.state = "typed" /\ sheet'.kind # "none" /\ sheet'.state = "filled" =>
                 view'[screen] = None \/ ~CanAdminister(Role(screen, view', detail'))

\* The three, while the process lasts.  (useProjectFormSheetLogic: "the initial values
\* are stable".)
ScreenIsUsers == [][status'.loaded => ScreenStays /\ SheetStays /\ TypedStays]_vars
=============================================================================
