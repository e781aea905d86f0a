------------------------------ MODULE HostsTab ------------------------------
(***************************************************************************)
(* The Hosts tab and a host's own screen: what they list of the two slices *)
(* (features/hosts, app/(tabs)/hosts), when they say that there is nothing *)
(* yet, and the reachability of the hosts, which they probe                *)
(* (useHostProbes, probesSlice).  A pass is known here by when it begins,  *)
(* when it looks at the session for the last time, tells the slice and     *)
(* ends (PersonalSync, SyncOrchestrator); a document by its hosts          *)
(* (HostDocument).  The effects of a render are a step after it.           *)
(***************************************************************************)
EXTENDS Naturals, FiniteSets

CONSTANTS Mine,     \* hosts that may be personal ones
          Theirs,   \* hosts that may be in a project that is keyed
          MaxEdits, \* bound: changes of a host's address
          Meanwhile \* what may meet a probe, a pass or an adoption (below)

(***************************************************************************)
(* "adopt": the vault may be locked while a document is on its way to it   *)
(*          that nothing will stop: adopt awaits the metadata, or an       *)
(*          identity bootstrap has captured the session.                   *)
(* "pass":  ... while a pass over the projects is under way.               *)
(* "probe": ... while a probe is out.                                      *)
(* "throw": a probe may throw: the native module of the build is old.      *)
(* The program excludes none of it.                                        *)
(***************************************************************************)
ASSUME MeanwhileIsKinds == Meanwhile \subseteq {"adopt", "pass", "probe", "throw"}
ASSUME BoundIsNat     == MaxEdits \in Nat

Host == Mine \cup Theirs

VARIABLES
  open,    \* the vault is unlocked
  mine,    \* Redux: the personal hosts
  theirs,  \* Redux: the hosts of the projects
  syncing, \* Redux: a pass over the personal vault is under way
  sync,    \* where that pass is
  minting, \* a bootstrap of the identity is under way that began before a lock
  pass,    \* where the pass over the projects is
  rerun,   \* it was asked for again
  phase,   \* Redux: what it shows of it
  loaded,  \* Redux: one has told its outcome
  screen,  \* the tab's stack: the list, or a host on it; in front or not
  due,     \* the effects the last render left to run
  results, \* Redux: the reachability of a host, and whether it is that of its address
  swept,   \* Redux: when the last sweep began
  flying,  \* probes that have not answered, and whether they will tell the truth
  edits    \* bound

lists    == <<open, mine, theirs>>
bringing == <<syncing, sync, minting>>
projs    == <<pass, rerun, phase, loaded>>
passes   == <<syncing, sync, minting, pass, rerun, phase, loaded>>
probes   == <<results, swept, flying>>
tabVars  == <<lists, passes, screen, due, probes, edits>>

\* The stack: the list, or the screen of a host as one of a project or not.
List    == [at |-> "list", front |-> TRUE]
Detail  == [at : {"detail"}, host : Host, project : BOOLEAN, front : BOOLEAN]
Screens == [at : {"list"}, front : BOOLEAN] \cup Detail

\* The reachability slice at the start and after a lock.
Unprobed == [h \in Host |-> "unknown"]

TabTypeOK ==
  /\ open \in BOOLEAN /\ mine \subseteq Mine /\ theirs \subseteq Theirs
  /\ syncing \in BOOLEAN /\ sync \in {"idle", "reading", "adopting"} /\ minting \in BOOLEAN
  /\ pass \in {"idle", "reading", "told"} /\ rerun \in BOOLEAN
  /\ phase \in {"idle", "syncing"} /\ loaded \in BOOLEAN
  /\ screen \in Screens
  /\ due \in {"nothing", "targets", "focus"}
  /\ results \in [Host -> {"unknown", "true", "false"}]
  /\ swept \in {"never", "lately", "long ago"}
  /\ flying \subseteq Host \X {"true", "false"}
  /\ edits \in 0..MaxEdits

-----------------------------------------------------------------------------
(* What the screens show.                                                  *)

\* A search leaves the hosts it matches.
Filtered(hosts, matching) == hosts \cap matching

\* The sections of the list: the projects first, then the personal hosts.
Grouped(personal, projects) == <<projects, personal>>
Sections(matching) == Grouped(Filtered(mine, matching), Filtered(theirs, matching))
HasMatches(matching) == Sections(matching) # <<{}, {}>>

HasHosts == mine # {} \/ theirs # {}

\* The first pass over the projects is under way, as far as the slice knows.
FirstPass == ~loaded /\ phase = "syncing"

\* A skeleton stands for the list while something may still come.
Skeleton == ~HasHosts /\ (FirstPass \/ (mine = {} /\ syncing))

\* What the tab shows under its title.
Body(matching) ==
  CASE Skeleton                           -> "skeleton"
    [] ~HasHosts /\ ~Skeleton             -> "No hosts yet"
    [] HasHosts /\ ~HasMatches(matching)  -> "No matches"
    [] OTHER                              -> "sections"

\* Under the personal hosts, the place of the projects' that are to come.
MoreToCome == mine # {} /\ FirstPass

\* The host of the screen, where it is still listed; the hosts on the screen.
Resolved(s) == {h \in {s.host} : h \in IF s.project THEN theirs ELSE mine}
OnScreen    == IF screen.at = "list" THEN mine \cup theirs ELSE Resolved(screen)

\* The menu of a row, and what the screen of a host offers: nothing once it is gone.
\* A host of a project is only to be connected to.
MenuOffers(project) ==
  IF project THEN {"connect"} ELSE {"connect", "edit", "move", "delete"}
ScreenOffers(s) ==
  CASE Resolved(s) = {}                -> {}
    [] Resolved(s) # {} /\ s.project  -> {"connect"}
    [] OTHER                           -> {"connect", "edit", "delete"}

-----------------------------------------------------------------------------
TabInit ==
  /\ open = FALSE /\ mine = {} /\ theirs = {}
  /\ syncing = FALSE /\ sync = "idle" /\ minting = FALSE
  /\ pass = "idle" /\ rerun = FALSE /\ phase = "idle" /\ loaded = FALSE
  /\ screen = List /\ due = "nothing"
  /\ results = Unprobed /\ swept = "never" /\ flying = {} /\ edits = 0

\* A list that is loaded anew gives the screens that are made of it new targets.
Renders(list) ==
  due' = IF /\ open /\ screen.front /\ due = "nothing"
            /\ screen.at = "list" \/ (screen.project <=> list = "theirs")
           THEN "targets" ELSE due

Focus == due' = "focus"

Unlock ==
  /\ ~open /\ open' = TRUE
  /\ mine' \in SUBSET Mine
  /\ screen' = List /\ Focus
  /\ UNCHANGED <<theirs, passes, probes, edits>>

\* lockVault: the slices are emptied and the tabs go; probes, passes and a bootstrap go on.
\* What a probe of this session finds is not of the next.
TabLock ==
  /\ open /\ open' = FALSE
  /\ "adopt" \in Meanwhile \/ sync # "adopting"
  /\ minting' \in IF "adopt" \in Meanwhile THEN {minting, TRUE} ELSE {FALSE}
  /\ "pass" \in Meanwhile \/ pass = "idle"
  /\ "probe" \in Meanwhile \/ flying = {}
  /\ mine' = {} /\ theirs' = {}
  /\ phase' = "idle" /\ loaded' = FALSE /\ syncing' = FALSE
  /\ screen' = List /\ due' = "nothing"
  /\ results' = Unprobed /\ swept' = "never"
  /\ flying' = {<<f[1], "false">> : f \in flying}
  /\ UNCHANGED <<sync, pass, rerun, edits>>

-----------------------------------------------------------------------------
(* The stack of the tab.                                                   *)

OpenHost(h, project) ==
  /\ open /\ screen = List /\ h \in IF project THEN theirs ELSE mine
  /\ screen' = [at |-> "detail", host |-> h, project |-> project, front |-> TRUE]
  /\ Focus
  /\ UNCHANGED <<lists, passes, probes, edits>>

GoBack ==
  /\ open /\ screen.at = "detail" /\ screen.front
  /\ screen' = List /\ Focus
  /\ UNCHANGED <<lists, passes, probes, edits>>

\* Another tab, a form or a terminal comes in front, and goes.
Cover ==
  /\ open /\ screen.front
  /\ screen' = [screen EXCEPT !.front = FALSE] /\ due' = "nothing"
  /\ UNCHANGED <<lists, passes, probes, edits>>

Uncover ==
  /\ open /\ ~screen.front
  /\ screen' = [screen EXCEPT !.front = TRUE] /\ Focus
  /\ UNCHANGED <<lists, passes, probes, edits>>

\* From the menu of its row, or from its screen, which goes.
DeleteHost(h) ==
  /\ open /\ screen.front
  /\ \/ /\ screen.at = "list" /\ h \in mine /\ "delete" \in MenuOffers(FALSE)
        /\ Renders("mine") /\ UNCHANGED screen
     \/ /\ screen.at = "detail" /\ screen.host = h /\ "delete" \in ScreenOffers(screen)
        /\ screen' = List /\ Focus
  /\ mine' = mine \ {h}
  /\ UNCHANGED <<open, theirs, passes, probes, edits>>

\* An edit, of this phone or another, gives a host another address: what was and will
\* be found of the old one is not of the new.
Readdress(h) ==
  /\ open /\ edits < MaxEdits /\ h \in mine
  /\ edits' = edits + 1
  /\ results' = [results EXCEPT ![h] = IF @ = "true" THEN "false" ELSE @]
  /\ flying' = {IF f[1] = h THEN <<h, "false">> ELSE f : f \in flying}
  /\ Renders("mine")
  /\ UNCHANGED <<lists, passes, screen, swept>>

-----------------------------------------------------------------------------
(* The effects of a render.                                                *)

\* Mutant of ShouldSweep: a host without a result waits for the window too.
ShouldSweepRarely(targets) == targets # {} /\ swept # "lately"

\* Never yet, not for a while, or a host on the screen is without a result.
ShouldSweep(targets) ==
  /\ targets # {}
  /\ swept # "lately" \/ \E h \in targets : results[h] = "unknown"

Sweep(targets) ==
  IF ShouldSweep(targets)
    THEN swept' = "lately" /\ flying' = flying \cup (targets \X {"true"})
    ELSE UNCHANGED <<swept, flying>>

\* A call of runProjectsSync.
Trigger ==
  IF pass = "idle"
    THEN pass' = "reading" /\ phase' = "syncing" /\ rerun' = FALSE
    ELSE rerun' = TRUE /\ UNCHANGED <<pass, phase>>

Effects ==
  /\ due # "nothing" /\ due' = "nothing"
  /\ Sweep(OnScreen)
  /\ IF due = "focus" /\ screen.at = "list" THEN Trigger ELSE UNCHANGED <<pass, phase, rerun>>
  /\ UNCHANGED <<lists, bringing, loaded, screen, results, edits>>

\* A probe answers within its three seconds, or throws and says nothing.
ProbeEnds(h, truth, throws) ==
  /\ <<h, truth>> \in flying
  /\ flying' = flying \ {<<h, truth>>}
  /\ results' = IF throws THEN results ELSE [results EXCEPT ![h] = truth]
  /\ UNCHANGED <<lists, passes, screen, due, swept, edits>>

\* Half a minute goes by.
Tick ==
  /\ swept = "lately" /\ swept' = "long ago"
  /\ UNCHANGED <<lists, passes, screen, due, results, flying, edits>>

-----------------------------------------------------------------------------
(* The passes.                                                             *)

\* A second call, also after a lock and an unlock, joins the pass that is under way.
SyncStarts ==
  /\ open /\ sync = "idle" /\ sync' = "reading" /\ syncing' = TRUE
  /\ UNCHANGED <<lists, minting, projs, screen, due, probes, edits>>

\* It ends with nothing for the document, or fails: it finds no session.
SyncSettles ==
  /\ sync = "reading" /\ sync' = "idle" /\ syncing' = FALSE
  /\ UNCHANGED <<lists, minting, projs, screen, due, probes, edits>>

\* Mutant of SyncAdopts: adopt does not ask for a session.
SyncAdoptsUnasked ==
  /\ sync = "reading" /\ sync' = "adopting"
  /\ UNCHANGED <<lists, syncing, minting, projs, screen, due, probes, edits>>

\* It finds a session to adopt into, and awaits the metadata.
SyncAdopts ==
  /\ sync = "reading" /\ open /\ sync' = "adopting"
  /\ UNCHANGED <<lists, syncing, minting, projs, screen, due, probes, edits>>

\* Mutant of SyncTells: whatever document was fetched is taken for the personal one.
SyncTellsMixed ==
  /\ sync = "adopting" /\ sync' = "idle" /\ syncing' = FALSE
  /\ mine' \in SUBSET Host /\ Renders("mine")
  /\ UNCHANGED <<open, theirs, minting, projs, screen, probes, edits>>

\* The hosts of what was adopted are shown, whatever has become of the session.
SyncTells ==
  /\ sync = "adopting" /\ sync' = "idle" /\ syncing' = FALSE
  /\ mine' \in SUBSET Mine /\ Renders("mine")
  /\ UNCHANGED <<open, theirs, minting, projs, screen, probes, edits>>

\* A bootstrap of the identity, for a pass over the projects, a move or a dial, persists
\* the document, which may be another one after a 409, and shows its hosts, whatever has
\* become of the session it captured.  Only a lock tells where it is: one that meets no
\* lock is a step.
PersistIdentity ==
  /\ TRUE \in {open, minting} /\ minting' \in {minting /\ open, FALSE}
  /\ mine' \in SUBSET Mine /\ Renders("mine")
  /\ UNCHANGED <<open, theirs, syncing, sync, projs, screen, probes, edits>>

\* The Projects tab, an invite or a move asks for a pass.
Asked ==
  /\ open /\ Trigger
  /\ UNCHANGED <<lists, bringing, loaded, screen, due, probes, edits>>

\* The pass tells what it read, or that it could not.
PassLoads ==
  /\ pass = "reading" /\ pass' = "told"
  /\ theirs' \in SUBSET Theirs
  /\ phase' = "idle" /\ loaded' = TRUE
  /\ Renders("theirs")
  /\ UNCHANGED <<open, mine, bringing, rerun, screen, probes, edits>>

PassSettles ==
  /\ pass = "reading" /\ pass' = "told"
  /\ phase' = "idle" /\ loaded' = TRUE
  /\ UNCHANGED <<lists, bringing, rerun, screen, due, probes, edits>>

PassEnds ==
  /\ pass = "told"
  /\ IF rerun /\ open THEN pass' = "reading" /\ phase' = "syncing" /\ rerun' = FALSE
                      ELSE pass' = "idle" /\ UNCHANGED <<phase, rerun>>
  /\ UNCHANGED <<lists, bringing, loaded, screen, due, probes, edits>>

-----------------------------------------------------------------------------
Answers(h) == \E truth \in {"true", "false"},
                 throws \in IF "throw" \in Meanwhile THEN BOOLEAN ELSE {FALSE} :
                ProbeEnds(h, truth, throws)
Stack  == \/ \E h \in Host, project \in BOOLEAN : OpenHost(h, project)
          \/ GoBack \/ Cover \/ Uncover
          \/ \E h \in Mine : DeleteHost(h) \/ Readdress(h)
Probing == Effects \/ Tick \/ \E h \in Host : Answers(h)
Bringing == SyncStarts \/ SyncSettles \/ SyncAdopts \/ SyncTells \/ PersistIdentity
Passing == Asked \/ PassLoads \/ PassSettles \/ PassEnds

TabNext == Unlock \/ TabLock \/ Stack \/ Probing \/ Bringing \/ Passing
TabSpec == TabInit /\ [][TabNext]_tabVars

\* Effects run, probes answer, time passes and passes end, whatever the user does.
TabFairSpec ==
  /\ TabSpec
  /\ WF_tabVars(Effects) /\ WF_tabVars(Tick)
  /\ \A h \in Host : WF_tabVars(Answers(h))
  /\ WF_tabVars(SyncSettles \/ SyncAdopts) /\ WF_tabVars(SyncTells)
  /\ WF_tabVars(PassLoads \/ PassSettles) /\ WF_tabVars(PassEnds)

-----------------------------------------------------------------------------
(* Properties.                                                             *)

\* Behind the lock nothing of the session is left in the lists or the reachability, also
\* if a pass over the personal vault has still to come back, with a document.
\* (probesSlice: "a locked vault must not keep stale reachability around".)
LockForgets == ~open => mine = {} /\ theirs = {} /\ results = Unprobed /\ swept = "never"

\* The tab does not say that there are no hosts before a pass over the projects has told
\* what there are, or that it could not read them.  (useHostsLogic: "this kills the 'No
\* hosts yet' flash on unlock before the first sync resolves".)
EmptyIsHonest ==
  open /\ screen = List /\ due = "nothing" /\ Body(Host) = "No hosts yet" => loaded

\* Nor does a skeleton, of the list or of the projects in it, stay.
Waits        == Skeleton \/ MoreToCome
SkeletonEnds == Waits ~> ~Waits

\* A host in front comes to have a status, whatever the search hides, other screens
\* probe and the throttle holds back.  (shouldSweep.)
Shown(h) == open /\ screen.front /\ h \in OnScreen
ComesToBeProbed == \A h \in Host : Shown(h) ~> results[h] # "unknown" \/ ~Shown(h)

\* And if what the screen is made of keeps coming, the status of the address that it
\* shows: that of an address before an edit does not stay.  (useHostProbes.)
ComesTrue ==
  \A h \in Host :
    []<>(due # "nothing") => (Shown(h) ~> results[h] = "true" \/ ~Shown(h))

\* What the tab says of the hosts holds, or comes to.
TabTells == [](LockForgets /\ EmptyIsHonest) /\ SkeletonEnds /\ ComesToBeProbed /\ ComesTrue
=============================================================================
