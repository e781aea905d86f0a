-------------------------- MODULE SyncOrchestrator --------------------------
(***************************************************************************)
(* The two orchestrators of passes, src/sync/engine.ts for the personal    *)
(* vault and src/sync/projectsEngine.ts for the projects, and the state of *)
(* the screens they drive (syncSlice, projectsSlice).  A pass is one call  *)
(* that ends with an outcome; what it does is PersonalSync and             *)
(* ProjectSharing.  A step is what runs between two awaits, timers or      *)
(* renders.                                                                *)
(***************************************************************************)
EXTENDS Naturals

VARIABLES
  open,      \* signed in and unlocked: eligible()
  mounted,   \* the tabs are rendered: the triggers are subscribed
  timer,     \* the debounce timer is set
  engine,    \* there is an engine object
  running,   \* engine.ts refers to a loop of passes
  rerun,     \* rerunQueued
  loops,     \* how many such loops are under way
  due,       \* a trigger or an edit that no pass has begun after
  resolving, \* a resolution of a conflict is under way
  sync,      \* syncSlice
  pc,        \* where the pass over the projects is
  prunning,  \* projectsEngine.ts refers to a loop of passes
  prerun,    \* its rerunQueued
  ploops,    \* how many such loops are under way
  pdue,      \* a trigger that no pass over the projects has begun after
  proj       \* projectsSlice: phase and notices

lock  == <<open, mounted>>
pers  == <<timer, engine, running, rerun, loops, due, resolving, sync>>
projs == <<pc, prunning, prerun, ploops, pdue, proj>>
vars  == <<lock, pers, projs>>

Outcome == {"settled", "conflict", "offline", "needs-password"}
Notice  == {"needs-sync", "mismatch"}

SyncReset == [phase |-> "idle", offline |-> FALSE, needsPassword |-> FALSE, conflict |-> FALSE]
ProjReset == [phase |-> "idle", notices |-> {}]

TypeOK ==
  /\ open \in BOOLEAN /\ mounted \in BOOLEAN
  /\ timer \in BOOLEAN /\ engine \in BOOLEAN /\ running \in BOOLEAN /\ rerun \in BOOLEAN
  /\ loops \in Nat /\ due \in BOOLEAN /\ resolving \in BOOLEAN
  /\ sync \in [phase : {"idle", "syncing"}, offline : BOOLEAN, needsPassword : BOOLEAN,
               conflict : BOOLEAN]
  /\ pc \in {"idle", "sync", "identity", "again", "read", "finalize"}
  /\ prunning \in BOOLEAN /\ prerun \in BOOLEAN /\ ploops \in Nat /\ pdue \in BOOLEAN
  /\ proj \in [phase : {"idle", "syncing"}, notices : SUBSET Notice]

Init ==
  /\ open = FALSE /\ mounted = FALSE
  /\ timer = FALSE /\ engine = FALSE /\ running = FALSE /\ rerun = FALSE
  /\ loops = 0 /\ due = FALSE /\ resolving = FALSE /\ sync = SyncReset
  /\ pc = "idle" /\ prunning = FALSE /\ prerun = FALSE /\ ploops = 0 /\ pdue = FALSE
  /\ proj = ProjReset

-----------------------------------------------------------------------------
(* The personal vault.                                                     *)

\* The outcome of a pass in the store.
Applied(s, o) ==
  [s EXCEPT !.phase = "idle",
            !.offline = (o = "offline"),
            !.needsPassword = (o = "needs-password"),
            !.conflict = @ \/ o = "conflict"]

\* Mutant of RunSync: a call during a loop joins it and asks for nothing.
RunSyncJoins(s) ==
  IF running
    THEN due' = TRUE /\ sync' = s /\ UNCHANGED <<engine, running, rerun, loops>>
    ELSE /\ running' = TRUE /\ rerun' = FALSE /\ loops' = loops + 1
         /\ engine' = TRUE /\ due' = FALSE
         /\ sync' = [s EXCEPT !.phase = "syncing"]

\* A call of runSync: it joins the loop under way, or begins one.
RunSync(s) ==
  IF running
    THEN /\ rerun' = TRUE /\ due' = TRUE
         /\ sync' = s
         /\ UNCHANGED <<engine, running, loops>>
    ELSE /\ running' = TRUE /\ rerun' = FALSE /\ loops' = loops + 1
         /\ engine' = TRUE /\ due' = FALSE
         /\ sync' = [s EXCEPT !.phase = "syncing"]

\* The app comes to the foreground.
Foreground ==
  /\ mounted /\ open
  /\ RunSync(sync)
  /\ UNCHANGED <<lock, timer, resolving, projs>>

\* What the system says of the network; whether the internet can be reached may
\* be unknown, which counts as online.
Network == [connected : BOOLEAN, internet : {"yes", "no", "unknown"}]
Reachable(net) == net.connected /\ net.internet # "no"

Connectivity(net) ==
  /\ mounted
  /\ IF Reachable(net) /\ open
       THEN RunSync([sync EXCEPT !.offline = FALSE])
       ELSE sync' = [sync EXCEPT !.offline = ~Reachable(net)]
            /\ UNCHANGED <<engine, running, rerun, loops, due>>
  /\ UNCHANGED <<lock, timer, resolving, projs>>

\* A host is edited: the debounce timer is set, or set again.
Edit ==
  /\ open
  /\ timer' = TRUE /\ due' = TRUE
  /\ UNCHANGED <<lock, engine, running, rerun, loops, resolving, sync, projs>>

TimerFires ==
  /\ timer
  /\ timer' = FALSE
  /\ IF open THEN RunSync(sync)
             ELSE UNCHANGED <<engine, running, rerun, loops, due, sync>>
  /\ UNCHANGED <<lock, resolving, projs>>

\* A pass over the projects that waited for the loop goes on.
Joined == pc' = CASE pc = "sync" -> "identity" [] pc = "again" -> "read" [] OTHER -> pc

\* A pass of the loop ends.  The loop goes on if it was asked to and may.
PassEnds(o) ==
  /\ loops > 0
  /\ IF rerun /\ open
       THEN /\ rerun' = FALSE /\ due' = FALSE /\ engine' = TRUE
            /\ sync' = [Applied(sync, o) EXCEPT !.phase = "syncing"]
            /\ UNCHANGED <<running, loops, pc>>
       ELSE /\ loops' = loops - 1 /\ running' = FALSE
            /\ sync' = Applied(sync, o)
            /\ Joined
            /\ UNCHANGED <<engine, rerun, due>>
  /\ UNCHANGED <<lock, timer, resolving, prunning, prerun, ploops, pdue, proj>>

\* The user settles the conflict; this pass does not join the loop.
ResolveStart ==
  /\ mounted /\ sync.conflict /\ ~resolving
  /\ IF engine /\ open
       THEN resolving' = TRUE /\ sync' = [sync EXCEPT !.conflict = FALSE, !.phase = "syncing"]
       ELSE sync' = [sync EXCEPT !.conflict = FALSE] /\ UNCHANGED resolving
  /\ UNCHANGED <<lock, timer, engine, running, rerun, loops, due, projs>>

\* Mutant of ResolveEnds: a resolution ends as if it were the loop.
ResolveEndsLoop(o) ==
  /\ resolving
  /\ resolving' = FALSE
  /\ running' = FALSE /\ loops' = loops - 1
  /\ sync' = Applied(sync, o)
  /\ UNCHANGED <<lock, timer, engine, rerun, due, projs>>

ResolveEnds(o) ==
  /\ resolving
  /\ resolving' = FALSE
  /\ sync' = Applied(sync, o)
  /\ UNCHANGED <<lock, timer, engine, running, rerun, loops, due, projs>>

-----------------------------------------------------------------------------
(* Unlock, lock, and the tabs that follow.                                 *)

Unlock ==
  /\ ~open /\ ~mounted
  /\ open' = TRUE
  /\ UNCHANGED <<mounted, pers, projs>>

\* startSyncEngine, from the effect of the tabs.
Start ==
  /\ open /\ ~mounted
  /\ mounted' = TRUE
  /\ RunSync(sync)
  /\ UNCHANGED <<open, timer, resolving, projs>>

\* lockVault, or the end of a session, which leaves the slice of the projects as it is.
Lock ==
  /\ open
  /\ open' = FALSE
  /\ proj' \in {ProjReset, proj}
  /\ due' = FALSE /\ pdue' = FALSE
  /\ UNCHANGED <<mounted, timer, engine, running, rerun, loops, resolving, sync,
                 pc, prunning, prerun, ploops>>

\* Mutant of Stop: the loop under way is forgotten with the engine.
StopForgetsRunning ==
  /\ ~open /\ mounted
  /\ mounted' = FALSE
  /\ timer' = FALSE /\ engine' = FALSE /\ rerun' = FALSE /\ running' = FALSE
  /\ sync' = SyncReset
  /\ UNCHANGED <<open, loops, due, resolving, projs>>

\* stopSyncEngine, when the tabs are gone.  A loop under way stays.
Stop ==
  /\ ~open /\ mounted
  /\ mounted' = FALSE
  /\ timer' = FALSE /\ engine' = FALSE /\ rerun' = FALSE
  /\ sync' = SyncReset
  /\ UNCHANGED <<open, running, loops, due, resolving, projs>>

-----------------------------------------------------------------------------
(* The projects.                                                           *)

\* A call of runSync from a pass over the projects; it returns at once when
\* the vault is locked.
AwaitSync(now, then) ==
  IF open THEN RunSync(sync) /\ pc' = now
          ELSE pc' = then /\ UNCHANGED <<engine, running, rerun, loops, due, sync>>

\* A call of runProjectsSync: a tab gets the focus, a project or an invite changed.
ProjectsTrigger ==
  /\ open
  /\ IF prunning
       THEN /\ prerun' = TRUE /\ pdue' = TRUE
            /\ UNCHANGED <<pers, pc, prunning, ploops, proj>>
       ELSE /\ prunning' = TRUE /\ prerun' = FALSE /\ pdue' = FALSE /\ ploops' = ploops + 1
            /\ proj' = [proj EXCEPT !.phase = "syncing"]
            /\ AwaitSync("sync", "identity")
            /\ UNCHANGED <<timer, resolving>>
  /\ UNCHANGED lock

\* Mutant of ProjectsPassEnds: a trigger during the pass is dropped.
ProjectsPassEndsOnce(notices) ==
  /\ prunning' = FALSE /\ ploops' = ploops - 1
  /\ proj' = [phase |-> "idle", notices |-> notices]
  /\ pc' = "idle"
  /\ UNCHANGED <<prerun, pdue, engine, running, rerun, loops, due, sync>>

\* The pass ends with these notices; the loop goes on if it was asked to and may.
ProjectsPassEnds(notices) ==
  IF prerun /\ open
    THEN /\ prerun' = FALSE /\ pdue' = FALSE
         /\ proj' = [phase |-> "syncing", notices |-> notices]
         /\ AwaitSync("sync", "identity")
         /\ UNCHANGED <<prunning, ploops>>
    ELSE /\ prunning' = FALSE /\ ploops' = ploops - 1
         /\ proj' = [phase |-> "idle", notices |-> notices]
         /\ pc' = "idle"
         /\ UNCHANGED <<prerun, pdue, engine, running, rerun, loops, due, sync>>

\* The account's identity is there, is at another device, or is not the published
\* one; or a request, or the session, fails.  A look at the server may come first.
Identity ==
  /\ pc = "identity"
  /\ \/ AwaitSync("again", "read") /\ UNCHANGED <<prunning, prerun, ploops, pdue, proj>>
     \/ pc' = "read"
        /\ UNCHANGED <<engine, running, rerun, loops, due, sync, prunning, prerun, ploops,
                       pdue, proj>>
     \/ \E n \in Notice : ProjectsPassEnds(proj.notices \cup {n})
     \/ ProjectsPassEnds(proj.notices)
  /\ UNCHANGED <<lock, timer, resolving>>

\* The projects are read: views are loaded, or nothing fresh came.
Read ==
  /\ pc = "read"
  /\ \/ /\ pc' = "finalize"
        /\ proj' = ProjReset
        /\ UNCHANGED <<engine, running, rerun, loops, due, sync, prunning, prerun, ploops, pdue>>
     \/ ProjectsPassEnds({})
     \/ ProjectsPassEnds(proj.notices)
  /\ UNCHANGED <<lock, timer, resolving>>

Finalize ==
  /\ pc = "finalize"
  /\ ProjectsPassEnds(proj.notices)
  /\ UNCHANGED <<lock, timer, resolving>>

-----------------------------------------------------------------------------
Personal == \/ Foreground \/ \E net \in Network : Connectivity(net)
            \/ Edit \/ TimerFires \/ ResolveStart
            \/ \E o \in Outcome : PassEnds(o) \/ ResolveEnds(o)
Vault    == Unlock \/ Start \/ Lock \/ Stop
Projects == ProjectsTrigger \/ Identity \/ Read \/ Finalize

Next == Personal \/ Vault \/ Projects
Spec == Init /\ [][Next]_vars

\* Timers fire, passes end, and the tabs are rendered and removed; now and then
\* a pass ends that no trigger fell into.
FairSpec ==
  /\ Spec
  /\ SF_vars(~rerun /\ \E o \in Outcome : PassEnds(o))
  /\ WF_vars(TimerFires)
  /\ WF_vars(\E o \in Outcome : PassEnds(o))
  /\ WF_vars(\E o \in Outcome : ResolveEnds(o))
  /\ WF_vars(Start) /\ WF_vars(Stop)
  /\ WF_vars(Identity \/ Read \/ Finalize)
-----------------------------------------------------------------------------
(* Properties.                                                             *)

\* Never two concurrent passes of one kind (the resolution of a conflict apart),
\* stopped and started engines included, and the spinner is shown only while
\* something is under way that will end it.  (engine.ts, projectsEngine.ts.)
SingleFlight ==
  /\ loops <= 1 /\ (running <=> loops = 1)
  /\ ploops <= 1 /\ (prunning <=> ploops = 1) /\ (prunning <=> pc # "idle")
  /\ sync.phase = "syncing" => loops > 0 \/ resolving
  /\ proj.phase = "syncing" => ploops > 0

\* And no pass begins behind the lock, one that was asked for before it included.
NoPassBehindLock ==
  ~open => /\ loops' <= loops /\ (sync'.phase = "syncing" => sync.phase = "syncing")
           /\ (proj'.phase = "syncing" => proj.phase = "syncing")

BeginsAlone == [][SingleFlight' /\ NoPassBehindLock]_vars

PersonalRuns == INSTANCE TrailingRun WITH wanted <- due, busy <- running
ProjectsRun  == INSTANCE TrailingRun WITH wanted <- pdue, busy <- prunning

\* Every trigger and every edit of the vault is followed by the beginning of a pass
\* after it, or by a lock: engine.ts implements TrailingRun.  (rerunQueued,
\* scheduleSyncPush, startSyncEngine.)
PersonalTrails == PersonalRuns!Spec

\* The same of projectsEngine.ts, whose passes wait for those of engine.ts.
ProjectsTrail == ProjectsRun!Spec

\* No trigger of either kind goes without a pass that begins after it.
EachRunTrails == PersonalTrails /\ ProjectsTrail
=============================================================================
