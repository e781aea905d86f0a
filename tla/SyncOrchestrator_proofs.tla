----------------------- MODULE SyncOrchestrator_proofs -----------------------
(***************************************************************************)
(* Proofs about SyncOrchestrator: passes of one kind never overlap and     *)
(* none begins behind the lock; what was asked for is never forgotten; and *)
(* every step is one of TrailingRun, of either orchestrator.  And about    *)
(* VaultKeys, whose names are its own: as long as the vault is not locked  *)
(* while a call holds its keys, every stored blob opens and the DEK behind *)
(* biometrics opens the phone's, however passwords, recovery codes and     *)
(* DEKs change elsewhere.                                                  *)
(***************************************************************************)
EXTENDS SyncOrchestrator, VaultKeys, TLAPS

\* A trigger that no pass has begun after is still known to the code: to the
\* debounce timer, or to the re-run flag of the loop under way.  A lock, which
\* drops the triggers, is the only way out.
Remembered ==
  /\ due => open /\ (timer \/ (running /\ rerun))
  /\ pdue => open /\ prunning /\ prerun

\* The inductive invariant.
OrchInv == TypeOK /\ SingleFlight /\ Remembered

\* The types of the two slices.
SyncSlice == [phase : {"idle", "syncing"}, offline : BOOLEAN, needsPassword : BOOLEAN, conflict : BOOLEAN]
ProjSlice == [phase : {"idle", "syncing"}, notices : SUBSET Notice]

\* The variables that are flags.
Flags ==
  /\ open \in BOOLEAN /\ mounted \in BOOLEAN
  /\ timer \in BOOLEAN /\ engine \in BOOLEAN /\ running \in BOOLEAN /\ rerun \in BOOLEAN
  /\ due \in BOOLEAN /\ resolving \in BOOLEAN
  /\ prunning \in BOOLEAN /\ prerun \in BOOLEAN /\ pdue \in BOOLEAN

\* The flags are flags at first,
LEMMA FlagsInit == Init => Flags
  BY Zenon DEF Init, Flags

\* and after every step.
LEMMA FlagsStep == Flags /\ [Next]_vars => Flags'
<1> SUFFICES ASSUME Flags, [Next]_vars PROVE Flags'
  OBVIOUS
<1> USE DEF Flags, lock, pers, projs, RunSync, AwaitSync, ProjectsPassEnds
<1>1. CASE Foreground
  BY <1>1, Zenon DEF Foreground
<1>2. ASSUME NEW net \in Network, Connectivity(net) PROVE Flags'
  BY <1>2, Zenon DEF Connectivity
<1>3. CASE Edit
  BY <1>3, Zenon DEF Edit
<1>4. CASE TimerFires
  BY <1>4, Zenon DEF TimerFires
<1>5. ASSUME NEW o \in Outcome, PassEnds(o) PROVE Flags'
  BY <1>5, Zenon DEF PassEnds
<1>6. CASE ResolveStart
  BY <1>6, Zenon DEF ResolveStart
<1>7. ASSUME NEW o \in Outcome, ResolveEnds(o) PROVE Flags'
  BY <1>7, Zenon DEF ResolveEnds
<1>8. CASE Unlock
  BY <1>8, Zenon DEF Unlock
<1>9. CASE Start
  BY <1>9, Zenon DEF Start
<1>10. CASE Lock
  BY <1>10, Zenon DEF Lock
<1>11. CASE Stop
  BY <1>11, Zenon DEF Stop
<1>12. CASE ProjectsTrigger
  BY <1>12, Zenon DEF ProjectsTrigger
<1>p. ASSUME NEW n, ProjectsPassEnds(n), UNCHANGED <<lock, timer, resolving>> PROVE Flags'
  <2>1. CASE prerun /\ open
    BY <1>p, <2>1, Zenon
  <2>2. CASE ~(prerun /\ open)
    BY <1>p, <2>2, Zenon
  <2> QED
    BY <2>1, <2>2
<1> HIDE DEF ProjectsPassEnds
<1>13. CASE Identity
  <2>1. CASE AwaitSync("again", "read") /\ UNCHANGED <<prunning, prerun, ploops, pdue, proj>>
    BY <1>13, <2>1, Zenon DEF Identity
  <2>2. CASE UNCHANGED <<engine, running, rerun, loops, due, sync, prunning, prerun, ploops, pdue, proj>>
    BY <1>13, <2>2, Zenon DEF Identity
  <2> QED
    BY <1>13, <1>p, <2>1, <2>2, Zenon DEF Identity
<1>14. CASE Read
  BY <1>14, <1>p, Zenon DEF Read
<1>15. CASE Finalize
  BY <1>15, <1>p, Zenon DEF Finalize
<1>16. CASE UNCHANGED vars
  BY <1>16, Zenon DEF vars
<1> QED
  BY <1>1, <1>2, <1>3, <1>4, <1>5, <1>6, <1>7, <1>8, <1>9, <1>10, <1>11, <1>12, <1>13, <1>14, <1>15, <1>16
    DEF Next, Personal, Vault, Projects

\* A slice whose flags are any set of values: the provers take those in BOOLEAN apart.
Slice(B) == [phase : {"idle", "syncing"}, offline : B, needsPassword : B, conflict : B]

\* Setting the fields of a slice.
LEMMA PhaseSet ==
  ASSUME NEW B, NEW s \in Slice(B), NEW p \in {"idle", "syncing"}
  PROVE  [s EXCEPT !.phase = p] \in Slice(B)
  BY SMT DEF Slice

\* A flag of the slice is set.
LEMMA FlagSet ==
  ASSUME NEW B, NEW s \in Slice(B), NEW b \in B
  PROVE  /\ [s EXCEPT !.offline = b] \in Slice(B) /\ [s EXCEPT !.conflict = b] \in Slice(B)
         /\ [s EXCEPT !.needsPassword = b] \in Slice(B)
  BY SMT DEF Slice

\* The outcome of a pass is told to the slice: four of its actions.
LEMMA OutcomeSet ==
  ASSUME NEW B, NEW s \in Slice(B), NEW a \in B, NEW n \in B, NEW c \in B
  PROVE  [s EXCEPT !.phase = "idle", !.offline = a, !.needsPassword = n, !.conflict = c] \in Slice(B)
<1>1. PICK t \in Slice(B) : t = [s EXCEPT !.phase = "idle"]
  BY PhaseSet
<1>2. PICK u \in Slice(B) : u = [t EXCEPT !.offline = a]
  BY FlagSet
<1>3. PICK v \in Slice(B) : v = [u EXCEPT !.needsPassword = n]
  BY FlagSet
<1>4. [v EXCEPT !.conflict = c] \in Slice(B)
  BY FlagSet
<1> QED
  BY <1>1, <1>2, <1>3, <1>4

\* A conflict is taken up, and a pass begins on it.
LEMMA ResolveSet ==
  ASSUME NEW B, NEW s \in Slice(B), NEW c \in B
  PROVE  [s EXCEPT !.conflict = c, !.phase = "syncing"] \in Slice(B)
<1>1. PICK t \in Slice(B) : t = [s EXCEPT !.conflict = c]
  BY FlagSet
<1>2. [t EXCEPT !.phase = "syncing"] \in Slice(B)
  BY PhaseSet
<1> QED
  BY <1>1, <1>2

\* The outcome of a pass, and what the screens and the network do to the slice.
LEMMA SliceKept ==
  ASSUME NEW s \in SyncSlice
  PROVE  /\ \A o : Applied(s, o) \in SyncSlice /\ Applied(s, o).phase = "idle"
         /\ \A o : [Applied(s, o) EXCEPT !.phase = "syncing"] \in SyncSlice
         /\ [s EXCEPT !.phase = "syncing"] \in SyncSlice
         /\ \A b \in BOOLEAN : [s EXCEPT !.offline = b] \in SyncSlice /\ [s EXCEPT !.offline = b].phase = s.phase
         /\ [s EXCEPT !.conflict = FALSE] \in SyncSlice /\ [s EXCEPT !.conflict = FALSE].phase = s.phase
         /\ [s EXCEPT !.conflict = FALSE, !.phase = "syncing"] \in SyncSlice
<1>1. s.conflict \in BOOLEAN /\ s.phase \in {"idle", "syncing"} /\ s.offline \in BOOLEAN /\ s.needsPassword \in BOOLEAN
  BY DEF SyncSlice
<1>2. ASSUME NEW o PROVE Applied(s, o) \in SyncSlice /\ Applied(s, o).phase = "idle"
  <2>1. (o = "offline") \in BOOLEAN /\ (o = "needs-password") \in BOOLEAN /\ (s.conflict \/ o = "conflict") \in BOOLEAN
    BY Zenon
  <2>2. Applied(s, o) \in SyncSlice
    BY <2>1, OutcomeSet, Zenon DEF Applied, SyncSlice, Slice
  <2>3. Applied(s, o).phase = "idle"
    BY SMT DEF Applied, SyncSlice
  <2> QED
    BY <2>2, <2>3
<1>3. ASSUME NEW o PROVE [Applied(s, o) EXCEPT !.phase = "syncing"] \in SyncSlice
  <2>1. PICK t : t = Applied(s, o)
    OBVIOUS
  <2>2. [t EXCEPT !.phase = "syncing"] \in SyncSlice
    BY <1>2, <2>1, PhaseSet, Zenon DEF SyncSlice, Slice
  <2> QED
    BY <2>1, <2>2
<1>4. ASSUME NEW b \in BOOLEAN PROVE [s EXCEPT !.offline = b] \in SyncSlice
  BY FlagSet, Zenon DEF SyncSlice, Slice
<1>5. ASSUME NEW b \in BOOLEAN PROVE [s EXCEPT !.offline = b].phase = s.phase
  BY SMT DEF SyncSlice
<1>6. [s EXCEPT !.conflict = FALSE].phase = s.phase
  BY SMT DEF SyncSlice
<1>7. /\ [s EXCEPT !.phase = "syncing"] \in SyncSlice /\ [s EXCEPT !.conflict = FALSE] \in SyncSlice
      /\ [s EXCEPT !.conflict = FALSE, !.phase = "syncing"] \in SyncSlice
  BY PhaseSet, FlagSet, ResolveSet, Zenon DEF SyncSlice, Slice
<1> QED
  BY <1>2, <1>3, <1>4, <1>5, <1>6, <1>7

\* A launch has nothing under way and nothing asked for.
LEMMA OrchInit == Init => OrchInv
<1> SUFFICES ASSUME Init PROVE OrchInv
  OBVIOUS
<1>1. sync \in SyncSlice /\ proj \in ProjSlice /\ sync.phase = "idle" /\ proj.phase = "idle"
  BY SMT DEF Init, SyncReset, ProjReset, SyncSlice, ProjSlice
<1>2. /\ loops = 0 /\ ploops = 0 /\ pc = "idle"
      /\ ~running /\ ~prunning /\ ~due /\ ~pdue
  BY Zenon DEF Init
<1>3. TypeOK
  BY <1>1, <1>2, FlagsInit, SMT DEF TypeOK, SyncSlice, ProjSlice, Flags
<1>4. SingleFlight /\ Remembered
  BY <1>1, <1>2, FlagsInit, SMT DEF SingleFlight, Remembered, Flags
<1> QED
  BY <1>3, <1>4 DEF OrchInv

-----------------------------------------------------------------------------
(* The calls the actions share.                                            *)

\* A call of runSync leaves a loop under way, and what it was asked for known.
LEMMA RunSyncKeeps ==
  ASSUME OrchInv, Flags', open, NEW s \in SyncSlice, s.phase = sync.phase, RunSync(s)
  PROVE  running' /\ loops' = 1 /\ (due' => rerun') /\ sync' \in SyncSlice
  BY SMT DEF Flags, OrchInv, TypeOK, SingleFlight, RunSync, SyncSlice

\* A pass over the projects that calls runSync, or goes on when it may not.
LEMMA AwaitSyncKeeps ==
  ASSUME OrchInv, Flags', NEW now, NEW then, AwaitSync(now, then)
  PROVE  /\ pc' \in {now, then}
         /\ loops' \in {0, 1} /\ (running' <=> loops' = 1)
         /\ (due' => timer \/ (running' /\ rerun')) /\ (due' => open)
         /\ sync' \in SyncSlice /\ (sync'.phase = "syncing" => loops' > 0 \/ resolving)
         /\ ~open => UNCHANGED <<running, loops, sync>>
<1>1. CASE open
  <2>1. RunSync(sync) /\ pc' = now
    BY <1>1 DEF AwaitSync
  <2>2. sync \in SyncSlice
    BY DEF OrchInv, TypeOK, SyncSlice
  <2> QED
    BY <1>1, <2>1, <2>2, RunSyncKeeps, SMT DEF Flags, SyncSlice, OrchInv, TypeOK, SingleFlight
<1>2. CASE ~open
  BY <1>2, SMT DEF AwaitSync, Flags, OrchInv, TypeOK, SingleFlight, Remembered, SyncSlice
<1> QED
  BY <1>1, <1>2

\* A pass over the projects ends, or another begins.
LEMMA ProjectsPassEndsKeeps ==
  ASSUME OrchInv, Flags', pc # "idle", NEW n \in SUBSET Notice, ProjectsPassEnds(n),
         UNCHANGED <<lock, timer, resolving>>
  PROVE  OrchInv' /\ NoPassBehindLock
<1>1. CASE prerun /\ open
  <2>1. /\ prerun' = FALSE /\ pdue' = FALSE /\ AwaitSync("sync", "identity")
        /\ proj' = [phase |-> "syncing", notices |-> n] /\ UNCHANGED <<prunning, ploops>>
    BY <1>1 DEF ProjectsPassEnds
  <2>2. proj' \in ProjSlice
    BY <2>1, SMT DEF ProjSlice
  <2> QED
    BY <1>1, <2>1, <2>2, AwaitSyncKeeps, SMT
      DEF Flags, OrchInv, TypeOK, SingleFlight, Remembered, NoPassBehindLock, lock, SyncSlice, ProjSlice
<1>2. CASE ~(prerun /\ open)
  <2>1. /\ prunning' = FALSE /\ ploops' = ploops - 1 /\ pc' = "idle"
        /\ proj' = [phase |-> "idle", notices |-> n]
        /\ UNCHANGED <<prerun, pdue, engine, running, rerun, loops, due, sync>>
    BY <1>2 DEF ProjectsPassEnds
  <2>2. proj' \in ProjSlice /\ proj'.phase = "idle"
    BY <2>1, SMT DEF ProjSlice
  <2>3. ploops' = 0 /\ ~pdue
    BY <1>2, <2>1, SMT DEF OrchInv, TypeOK, SingleFlight, Remembered
  <2> QED
    BY <2>1, <2>2, <2>3, SMT
      DEF Flags, OrchInv, TypeOK, SingleFlight, Remembered, NoPassBehindLock, lock, ProjSlice
<1> QED
  BY <1>1, <1>2

-----------------------------------------------------------------------------
(* One step per action.                                                    *)

\* Every step keeps the invariant, and no pass begins behind the lock.
LEMMA OrchStep == OrchInv /\ [Next]_vars => OrchInv' /\ NoPassBehindLock
<1> SUFFICES ASSUME OrchInv, [Next]_vars PROVE OrchInv' /\ NoPassBehindLock
  OBVIOUS
<1>f. Flags'
  BY FlagsStep DEF OrchInv, TypeOK, Flags
<1> USE <1>f DEF Flags, OrchInv, TypeOK, SingleFlight, Remembered, NoPassBehindLock, lock, pers, projs
<1>0. sync \in SyncSlice /\ proj \in ProjSlice /\ proj.notices \in SUBSET Notice
  BY SMT DEF SyncSlice, ProjSlice
<1>1. CASE Foreground
  BY <1>0, <1>1, RunSyncKeeps, SMT DEF Foreground, SyncSlice
<1>2. ASSUME NEW net \in Network, Connectivity(net) PROVE OrchInv' /\ NoPassBehindLock
  <2>1. CASE Reachable(net) /\ open
    <3>1. RunSync([sync EXCEPT !.offline = FALSE])
      BY <1>2, <2>1 DEF Connectivity
    <3>2. [sync EXCEPT !.offline = FALSE] \in SyncSlice /\ [sync EXCEPT !.offline = FALSE].phase = sync.phase
      BY <1>0, SliceKept, Zenon
    <3> QED
      BY <1>2, <2>1, <3>1, <3>2, RunSyncKeeps, SMT DEF Connectivity, SyncSlice
  <2>2. CASE ~(Reachable(net) /\ open)
    <3>1. sync' = [sync EXCEPT !.offline = ~Reachable(net)] /\ UNCHANGED <<engine, running, rerun, loops, due>>
      BY <1>2, <2>2 DEF Connectivity
    <3>2. sync' \in SyncSlice /\ sync'.phase = sync.phase
      <4>1. (~Reachable(net)) \in BOOLEAN
        BY Zenon
      <4> QED BY <1>0, <3>1, <4>1, SliceKept, Zenon
    <3> QED
      BY <1>2, <3>1, <3>2, SMT DEF Connectivity, SyncSlice
  <2> QED
    BY <2>1, <2>2
<1>3. CASE Edit
  BY <1>3, SMT DEF Edit
<1>4. CASE TimerFires
  BY <1>0, <1>4, RunSyncKeeps, SMT DEF TimerFires, SyncSlice
<1>5. ASSUME NEW o \in Outcome, PassEnds(o) PROVE OrchInv' /\ NoPassBehindLock
  <2>1. Applied(sync, o) \in SyncSlice /\ Applied(sync, o).phase = "idle"
    BY <1>0, SliceKept, Zenon
  <2>2. [Applied(sync, o) EXCEPT !.phase = "syncing"] \in SyncSlice
    BY <1>0, SliceKept, Zenon
  <2>3. CASE rerun /\ open
    BY <1>5, <2>2, <2>3, SMT DEF PassEnds, SyncSlice
  <2>4. CASE ~(rerun /\ open)
    <3>1. pc' \in {"idle", "sync", "identity", "again", "read", "finalize"} /\ (pc' = "idle" <=> pc = "idle")
      BY <1>5, <2>4, SMT DEF PassEnds, Joined
    <3> QED
      BY <1>5, <2>1, <2>4, <3>1, SMT DEF PassEnds, SyncSlice
  <2> QED
    BY <2>3, <2>4
<1>6. CASE ResolveStart
  <2>1. [sync EXCEPT !.conflict = FALSE, !.phase = "syncing"] \in SyncSlice
    BY <1>0, SliceKept, Zenon
  <2>2. [sync EXCEPT !.conflict = FALSE] \in SyncSlice /\ [sync EXCEPT !.conflict = FALSE].phase = sync.phase
    BY <1>0, SliceKept, Zenon
  <2> QED
    <3>1. CASE engine /\ open
      BY <1>6, <2>1, <3>1, SMT DEF ResolveStart, SyncSlice
    <3>2. CASE ~(engine /\ open)
      <4>1. sync' = [sync EXCEPT !.conflict = FALSE] /\ UNCHANGED resolving
        BY <1>6, <3>2 DEF ResolveStart
      <4> QED
        BY <1>6, <2>2, <4>1, SMT DEF ResolveStart, SyncSlice
    <3> QED
      BY <3>1, <3>2
<1>7. ASSUME NEW o \in Outcome, ResolveEnds(o) PROVE OrchInv' /\ NoPassBehindLock
  <2>1. Applied(sync, o) \in SyncSlice /\ Applied(sync, o).phase = "idle"
    BY <1>0, SliceKept, Zenon
  <2> QED
    BY <1>7, <2>1, SMT DEF ResolveEnds, SyncSlice
<1>8. CASE Unlock
  BY <1>8, SMT DEF Unlock
<1>9. CASE Start
  BY <1>0, <1>9, RunSyncKeeps, SMT DEF Start, SyncSlice
<1>10. CASE Lock
  <2>1. ProjReset \in ProjSlice /\ ProjReset.phase = "idle"
    BY SMT DEF ProjReset, ProjSlice
  <2> QED
    BY <1>10, <2>1, SMT DEF Lock, ProjSlice
<1>11. CASE Stop
  <2>1. SyncReset \in SyncSlice /\ SyncReset.phase = "idle"
    BY SMT DEF SyncReset, SyncSlice
  <2> QED
    BY <1>11, <2>1, SMT DEF Stop, SyncSlice
<1>12. CASE ProjectsTrigger
  <2>1. CASE prunning
    BY <1>12, <2>1, SMT DEF ProjectsTrigger
  <2>2. CASE ~prunning
    <3>1. [proj EXCEPT !.phase = "syncing"] \in ProjSlice
      BY <1>0, SMT DEF ProjSlice
    <3>2. AwaitSync("sync", "identity") /\ ploops' = 1
      BY <1>12, <2>2, SMT DEF ProjectsTrigger
    <3> QED
      BY <1>12, <2>2, <3>1, <3>2, AwaitSyncKeeps, SMT DEF ProjectsTrigger, SyncSlice, ProjSlice
  <2> QED
    BY <2>1, <2>2
<1>13. CASE Identity
  <2>1. CASE AwaitSync("again", "read") /\ UNCHANGED <<prunning, prerun, ploops, pdue, proj>>
    BY <1>13, <2>1, AwaitSyncKeeps, SMT DEF Identity, SyncSlice
  <2>2. CASE /\ pc' = "read"
             /\ UNCHANGED <<engine, running, rerun, loops, due, sync, prunning, prerun, ploops, pdue, proj>>
    BY <1>13, <2>2, SMT DEF Identity
  <2>3. ASSUME NEW n \in Notice, ProjectsPassEnds(proj.notices \cup {n}) PROVE OrchInv' /\ NoPassBehindLock
    BY <1>0, <1>13, <2>3, ProjectsPassEndsKeeps DEF Identity
  <2>4. CASE ProjectsPassEnds(proj.notices)
    BY <1>0, <1>13, <2>4, ProjectsPassEndsKeeps DEF Identity
  <2> QED
    BY <1>13, <2>1, <2>2, <2>3, <2>4 DEF Identity
<1>14. CASE Read
  <2>1. CASE /\ pc' = "finalize" /\ proj' = ProjReset
             /\ UNCHANGED <<engine, running, rerun, loops, due, sync, prunning, prerun, ploops, pdue>>
    <3>1. ProjReset \in ProjSlice /\ ProjReset.phase = "idle"
      BY SMT DEF ProjReset, ProjSlice
    <3> QED
      BY <1>14, <2>1, <3>1, SMT DEF Read, ProjSlice
  <2>2. CASE ProjectsPassEnds({})
    BY <1>14, <2>2, ProjectsPassEndsKeeps DEF Read
  <2>3. CASE ProjectsPassEnds(proj.notices)
    BY <1>0, <1>14, <2>3, ProjectsPassEndsKeeps DEF Read
  <2> QED
    BY <1>14, <2>1, <2>2, <2>3 DEF Read
<1>15. CASE Finalize
  BY <1>0, <1>15, ProjectsPassEndsKeeps DEF Finalize
<1>16. CASE UNCHANGED vars
  BY <1>16, SMT DEF vars
<1> QED
  BY <1>1, <1>2, <1>3, <1>4, <1>5, <1>6, <1>7, <1>8, <1>9, <1>10, <1>11, <1>12, <1>13, <1>14, <1>15, <1>16
    DEF Next, Personal, Vault, Projects
-----------------------------------------------------------------------------
(* The theorems.                                                           *)

\* So the invariant holds in every reachable state.
LEMMA OrchInvariance == Spec => []OrchInv
<1>1. OrchInv /\ [Next]_vars => OrchInv'
  BY OrchStep
<1> QED
  BY OrchInit, <1>1, PTL DEF Spec

\* Every variable of both orchestrators, and of the slices they drive, has its type.
THEOREM OrchTypes == Spec => []TypeOK
<1>1. OrchInv => TypeOK
  BY DEF OrchInv
<1> QED
  BY OrchInvariance, <1>1, PTL

\* Passes of one kind never overlap, whatever meets what: engines stopped and started
\* behind a running pass, triggers during it, a lock; and none begins behind the lock.
\* (runLoop and rerunQueued of engine.ts and projectsEngine.ts.)
THEOREM PassesBeginAlone == Spec => BeginsAlone
<1>1. OrchInv /\ OrchInv' /\ [Next]_vars => [SingleFlight' /\ NoPassBehindLock]_vars
  BY OrchStep DEF OrchInv
<1> QED
  BY OrchInvariance, <1>1, PTL DEF Spec, BeginsAlone

\* Nothing that was asked for is forgotten before a pass begins after it: this is what
\* the fairness of EachRunTrails then turns into a pass.
THEOREM TriggersRemembered == Spec => []Remembered
<1>1. OrchInv => Remembered
  BY DEF OrchInv
<1> QED
  BY OrchInvariance, <1>1, PTL

-----------------------------------------------------------------------------
(* Every step is one of TrailingRun.                                       *)

\* A call of runSync begins a pass, or asks the one under way for another.
LEMMA RunSyncTrails ==
  ASSUME OrchInv, Flags', open, open' = open, NEW s, RunSync(s)
  PROVE  PersonalRuns!Trigger \/ PersonalRuns!Begin
  BY SMT DEF OrchInv, TypeOK, SingleFlight, Flags, RunSync, PersonalRuns!Trigger, PersonalRuns!Begin

\* What either pass or trigger of the projects does to the personal orchestrator.
LEMMA AwaitSyncTrails ==
  ASSUME OrchInv, Flags', UNCHANGED open, NEW now, NEW then, AwaitSync(now, then)
  PROVE  PersonalRuns!Trigger \/ PersonalRuns!Begin \/ UNCHANGED <<open, due, running>>
<1>1. CASE open
  BY <1>1, RunSyncTrails DEF AwaitSync
<1>2. CASE ~open
  BY <1>2 DEF AwaitSync
<1> QED
  BY <1>1, <1>2

\* Every step is one of TrailingRun to the orchestrator of the personal vault.
LEMMA PersonalStep ==
  OrchInv /\ Flags' /\ [Next]_vars => [PersonalRuns!Next]_(PersonalRuns!vars)
<1> SUFFICES ASSUME OrchInv, Flags', [Next]_vars
             PROVE  PersonalRuns!Next \/ UNCHANGED <<open, due, running>>
  BY DEF PersonalRuns!vars
<1> DEFINE Goal == PersonalRuns!Next \/ UNCHANGED <<open, due, running>>
<1> USE DEF lock, pers, projs, PersonalRuns!Next
<1>1. CASE Foreground
  BY <1>1, RunSyncTrails DEF Foreground
<1>2. ASSUME NEW net \in Network, Connectivity(net) PROVE Goal
  <2>1. CASE Reachable(net) /\ open
    BY <1>2, <2>1, RunSyncTrails DEF Connectivity
  <2>2. CASE ~(Reachable(net) /\ open)
    BY <1>2, <2>2 DEF Connectivity
  <2> QED
    BY <2>1, <2>2
<1>3. CASE Edit
  BY <1>3 DEF Edit, PersonalRuns!Trigger
<1>4. CASE TimerFires
  BY <1>4, RunSyncTrails DEF TimerFires
<1>5. ASSUME NEW o \in Outcome, PassEnds(o) PROVE Goal
  <2>1. running = TRUE
    BY <1>5, SMT DEF PassEnds, OrchInv, TypeOK, SingleFlight
  <2> QED
    BY <1>5, <2>1 DEF PassEnds, PersonalRuns!End, PersonalRuns!Again
<1>6. CASE ResolveStart
  BY <1>6 DEF ResolveStart
<1>7. ASSUME NEW o \in Outcome, ResolveEnds(o) PROVE Goal
  BY <1>7 DEF ResolveEnds
<1>8. CASE Unlock
  BY <1>8 DEF Unlock, PersonalRuns!Open
<1>9. CASE Start
  BY <1>9, RunSyncTrails DEF Start
<1>10. CASE Lock
  BY <1>10 DEF Lock, PersonalRuns!Close
<1>11. CASE Stop
  BY <1>11 DEF Stop
<1>12. CASE ProjectsTrigger
  BY <1>12, AwaitSyncTrails DEF ProjectsTrigger
<1>13. ASSUME NEW n, ProjectsPassEnds(n), UNCHANGED lock PROVE Goal
  BY <1>13, AwaitSyncTrails DEF ProjectsPassEnds
<1>14. CASE Identity
  BY <1>13, <1>14, AwaitSyncTrails DEF Identity
<1>15. CASE Read
  BY <1>13, <1>15 DEF Read
<1>16. CASE Finalize
  BY <1>13, <1>16 DEF Finalize
<1>17. CASE UNCHANGED vars
  BY <1>17 DEF vars
<1> QED
  BY <1>1, <1>2, <1>3, <1>4, <1>5, <1>6, <1>7, <1>8, <1>9, <1>10, <1>11, <1>12, <1>14, <1>15, <1>16, <1>17
    DEF Next, Personal, Vault, Projects

\* And to the orchestrator of the projects.
LEMMA ProjectsStep ==
  OrchInv /\ [Next]_vars => [ProjectsRun!Next]_(ProjectsRun!vars)
<1> SUFFICES ASSUME OrchInv, [Next]_vars
             PROVE  ProjectsRun!Next \/ UNCHANGED <<open, pdue, prunning>>
  BY DEF ProjectsRun!vars
<1> DEFINE Goal == ProjectsRun!Next \/ UNCHANGED <<open, pdue, prunning>>
<1> USE DEF lock, pers, projs, ProjectsRun!Next
<1>1. CASE Foreground
  BY <1>1 DEF Foreground
<1>2. ASSUME NEW net \in Network, Connectivity(net) PROVE Goal
  BY <1>2 DEF Connectivity
<1>3. CASE Edit
  BY <1>3 DEF Edit
<1>4. CASE TimerFires
  BY <1>4 DEF TimerFires
<1>5. ASSUME NEW o \in Outcome, PassEnds(o) PROVE Goal
  BY <1>5 DEF PassEnds
<1>6. CASE ResolveStart
  BY <1>6 DEF ResolveStart
<1>7. ASSUME NEW o \in Outcome, ResolveEnds(o) PROVE Goal
  BY <1>7 DEF ResolveEnds
<1>8. CASE Unlock
  BY <1>8 DEF Unlock, ProjectsRun!Open
<1>9. CASE Start
  BY <1>9 DEF Start
<1>10. CASE Lock
  BY <1>10 DEF Lock, ProjectsRun!Close
<1>11. CASE Stop
  BY <1>11 DEF Stop
<1>12. CASE ProjectsTrigger
  <2>1. prunning \in BOOLEAN
    BY DEF OrchInv, TypeOK
  <2> QED
    BY <1>12, <2>1 DEF ProjectsTrigger, ProjectsRun!Trigger, ProjectsRun!Begin
<1>13. ASSUME NEW n, pc # "idle", ProjectsPassEnds(n), UNCHANGED lock PROVE Goal
  <2>1. prunning = TRUE
    BY <1>13 DEF OrchInv, TypeOK, SingleFlight
  <2> QED
    BY <1>13, <2>1 DEF ProjectsPassEnds, ProjectsRun!Again, ProjectsRun!End
<1>14. CASE Identity
  BY <1>13, <1>14 DEF Identity
<1>15. CASE Read
  BY <1>13, <1>15 DEF Read
<1>16. CASE Finalize
  BY <1>13, <1>16 DEF Finalize
<1>17. CASE UNCHANGED vars
  BY <1>17 DEF vars
<1> QED
  BY <1>1, <1>2, <1>3, <1>4, <1>5, <1>6, <1>7, <1>8, <1>9, <1>10, <1>11, <1>12, <1>14, <1>15, <1>16, <1>17
    DEF Next, Personal, Vault, Projects

\* engine.ts and projectsEngine.ts do what TrailingRun allows and nothing else: the
\* safety half of EachRunTrails, one pass at a time and each after the last trigger.
THEOREM StepsTrail == Spec => PersonalRuns!Safety /\ ProjectsRun!Safety
<1>1. Init => PersonalRuns!Init /\ ProjectsRun!Init
  BY Zenon DEF Init, PersonalRuns!Init, ProjectsRun!Init
<1>2. OrchInv /\ OrchInv' /\ [Next]_vars
        => [PersonalRuns!Next]_(PersonalRuns!vars) /\ [ProjectsRun!Next]_(ProjectsRun!vars)
  <2>1. OrchInv' => Flags'
    BY DEF OrchInv, TypeOK, Flags
  <2> QED
    BY <2>1, PersonalStep, ProjectsStep
<1> QED
  BY OrchInvariance, <1>1, <1>2, PTL DEF Spec, PersonalRuns!Safety, ProjectsRun!Safety

-----------------------------------------------------------------------------
(* Proofs about VaultKeys.                                                 *)

NoRelock == "relock" \notin Overlap

\* The keys of a vault: a DEK that its slots wrap.
Keyed(blob, dek) == dek # 0 /\ blob.slot = dek /\ blob.dek = dek

\* Everything that holds keys on the phone holds those of the blob on disk.
KeysAgree ==
  /\ srv.dek # 0 /\ srv.slot = srv.dek
  /\ disk # NoBlob => Keyed(disk, disk.dek)
  /\ session # NoBlob => Keyed(session, disk.dek)
  /\ unlocking # NoUnlock => Keyed(unlocking.blob, disk.dek)
  /\ ident # NoIdent => session # NoBlob /\ Keyed(ident.held, disk.dek) /\ Keyed(ident.blob, disk.dek)
  /\ bio # 0 => disk.dek = bio

\* Types; and without locks in between, agreement.
KeyInv == KeysTypeOK /\ (NoRelock => KeysAgree)

\* Sealing changes the document only.
LEMMA SealKeeps ==
  ASSUME NEW b \in Blob, NEW d \in Nat
  PROVE  Seal(b, d) \in Blob /\ Seal(b, d).slot = b.slot /\ Seal(b, d).dek = b.dek
  BY DEF Seal, Blob

\* A phone that has just signed in has no vault yet.
LEMMA KeyInit == KeysInit => KeyInv
<1> SUFFICES ASSUME KeysInit PROVE KeyInv
  OBVIOUS
<1>1. KeysTypeOK
  BY BoundsAreNat, SMT DEF KeysInit, CreateVault, BuildBlob, KeysTypeOK, Blob, NoBlob, NoUnlock, NoPass, NoIdent
<1>2. KeysAgree
  BY SMT DEF KeysInit, CreateVault, BuildBlob, KeysAgree, Keyed, NoBlob, NoUnlock, NoIdent
<1> QED
  BY <1>1, <1>2 DEF KeyInv

\* Every step keeps the keys in hand those of their slots.
LEMMA KeyStep == KeyInv /\ [KeysNext]_keysVars => KeyInv'
<1> SUFFICES ASSUME KeyInv, [KeysNext]_keysVars PROVE KeyInv'
  OBVIOUS
<1> USE BoundsAreNat DEF KeyInv, KeysTypeOK, KeysAgree, Keyed, Blob, NoBlob, NoUnlock, NoPass, NoIdent, server, phone, calls, bounds
<1>1. CASE OtherEdit
  BY <1>1, SMT DEF OtherEdit, Edits, Takes, Seal, AtServer, OpensWith
<1>2. ASSUME NEW p \in Password, ChangePassword(p) PROVE KeyInv'
  BY <1>2, SMT DEF ChangePassword, Resets, Takes
<1>3. ASSUME NEW p \in Password, RecoverReset(p) PROVE KeyInv'
  <2>1. PICK dek \in {srv.dek, srv.dek + 1} : Takes(ReEncrypt(srv, p, dek), ver)
    BY <1>3 DEF RecoverReset
  <2>2. srv.dek \in Nat /\ dek \in Nat /\ (NoRelock => dek # 0)
    BY SMT
  <2> DEFINE fresh == [pw |-> p, rec |-> code + 1, slot |-> dek, dek |-> dek, doc |-> srv.doc]
  <2>3a. fresh \in Blob /\ fresh.slot = dek /\ fresh.dek = dek
    BY <2>2, SMT
  <2>3b. srv' = fresh /\ ver' = ver + 1
    BY <2>1 DEF Takes, ReEncrypt, BuildBlob
  <2>3. srv' \in Blob /\ srv'.slot = dek /\ srv'.dek = dek /\ ver' = ver + 1
    <3> HIDE DEF fresh
    <3> QED BY <2>3a, <2>3b
  <2>4. KeysTypeOK'
    BY <1>3, <2>3, SMT DEF RecoverReset, Resets
  <2>5. NoRelock => KeysAgree'
    BY <1>3, <2>2, <2>3, SMT DEF RecoverReset, Resets
  <2> QED
    BY <2>4, <2>5 DEF NoRelock
<1>4. CASE Pull
  BY <1>4, SMT DEF Pull
<1>5. ASSUME NEW p \in Password, UnlockStart(p) PROVE KeyInv'
  BY <1>5, SMT DEF UnlockStart
<1>6. CASE UnlockDone
  <2>1. CASE OpensWith(unlocking.blob, unlocking.pw)
    <3>1. session' = unlocking.blob /\ master' = unlocking.pw /\ meta' \in [ver : Nat, fp : Nat]
      BY <1>6, <2>1, SMT DEF UnlockDone, Publish
    <3>2. NoRelock => disk # NoBlob
      BY <1>6, SMT DEF UnlockDone
    <3>3. KeysTypeOK'
      BY <1>6, <3>1, <3>2, SMT DEF UnlockDone, NoRelock
    <3>4. NoRelock => KeysAgree'
      BY <1>6, <3>1, SMT DEF UnlockDone
    <3> QED
      BY <3>3, <3>4 DEF NoRelock
  <2>2. CASE ~OpensWith(unlocking.blob, unlocking.pw)
    BY <1>6, <2>2, SMT DEF UnlockDone
  <2> QED
    BY <2>1, <2>2
<1>7. CASE UnlockBiometric
  BY <1>7, SMT DEF UnlockBiometric, Publish, OpensWithDek
<1>8. CASE EnrollBiometric
  BY <1>8, SMT DEF EnrollBiometric
<1>9. CASE LockVault
  BY <1>9, SMT DEF LockVault, Forget, NoRelock
<1>10. CASE SignOut
  BY <1>10, SMT DEF SignOut, Forget, NoRelock
<1>11. CASE Commit
  BY <1>11, SMT DEF Commit, Edits, Seal
<1>12. CASE PassFetch
  BY <1>12, SMT DEF PassFetch
<1>13. CASE PassOpen
  BY <1>13, SMT DEF PassOpen, Ends
<1>14. CASE PassAdopt
  BY <1>14, SMT DEF PassAdopt, Ends, Seal
<1>15. CASE PassPut
  BY <1>15, SMT DEF PassPut, Ends, Takes, Fails
<1>16. CASE PassDrops
  BY <1>16, SMT DEF PassDrops, Ends
<1>17. CASE IdentStart
  BY <1>17, SMT DEF IdentStart, Edits, Seal
<1>18. CASE IdentPut
  <2>1. CASE Takes(ident.blob, ident.ver)
    <3>1. srv' = ident.blob /\ ver' = ver + 1 /\ ident # NoIdent
      BY <1>18, <2>1, SMT DEF IdentPut, Takes
    <3>2. CASE ident' = NoIdent
      BY <1>18, <3>1, <3>2, SMT DEF IdentPut, Fails
    <3>3. CASE ident' = [ident EXCEPT !.pc = "persist", !.ver = ver']
      <4>1. ident'.held = ident.held /\ ident'.blob = ident.blob /\ ident'.pc = "persist" /\ ident'.ver = ver + 1
        BY <3>1, <3>3, SMT
      <4>2. ident' \in [pc : {"idle", "put", "retry", "reput", "persist"}, held : Blob, blob : Blob, ver : Nat]
        <5>1. ver + 1 \in Nat /\ ident \in [pc : {"idle", "put", "retry", "reput", "persist"}, held : Blob, blob : Blob, ver : Nat]
          BY SMT
        <5>2. ident' = [ident EXCEPT !.pc = "persist", !.ver = ver + 1]
          BY <3>1, <3>3
        <5> HIDE DEF Blob
        <5> QED BY <5>1, <5>2
      <4>3. KeysTypeOK'
        BY <1>18, <3>1, <4>2, SMT DEF IdentPut, Fails
      <4>4. NoRelock => KeysAgree'
        BY <1>18, <3>1, <4>1, SMT DEF IdentPut, Fails
      <4> QED
        BY <4>3, <4>4 DEF NoRelock
    <3> QED
      BY <1>18, <2>1, <3>2, <3>3, SMT DEF IdentPut, Takes
  <2>2. CASE ident.ver # ver
    BY <1>18, <2>2, SMT DEF IdentPut, Takes
  <2> QED
    BY <1>18, <2>1, <2>2 DEF IdentPut
<1>19. CASE IdentRetry
  <2>1. ident.held \in Blob /\ ident.blob.doc \in Nat
    BY SMT
  <2>2. Seal(Held, ident.blob.doc) \in Blob /\ Seal(Held, ident.blob.doc).slot = ident.held.slot
          /\ Seal(Held, ident.blob.doc).dek = ident.held.dek
    <3>1. ident.held \in Blob
      BY <2>1
    <3> HIDE DEF Blob
    <3> QED BY <2>1, <3>1, SealKeeps DEF Held
  <2>3. CASE Readable(srv, Held)
    <3>1. ident' = [pc |-> "reput", held |-> ident.held, blob |-> Seal(Held, ident.blob.doc), ver |-> ver]
      BY <1>19, <2>3 DEF IdentRetry, Held
    <3>2. KeysTypeOK'
      BY <1>19, <2>1, <2>2, <3>1, SMT DEF IdentRetry
    <3>3. NoRelock => KeysAgree'
      BY <1>19, <2>1, <2>2, <3>1, SMT DEF IdentRetry
    <3> QED
      BY <3>2, <3>3 DEF NoRelock
  <2>4. CASE ~Readable(srv, Held)
    BY <1>19, <2>4, SMT DEF IdentRetry
  <2> QED
    BY <2>3, <2>4
<1>20. CASE IdentPersist
  <2>1. ident # NoIdent /\ ident.blob \in Blob /\ ident.blob.doc \in Nat /\ ident.ver \in Nat
    BY <1>20, SMT DEF IdentPersist
  <2>2. session' \in Blob
    BY <1>20, <2>1, SMT DEF IdentPersist, Seal
  <2>3. NoRelock => disk' # NoBlob
    BY <1>20, <2>1, SMT DEF IdentPersist
  <2>4. KeysTypeOK'
    BY <1>20, <2>1, <2>2, <2>3, SMT DEF IdentPersist, NoRelock
  <2>5. NoRelock => KeysAgree'
    BY <1>20, <2>1, SMT DEF IdentPersist, Seal
  <2> QED
    BY <2>4, <2>5 DEF NoRelock
<1>21. CASE UNCHANGED keysVars
  BY <1>21, SMT DEF keysVars
<1> QED
  BY <1>1, <1>2, <1>3, <1>4, <1>5, <1>6, <1>7, <1>8, <1>9, <1>10, <1>11, <1>12, <1>13, <1>14, <1>15,
     <1>16, <1>17, <1>18, <1>19, <1>20, <1>21
     DEF KeysNext, Others, Device, Unlocks, Passes, Idents

-----------------------------------------------------------------------------
(* The theorems.                                                           *)

\* The inductive invariant holds of every behaviour.  (wharfv.ts, unlock.ts,
\* sync/deps.ts, identity.ts.)
THEOREM KeyInvariance == KeysSpec => []KeyInv
  BY KeyInit, KeyStep, PTL DEF KeysSpec

\* Every variable keeps its type, whatever overlaps; in particular a vault is unlocked
\* only while there is one on disk.  (clearVaultSession at a sign-out.)
THEOREM KeyTypes == KeysSpec => []KeysTypeOK
<1>1. KeyInv => KeysTypeOK
  BY DEF KeyInv
<1> QED
  BY <1>1, KeyInvariance, PTL

\* What is stored opens, with its slots and with the DEK behind biometrics, as long as
\* the vault is not locked under a push of the identity: adopting, editing, pushing and
\* re-keying never pair slots, or a cached DEK, with a body under another DEK.
\* (sealPayload, adopt, pushIdentity, biometric.ts.)
THEOREM StoredOpens == KeysSpec => [](NoRelock => VaultOpens)
<1>1. KeyInv => (NoRelock => VaultOpens)
  BY DEF KeyInv, KeysAgree, VaultOpens, Keyed, NoBlob
<1> QED
  BY <1>1, KeyInvariance, PTL
=============================================================================
