---------------------------- MODULE TrailingRun ----------------------------
(***************************************************************************)
(* What an orchestrator of passes promises, as the headers of engine.ts    *)
(* and projectsEngine.ts state it: one pass at a time, and a trigger that  *)
(* fires during a pass is followed by another pass, unless the vault is    *)
(* locked first.                                                           *)
(***************************************************************************)
VARIABLES open,   \* the vault is unlocked and its user signed in
          wanted, \* a trigger that no pass has begun after
          busy    \* a pass is under way

vars == <<open, wanted, busy>>

Init == ~open /\ ~wanted /\ ~busy

Open  == ~open /\ open' = TRUE /\ UNCHANGED <<wanted, busy>>
Close == open /\ open' = FALSE /\ wanted' = FALSE /\ UNCHANGED busy

\* A trigger, and the pass it may begin at once.
Trigger == open /\ wanted' = TRUE /\ UNCHANGED <<open, busy>>
Begin   == open /\ ~busy /\ busy' = TRUE /\ wanted' = FALSE /\ UNCHANGED open

\* A pass ends, or ends and begins again.
End     == busy /\ busy' = FALSE /\ UNCHANGED <<open, wanted>>
Again   == busy /\ open /\ wanted' = FALSE /\ UNCHANGED <<open, busy>>

Next == Open \/ Close \/ Trigger \/ Begin \/ End \/ Again

Safety == Init /\ [][Next]_vars

\* What is wanted begins, though passes take their time.
Spec == Safety /\ WF_vars(wanted /\ (Begin \/ Again))
=============================================================================
