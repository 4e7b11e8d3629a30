----------------------------- MODULE SenderSpec ------------------------------
(***************************************************************************)
(* What the sender service promises the rest of the system: a task it got  *)
(* from the waiting service is given to a consumer, given again after each *)
(* rollback, and once confirmed its row is deleted - or the deletion fails *)
(* and the task stays in the database until the next start.                *)
(*                                                                         *)
(* Tasks are counted, because the same task may arrive twice.  Pools,      *)
(* buffers, batches and goroutines are gone: SenderService implements this *)
(* specification, TriggerHook builds on it.                                *)
(***************************************************************************)
EXTENDS Naturals

CONSTANT Tasks

VARIABLES
    ready,       \* waiting to be consumed: how many of each task
    given,       \* in a consumer's hands
    rolledBack,  \* to be given again
    confirming,  \* confirmed, their deletion is still to come
    row          \* tasks that are in the database

vars == <<ready, given, rolledBack, confirming, row>>

None == [t \in Tasks |-> 0]

More(b, t) == [b EXCEPT ![t] = @ + 1]

Less(b, t) == [b EXCEPT ![t] = @ - 1]

Init ==
    /\ ready = [t \in Tasks |-> 1]
    /\ given = None /\ rolledBack = None /\ confirming = None
    /\ row = Tasks

(* The steps below leave ready and row to the caller.                       *)

Give(t) ==
    /\ given' = More(given, t)
    /\ UNCHANGED <<rolledBack, confirming>>

GiveAgain(t) ==
    /\ rolledBack[t] > 0
    /\ rolledBack' = Less(rolledBack, t)
    /\ given' = More(given, t)
    /\ UNCHANGED confirming

Rollback(t) ==
    /\ given[t] > 0
    /\ given' = Less(given, t)
    /\ rolledBack' = More(rolledBack, t)
    /\ UNCHANGED confirming

Confirm(t) ==
    /\ given[t] > 0
    /\ given' = Less(given, t)
    /\ confirming' = More(confirming, t)
    /\ UNCHANGED rolledBack

(* A batch, each task in it once, leaves the sender.                        *)
Settle(batch) ==
    /\ \A t \in batch : confirming[t] > 0
    /\ confirming' = [t \in Tasks |-> IF t \in batch THEN confirming[t] - 1 ELSE confirming[t]]
    /\ UNCHANGED <<given, rolledBack>>

Next ==
    \/ \E t \in Tasks :
          \/ ready[t] > 0 /\ ready' = Less(ready, t) /\ Give(t) /\ UNCHANGED row
          \/ (GiveAgain(t) \/ Rollback(t) \/ Confirm(t)) /\ UNCHANGED <<ready, row>>
    \/ \E batch \in (SUBSET Tasks) \ {{}} :
          Settle(batch) /\ row' \in {row, row \ batch} /\ UNCHANGED ready

Spec == Init /\ [][Next]_vars

=============================================================================
