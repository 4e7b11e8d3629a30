---------------------------- MODULE DeliverySpec -----------------------------
(***************************************************************************)
(* What an application may rely on (README.md: "The system is durable to   *)
(* failures"): a created task stays in the database until it is cancelled  *)
(* or until it was completed, whatever crashes and restarts in between.    *)
(* Nothing of the service's memory is left here; TriggerHook implements it.*)
(***************************************************************************)
CONSTANTS Ids, ExecTimes, Nil

VARIABLES
    row,  \* the stored time of an id, Nil without a row
    done  \* ids the application has done with: confirmed by a consumer or cancelled

vars == <<row, done>>

Init == row = [id \in Ids |-> Nil] /\ done = {}

Create(id, e) ==
    /\ row[id] = Nil
    /\ row' = [row EXCEPT ![id] = e]
    /\ done' = done \ {id}

Cancel(id) ==
    /\ row[id] # Nil
    /\ row' = [row EXCEPT ![id] = Nil]
    /\ done' = done \cup {id}

Complete(id) ==
    /\ row[id] # Nil
    /\ done' = done \cup {id}
    /\ UNCHANGED row

(* The service removes only what the application has done with.             *)
Remove(ids) ==
    /\ ids \subseteq done
    /\ row' = [id \in Ids |-> IF id \in ids THEN Nil ELSE row[id]]
    /\ UNCHANGED done

Next ==
    \/ \E id \in Ids : (\E e \in ExecTimes : Create(id, e)) \/ Cancel(id) \/ Complete(id)
    \/ \E ids \in SUBSET Ids : Remove(ids)

Spec == Init /\ [][Next]_vars

=============================================================================
