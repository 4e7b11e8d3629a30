------------------------ MODULE PrioritizedTaskList ------------------------
(***************************************************************************)
(* What waiting_service/task_heap.go promises its caller: a list of tasks  *)
(* that hands out the earliest one and forgets one by its id.              *)
(*                                                                         *)
(* pq is the heap's content as a bag (the same task can be added twice,    *)
(* nothing in Add prevents it).  index is the map from a task's id to the  *)
(* heap item that DeleteIfExist will remove: Go keeps a pointer to the     *)
(* item's position, here it is the item itself, Nil when the id has no     *)
(* entry.  Add overwrites the entry of its id, Take and DeleteIfExist      *)
(* erase it; so after two Adds of one id the older item has no entry.      *)
(***************************************************************************)
EXTENDS Naturals

CONSTANTS
    Ids,        \* uuids of tasks
    ExecTimes,  \* execution times, in seconds
    Nil         \* the nil pointer

ASSUME ExecTimesAssumption == ExecTimes \subseteq Nat
ASSUME NilAssumption == Nil \notin [id : Ids, execTime : ExecTimes]
                         /\ Nil \notin ExecTimes

Task == [id : Ids, execTime : ExecTimes]

TaskList == [pq : [Task -> Nat], index : [Ids -> Task \cup {Nil}]]

EmptyList == [pq |-> [t \in Task |-> 0], index |-> [id \in Ids |-> Nil]]

Has(l, t) == l.pq[t] > 0

IsEmpty(l) == \A t \in Task : ~Has(l, t)

-----------------------------------------------------------------------------

Add(l, t) ==
    [pq    |-> [l.pq EXCEPT ![t] = @ + 1],
     index |-> [l.index EXCEPT ![t.id] = t]]

DeleteIfExist(l, id) ==
    IF l.index[id] = Nil
    THEN l
    ELSE [pq    |-> [l.pq EXCEPT ![l.index[id]] = @ - 1],
          index |-> [l.index EXCEPT ![id] = Nil]]

(* The tasks heap.Pop may return: the heap decides between equal times.     *)
Firsts(l) ==
    {t \in Task : Has(l, t) /\ \A u \in Task : Has(l, u) => t.execTime <= u.execTime}

(* A wrong variant: Take leaves the entry of the index.                     *)
TakeKeepsIndex(l, t) == [l EXCEPT !.pq[t] = @ - 1]

(* What is left after Take returned t.                                      *)
Take(l, t) ==
    [pq    |-> [l.pq EXCEPT ![t] = @ - 1],
     index |-> [l.index EXCEPT ![t.id] = Nil]]

(* The place of the last task with this id: its entry is the one that stays *)
(* when a list is built from a sequence of tasks.                           *)
Latest(tasks, id) ==
    CHOOSE i \in DOMAIN tasks :
        tasks[i].id = id /\ \A j \in DOMAIN tasks : tasks[j].id = id => j <= i

(* No entry of the index dangles: DeleteIfExist removes an item that is in  *)
(* the heap and has the id it was asked for.                                *)
IndexIsLive(l) ==
    \A id \in Ids : l.index[id] # Nil => l.index[id].id = id /\ Has(l, l.index[id])

=============================================================================
