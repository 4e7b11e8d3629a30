---------------------------- MODULE TaskListSpec ----------------------------
(***************************************************************************)
(* What prioritizedTaskListInterface promises the waiting service, as a    *)
(* specification: calls on a list of tasks and their answers.  The list is *)
(* the bag of PrioritizedTaskList that WaitingService works with; TaskHeap *)
(* implements it.                                                          *)
(***************************************************************************)
EXTENDS PrioritizedTaskList, FiniteSets, Sequences

CONSTANT InitialLists  \* the lists of tasks given to NewPrioritizedTask

VARIABLES
    list,  \* the content of the list
    last   \* the last call and its answer

vars == <<list, last>>

Call(op, arg, answer) == [op |-> op, arg |-> arg, answer |-> answer]

(* The list that holds the tasks of a sequence.                             *)
ListOf(tasks) ==
    [pq    |-> [t \in Task |-> Cardinality({i \in DOMAIN tasks : tasks[i] = t})],
     index |-> [id \in Ids |->
                  IF \E i \in DOMAIN tasks : tasks[i].id = id
                  THEN tasks[Latest(tasks, id)]
                  ELSE Nil]]

Init ==
    /\ \E tasks \in InitialLists : list = ListOf(tasks)
    /\ last = Call("new", Nil, Nil)

AddTask(t) ==
    /\ list' = Add(list, t)
    /\ last' = Call("add", t, Nil)

TakeFirst ==
    \E t \in Firsts(list) :
        /\ list' = Take(list, t)
        /\ last' = Call("take", Nil, t)

TakeFromEmpty ==
    /\ IsEmpty(list)
    /\ last' = Call("take", Nil, Nil)
    /\ UNCHANGED list

DeleteId(id) ==
    /\ list' = DeleteIfExist(list, id)
    /\ last' = Call("delete", id, list.index[id] # Nil)

Next ==
    \/ \E t \in Task : AddTask(t)
    \/ TakeFirst
    \/ TakeFromEmpty
    \/ \E id \in Ids : DeleteId(id)

Spec == Init /\ [][Next]_vars

=============================================================================
