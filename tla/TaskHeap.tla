------------------------------ MODULE TaskHeap ------------------------------
(***************************************************************************)
(* waiting_service/task_heap.go and heap.go: the prioritized list as it is *)
(* stored.  pq is an array of pointers to items; an item knows its task    *)
(* and its own position; the index maps a task's id to the position field  *)
(* of one item, so that DeleteIfExist finds the place of a task although   *)
(* every swap moves items around.  The array starts at 0, as in Go.        *)
(*                                                                         *)
(* container/heap is modelled here from its use: Push, Pop, Remove, Init   *)
(* and the loops up and down, which see the array through Less, Swap, Push *)
(* and Pop only.  A method is a first step, one step for each turn of a    *)
(* loop and a last step.  It holds the mutex for all of its work: the next *)
(* method starts when it has returned.                                     *)
(*                                                                         *)
(* An item is a model value of Items (its address).  A popped item has     *)
(* position -1 and is free for the next Add once no entry points to it.    *)
(***************************************************************************)
EXTENDS PrioritizedTaskList, Integers, FiniteSets, Sequences

CONSTANTS
    Items,        \* addresses of items; bound: tasks in the list at once
    InitialLists  \* the lists given to NewPrioritizedTask

ASSUME ItemsAssumption == Nil \notin Items

ASSUME InitialListsAssumption ==
    \A tasks \in InitialLists : tasks \in Seq(Task) /\ Len(tasks) <= Cardinality(Items)

VARIABLES
    heap,     \* pq, and the items it points to
    index,    \* id -> item whose position DeleteIfExist reads
    run,      \* the method that holds the mutex, with the variables of its loop
    last,     \* the last call that returned and its answer
    doubled   \* ids added while they were in the list, since they last were not (history)

vars == <<heap, index, run, last, doubled>>

FreeItem == [task |-> Nil, index |-> -1]

Size(h) == Cardinality(DOMAIN h.pq)

-----------------------------------------------------------------------------
(* heap.go                                                                  *)

Less(h, i, j) == h.item[h.pq[i]].task.execTime < h.item[h.pq[j]].task.execTime

(* A wrong variant: one of the two items keeps its old position.            *)
SwapForgetsOne(h, i, j) ==
    [pq   |-> [h.pq EXCEPT ![i] = h.pq[j], ![j] = h.pq[i]],
     item |-> [h.item EXCEPT ![h.pq[j]].index = i]]

Swap(h, i, j) ==
    [pq   |-> [h.pq EXCEPT ![i] = h.pq[j], ![j] = h.pq[i]],
     item |-> [h.item EXCEPT ![h.pq[j]].index = i, ![h.pq[i]].index = j]]

PushItem(h, x, t) ==
    LET n == Size(h)
    IN  [pq   |-> [i \in 0..n |-> IF i = n THEN x ELSE h.pq[i]],
         item |-> [h.item EXCEPT ![x] = [task |-> t, index |-> n]]]

LastItem(h) == h.pq[Size(h) - 1]

PopItem(h) ==
    [pq   |-> [i \in 0..(Size(h) - 2) |-> h.pq[i]],
     item |-> [h.item EXCEPT ![LastItem(h)] = FreeItem]]

-----------------------------------------------------------------------------
(* container/heap                                                           *)

(* A method works on arg (the item of Add, the id of DeleteIfExist); from   *)
(* is where its loop began, at where the loop is.                           *)
Start(method, arg, loop, i) ==
    [method |-> method, arg |-> arg, loop |-> loop, from |-> i, at |-> i]

Idle == Start("idle", Nil, "none", 0)

Parent(j) == (j - 1) \div 2

(* What Pop and Remove take out is behind the heap while they work.         *)
Limit == IF run.method \in {"take", "delete"} THEN Size(heap) - 1 ELSE Size(heap)

EarlierChild(i) ==
    IF 2 * i + 2 < Limit /\ Less(heap, 2 * i + 2, 2 * i + 1) THEN 2 * i + 2 ELSE 2 * i + 1

Rises == run.at > 0 /\ Less(heap, run.at, Parent(run.at))

Sinks == 2 * run.at + 1 < Limit /\ Less(heap, EarlierChild(run.at), run.at)

(* up                                                                       *)
Rise ==
    /\ run.loop = "up" /\ Rises
    /\ heap' = Swap(heap, Parent(run.at), run.at)
    /\ run' = [run EXCEPT !.at = Parent(run.at)]
    /\ UNCHANGED <<index, last, doubled>>

RiseEnds ==
    /\ run.loop = "up" /\ ~Rises
    /\ run' = [run EXCEPT !.loop = "none"]
    /\ UNCHANGED <<heap, index, last, doubled>>

(* down                                                                     *)
Sink ==
    /\ run.loop = "down" /\ Sinks
    /\ heap' = Swap(heap, run.at, EarlierChild(run.at))
    /\ run' = [run EXCEPT !.at = EarlierChild(run.at)]
    /\ UNCHANGED <<index, last, doubled>>

(* heap.Init: sink every inner node, the last one first.                    *)
SinkNode(i) == Start("new", Nil, IF i < 0 THEN "none" ELSE "down", i)

(* A wrong variant: the item moved into the gap only ever sinks.            *)
NeverRise(r) ==
    IF r.method = "new" THEN SinkNode(r.from - 1) ELSE [r EXCEPT !.loop = "none"]

(* An item that Remove put into the gap and that did not sink may rise.     *)
AfterSinking(r) ==
    IF r.method = "new" THEN SinkNode(r.from - 1)
    ELSE [r EXCEPT !.loop = IF r.method = "delete" /\ r.at = r.from THEN "up" ELSE "none"]

SinkEnds ==
    /\ run.loop = "down" /\ ~Sinks
    /\ run' = AfterSinking(run)
    /\ UNCHANGED <<heap, index, last, doubled>>

-----------------------------------------------------------------------------
(* task_heap.go                                                             *)

Call(op, arg, answer) == [op |-> op, arg |-> arg, answer |-> answer]

InHeap(h) == {h.pq[i] : i \in DOMAIN h.pq}

(* How many items of the list have this id.                                 *)
Copies(h, id) == Cardinality({x \in InHeap(h) : h.item[x].task.id = id})

(* An array with the tasks at the places they were given in.                *)
Unordered(tasks, xs) ==
    [pq   |-> [i \in 0..(Len(tasks) - 1) |-> xs[i + 1]],
     item |-> [x \in Items |->
                 IF \E i \in DOMAIN tasks : xs[i] = x
                 THEN LET i == CHOOSE j \in DOMAIN tasks : xs[j] = x
                      IN  [task |-> tasks[i], index |-> i - 1]
                 ELSE FreeItem]]

(* NewPrioritizedTask: of two tasks with one id the later has the entry.    *)
New(tasks, xs) ==
    /\ heap = Unordered(tasks, xs)
    /\ index = [id \in Ids |->
                  IF \E i \in DOMAIN tasks : tasks[i].id = id
                  THEN xs[Latest(tasks, id)]
                  ELSE Nil]
    /\ run = SinkNode((Len(tasks) \div 2) - 1)

Injections(n) == {xs \in [1..n -> Items] : \A i, j \in 1..n : xs[i] = xs[j] => i = j}

Init ==
    /\ \E tasks \in InitialLists : \E xs \in Injections(Len(tasks)) : New(tasks, xs)
    /\ last = Call("new", Nil, Nil)
    /\ doubled = {id \in Ids : Copies(heap, id) > 1}

NewReturns ==
    /\ run.method = "new" /\ run.loop = "none"
    /\ run' = Idle
    /\ UNCHANGED <<heap, index, last, doubled>>

(* An address nothing points to.                                            *)
IsFree(x) == x \notin InHeap(heap) /\ \A id \in Ids : index[id] # x

(* Add: heap.Push ...                                                       *)
AddTask(t) ==
    /\ run = Idle
    /\ \E x \in Items :
          /\ IsFree(x)
          /\ heap' = PushItem(heap, x, t)
          /\ run' = Start("add", x, "up", Size(heap))
    /\ doubled' = IF Copies(heap, t.id) > 0 THEN doubled \cup {t.id} ELSE doubled
    /\ UNCHANGED <<index, last>>

(* A wrong variant: an id that has an entry keeps it.                       *)
EnterIfAbsent(id, x) == IF index[id] = Nil THEN [index EXCEPT ![id] = x] ELSE index

(* A wrong variant: the new item is not entered.                            *)
EnterNothing(id, x) == index

(* ... h.index[task.Id] = &item.index                                       *)
Enter(id, x) == [index EXCEPT ![id] = x]

AddReturns ==
    /\ run.method = "add" /\ run.loop = "none"
    /\ LET t == heap.item[run.arg].task
       IN  index' = Enter(t.id, run.arg) /\ last' = Call("add", t, Nil)
    /\ run' = Idle
    /\ UNCHANGED <<heap, doubled>>

(* An id is no longer doubled when the list has lost its last copy.         *)
Undouble == doubled' = {id \in doubled : Copies(heap', id) > 0}

(* delete(h.index, id)                                                      *)
Forget(id) == [index EXCEPT ![id] = Nil]

(* DeleteIfExist: heap.Remove exchanges the item with the last one ...      *)
DeleteFound(id) ==
    /\ run = Idle /\ index[id] # Nil
    /\ LET i == heap.item[index[id]].index
           n == Size(heap) - 1
       IN  \/ /\ i = n
              /\ run' = Start("delete", id, "none", i)
              /\ UNCHANGED heap
           \/ /\ i # n
              /\ run' = Start("delete", id, "down", i)
              /\ heap' = Swap(heap, i, n)
    /\ UNCHANGED <<index, last, doubled>>

(* ... and cuts it off.                                                     *)
DeleteReturns ==
    /\ run.method = "delete" /\ run.loop = "none"
    /\ heap' = PopItem(heap)
    /\ index' = Forget(run.arg)
    /\ last' = Call("delete", run.arg, TRUE)
    /\ run' = Idle
    /\ Undouble

DeleteMissing(id) ==
    /\ run = Idle /\ index[id] = Nil
    /\ last' = Call("delete", id, FALSE)
    /\ UNCHANGED <<heap, index, run, doubled>>

(* Take: heap.Pop exchanges the first item with the last one ...            *)
TakeFirst ==
    /\ run = Idle /\ Size(heap) > 0
    /\ heap' = Swap(heap, 0, Size(heap) - 1)
    /\ run' = Start("take", Nil, "down", 0)
    /\ UNCHANGED <<index, last, doubled>>

(* ... and cuts it off.                                                     *)
TakeReturns ==
    /\ run.method = "take" /\ run.loop = "none"
    /\ heap' = PopItem(heap)
    /\ LET t == heap.item[LastItem(heap)].task
       IN  index' = Forget(t.id) /\ last' = Call("take", Nil, t)
    /\ run' = Idle
    /\ Undouble

TakeFromEmpty ==
    /\ run = Idle /\ Size(heap) = 0
    /\ last' = Call("take", Nil, Nil)
    /\ UNCHANGED <<heap, index, run, doubled>>

Loops == Rise \/ RiseEnds \/ Sink \/ SinkEnds

Returns == NewReturns \/ AddReturns \/ DeleteReturns \/ TakeReturns

Next ==
    \/ \E t \in Task : AddTask(t)
    \/ \E id \in Ids : DeleteFound(id) \/ DeleteMissing(id)
    \/ TakeFirst \/ TakeFromEmpty
    \/ Loops
    \/ Returns

Spec == Init /\ [][Next]_vars

-----------------------------------------------------------------------------
(* Properties                                                               *)

Run ==
    [method : {"idle", "new", "add", "delete", "take"}, arg : Items \cup Ids \cup {Nil},
     loop : {"none", "up", "down"}, from : Int, at : Int]

(* Types; the array has no gap and points to different items, none of them  *)
(* freed.                                                                   *)
TypeOK ==
    /\ Size(heap) \in Nat /\ DOMAIN heap.pq = 0..(Size(heap) - 1)
    /\ \A i \in DOMAIN heap.pq :
          heap.pq[i] \in Items /\ heap.item[heap.pq[i]] # FreeItem
    /\ \A i, j \in DOMAIN heap.pq : heap.pq[i] = heap.pq[j] => i = j
    /\ heap.item \in [Items -> [task : Task, index : Nat] \cup {FreeItem}]
    /\ index \in [Ids -> Items \cup {Nil}]
    /\ run \in Run
    /\ doubled \subseteq Ids

(* Whenever a method has returned, no task is above one that is due         *)
(* earlier, also after a task was cut out of the middle: Take returns the   *)
(* root without looking further.                                            *)
HeapOrdered ==
    run = Idle => \A i \in DOMAIN heap.pq : i > 0 => ~Less(heap, i, Parent(i))

(* Types hold; every item knows where it is, whatever swaps moved it, and   *)
(* an entry of the index points to an item of its id that is in the array:  *)
(* otherwise DeleteIfExist would remove another task, or panic at -1.       *)
PositionsKnown ==
    /\ TypeOK
    /\ \A i \in DOMAIN heap.pq : heap.item[heap.pq[i]].index = i
    /\ \A id \in Ids : index[id] # Nil =>
          index[id] \in InHeap(heap) /\ heap.item[index[id]].task.id = id

(* When DeleteIfExist returns, it has removed one task of its id if it      *)
(* answers true and none if it answers false.  For an id that was not added *)
(* twice it answers whether the id was there and leaves none ("Searches for *)
(* a task and deletes it"); of a doubled id it may leave the copy that has  *)
(* lost its entry.                                                          *)
DeleteIsExact ==
    [][run' = Idle /\ last'.op = "delete" =>
         LET id == last'.arg
         IN  /\ Copies(heap', id) = IF last'.answer THEN Copies(heap, id) - 1 ELSE Copies(heap, id)
             /\ \A other \in Ids \ {id} : Copies(heap', other) = Copies(heap, other)
             /\ id \notin doubled => Copies(heap', id) = 0]_vars

(* The items of the list: the item of an Add belongs to it when Add         *)
(* returns.                                                                 *)
Listed == IF run.method = "add" THEN InHeap(heap) \ {run.arg} ELSE InHeap(heap)

(* The array and the pointers implement the list that WaitingService works  *)
(* with: every call changes the bag of tasks and its index as               *)
(* PrioritizedTaskList says and gives the same answer, and the turns of the *)
(* loops change neither.                                                    *)
List ==
    INSTANCE TaskListSpec WITH
        list <- [pq    |-> [t \in Task |-> Cardinality({x \in Listed : heap.item[x].task = t})],
                 index |-> [id \in Ids |->
                              IF index[id] = Nil THEN Nil ELSE heap.item[index[id]].task]]

ImplementsList == List!Spec

=============================================================================
