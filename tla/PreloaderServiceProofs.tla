----------------------- MODULE PreloaderServiceProofs -----------------------
(***************************************************************************)
(* For every number of creators, deleters and workers, every set of tasks  *)
(* and times, every option of the services, with database faults and       *)
(* restarts: what a create may take in time for the preloader never to     *)
(* strand a task and for the cleaning never to break a create.             *)
(***************************************************************************)
EXTENDS PreloaderService, TLAPS

USE TimeAssumption, CountAssumption, MaxCollectionsAssumption, CleanAgeAssumption,
    NilRowAssumption
USE DEF tables, clients, preloader, history, CollectionIds

(* The remainder kept in cleanRequestCount is a remainder.                  *)
LEMMA Remainder ==
    ASSUME NEW n \in Nat, NEW m \in Nat \ {0}
    PROVE  n % m \in 0..(m - 1)
OBVIOUS

(* The range in which a new task counts as taken is a number.               *)
LEMMA RangeIsNat == NewTaskRange \in Nat
BY DEF NewTaskRange

(* A step that leaves a group of variables alone keeps its type.            *)
LEMMA TypeFrame ==
    ASSUME TypeOK
    PROVE  /\ UNCHANGED <<collection, lastId, taskRow, instance>> => RepositoryTypeOK'
           /\ UNCHANGED <<clock, call>> => CreatorsTypeOK'
           /\ UNCHANGED <<deleter, cleanRequestCount>> => DeletersTypeOK'
           /\ UNCHANGED <<pc, wakeAt, deadline, try, pending, worker>> => RunTypeOK'
           /\ UNCHANGED <<loads, accepted, deleted, fatal, faults>> => HistoryTypeOK'
BY DEF TypeOK, RepositoryTypeOK, CreatorsTypeOK, DeletersTypeOK, RunTypeOK, HistoryTypeOK,
       Exists

(* A creator's call changes to a well-formed one.                           *)
LEMMA CallStep ==
    ASSUME TypeOK, NEW c \in Creators, NEW v \in Call, UNCHANGED clock,
           call' = [call EXCEPT ![c] = v],
           v.pc # "idle" => v.id \in Ids,
           v.pc = "insertTask" => v.coll \in CollectionIds
    PROVE  CreatorsTypeOK'
BY DEF TypeOK, CreatorsTypeOK

(* Choosing a collection and starting again are well-formed calls.          *)
LEMMA CallValues ==
    ASSUME NEW v \in Call
    PROVE  /\ \A k \in CollectionIds :
                 /\ Chosen(v, k) \in Call
                 /\ Chosen(v, k).pc = "insertTask" /\ Chosen(v, k).coll = k
                 /\ Chosen(v, k).id = v.id /\ Chosen(v, k).execTime = v.execTime
                 /\ Chosen(v, k).start = v.start /\ Chosen(v, k).isTaken = v.isTaken
           /\ v.try < MaxRetry =>
                 /\ Again(v) \in Call
                 /\ Again(v).pc = "find"
                 /\ Again(v).id = v.id /\ Again(v).execTime = v.execTime
                 /\ Again(v).start = v.start /\ Again(v).isTaken = v.isTaken
<1>1. /\ v.id \in Ids \cup {Nil} /\ v.execTime \in Nat /\ v.isTaken \in BOOLEAN
      /\ v.start \in Nat /\ v.try \in 0..MaxRetry
  BY DEF Call
<1>2. ASSUME v.try < MaxRetry PROVE v.try + 1 \in 0..MaxRetry
  BY <1>1, <1>2
<1> QED  BY <1>1, <1>2 DEF Call, CallAt, Chosen, Again

(* One worker moves to a well-formed state.                                 *)
LEMMA WorkerStep ==
    ASSUME TypeOK, NEW w \in Workers, NEW v \in WorkerState,
           worker' = [worker EXCEPT ![w] = v], pending' \subseteq pending,
           UNCHANGED <<pc, wakeAt, deadline, try>>
    PROVE  RunTypeOK'
BY DEF TypeOK, RunTypeOK

(* A fault is counted within its bound.                                     *)
LEMMA FaultStep ==
    ASSUME TypeOK, Fault, UNCHANGED <<loads, accepted, deleted>>, fatal' \in BOOLEAN
    PROVE  HistoryTypeOK'
BY DEF TypeOK, HistoryTypeOK, Fault

(* The transaction of FindBySecToExecTime keeps the table's type.           *)
LEMMA TakeStep ==
    ASSUME TypeOK, TakeCollections(Due(clock + TimePreload)),
           UNCHANGED <<lastId, taskRow, instance>>
    PROVE  RepositoryTypeOK'
<1>1. \A k \in Due(clock + TimePreload) : k \in CollectionIds /\ collection[k] \in Row
  BY DEF Due, Exists, TypeOK, RepositoryTypeOK
<1>2. \A k \in CollectionIds : collection'[k] \in Row \cup {Nil}
                               /\ (collection'[k] = Nil <=> collection[k] = Nil)
  BY <1>1 DEF TakeCollections, TypeOK, RepositoryTypeOK, Row
<1>3. collection' \in [CollectionIds -> Row \cup {Nil}]
  BY <1>2 DEF TakeCollections
<1> QED  BY <1>2, <1>3 DEF TypeOK, RepositoryTypeOK, Exists

(* The statement that inserts a task keeps the table's type.                *)
LEMMA InsertTaskStep ==
    ASSUME TypeOK, NEW id \in Ids, NEW k \in CollectionIds, InsertTask(id, k),
           UNCHANGED <<collection, lastId, instance>>
    PROVE  RepositoryTypeOK'
BY DEF TypeOK, RepositoryTypeOK, InsertTask, Exists

(* Every statement, goroutine step, fault and restart keeps the types.      *)
LEMMA TypeStep == TypeOK /\ [Next]_vars => TypeOK'
<1> SUFFICES ASSUME TypeOK, [Next]_vars PROVE TypeOK'
  OBVIOUS
<1>f. /\ UNCHANGED <<collection, lastId, taskRow, instance>> => RepositoryTypeOK'
      /\ UNCHANGED <<clock, call>> => CreatorsTypeOK'
      /\ UNCHANGED <<deleter, cleanRequestCount>> => DeletersTypeOK'
      /\ UNCHANGED <<pc, wakeAt, deadline, try, pending, worker>> => RunTypeOK'
      /\ UNCHANGED <<loads, accepted, deleted, fatal, faults>> => HistoryTypeOK'
  BY TypeFrame
<1>n. NoCall \in Call /\ NoCall.pc = "idle"
  BY DEF NoCall, Call
<1>1. ASSUME NEW c \in Creators, NEW id \in Ids, NEW e \in ExecTimes, AddNewTask(c, id, e)
      PROVE  TypeOK'
  <2>1. NewTaskRange \in Nat /\ e \in Nat /\ clock \in Nat
    BY RangeIsNat DEF TypeOK, CreatorsTypeOK
  <2> DEFINE new == [pc |-> "find", id |-> id, execTime |-> Later(e, clock),
                     isTaken |-> NewTaskRange > e - clock, start |-> clock,
                     coll |-> 0, try |-> 1]
  <2>2. new \in Call /\ new.pc = "find" /\ new.id = id
    BY <2>1 DEF Call, Later
  <2>3. call' = [call EXCEPT ![c] = new]
    BY <1>1 DEF AddNewTask
  <2> HIDE DEF new
  <2>4. CreatorsTypeOK'
    BY <1>1, <2>2, <2>3, CallStep DEF AddNewTask
  <2> QED  BY <1>1, <1>f, <2>4 DEF AddNewTask, TypeOK
<1>2. ASSUME NEW c \in Creators, CreateFindCollection(c) PROVE TypeOK'
  <2>1. call[c] \in Call /\ call[c].id \in Ids
    BY <1>2 DEF CreateFindCollection, TypeOK, CreatorsTypeOK
  <2>2. CreatorsTypeOK'
    <3>1. ASSUME NEW k \in CollectionIds, call' = [call EXCEPT ![c] = Chosen(call[c], k)]
          PROVE  CreatorsTypeOK'
      <4>1. /\ Chosen(call[c], k) \in Call /\ Chosen(call[c], k).id \in Ids
            /\ Chosen(call[c], k).coll \in CollectionIds
        BY <2>1, CallValues
      <4>2. UNCHANGED clock
        BY <1>2 DEF CreateFindCollection
      <4> QED  BY <3>1, <4>1, <4>2, CallStep
    <3>2. ASSUME call' = [call EXCEPT ![c].pc = "insertCollection"] PROVE CreatorsTypeOK'
      <4> DEFINE v == [call[c] EXCEPT !.pc = "insertCollection"]
      <4>1. v \in Call /\ v.pc = "insertCollection" /\ v.id \in Ids
        BY <2>1 DEF Call
      <4>2. call' = [call EXCEPT ![c] = v]
        BY <3>2
      <4> HIDE DEF v
      <4> QED  BY <1>2, <4>1, <4>2, CallStep DEF CreateFindCollection
    <3> QED  BY <1>2, <3>1, <3>2 DEF CreateFindCollection, FindCollection
  <2> QED  BY <1>2, <1>f, <2>2 DEF CreateFindCollection, TypeOK
<1>3. ASSUME NEW c \in Creators, CreateInsertCollection(c) PROVE TypeOK'
  <2>1. lastId + 1 \in CollectionIds /\ lastId \in Nat
    BY <1>3 DEF CreateInsertCollection, InsertCollection, TypeOK, RepositoryTypeOK
  <2> DEFINE row == [execTime |-> call[c].execTime,
                     takenBy |-> IF call[c].isTaken THEN instance ELSE 0]
  <2>2. row \in Row
    BY DEF Row, Call, TypeOK, CreatorsTypeOK, RepositoryTypeOK
  <2>3. collection' = [collection EXCEPT ![lastId + 1] = row] /\ lastId' = lastId + 1
        /\ lastId' <= MaxCollections
    BY <1>3, <2>1 DEF CreateInsertCollection, InsertCollection
  <2> HIDE DEF row
  <2>4. RepositoryTypeOK'
    BY <1>3, <2>1, <2>2, <2>3 DEF CreateInsertCollection, TypeOK, RepositoryTypeOK, Exists
  <2>5. CreatorsTypeOK'
    <3>1. call[c] \in Call /\ call[c].id \in Ids
      BY <1>3 DEF CreateInsertCollection, TypeOK, CreatorsTypeOK
    <3> QED  BY <1>3, <2>1, <3>1, CallStep, CallValues DEF CreateInsertCollection
  <2> QED  BY <1>3, <1>f, <2>4, <2>5 DEF CreateInsertCollection, TypeOK
<1>4. ASSUME NEW c \in Creators, CreateInsertTask(c) PROVE TypeOK'
  <2>1. call[c].id \in Ids /\ call[c].coll \in CollectionIds
    BY <1>4 DEF CreateInsertTask, TypeOK, CreatorsTypeOK
  <2>2. RepositoryTypeOK'
    BY <1>4, <2>1, InsertTaskStep DEF CreateInsertTask
  <2>3. HistoryTypeOK'
    BY <1>4, <2>1 DEF CreateInsertTask, TypeOK, HistoryTypeOK
  <2>4. CreatorsTypeOK'
    <3>1. CASE call[c].isTaken
      BY <1>4, <2>1, <3>1 DEF CreateInsertTask, TypeOK, CreatorsTypeOK, Call
    <3>2. CASE ~call[c].isTaken
      BY <1>4, <1>n, <3>2, CallStep DEF CreateInsertTask
    <3> QED  BY <3>1, <3>2
  <2> QED  BY <1>4, <1>f, <2>2, <2>3, <2>4 DEF CreateInsertTask, TypeOK
<1>5. ASSUME NEW c \in Creators, CreateInsertRefused(c) PROVE TypeOK'
  <2>1. CreatorsTypeOK'
    BY <1>5, <1>n, CallStep DEF CreateInsertRefused
  <2> QED  BY <1>5, <1>f, <2>1 DEF CreateInsertRefused, TypeOK
<1>6. ASSUME NEW c \in Creators, CreateDeadlock(c) PROVE TypeOK'
  <2>1. CreatorsTypeOK'
    <3>1. CASE call[c].try < MaxRetry
      <4>1. call[c] \in Call /\ call[c].id \in Ids
        BY <1>6 DEF CreateDeadlock, InCreate, TypeOK, CreatorsTypeOK
      <4> QED  BY <1>6, <3>1, <4>1, CallStep, CallValues DEF CreateDeadlock
    <3>2. CASE ~(call[c].try < MaxRetry)
      <4>1. call' = [call EXCEPT ![c] = NoCall]
        BY <1>6, <3>2 DEF CreateDeadlock, TypeOK, CreatorsTypeOK
      <4> QED  BY <1>6, <1>n, <4>1, CallStep DEF CreateDeadlock
    <3> QED  BY <3>1, <3>2
  <2>2. HistoryTypeOK'
    BY <1>6, FaultStep DEF CreateDeadlock, TypeOK, HistoryTypeOK
  <2> QED  BY <1>6, <1>f, <2>1, <2>2 DEF CreateDeadlock, TypeOK
<1>7. ASSUME NEW c \in Creators, CreateFails(c) PROVE TypeOK'
  <2>1. RepositoryTypeOK'
    <3>1. CASE UNCHANGED taskRow
      BY <1>7, <1>f, <3>1 DEF CreateFails
    <3>2. CASE call[c].pc = "insertTask" /\ InsertTask(call[c].id, call[c].coll)
      BY <1>7, <3>2, InsertTaskStep DEF CreateFails, TypeOK, CreatorsTypeOK
    <3> QED  BY <1>7, <3>1, <3>2 DEF CreateFails
  <2>2. CreatorsTypeOK'
    BY <1>7, <1>n, CallStep DEF CreateFails
  <2>3. HistoryTypeOK'
    BY <1>7, FaultStep DEF CreateFails, TypeOK, HistoryTypeOK
  <2> QED  BY <1>7, <1>f, <2>1, <2>2, <2>3 DEF CreateFails, TypeOK
<1>8. ASSUME NEW c \in Creators, PushNewTask(c) PROVE TypeOK'
  <2>1. CreatorsTypeOK'
    BY <1>8, <1>n, CallStep DEF PushNewTask
  <2>2. HistoryTypeOK'
    BY <1>8 DEF PushNewTask, Load, TypeOK, HistoryTypeOK, CreatorsTypeOK
  <2> QED  BY <1>8, <1>f, <2>1, <2>2 DEF PushNewTask, TypeOK
<1>9. ASSUME NEW d \in Deleters, NEW id \in Ids, Delete(d, id) PROVE TypeOK'
  <2>1. cleanRequestCount + 1 \in Nat
    BY DEF TypeOK, DeletersTypeOK
  <2>2. cleanRequestCount' \in 0..(CleaningFrequency - 1)
    BY <1>9, <2>1, Remainder DEF Delete
  <2>3. DeletersTypeOK'
    BY <1>9, <2>2 DEF Delete, TypeOK, DeletersTypeOK
  <2>4. RepositoryTypeOK'
    BY <1>9 DEF Delete, DeleteTask, TypeOK, RepositoryTypeOK, Exists
  <2>5. HistoryTypeOK'
    BY <1>9 DEF Delete, TypeOK, HistoryTypeOK
  <2> QED  BY <1>9, <1>f, <2>3, <2>4, <2>5 DEF Delete, TypeOK
<1>10. ASSUME NEW d \in Deleters, NEW id \in Ids, DeleteFails(d, id) PROVE TypeOK'
  <2>1. RepositoryTypeOK'
    BY <1>10 DEF DeleteFails, DeleteTask, TypeOK, RepositoryTypeOK, Exists
  <2>2. HistoryTypeOK'
    BY <1>10 DEF DeleteFails, Fault, TypeOK, HistoryTypeOK
  <2> QED  BY <1>10, <1>f, <2>1, <2>2 DEF DeleteFails, TypeOK
<1>11. ASSUME NEW d \in Deleters, CheckCleaning(d) PROVE TypeOK'
  <2>1. DeletersTypeOK'
    BY <1>11 DEF CheckCleaning, TypeOK, DeletersTypeOK
  <2> QED  BY <1>11, <1>f, <2>1 DEF CheckCleaning, TypeOK
<1>12. ASSUME NEW d \in Deleters, SelectEmpty(d) PROVE TypeOK'
  <2>1. DeletersTypeOK'
    BY <1>12 DEF SelectEmpty, EmptyCollections, NoDelete, TypeOK, DeletersTypeOK
  <2> QED  BY <1>12, <1>f, <2>1 DEF SelectEmpty, TypeOK
<1>13. ASSUME NEW d \in Deleters, DeleteEmpty(d) PROVE TypeOK'
  <2>1. DeletersTypeOK'
    BY <1>13 DEF DeleteEmpty, NoDelete, TypeOK, DeletersTypeOK
  <2>2. RepositoryTypeOK'
    BY <1>13 DEF DeleteEmpty, DeleteCollections, TypeOK, RepositoryTypeOK, Exists
  <2> QED  BY <1>13, <1>f, <2>1, <2>2 DEF DeleteEmpty, TypeOK
<1>14. ASSUME NEW d \in Deleters, CleaningFails(d) PROVE TypeOK'
  <2>1. DeletersTypeOK'
    BY <1>14 DEF CleaningFails, NoDelete, TypeOK, DeletersTypeOK
  <2>2. HistoryTypeOK'
    BY <1>14, FaultStep DEF CleaningFails, TypeOK, HistoryTypeOK
  <2> QED  BY <1>14, <1>f, <2>1, <2>2 DEF CleaningFails, TypeOK
<1>15. CASE FindNothing
  <2>1. RunTypeOK'
    BY <1>15 DEF FindNothing, TypeOK, RunTypeOK, CreatorsTypeOK
  <2> QED  BY <1>15, <1>f, <2>1 DEF FindNothing, TypeOK
<1>16. CASE Wake
  <2>1. RunTypeOK'
    BY <1>16 DEF Wake, StartRound, TypeOK, RunTypeOK, CreatorsTypeOK
  <2> QED  BY <1>16, <1>f, <2>1 DEF Wake, TypeOK
<1>17. CASE FindCollections
  <2>1. RepositoryTypeOK'
    BY <1>17, TakeStep DEF FindCollections
  <2>2. RunTypeOK'
    <3>1. pending' \subseteq CollectionIds
      BY <1>17 DEF FindCollections, Due
    <3>2. worker' \in [Workers -> WorkerState]
      BY <1>17 DEF FindCollections, WorkerState
    <3> QED  BY <1>17, <3>1, <3>2 DEF FindCollections, TypeOK, RunTypeOK
  <2> QED  BY <1>17, <1>f, <2>1, <2>2 DEF FindCollections, TypeOK
<1>18. CASE FindRetry
  <2>1. RunTypeOK'
    BY <1>18 DEF FindRetry, TypeOK, RunTypeOK
  <2>2. HistoryTypeOK'
    BY <1>18, FaultStep DEF FindRetry, TypeOK, HistoryTypeOK
  <2> QED  BY <1>18, <1>f, <2>1, <2>2 DEF FindRetry, TypeOK
<1>19. CASE FindFails
  <2>1. RepositoryTypeOK'
    BY <1>19, <1>f, TakeStep DEF FindFails
  <2>2. RunTypeOK'
    BY <1>19 DEF FindFails, TypeOK, RunTypeOK
  <2>3. HistoryTypeOK'
    BY <1>19 DEF FindFails, Fault, TypeOK, HistoryTypeOK
  <2> QED  BY <1>19, <1>f, <2>1, <2>2, <2>3 DEF FindFails, TypeOK
<1>20. ASSUME NEW w \in Workers, TakeCollectionId(w) PROVE TypeOK'
  <2>1. RunTypeOK'
    <3>1. WorkerOff \in WorkerState
      BY DEF WorkerOff, WorkerState
    <3>2. \A k \in pending : [pc |-> "read", coll |-> k, tasks |-> {}] \in WorkerState
      BY DEF WorkerState, TypeOK, RunTypeOK
    <3> QED  BY <1>20, <3>1, <3>2, WorkerStep DEF TakeCollectionId
  <2> QED  BY <1>20, <1>f, <2>1 DEF TakeCollectionId, TypeOK
<1>21. ASSUME NEW w \in Workers, GetTasksByCollection(w) PROVE TypeOK'
  <2>1. RunTypeOK'
    <3> DEFINE v == [pc |-> IF TasksOf(worker[w].coll) = {} THEN "next" ELSE "push",
                     coll |-> 0, tasks |-> TasksOf(worker[w].coll)]
    <3>1. v \in WorkerState
      BY DEF WorkerState, TasksOf
    <3>2. worker' = [worker EXCEPT ![w] = v]
      BY <1>21 DEF GetTasksByCollection
    <3> QED  BY <1>21, <3>1, <3>2, WorkerStep DEF GetTasksByCollection
  <2> QED  BY <1>21, <1>f, <2>1 DEF GetTasksByCollection, TypeOK
<1>22. ASSUME NEW w \in Workers, GetTasksFails(w) PROVE TypeOK'
  <2>1. RunTypeOK'
    <3>1. WorkerOff \in WorkerState
      BY DEF WorkerOff, WorkerState
    <3> QED  BY <1>22, <3>1, WorkerStep DEF GetTasksFails
  <2>2. HistoryTypeOK'
    BY <1>22 DEF GetTasksFails, Fault, TypeOK, HistoryTypeOK
  <2> QED  BY <1>22, <1>f, <2>1, <2>2 DEF GetTasksFails, TypeOK
<1>23. ASSUME NEW w \in Workers, PushTask(w) PROVE TypeOK'
  <2>1. PICK id \in worker[w].tasks :
          /\ Load(id)
          /\ worker' = [worker EXCEPT ![w] =
                 [pc |-> IF @.tasks = {id} THEN "next" ELSE "push", coll |-> 0,
                  tasks |-> @.tasks \ {id}]]
    BY <1>23 DEF PushTask
  <2>2. id \in Ids
    BY <2>1 DEF TypeOK, RunTypeOK, WorkerState
  <2>3. RunTypeOK'
    BY <1>23, <2>1 DEF PushTask, TypeOK, RunTypeOK, WorkerState
  <2>4. HistoryTypeOK'
    BY <1>23, <2>1, <2>2 DEF PushTask, Load, TypeOK, HistoryTypeOK
  <2> QED  BY <1>23, <1>f, <2>3, <2>4 DEF PushTask, TypeOK
<1>24. CASE EndRound
  <2>1. RunTypeOK'
    BY <1>24 DEF EndRound, StartRound, TypeOK, RunTypeOK, CreatorsTypeOK
  <2> QED  BY <1>24, <1>f, <2>1 DEF EndRound, TypeOK
<1>25. CASE Restart
  <2>1. RunTypeOK'
    BY <1>25 DEF Restart, StartRound, WorkerOff, WorkerState, TypeOK, RunTypeOK, CreatorsTypeOK
  <2>2. CreatorsTypeOK'
    BY <1>25, <1>n DEF Restart, TypeOK, CreatorsTypeOK, NoCall
  <2>3. DeletersTypeOK'
    BY <1>25 DEF Restart, NoDelete, DeletersTypeOK
  <2>4. HistoryTypeOK'
    BY <1>25 DEF Restart, TypeOK, HistoryTypeOK
  <2>5. RepositoryTypeOK'
    BY <1>25 DEF Restart, TypeOK, RepositoryTypeOK, Exists
  <2> QED  BY <2>1, <2>2, <2>3, <2>4, <2>5 DEF TypeOK
<1>26. CASE Tick
  <2>1. CreatorsTypeOK'
    BY <1>26 DEF Tick, TypeOK, CreatorsTypeOK
  <2> QED  BY <1>26, <1>f, <2>1 DEF Tick, TypeOK
<1>27. CASE UNCHANGED vars
  BY <1>27, <1>f DEF vars, TypeOK
<1> QED
  BY <1>1, <1>2, <1>3, <1>4, <1>5, <1>6, <1>7, <1>8, <1>9, <1>10, <1>11, <1>12, <1>13,
     <1>14, <1>15, <1>16, <1>17, <1>18, <1>19, <1>20, <1>21, <1>22, <1>23, <1>24, <1>25,
     <1>26, <1>27 DEF Next, Create, Clean

(* Tables, calls in progress and the preloader's round keep their types     *)
(* through faults and restarts.                                             *)
THEOREM TypeCorrect == Spec => []TypeOK
<1>1. Init => TypeOK
  <2> SUFFICES ASSUME Init PROVE TypeOK
    OBVIOUS
  <2>1. RepositoryTypeOK
    BY DEF Init, RepositoryInit, RepositoryTypeOK, Exists
  <2>2. NoCall \in Call /\ NoCall.pc = "idle"
    BY DEF NoCall, Call
  <2>3. CreatorsTypeOK
    BY <2>2 DEF Init, CreatorsTypeOK
  <2>4. DeletersTypeOK
    BY DEF Init, DeletersTypeOK, NoDelete
  <2>5. RunTypeOK
    BY DEF Init, RunTypeOK, WorkerOff, WorkerState
  <2>6. HistoryTypeOK
    <3>1. loads \in [Ids -> Nat] /\ accepted \in [Ids -> {"no", "taken", "later"}]
      BY DEF Init
    <3>2. fatal \in BOOLEAN
      BY Zenon DEF Init
    <3> QED  BY <3>1, <3>2 DEF Init, HistoryTypeOK
  <2> QED  BY <2>1, <2>3, <2>4, <2>5, <2>6 DEF TypeOK
<1> QED  BY <1>1, TypeStep, PTL DEF Spec

-----------------------------------------------------------------------------
(* The strengthening                                                        *)

(* The foreign key, and: nothing is taken by an instance still to come.     *)
RowsOK ==
    /\ \A k \in CollectionIds : Exists(k) => collection[k].takenBy <= instance
    /\ \A id \in Ids : taskRow[id] # 0 => Exists(taskRow[id])

(* An id has one life.                                                      *)
IdsOnce ==
    /\ \A c \in Creators : InCreate(c) => call[c].id \notin deleted
    /\ \A id \in Ids : accepted[id] # "no" => taskRow[id] # 0 \/ id \in deleted

(* What a create in progress knows: it is on time, its task is not in the   *)
(* past, its collection has the task's time.                                *)
CallsOK ==
    \A c \in Creators :
        /\ InCreate(c) =>
              /\ call[c].start <= call[c].execTime
              /\ clock <= call[c].start + MaxCreateDelay
              /\ ~call[c].isTaken => call[c].start + NewTaskRange <= call[c].execTime
        /\ call[c].pc = "insertTask" =>
              /\ call[c].coll <= lastId
              /\ Exists(call[c].coll) => collection[call[c].coll].execTime = call[c].execTime

(* Workers run only in a round; one that stopped left nothing to read or    *)
(* raised the fatal event.                                                  *)
RoundOK ==
    /\ pc # "work" => pending = {} /\ \A w \in Workers : worker[w].pc = "off"
    /\ \A w \in Workers : worker[w].pc = "off" => pending = {} \/ fatal
    /\ \A w \in Workers : worker[w].pc # "push" => worker[w].tasks = {}

(* The point of the coefficient: a task for later has chosen a collection   *)
(* that this instance has not taken.                                        *)
LaterStaysUntaken ==
    \A c \in Creators :
        call[c].pc = "insertTask" /\ ~call[c].isTaken /\ Exists(call[c].coll) =>
            collection[call[c].coll].takenBy # instance

(* What the cleaner has selected is older than any create in progress.      *)
SelectionIsOld ==
    \A d \in Deleters : \A k \in deleter[d].ids :
        k <= lastId /\ (Exists(k) => collection[k].execTime < clock - CleanAge)

(* The foreign key and the order of instances survive every step.           *)
LEMMA RowsStep == TypeOK /\ RowsOK /\ [Next]_vars => RowsOK'
<1> SUFFICES ASSUME TypeOK, RowsOK, [Next]_vars PROVE RowsOK'
  OBVIOUS
<1>f. UNCHANGED <<collection, taskRow, instance>> => RowsOK'
  BY DEF RowsOK, Exists
<1>t. /\ \A id \in Ids : taskRow[id] \in 0..MaxCollections
      /\ collection \in [CollectionIds -> Row \cup {Nil}]
      /\ instance \in Nat /\ lastId \in Nat
      /\ \A k \in CollectionIds : k > lastId => ~Exists(k)
  BY DEF TypeOK, RepositoryTypeOK
<1>i. ASSUME NEW id \in Ids, NEW k \in CollectionIds, InsertTask(id, k),
             UNCHANGED <<collection, instance>>
      PROVE  RowsOK'
  BY <1>i, <1>t DEF InsertTask, RowsOK, Exists, TypeOK, RepositoryTypeOK
<1>d. ASSUME NEW id \in Ids, DeleteTask(id), UNCHANGED <<collection, instance>> PROVE RowsOK'
  BY <1>d, <1>t DEF DeleteTask, RowsOK, Exists, TypeOK, RepositoryTypeOK
<1>k. ASSUME TakeCollections(Due(clock + TimePreload)), UNCHANGED <<taskRow, instance>>
      PROVE  RowsOK'
  <2>1. \A k \in Due(clock + TimePreload) : k \in CollectionIds /\ collection[k] \in Row
    BY <1>t DEF Due, Exists
  <2>2. ASSUME NEW k \in CollectionIds
        PROVE  /\ collection'[k] = Nil <=> collection[k] = Nil
               /\ collection'[k] # Nil =>
                     collection'[k].takenBy = instance \/ collection'[k] = collection[k]
    BY <1>k, <1>t, <2>1 DEF TakeCollections, Row
  <2>3. \A k \in CollectionIds : Exists(k)' => collection'[k].takenBy <= instance'
    BY <1>k, <1>t, <2>2 DEF RowsOK, Exists
  <2>4. \A id \in Ids : taskRow'[id] # 0 => Exists(taskRow[id])'
    BY <1>k, <1>t, <2>2 DEF RowsOK, Exists
  <2> QED  BY <2>3, <2>4 DEF RowsOK
<1>1. ASSUME NEW c \in Creators, CreateInsertCollection(c) PROVE RowsOK'
  <2>1. lastId + 1 \in CollectionIds
    BY <1>1, <1>t DEF CreateInsertCollection, InsertCollection
  <2> DEFINE row == [execTime |-> call[c].execTime,
                     takenBy |-> IF call[c].isTaken THEN instance ELSE 0]
  <2>2. row # Nil /\ row.takenBy <= instance
    BY <1>t DEF TypeOK, CreatorsTypeOK, Call
  <2>3. collection' = [collection EXCEPT ![lastId + 1] = row] /\ UNCHANGED <<taskRow, instance>>
    BY <1>1 DEF CreateInsertCollection, InsertCollection
  <2> HIDE DEF row
  <2> QED  BY <1>t, <2>1, <2>2, <2>3 DEF RowsOK, Exists
<1>2. ASSUME NEW c \in Creators, CreateInsertTask(c) PROVE RowsOK'
  BY <1>2, <1>i DEF CreateInsertTask, TypeOK, CreatorsTypeOK
<1>3. ASSUME NEW c \in Creators, CreateFails(c) PROVE RowsOK'
  BY <1>3, <1>i, <1>f DEF CreateFails, TypeOK, CreatorsTypeOK
<1>4. ASSUME NEW d \in Deleters, NEW id \in Ids, Delete(d, id) \/ DeleteFails(d, id)
      PROVE  RowsOK'
  BY <1>4, <1>d, <1>f DEF Delete, DeleteFails
<1>5. ASSUME NEW d \in Deleters, DeleteEmpty(d) PROVE RowsOK'
  <2>1. CASE UNCHANGED collection
    BY <1>5, <1>f, <2>1 DEF DeleteEmpty
  <2>2. CASE DeleteCollections(deleter[d].ids)
    <3>1. \A id \in Ids : taskRow[id] \notin deleter[d].ids
      BY <2>2 DEF DeleteCollections, TasksOf
    <3>2. ASSUME NEW k \in CollectionIds
          PROVE  collection'[k] = IF k \in deleter[d].ids THEN Nil ELSE collection[k]
      BY <2>2 DEF DeleteCollections
    <3> QED  BY <1>5, <1>t, <3>1, <3>2 DEF DeleteEmpty, RowsOK, Exists
  <2> QED  BY <1>5, <2>1, <2>2 DEF DeleteEmpty
<1>6. CASE FindCollections
  BY <1>6, <1>k DEF FindCollections
<1>7. CASE FindFails
  BY <1>7, <1>k, <1>f DEF FindFails
<1>8. CASE Restart
  BY <1>8, <1>t DEF Restart, RowsOK, Exists, TypeOK, RepositoryTypeOK, Row
<1>9. ASSUME NEW c \in Creators,
             \/ \E id \in Ids, e \in ExecTimes : AddNewTask(c, id, e)
             \/ CreateFindCollection(c) \/ CreateInsertRefused(c) \/ PushNewTask(c)
             \/ CreateDeadlock(c)
      PROVE  RowsOK'
  BY <1>9, <1>f DEF AddNewTask, CreateFindCollection, CreateInsertRefused, PushNewTask,
                    CreateDeadlock
<1>10. ASSUME NEW d \in Deleters, CheckCleaning(d) \/ SelectEmpty(d) \/ CleaningFails(d)
       PROVE  RowsOK'
  BY <1>10, <1>f DEF CheckCleaning, SelectEmpty, CleaningFails
<1>11. ASSUME NEW w \in Workers,
              \/ TakeCollectionId(w) \/ GetTasksByCollection(w)
              \/ GetTasksFails(w) \/ PushTask(w)
       PROVE  RowsOK'
  BY <1>11, <1>f DEF TakeCollectionId, GetTasksByCollection, GetTasksFails, PushTask
<1>12. CASE FindNothing \/ Wake \/ FindRetry \/ EndRound \/ Tick \/ UNCHANGED vars
  BY <1>12, <1>f DEF FindNothing, Wake, FindRetry, EndRound, Tick, vars
<1> QED  BY <1>1, <1>2, <1>3, <1>4, <1>5, <1>6, <1>7, <1>8, <1>9, <1>10, <1>11, <1>12
         DEF Next, Create, Clean

(* Ids keep having one life.                                                *)
LEMMA IdsStep == TypeOK /\ IdsOnce /\ [Next]_vars => IdsOnce'
<1> SUFFICES ASSUME TypeOK, IdsOnce, [Next]_vars PROVE IdsOnce'
  OBVIOUS
<1>f. UNCHANGED <<call, deleted, accepted, taskRow>> => IdsOnce'
  BY DEF IdsOnce, InCreate
<1>t. /\ call \in [Creators -> Call] /\ \A c \in Creators : call[c].pc # "idle" => call[c].id \in Ids
      /\ \A c \in Creators : call[c].pc = "insertTask" => call[c].coll \in CollectionIds
      /\ taskRow \in [Ids -> 0..MaxCollections]
      /\ accepted \in [Ids -> {"no", "taken", "later"}]
  BY DEF TypeOK, CreatorsTypeOK, RepositoryTypeOK, HistoryTypeOK
<1>v. ASSUME NEW c \in Creators, NEW v, call' = [call EXCEPT ![c] = v],
             \/ v.pc \notin {"find", "insertCollection", "insertTask"}
             \/ v.id \notin deleted,
             UNCHANGED <<deleted, accepted, taskRow>>
      PROVE  IdsOnce'
  BY <1>v, <1>t DEF IdsOnce, InCreate
<1>n. NoCall.pc = "idle"
  BY DEF NoCall
<1>1. ASSUME NEW c \in Creators, NEW id \in Ids, NEW e \in ExecTimes, AddNewTask(c, id, e)
      PROVE  IdsOnce'
  BY <1>1, <1>v DEF AddNewTask
<1>2. ASSUME NEW c \in Creators, CreateFindCollection(c) \/ CreateInsertCollection(c)
      PROVE  IdsOnce'
  <2>1. call[c].id \notin deleted
    BY <1>2 DEF CreateFindCollection, CreateInsertCollection, IdsOnce, InCreate
  <2>2. \A k : Chosen(call[c], k).id = call[c].id
    BY DEF Chosen, CallAt
  <2>3. ASSUME call' = [call EXCEPT ![c].pc = "insertCollection"],
               UNCHANGED <<deleted, accepted, taskRow>>
        PROVE  IdsOnce'
    BY <1>t, <2>1, <2>3 DEF IdsOnce, InCreate, Call
  <2> QED  BY <1>2, <1>v, <2>1, <2>2, <2>3 DEF CreateFindCollection, CreateInsertCollection
<1>3. ASSUME NEW c \in Creators, CreateInsertRefused(c) \/ PushNewTask(c) PROVE IdsOnce'
  BY <1>3, <1>v, <1>n DEF CreateInsertRefused, PushNewTask
<1>4. ASSUME NEW c \in Creators, CreateDeadlock(c) PROVE IdsOnce'
  <2>1. call[c].id \notin deleted
    BY <1>4 DEF CreateDeadlock, IdsOnce
  <2>2. Again(call[c]).id = call[c].id
    BY DEF Again, CallAt
  <2> QED  BY <1>4, <1>v, <1>n, <2>1, <2>2 DEF CreateDeadlock
<1>5. ASSUME NEW c \in Creators, CreateInsertTask(c) PROVE IdsOnce'
  <2>1. call[c].id \in Ids /\ call[c].coll \in CollectionIds
    BY <1>5, <1>t DEF CreateInsertTask
  <2>2. \A b \in Creators : InCreate(b)' => InCreate(b) /\ call'[b].id = call[b].id
    BY <1>5, <1>t, <1>n DEF CreateInsertTask, InCreate, Call
  <2>3. \A id \in Ids : accepted'[id] # "no" => taskRow'[id] # 0 \/ id \in deleted
    BY <1>5, <1>t, <2>1 DEF CreateInsertTask, InsertTask, IdsOnce
  <2> QED  BY <1>5, <2>2, <2>3 DEF CreateInsertTask, IdsOnce
<1>6. ASSUME NEW c \in Creators, CreateFails(c) PROVE IdsOnce'
  <2>1. \A b \in Creators : InCreate(b)' => InCreate(b) /\ call'[b].id = call[b].id
    BY <1>6, <1>t, <1>n DEF CreateFails, InCreate
  <2>2. \A id \in Ids : taskRow'[id] = 0 => taskRow[id] = 0
    BY <1>6, <1>t DEF CreateFails, InsertTask
  <2> QED  BY <1>6, <2>1, <2>2 DEF CreateFails, IdsOnce
<1>7. ASSUME NEW d \in Deleters, NEW id \in Ids, Delete(d, id) \/ DeleteFails(d, id)
      PROVE  IdsOnce'
  <2>1. \A i \in Ids : i # id => taskRow'[i] = taskRow[i]
    BY <1>7, <1>t DEF Delete, DeleteFails, DeleteTask
  <2>2. taskRow[id] # 0 => taskRow'[id] # 0 \/ id \in deleted'
    BY <1>7, <1>t DEF Delete, DeleteFails, DeleteTask
  <2>3. deleted \subseteq deleted' /\ deleted' \subseteq deleted \cup {id}
    BY <1>7 DEF Delete, DeleteFails
  <2> QED  BY <1>7, <2>1, <2>2, <2>3 DEF Delete, DeleteFails, NobodyCreates, IdsOnce, InCreate, clients
<1>8. CASE Restart
  BY <1>8, <1>n DEF Restart, IdsOnce, InCreate
<1>9. ASSUME NEW d \in Deleters, Clean(d) \/ CleaningFails(d) PROVE IdsOnce'
  BY <1>9, <1>f DEF Clean, CheckCleaning, SelectEmpty, DeleteEmpty, CleaningFails
<1>10. ASSUME NEW w \in Workers,
              \/ TakeCollectionId(w) \/ GetTasksByCollection(w)
              \/ GetTasksFails(w) \/ PushTask(w)
       PROVE  IdsOnce'
  BY <1>10, <1>f DEF TakeCollectionId, GetTasksByCollection, GetTasksFails, PushTask
<1>11. CASE FindNothing \/ Wake \/ FindCollections \/ FindRetry \/ FindFails \/ EndRound
            \/ Tick \/ UNCHANGED vars
  BY <1>11, <1>f DEF FindNothing, Wake, FindCollections, FindRetry, FindFails, EndRound,
                     Tick, vars
<1> QED  BY <1>1, <1>2, <1>3, <1>4, <1>5, <1>6, <1>7, <1>8, <1>9, <1>10, <1>11
         DEF Next, Create

(* What a create in progress relies on survives every step.                 *)
LEMMA CallsStep == TypeOK /\ CallsOK /\ [Next]_vars => CallsOK'
<1> SUFFICES ASSUME TypeOK, CallsOK, [Next]_vars PROVE CallsOK'
  OBVIOUS
<1>t. /\ call \in [Creators -> Call] /\ clock \in Nat
      /\ \A c \in Creators : call[c].pc = "insertTask" => call[c].coll \in CollectionIds
      /\ collection \in [CollectionIds -> Row \cup {Nil}]
      /\ lastId \in Nat
      /\ NewTaskRange \in Nat /\ ExecTimes \subseteq Nat /\ MaxCreateDelay \in Nat
  BY RangeIsNat DEF TypeOK, CreatorsTypeOK, RepositoryTypeOK
<1>f. UNCHANGED <<call, clock, lastId, collection>> => CallsOK'
  BY DEF CallsOK, InCreate, Exists
<1>n. NoCall.pc = "idle"
  BY DEF NoCall
<1>v. ASSUME NEW c \in Creators, NEW v, call' = [call EXCEPT ![c] = v],
             v.pc \in {"find", "insertCollection", "insertTask"} =>
                /\ v.start <= v.execTime
                /\ clock <= v.start + MaxCreateDelay
                /\ ~v.isTaken => v.start + NewTaskRange <= v.execTime,
             v.pc = "insertTask" =>
                v.coll <= lastId /\ (Exists(v.coll) => collection[v.coll].execTime = v.execTime),
             UNCHANGED <<clock, lastId, collection>>
      PROVE  CallsOK'
  BY <1>v, <1>t DEF CallsOK, InCreate, Exists
<1>1. ASSUME NEW c \in Creators, NEW id \in Ids, NEW e \in ExecTimes, AddNewTask(c, id, e)
      PROVE  CallsOK'
  <2> DEFINE new == [pc |-> "find", id |-> id, execTime |-> Later(e, clock),
                     isTaken |-> NewTaskRange > e - clock, start |-> clock,
                     coll |-> 0, try |-> 1]
  <2>1. /\ new.pc = "find"
        /\ new.start <= new.execTime
        /\ clock <= new.start + MaxCreateDelay
        /\ ~new.isTaken => new.start + NewTaskRange <= new.execTime
    <3>1. e \in Nat /\ Later(e, clock) \in Nat /\ clock <= Later(e, clock) /\ e <= Later(e, clock)
      BY <1>t DEF Later
    <3>2. ~(NewTaskRange > e - clock) => clock + NewTaskRange <= Later(e, clock)
      BY <1>t, <3>1
    <3>3. clock <= clock + MaxCreateDelay
      BY <1>t
    <3>4. /\ new.pc = "find" /\ new.start = clock /\ new.execTime = Later(e, clock)
          /\ new.isTaken = (NewTaskRange > e - clock)
      OBVIOUS
    <3> QED  BY <3>1, <3>2, <3>3, <3>4
  <2>2. call' = [call EXCEPT ![c] = new]
    BY <1>1 DEF AddNewTask
  <2> HIDE DEF new
  <2> QED  BY <1>1, <1>v, <2>1, <2>2 DEF AddNewTask
<1>2. ASSUME NEW c \in Creators, CreateFindCollection(c) PROVE CallsOK'
  <2>1. call[c].pc = "find" /\ call[c] \in Call
    BY <1>2, <1>t DEF CreateFindCollection
  <2>2. CASE call' = [call EXCEPT ![c].pc = "insertCollection"]
    <3> DEFINE v == [call[c] EXCEPT !.pc = "insertCollection"]
    <3>1. call' = [call EXCEPT ![c] = v] /\ UNCHANGED <<clock, lastId, collection>>
      BY <1>2, <2>2 DEF CreateFindCollection
    <3>2. /\ v.pc = "insertCollection" /\ v.execTime = call[c].execTime
          /\ v.start = call[c].start /\ v.isTaken = call[c].isTaken
      BY <2>1 DEF Call
    <3>3. /\ call[c].start <= call[c].execTime
          /\ clock <= call[c].start + MaxCreateDelay
          /\ ~call[c].isTaken => call[c].start + NewTaskRange <= call[c].execTime
      BY <2>1 DEF CallsOK, InCreate
    <3> HIDE DEF v
    <3> QED  BY <1>v, <3>1, <3>2, <3>3
  <2>3. ASSUME NEW k \in FindCollection(call[c].execTime, call[c].isTaken),
               call' = [call EXCEPT ![c] = Chosen(call[c], k)]
        PROVE  CallsOK'
    <3>1. /\ k \in CollectionIds /\ Exists(k) /\ k <= lastId
          /\ collection[k].execTime = call[c].execTime
      BY <2>3 DEF FindCollection, TypeOK, RepositoryTypeOK
    <3>2. /\ call[c].start <= call[c].execTime
          /\ clock <= call[c].start + MaxCreateDelay
          /\ ~call[c].isTaken => call[c].start + NewTaskRange <= call[c].execTime
      BY <2>1 DEF CallsOK, InCreate
    <3>3. /\ Chosen(call[c], k).coll = k
          /\ Chosen(call[c], k).execTime = call[c].execTime
          /\ Chosen(call[c], k).start = call[c].start
          /\ Chosen(call[c], k).isTaken = call[c].isTaken
      BY DEF Chosen, CallAt
    <3> QED  BY <1>2, <1>v, <2>3, <3>1, <3>2, <3>3 DEF CreateFindCollection
  <2> QED  BY <1>2, <2>2, <2>3 DEF CreateFindCollection
<1>3. ASSUME NEW c \in Creators, CreateInsertCollection(c) PROVE CallsOK'
  <2> DEFINE row == [execTime |-> call[c].execTime,
                     takenBy |-> IF call[c].isTaken THEN instance ELSE 0]
  <2>1. /\ lastId + 1 \in CollectionIds /\ lastId' = lastId + 1
        /\ collection' = [collection EXCEPT ![lastId + 1] = row]
        /\ call' = [call EXCEPT ![c] = Chosen(call[c], lastId + 1)]
        /\ call[c].pc = "insertCollection" /\ UNCHANGED clock
    BY <1>3, <1>t DEF CreateInsertCollection, InsertCollection
  <2>2. row.execTime = call[c].execTime
    OBVIOUS
  <2> HIDE DEF row
  <2>3. /\ Chosen(call[c], lastId + 1).coll = lastId + 1
        /\ Chosen(call[c], lastId + 1).pc = "insertTask"
        /\ Chosen(call[c], lastId + 1).execTime = call[c].execTime
        /\ Chosen(call[c], lastId + 1).start = call[c].start
        /\ Chosen(call[c], lastId + 1).isTaken = call[c].isTaken
    BY DEF Chosen, CallAt
  <2>4. ASSUME NEW b \in Creators, b # c, call[b].pc = "insertTask"
        PROVE  call[b].coll # lastId + 1 /\ call[b].coll <= lastId + 1
    BY <1>t, <2>4 DEF CallsOK
  <2>5. ASSUME NEW b \in Creators, b # c
        PROVE  /\ call'[b] = call[b]
               /\ call[b].pc = "insertTask" => collection'[call[b].coll] = collection[call[b].coll]
    BY <1>t, <2>1, <2>4, <2>5
  <2>6. call'[c] = Chosen(call[c], lastId + 1) /\ collection'[lastId + 1] = row
    BY <1>t, <2>1
  <2> QED  BY <1>t, <2>1, <2>2, <2>3, <2>4, <2>5, <2>6 DEF CallsOK, InCreate, Exists
<1>4. ASSUME NEW c \in Creators,
             CreateInsertRefused(c) \/ PushNewTask(c) \/ CreateFails(c)
      PROVE  CallsOK'
  BY <1>4, <1>v, <1>n DEF CreateInsertRefused, PushNewTask, CreateFails
<1>5. ASSUME NEW c \in Creators, CreateInsertTask(c) PROVE CallsOK'
  <2>1. CASE call[c].isTaken
    <3> DEFINE v == [call[c] EXCEPT !.pc = "push"]
    <3>1. call' = [call EXCEPT ![c] = v] /\ UNCHANGED <<clock, lastId, collection>>
      BY <1>5, <2>1 DEF CreateInsertTask
    <3>2. v.pc = "push"
      BY <1>t DEF Call
    <3> HIDE DEF v
    <3> QED  BY <1>v, <3>1, <3>2
  <2>2. CASE ~call[c].isTaken
    BY <1>5, <1>v, <1>n, <2>2 DEF CreateInsertTask
  <2> QED  BY <2>1, <2>2
<1>6. ASSUME NEW c \in Creators, CreateDeadlock(c) PROVE CallsOK'
  <2>1. /\ call[c].start <= call[c].execTime
        /\ clock <= call[c].start + MaxCreateDelay
        /\ ~call[c].isTaken => call[c].start + NewTaskRange <= call[c].execTime
    BY <1>6 DEF CreateDeadlock, CallsOK
  <2>2. /\ Again(call[c]).pc = "find"
        /\ Again(call[c]).execTime = call[c].execTime
        /\ Again(call[c]).start = call[c].start
        /\ Again(call[c]).isTaken = call[c].isTaken
    BY DEF Again, CallAt
  <2> QED  BY <1>6, <1>v, <1>n, <2>1, <2>2 DEF CreateDeadlock
<1>7. ASSUME NEW d \in Deleters, DeleteEmpty(d) PROVE CallsOK'
  <2>1. \A k \in CollectionIds : Exists(k)' => Exists(k) /\ collection'[k] = collection[k]
    BY <1>7, <1>t DEF DeleteEmpty, DeleteCollections, Exists
  <2> QED  BY <1>7, <1>t, <2>1 DEF DeleteEmpty, CallsOK, InCreate
<1>8. ASSUME TakeCollections(Due(clock + TimePreload)), UNCHANGED <<call, clock, lastId>>
      PROVE  CallsOK'
  <2>1. \A k \in Due(clock + TimePreload) : k \in CollectionIds /\ collection[k] \in Row
    BY <1>t DEF Due, Exists
  <2>2. ASSUME NEW k \in CollectionIds, Exists(k)'
        PROVE  Exists(k) /\ collection'[k].execTime = collection[k].execTime
    BY <1>8, <1>t, <2>1, <2>2 DEF TakeCollections, Exists, Row
  <2> QED  BY <1>8, <1>t, <2>2 DEF CallsOK, InCreate
<1>9. CASE FindCollections \/ FindFails
  BY <1>9, <1>8, <1>f DEF FindCollections, FindFails
<1>10. CASE Restart
  BY <1>10, <1>n DEF Restart, CallsOK, InCreate
<1>11. CASE Tick
  BY <1>11, <1>t DEF Tick, CallsOK, InCreate, Exists, Call
<1>12. ASSUME NEW d \in Deleters,
              \/ \E id \in Ids : Delete(d, id) \/ DeleteFails(d, id)
              \/ CheckCleaning(d) \/ SelectEmpty(d) \/ CleaningFails(d)
       PROVE  CallsOK'
  BY <1>12, <1>f DEF Delete, DeleteFails, CheckCleaning, SelectEmpty, CleaningFails
<1>13. ASSUME NEW w \in Workers,
              \/ TakeCollectionId(w) \/ GetTasksByCollection(w)
              \/ GetTasksFails(w) \/ PushTask(w)
       PROVE  CallsOK'
  BY <1>13, <1>f DEF TakeCollectionId, GetTasksByCollection, GetTasksFails, PushTask
<1>14. CASE FindNothing \/ Wake \/ FindRetry \/ EndRound \/ UNCHANGED vars
  BY <1>14, <1>f DEF FindNothing, Wake, FindRetry, EndRound, vars
<1> QED  BY <1>1, <1>2, <1>3, <1>4, <1>5, <1>6, <1>7, <1>9, <1>10, <1>11, <1>12, <1>13, <1>14
         DEF Next, Create, Clean

(* The preloader's rounds stay in order.                                    *)
LEMMA RoundStep == TypeOK /\ RoundOK /\ [Next]_vars => RoundOK'
<1> SUFFICES ASSUME TypeOK, RoundOK, [Next]_vars PROVE RoundOK'
  OBVIOUS
<1>t. worker \in [Workers -> WorkerState]
  BY DEF TypeOK, RunTypeOK
<1>f. UNCHANGED <<pc, pending, worker, fatal>> => RoundOK'
  BY DEF RoundOK
<1>o. WorkerOff.pc = "off" /\ WorkerOff.tasks = {}
  BY DEF WorkerOff
<1>w. ASSUME NEW w \in Workers, worker[w].pc # "off" PROVE pc = "work"
  BY <1>w DEF RoundOK
<1>1. CASE FindCollections
  BY <1>1 DEF FindCollections, RoundOK
<1>2. CASE FindFails
  BY <1>2 DEF FindFails, RoundOK
<1>3. CASE FindNothing \/ Wake
  BY <1>3 DEF FindNothing, Wake, StartRound, RoundOK
<1>4. CASE EndRound
  BY <1>4 DEF EndRound, StartRound, RoundOK
<1>5. CASE Restart
  BY <1>5, <1>o DEF Restart, StartRound, RoundOK
<1>6. ASSUME NEW w \in Workers, TakeCollectionId(w) PROVE RoundOK'
  <2>1. CASE pending = {}
    BY <1>6, <1>t, <1>o, <1>w, <2>1 DEF TakeCollectionId, RoundOK
  <2>2. CASE pending # {}
    <3>1. PICK k \in pending :
            /\ pending' = pending \ {k}
            /\ worker' = [worker EXCEPT ![w] = [pc |-> "read", coll |-> k, tasks |-> {}]]
      BY <1>6, <2>2 DEF TakeCollectionId
    <3>2. /\ worker'[w].pc = "read" /\ worker'[w].tasks = {}
          /\ \A u \in Workers : u # w => worker'[u] = worker[u]
      BY <1>t, <3>1
    <3> QED  BY <1>6, <1>w, <2>2, <3>1, <3>2 DEF TakeCollectionId, RoundOK
  <2> QED  BY <2>1, <2>2
<1>7. ASSUME NEW w \in Workers, GetTasksByCollection(w) PROVE RoundOK'
  <2>1. /\ worker'[w].pc \in {"next", "push"}
        /\ worker'[w].pc # "push" => worker'[w].tasks = {}
        /\ \A u \in Workers : u # w => worker'[u] = worker[u]
    BY <1>7, <1>t DEF GetTasksByCollection
  <2> QED  BY <1>7, <1>w, <2>1 DEF GetTasksByCollection, RoundOK
<1>8. ASSUME NEW w \in Workers, GetTasksFails(w) PROVE RoundOK'
  BY <1>8, <1>t, <1>o, <1>w DEF GetTasksFails, RoundOK
<1>9. ASSUME NEW w \in Workers, PushTask(w) PROVE RoundOK'
  <2>1. /\ worker'[w].pc \in {"next", "push"}
        /\ worker'[w].pc # "push" => worker'[w].tasks = {}
        /\ \A u \in Workers : u # w => worker'[u] = worker[u]
    BY <1>9, <1>t DEF PushTask
  <2> QED  BY <1>9, <1>w, <2>1 DEF PushTask, RoundOK
<1>10. ASSUME NEW c \in Creators,
              \/ \E id \in Ids, e \in ExecTimes : AddNewTask(c, id, e)
              \/ Create(c) \/ CreateDeadlock(c) \/ CreateFails(c)
       PROVE  RoundOK'
  BY <1>10, <1>f DEF AddNewTask, Create, CreateFindCollection, CreateInsertCollection,
      CreateInsertTask, CreateInsertRefused, PushNewTask, CreateDeadlock, CreateFails
<1>11. ASSUME NEW d \in Deleters,
              \/ \E id \in Ids : Delete(d, id) \/ DeleteFails(d, id)
              \/ Clean(d) \/ CleaningFails(d)
       PROVE  RoundOK'
  BY <1>11, <1>f DEF Delete, DeleteFails, Clean, CheckCleaning, SelectEmpty, DeleteEmpty,
      CleaningFails
<1>12. CASE FindRetry \/ Tick \/ UNCHANGED vars
  BY <1>12, <1>f DEF FindRetry, Tick, vars
<1> QED  BY <1>1, <1>2, <1>3, <1>4, <1>5, <1>6, <1>7, <1>8, <1>9, <1>10, <1>11, <1>12
         DEF Next

(* A create on time: the range in which new tasks count as taken outlasts   *)
(* the preloading range by more than a create takes.                        *)
CreateIsQuick == MaxCreateDelay + TimePreload < NewTaskRange

(* No collection chosen for later is taken before its task is in it.        *)
LEMMA LaterStep ==
    ASSUME CreateIsQuick
    PROVE  TypeOK /\ RowsOK /\ CallsOK /\ LaterStaysUntaken /\ [Next]_vars => LaterStaysUntaken'
<1> SUFFICES ASSUME TypeOK, RowsOK, CallsOK, LaterStaysUntaken, [Next]_vars
             PROVE  LaterStaysUntaken'
  OBVIOUS
<1>t. /\ call \in [Creators -> Call] /\ clock \in Nat /\ instance \in Nat \ {0}
      /\ \A c \in Creators : call[c].pc = "insertTask" => call[c].coll \in CollectionIds
      /\ collection \in [CollectionIds -> Row \cup {Nil}]
      /\ lastId \in Nat
      /\ NewTaskRange \in Nat /\ MaxCreateDelay \in Nat /\ TimePreload \in Nat
  BY RangeIsNat DEF TypeOK, CreatorsTypeOK, RepositoryTypeOK
<1>f. UNCHANGED <<call, collection, instance>> => LaterStaysUntaken'
  BY DEF LaterStaysUntaken, Exists
<1>n. NoCall.pc = "idle"
  BY DEF NoCall
<1>v. ASSUME NEW c \in Creators, NEW v, call' = [call EXCEPT ![c] = v],
             v.pc = "insertTask" /\ ~v.isTaken /\ Exists(v.coll) =>
                collection[v.coll].takenBy # instance,
             UNCHANGED <<collection, instance>>
      PROVE  LaterStaysUntaken'
  BY <1>v, <1>t DEF LaterStaysUntaken, Exists
<1>1. ASSUME NEW c \in Creators, NEW id \in Ids, NEW e \in ExecTimes, AddNewTask(c, id, e)
      PROVE  LaterStaysUntaken'
  BY <1>1, <1>v DEF AddNewTask
<1>2. ASSUME NEW c \in Creators, CreateFindCollection(c) PROVE LaterStaysUntaken'
  <2>1. CASE call' = [call EXCEPT ![c].pc = "insertCollection"]
    BY <1>2, <1>t, <2>1 DEF CreateFindCollection, LaterStaysUntaken, Exists, Call
  <2>2. ASSUME NEW k \in FindCollection(call[c].execTime, call[c].isTaken),
               call' = [call EXCEPT ![c] = Chosen(call[c], k)]
        PROVE  LaterStaysUntaken'
    <3>1. ~call[c].isTaken => collection[k].takenBy # instance
      BY <1>t, <2>2 DEF FindCollection, Call
    <3>2. Chosen(call[c], k).coll = k /\ Chosen(call[c], k).isTaken = call[c].isTaken
      BY DEF Chosen, CallAt
    <3> QED  BY <1>2, <1>v, <2>2, <3>1, <3>2 DEF CreateFindCollection
  <2> QED  BY <1>2, <2>1, <2>2 DEF CreateFindCollection
<1>3. ASSUME NEW c \in Creators, CreateInsertCollection(c) PROVE LaterStaysUntaken'
  <2> DEFINE row == [execTime |-> call[c].execTime,
                     takenBy |-> IF call[c].isTaken THEN instance ELSE 0]
  <2>1. /\ lastId + 1 \in CollectionIds
        /\ collection' = [collection EXCEPT ![lastId + 1] = row]
        /\ call' = [call EXCEPT ![c] = Chosen(call[c], lastId + 1)]
        /\ UNCHANGED instance
    BY <1>3, <1>t DEF CreateInsertCollection, InsertCollection
  <2>2. ~call[c].isTaken => row.takenBy # instance
    BY <1>t
  <2> HIDE DEF row
  <2>3. /\ Chosen(call[c], lastId + 1).coll = lastId + 1
        /\ Chosen(call[c], lastId + 1).isTaken = call[c].isTaken
    BY DEF Chosen, CallAt
  <2>4. ASSUME NEW b \in Creators, b # c
        PROVE  /\ call'[b] = call[b]
               /\ call[b].pc = "insertTask" => collection'[call[b].coll] = collection[call[b].coll]
    BY <1>t, <2>1, <2>4 DEF CallsOK
  <2>5. call'[c] = Chosen(call[c], lastId + 1) /\ collection'[lastId + 1] = row
    BY <1>t, <2>1
  <2> QED  BY <1>t, <2>1, <2>2, <2>3, <2>4, <2>5 DEF LaterStaysUntaken, Exists
<1>4. ASSUME NEW c \in Creators,
             CreateInsertRefused(c) \/ PushNewTask(c) \/ CreateFails(c)
      PROVE  LaterStaysUntaken'
  BY <1>4, <1>v, <1>n DEF CreateInsertRefused, PushNewTask, CreateFails
<1>5. ASSUME NEW c \in Creators, CreateInsertTask(c) PROVE LaterStaysUntaken'
  <2>1. CASE call[c].isTaken
    BY <1>5, <1>t, <2>1 DEF CreateInsertTask, LaterStaysUntaken, Exists, Call
  <2>2. CASE ~call[c].isTaken
    BY <1>5, <1>v, <1>n, <2>2 DEF CreateInsertTask
  <2> QED  BY <2>1, <2>2
<1>6. ASSUME NEW c \in Creators, CreateDeadlock(c) PROVE LaterStaysUntaken'
  <2>1. Again(call[c]).pc = "find"
    BY DEF Again, CallAt
  <2> QED  BY <1>6, <1>v, <1>n, <2>1 DEF CreateDeadlock
<1>7. ASSUME NEW d \in Deleters, DeleteEmpty(d) PROVE LaterStaysUntaken'
  <2>1. \A k \in CollectionIds : Exists(k)' => Exists(k) /\ collection'[k] = collection[k]
    BY <1>7, <1>t DEF DeleteEmpty, DeleteCollections, Exists
  <2> QED  BY <1>7, <1>t, <2>1 DEF DeleteEmpty, LaterStaysUntaken
<1>8. ASSUME TakeCollections(Due(clock + TimePreload)), UNCHANGED <<call, instance>>
      PROVE  LaterStaysUntaken'
  <2>1. ASSUME NEW c \in Creators, call[c].pc = "insertTask", ~call[c].isTaken,
               Exists(call[c].coll)
        PROVE  call[c].coll \notin Due(clock + TimePreload)
    <3>1. /\ clock <= call[c].start + MaxCreateDelay
          /\ call[c].start + NewTaskRange <= call[c].execTime
          /\ collection[call[c].coll].execTime = call[c].execTime
      BY <2>1 DEF CallsOK, InCreate
    <3>2. call[c].start \in Nat /\ call[c].execTime \in Nat
      BY <1>t DEF Call
    <3>3. call[c].execTime > clock + TimePreload
      BY <1>t, <3>1, <3>2 DEF CreateIsQuick
    <3> QED  BY <1>t, <3>1, <3>2, <3>3 DEF Due
  <2>2. \A k \in CollectionIds :
            /\ k \notin Due(clock + TimePreload) => collection'[k] = collection[k]
            /\ Exists(k)' => Exists(k)
    <3>1. \A k \in Due(clock + TimePreload) : Exists(k)
      BY DEF Due
    <3> QED  BY <1>8, <3>1 DEF TakeCollections, Exists
  <2> QED  BY <1>8, <1>t, <2>1, <2>2 DEF LaterStaysUntaken
<1>9. CASE FindCollections \/ FindFails
  BY <1>9, <1>8, <1>f DEF FindCollections, FindFails
<1>10. CASE Restart
  BY <1>10, <1>n DEF Restart, LaterStaysUntaken
<1>11. ASSUME NEW d \in Deleters,
              \/ \E id \in Ids : Delete(d, id) \/ DeleteFails(d, id)
              \/ CheckCleaning(d) \/ SelectEmpty(d) \/ CleaningFails(d)
       PROVE  LaterStaysUntaken'
  BY <1>11, <1>f DEF Delete, DeleteFails, CheckCleaning, SelectEmpty, CleaningFails
<1>12. ASSUME NEW w \in Workers,
              \/ TakeCollectionId(w) \/ GetTasksByCollection(w)
              \/ GetTasksFails(w) \/ PushTask(w)
       PROVE  LaterStaysUntaken'
  BY <1>12, <1>f DEF TakeCollectionId, GetTasksByCollection, GetTasksFails, PushTask
<1>13. CASE FindNothing \/ Wake \/ FindRetry \/ EndRound \/ Tick \/ UNCHANGED vars
  BY <1>13, <1>f DEF FindNothing, Wake, FindRetry, EndRound, Tick, vars
<1> QED  BY <1>1, <1>2, <1>3, <1>4, <1>5, <1>6, <1>7, <1>9, <1>10, <1>11, <1>12, <1>13
         DEF Next, Create, Clean

(* The inductive invariant behind NoStrandedTask.                           *)
LoadInv == RowsOK /\ IdsOnce /\ CallsOK /\ RoundOK /\ LaterStaysUntaken

(* No step strands a task.                                                  *)
LEMMA StrandedStep ==
    TypeOK /\ TypeOK' /\ LoadInv /\ LoadInv' /\ NoStrandedTask /\ [Next]_vars => NoStrandedTask'
<1> SUFFICES ASSUME TypeOK, TypeOK', LoadInv, LoadInv', NoStrandedTask, [Next]_vars,
                    NEW id \in Ids, Stranded(id)', ~fatal'
             PROVE  FALSE
  BY DEF NoStrandedTask
<1>t. /\ call \in [Creators -> Call]
      /\ \A c \in Creators : call[c].pc # "idle" => call[c].id \in Ids
      /\ \A c \in Creators : call[c].pc = "insertTask" => call[c].coll \in CollectionIds
      /\ worker \in [Workers -> WorkerState] /\ pending \subseteq CollectionIds
      /\ collection \in [CollectionIds -> Row \cup {Nil}]
      /\ taskRow \in [Ids -> 0..MaxCollections] /\ lastId \in Nat /\ instance \in Nat
      /\ accepted \in [Ids -> {"no", "taken", "later"}] /\ loads \in [Ids -> Nat]
      /\ \A k \in CollectionIds : k > lastId => ~Exists(k)
  <2>1. CreatorsTypeOK /\ RunTypeOK /\ RepositoryTypeOK /\ HistoryTypeOK
    BY DEF TypeOK
  <2>2. lastId \in Nat /\ instance \in Nat
    BY <2>1 DEF RepositoryTypeOK
  <2> QED  BY <2>1, <2>2 DEF CreatorsTypeOK, RunTypeOK, RepositoryTypeOK, HistoryTypeOK
<1>s. /\ accepted'[id] # "no" /\ taskRow'[id] # 0 /\ taskRow'[id] \in CollectionIds
      /\ collection'[taskRow'[id]] # Nil
      /\ collection'[taskRow'[id]].takenBy = instance'
      /\ ~InHand(id)'
  <2>1. taskRow'[id] \in 0..MaxCollections
    BY DEF TypeOK, RepositoryTypeOK
  <2> QED  BY <2>1 DEF Stranded, Exists, CollectionIds
<1>o. NoCall.pc = "idle" /\ WorkerOff.pc = "off" /\ WorkerOff.tasks = {}
  BY DEF NoCall, WorkerOff
(* A step that leaves the task's row and its collection alone loses the     *)
(* task only if it takes it out of every hand.                              *)
<1>f. ASSUME ~fatal, UNCHANGED instance, accepted'[id] = accepted[id],
             taskRow'[id] = taskRow[id],
             collection'[taskRow[id]] = collection[taskRow[id]],
             InHand(id) => InHand(id)'
      PROVE  FALSE
  BY <1>f, <1>s DEF NoStrandedTask, Stranded, Exists
<1>h. UNCHANGED <<loads, call, taskRow, pending, worker>> => (InHand(id) => InHand(id)')
  BY DEF InHand
<1>1. ASSUME NEW c \in Creators, NEW i \in Ids, NEW e \in ExecTimes, AddNewTask(c, i, e)
      PROVE  FALSE
  <2>1. InHand(id) => InHand(id)'
    BY <1>1, <1>t DEF AddNewTask, InHand
  <2> QED  BY <1>1, <1>f, <2>1 DEF AddNewTask
<1>2. ASSUME NEW c \in Creators, CreateFindCollection(c) PROVE FALSE
  <2>1. InHand(id) => InHand(id)'
    BY <1>2, <1>t DEF CreateFindCollection, InHand
  <2> QED  BY <1>2, <1>f, <2>1 DEF CreateFindCollection
<1>3. ASSUME NEW c \in Creators, CreateInsertCollection(c) PROVE FALSE
  <2>1. InHand(id) => InHand(id)'
    BY <1>3, <1>t DEF CreateInsertCollection, InHand
  <2>2. taskRow[id] = taskRow'[id] /\ Exists(taskRow[id])
    BY <1>3, <1>s DEF CreateInsertCollection, LoadInv, RowsOK
  <2>3. taskRow[id] # lastId + 1
    BY <1>t, <1>s, <2>2
  <2>4. collection'[taskRow[id]] = collection[taskRow[id]]
    BY <1>3, <1>t, <1>s, <2>2, <2>3 DEF CreateInsertCollection, InsertCollection
  <2> QED  BY <1>3, <1>f, <2>1, <2>4 DEF CreateInsertCollection
<1>4. ASSUME NEW c \in Creators, CreateInsertTask(c) PROVE FALSE
  <2>1. call[c].pc = "insertTask" /\ call[c].id \in Ids /\ call[c].coll \in CollectionIds
        /\ Exists(call[c].coll) /\ UNCHANGED <<collection, instance, fatal>>
    BY <1>4, <1>t DEF CreateInsertTask, InsertTask
  <2>2. CASE call[c].id = id /\ call[c].isTaken
    <3>1. call'[c].pc = "push" /\ call'[c].id = id
      BY <1>4, <1>t, <2>1, <2>2 DEF CreateInsertTask, Call
    <3> QED  BY <1>s, <3>1 DEF InHand
  <2>3. CASE call[c].id = id /\ ~call[c].isTaken
    <3>1. taskRow'[id] = call[c].coll
      BY <1>4, <1>t, <2>1, <2>3 DEF CreateInsertTask, InsertTask
    <3>2. collection[call[c].coll].takenBy # instance
      BY <2>1, <2>3 DEF LoadInv, LaterStaysUntaken
    <3> QED  BY <1>s, <2>1, <3>1, <3>2
  <2>4. CASE call[c].id # id
    <3>1. taskRow'[id] = taskRow[id] /\ accepted'[id] = accepted[id]
      BY <1>4, <1>t, <2>1, <2>4 DEF CreateInsertTask, InsertTask
    <3>2. InHand(id) => InHand(id)'
      BY <1>4, <1>t, <2>1, <2>4, <3>1 DEF CreateInsertTask, InHand
    <3> QED  BY <1>f, <2>1, <3>1, <3>2
  <2> QED  BY <2>2, <2>3, <2>4
<1>5. ASSUME NEW c \in Creators, CreateInsertRefused(c) PROVE FALSE
  <2>1. InHand(id) => InHand(id)'
    BY <1>5, <1>t DEF CreateInsertRefused, InHand
  <2> QED  BY <1>5, <1>f, <2>1 DEF CreateInsertRefused
<1>6. ASSUME NEW c \in Creators, CreateDeadlock(c) PROVE FALSE
  <2>1. InHand(id) => InHand(id)'
    BY <1>6, <1>t DEF CreateDeadlock, InCreate, InHand
  <2> QED  BY <1>6, <1>f, <2>1 DEF CreateDeadlock
<1>7. ASSUME NEW c \in Creators, CreateFails(c) PROVE FALSE
  <2>1. UNCHANGED <<collection, instance, fatal, accepted, deleted>>
        /\ InCreate(c)
    BY <1>7 DEF CreateFails
  <2>2. CASE taskRow'[id] = taskRow[id]
    <3>1. InHand(id) => InHand(id)'
      BY <1>7, <1>t, <2>2 DEF CreateFails, InCreate, InHand
    <3> QED  BY <1>f, <2>1, <2>2, <3>1
  <2>3. CASE taskRow'[id] # taskRow[id]
    <3>1. call[c].id = id /\ taskRow[id] = 0
      BY <1>7, <1>t, <2>3 DEF CreateFails, InsertTask
    <3>2. id \notin deleted /\ accepted[id] = "no"
      BY <2>1, <3>1 DEF LoadInv, IdsOnce
    <3> QED  BY <1>s, <2>1, <3>2
  <2> QED  BY <2>2, <2>3
<1>8. ASSUME NEW c \in Creators, PushNewTask(c) PROVE FALSE
  <2>1. call[c].id \in Ids
    BY <1>8, <1>t DEF PushNewTask
  <2>2. loads'[call[c].id] > 0 /\ \A i \in Ids : loads[i] > 0 => loads'[i] > 0
    BY <1>8, <1>t, <2>1 DEF PushNewTask, Load
  <2>3. InHand(id) => InHand(id)'
    BY <1>8, <1>t, <2>2 DEF PushNewTask, InHand
  <2> QED  BY <1>8, <1>f, <2>3 DEF PushNewTask
<1>9. ASSUME NEW d \in Deleters, NEW i \in Ids, Delete(d, i) \/ DeleteFails(d, i) PROVE FALSE
  <2>1. taskRow'[id] = taskRow[id]
    BY <1>9, <1>t, <1>s DEF Delete, DeleteFails, DeleteTask
  <2>2. InHand(id) => InHand(id)'
    BY <1>9, <2>1 DEF Delete, DeleteFails, InHand
  <2> QED  BY <1>9, <1>f, <2>1, <2>2 DEF Delete, DeleteFails
<1>10. ASSUME NEW d \in Deleters, CheckCleaning(d) \/ SelectEmpty(d) \/ CleaningFails(d)
       PROVE  FALSE
  BY <1>10, <1>f, <1>h DEF CheckCleaning, SelectEmpty, CleaningFails
<1>11. ASSUME NEW d \in Deleters, DeleteEmpty(d) PROVE FALSE
  <2>1. taskRow'[id] = taskRow[id]
    BY <1>11 DEF DeleteEmpty
  <2>2. collection'[taskRow[id]] = collection[taskRow[id]]
    BY <1>11, <1>t, <1>s, <2>1 DEF DeleteEmpty, DeleteCollections
  <2> QED  BY <1>11, <1>f, <1>h, <2>2 DEF DeleteEmpty
<1>12. CASE FindCollections
  <2>1. /\ pc = "find" /\ UNCHANGED <<taskRow, instance, accepted, loads, call, fatal>>
        /\ pending' = Due(clock + TimePreload)
        /\ TakeCollections(Due(clock + TimePreload))
        /\ \A w \in Workers : worker'[w].tasks = {}
    BY <1>12 DEF FindCollections
  <2>2. pending = {} /\ \A w \in Workers : worker[w].pc = "off" /\ worker[w].tasks = {}
    BY <2>1 DEF LoadInv, RoundOK
  <2>3. taskRow[id] \notin Due(clock + TimePreload)
    BY <1>s, <2>1 DEF InHand
  <2>4. collection'[taskRow[id]] = collection[taskRow[id]]
    BY <1>s, <2>1, <2>3 DEF TakeCollections
  <2>5. InHand(id) => InHand(id)'
    BY <2>1, <2>2 DEF InHand
  <2> QED  BY <1>f, <2>1, <2>4, <2>5
<1>13. CASE FindFails
  BY <1>13 DEF FindFails
<1>14. ASSUME NEW w \in Workers, TakeCollectionId(w) PROVE FALSE
  <2>1. /\ worker[w].pc = "next" /\ worker[w].tasks = {}
        /\ UNCHANGED <<taskRow, instance, accepted, loads, call, fatal, collection>>
    BY <1>14 DEF TakeCollectionId, LoadInv, RoundOK
  <2>2. CASE pending = {}
    <3>1. InHand(id) => InHand(id)'
      BY <1>14, <1>t, <1>o, <2>1, <2>2 DEF TakeCollectionId, InHand
    <3> QED  BY <1>f, <2>1, <3>1
  <2>3. CASE pending # {}
    <3>1. PICK k \in pending :
            /\ pending' = pending \ {k}
            /\ worker' = [worker EXCEPT ![w] = [pc |-> "read", coll |-> k, tasks |-> {}]]
      BY <1>14, <2>3 DEF TakeCollectionId
    <3>2. /\ worker'[w].pc = "read" /\ worker'[w].coll = k
          /\ \A u \in Workers : u # w => worker'[u] = worker[u]
      BY <1>t, <3>1
    <3>3. InHand(id) => InHand(id)'
      BY <2>1, <3>1, <3>2 DEF InHand
    <3> QED  BY <1>f, <2>1, <3>3
  <2> QED  BY <2>2, <2>3
<1>15. ASSUME NEW w \in Workers, GetTasksByCollection(w) PROVE FALSE
  <2>1. /\ worker[w].pc = "read" /\ worker[w].tasks = {}
        /\ worker'[w].tasks = TasksOf(worker[w].coll)
        /\ \A u \in Workers : u # w => worker'[u] = worker[u]
        /\ UNCHANGED <<taskRow, instance, accepted, loads, call, fatal, collection, pending>>
    BY <1>15, <1>t DEF GetTasksByCollection, LoadInv, RoundOK
  <2>2. taskRow[id] = worker[w].coll => id \in worker'[w].tasks
    BY <2>1 DEF TasksOf
  <2>3. InHand(id) => InHand(id)'
    BY <2>1, <2>2 DEF InHand
  <2> QED  BY <1>f, <2>1, <2>3
<1>16. ASSUME NEW w \in Workers, GetTasksFails(w) PROVE FALSE
  BY <1>16 DEF GetTasksFails
<1>17. ASSUME NEW w \in Workers, PushTask(w) PROVE FALSE
  <2>1. PICK i \in worker[w].tasks :
          /\ Load(i)
          /\ worker' = [worker EXCEPT ![w] =
                 [pc |-> IF @.tasks = {i} THEN "next" ELSE "push", coll |-> 0,
                  tasks |-> @.tasks \ {i}]]
    BY <1>17 DEF PushTask
  <2>2. /\ worker[w].pc = "push"
        /\ UNCHANGED <<taskRow, instance, accepted, call, fatal, collection, pending>>
    BY <1>17 DEF PushTask
  <2>3. i \in Ids
    BY <1>t, <2>1 DEF WorkerState
  <2>4. loads'[i] > 0 /\ \A j \in Ids : loads[j] > 0 => loads'[j] > 0
    BY <1>t, <2>1, <2>3 DEF Load
  <2>5. worker'[w].tasks = worker[w].tasks \ {i} /\ \A u \in Workers : u # w => worker'[u] = worker[u]
    BY <1>t, <2>1
  <2>6. InHand(id) => InHand(id)'
    BY <2>2, <2>4, <2>5 DEF InHand
  <2> QED  BY <1>f, <2>2, <2>6
<1>18. CASE EndRound
  <2>1. /\ pc = "work" /\ \A w \in Workers : worker[w].pc = "off"
        /\ UNCHANGED <<taskRow, instance, accepted, loads, call, fatal, collection, worker>>
    BY <1>18 DEF EndRound
  <2>2. pending = {}
    BY <2>1, WorkersAssumption DEF LoadInv, RoundOK
  <2>3. InHand(id) => InHand(id)'
    BY <2>1, <2>2 DEF InHand
  <2> QED  BY <1>f, <2>1, <2>3
<1>19. CASE Restart
  <2>1. instance' = instance + 1 /\ UNCHANGED <<collection, taskRow>>
    BY <1>19 DEF Restart
  <2>2. collection[taskRow'[id]].takenBy <= instance
    BY <1>s, <2>1 DEF LoadInv, RowsOK, Exists
  <2> QED  BY <1>t, <1>s, <2>1, <2>2 DEF Row
<1>20. CASE FindNothing \/ Wake \/ FindRetry \/ Tick \/ UNCHANGED vars
  BY <1>20, <1>f, <1>h DEF FindNothing, Wake, FindRetry, Tick, vars
<1> QED  BY <1>1, <1>2, <1>3, <1>4, <1>5, <1>6, <1>7, <1>8, <1>9, <1>10, <1>11, <1>12, <1>13,
            <1>14, <1>15, <1>16, <1>17, <1>18, <1>19, <1>20 DEF Next, Create, Clean

(* If a create takes less than (coefficient - 1) * TimePreload, no accepted *)
(* task is ever left in a taken collection without somebody to load it,     *)
(* short of a LevelFatal event (preloader_service.go:87-97, 137-170).       *)
THEOREM NothingStranded == CreateIsQuick => (Spec => []NoStrandedTask)
<1> SUFFICES ASSUME CreateIsQuick PROVE Spec => []NoStrandedTask
  OBVIOUS
<1>1. Init => LoadInv /\ NoStrandedTask
  <2> SUFFICES ASSUME Init PROVE LoadInv /\ NoStrandedTask
    OBVIOUS
  <2>1. RowsOK
    BY DEF Init, RepositoryInit, RowsOK, Exists
  <2>2. IdsOnce /\ CallsOK /\ LaterStaysUntaken
    BY DEF Init, NoCall, IdsOnce, CallsOK, LaterStaysUntaken, InCreate
  <2>3. RoundOK
    BY DEF Init, WorkerOff, RoundOK
  <2>4. NoStrandedTask
    BY DEF Init, NoStrandedTask, Stranded
  <2> QED  BY <2>1, <2>2, <2>3, <2>4 DEF LoadInv
<1>2. TypeOK /\ LoadInv /\ [Next]_vars => LoadInv'
  BY RowsStep, IdsStep, CallsStep, RoundStep, LaterStep DEF LoadInv
<1> QED  BY <1>1, <1>2, StrandedStep, TypeCorrect, PTL DEF Spec

-----------------------------------------------------------------------------
(* The cleaning of empty collections                                        *)

(* What a cleaner has selected stays old.                                   *)
LEMMA SelectionStep == TypeOK /\ SelectionIsOld /\ [Next]_vars => SelectionIsOld'
<1> SUFFICES ASSUME TypeOK, SelectionIsOld, [Next]_vars PROVE SelectionIsOld'
  OBVIOUS
<1>t. /\ deleter \in [Deleters -> [pc : {"idle", "check", "select", "delete"},
                                   ids : SUBSET CollectionIds]]
      /\ collection \in [CollectionIds -> Row \cup {Nil}]
      /\ clock \in Nat /\ lastId \in Nat
  BY DEF TypeOK, DeletersTypeOK, RepositoryTypeOK, CreatorsTypeOK
<1>f. UNCHANGED <<deleter, collection, lastId, clock>> => SelectionIsOld'
  BY DEF SelectionIsOld, Exists
<1>n. NoDelete.ids = {}
  BY DEF NoDelete
<1>1. ASSUME NEW d \in Deleters, NEW id \in Ids, Delete(d, id) PROVE SelectionIsOld'
  <2>1. \A b \in Deleters : deleter'[b].ids = deleter[b].ids
    BY <1>1, <1>t DEF Delete
  <2> QED  BY <1>1, <2>1 DEF Delete, SelectionIsOld, Exists
<1>2. ASSUME NEW d \in Deleters, CheckCleaning(d) PROVE SelectionIsOld'
  <2>1. \A b \in Deleters : deleter'[b].ids = deleter[b].ids
    BY <1>2, <1>t DEF CheckCleaning
  <2> QED  BY <1>2, <2>1 DEF CheckCleaning, SelectionIsOld, Exists
<1>3. ASSUME NEW d \in Deleters, SelectEmpty(d) PROVE SelectionIsOld'
  <2>1. \A b \in Deleters : b # d => deleter'[b] = deleter[b]
    BY <1>3, <1>t DEF SelectEmpty
  <2>2. deleter'[d].ids \subseteq EmptyCollections(clock)
    BY <1>3, <1>t, <1>n DEF SelectEmpty
  <2>3. \A k \in EmptyCollections(clock) : k <= lastId /\ collection[k].execTime < clock - CleanAge
    BY DEF EmptyCollections, TypeOK, RepositoryTypeOK
  <2> QED  BY <1>3, <2>1, <2>2, <2>3 DEF SelectEmpty, SelectionIsOld, Exists
<1>4. ASSUME NEW d \in Deleters, DeleteEmpty(d) PROVE SelectionIsOld'
  <2>1. \A b \in Deleters : deleter'[b].ids \subseteq deleter[b].ids
    BY <1>4, <1>t, <1>n DEF DeleteEmpty
  <2>2. \A k \in CollectionIds : Exists(k)' => Exists(k) /\ collection'[k] = collection[k]
    BY <1>4, <1>t DEF DeleteEmpty, DeleteCollections, Exists
  <2> QED  BY <1>4, <1>t, <2>1, <2>2 DEF DeleteEmpty, SelectionIsOld
<1>5. ASSUME NEW d \in Deleters, CleaningFails(d) PROVE SelectionIsOld'
  <2>1. \A b \in Deleters : deleter'[b].ids \subseteq deleter[b].ids
    BY <1>5, <1>t, <1>n DEF CleaningFails
  <2> QED  BY <1>5, <2>1 DEF CleaningFails, SelectionIsOld, Exists
<1>6. ASSUME NEW c \in Creators, CreateInsertCollection(c) PROVE SelectionIsOld'
  <2>1. /\ lastId' = lastId + 1 /\ UNCHANGED <<deleter, clock>>
        /\ \A k \in CollectionIds : k # lastId + 1 => collection'[k] = collection[k]
    BY <1>6, <1>t DEF CreateInsertCollection, InsertCollection
  <2> QED  BY <1>t, <2>1 DEF SelectionIsOld, Exists
<1>7. ASSUME TakeCollections(Due(clock + TimePreload)), UNCHANGED <<deleter, clock, lastId>>
      PROVE  SelectionIsOld'
  <2>1. \A k \in Due(clock + TimePreload) : k \in CollectionIds /\ collection[k] \in Row
    BY <1>t DEF Due, Exists
  <2>2. ASSUME NEW k \in CollectionIds, Exists(k)'
        PROVE  Exists(k) /\ collection'[k].execTime = collection[k].execTime
    BY <1>7, <1>t, <2>1, <2>2 DEF TakeCollections, Exists, Row
  <2> QED  BY <1>7, <1>t, <2>2 DEF SelectionIsOld
<1>8. CASE FindCollections \/ FindFails
  BY <1>8, <1>7, <1>f DEF FindCollections, FindFails
<1>9. CASE Restart
  BY <1>9, <1>n DEF Restart, SelectionIsOld
<1>10. CASE Tick
  <2>1. clock' = clock + 1 /\ UNCHANGED <<deleter, collection, lastId>>
    BY <1>10 DEF Tick
  <2>2. \A k \in CollectionIds : Exists(k) => collection[k].execTime \in Int
    BY <1>t DEF Exists, Row
  <2> QED  BY <1>t, <2>1, <2>2 DEF SelectionIsOld, Exists
<1>11. ASSUME NEW d \in Deleters, NEW id \in Ids, DeleteFails(d, id) PROVE SelectionIsOld'
  BY <1>11, <1>f DEF DeleteFails
<1>12. ASSUME NEW c \in Creators,
              \/ \E id \in Ids, e \in ExecTimes : AddNewTask(c, id, e)
              \/ CreateFindCollection(c) \/ CreateInsertTask(c) \/ CreateInsertRefused(c)
              \/ PushNewTask(c) \/ CreateDeadlock(c) \/ CreateFails(c)
       PROVE  SelectionIsOld'
  BY <1>12, <1>f DEF AddNewTask, CreateFindCollection, CreateInsertTask, CreateInsertRefused,
      PushNewTask, CreateDeadlock, CreateFails
<1>13. ASSUME NEW w \in Workers,
              \/ TakeCollectionId(w) \/ GetTasksByCollection(w)
              \/ GetTasksFails(w) \/ PushTask(w)
       PROVE  SelectionIsOld'
  BY <1>13, <1>f DEF TakeCollectionId, GetTasksByCollection, GetTasksFails, PushTask
<1>14. CASE FindNothing \/ Wake \/ FindRetry \/ EndRound \/ UNCHANGED vars
  BY <1>14, <1>f DEF FindNothing, Wake, FindRetry, EndRound, vars
<1> QED  BY <1>1, <1>2, <1>3, <1>4, <1>5, <1>6, <1>8, <1>9, <1>10, <1>11, <1>12, <1>13, <1>14
         DEF Next, Create, Clean

(* The age at which an empty collection is deleted covers a create.         *)
CleaningWaits == MaxCreateDelay <= CleanAge

(* No step removes a chosen collection.                                     *)
LEMMA ChosenStep ==
    ASSUME CleaningWaits
    PROVE  TypeOK /\ CallsOK /\ SelectionIsOld /\ ChosenCollectionSurvives /\ [Next]_vars
              => ChosenCollectionSurvives'
<1> SUFFICES ASSUME TypeOK, CallsOK, SelectionIsOld, ChosenCollectionSurvives, [Next]_vars
             PROVE  ChosenCollectionSurvives'
  OBVIOUS
<1>t. /\ call \in [Creators -> Call] /\ clock \in Nat /\ lastId \in Nat
      /\ \A c \in Creators : call[c].pc = "insertTask" => call[c].coll \in CollectionIds
      /\ collection \in [CollectionIds -> Row \cup {Nil}]
  BY DEF TypeOK, CreatorsTypeOK, RepositoryTypeOK
<1>f. UNCHANGED <<call, collection>> => ChosenCollectionSurvives'
  BY DEF ChosenCollectionSurvives, Exists
<1>n. NoCall.pc = "idle"
  BY DEF NoCall
<1>v. ASSUME NEW c \in Creators, NEW v, call' = [call EXCEPT ![c] = v],
             v.pc = "insertTask" => Exists(v.coll), UNCHANGED collection
      PROVE  ChosenCollectionSurvives'
  BY <1>v, <1>t DEF ChosenCollectionSurvives, Exists
<1>1. ASSUME NEW c \in Creators, NEW id \in Ids, NEW e \in ExecTimes, AddNewTask(c, id, e)
      PROVE  ChosenCollectionSurvives'
  BY <1>1, <1>v DEF AddNewTask
<1>2. ASSUME NEW c \in Creators, CreateFindCollection(c) PROVE ChosenCollectionSurvives'
  <2>1. CASE call' = [call EXCEPT ![c].pc = "insertCollection"]
    BY <1>2, <1>t, <2>1 DEF CreateFindCollection, ChosenCollectionSurvives, Exists, Call
  <2>2. \A k \in FindCollection(call[c].execTime, call[c].isTaken) :
            Exists(k) /\ Chosen(call[c], k).coll = k
    BY DEF FindCollection, Chosen, CallAt
  <2> QED  BY <1>2, <1>v, <2>1, <2>2 DEF CreateFindCollection
<1>3. ASSUME NEW c \in Creators, CreateInsertCollection(c) PROVE ChosenCollectionSurvives'
  <2> DEFINE row == [execTime |-> call[c].execTime,
                     takenBy |-> IF call[c].isTaken THEN instance ELSE 0]
  <2>1. /\ lastId + 1 \in CollectionIds
        /\ collection' = [collection EXCEPT ![lastId + 1] = row]
        /\ call' = [call EXCEPT ![c] = Chosen(call[c], lastId + 1)]
    BY <1>3, <1>t DEF CreateInsertCollection, InsertCollection
  <2>2. row # Nil
    BY <1>t DEF TypeOK, RepositoryTypeOK, Call
  <2> HIDE DEF row
  <2>3. Chosen(call[c], lastId + 1).coll = lastId + 1
    BY DEF Chosen, CallAt
  <2> QED  BY <1>t, <2>1, <2>2, <2>3 DEF ChosenCollectionSurvives, Exists
<1>4. ASSUME NEW c \in Creators,
             CreateInsertRefused(c) \/ PushNewTask(c) \/ CreateFails(c)
      PROVE  ChosenCollectionSurvives'
  BY <1>4, <1>v, <1>n DEF CreateInsertRefused, PushNewTask, CreateFails
<1>5. ASSUME NEW c \in Creators, CreateInsertTask(c) PROVE ChosenCollectionSurvives'
  <2>1. CASE call[c].isTaken
    BY <1>5, <1>t, <2>1 DEF CreateInsertTask, ChosenCollectionSurvives, Exists, Call
  <2>2. CASE ~call[c].isTaken
    BY <1>5, <1>v, <1>n, <2>2 DEF CreateInsertTask
  <2> QED  BY <2>1, <2>2
<1>6. ASSUME NEW c \in Creators, CreateDeadlock(c) PROVE ChosenCollectionSurvives'
  <2>1. Again(call[c]).pc = "find"
    BY DEF Again, CallAt
  <2> QED  BY <1>6, <1>v, <1>n, <2>1 DEF CreateDeadlock
<1>7. ASSUME NEW d \in Deleters, DeleteEmpty(d) PROVE ChosenCollectionSurvives'
  <2> SUFFICES ASSUME NEW c \in Creators, call[c].pc = "insertTask"
               PROVE  collection'[call[c].coll] # Nil
    BY <1>7 DEF DeleteEmpty, ChosenCollectionSurvives, Exists
  <2>1. /\ call[c].start <= call[c].execTime
        /\ clock <= call[c].start + MaxCreateDelay
        /\ collection[call[c].coll].execTime = call[c].execTime
        /\ Exists(call[c].coll) /\ call[c].coll \in CollectionIds
    BY <1>t DEF CallsOK, InCreate, ChosenCollectionSurvives
  <2>2. call[c].start \in Nat /\ call[c].execTime \in Nat
    BY <1>t DEF Call
  <2>3. ~(call[c].execTime < clock - CleanAge)
    BY <1>t, <2>1, <2>2 DEF CleaningWaits
  <2>4. call[c].coll \notin deleter[d].ids
    BY <2>1, <2>3 DEF SelectionIsOld
  <2> QED  BY <1>7, <2>1, <2>4 DEF DeleteEmpty, DeleteCollections, Exists
<1>8. ASSUME TakeCollections(Due(clock + TimePreload)), UNCHANGED call
      PROVE  ChosenCollectionSurvives'
  <2>1. \A k \in Due(clock + TimePreload) : k \in CollectionIds /\ collection[k] \in Row
    BY <1>t DEF Due, Exists
  <2>2. instance \in Nat
    BY DEF TypeOK, RepositoryTypeOK
  <2>3. ASSUME NEW k \in CollectionIds
        PROVE  collection'[k] = Nil <=> collection[k] = Nil
    BY <1>8, <1>t, <2>1, <2>2, NilRowAssumption DEF TakeCollections, Row
  <2>4. \A k \in CollectionIds : Exists(k) => Exists(k)'
    BY <2>3 DEF Exists
  <2> QED  BY <1>8, <1>t, <2>4 DEF ChosenCollectionSurvives
<1>9. CASE FindCollections \/ FindFails
  BY <1>9, <1>8, <1>f DEF FindCollections, FindFails
<1>10. CASE Restart
  BY <1>10, <1>n DEF Restart, ChosenCollectionSurvives
<1>11. ASSUME NEW d \in Deleters,
              \/ \E id \in Ids : Delete(d, id) \/ DeleteFails(d, id)
              \/ CheckCleaning(d) \/ SelectEmpty(d) \/ CleaningFails(d)
       PROVE  ChosenCollectionSurvives'
  BY <1>11, <1>f DEF Delete, DeleteFails, CheckCleaning, SelectEmpty, CleaningFails
<1>12. ASSUME NEW w \in Workers,
              \/ TakeCollectionId(w) \/ GetTasksByCollection(w)
              \/ GetTasksFails(w) \/ PushTask(w)
       PROVE  ChosenCollectionSurvives'
  BY <1>12, <1>f DEF TakeCollectionId, GetTasksByCollection, GetTasksFails, PushTask
<1>13. CASE FindNothing \/ Wake \/ FindRetry \/ EndRound \/ Tick \/ UNCHANGED vars
  BY <1>13, <1>f DEF FindNothing, Wake, FindRetry, EndRound, Tick, vars
<1> QED  BY <1>1, <1>2, <1>3, <1>4, <1>5, <1>6, <1>7, <1>9, <1>10, <1>11, <1>12, <1>13
         DEF Next, Create, Clean

(* If a create takes at most the 5 seconds an empty collection is left      *)
(* alone, the cleaner never deletes the collection a create has chosen      *)
(* (mysql_repository.go:158-198 against 441-455).                           *)
THEOREM CleaningIsSafe == CleaningWaits => (Spec => []ChosenCollectionSurvives)
<1> SUFFICES ASSUME CleaningWaits PROVE Spec => []ChosenCollectionSurvives
  OBVIOUS
<1>1. Init => CallsOK /\ SelectionIsOld /\ ChosenCollectionSurvives
  BY DEF Init, NoCall, NoDelete, CallsOK, SelectionIsOld, ChosenCollectionSurvives, InCreate
<1> QED  BY <1>1, CallsStep, SelectionStep, ChosenStep, TypeCorrect, PTL DEF Spec

-----------------------------------------------------------------------------
(* PreloaderService implements PreloaderSpec                                *)

(* The state of the promise, as PreloaderService maps it.                   *)
Stored == {id \in Ids : taskRow[id] # 0}

ToRead == {id \in Ids : Unread(id)}

ToPush == {call[c].id : c \in {b \in Creators : call[b].pc = "push"}}

Held == UNION {worker[w].tasks : w \in Workers}

(* A collection of a round: taken by this instance, or already cleaned.     *)
TakenHere(k) == k \in 1..lastId /\ (Exists(k) => collection[k].takenBy = instance)

(* A creator pushes a task that was accepted, and no two push the same one. *)
PushesApart ==
    /\ \A c \in Creators : call[c].pc = "push" => accepted[call[c].id] # "no"
    /\ \A b, c \in Creators :
          call[b].pc = "push" /\ call[c].pc = "push" /\ call[b].id = call[c].id => b = c

(* A collection of a round is read by one worker or still waits for one.    *)
ReadersApart ==
    /\ \A k \in pending : TakenHere(k)
    /\ \A w \in Workers : worker[w].pc = "read" =>
          TakenHere(worker[w].coll) /\ worker[w].coll \notin pending
    /\ \A v, w \in Workers :
          worker[v].pc = "read" /\ worker[w].pc = "read" /\ worker[v].coll = worker[w].coll
          => v = w

(* A task that a worker has read is not read again, by it or by another:    *)
(* its row stays in the collection that was read, and its id is not reused. *)
ReadOnce ==
    /\ \A w \in Workers : \A id \in worker[w].tasks :
          ~Unread(id) /\ (taskRow[id] # 0 \/ id \in deleted)
    /\ \A v, w \in Workers : v # w => worker[v].tasks \cap worker[w].tasks = {}

HandInv == PushesApart /\ ReadersApart /\ ReadOnce

(* The steps of the promise, in those names.                                *)
LEMMA StepsOfPromise ==
    /\ UNCHANGED <<Stored, ToRead, ToPush, Held, loads, fatal>> => UNCHANGED Promise!vars
    /\ \A t \in Ids :
          t \notin Stored /\ Stored' = Stored \cup {t} /\ UNCHANGED <<Held, loads, fatal>> =>
              /\ ToRead' = ToRead \cup {t} /\ UNCHANGED ToPush => Promise!Next
              /\ ToRead' \in {ToRead, ToRead \cup {t}} /\ ToPush' \in {ToPush, ToPush \cup {t}}
                 => Promise!Next
    /\ \A t \in Ids :
          /\ Stored' = Stored \ {t} /\ ToRead' = ToRead \ {t}
          /\ UNCHANGED <<ToPush, Held, loads, fatal>>
          => Promise!Next
    /\ \A ts \in SUBSET ToRead :
          /\ ToRead' = ToRead \ ts /\ Held' = Held \cup ts
          /\ UNCHANGED <<Stored, ToPush, loads, fatal>>
          => Promise!Next
    /\ \A t \in Ids :
          /\ \/ t \in ToPush /\ ToPush' = ToPush \ {t} /\ UNCHANGED Held
             \/ t \in Held /\ Held' = Held \ {t} /\ UNCHANGED ToPush
          /\ Load(t)
          /\ UNCHANGED <<Stored, ToRead, fatal>>
          => Promise!Next
    /\ ToRead' \subseteq ToRead /\ fatal' = TRUE /\ UNCHANGED <<Stored, ToPush, Held, loads>>
       => Promise!Next
    /\ /\ ToRead' = Stored /\ Held' = {} /\ ToPush' = {} /\ loads' = [t \in Ids |-> 0]
       /\ fatal' = FALSE /\ UNCHANGED Stored
       => Promise!Next
<1>1. /\ Promise!vars = <<Stored, ToRead, ToPush, Held, loads, fatal>>
      /\ Promise!vars' = <<Stored, ToRead, ToPush, Held, loads, fatal>>'
  BY DEF Promise!vars, Stored, ToRead, ToPush, Held
<1>2. ASSUME NEW t \in Ids, t \notin Stored, Stored' = Stored \cup {t},
             UNCHANGED <<Held, loads, fatal>>,
             \/ ToRead' = ToRead \cup {t} /\ UNCHANGED ToPush
             \/ /\ ToRead' \in {ToRead, ToRead \cup {t}}
                /\ ToPush' \in {ToPush, ToPush \cup {t}}
      PROVE  Promise!Next
  <2>1. Promise!Create(t) \/ Promise!CreateUnanswered(t)
    BY <1>2 DEF Promise!Create, Promise!CreateUnanswered, Promise!StoreForLater,
       Promise!StoreAsTaken, Stored, ToRead, ToPush, Held
  <2> QED  BY <2>1 DEF Promise!Next
<1>3. ASSUME NEW t \in Ids, Stored' = Stored \ {t}, ToRead' = ToRead \ {t},
             UNCHANGED <<ToPush, Held, loads, fatal>>
      PROVE  Promise!Next
  <2>1. Promise!Delete(t)
    BY <1>3 DEF Promise!Delete, Promise!RowDeleted, Stored, ToRead, ToPush, Held
  <2> QED  BY <2>1 DEF Promise!Next
<1>4. ASSUME NEW ts \in SUBSET ToRead, ToRead' = ToRead \ ts, Held' = Held \cup ts,
             UNCHANGED <<Stored, ToPush, loads, fatal>>
      PROVE  Promise!Next
  <2>1. Promise!Read(ts)
    BY <1>4 DEF Promise!Read, Stored, ToRead, ToPush, Held
  <2>2. Promise!ReadTasks
    BY <1>4, <2>1 DEF Promise!ReadTasks, Stored, ToRead, ToPush
  <2> QED  BY <2>2 DEF Promise!Next
<1>5. ASSUME NEW t \in Ids, Load(t), UNCHANGED <<Stored, ToRead, fatal>>,
             \/ t \in ToPush /\ ToPush' = ToPush \ {t} /\ UNCHANGED Held
             \/ t \in Held /\ Held' = Held \ {t} /\ UNCHANGED ToPush
      PROVE  Promise!Next
  <2>1. Promise!Push(t)
    BY <1>5 DEF Promise!Push, Promise!HandOver, Load, Stored, ToRead, ToPush, Held
  <2> QED  BY <2>1 DEF Promise!Next
<1>6. ASSUME ToRead' \subseteq ToRead, fatal' = TRUE, UNCHANGED <<Stored, ToPush, Held, loads>>
      PROVE  Promise!Next
  <2>1. Promise!Fail
    BY <1>6 DEF Promise!Fail, Promise!Lose, Stored, ToRead, ToPush, Held
  <2> QED  BY <2>1 DEF Promise!Next
<1>7. ASSUME ToRead' = Stored, Held' = {}, ToPush' = {}, loads' = [t \in Ids |-> 0],
             fatal' = FALSE, UNCHANGED Stored
      PROVE  Promise!Next
  <2>1. Promise!Restart
    BY <1>7 DEF Promise!Restart, Promise!StartAgain, Stored, ToRead, ToPush, Held
  <2> QED  BY <2>1 DEF Promise!Next
<1> QED  BY <1>1, <1>2, <1>3, <1>4, <1>5, <1>6, <1>7

-----------------------------------------------------------------------------
(* What the steps do to the tasks that are still to be read                 *)

(* The parts of the types, and a number that is no collection.              *)
LEMMA PromiseTypes ==
    ASSUME TypeOK
    PROVE  /\ taskRow \in [Ids -> 0..MaxCollections]
           /\ collection \in [CollectionIds -> Row \cup {Nil}]
           /\ lastId \in 0..MaxCollections /\ instance \in Nat \ {0}
           /\ worker \in [Workers -> WorkerState] /\ pending \subseteq CollectionIds
           /\ call \in [Creators -> Call]
           /\ \A c \in Creators : call[c].pc # "idle" => call[c].id \in Ids
           /\ \A c \in Creators : call[c].pc = "insertTask" => call[c].coll \in CollectionIds
           /\ accepted \in [Ids -> {"no", "taken", "later"}]
           /\ \A id \in Ids : taskRow[id] # 0 => taskRow[id] \in CollectionIds
BY DEF TypeOK, RepositoryTypeOK, RunTypeOK, CreatorsTypeOK, HistoryTypeOK

LEMMA ToReadStays ==
    UNCHANGED <<taskRow, collection, instance, pending, worker>> => UNCHANGED <<ToRead, Held>>
BY DEF ToRead, Unread, Held

(* A new collection has no task yet.                                        *)
LEMMA NewCollectionUnread ==
    ASSUME TypeOK, RowsOK, NEW e \in Int, NEW b, InsertCollection(e, b),
           UNCHANGED <<taskRow, instance, pending, worker>>
    PROVE  UNCHANGED ToRead
<1>1. \A id \in Ids : taskRow[id] # 0 => taskRow[id] # lastId + 1
  BY PromiseTypes DEF RowsOK, TypeOK, RepositoryTypeOK
<1>2. \A id \in Ids : taskRow[id] # 0 => collection'[taskRow[id]] = collection[taskRow[id]]
  BY <1>1, PromiseTypes DEF InsertCollection
<1>3. \A id \in Ids : Unread(id)' <=> Unread(id)
  BY <1>2 DEF Unread
<1> QED  BY <1>3 DEF ToRead

LEMMA NewTaskUnread ==
    ASSUME TypeOK, NEW t \in Ids, NEW k \in CollectionIds, InsertTask(t, k),
           UNCHANGED <<collection, instance, pending, worker>>
    PROVE  /\ t \notin Stored /\ Stored' = Stored \cup {t}
           /\ t \notin ToRead
           /\ collection[k].takenBy # instance => ToRead' = ToRead \cup {t}
           /\ ToRead' \in {ToRead, ToRead \cup {t}}
<1>1. /\ taskRow[t] = 0 /\ taskRow'[t] = k /\ k # 0
      /\ \A id \in Ids : id # t => taskRow'[id] = taskRow[id]
  BY PromiseTypes DEF InsertTask
<1>2. \A id \in Ids : id # t => (Unread(id)' <=> Unread(id))
  BY <1>1 DEF Unread
<1>3. ~Unread(t) /\ (collection[k].takenBy # instance => Unread(t)')
  BY <1>1 DEF Unread
<1> QED  BY <1>1, <1>2, <1>3 DEF ToRead, Stored

LEMMA DeletedUnread ==
    ASSUME TypeOK, NEW t \in Ids, DeleteTask(t),
           UNCHANGED <<collection, instance, pending, worker>>
    PROVE  Stored' = Stored \ {t} /\ ToRead' = ToRead \ {t}
<1>1. taskRow'[t] = 0 /\ \A id \in Ids : id # t => taskRow'[id] = taskRow[id]
  BY PromiseTypes DEF DeleteTask
<1>2. \A id \in Ids : id # t => (Unread(id)' <=> Unread(id))
  BY <1>1 DEF Unread
<1>3. ~Unread(t)'
  BY <1>1 DEF Unread
<1> QED  BY <1>1, <1>2, <1>3 DEF ToRead, Stored

(* Only collections without tasks are cleaned.                              *)
LEMMA CleaningUnread ==
    ASSUME TypeOK, NEW ks \in SUBSET CollectionIds, DeleteCollections(ks),
           UNCHANGED <<taskRow, instance, pending, worker>>
    PROVE  UNCHANGED ToRead
<1>1. \A id \in Ids : taskRow[id] # 0 => collection'[taskRow[id]] = collection[taskRow[id]]
  BY PromiseTypes DEF DeleteCollections, TasksOf
<1>2. \A id \in Ids : Unread(id)' <=> Unread(id)
  BY <1>1 DEF Unread
<1> QED  BY <1>2 DEF ToRead

(* What the transaction takes, it gives to the workers.                     *)
LEMMA TakenUnread ==
    ASSUME TypeOK, RowsOK, RoundOK, pc = "find",
           TakeCollections(Due(clock + TimePreload)), UNCHANGED <<taskRow, instance>>
    PROVE  /\ pending' = Due(clock + TimePreload)
              /\ (\A w \in Workers : worker'[w].pc # "read")
              => ToRead' = ToRead
           /\ UNCHANGED <<pending, worker>> => ToRead' \subseteq ToRead
<1> DEFINE ks == Due(clock + TimePreload)
<1>1. pending = {} /\ \A w \in Workers : worker[w].pc = "off"
  BY DEF RoundOK
<1>2. \A id \in Ids : Unread(id) <=> taskRow[id] # 0 /\ collection[taskRow[id]].takenBy # instance
  BY <1>1 DEF Unread
<1>3. ASSUME NEW k \in CollectionIds, Exists(k)
      PROVE  /\ k \in ks => collection'[k].takenBy = instance
             /\ k \notin ks => collection'[k] = collection[k]
             /\ collection[k].takenBy = instance => k \notin ks
  <2>1. collection[k] \in Row
    BY <1>3, PromiseTypes DEF Exists
  <2> QED  BY <2>1, PromiseTypes DEF TakeCollections, Due, Row
<1>4. \A id \in Ids : taskRow[id] # 0 => taskRow[id] \in CollectionIds /\ Exists(taskRow[id])
  BY PromiseTypes DEF RowsOK
<1> HIDE DEF ks
<1>5. ASSUME pending' = ks, \A w \in Workers : worker'[w].pc # "read", NEW id \in Ids
      PROVE  Unread(id)' <=> Unread(id)
  BY <1>2, <1>3, <1>4, <1>5 DEF Unread
<1>6. ASSUME UNCHANGED <<pending, worker>>, NEW id \in Ids, Unread(id)'
      PROVE  Unread(id)
  BY <1>1, <1>2, <1>3, <1>4, <1>6 DEF Unread
<1> QED  BY <1>5, <1>6 DEF ks, ToRead

(* A collection that a worker takes from the list is the one it will read.  *)
LEMMA GivenUnread ==
    ASSUME TypeOK, RoundOK, NEW w \in Workers, TakeCollectionId(w)
    PROVE  UNCHANGED <<ToRead, Held>>
<1>t. worker \in [Workers -> WorkerState]
  BY PromiseTypes
<1>1. worker[w].pc = "next" /\ worker[w].tasks = {} /\ UNCHANGED <<taskRow, collection, instance>>
  BY DEF TakeCollectionId, RoundOK
<1>2. ASSUME NEW k \in pending, pending' = pending \ {k},
             worker' = [worker EXCEPT ![w] = [pc |-> "read", coll |-> k, tasks |-> {}]]
      PROVE  UNCHANGED <<ToRead, Held>>
  <2>1. /\ worker'[w].pc = "read" /\ worker'[w].coll = k /\ worker'[w].tasks = {}
        /\ \A v \in Workers : v # w => worker'[v] = worker[v]
    BY <1>t, <1>2
  <2>2. \A id \in Ids : Unread(id)' <=> Unread(id)
    BY <1>1, <1>2, <2>1 DEF Unread
  <2>3. \A v \in Workers : worker'[v].tasks = worker[v].tasks
    BY <1>1, <2>1
  <2> QED  BY <2>2, <2>3 DEF ToRead, Held
<1>3. ASSUME pending = {}, UNCHANGED pending, worker' = [worker EXCEPT ![w] = WorkerOff]
      PROVE  UNCHANGED <<ToRead, Held>>
  <2>1. /\ worker'[w].pc = "off" /\ worker'[w].tasks = {}
        /\ \A v \in Workers : v # w => worker'[v] = worker[v]
    BY <1>t, <1>3 DEF WorkerOff
  <2>2. \A id \in Ids : Unread(id)' <=> Unread(id)
    BY <1>1, <1>3, <2>1 DEF Unread
  <2>3. \A v \in Workers : worker'[v].tasks = worker[v].tasks
    BY <1>1, <2>1
  <2> QED  BY <2>2, <2>3 DEF ToRead, Held
<1> QED  BY <1>2, <1>3 DEF TakeCollectionId

(* Reading a collection takes its tasks, all of them, from those still to   *)
(* be read.                                                                 *)
LEMMA ReadUnread ==
    ASSUME TypeOK, RowsOK, RoundOK, ReadersApart, NEW w \in Workers, GetTasksByCollection(w)
    PROVE  LET ts == TasksOf(worker[w].coll)
           IN  /\ ts \subseteq ToRead /\ ToRead' = ToRead \ ts
               /\ worker'[w].tasks = ts
               /\ Held' = Held \cup ts
<1> DEFINE k == worker[w].coll
           ts == TasksOf(k)
<1>1. /\ worker[w].pc = "read" /\ worker[w].tasks = {}
      /\ UNCHANGED <<taskRow, collection, instance, pending>>
  BY DEF GetTasksByCollection, RoundOK
<1>2. /\ worker'[w].pc # "read" /\ worker'[w].tasks = ts
      /\ \A v \in Workers : v # w => worker'[v] = worker[v]
  BY PromiseTypes DEF GetTasksByCollection
<1>3. /\ k # 0 /\ k \notin pending /\ (Exists(k) => collection[k].takenBy = instance)
      /\ \A v \in Workers : v # w => ~(worker[v].pc = "read" /\ worker[v].coll = k)
  BY <1>1, PromiseTypes DEF ReadersApart, TakenHere
<1>4. \A id \in Ids : id \in ts <=> taskRow[id] = k
  BY DEF TasksOf
<1> HIDE DEF ts
<1>5. \A id \in ts : id \in Ids /\ Unread(id) /\ ~Unread(id)'
  <2> SUFFICES ASSUME NEW id \in ts PROVE id \in Ids /\ Unread(id) /\ ~Unread(id)'
    OBVIOUS
  <2>1. id \in Ids /\ taskRow[id] = k /\ Exists(k)
    BY <1>3, <1>4 DEF ts, TasksOf, RowsOK
  <2>2. Unread(id)
    BY <1>1, <1>3, <2>1 DEF Unread
  <2>3. ~Unread(id)'
    BY <1>1, <1>2, <1>3, <2>1 DEF Unread
  <2> QED  BY <2>1, <2>2, <2>3
<1>6. \A id \in Ids : id \notin ts => (Unread(id)' <=> Unread(id))
  BY <1>1, <1>2, <1>4 DEF Unread
<1>7. Held' = Held \cup ts
  <2>1. \A v \in Workers : v # w => worker'[v].tasks = worker[v].tasks
    BY <1>2
  <2> QED  BY <1>1, <1>2, <2>1 DEF Held
<1>8. ts \subseteq ToRead /\ ToRead' = ToRead \ ts
  BY <1>5, <1>6 DEF ToRead
<1> QED  BY <1>2, <1>7, <1>8 DEF ts

(* A worker that fails and a round that ends read nothing more.             *)
LEMMA LostUnread ==
    ASSUME TypeOK, RoundOK
    PROVE  /\ \A w \in Workers : GetTasksFails(w) => ToRead' \subseteq ToRead /\ UNCHANGED Held
           /\ EndRound => ToRead' \subseteq ToRead /\ UNCHANGED Held
           /\ EndRound => UNCHANGED ToRead \/ fatal
<1>1. ASSUME NEW w \in Workers, GetTasksFails(w)
      PROVE  ToRead' \subseteq ToRead /\ UNCHANGED Held
  <2>1. /\ worker'[w].pc = "off" /\ worker'[w].tasks = {} /\ worker[w].tasks = {}
        /\ \A v \in Workers : v # w => worker'[v] = worker[v]
        /\ UNCHANGED <<taskRow, collection, instance, pending>>
    BY <1>1, PromiseTypes DEF GetTasksFails, WorkerOff, RoundOK
  <2>2. \A id \in Ids : Unread(id)' => Unread(id)
    BY <2>1 DEF Unread
  <2>3. \A v \in Workers : worker'[v].tasks = worker[v].tasks
    BY <2>1
  <2> QED  BY <2>2, <2>3 DEF ToRead, Held
<1>2. ASSUME EndRound
      PROVE  ToRead' \subseteq ToRead /\ UNCHANGED Held /\ (UNCHANGED ToRead \/ fatal)
  <2>1. UNCHANGED <<taskRow, collection, instance, worker>> /\ pending' = {}
    BY <1>2 DEF EndRound
  <2>2. \A id \in Ids : Unread(id)' => Unread(id)
    BY <2>1 DEF Unread
  <2>3. pending = {} \/ fatal
    BY <1>2, WorkersAssumption DEF EndRound, RoundOK
  <2>4. pending = {} => UNCHANGED ToRead
    BY <2>1, ToReadStays
  <2> QED  BY <2>1, <2>2, <2>3, <2>4 DEF ToRead, Held
<1> QED  BY <1>1, <1>2

(* After a restart everything stored is read again.                         *)
LEMMA RestartUnread ==
    ASSUME TypeOK, RowsOK, Restart
    PROVE  ToRead' = Stored /\ Held' = {} /\ ToPush' = {} /\ UNCHANGED Stored
<1>1. \A id \in Ids : taskRow[id] # 0 =>
          collection[taskRow[id]].takenBy \in Nat /\ collection[taskRow[id]].takenBy <= instance
  BY PromiseTypes DEF RowsOK, Exists, Row
<1>2. UNCHANGED <<taskRow, collection>> /\ instance' = instance + 1
  BY DEF Restart
<1>3. \A id \in Ids : Unread(id)' <=> taskRow[id] # 0
  BY <1>1, <1>2, PromiseTypes DEF Unread
<1>4. Held' = {} /\ ToPush' = {}
  BY DEF Restart, Held, ToPush, WorkerOff, NoCall
<1> QED  BY <1>2, <1>3, <1>4 DEF ToRead, Stored

-----------------------------------------------------------------------------
(* The hands of the preloader keep apart                                    *)

LEMMA PushesStep == TypeOK /\ IdsOnce /\ PushesApart /\ [Next]_vars => PushesApart'
<1> SUFFICES ASSUME TypeOK, IdsOnce, PushesApart, [Next]_vars PROVE PushesApart'
  OBVIOUS
<1>t. /\ call \in [Creators -> Call] /\ accepted \in [Ids -> {"no", "taken", "later"}]
      /\ \A c \in Creators : call[c].pc # "idle" => call[c].id \in Ids
  BY PromiseTypes
<1>f. UNCHANGED <<call, accepted>> => PushesApart'
  BY DEF PushesApart
<1>n. NoCall.pc = "idle"
  BY DEF NoCall
<1>v. ASSUME NEW c \in Creators, NEW v, v.pc # "push", call' = [call EXCEPT ![c] = v],
             UNCHANGED accepted
      PROVE  PushesApart'
  <2>1. \A b \in Creators : call'[b].pc = "push" => call'[b] = call[b]
    BY <1>v, <1>t
  <2> QED  BY <1>v, <2>1 DEF PushesApart
<1>1. ASSUME NEW c \in Creators, NEW id \in Ids, NEW e \in ExecTimes, AddNewTask(c, id, e)
      PROVE  PushesApart'
  BY <1>1, <1>v DEF AddNewTask
<1>2. ASSUME NEW c \in Creators, CreateFindCollection(c) \/ CreateInsertCollection(c)
      PROVE  PushesApart'
  <2>1. \A k : Chosen(call[c], k).pc = "insertTask"
    BY DEF Chosen, CallAt
  <2>2. ASSUME call' = [call EXCEPT ![c].pc = "insertCollection"], UNCHANGED accepted
        PROVE  PushesApart'
    <3>1. call' = [call EXCEPT ![c] = [call[c] EXCEPT !.pc = "insertCollection"]]
      BY <2>2
    <3>2. [call[c] EXCEPT !.pc = "insertCollection"].pc # "push"
      BY <1>t DEF Call
    <3> QED  BY <1>v, <2>2, <3>1, <3>2
  <2> QED  BY <1>2, <1>v, <2>1, <2>2 DEF CreateFindCollection, CreateInsertCollection
<1>3. ASSUME NEW c \in Creators,
             CreateInsertRefused(c) \/ PushNewTask(c) \/ CreateFails(c)
      PROVE  PushesApart'
  BY <1>3, <1>v, <1>n DEF CreateInsertRefused, PushNewTask, CreateFails
<1>4. ASSUME NEW c \in Creators, CreateDeadlock(c) PROVE PushesApart'
  <2>1. Again(call[c]).pc = "find"
    BY DEF Again, CallAt
  <2> QED  BY <1>4, <1>v, <1>n, <2>1 DEF CreateDeadlock
<1>5. ASSUME NEW c \in Creators, CreateInsertTask(c) PROVE PushesApart'
  <2> DEFINE t == call[c].id
  <2>1. t \in Ids /\ taskRow[t] = 0 /\ t \notin deleted
    BY <1>5, <1>t DEF CreateInsertTask, InsertTask, IdsOnce, InCreate
  <2>2. accepted[t] = "no"
    BY <2>1 DEF IdsOnce
  <2>3. \A b \in Creators : call[b].pc = "push" => call[b].id # t
    BY <2>2 DEF PushesApart
  <2>4. /\ accepted'[t] # "no"
        /\ \A id \in Ids : id # t => accepted'[id] = accepted[id]
    BY <1>5, <1>t, <2>1 DEF CreateInsertTask
  <2>5. /\ \A b \in Creators : b # c => call'[b] = call[b]
        /\ call'[c].pc = "push" => call'[c].id = t
    BY <1>5, <1>t, <1>n DEF CreateInsertTask
  <2> HIDE DEF t
  <2> QED  BY <1>t, <2>1, <2>3, <2>4, <2>5 DEF PushesApart
<1>6. CASE Restart
  BY <1>6, <1>n DEF Restart, PushesApart
<1>7. ASSUME NEW d \in Deleters,
             \/ \E id \in Ids : Delete(d, id) \/ DeleteFails(d, id)
             \/ Clean(d) \/ CleaningFails(d)
      PROVE  PushesApart'
  BY <1>7, <1>f DEF Delete, DeleteFails, Clean, CheckCleaning, SelectEmpty, DeleteEmpty,
      CleaningFails
<1>8. ASSUME NEW w \in Workers,
             \/ TakeCollectionId(w) \/ GetTasksByCollection(w)
             \/ GetTasksFails(w) \/ PushTask(w)
      PROVE  PushesApart'
  BY <1>8, <1>f DEF TakeCollectionId, GetTasksByCollection, GetTasksFails, PushTask
<1>9. CASE FindNothing \/ Wake \/ FindCollections \/ FindRetry \/ FindFails \/ EndRound
           \/ Tick \/ UNCHANGED vars
  BY <1>9, <1>f DEF FindNothing, Wake, FindCollections, FindRetry, FindFails, EndRound,
                    Tick, vars
<1> QED  BY <1>1, <1>2, <1>3, <1>4, <1>5, <1>6, <1>7, <1>8, <1>9 DEF Next, Create

LEMMA ReadersStep == TypeOK /\ RoundOK /\ ReadersApart /\ [Next]_vars => ReadersApart'
<1> SUFFICES ASSUME TypeOK, RoundOK, ReadersApart, [Next]_vars PROVE ReadersApart'
  OBVIOUS
<1>t. /\ worker \in [Workers -> WorkerState] /\ pending \subseteq CollectionIds
      /\ collection \in [CollectionIds -> Row \cup {Nil}]
      /\ lastId \in 0..MaxCollections /\ instance \in Nat \ {0}
  BY PromiseTypes
<1>k. \A k \in CollectionIds : k > lastId => ~Exists(k)
  BY DEF TypeOK, RepositoryTypeOK
<1>h. ASSUME \A k \in CollectionIds : TakenHere(k) => TakenHere(k)', UNCHANGED <<pending, worker>>
      PROVE  ReadersApart'
  BY <1>h, <1>t DEF ReadersApart, TakenHere
<1>f. UNCHANGED <<collection, lastId, instance, pending, worker>> => ReadersApart'
  BY <1>h DEF TakenHere, Exists
<1>1. ASSUME NEW c \in Creators, CreateInsertCollection(c) PROVE ReadersApart'
  <2>1. /\ lastId' = lastId + 1
        /\ \A k \in CollectionIds : k # lastId + 1 => collection'[k] = collection[k]
        /\ UNCHANGED <<pending, worker, instance>>
    BY <1>1, <1>t DEF CreateInsertCollection, InsertCollection
  <2> QED  BY <1>h, <1>t, <2>1 DEF TakenHere, Exists
<1>2. ASSUME NEW d \in Deleters, DeleteEmpty(d) PROVE ReadersApart'
  <2>1. /\ \A k \in CollectionIds : Exists(k)' => Exists(k) /\ collection'[k] = collection[k]
        /\ UNCHANGED <<lastId, pending, worker, instance>>
    BY <1>2, <1>t DEF DeleteEmpty, DeleteCollections, Exists
  <2> QED  BY <1>h, <1>t, <2>1 DEF TakenHere, Exists
<1>3. ASSUME TakeCollections(Due(clock + TimePreload)), UNCHANGED <<lastId, instance>>
      PROVE  /\ UNCHANGED <<pending, worker>> => ReadersApart'
             /\ \A k \in Due(clock + TimePreload) : TakenHere(k)'
  <2>1. \A k \in Due(clock + TimePreload) :
           k \in CollectionIds /\ collection[k] \in Row /\ k \in 1..lastId
    BY <1>t, <1>k DEF Due, Exists
  <2>2. \A k \in CollectionIds :
           /\ k \in Due(clock + TimePreload) => collection'[k].takenBy = instance
           /\ k \notin Due(clock + TimePreload) => collection'[k] = collection[k]
    BY <1>3, <2>1 DEF TakeCollections, Row
  <2>3. \A k \in CollectionIds : TakenHere(k) => TakenHere(k)'
    BY <1>3, <2>1, <2>2 DEF TakenHere, Exists
  <2> QED  BY <1>3, <1>h, <2>1, <2>2, <2>3 DEF TakenHere
<1>4. CASE FindCollections
  <2>1. pending' = Due(clock + TimePreload) /\ \A w \in Workers : worker'[w].pc = "next"
    BY <1>4 DEF FindCollections
  <2>2. \A k \in pending' : TakenHere(k)'
    BY <1>3, <1>4, <2>1 DEF FindCollections
  <2> QED  BY <2>1, <2>2 DEF ReadersApart
<1>5. CASE FindFails
  BY <1>5, <1>3, <1>f DEF FindFails
<1>6. ASSUME NEW w \in Workers, TakeCollectionId(w) PROVE ReadersApart'
  <2>1. UNCHANGED <<collection, lastId, instance>>
    BY <1>6 DEF TakeCollectionId
  <2>2. \A k : TakenHere(k)' <=> TakenHere(k)
    BY <2>1 DEF TakenHere, Exists
  <2>3. ASSUME NEW k \in pending, pending' = pending \ {k},
               worker' = [worker EXCEPT ![w] = [pc |-> "read", coll |-> k, tasks |-> {}]]
        PROVE  ReadersApart'
    <3>1. /\ worker'[w].pc = "read" /\ worker'[w].coll = k
          /\ \A v \in Workers : v # w => worker'[v] = worker[v]
      BY <1>t, <2>3
    <3> QED  BY <2>2, <2>3, <3>1 DEF ReadersApart
  <2>4. ASSUME UNCHANGED pending, worker' = [worker EXCEPT ![w] = WorkerOff]
        PROVE  ReadersApart'
    <3>1. worker'[w].pc = "off" /\ \A v \in Workers : v # w => worker'[v] = worker[v]
      BY <1>t, <2>4 DEF WorkerOff
    <3> QED  BY <2>2, <2>4, <3>1 DEF ReadersApart
  <2> QED  BY <1>6, <2>3, <2>4 DEF TakeCollectionId
<1>7. ASSUME NEW w \in Workers, GetTasksByCollection(w) \/ GetTasksFails(w) \/ PushTask(w)
      PROVE  ReadersApart'
  <2>1. /\ worker'[w].pc # "read" /\ \A v \in Workers : v # w => worker'[v] = worker[v]
        /\ UNCHANGED <<collection, lastId, instance, pending>>
    BY <1>7, <1>t DEF GetTasksByCollection, GetTasksFails, PushTask, WorkerOff
  <2> QED  BY <2>1 DEF ReadersApart, TakenHere, Exists
<1>8. CASE EndRound
  BY <1>8 DEF EndRound, ReadersApart, TakenHere, Exists
<1>9. CASE Restart
  BY <1>9 DEF Restart, ReadersApart, WorkerOff
<1>10. ASSUME NEW c \in Creators,
              \/ \E id \in Ids, e \in ExecTimes : AddNewTask(c, id, e)
              \/ CreateFindCollection(c) \/ CreateInsertTask(c) \/ CreateInsertRefused(c)
              \/ PushNewTask(c) \/ CreateDeadlock(c) \/ CreateFails(c)
       PROVE  ReadersApart'
  BY <1>10, <1>f DEF AddNewTask, CreateFindCollection, CreateInsertTask, CreateInsertRefused,
      PushNewTask, CreateDeadlock, CreateFails
<1>11. ASSUME NEW d \in Deleters,
              \/ \E id \in Ids : Delete(d, id) \/ DeleteFails(d, id)
              \/ CheckCleaning(d) \/ SelectEmpty(d) \/ CleaningFails(d)
       PROVE  ReadersApart'
  BY <1>11, <1>f DEF Delete, DeleteFails, CheckCleaning, SelectEmpty, CleaningFails
<1>12. CASE FindNothing \/ Wake \/ FindRetry \/ Tick \/ UNCHANGED vars
  BY <1>12, <1>f DEF FindNothing, Wake, FindRetry, Tick, vars
<1> QED  BY <1>1, <1>2, <1>4, <1>5, <1>6, <1>7, <1>8, <1>9, <1>10, <1>11, <1>12
         DEF Next, Create, Clean

(* A step that stores no task and reads none keeps what was read unread.    *)
LEMMA ReadOnceFrame ==
    ASSUME ReadOnce, \A w \in Workers : worker'[w].tasks \subseteq worker[w].tasks,
           \A w \in Workers : worker[w].tasks \subseteq Ids,
           ToRead' \subseteq ToRead, deleted \subseteq deleted',
           \A id \in Ids : taskRow[id] # 0 => taskRow'[id] # 0 \/ id \in deleted'
    PROVE  ReadOnce'
<1>1. \A id \in Ids : Unread(id)' => Unread(id)
  BY DEF ToRead
<1> QED  BY <1>1 DEF ReadOnce

LEMMA ReadOnceStep ==
    /\ TypeOK /\ RowsOK /\ IdsOnce /\ RoundOK /\ ReadersApart /\ ReadOnce /\ [Next]_vars
    => ReadOnce'
<1> SUFFICES ASSUME TypeOK, RowsOK, IdsOnce, RoundOK, ReadersApart, ReadOnce, [Next]_vars
             PROVE  ReadOnce'
  OBVIOUS
<1>t. /\ worker \in [Workers -> WorkerState] /\ taskRow \in [Ids -> 0..MaxCollections]
      /\ \A w \in Workers : worker[w].tasks \subseteq Ids
      /\ call \in [Creators -> Call]
      /\ \A c \in Creators : call[c].pc # "idle" => call[c].id \in Ids
      /\ \A c \in Creators : call[c].pc = "insertTask" => call[c].coll \in CollectionIds
  BY PromiseTypes DEF WorkerState
<1>f. UNCHANGED <<worker, taskRow, deleted>> /\ ToRead' \subseteq ToRead => ReadOnce'
  BY <1>t, ReadOnceFrame
<1>g. UNCHANGED <<taskRow, collection, instance, pending, worker, deleted>> => ReadOnce'
  BY <1>f, ToReadStays
<1>0. (\A w \in Workers : worker'[w].tasks = {}) => ReadOnce'
  BY DEF ReadOnce
<1>1. ASSUME NEW c \in Creators, call[c].pc = "insertTask",
             InsertTask(call[c].id, call[c].coll),
             UNCHANGED <<collection, instance, pending, worker, deleted>>
      PROVE  ReadOnce'
  <2> DEFINE t == call[c].id
  <2>1. t \in Ids /\ taskRow[t] = 0 /\ t \notin deleted
    BY <1>1, <1>t DEF InsertTask, IdsOnce, InCreate
  <2>2. \A w \in Workers : t \notin worker[w].tasks
    BY <2>1 DEF ReadOnce
  <2>3. \A id \in Ids : id # t => taskRow'[id] = taskRow[id]
    BY <1>1, <1>t DEF InsertTask
  <2>4. \A id \in Ids : id # t => (Unread(id)' <=> Unread(id))
    BY <1>1, <2>3 DEF Unread
  <2> HIDE DEF t
  <2> QED  BY <1>1, <1>t, <2>2, <2>3, <2>4 DEF ReadOnce
<1>2. ASSUME NEW c \in Creators, CreateInsertTask(c) \/ CreateFails(c) PROVE ReadOnce'
  BY <1>1, <1>2, <1>g DEF CreateInsertTask, CreateFails
<1>3. ASSUME NEW c \in Creators, CreateInsertCollection(c) PROVE ReadOnce'
  <2>1. call[c].execTime \in Int
    BY <1>t DEF Call
  <2>2. UNCHANGED ToRead
    BY <1>3, <2>1, NewCollectionUnread DEF CreateInsertCollection
  <2> QED  BY <1>3, <1>f, <2>2 DEF CreateInsertCollection
<1>4. ASSUME NEW d \in Deleters, NEW t \in Ids, Delete(d, t) \/ DeleteFails(d, t)
      PROVE  ReadOnce'
  <2>1. CASE DeleteTask(t) /\ UNCHANGED <<collection, instance, pending, worker>>
             /\ deleted' = IF taskRow[t] # 0 THEN deleted \cup {t} ELSE deleted
    <3>1. ToRead' \subseteq ToRead
      BY <2>1, DeletedUnread
    <3>2. \A id \in Ids : id # t => taskRow'[id] = taskRow[id]
      BY <2>1, <1>t DEF DeleteTask
    <3> QED  BY <1>t, <2>1, <3>1, <3>2, ReadOnceFrame
  <2> QED  BY <1>4, <1>g, <2>1 DEF Delete, DeleteFails
<1>5. ASSUME NEW d \in Deleters, DeleteEmpty(d) PROVE ReadOnce'
  <2>1. deleter[d].ids \in SUBSET CollectionIds
    BY DEF TypeOK, DeletersTypeOK
  <2>2. UNCHANGED ToRead
    BY <1>5, <2>1, CleaningUnread, ToReadStays DEF DeleteEmpty
  <2> QED  BY <1>5, <1>f, <2>2 DEF DeleteEmpty
<1>6. CASE FindCollections
  BY <1>6, <1>0 DEF FindCollections
<1>7. CASE FindFails
  BY <1>7, <1>f, <1>g, TakenUnread DEF FindFails
<1>8. ASSUME NEW w \in Workers, TakeCollectionId(w) PROVE ReadOnce'
  <2>1. UNCHANGED ToRead /\ worker[w].tasks = {}
    BY <1>8, GivenUnread DEF TakeCollectionId, RoundOK
  <2>2. worker'[w].tasks = {} /\ \A v \in Workers : v # w => worker'[v] = worker[v]
    BY <1>8, <1>t DEF TakeCollectionId, WorkerOff
  <2> QED  BY <1>8, <1>t, <2>1, <2>2, ReadOnceFrame DEF TakeCollectionId
<1>9. ASSUME NEW w \in Workers, GetTasksByCollection(w) PROVE ReadOnce'
  <2> DEFINE ts == TasksOf(worker[w].coll)
  <2>1. ts \subseteq ToRead /\ ToRead' = ToRead \ ts /\ worker'[w].tasks = ts
    BY <1>9, ReadUnread
  <2>2. \A v \in Workers : v # w => worker'[v] = worker[v]
    BY <1>9, <1>t DEF GetTasksByCollection
  <2>3. UNCHANGED <<taskRow, deleted>>
    BY <1>9 DEF GetTasksByCollection
  <2> HIDE DEF ts
  <2>4. \A id \in Ids : Unread(id)' <=> Unread(id) /\ id \notin ts
    BY <2>1 DEF ToRead
  <2>5. \A id \in ts : id \in Ids /\ Unread(id) /\ taskRow[id] # 0
    BY <2>1 DEF ToRead, Unread
  <2>6. \A v \in Workers : v # w => worker'[v].tasks \cap ts = {}
    BY <2>2, <2>5 DEF ReadOnce
  <2> QED  BY <1>t, <2>1, <2>2, <2>3, <2>4, <2>5, <2>6 DEF ReadOnce
<1>10. ASSUME NEW w \in Workers, GetTasksFails(w) PROVE ReadOnce'
  <2>1. ToRead' \subseteq ToRead
    BY <1>10, LostUnread
  <2>2. worker'[w].tasks = {} /\ \A v \in Workers : v # w => worker'[v] = worker[v]
    BY <1>10, <1>t DEF GetTasksFails, WorkerOff
  <2> QED  BY <1>10, <1>t, <2>1, <2>2, ReadOnceFrame DEF GetTasksFails
<1>11. ASSUME NEW w \in Workers, PushTask(w) PROVE ReadOnce'
  <2>1. /\ worker[w].pc = "push" /\ worker'[w].pc # "read"
        /\ worker'[w].tasks \subseteq worker[w].tasks
        /\ \A v \in Workers : v # w => worker'[v] = worker[v]
        /\ UNCHANGED <<taskRow, collection, instance, pending, deleted>>
    BY <1>11, <1>t DEF PushTask
  <2>2. \A id \in Ids : Unread(id)' => Unread(id)
    BY <2>1 DEF Unread
  <2>3. ToRead' \subseteq ToRead
    BY <2>2 DEF ToRead
  <2> QED  BY <1>t, <2>1, <2>3, ReadOnceFrame
<1>12. CASE EndRound
  BY <1>12, <1>f, LostUnread DEF EndRound
<1>13. CASE Restart
  BY <1>13, <1>0 DEF Restart, WorkerOff
<1>14. ASSUME NEW c \in Creators,
              \/ \E id \in Ids, e \in ExecTimes : AddNewTask(c, id, e)
              \/ CreateFindCollection(c) \/ CreateInsertRefused(c)
              \/ PushNewTask(c) \/ CreateDeadlock(c)
       PROVE  ReadOnce'
  BY <1>14, <1>g DEF AddNewTask, CreateFindCollection, CreateInsertRefused,
      PushNewTask, CreateDeadlock
<1>15. ASSUME NEW d \in Deleters, CheckCleaning(d) \/ SelectEmpty(d) \/ CleaningFails(d)
       PROVE  ReadOnce'
  BY <1>15, <1>g DEF CheckCleaning, SelectEmpty, CleaningFails
<1>16. CASE FindNothing \/ Wake \/ FindRetry \/ Tick \/ UNCHANGED vars
  BY <1>16, <1>g DEF FindNothing, Wake, FindRetry, Tick, vars
<1> QED  BY <1>2, <1>3, <1>4, <1>5, <1>6, <1>7, <1>8, <1>9, <1>10, <1>11, <1>12, <1>13, <1>14,
            <1>15, <1>16 DEF Next, Create, Clean

-----------------------------------------------------------------------------
(* Every step is a step of the promise                                      *)

(* A call that does not push, before and after its step, is not seen.       *)
LEMMA ToPushStays ==
    ASSUME TypeOK, NEW c \in Creators, call[c].pc # "push", NEW v, v.pc # "push",
           call' = [call EXCEPT ![c] = v]
    PROVE  UNCHANGED ToPush
<1>1. \A b \in Creators : \/ call'[b] = call[b]
                          \/ call'[b].pc # "push" /\ call[b].pc # "push"
  BY PromiseTypes
<1> QED  BY <1>1 DEF ToPush

(* The loop of AddNewTask up to its answer.                                 *)
LEMMA CreatorsKeepPromise ==
    ASSUME TypeOK, RowsOK, LaterStaysUntaken, PushesApart, NEW c \in Creators,
           \/ \E id \in Ids, e \in ExecTimes : AddNewTask(c, id, e)
           \/ Create(c) \/ CreateDeadlock(c) \/ CreateFails(c)
    PROVE  [Promise!Next]_(Promise!vars)
<1>t. /\ call \in [Creators -> Call]
      /\ \A b \in Creators : call[b].pc # "idle" => call[b].id \in Ids
      /\ \A b \in Creators : call[b].pc = "insertTask" => call[b].coll \in CollectionIds
  BY PromiseTypes
<1>n. NoCall.pc = "idle"
  BY DEF NoCall
<1>s. ASSUME UNCHANGED <<taskRow, loads, fatal, ToRead, Held, ToPush>>
      PROVE  UNCHANGED Promise!vars
  <2>1. UNCHANGED Stored
    BY <1>s DEF Stored
  <2> QED  BY <1>s, <2>1, StepsOfPromise
<1>v. ASSUME call[c].pc # "push", NEW v, v.pc # "push", call' = [call EXCEPT ![c] = v],
             UNCHANGED <<taskRow, collection, instance, pending, worker, loads, fatal>>
      PROVE  UNCHANGED Promise!vars
  BY <1>v, <1>s, ToReadStays, ToPushStays
<1>1. ASSUME NEW id \in Ids, NEW e \in ExecTimes, AddNewTask(c, id, e)
      PROVE  UNCHANGED Promise!vars
  BY <1>1, <1>v DEF AddNewTask
<1>2. CASE CreateFindCollection(c)
  <2>1. \A k : Chosen(call[c], k).pc = "insertTask"
    BY DEF Chosen, CallAt
  <2>2. ASSUME call' = [call EXCEPT ![c].pc = "insertCollection"] PROVE UNCHANGED Promise!vars
    <3> DEFINE v == [call[c] EXCEPT !.pc = "insertCollection"]
    <3>1. call' = [call EXCEPT ![c] = v]
      BY <2>2
    <3>2. v.pc # "push"
      BY <1>t DEF Call
    <3> HIDE DEF v
    <3> QED  BY <1>2, <1>v, <3>1, <3>2 DEF CreateFindCollection
  <2> QED  BY <1>2, <1>v, <2>1, <2>2 DEF CreateFindCollection
<1>3. CASE CreateInsertCollection(c)
  <2>1. Chosen(call[c], lastId + 1).pc = "insertTask" /\ call[c].execTime \in Int
    BY <1>t DEF Chosen, CallAt, Call
  <2>2. UNCHANGED ToPush
    BY <1>3, <2>1, ToPushStays DEF CreateInsertCollection
  <2>3. UNCHANGED <<ToRead, Held>>
    BY <1>3, <2>1, NewCollectionUnread DEF CreateInsertCollection, Held
  <2> QED  BY <1>3, <1>s, <2>2, <2>3 DEF CreateInsertCollection
<1>4. CASE CreateInsertTask(c)
  <2> DEFINE t == call[c].id
             k == call[c].coll
  <2>1. t \in Ids /\ k \in CollectionIds /\ Exists(k) /\ InsertTask(t, k)
        /\ UNCHANGED <<collection, instance, pending, worker, loads, fatal>>
    BY <1>4, <1>t DEF CreateInsertTask, InsertTask
  <2>2. /\ t \notin Stored /\ Stored' = Stored \cup {t}
        /\ ToRead' \in {ToRead, ToRead \cup {t}}
        /\ collection[k].takenBy # instance => ToRead' = ToRead \cup {t}
    BY <2>1, NewTaskUnread
  <2>3. UNCHANGED Held
    BY <2>1 DEF Held
  <2>4. CASE call[c].isTaken
    <3>1. \A b \in Creators : /\ call'[b].id = call[b].id
                              /\ call'[b].pc = "push" <=> b = c \/ call[b].pc = "push"
      BY <1>4, <1>t, <2>4 DEF CreateInsertTask, Call
    <3>2. ToPush' = ToPush \cup {t}
      BY <3>1 DEF ToPush
    <3> QED  BY <2>1, <2>2, <2>3, <3>2, StepsOfPromise
  <2>5. CASE ~call[c].isTaken
    <3>1. ToRead' = ToRead \cup {t}
      BY <1>4, <2>1, <2>2, <2>5 DEF LaterStaysUntaken, CreateInsertTask
    <3>2. UNCHANGED ToPush
      BY <1>4, <1>n, <2>5, ToPushStays DEF CreateInsertTask
    <3> QED  BY <2>1, <2>2, <2>3, <3>1, <3>2, StepsOfPromise
  <2> QED  BY <2>4, <2>5
<1>5. CASE CreateInsertRefused(c)
  BY <1>5, <1>v, <1>n DEF CreateInsertRefused
<1>6. CASE PushNewTask(c)
  <2> DEFINE t == call[c].id
  <2>1. t \in Ids /\ t \in ToPush
    BY <1>6, <1>t DEF PushNewTask, ToPush
  <2>2. \A b \in Creators : call'[b].pc = "push" <=> call[b].pc = "push" /\ b # c
    BY <1>6, <1>t, <1>n DEF PushNewTask
  <2>3. \A b \in Creators : b # c => call'[b] = call[b]
    BY <1>6, <1>t DEF PushNewTask
  <2>4. \A b \in Creators : call[b].pc = "push" /\ b # c => call[b].id # t
    BY <1>6 DEF PushNewTask, PushesApart
  <2>5. ToPush' = ToPush \ {t}
    BY <2>2, <2>3, <2>4 DEF ToPush
  <2>6. UNCHANGED <<Stored, ToRead, Held, fatal>> /\ Load(t)
    BY <1>6, ToReadStays DEF PushNewTask, Stored
  <2> QED  BY <2>1, <2>5, <2>6, StepsOfPromise
<1>7. CASE CreateDeadlock(c)
  <2>1. Again(call[c]).pc = "find"
    BY DEF Again, CallAt
  <2> QED  BY <1>7, <1>v, <1>n, <2>1 DEF CreateDeadlock, InCreate
<1>8. CASE CreateFails(c)
  <2>1. call[c].pc # "push" /\ call' = [call EXCEPT ![c] = NoCall]
        /\ UNCHANGED <<collection, instance, pending, worker, loads, fatal>>
    BY <1>8 DEF CreateFails, InCreate
  <2>2. CASE UNCHANGED taskRow
    BY <1>v, <1>n, <2>1, <2>2
  <2>3. CASE call[c].pc = "insertTask" /\ InsertTask(call[c].id, call[c].coll)
    <3> DEFINE t == call[c].id
    <3>1. t \in Ids /\ call[c].coll \in CollectionIds
      BY <1>t, <2>3
    <3>2. t \notin Stored /\ Stored' = Stored \cup {t} /\ ToRead' \in {ToRead, ToRead \cup {t}}
      BY <2>1, <2>3, <3>1, NewTaskUnread
    <3>3. UNCHANGED <<ToPush, Held>>
      BY <1>n, <2>1, ToPushStays DEF Held
    <3> QED  BY <2>1, <3>1, <3>2, <3>3, StepsOfPromise
  <2> QED  BY <1>8, <2>2, <2>3 DEF CreateFails
<1> QED  BY <1>1, <1>2, <1>3, <1>4, <1>5, <1>6, <1>7, <1>8 DEF Create

(* The deletion of a row, and the cleaning, which is invisible.             *)
LEMMA DeletersKeepPromise ==
    ASSUME TypeOK, NEW d \in Deleters,
           \/ \E id \in Ids : Delete(d, id) \/ DeleteFails(d, id)
           \/ Clean(d) \/ CleaningFails(d)
    PROVE  [Promise!Next]_(Promise!vars)
<1>s. ASSUME UNCHANGED <<taskRow, call, worker, loads, fatal, ToRead>>
      PROVE  UNCHANGED Promise!vars
  <2>1. UNCHANGED <<Stored, ToPush, Held>>
    BY <1>s DEF Stored, ToPush, Held
  <2> QED  BY <1>s, <2>1, StepsOfPromise
<1>1. ASSUME NEW t \in Ids, Delete(d, t) \/ DeleteFails(d, t)
      PROVE  [Promise!Next]_(Promise!vars)
  <2>1. UNCHANGED <<collection, instance, pending, worker, call, loads, fatal>>
    BY <1>1 DEF Delete, DeleteFails
  <2>2. CASE DeleteTask(t)
    <3>1. UNCHANGED <<ToPush, Held>>
      BY <2>1 DEF ToPush, Held
    <3> QED  BY <2>1, <2>2, <3>1, DeletedUnread, StepsOfPromise
  <2>3. CASE UNCHANGED taskRow
    BY <2>1, <2>3, <1>s, ToReadStays
  <2> QED  BY <1>1, <2>2, <2>3 DEF Delete, DeleteFails
<1>2. CASE DeleteEmpty(d)
  <2>1. deleter[d].ids \in SUBSET CollectionIds
    BY DEF TypeOK, DeletersTypeOK
  <2>2. UNCHANGED ToRead
    BY <1>2, <2>1, CleaningUnread, ToReadStays DEF DeleteEmpty
  <2> QED  BY <1>2, <1>s, <2>2 DEF DeleteEmpty
<1>3. CASE CheckCleaning(d) \/ SelectEmpty(d) \/ CleaningFails(d)
  BY <1>3, <1>s, ToReadStays DEF CheckCleaning, SelectEmpty, CleaningFails
<1> QED  BY <1>1, <1>2, <1>3 DEF Clean

(* The rounds of Run, the workers, a restart, the clock.                    *)
LEMMA RunKeepsPromise ==
    ASSUME TypeOK, RowsOK, RoundOK, ReadersApart, ReadOnce,
           \/ FindNothing \/ Wake \/ FindCollections \/ FindRetry \/ FindFails \/ EndRound
           \/ \E w \in Workers : \/ TakeCollectionId(w) \/ GetTasksByCollection(w)
                                 \/ GetTasksFails(w) \/ PushTask(w)
           \/ Restart \/ Tick
    PROVE  [Promise!Next]_(Promise!vars)
<1>t. worker \in [Workers -> WorkerState] /\ \A w \in Workers : worker[w].tasks \subseteq Ids
  BY PromiseTypes DEF WorkerState
<1>a. UNCHANGED <<taskRow, call>> => UNCHANGED <<Stored, ToPush>>
  BY DEF Stored, ToPush
<1>s. UNCHANGED <<taskRow, call, loads, fatal, ToRead, Held>> => UNCHANGED Promise!vars
  BY <1>a, StepsOfPromise
<1>l. ASSUME UNCHANGED <<taskRow, call, loads, Held>>, fatal' = TRUE, ToRead' \subseteq ToRead
      PROVE  Promise!Next
  BY <1>a, <1>l, StepsOfPromise
<1>1. CASE FindNothing \/ Wake \/ FindRetry \/ Tick
  BY <1>1, <1>s, ToReadStays DEF FindNothing, Wake, FindRetry, Tick
<1>2. CASE FindCollections
  <2>1. \A w \in Workers : /\ worker'[w].pc = "next" /\ worker'[w].tasks = {}
                           /\ worker[w].tasks = {}
    BY <1>2 DEF FindCollections, RoundOK
  <2>2. UNCHANGED Held
    BY <2>1 DEF Held
  <2>3. UNCHANGED ToRead
    BY <1>2, <2>1, TakenUnread DEF FindCollections
  <2> QED  BY <1>2, <1>s, <2>2, <2>3 DEF FindCollections
<1>3. CASE FindFails
  <2>1. UNCHANGED <<taskRow, call, loads, instance, pending, worker>> /\ fatal' = TRUE
        /\ pc = "find"
    BY <1>3 DEF FindFails
  <2>2. ToRead' \subseteq ToRead
    BY <1>3, <2>1, TakenUnread, ToReadStays DEF FindFails
  <2> QED  BY <1>l, <2>1, <2>2 DEF Held
<1>4. CASE EndRound
  BY <1>4, <1>s, <1>l, LostUnread DEF EndRound
<1>5. ASSUME NEW w \in Workers, TakeCollectionId(w) PROVE UNCHANGED Promise!vars
  BY <1>5, <1>s, GivenUnread DEF TakeCollectionId
<1>6. ASSUME NEW w \in Workers, GetTasksByCollection(w) PROVE Promise!Next
  <2> DEFINE ts == TasksOf(worker[w].coll)
  <2>1. ts \in SUBSET ToRead /\ ToRead' = ToRead \ ts /\ Held' = Held \cup ts
    BY <1>6, ReadUnread
  <2>2. UNCHANGED <<taskRow, call, loads, fatal>>
    BY <1>6 DEF GetTasksByCollection
  <2> HIDE DEF ts
  <2> QED  BY <1>a, <2>1, <2>2, StepsOfPromise
<1>7. ASSUME NEW w \in Workers, GetTasksFails(w) PROVE Promise!Next
  BY <1>7, <1>l, LostUnread DEF GetTasksFails
<1>8. ASSUME NEW w \in Workers, PushTask(w) PROVE Promise!Next
  <2>1. PICK t \in worker[w].tasks :
          /\ Load(t)
          /\ worker' = [worker EXCEPT ![w] =
                 [pc |-> IF @.tasks = {t} THEN "next" ELSE "push", coll |-> 0,
                  tasks |-> @.tasks \ {t}]]
    BY <1>8 DEF PushTask
  <2>2. /\ worker[w].pc = "push" /\ worker'[w].pc # "read"
        /\ worker'[w].tasks = worker[w].tasks \ {t}
        /\ \A v \in Workers : v # w => worker'[v] = worker[v]
        /\ UNCHANGED <<taskRow, collection, instance, pending, call, fatal>>
    BY <1>8, <1>t, <2>1 DEF PushTask
  <2>3. t \in Ids /\ t \in Held
    BY <1>t DEF Held
  <2>4. \A v \in Workers : v # w => t \notin worker[v].tasks
    BY <2>1 DEF ReadOnce
  <2>5. Held' = Held \ {t}
    BY <2>2, <2>4 DEF Held
  <2>6. \A id \in Ids : Unread(id)' <=> Unread(id)
    BY <2>2 DEF Unread
  <2>7. UNCHANGED ToRead
    BY <2>6 DEF ToRead
  <2> QED  BY <1>a, <2>1, <2>2, <2>3, <2>5, <2>7, StepsOfPromise
<1>9. CASE Restart
  <2>1. loads' = [t \in Ids |-> 0] /\ fatal' = FALSE
    BY <1>9 DEF Restart
  <2> QED  BY <1>9, <2>1, RestartUnread, StepsOfPromise
<1> QED  BY <1>1, <1>2, <1>3, <1>4, <1>5, <1>6, <1>7, <1>8, <1>9

(* Collections, statements, rounds and the clock keep the promise: a stored *)
(* task is its creator's to push or still to be read, it is read once, and  *)
(* it is let go only with LevelFatal.  TriggerHook takes the preloader for  *)
(* PreloaderSpec.                                                           *)
THEOREM PreloaderKeepsPromise == CreateIsQuick => (Spec => ImplementsPreloaderSpec)
<1> SUFFICES ASSUME CreateIsQuick PROVE Spec => ImplementsPreloaderSpec
  OBVIOUS
<1>1. Init => LoadInv /\ HandInv /\ Promise!Init
  <2> SUFFICES ASSUME Init PROVE LoadInv /\ HandInv /\ Promise!Init
    OBVIOUS
  <2>1. LoadInv
    BY DEF Init, RepositoryInit, NoCall, WorkerOff, LoadInv, RowsOK, IdsOnce, CallsOK, RoundOK,
           LaterStaysUntaken, InCreate, Exists
  <2>2. HandInv
    BY DEF Init, NoCall, WorkerOff, HandInv, PushesApart, ReadersApart, ReadOnce
  <2>3. \A id \in Ids : taskRow[id] = 0 /\ ~Unread(id)
    BY DEF Init, RepositoryInit, Unread
  <2>4. Stored = {} /\ ToRead = {} /\ ToPush = {} /\ Held = {}
    BY <2>3 DEF Init, NoCall, WorkerOff, Stored, ToRead, ToPush, Held
  <2>5. Promise!Init
    BY <2>4 DEF Init, Promise!Init, Stored, ToRead, ToPush, Held
  <2> QED  BY <2>1, <2>2, <2>5
<1>2. TypeOK /\ LoadInv /\ [Next]_vars => LoadInv'
  BY RowsStep, IdsStep, CallsStep, RoundStep, LaterStep DEF LoadInv
<1>3. TypeOK /\ LoadInv /\ HandInv /\ [Next]_vars => HandInv'
  BY PushesStep, ReadersStep, ReadOnceStep DEF LoadInv, HandInv
<1>4. TypeOK /\ LoadInv /\ HandInv /\ [Next]_vars => [Promise!Next]_(Promise!vars)
  <2> SUFFICES ASSUME TypeOK, LoadInv, HandInv, [Next]_vars
               PROVE  [Promise!Next]_(Promise!vars)
    OBVIOUS
  <2>1. RowsOK /\ RoundOK /\ LaterStaysUntaken /\ PushesApart /\ ReadersApart /\ ReadOnce
    BY DEF LoadInv, HandInv
  <2>2. CASE UNCHANGED vars
    <3>1. UNCHANGED <<Stored, ToPush>>
      BY <2>2 DEF vars, Stored, ToPush
    <3> QED  BY <2>2, <3>1, ToReadStays, StepsOfPromise DEF vars
  <2> QED  BY <2>1, <2>2, CreatorsKeepPromise, DeletersKeepPromise, RunKeepsPromise DEF Next
<1> QED  BY <1>1, <1>2, <1>3, <1>4, TypeCorrect, PTL
         DEF Spec, ImplementsPreloaderSpec, Promise!Spec

=============================================================================
