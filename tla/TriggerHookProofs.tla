-------------------------- MODULE TriggerHookProofs --------------------------
(***************************************************************************)
(* What the services guarantee together, for every set of ids and times,   *)
(* every number of callers and any number of faults and crashes.           *)
(***************************************************************************)
EXTENDS TriggerHook, WaitingServiceProofs, FiniteSetTheorems

USE ExecTimesAssumption, NilAssumption, NilIdAssumption

-----------------------------------------------------------------------------
(* Types                                                                    *)

ServicesTypeOK ==
    /\ unread \subseteq Task /\ reading \subseteq Task
    /\ given \in [Task -> Nat] /\ rolledBack \in [Task -> Nat] /\ confirming \in [Task -> Nat]
    /\ all \in Int
    /\ unanswered \subseteq Ids /\ done \subseteq Ids
    /\ fatal \in BOOLEAN

(* The table and the set of callers that push are finite, although nothing  *)
(* bounds the ids and the callers there may ever be.                        *)
Finite ==
    /\ IsFiniteSet(Stored)
    /\ IsFiniteSet({c \in Clients : adding[c] # Nil})

HookTypeOK == ServiceTypeOK /\ ServicesTypeOK /\ Finite

(* The steps of the waiting service and of its callers inside the hook.     *)
LEMMA WaitingSteps ==
    ASSUME ServiceTypeOK, HookNext
    PROVE  \/ ServiceTypeOK'
           \/ \E c \in Clients, t \in Task : CreateForLater(c, t) \/ CreateUnanswered(c, t)
           \/ \E c \in Clients, id \in Ids : CancelUnanswered(c, id)
           \/ \E batch \in Batches : ConfirmExecution(batch) \/ ConfirmationFails(batch)
           \/ Restart
BY TypeStep DEF HookNext, CreateTaken, Cancel, Push, Consumes, WaitingLoop, ReadTasks, HandOver,
    GiveAgain, Rollback, Confirm, PreloaderFails, TimePasses, Step

(* What an insert does to the table.                                        *)
LEMMA InsertsOne ==
    ASSUME ServiceTypeOK, NEW t \in Task, row[t.id] = Nil, row' = [row EXCEPT ![t.id] = t.execTime]
    PROVE  /\ t.id \notin Stored /\ Stored' = Stored \cup {t.id}
           /\ row' \in [Ids -> ExecTimes \cup {Nil}]
           /\ \A id \in Ids : row'[id] = IF id = t.id THEN t.execTime ELSE row[id]
<1>1. t.id \in Ids /\ t.execTime \in ExecTimes /\ t.execTime # Nil
  BY DEF Task
<1>2. row \in [Ids -> ExecTimes \cup {Nil}]
  BY DEF ServiceTypeOK
<1> QED  BY <1>1, <1>2 DEF Stored

(* What the deletion of some ids does to the table.                         *)
LEMMA DeletesSome ==
    ASSUME ServiceTypeOK, NEW ids \in SUBSET Ids,
           row' = [id \in Ids |-> IF id \in ids THEN Nil ELSE row[id]]
    PROVE  /\ Stored' = Stored \ ids
           /\ row' \in [Ids -> ExecTimes \cup {Nil}]
           /\ \A id \in Ids : row'[id] = IF id \in ids THEN Nil ELSE row[id]
<1>1. row \in [Ids -> ExecTimes \cup {Nil}]
  BY DEF ServiceTypeOK
<1> QED  BY <1>1 DEF Stored

(* DELETE of a single id.                                                   *)
LEMMA DeletesOne ==
    ASSUME ServiceTypeOK, NEW id \in Ids, row' = [row EXCEPT ![id] = Nil]
    PROVE  row' = [i \in Ids |-> IF i \in {id} THEN Nil ELSE row[i]]
BY DEF ServiceTypeOK

(* Every step of the hook keeps the types of the waiting service.           *)
LEMMA HookTypeOfWaiting == ServiceTypeOK /\ [HookNext]_hookVars => ServiceTypeOK'
<1> SUFFICES ASSUME ServiceTypeOK, [HookNext]_hookVars PROVE ServiceTypeOK'
  OBVIOUS
<1>1. ASSUME NEW c \in Clients, NEW t \in Task, Insert(c, t) PROVE ServiceTypeOK'
  <2>1. row' \in [Ids -> ExecTimes \cup {Nil}] /\ created' \subseteq Ids
    BY <1>1, InsertsOne DEF Insert, ServiceTypeOK, Task
  <2> QED  BY <1>1, <2>1 DEF Insert, ServiceTypeOK, memory, loopVars
<1>2. ASSUME NEW c \in Clients, NEW id \in Ids, CancelUnanswered(c, id) PROVE ServiceTypeOK'
  <2>1. row' \in [Ids -> ExecTimes \cup {Nil}]
    BY <1>2 DEF CancelUnanswered, ServiceTypeOK
  <2> QED  BY <1>2, <2>1 DEF CancelUnanswered, ServiceTypeOK, memory, loopVars
<1>3. ASSUME NEW batch \in Batches, ConfirmExecution(batch) \/ ConfirmationFails(batch)
      PROVE  ServiceTypeOK'
  <2>1. row' \in [Ids -> ExecTimes \cup {Nil}]
    BY <1>3 DEF ConfirmExecution, ConfirmationFails, DeleteRows, ServiceTypeOK
  <2> QED  BY <1>3, <2>1 DEF ConfirmExecution, ConfirmationFails, ServiceTypeOK, memory, loopVars
<1>4. CASE Restart
  <2>1. EmptyList \in TaskList /\ IndexIsLive(EmptyList)
    BY DEF EmptyList, TaskList, IndexIsLive
  <2> QED  BY <1>4, <2>1, GreedyAssumption DEF Restart, ServiceTypeOK, ChanCap
<1>5. CASE UNCHANGED hookVars
  BY <1>5 DEF hookVars, serviceVars, ServiceTypeOK
<1> QED
  BY <1>1, <1>2, <1>3, <1>4, <1>5, WaitingSteps DEF CreateForLater, CreateUnanswered

(* Tasks of a batch are tasks, their ids are ids.                           *)
LEMMA BatchType ==
    ASSUME NEW batch \in Batches
    PROVE  /\ batch \subseteq Task /\ batch # {} /\ IdsOf(batch) \subseteq Ids
           /\ \A t \in batch : confirming[t] > 0
<1>1. batch \in SUBSET {t \in Task : confirming[t] > 0} /\ batch # {}
  BY DEF Batches
<1>2. \A t \in batch : t \in Task /\ t.id \in Ids
  BY <1>1 DEF Task
<1> QED  BY <1>1, <1>2 DEF IdsOf

(* The bags of the sender stay bags.                                        *)
LEMMA BagTypes ==
    ASSUME NEW b \in [Task -> Nat], NEW t \in Task
    PROVE  /\ Sender!More(b, t) \in [Task -> Nat]
           /\ b[t] > 0 => Sender!Less(b, t) \in [Task -> Nat]
           /\ Sender!None \in [Task -> Nat]
           /\ \A u \in Task : /\ Sender!More(b, t)[u] = b[u] + One(u = t)
                              /\ Sender!Less(b, t)[u] = b[u] - One(u = t)
BY DEF Sender!More, Sender!Less, Sender!None, One

(* The services' own variables keep their types.                            *)
LEMMA ServicesType == HookTypeOK /\ [HookNext]_hookVars => ServicesTypeOK'
<1> SUFFICES ASSUME HookTypeOK, [HookNext]_hookVars PROVE ServicesTypeOK'
  OBVIOUS
<1>t. ServiceTypeOK /\ ServicesTypeOK
  BY DEF HookTypeOK
<1> USE DEF preloaderVars, senderVars, eventVars
<1>1. ASSUME NEW c \in Clients, NEW t \in Task,
             CreateTaken(c, t) \/ CreateForLater(c, t) \/ CreateUnanswered(c, t)
      PROVE  ServicesTypeOK'
  <2>1. unread' \subseteq Task /\ UNCHANGED reading
    BY <1>1, <1>t DEF CreateTaken, CreateForLater, CreateUnanswered, Preloader!StoreAsTaken,
        Preloader!StoreForLater, ServicesTypeOK
  <2>2. all' \in Int /\ unanswered' \subseteq Ids /\ done' \subseteq Ids /\ UNCHANGED fatal
    BY <1>1, <1>t DEF CreateTaken, CreateForLater, CreateUnanswered, Insert, ServicesTypeOK, Task
  <2>3. UNCHANGED senderVars
    BY <1>1 DEF CreateTaken, CreateForLater, CreateUnanswered, Insert
  <2> QED  BY <1>t, <2>1, <2>2, <2>3 DEF ServicesTypeOK
<1>2. ASSUME NEW c \in Clients, NEW id \in Ids, Cancel(c, id) \/ CancelUnanswered(c, id)
      PROVE  ServicesTypeOK'
  BY <1>2, <1>t DEF Cancel, CancelUnanswered, Preloader!RowDeleted, ServicesTypeOK
<1>3. CASE Consumes
  <2>1. Head(tasksReadyToSend) \in Task
    BY <1>3, <1>t, ReceiveElements DEF Consumes, Consume, ServiceTypeOK
  <2> QED  BY <1>3, <1>t, <2>1, BagTypes DEF Consumes, Sender!Give, ServicesTypeOK
<1>4. CASE ReadTasks \/ PreloaderFails
  BY <1>4, <1>t DEF ReadTasks, PreloaderFails, Preloader!Read, Preloader!Lose, ServicesTypeOK
<1>5. ASSUME NEW t \in Task, HandOver(t) PROVE ServicesTypeOK'
  BY <1>5, <1>t DEF HandOver, Preloader!HandOver, ServicesTypeOK
<1>6. ASSUME NEW t \in Task, GiveAgain(t) \/ Rollback(t) \/ Confirm(t) PROVE ServicesTypeOK'
  <2>1. /\ given' \in [Task -> Nat] /\ rolledBack' \in [Task -> Nat]
        /\ confirming' \in [Task -> Nat]
    BY <1>6, <1>t, BagTypes DEF GiveAgain, Rollback, Confirm, Sender!GiveAgain,
        Sender!Rollback, Sender!Confirm, ServicesTypeOK
  <2>2. done' \subseteq Ids
    BY <1>6, <1>t DEF GiveAgain, Rollback, Confirm, ServicesTypeOK, Task
  <2> QED  BY <1>6, <1>t, <2>1, <2>2 DEF GiveAgain, Rollback, Confirm, ServicesTypeOK
<1>8. CASE Restart
  <2>1. StoredTasks \subseteq Task
    BY <1>t DEF StoredTasks, Stored, TaskOf, Task, ServiceTypeOK
  <2>2. Cardinality(Stored) \in Int
    BY FS_CardinalityType DEF HookTypeOK, Finite
  <2>3. Sender!None \in [Task -> Nat]
    BY DEF Sender!None
  <2> QED  BY <1>8, <1>t, <2>1, <2>2, <2>3 DEF Restart, Preloader!StartAgain, ServicesTypeOK
<1>7. ASSUME NEW batch \in Batches, ConfirmExecution(batch) \/ ConfirmationFails(batch)
      PROVE  ServicesTypeOK'
  <2>1. confirming' \in [Task -> Nat] /\ UNCHANGED <<given, rolledBack>>
    BY <1>7, <1>t, BatchType DEF ConfirmExecution, ConfirmationFails, Sender!Settle, ServicesTypeOK
  <2>2. unread' \subseteq Task /\ UNCHANGED reading
    BY <1>7, <1>t DEF ConfirmExecution, ConfirmationFails, DeleteRows, ServicesTypeOK
  <2>3. all' \in Int
    <3>1. Affected(batch) \in Int
      <4>1. IsFiniteSet(Stored)
        BY DEF HookTypeOK, Finite
      <4>2. IsFiniteSet(IdsOf(batch) \cap Stored)
        BY <4>1, FS_Intersection
      <4> QED  BY <4>2, FS_CardinalityType DEF Affected
    <3> QED  BY <1>7, <1>t, <3>1 DEF ConfirmExecution, ConfirmationFails, ServicesTypeOK
  <2>4. fatal' \in BOOLEAN /\ UNCHANGED <<unanswered, done>>
    BY <1>7, <1>t DEF ConfirmExecution, ConfirmationFails, ServicesTypeOK
  <2> QED  BY <1>t, <2>1, <2>2, <2>3, <2>4 DEF ServicesTypeOK
<1>9. CASE WaitingLoop \/ TimePasses \/ (\E c \in Clients : Push(c)) \/ UNCHANGED hookVars
  <2>1. UNCHANGED <<preloaderVars, senderVars, all, done, eventVars>>
    BY <1>9 DEF WaitingLoop, TimePasses, Push, hookVars
  <2> QED  BY <1>t, <2>1 DEF ServicesTypeOK
<1> QED  BY <1>1, <1>2, <1>3, <1>4, <1>5, <1>6, <1>7, <1>8, <1>9 DEF HookNext

(* Every step inserts at most one row and adds at most one caller.          *)
LEMMA FiniteStep == HookTypeOK /\ [HookNext]_hookVars => Finite'
<1> SUFFICES ASSUME HookTypeOK, [HookNext]_hookVars PROVE Finite'
  OBVIOUS
<1>t. ServiceTypeOK /\ Finite
  BY DEF HookTypeOK
<1> DEFINE Pushers == {c \in Clients : adding[c] # Nil}
<1>1. IsFiniteSet(Stored')
  <2>1. ASSUME NEW c \in Clients, NEW t \in Task, Commit(c, t) \/ Insert(c, t)
        PROVE  IsFiniteSet(Stored')
    <3>1. Stored' = Stored \cup {t.id}
      BY <2>1, <1>t, InsertsOne DEF Commit, Insert
    <3> QED  BY <3>1, <1>t, FS_AddElement DEF Finite
  <2>2. ASSUME UNCHANGED row \/ \E ids \in SUBSET Ids :
                   row' = [id \in Ids |-> IF id \in ids THEN Nil ELSE row[id]]
        PROVE  IsFiniteSet(Stored')
    <3>1. Stored' \subseteq Stored
      BY <2>2, <1>t, DeletesSome DEF Stored
    <3> QED  BY <3>1, <1>t, FS_Subset DEF Finite
  <2>3. ASSUME NEW c \in Clients, NEW id \in Ids, Cancel(c, id) \/ CancelUnanswered(c, id)
        PROVE  IsFiniteSet(Stored')
    <3>1. row' = [i \in Ids |-> IF i \in {id} THEN Nil ELSE row[i]]
      BY <2>3, <1>t, DeletesOne DEF Cancel, CancelIfExist, CancelUnanswered
    <3> QED  BY <3>1, <2>2
  <2>4. ASSUME NEW batch \in Batches, ConfirmExecution(batch) \/ ConfirmationFails(batch)
        PROVE  IsFiniteSet(Stored')
    BY <2>2, <2>4, BatchType DEF ConfirmExecution, ConfirmationFails, DeleteRows
  <2>5. CASE \/ WaitingLoop \/ ReadTasks \/ Consumes \/ PreloaderFails \/ Restart \/ TimePasses
             \/ UNCHANGED hookVars \/ \E c \in Clients : Push(c)
             \/ \E t \in Task : HandOver(t) \/ GiveAgain(t) \/ Rollback(t) \/ Confirm(t)
    <3>1. UNCHANGED row
      BY <2>5 DEF WaitingLoop, ReadTasks, Consumes, PreloaderFails, Restart, TimePasses, hookVars,
          Push, HandOver, PushRead, GiveAgain, Rollback, Confirm, serviceVars, clientVars, Run, TakeNothing,
          TakeTask, TimerFires, SendReady, ReceivePreloaded, GreedyAdd, GreedyAddEnds,
          ReceiveCanceled, GreedyCancel, GreedyCancelEnds, Consume, Tick, PushPreloaded,
          PushCanceled
    <3> QED  BY <3>1, <2>2
  <2> QED  BY <2>1, <2>3, <2>4, <2>5 DEF HookNext, CreateTaken, CreateForLater, CreateUnanswered
<1>2. \/ Pushers' \subseteq Pushers
      \/ \E c \in Clients : Pushers' \subseteq Pushers \cup {c}
  <2>1. ASSUME NEW c \in Clients, NEW t \in Task, CreateTaken(c, t)
        PROVE  Pushers' \subseteq Pushers \cup {c}
    BY <2>1, <1>t DEF CreateTaken, Commit, ServiceTypeOK
  <2>2. ASSUME NEW c \in Clients, Push(c) PROVE Pushers' \subseteq Pushers
    BY <2>2, <1>t DEF Push, PushPreloaded, PushCanceled, ServiceTypeOK
  <2>3. CASE Restart
    BY <2>3 DEF Restart
  <2>4. CASE \/ WaitingLoop \/ ReadTasks \/ Consumes \/ PreloaderFails \/ TimePasses
             \/ UNCHANGED hookVars
             \/ \E t \in Task : HandOver(t) \/ GiveAgain(t) \/ Rollback(t) \/ Confirm(t)
             \/ \E c \in Clients, t \in Task : CreateForLater(c, t) \/ CreateUnanswered(c, t)
             \/ \E c \in Clients, id \in Ids : Cancel(c, id) \/ CancelUnanswered(c, id)
             \/ \E batch \in Batches : ConfirmExecution(batch) \/ ConfirmationFails(batch)
    <3>1. UNCHANGED adding
      BY <2>4 DEF WaitingLoop, ReadTasks, Consumes, PreloaderFails, TimePasses, hookVars,
          HandOver, PushRead, GiveAgain, Rollback, Confirm, serviceVars, clientVars, Run, TakeNothing,
          TakeTask, TimerFires, SendReady, ReceivePreloaded, GreedyAdd, GreedyAddEnds,
          ReceiveCanceled, GreedyCancel, GreedyCancelEnds, Consume, Tick, CreateForLater,
          CreateUnanswered, Insert, Cancel, CancelIfExist, CancelUnanswered, memory,
          ConfirmExecution, ConfirmationFails
    <3> QED  BY <3>1
  <2> QED  BY <2>1, <2>2, <2>3, <2>4 DEF HookNext
<1>3. IsFiniteSet(Pushers')
  <2>1. IsFiniteSet(Pushers) /\ \A c : IsFiniteSet(Pushers \cup {c})
    BY <1>t, FS_AddElement DEF Finite
  <2> HIDE DEF Pushers
  <2> QED  BY <1>2, <2>1, FS_Subset
<1> QED  BY <1>1, <1>3 DEF Finite

LEMMA HookTypeStep == HookTypeOK /\ [HookNext]_hookVars => HookTypeOK'
BY HookTypeOfWaiting, ServicesType, FiniteStep DEF HookTypeOK

(* The services keep their types together, through faults and restarts.     *)
THEOREM HookTypeCorrect == HookSpec => []HookTypeOK
<1>1. HookInit => HookTypeOK
  <2> SUFFICES ASSUME HookInit PROVE HookTypeOK
    OBVIOUS
  <2>1. ServiceTypeOK
    BY GreedyAssumption DEF HookInit, Init, ServiceTypeOK, EmptyList, TaskList, IndexIsLive, ChanCap
  <2>2. ServicesTypeOK
    <3>1. Sender!None \in [Task -> Nat]
      BY DEF Sender!None
    <3>2. unread = {} /\ reading = {} /\ unanswered = {} /\ done = {} /\ fatal \in BOOLEAN
      BY DEF HookInit, Init
    <3>3. all \in Int
      BY DEF HookInit
    <3>4. given = Sender!None /\ rolledBack = Sender!None /\ confirming = Sender!None
      BY DEF HookInit
    <3> QED  BY <3>1, <3>2, <3>3, <3>4 DEF ServicesTypeOK
  <2>3. Stored = {} /\ {c \in Clients : adding[c] # Nil} = {}
    BY DEF HookInit, Init, Stored
  <2>4. IsFiniteSet({})
    BY FS_EmptySet
  <2> QED  BY <2>1, <2>2, <2>3, <2>4 DEF HookTypeOK, Finite
<1> QED  BY <1>1, HookTypeStep, PTL DEF HookSpec

-----------------------------------------------------------------------------
(* The metric All                                                           *)

(* Steps that touch neither the table nor what the application was told.    *)
Quiet ==
    \/ WaitingLoop \/ ReadTasks \/ Consumes \/ TimePasses \/ UNCHANGED hookVars
    \/ \E c \in Clients : Push(c)
    \/ \E t \in Task : HandOver(t) \/ GiveAgain(t) \/ Rollback(t)

LEMMA QuietSteps ==
    ASSUME Quiet
    PROVE  UNCHANGED <<row, created, all, done, unanswered, fatal>>
BY DEF Quiet, WaitingLoop, ReadTasks, Consumes, TimePasses, hookVars, Push, HandOver, PushRead, GiveAgain,
    Rollback, serviceVars, clientVars, eventVars, Run, TakeNothing, TakeTask, TimerFires, SendReady,
    ReceivePreloaded, GreedyAdd, GreedyAddEnds, ReceiveCanceled, GreedyCancel,
    GreedyCancelEnds, Consume, Tick, PushPreloaded, PushCanceled

(* The metric All counts the rows although callers and confirmations delete *)
(* concurrently and a confirmation may ask for rows that are gone           *)
(* (task_manager.go: Publish(All, ...) after Create, Delete and             *)
(* ConfirmExecution).                                                       *)
THEOREM MetricAllIsRight == HookSpec => []AllCountsRows
<1>1. HookInit => AllCountsRows
  <2> SUFFICES ASSUME HookInit PROVE all = Cardinality(Stored)
    BY DEF AllCountsRows
  <2>1. Stored = {} /\ all = 0
    BY DEF HookInit, Init, Stored
  <2> QED  BY <2>1, FS_EmptySet
<1>2. HookTypeOK /\ AllCountsRows /\ [HookNext]_hookVars => AllCountsRows'
  <2> SUFFICES ASSUME HookTypeOK, AllCountsRows, [HookNext]_hookVars,
                      unanswered' = {}, ~fatal'
               PROVE  all' = Cardinality(Stored')
    BY DEF AllCountsRows
  <2>t. ServiceTypeOK /\ IsFiniteSet(Stored) /\ Cardinality(Stored) \in Nat /\ all \in Int
    BY FS_CardinalityType DEF HookTypeOK, Finite, ServicesTypeOK
  <2>1. ASSUME NEW c \in Clients, NEW t \in Task, CreateTaken(c, t) \/ CreateForLater(c, t)
        PROVE  all' = Cardinality(Stored')
    <3>1. t.id \notin Stored /\ Stored' = Stored \cup {t.id}
      BY <2>1, <2>t, InsertsOne DEF CreateTaken, CreateForLater, Commit, Insert
    <3>2. Cardinality(Stored') = Cardinality(Stored) + 1
      BY <3>1, <2>t, FS_AddElement
    <3>3. all' = all + 1 /\ UNCHANGED <<unanswered, fatal>>
      BY <2>1 DEF CreateTaken, CreateForLater, eventVars
    <3> QED  BY <3>2, <3>3 DEF AllCountsRows
  <2>2. ASSUME NEW c \in Clients, NEW id \in Ids, Cancel(c, id)
        PROVE  all' = Cardinality(Stored')
    <3>1. row' = [i \in Ids |-> IF i \in {id} THEN Nil ELSE row[i]]
      BY <2>2, <2>t, DeletesOne DEF Cancel, CancelIfExist
    <3>2. id \in Stored /\ Stored' = Stored \ {id}
      BY <2>2, <3>1, <2>t, DeletesSome DEF Cancel, CancelIfExist, Stored
    <3>3. Cardinality(Stored') = Cardinality(Stored) - 1
      BY <3>2, <2>t, FS_RemoveElement
    <3>4. all' = all - 1 /\ UNCHANGED <<unanswered, fatal>>
      BY <2>2 DEF Cancel, eventVars
    <3> QED  BY <3>3, <3>4 DEF AllCountsRows
  <2>3. ASSUME NEW batch \in Batches, ConfirmExecution(batch)
        PROVE  all' = Cardinality(Stored')
    <3>1. Stored' = Stored \ IdsOf(batch)
      BY <2>3, <2>t, BatchType, DeletesSome DEF ConfirmExecution, DeleteRows
    <3>2. Cardinality(Stored') = Cardinality(Stored) - Cardinality(Stored \cap IdsOf(batch))
      BY <3>1, <2>t, FS_Difference
    <3>3. Stored \cap IdsOf(batch) = IdsOf(batch) \cap Stored
      OBVIOUS
    <3>4. all' = all - Affected(batch) /\ UNCHANGED <<unanswered, fatal>>
      BY <2>3 DEF ConfirmExecution, eventVars
    <3> QED  BY <3>2, <3>3, <3>4 DEF AllCountsRows, Affected
  <2>4. CASE Restart
    BY <2>4 DEF Restart, Stored
  <2>5. ASSUME NEW c \in Clients, NEW t \in Task, CreateUnanswered(c, t) PROVE FALSE
    BY <2>5 DEF CreateUnanswered
  <2>6. ASSUME NEW c \in Clients, NEW id \in Ids, CancelUnanswered(c, id) PROVE FALSE
    BY <2>6 DEF CancelUnanswered
  <2>7. ASSUME PreloaderFails \/ \E batch \in Batches : ConfirmationFails(batch) PROVE FALSE
    BY <2>7 DEF PreloaderFails, ConfirmationFails
  <2>8. CASE Quiet
    BY <2>8, QuietSteps DEF AllCountsRows, Stored
  <2>9. ASSUME NEW t \in Task, Confirm(t) PROVE all' = Cardinality(Stored')
    BY <2>9 DEF Confirm, serviceVars, eventVars, AllCountsRows, Stored
  <2> QED  BY <2>1, <2>2, <2>3, <2>4, <2>5, <2>6, <2>7, <2>8, <2>9 DEF HookNext, Quiet
<1> QED  BY <1>1, <1>2, HookTypeCorrect, PTL DEF HookSpec

-----------------------------------------------------------------------------
(* Counting copies                                                          *)

(* How often a channel holds a task: a number, and none in an empty one.    *)
LEMMA CountType ==
    ASSUME NEW S, NEW ch \in Seq(S), NEW t
    PROVE  Count(ch, t) \in Nat /\ (Len(ch) = 0 => Count(ch, t) = 0)
<1>1. DOMAIN ch = 1..Len(ch) /\ Len(ch) \in Nat
  BY LenProperties
<1>2. IsFiniteSet(1..Len(ch))
  BY <1>1, FS_Interval
<1>3. IsFiniteSet({i \in DOMAIN ch : ch[i] = t})
  BY <1>1, <1>2, FS_Subset
<1>4. ASSUME Len(ch) = 0 PROVE {i \in DOMAIN ch : ch[i] = t} = {}
  BY <1>1, <1>4
<1> QED  BY <1>3, <1>4, FS_CardinalityType, FS_EmptySet DEF Count

(* A channel with one element.                                              *)
LEMMA CountOne ==
    ASSUME NEW S, NEW ch \in Seq(S), Len(ch) = 1, NEW t
    PROVE  Count(ch, t) = One(ch[1] = t)
<1>1. DOMAIN ch = 1..1
  BY LenProperties
<1>2. CASE ch[1] = t
  <2>1. {i \in DOMAIN ch : ch[i] = t} = {1}
    BY <1>1, <1>2
  <2> QED  BY <1>2, <2>1, FS_Singleton DEF Count, One
<1>3. CASE ch[1] # t
  <2>1. {i \in DOMAIN ch : ch[i] = t} = {}
    BY <1>1, <1>3
  <2> QED  BY <1>3, <2>1, FS_EmptySet DEF Count, One
<1> QED  BY <1>2, <1>3

(* A send to a channel with room adds one copy of the task that is sent.    *)
LEMMA CountSend ==
    ASSUME NEW S, NEW ch \in Seq(S), HasRoom(ch), NEW x \in S, NEW t
    PROVE  Count(Append(ch, x), t) = Count(ch, t) + One(x = t)
<1>1. Len(ch) = 0
  BY LenProperties DEF HasRoom, ChanCap
<1>2. Append(ch, x) \in Seq(S) /\ Len(Append(ch, x)) = 1 /\ Append(ch, x)[1] = x
  BY <1>1, AppendProperties
<1>3. Count(ch, t) = 0 /\ Count(Append(ch, x), t) = One(x = t)
  BY <1>1, <1>2, CountType, CountOne DEF One
<1> QED  BY <1>3 DEF One

(* A receive takes one copy of the head away.                               *)
LEMMA CountReceive ==
    ASSUME NEW S, NEW ch \in Seq(S), ch # <<>>, Len(ch) <= ChanCap, NEW t
    PROVE  Count(ch, t) = Count(Tail(ch), t) + One(Head(ch) = t)
<1>1. Len(ch) = 1
  <2>1. Len(ch) \in Nat \ {0}
    BY EmptySeq
  <2>2. Len(ch) <= 1
    BY DEF ChanCap
  <2>3. \A n \in Nat \ {0} : n <= 1 => n = 1
    OBVIOUS
  <2> QED  BY <2>1, <2>2, <2>3, Zenon
<1>2. Tail(ch) \in Seq(S) /\ Len(Tail(ch)) = 0 /\ Head(ch) = ch[1]
  BY <1>1, HeadTailProperties
<1>3. Count(Tail(ch), t) = 0 /\ Count(ch, t) = One(Head(ch) = t)
  BY <1>1, <1>2, CountType, CountOne DEF One
<1> QED  BY <1>3 DEF One

(* The copies the waiting service holds.                                    *)
InLoop(t) ==
    Count(preloadedTasks, t) + tasksWaitingList.pq[t] + One(task = t) + Count(tasksReadyToSend, t)

LEMMA InLoopType ==
    ServiceTypeOK => \A t \in Task : /\ Count(preloadedTasks, t) \in Nat
                              /\ tasksWaitingList.pq[t] \in Nat
                              /\ Count(tasksReadyToSend, t) \in Nat
                              /\ One(task = t) \in Nat
                              /\ InLoop(t) \in Nat
<1> SUFFICES ASSUME ServiceTypeOK, NEW t \in Task
             PROVE  /\ Count(preloadedTasks, t) \in Nat /\ tasksWaitingList.pq[t] \in Nat
                    /\ Count(tasksReadyToSend, t) \in Nat
                    /\ One(task = t) \in Nat /\ InLoop(t) \in Nat
  OBVIOUS
<1>1. Count(preloadedTasks, t) \in Nat /\ Count(tasksReadyToSend, t) \in Nat
  BY CountType DEF ServiceTypeOK
<1>2. tasksWaitingList.pq[t] \in Nat
  BY ListCounts DEF ServiceTypeOK
<1>3. One(task = t) \in Nat
  BY DEF One
<1> QED  BY <1>1, <1>2, <1>3 DEF InLoop

(* The loop of the waiting service moves copies; it drops some only when it *)
(* takes a cancellation, and then of the cancelled id.                      *)
LEMMA LoopMovesCopies ==
    ASSUME ServiceTypeOK, ServiceTypeOK', Run, NEW t \in Task
    PROVE  /\ InLoop(t)' \in Nat /\ InLoop(t)' <= InLoop(t)
           /\ t.id \notin Elements(canceledTasks) => InLoop(t)' = InLoop(t)
<1> DEFINE p == Count(preloadedTasks, t)
           q == tasksWaitingList.pq[t]
           r == Count(tasksReadyToSend, t)
<1>t. p \in Nat /\ q \in Nat /\ r \in Nat /\ InLoop(t) \in Nat
  BY InLoopType
<1>n. t # Nil
  BY DEF Task
<1>l. tasksWaitingList \in TaskList /\ IndexIsLive(tasksWaitingList)
  BY DEF ServiceTypeOK
<1>i. InLoop(t) = p + q + One(task = t) + r
  BY DEF InLoop
<1>j. InLoop(t)' = p' + q' + One(task' = t) + r'
  BY DEF InLoop
<1> HIDE DEF p, q, r
<1>1. CASE TakeNothing \/ TimerFires \/ GreedyAddEnds \/ GreedyCancelEnds
  <2>1. UNCHANGED <<preloadedTasks, tasksWaitingList, task, tasksReadyToSend>>
    BY <1>1 DEF TakeNothing, TimerFires, GreedyAddEnds, GreedyCancelEnds
  <2>2. InLoop(t)' = InLoop(t)
    BY <2>1 DEF InLoop
  <2> QED  BY <2>2, <1>t
<1>2. CASE TakeTask
  <2>1. PICK u \in Firsts(tasksWaitingList) :
          tasksWaitingList' = Take(tasksWaitingList, u) /\ task' = u
    BY <1>2 DEF TakeTask
  <2>2. u \in Task /\ task = Nil
    BY <1>2, <2>1 DEF Firsts, TakeTask, ServiceTypeOK
  <2>3. q' = q - One(u = t)
    BY <1>l, <2>1, <2>2, ListCounts DEF q
  <2>4. p' = p /\ r' = r
    BY <1>2 DEF TakeTask, p, r
  <2> QED  BY <1>t, <1>n, <1>i, <1>j, <2>1, <2>2, <2>3, <2>4 DEF One
<1>3. CASE SendReady
  <2>1. task \in Task /\ task' = Nil
    BY <1>3 DEF SendReady, ServiceTypeOK
  <2>2. r' = r + One(task = t)
    BY <1>3, <2>1, CountSend DEF SendReady, ServiceTypeOK, r
  <2>3. p' = p /\ q' = q
    BY <1>3 DEF SendReady, p, q
  <2> QED  BY <1>t, <1>n, <1>i, <1>j, <2>1, <2>2, <2>3 DEF One
<1>4. CASE ReceivePreloaded \/ GreedyAdd
  <2> DEFINE x == Head(preloadedTasks)
             l == IF pc = "select" THEN PutBack(tasksWaitingList) ELSE tasksWaitingList
  <2>1. x \in Task /\ p = p' + One(x = t)
    <3>1. /\ preloadedTasks \in Seq(Task) /\ preloadedTasks # <<>>
          /\ Len(preloadedTasks) <= ChanCap /\ preloadedTasks' = Tail(preloadedTasks)
      BY <1>4 DEF ReceivePreloaded, GreedyAdd, ServiceTypeOK
    <3> QED  BY <3>1, ReceiveElements, CountReceive DEF p
  <2>2. tasksWaitingList' = Add(l, x) /\ task' = Nil /\ (pc # "select" => task = Nil)
    BY <1>4 DEF ReceivePreloaded, GreedyAdd, ServiceTypeOK
  <2>3. l \in TaskList /\ l.pq[t] = q + One(task = t)
    <3>1. CASE task = Nil
      BY <1>l, <1>n, <1>t, <3>1 DEF PutBack, One, q
    <3>2. CASE task # Nil
      <4>1. pc = "select" /\ task \in Task
        BY <1>4, <3>2 DEF ReceivePreloaded, GreedyAdd, ServiceTypeOK
      <4>2. l = Add(tasksWaitingList, task)
        BY <3>2, <4>1 DEF PutBack
      <4> QED  BY <1>l, <4>1, <4>2, AddType, ListCounts DEF q
    <3> QED  BY <3>1, <3>2
  <2> HIDE DEF l, x
  <2>4. q' = l.pq[t] + One(x = t)
    BY <2>1, <2>2, <2>3, ListCounts DEF q
  <2>5. r' = r
    BY <1>4 DEF ReceivePreloaded, GreedyAdd, r
  <2>6. p' \in Nat
    BY CountType DEF ServiceTypeOK, p
  <2> QED  BY <1>t, <1>n, <1>i, <1>j, <2>1, <2>2, <2>3, <2>4, <2>5, <2>6 DEF One
<1>5. CASE ReceiveCanceled \/ GreedyCancel
  <2> DEFINE id == Head(canceledTasks)
             l == IF task # Nil /\ task.id # id
                  THEN Add(tasksWaitingList, task) ELSE tasksWaitingList
  <2>1. id \in Ids /\ id \in Elements(canceledTasks)
    BY <1>5, ReceiveElements DEF ReceiveCanceled, GreedyCancel, ServiceTypeOK
  <2>2. l \in TaskList /\ IndexIsLive(l)
    BY <1>l, AddType DEF ServiceTypeOK
  <2>3. tasksWaitingList' = DeleteIfExist(l, id) /\ task' = Nil
    BY <1>5 DEF ReceiveCanceled, GreedyCancel, ServiceTypeOK
  <2>4. l.pq[t] \in Nat /\ l.pq[t] <= q + One(task = t)
        /\ (t.id # id => l.pq[t] = q + One(task = t))
    <3>1. CASE task # Nil /\ task.id # id
      <4>1. task \in Task /\ l = Add(tasksWaitingList, task)
        BY <3>1 DEF ServiceTypeOK
      <4>2. l.pq[t] = q + One(task = t)
        BY <1>l, <4>1, ListCounts DEF q
      <4> QED  BY <1>t, <4>2 DEF One
    <3>2. CASE ~(task # Nil /\ task.id # id)
      BY <1>t, <1>n, <3>2 DEF q, One
    <3> QED  BY <3>1, <3>2
  <2> HIDE DEF l, id
  <2>5. /\ q' \in Nat /\ q' <= l.pq[t] /\ (t.id # id => q' = l.pq[t])
    BY <2>1, <2>2, <2>3, DeleteCounts DEF q
  <2>6. p' = p /\ r' = r
    BY <1>5 DEF ReceiveCanceled, GreedyCancel, p, r
  <2> QED  BY <1>t, <1>n, <1>i, <1>j, <2>1, <2>3, <2>4, <2>5, <2>6 DEF One
<1> QED  BY <1>1, <1>2, <1>3, <1>4, <1>5 DEF Run

(* The callers that have still to push t.                                   *)
Pushing(t) == Cardinality({c \in Clients : adding[c] = t})

(* Copies, service by service.                                              *)
CopiesByService ==
    \A t \in Task :
        /\ Pushing(t) \in Nat /\ InLoop(t) \in Nat /\ Copies(t) \in Nat
        /\ Copies(t) = Pushing(t) + One(t \in unread) + One(t \in reading) + InLoop(t)
                       + given[t] + rolledBack[t] + confirming[t]

(* Only finitely many callers push a task.                                  *)
LEMMA PushersFinite ==
    ASSUME HookTypeOK, NEW t \in Task
    PROVE  IsFiniteSet({c \in Clients : adding[c] = t})
<1>1. {c \in Clients : adding[c] = t} \subseteq {c \in Clients : adding[c] # Nil}
  BY DEF Task
<1>2. IsFiniteSet({c \in Clients : adding[c] # Nil})
  BY DEF HookTypeOK, Finite
<1> QED  BY <1>1, <1>2, FS_Subset

LEMMA CopiesCounted == HookTypeOK => CopiesByService
<1> SUFFICES ASSUME HookTypeOK, NEW t \in Task
             PROVE  /\ Pushing(t) \in Nat /\ InLoop(t) \in Nat /\ Copies(t) \in Nat
                    /\ Copies(t) = Pushing(t) + One(t \in unread) + One(t \in reading) + InLoop(t)
                                   + given[t] + rolledBack[t] + confirming[t]
  BY DEF CopiesByService
<1>1. Pushing(t) \in Nat
  BY PushersFinite, FS_CardinalityType DEF Pushing
<1>2. given[t] \in Nat /\ rolledBack[t] \in Nat /\ confirming[t] \in Nat
  BY DEF HookTypeOK, ServicesTypeOK
<1>3. /\ Count(preloadedTasks, t) \in Nat /\ tasksWaitingList.pq[t] \in Nat
      /\ Count(tasksReadyToSend, t) \in Nat /\ One(task = t) \in Nat /\ InLoop(t) \in Nat
  BY InLoopType DEF HookTypeOK
<1>4. One(t \in unread) \in Nat /\ One(t \in reading) \in Nat
  BY DEF One
<1>5. Copies(t) = Pushing(t) + One(t \in unread) + One(t \in reading)
                  + Count(preloadedTasks, t) + tasksWaitingList.pq[t] + One(task = t)
                  + Count(tasksReadyToSend, t) + given[t] + rolledBack[t] + confirming[t]
  BY DEF Copies, Pushing
<1>6. InLoop(t) = Count(preloadedTasks, t) + tasksWaitingList.pq[t] + One(task = t)
                  + Count(tasksReadyToSend, t)
  BY DEF InLoop
<1> QED  BY <1>1, <1>2, <1>3, <1>4, <1>5, <1>6

LEMMA CopiesCountedNext == HookTypeOK' => CopiesByService'
BY CopiesCounted, PTL

(* A caller that pushes its task hands over one copy.                       *)
LEMMA PushersPush ==
    ASSUME HookTypeOK, NEW c \in Clients, adding[c] # Nil,
           adding' = [adding EXCEPT ![c] = Nil], NEW t \in Task
    PROVE  Pushing(t) = Pushing(t)' + One(adding[c] = t)
<1> DEFINE P == {d \in Clients : adding[d] = t}
<1>1. P' = P \ {c}
  BY DEF HookTypeOK, ServiceTypeOK, Task
<1>2. IsFiniteSet(P)
  BY PushersFinite
<1>3. c \in P <=> adding[c] = t
  OBVIOUS
<1>4. Pushing(t) = Cardinality(P) /\ Pushing(t)' = Cardinality(P')
  BY DEF Pushing
<1>5. Cardinality(P) \in Nat
  BY <1>2, FS_CardinalityType
<1> HIDE DEF P
<1>6. Cardinality(P \ {c}) = IF c \in P THEN Cardinality(P) - 1 ELSE Cardinality(P)
  BY <1>2, FS_RemoveElement
<1> QED  BY <1>1, <1>3, <1>4, <1>5, <1>6 DEF One

(* A caller that has stored a task holds one copy of it.                    *)
LEMMA PushersCommit ==
    ASSUME HookTypeOK, NEW c \in Clients, NEW t \in Task, Commit(c, t), NEW u \in Task
    PROVE  Pushing(u)' = Pushing(u) + One(t = u)
<1> DEFINE P == {d \in Clients : adding[d] = u}
<1>1. adding[c] = Nil /\ adding' = [adding EXCEPT ![c] = t] /\ adding \in [Clients -> Task \cup {Nil}]
  BY DEF Commit, Idle, HookTypeOK, ServiceTypeOK
<1>2. c \notin P
  BY <1>1 DEF Task
<1>3. P' = IF t = u THEN P \cup {c} ELSE P
  BY <1>1, <1>2
<1>4. IsFiniteSet(P)
  BY PushersFinite
<1>5. Pushing(u) = Cardinality(P) /\ Pushing(u)' = Cardinality(P')
  BY DEF Pushing
<1> HIDE DEF P
<1>6. Cardinality(P) \in Nat /\ Cardinality(P \cup {c}) = Cardinality(P) + 1
  BY <1>2, <1>4, FS_CardinalityType, FS_AddElement
<1> QED  BY <1>3, <1>5, <1>6 DEF One

(* Steps that neither create a task nor build the service anew.             *)
Moves ==
    \/ Quiet
    \/ PreloaderFails
    \/ \E t \in Task : Confirm(t)
    \/ \E c \in Clients, id \in Ids : Cancel(c, id) \/ CancelUnanswered(c, id)
    \/ \E batch \in Batches : ConfirmExecution(batch) \/ ConfirmationFails(batch)

(* What a move may do to the copies of t: it makes none, and the last one   *)
(* goes only with the row, with a cancellation or with LevelFatal.          *)
Moved(t) ==
    /\ Copies(t)' <= Copies(t)
    /\ Copies(t) > 0 /\ row'[t.id] = t.execTime /\ t.id \notin Elements(canceledTasks)
         => Copies(t)' > 0 \/ fatal'

LEMMA CopiesMove ==
    ASSUME HookTypeOK, HookTypeOK', Moves, NEW t \in Task
    PROVE  Moved(t)
<1> DEFINE own == Pushing(t)
           fromDb == One(t \in unread) + One(t \in reading)
           loop == InLoop(t)
           sender == given[t] + rolledBack[t] + confirming[t]
<1>t. ServiceTypeOK /\ ServiceTypeOK' /\ ServicesTypeOK /\ ServicesTypeOK'
  BY DEF HookTypeOK
<1>b. /\ given[t] \in Nat /\ rolledBack[t] \in Nat /\ confirming[t] \in Nat
      /\ given'[t] \in Nat /\ rolledBack'[t] \in Nat /\ confirming'[t] \in Nat
  BY <1>t DEF ServicesTypeOK
<1>i. own \in Nat /\ fromDb \in Nat /\ loop \in Nat /\ sender \in Nat
      /\ Copies(t) = own + fromDb + loop + sender
  BY <1>b, CopiesCounted DEF CopiesByService, One
<1>j. own' \in Nat /\ fromDb' \in Nat /\ loop' \in Nat /\ sender' \in Nat
      /\ Copies(t)' = own' + fromDb' + loop' + sender'
  BY <1>b, CopiesCountedNext DEF CopiesByService, One
<1>k. t.id \in Ids /\ t.execTime # Nil
  BY DEF Task
<1>own. ASSUME UNCHANGED adding PROVE own' = own
  BY <1>own DEF Pushing
<1>db. ASSUME UNCHANGED <<unread, reading>> PROVE fromDb' = fromDb
  BY <1>db
<1>loop. ASSUME UNCHANGED <<preloadedTasks, tasksWaitingList, task, tasksReadyToSend>>
         PROVE  loop' = loop
  BY <1>loop DEF InLoop
<1>sender. ASSUME UNCHANGED <<given, rolledBack, confirming>> PROVE sender' = sender
  BY <1>sender
<1>same. ASSUME own' + fromDb' + loop' + sender' = own + fromDb + loop + sender PROVE Moved(t)
  BY <1>same, <1>i, <1>j DEF Moved
<1> USE DEF preloaderVars, senderVars
<1>1. CASE WaitingLoop
  <2>1. own' = own /\ fromDb' = fromDb /\ sender' = sender
    <3>1. UNCHANGED <<adding, unread, reading, given, rolledBack, confirming>>
      BY <1>1 DEF WaitingLoop, Run, clientVars, TakeNothing, TakeTask, TimerFires, SendReady,
          ReceivePreloaded, GreedyAdd, GreedyAddEnds, ReceiveCanceled, GreedyCancel,
          GreedyCancelEnds
    <3> QED  BY <3>1, <1>own, <1>db, <1>sender
  <2>2. loop' <= loop /\ (t.id \notin Elements(canceledTasks) => loop' = loop)
    BY <1>1, <1>t, LoopMovesCopies DEF WaitingLoop
  <2> HIDE DEF own, fromDb, loop, sender
  <2> QED  BY <2>1, <2>2, <1>i, <1>j DEF Moved
<1>2. CASE ReadTasks
  <2>1. own' = own /\ loop' = loop /\ sender' = sender
    BY <1>2, <1>own, <1>loop, <1>sender DEF ReadTasks, serviceVars
  <2>2. PICK ts \in SUBSET unread : unread' = unread \ ts /\ reading' = reading \cup ts
    BY <1>2 DEF ReadTasks, Preloader!Read
  <2>3. fromDb' <= fromDb /\ (fromDb > 0 => fromDb' > 0)
    BY <2>2 DEF One
  <2> HIDE DEF own, fromDb, loop, sender
  <2> QED  BY <2>1, <2>3, <1>i, <1>j DEF Moved
<1>3. CASE Consumes
  <2> DEFINE x == Head(tasksReadyToSend)
  <2>1. own' = own /\ fromDb' = fromDb
    BY <1>3, <1>own, <1>db DEF Consumes, Consume, clientVars
  <2>2. x \in Task /\ Count(tasksReadyToSend, t) = Count(tasksReadyToSend', t) + One(x = t)
    BY <1>3, <1>t, ReceiveElements, CountReceive DEF Consumes, Consume, ServiceTypeOK
  <2>3. /\ Count(preloadedTasks, t) \in Nat /\ tasksWaitingList.pq[t] \in Nat
        /\ One(task = t) \in Nat /\ Count(tasksReadyToSend, t) \in Nat
    BY <1>t, InLoopType
  <2>4. Count(tasksReadyToSend', t) \in Nat
    BY <1>t, CountType DEF ServiceTypeOK
  <2>5. UNCHANGED <<preloadedTasks, tasksWaitingList, task>>
    BY <1>3 DEF Consumes, Consume, loopVars
  <2>6. loop = loop' + One(x = t)
    <3>1. InLoop(t) = Count(preloadedTasks, t) + tasksWaitingList.pq[t] + One(task = t)
                      + Count(tasksReadyToSend, t)
      BY DEF InLoop
    <3>2. InLoop(t)' = Count(preloadedTasks, t) + tasksWaitingList.pq[t] + One(task = t)
                       + Count(tasksReadyToSend', t)
      BY <2>5 DEF InLoop
    <3>3. One(x = t) \in Nat
      BY DEF One
    <3> QED  BY <2>2, <2>3, <2>4, <3>1, <3>2, <3>3
  <2>7. given' = Sender!More(given, x) /\ UNCHANGED <<rolledBack, confirming>>
    BY <1>3 DEF Consumes, Sender!Give
  <2>8. given'[t] = given[t] + One(t = x)
    BY <1>t, <2>2, <2>7, BagTypes DEF ServicesTypeOK
  <2>9. sender' = sender + One(x = t)
    BY <1>b, <2>7, <2>8 DEF One
  <2> HIDE DEF own, fromDb, loop, sender
  <2> QED  BY <2>1, <2>6, <2>9, <1>i, <1>j, <1>same DEF One
<1>4. CASE TimePasses \/ UNCHANGED hookVars
  <2>1. own' = own /\ fromDb' = fromDb /\ loop' = loop /\ sender' = sender
    BY <1>4, <1>own, <1>db, <1>loop, <1>sender
       DEF TimePasses, Tick, hookVars, serviceVars, loopVars, clientVars
  <2> QED  BY <2>1, <1>same
<1>5. ASSUME NEW c \in Clients, Push(c) PROVE Moved(t)
  <2>1. fromDb' = fromDb /\ sender' = sender
    BY <1>5, <1>db, <1>sender DEF Push
  <2>2. CASE PushCanceled(c)
    BY <2>1, <2>2, <1>own, <1>loop, <1>same DEF PushCanceled, loopVars
  <2>3. CASE PushPreloaded(c)
    <3> DEFINE x == adding[c]
    <3>1. x \in Task
      BY <2>3, <1>t DEF PushPreloaded, ServiceTypeOK
    <3>2. own = own' + One(x = t)
      BY <2>3, PushersPush DEF PushPreloaded
    <3>3. Count(preloadedTasks', t) = Count(preloadedTasks, t) + One(x = t)
      BY <2>3, <1>t, <3>1, CountSend DEF PushPreloaded, ServiceTypeOK
    <3>4. /\ Count(preloadedTasks, t) \in Nat /\ tasksWaitingList.pq[t] \in Nat
          /\ One(task = t) \in Nat /\ Count(tasksReadyToSend, t) \in Nat
      BY <1>t, InLoopType
    <3>5. UNCHANGED <<tasksReadyToSend, tasksWaitingList, task>>
      BY <2>3 DEF PushPreloaded, loopVars
    <3>6. loop' = loop + One(x = t)
      BY <3>3, <3>4, <3>5 DEF InLoop, One
    <3> HIDE DEF own, fromDb, loop, sender
    <3> QED  BY <2>1, <3>2, <3>6, <1>i, <1>j, <1>same DEF One
  <2> QED  BY <1>5, <2>2, <2>3 DEF Push
<1>6. ASSUME NEW x \in Task, HandOver(x) PROVE Moved(t)
  <2>1. own' = own /\ sender' = sender
    BY <1>6, <1>own, <1>sender DEF HandOver, PushRead, clientVars
  <2>2. x \in reading /\ reading' = reading \ {x} /\ UNCHANGED unread
    BY <1>6 DEF HandOver, Preloader!HandOver
  <2>3. fromDb = fromDb' + One(x = t)
    BY <2>2 DEF One
  <2>4. Count(preloadedTasks', t) = Count(preloadedTasks, t) + One(x = t)
    BY <1>6, <1>t, CountSend DEF HandOver, PushRead, ServiceTypeOK
  <2>5. /\ Count(preloadedTasks, t) \in Nat /\ tasksWaitingList.pq[t] \in Nat
        /\ One(task = t) \in Nat /\ Count(tasksReadyToSend, t) \in Nat
    BY <1>t, InLoopType
  <2>6. UNCHANGED <<tasksReadyToSend, tasksWaitingList, task>>
    BY <1>6 DEF HandOver, PushRead, loopVars
  <2>7. loop' = loop + One(x = t)
    BY <2>4, <2>5, <2>6 DEF InLoop, One
  <2> HIDE DEF own, fromDb, loop, sender
  <2> QED  BY <2>1, <2>3, <2>7, <1>i, <1>j, <1>same DEF One
<1>7. ASSUME NEW x \in Task, GiveAgain(x) \/ Rollback(x) \/ Confirm(x) PROVE Moved(t)
  <2>1. own' = own /\ fromDb' = fromDb /\ loop' = loop
    BY <1>7, <1>own, <1>db, <1>loop DEF GiveAgain, Rollback, Confirm, serviceVars
  <2>2. CASE GiveAgain(x)
    <3>1. /\ rolledBack'[t] = rolledBack[t] - One(t = x) /\ given'[t] = given[t] + One(t = x)
          /\ confirming' = confirming
      BY <2>2, <1>t, BagTypes DEF GiveAgain, Sender!GiveAgain, ServicesTypeOK
    <3>2. sender' = sender
      BY <3>1, <1>b DEF One
    <3> QED  BY <2>1, <3>2, <1>same
  <2>3. CASE Rollback(x)
    <3>1. /\ given'[t] = given[t] - One(t = x) /\ rolledBack'[t] = rolledBack[t] + One(t = x)
          /\ confirming' = confirming
      BY <2>3, <1>t, BagTypes DEF Rollback, Sender!Rollback, ServicesTypeOK
    <3>2. sender' = sender
      BY <3>1, <1>b DEF One
    <3> QED  BY <2>1, <3>2, <1>same
  <2>4. CASE Confirm(x)
    <3>1. /\ given'[t] = given[t] - One(t = x) /\ confirming'[t] = confirming[t] + One(t = x)
          /\ rolledBack' = rolledBack
      BY <2>4, <1>t, BagTypes DEF Confirm, Sender!Confirm, ServicesTypeOK
    <3>2. sender' = sender
      BY <3>1, <1>b DEF One
    <3> QED  BY <2>1, <3>2, <1>same
  <2> QED  BY <1>7, <2>2, <2>3, <2>4
<1>8. ASSUME NEW c \in Clients, NEW id \in Ids, Cancel(c, id) \/ CancelUnanswered(c, id)
      PROVE  Moved(t)
  <2>1. own' = own /\ loop' = loop /\ sender' = sender
    BY <1>8, <1>own, <1>loop, <1>sender DEF Cancel, CancelUnanswered, CancelIfExist, memory, loopVars
  <2>2. unread' = unread \ {TaskOf(id)} /\ UNCHANGED reading /\ row' = [row EXCEPT ![id] = Nil]
    BY <1>8 DEF Cancel, CancelUnanswered, CancelIfExist, Preloader!RowDeleted
  <2>3. fromDb' <= fromDb
    BY <2>2 DEF One
  <2>4. CASE t.id = id
    <3>1. row'[t.id] = Nil
      BY <1>t, <2>2, <2>4 DEF ServiceTypeOK
    <3>2. Copies(t)' <= Copies(t)
      <4> HIDE DEF own, fromDb, loop, sender
      <4> QED  BY <2>1, <2>3, <1>i, <1>j
    <3> QED  BY <3>1, <3>2, <1>k DEF Moved
  <2>5. CASE t.id # id
    <3>1. t # TaskOf(id)
      BY <2>5 DEF TaskOf
    <3>2. fromDb' = fromDb
      BY <2>2, <3>1 DEF One
    <3> QED  BY <2>1, <3>2, <1>same
  <2> QED  BY <2>4, <2>5
<1>9. ASSUME NEW batch \in Batches, ConfirmExecution(batch) \/ ConfirmationFails(batch)
      PROVE  Moved(t)
  <2>1. own' = own /\ loop' = loop
    BY <1>9, <1>own, <1>loop DEF ConfirmExecution, ConfirmationFails, memory, loopVars
  <2>2. /\ unread' \subseteq unread /\ UNCHANGED reading
        /\ ConfirmExecution(batch) /\ t.id \notin IdsOf(batch) => (t \in unread' <=> t \in unread)
    BY <1>9, <1>t DEF ConfirmExecution, ConfirmationFails, DeleteRows, ServicesTypeOK
  <2>3. /\ confirming' = [u \in Task |-> IF u \in batch THEN confirming[u] - 1 ELSE confirming[u]]
        /\ UNCHANGED <<given, rolledBack>>
    BY <1>9 DEF ConfirmExecution, ConfirmationFails, Sender!Settle
  <2>4. fromDb' <= fromDb
    BY <2>2 DEF One
  <2>5. sender' <= sender
    BY <1>b, <2>3
  <2>6. CASE ConfirmationFails(batch)
    <3>1. fatal'
      BY <2>6 DEF ConfirmationFails
    <3>2. Copies(t)' <= Copies(t)
      <4> HIDE DEF own, fromDb, loop, sender
      <4> QED  BY <2>1, <2>4, <2>5, <1>i, <1>j
    <3> QED  BY <3>1, <3>2 DEF Moved
  <2>7. CASE ConfirmExecution(batch) /\ t.id \in IdsOf(batch)
    <3>1. row'[t.id] = Nil
      BY <2>7, <1>k DEF ConfirmExecution, DeleteRows
    <3>2. Copies(t)' <= Copies(t)
      <4> HIDE DEF own, fromDb, loop, sender
      <4> QED  BY <2>1, <2>4, <2>5, <1>i, <1>j
    <3> QED  BY <3>1, <3>2, <1>k DEF Moved
  <2>8. CASE ConfirmExecution(batch) /\ t.id \notin IdsOf(batch)
    <3>1. t \notin batch
      BY <2>8 DEF IdsOf
    <3>2. sender' = sender
      BY <2>3, <3>1
    <3>3. fromDb' = fromDb
      BY <2>2, <2>8 DEF One
    <3> QED  BY <2>1, <3>2, <3>3, <1>same
  <2> QED  BY <1>9, <2>6, <2>7, <2>8
<1>10. CASE PreloaderFails
  <2>1. own' = own /\ loop' = loop /\ sender' = sender
    BY <1>10, <1>own, <1>loop, <1>sender DEF PreloaderFails, serviceVars
  <2>2. unread' \subseteq unread /\ UNCHANGED reading /\ fatal'
    BY <1>10 DEF PreloaderFails, Preloader!Lose
  <2>3. fromDb' <= fromDb
    BY <2>2 DEF One
  <2>4. Copies(t)' <= Copies(t)
    <3> HIDE DEF own, fromDb, loop, sender
    <3> QED  BY <2>1, <2>3, <1>i, <1>j
  <2> QED  BY <2>2, <2>4 DEF Moved
<1> QED  BY <1>1, <1>2, <1>3, <1>4, <1>5, <1>6, <1>7, <1>8, <1>9, <1>10 DEF Moves, Quiet

-----------------------------------------------------------------------------
(* What a life without reused ids preserves                                 *)

(* A copy is one of a task that was created and whose row, if there still   *)
(* is one, is its own.                                                      *)
CopiesAreCreated ==
    \A t \in Task : Copies(t) > 0 => t.id \in created /\ row[t.id] \in {Nil, t.execTime}

(* A created id without a row, and every id whose deletion is under way, is *)
(* one the application has done with.                                       *)
DoneIsKnown ==
    /\ done \subseteq created
    /\ \A id \in created : row[id] = Nil => id \in done
    /\ \A t \in Task : confirming[t] > 0 => t.id \in done

NoReuse == CancelsAreFinal /\ CopiesAreCreated /\ DoneIsKnown

(* What a create does to the copies: of the task itself at most two more,   *)
(* and one at least unless the caller was told of an error.                 *)
LEMMA CreatesCopies ==
    ASSUME HookTypeOK, HookTypeOK', NEW c \in Clients, NEW x \in Task,
           CreateTaken(c, x) \/ CreateForLater(c, x) \/ CreateUnanswered(c, x), NEW t \in Task
    PROVE  /\ t # x => Copies(t)' = Copies(t)
           /\ Copies(t)' <= Copies(t) + 2
           /\ CreateTaken(c, x) \/ CreateForLater(c, x) => Copies(x)' > 0
<1> DEFINE Rest(u) == One(u \in reading) + InLoop(u) + given[u] + rolledBack[u] + confirming[u]
<1>r. \A u \in Task : Rest(u) \in Nat /\ Rest(u)' = Rest(u)
  <2>1. UNCHANGED <<reading, given, rolledBack, confirming>>
    BY DEF CreateTaken, CreateForLater, CreateUnanswered, Insert, Preloader!StoreAsTaken,
        Preloader!StoreForLater, senderVars
  <2>2. UNCHANGED <<preloadedTasks, tasksWaitingList, task, tasksReadyToSend>>
    BY DEF CreateTaken, CreateForLater, CreateUnanswered, Insert, Commit, memory, loopVars
  <2>3. \A u \in Task : InLoop(u)' = InLoop(u)
    BY <2>2 DEF InLoop
  <2>4. \A u \in Task : Rest(u)' = Rest(u)
    BY <2>1, <2>3
  <2>5. \A u \in Task : Rest(u) \in Nat
    BY CopiesCounted DEF CopiesByService, HookTypeOK, ServicesTypeOK, One
  <2> QED  BY <2>4, <2>5
<1>c. \A u \in Task : /\ Pushing(u) \in Nat /\ Copies(u) \in Nat
                      /\ Copies(u) = Pushing(u) + One(u \in unread) + Rest(u)
  BY CopiesCounted DEF CopiesByService, HookTypeOK, ServicesTypeOK, One
<1>d. \A u \in Task : /\ Pushing(u)' \in Nat /\ Copies(u)' \in Nat
                      /\ Copies(u)' = Pushing(u)' + One(u \in unread') + Rest(u)'
  BY CopiesCountedNext DEF CopiesByService, HookTypeOK, ServicesTypeOK, One
<1> HIDE DEF Rest
<1>1. CASE CreateTaken(c, x)
  <2>1. Commit(c, x) /\ unread' \in {unread, unread \cup {x}}
    BY <1>1 DEF CreateTaken, Preloader!StoreAsTaken
  <2>2. \A u \in Task : Pushing(u)' = Pushing(u) + One(x = u)
    BY <2>1, PushersCommit
  <2> QED  BY <2>1, <2>2, <1>r, <1>c, <1>d DEF One
<1>2. CASE CreateForLater(c, x) \/ CreateUnanswered(c, x)
  <2>1. /\ UNCHANGED adding /\ unread' \in {unread, unread \cup {x}}
        /\ CreateForLater(c, x) => x \in unread'
    BY <1>2 DEF CreateForLater, CreateUnanswered, Insert, memory, Preloader!StoreAsTaken,
        Preloader!StoreForLater
  <2>2. \A u \in Task : Pushing(u)' = Pushing(u)
    BY <2>1 DEF Pushing
  <2>3. ~CreateTaken(c, x)
    BY <1>2, <2>1 DEF CreateTaken, Commit, HookTypeOK, ServiceTypeOK, Task, CreateForLater,
        CreateUnanswered, Insert, Idle
  <2> QED  BY <2>1, <2>2, <2>3, <1>r, <1>c, <1>d DEF One
<1> QED  BY <1>1, <1>2

(* A new instance holds no copy and will read each stored task once.        *)
LEMMA RestartCopies ==
    ASSUME HookTypeOK, HookTypeOK', Restart, NEW t \in Task
    PROVE  Copies(t)' = One(t \in StoredTasks)
<1>1. /\ Pushing(t)' \in Nat /\ InLoop(t)' \in Nat /\ Copies(t)' \in Nat
      /\ Copies(t)' = Pushing(t)' + One(t \in unread') + One(t \in reading') + InLoop(t)'
                     + given'[t] + rolledBack'[t] + confirming'[t]
  BY CopiesCountedNext DEF CopiesByService
<1>2. unread' = StoredTasks /\ reading' = {}
  BY DEF Restart, Preloader!StartAgain
<1>3. given'[t] = 0 /\ rolledBack'[t] = 0 /\ confirming'[t] = 0
  BY DEF Restart, Sender!None
<1>4. Pushing(t)' = 0
  <2>1. {c \in Clients : adding'[c] = t} = {}
    BY DEF Restart, Task
  <2> QED  BY <2>1, FS_EmptySet DEF Pushing
<1>5. InLoop(t)' = 0
  <2>1. preloadedTasks' = <<>> /\ tasksReadyToSend' = <<>> /\ task' = Nil /\ t # Nil
    BY DEF Restart, Task
  <2>2. Count(preloadedTasks', t) = 0 /\ Count(tasksReadyToSend', t) = 0
    <3>1. {i \in DOMAIN <<>> : <<>>[i] = t} = {}
      OBVIOUS
    <3> QED  BY <2>1, <3>1, FS_EmptySet DEF Count
  <2>3. tasksWaitingList'.pq[t] = 0
    BY DEF Restart, EmptyList
  <2> QED  BY <2>1, <2>2, <2>3 DEF InLoop, One
<1> QED  BY <1>1, <1>2, <1>3, <1>4, <1>5 DEF One

(* A step creates a task, moves copies or builds the service anew.          *)
LEMMA HookSteps ==
    ASSUME [HookNext]_hookVars
    PROVE  \/ \E c \in Clients, t \in Task :
                 CreateTaken(c, t) \/ CreateForLater(c, t) \/ CreateUnanswered(c, t)
           \/ Moves
           \/ Restart
BY DEF HookNext, Moves, Quiet

(* A move stores nothing and takes back no answer.                          *)
LEMMA MovesRows ==
    ASSUME ServiceTypeOK, Moves
    PROVE  /\ \A id \in Ids : row'[id] \in {row[id], Nil}
           /\ UNCHANGED created
           /\ unanswered \subseteq unanswered' /\ (fatal => fatal')
<1>1. CASE Quiet
  BY <1>1, QuietSteps
<1>2. CASE PreloaderFails \/ \E t \in Task : Confirm(t)
  BY <1>2 DEF PreloaderFails, Confirm, serviceVars, eventVars
<1>3. ASSUME NEW c \in Clients, NEW id \in Ids, Cancel(c, id) \/ CancelUnanswered(c, id)
      PROVE  /\ \A i \in Ids : row'[i] \in {row[i], Nil}
             /\ UNCHANGED created
             /\ unanswered \subseteq unanswered' /\ (fatal => fatal')
  <2>1. row' = [row EXCEPT ![id] = Nil] /\ UNCHANGED <<created, fatal>>
        /\ unanswered \subseteq unanswered'
    BY <1>3 DEF Cancel, CancelIfExist, CancelUnanswered, eventVars
  <2> QED  BY <2>1 DEF ServiceTypeOK
<1>4. ASSUME NEW batch \in Batches, ConfirmExecution(batch) \/ ConfirmationFails(batch)
      PROVE  /\ \A i \in Ids : row'[i] \in {row[i], Nil}
             /\ UNCHANGED created
             /\ unanswered \subseteq unanswered' /\ (fatal => fatal')
  BY <1>4 DEF ConfirmExecution, ConfirmationFails, DeleteRows, eventVars
<1> QED  BY <1>1, <1>2, <1>3, <1>4 DEF Moves

(* A create stores one row, of an id that was never used.                   *)
LEMMA CreatesRow ==
    ASSUME ~IdReuse, ServiceTypeOK, NEW c \in Clients, NEW t \in Task,
           CreateTaken(c, t) \/ CreateForLater(c, t) \/ CreateUnanswered(c, t)
    PROVE  /\ t.id \in Ids /\ row[t.id] = Nil /\ t.id \notin created
           /\ \A id \in Ids : row'[id] = IF id = t.id THEN t.execTime ELSE row[id]
           /\ created' = created \cup {t.id} /\ done' = done \ {t.id}
           /\ unanswered \subseteq unanswered' /\ UNCHANGED <<fatal, confirming>>
           /\ UNCHANGED <<canceledTasks, cancelling>>
<1>1. /\ row[t.id] = Nil /\ t.id \notin created /\ row' = [row EXCEPT ![t.id] = t.execTime]
      /\ created' = created \cup {t.id} /\ done' = done \ {t.id}
      /\ unanswered \subseteq unanswered' /\ UNCHANGED <<fatal, confirming>>
      /\ UNCHANGED <<canceledTasks, cancelling>>
  BY DEF CreateTaken, CreateForLater, CreateUnanswered, Commit, Insert, senderVars, eventVars, memory
<1>2. t.id \in Ids
  BY DEF Task
<1> QED  BY <1>1, <1>2 DEF ServiceTypeOK

(* Cancellations stay final in the whole system.                            *)
LEMMA HookCancelsStep ==
    ~IdReuse /\ HookTypeOK /\ CancelsAreFinal /\ [HookNext]_hookVars => CancelsAreFinal'
<1> SUFFICES ASSUME ~IdReuse, HookTypeOK, CancelsAreFinal, [HookNext]_hookVars
             PROVE  CancelsAreFinal'
  OBVIOUS
<1>t. ServiceTypeOK /\ Elements(canceledTasks) \subseteq Ids /\ cancelling \in [Clients -> Ids \cup {Nil}]
  BY DEF HookTypeOK, ServiceTypeOK, Elements
<1>1. ASSUME [Step]_serviceVars PROVE CancelsAreFinal'
  BY <1>1, <1>t, CancelsStep
<1>2. ASSUME NEW c \in Clients, NEW t \in Task,
             CreateTaken(c, t) \/ CreateForLater(c, t) \/ CreateUnanswered(c, t)
      PROVE  CancelsAreFinal'
  BY <1>2, <1>t, CreatesRow DEF CancelsAreFinal
<1>3. CASE UNCHANGED <<canceledTasks, cancelling>> /\ Moves
  BY <1>3, <1>t, MovesRows DEF CancelsAreFinal
<1>4. CASE Restart
  <2>1. Elements(<<>>) = {}
    BY DEF Elements
  <2> QED  BY <1>4, <2>1 DEF Restart, CancelsAreFinal
<1>5. CASE \/ WaitingLoop \/ Consumes \/ TimePasses \/ ReadTasks \/ PreloaderFails
           \/ UNCHANGED hookVars \/ \E c \in Clients : Push(c)
           \/ \E c \in Clients, id \in Ids : Cancel(c, id)
           \/ \E t \in Task : HandOver(t) \/ GiveAgain(t) \/ Rollback(t) \/ Confirm(t)
  BY <1>1, <1>5 DEF WaitingLoop, Consumes, TimePasses, ReadTasks, PreloaderFails, hookVars, Push,
      Cancel, GiveAgain, Rollback, Confirm, HandOver, Step
<1>6. CASE \/ \E c \in Clients, id \in Ids : CancelUnanswered(c, id)
           \/ \E batch \in Batches : ConfirmExecution(batch) \/ ConfirmationFails(batch)
  BY <1>3, <1>6 DEF Moves, CancelUnanswered, ConfirmExecution, ConfirmationFails, memory
<1> QED  BY <1>2, <1>4, <1>5, <1>6 DEF HookNext

LEMMA CopiesAreCreatedStep ==
    ~IdReuse /\ HookTypeOK /\ HookTypeOK' /\ NoReuse /\ [HookNext]_hookVars => CopiesAreCreated'
<1> SUFFICES ASSUME ~IdReuse, HookTypeOK, HookTypeOK', NoReuse, [HookNext]_hookVars,
                    NEW t \in Task, Copies(t)' > 0
             PROVE  t.id \in created' /\ row'[t.id] \in {Nil, t.execTime}
  BY DEF CopiesAreCreated
<1>t. ServiceTypeOK /\ t.id \in Ids
  BY DEF HookTypeOK, Task
<1>n. Copies(t) \in Nat /\ Copies(t)' \in Nat
  BY CopiesCounted, CopiesCountedNext DEF CopiesByService
<1>1. ASSUME NEW c \in Clients, NEW x \in Task,
             CreateTaken(c, x) \/ CreateForLater(c, x) \/ CreateUnanswered(c, x)
      PROVE  t.id \in created' /\ row'[t.id] \in {Nil, t.execTime}
  <2>1. CASE t = x
    BY <1>1, <2>1, <1>t, CreatesRow
  <2>2. CASE t # x
    <3>1. Copies(t) > 0
      BY <1>1, <2>2, CreatesCopies
    <3>2. t.id \in created /\ row[t.id] \in {Nil, t.execTime}
      BY <3>1 DEF NoReuse, CopiesAreCreated
    <3> QED  BY <1>1, <1>t, <3>2, CreatesRow
  <2> QED  BY <2>1, <2>2
<1>2. CASE Moves
  <2>1. Copies(t)' <= Copies(t)
    BY <1>2, CopiesMove DEF Moved
  <2>2. Copies(t) > 0
    BY <1>n, <2>1
  <2>3. t.id \in created /\ row[t.id] \in {Nil, t.execTime}
    BY <2>2 DEF NoReuse, CopiesAreCreated
  <2> QED  BY <1>2, <1>t, <2>3, MovesRows
<1>3. CASE Restart
  <2>1. t \in StoredTasks
    BY <1>3, RestartCopies DEF One
  <2>2. row[t.id] = t.execTime /\ row[t.id] # Nil
    BY <2>1 DEF StoredTasks, Stored, TaskOf
  <2>3. t.id \in created
    BY <1>t, <2>2 DEF NoReuse, CancelsAreFinal
  <2> QED  BY <1>3, <2>2, <2>3 DEF Restart
<1> QED  BY <1>1, <1>2, <1>3, HookSteps

(* A task with something left to confirm has a copy.                        *)
LEMMA HeldIsCopy ==
    ASSUME HookTypeOK, NEW t \in Task, given[t] > 0 \/ confirming[t] > 0
    PROVE  Copies(t) > 0
<1>1. given[t] \in Nat /\ rolledBack[t] \in Nat /\ confirming[t] \in Nat
  BY DEF HookTypeOK, ServicesTypeOK
<1>2. /\ Pushing(t) \in Nat /\ InLoop(t) \in Nat
      /\ Copies(t) = Pushing(t) + One(t \in unread) + One(t \in reading) + InLoop(t)
                     + given[t] + rolledBack[t] + confirming[t]
  BY CopiesCounted DEF CopiesByService
<1> QED  BY <1>1, <1>2 DEF One

(* The ids of a batch are done with.                                        *)
LEMMA BatchIsDone ==
    ASSUME DoneIsKnown, NEW batch \in Batches
    PROVE  IdsOf(batch) \subseteq done
BY BatchType DEF DoneIsKnown, IdsOf

LEMMA DoneIsKnownStep ==
    ~IdReuse /\ HookTypeOK /\ HookTypeOK' /\ NoReuse /\ [HookNext]_hookVars => DoneIsKnown'
<1> SUFFICES ASSUME ~IdReuse, HookTypeOK, HookTypeOK', NoReuse, [HookNext]_hookVars
             PROVE  DoneIsKnown'
  OBVIOUS
<1>t. ServiceTypeOK /\ ServicesTypeOK /\ created \subseteq Ids /\ DoneIsKnown
  BY DEF HookTypeOK, ServiceTypeOK, NoReuse
<1>i. \A t \in Task : t.id \in Ids
  BY DEF Task
<1>1. ASSUME NEW c \in Clients, NEW x \in Task,
             CreateTaken(c, x) \/ CreateForLater(c, x) \/ CreateUnanswered(c, x)
      PROVE  DoneIsKnown'
  <2>1. /\ row[x.id] = Nil /\ x.id \notin created /\ x.execTime # Nil
        /\ \A id \in Ids : row'[id] = IF id = x.id THEN x.execTime ELSE row[id]
        /\ created' = created \cup {x.id} /\ done' = done \ {x.id} /\ UNCHANGED confirming
    BY <1>1, <1>t, CreatesRow DEF Task
  <2>2. x.id \notin done /\ done' = done
    BY <1>t, <2>1 DEF DoneIsKnown
  <2> QED  BY <1>t, <1>i, <2>1, <2>2 DEF DoneIsKnown
<1>2. CASE Quiet
  <2>1. UNCHANGED <<row, created, done>>
    BY <1>2, QuietSteps
  <2>2. UNCHANGED confirming
    BY <1>2 DEF Quiet, WaitingLoop, ReadTasks, Consumes, TimePasses, hookVars, Push, HandOver, PushRead,
        GiveAgain, Rollback, senderVars, Sender!Give, Sender!GiveAgain, Sender!Rollback
  <2> QED  BY <1>t, <2>1, <2>2 DEF DoneIsKnown
<1>3. CASE PreloaderFails
  BY <1>3, <1>t DEF PreloaderFails, serviceVars, senderVars, DoneIsKnown
<1>4. ASSUME NEW x \in Task, Confirm(x) PROVE DoneIsKnown'
  <2>1. given[x] > 0 /\ UNCHANGED <<row, created>>
        /\ done' = (IF row[x.id] = x.execTime THEN done \cup {x.id} ELSE done)
    BY <1>4 DEF Confirm, Sender!Confirm, serviceVars
  <2>2. x.id \in created /\ row[x.id] \in {Nil, x.execTime}
    BY <2>1, HeldIsCopy DEF NoReuse, CopiesAreCreated
  <2>3. x.id \in done'
    BY <1>t, <2>1, <2>2 DEF DoneIsKnown
  <2>4. \A t \in Task : t # x => confirming'[t] = confirming[t]
    BY <1>4, <1>t DEF Confirm, Sender!Confirm, Sender!More, ServicesTypeOK
  <2> QED  BY <1>t, <2>1, <2>2, <2>3, <2>4 DEF DoneIsKnown
<1>5. ASSUME NEW c \in Clients, NEW id \in Ids, Cancel(c, id) \/ CancelUnanswered(c, id)
      PROVE  DoneIsKnown'
  <2>1. /\ row[id] # Nil /\ row' = [row EXCEPT ![id] = Nil] /\ done' = done \cup {id}
        /\ UNCHANGED <<created, confirming>>
    BY <1>5 DEF Cancel, CancelIfExist, CancelUnanswered, senderVars
  <2>2. id \in created
    BY <2>1 DEF NoReuse, CancelsAreFinal
  <2> QED  BY <1>t, <2>1, <2>2 DEF DoneIsKnown, ServiceTypeOK
<1>6. ASSUME NEW batch \in Batches, ConfirmExecution(batch) \/ ConfirmationFails(batch)
      PROVE  DoneIsKnown'
  <2>1. UNCHANGED <<created, done>>
    BY <1>6 DEF ConfirmExecution, ConfirmationFails
  <2>2. \A id \in Ids : row'[id] = row[id] \/ id \in IdsOf(batch)
    BY <1>6 DEF ConfirmExecution, ConfirmationFails, DeleteRows
  <2>3. IdsOf(batch) \subseteq done
    BY <1>t, BatchIsDone
  <2>4. \A t \in Task : confirming'[t] > 0 => confirming[t] > 0
    BY <1>6, <1>t DEF ConfirmExecution, ConfirmationFails, Sender!Settle, ServicesTypeOK
  <2> QED  BY <1>t, <2>1, <2>2, <2>3, <2>4 DEF DoneIsKnown
<1>7. CASE Restart
  BY <1>7, <1>t DEF Restart, Sender!None, DoneIsKnown
<1> QED  BY <1>1, <1>2, <1>3, <1>4, <1>5, <1>6, <1>7, HookSteps DEF Moves

(* If no id is used twice, cancellations are final, copies are of tasks     *)
(* that were created, and what is deleted was done with.                    *)
LEMMA NoReuseHolds == ~IdReuse => (HookSpec => []NoReuse)
<1> SUFFICES ASSUME ~IdReuse PROVE HookSpec => []NoReuse
  OBVIOUS
<1>1. HookInit /\ HookTypeOK => NoReuse
  <2> SUFFICES ASSUME HookInit, HookTypeOK PROVE NoReuse
    OBVIOUS
  <2>1. CancelsAreFinal
    BY DEF HookInit, Init, CancelsAreFinal, Elements
  <2>2. DoneIsKnown
    BY DEF HookInit, Init, Sender!None, DoneIsKnown
  <2>3. \A t \in Task : Copies(t) = 0
    <3> SUFFICES ASSUME NEW t \in Task PROVE Copies(t) = 0
      OBVIOUS
    <3>1. {c \in Clients : adding[c] = t} = {}
      BY DEF HookInit, Init, Task
    <3>2. preloadedTasks = <<>> /\ tasksReadyToSend = <<>> /\ task = Nil /\ t # Nil
      BY DEF HookInit, Init, Task
    <3>3. {i \in DOMAIN <<>> : <<>>[i] = t} = {}
      OBVIOUS
    <3>4. tasksWaitingList.pq[t] = 0 /\ unread = {} /\ reading = {}
      BY DEF HookInit, Init, EmptyList
    <3>5. given[t] = 0 /\ rolledBack[t] = 0 /\ confirming[t] = 0
      BY DEF HookInit, Sender!None
    <3>6. Count(preloadedTasks, t) = 0 /\ Count(tasksReadyToSend, t) = 0
      BY <3>2, <3>3, FS_EmptySet DEF Count
    <3>7. Cardinality({c \in Clients : adding[c] = t}) = 0
      BY <3>1, FS_EmptySet
    <3> QED  BY <3>2, <3>4, <3>5, <3>6, <3>7 DEF Copies, One
  <2> QED  BY <2>1, <2>2, <2>3 DEF NoReuse, CopiesAreCreated
<1>2. HookTypeOK /\ HookTypeOK' /\ NoReuse /\ [HookNext]_hookVars => NoReuse'
  BY HookCancelsStep, CopiesAreCreatedStep, DoneIsKnownStep DEF NoReuse
<1> QED  BY <1>1, <1>2, HookTypeCorrect, PTL DEF HookSpec

-----------------------------------------------------------------------------
(* What the system promises                                                 *)

(* README.md: "The system is durable to failures": while an id is used only *)
(* once, every stored task has a copy in some service, will be read, or is  *)
(* left to the next start by LevelFatal, through any interleaving of        *)
(* callers, services, database faults and restarts.                         *)
THEOREM NoRowIsForgotten == ~IdReuse => (HookSpec => []NoRowForgotten)
<1> SUFFICES ASSUME ~IdReuse PROVE HookSpec => []NoRowForgotten
  OBVIOUS
<1>1. HookInit => NoRowForgotten
  BY DEF HookInit, Init, NoRowForgotten, Stored
<1>2. HookTypeOK /\ HookTypeOK' /\ NoReuse /\ NoRowForgotten /\ [HookNext]_hookVars
        => NoRowForgotten'
  <2> SUFFICES ASSUME HookTypeOK, HookTypeOK', NoReuse, NoRowForgotten, [HookNext]_hookVars,
                      NEW id \in Stored'
               PROVE  Copies(TaskOf(id))' > 0 \/ fatal' \/ id \in unanswered'
    BY DEF NoRowForgotten
  <2>t. ServiceTypeOK /\ ServiceTypeOK' /\ id \in Ids /\ row'[id] # Nil
    BY DEF HookTypeOK, Stored
  <2>p. TaskOf(id)' \in Task
    BY <2>t DEF ServiceTypeOK, Task, TaskOf
  <2>m. PICK me \in Task : me = TaskOf(id)'
    BY <2>p
  <2>e. me.id = id /\ me.execTime = row'[id] /\ me = [id |-> id, execTime |-> row'[id]]
    BY <2>m DEF TaskOf
  <2>c. Copies(TaskOf(id))' = Copies(me)'
    BY <2>m DEF Copies
  <2> DEFINE Kept == Copies(me)' > 0 \/ fatal' \/ id \in unanswered'
  <2> SUFFICES Kept
    BY <2>c
  <2>u. ASSUME row[id] = row'[id]
        PROVE  Copies(me) > 0 \/ fatal \/ id \in unanswered
    <3>1. id \in Stored /\ TaskOf(id) = me
      BY <2>t, <2>e, <2>u DEF Stored, TaskOf
    <3>2. Copies(TaskOf(id)) > 0 \/ fatal \/ id \in unanswered
      BY <3>1 DEF NoRowForgotten
    <3> QED  BY <3>1, <3>2
  <2>1. ASSUME NEW c \in Clients, NEW x \in Task,
               CreateTaken(c, x) \/ CreateForLater(c, x) \/ CreateUnanswered(c, x)
        PROVE  Kept
    <3>1. /\ row'[id] = (IF id = x.id THEN x.execTime ELSE row[id])
          /\ unanswered \subseteq unanswered' /\ UNCHANGED fatal
      BY <2>1, <2>t, CreatesRow
    <3>2. CASE id = x.id
      <4>1. x = me
        BY <2>e, <3>1, <3>2 DEF Task
      <4>2. CASE CreateTaken(c, x) \/ CreateForLater(c, x)
        BY <4>1, <4>2, CreatesCopies
      <4>3. CASE CreateUnanswered(c, x)
        BY <3>2, <4>3 DEF CreateUnanswered
      <4> QED  BY <2>1, <4>2, <4>3
    <3>3. CASE id # x.id
      <4>1. me # x
        BY <2>e, <3>3
      <4>2. Copies(me)' = Copies(me)
        BY <2>1, <4>1, CreatesCopies
      <4>3. Copies(me) > 0 \/ fatal \/ id \in unanswered
        BY <2>u, <3>1, <3>3
      <4> QED  BY <3>1, <4>2, <4>3
    <3> QED  BY <3>2, <3>3
  <2>2. CASE Moves
    <3>1. row'[id] = row[id] /\ unanswered \subseteq unanswered' /\ (fatal => fatal')
      BY <2>2, <2>t, MovesRows
    <3>2. Copies(me) > 0 \/ fatal \/ id \in unanswered
      BY <2>u, <3>1
    <3>3. id \notin Elements(canceledTasks)
      BY <2>t, <3>1 DEF NoReuse, CancelsAreFinal
    <3>4. Moved(me)
      BY <2>2, CopiesMove
    <3>5. Copies(me) > 0 => Copies(me)' > 0 \/ fatal'
      BY <2>e, <3>3, <3>4 DEF Moved
    <3> QED  BY <3>1, <3>2, <3>5, Zenon
  <2>3. CASE Restart
    <3>1. UNCHANGED row
      BY <2>3 DEF Restart
    <3>2. me \in StoredTasks
      BY <2>t, <2>e, <3>1 DEF StoredTasks, Stored, TaskOf
    <3>3. Copies(me)' = 1
      BY <2>3, <3>2, RestartCopies DEF One
    <3>4. Copies(me)' > 0
      BY <3>3
    <3> QED  BY <3>4, Zenon
  <2> HIDE DEF Kept
  <2> QED  BY <2>1, <2>2, <2>3, HookSteps
<1> QED  BY <1>1, <1>2, HookTypeCorrect, NoReuseHolds, PTL DEF HookSpec

(* While an id is used only once, one instance never holds more than two    *)
(* copies of a task: its creator's and the one a worker of the preloader    *)
(* reads, through any number of rollbacks, cancellations and faults.        *)
THEOREM CopiesAreBounded == ~IdReuse => (HookSpec => []AtMostTwoCopies)
<1> SUFFICES ASSUME ~IdReuse PROVE HookSpec => []AtMostTwoCopies
  OBVIOUS
<1>1. HookInit /\ HookTypeOK /\ NoReuse => AtMostTwoCopies
  <2> SUFFICES ASSUME HookInit, HookTypeOK, NoReuse, NEW t \in Task PROVE Copies(t) <= 2
    BY DEF AtMostTwoCopies
  <2>1. ~(Copies(t) > 0) /\ Copies(t) \in Nat
    BY CopiesCounted DEF NoReuse, CopiesAreCreated, HookInit, Init, CopiesByService
  <2> QED  BY <2>1
<1>2. HookTypeOK /\ HookTypeOK' /\ NoReuse /\ AtMostTwoCopies /\ [HookNext]_hookVars
        => AtMostTwoCopies'
  <2> SUFFICES ASSUME HookTypeOK, HookTypeOK', NoReuse, AtMostTwoCopies, [HookNext]_hookVars,
                      NEW t \in Task
               PROVE  Copies(t)' <= 2
    BY DEF AtMostTwoCopies
  <2>n. Copies(t) \in Nat /\ Copies(t)' \in Nat /\ Copies(t) <= 2
    BY CopiesCounted, CopiesCountedNext DEF CopiesByService, AtMostTwoCopies
  <2>1. ASSUME NEW c \in Clients, NEW x \in Task,
               CreateTaken(c, x) \/ CreateForLater(c, x) \/ CreateUnanswered(c, x)
        PROVE  Copies(t)' <= 2
    <3>1. CASE t = x
      <4>1. ~(Copies(t) > 0)
        BY <2>1, <3>1, CreatesRow DEF HookTypeOK, NoReuse, CopiesAreCreated
      <4>2. Copies(t)' <= Copies(t) + 2
        BY <2>1, CreatesCopies
      <4> QED  BY <2>n, <4>1, <4>2
    <3>2. CASE t # x
      BY <2>1, <2>n, <3>2, CreatesCopies
    <3> QED  BY <3>1, <3>2
  <2>2. CASE Moves
    <3>1. Copies(t)' <= Copies(t)
      BY <2>2, CopiesMove DEF Moved
    <3> QED  BY <2>n, <3>1
  <2>3. CASE Restart
    BY <2>3, RestartCopies DEF One
  <2> QED  BY <2>1, <2>2, <2>3, HookSteps
<1> QED  BY <1>1, <1>2, HookTypeCorrect, NoReuseHolds, PTL DEF HookSpec

(* What an application may rely on: the services, their faults and their    *)
(* restarts implement a table from which only cancelled or completed tasks  *)
(* disappear, while an id is used only once.                                *)
THEOREM ServicesAreDurable == ~IdReuse => (HookSpec => ImplementsDeliverySpec)
<1> SUFFICES ASSUME ~IdReuse PROVE HookSpec => ImplementsDeliverySpec
  OBVIOUS
<1>1. HookInit => Delivery!Init
  BY DEF HookInit, Init, Delivery!Init
<1>2. HookTypeOK /\ NoReuse /\ [HookNext]_hookVars => [Delivery!Next]_<<row, done>>
  <2> SUFFICES ASSUME HookTypeOK, NoReuse, [HookNext]_hookVars
               PROVE  Delivery!Next \/ UNCHANGED <<row, done>>
    OBVIOUS
  <2>t. ServiceTypeOK /\ DoneIsKnown
    BY DEF HookTypeOK, NoReuse
  <2>1. ASSUME NEW c \in Clients, NEW t \in Task,
               CreateTaken(c, t) \/ CreateForLater(c, t) \/ CreateUnanswered(c, t)
        PROVE  Delivery!Next
    <3>1. t.id \in Ids /\ t.execTime \in ExecTimes
      BY DEF Task
    <3>2. Delivery!Create(t.id, t.execTime)
      BY <2>1 DEF CreateTaken, CreateForLater, CreateUnanswered, Commit, Insert, Delivery!Create
    <3> QED  BY <3>1, <3>2 DEF Delivery!Next
  <2>2. ASSUME NEW c \in Clients, NEW id \in Ids, Cancel(c, id) \/ CancelUnanswered(c, id)
        PROVE  Delivery!Next
    <3>1. Delivery!Cancel(id)
      BY <2>2 DEF Cancel, CancelIfExist, CancelUnanswered, Delivery!Cancel
    <3> QED  BY <3>1 DEF Delivery!Next
  <2>3. ASSUME NEW t \in Task, Confirm(t) PROVE Delivery!Next \/ UNCHANGED <<row, done>>
    <3>1. t.id \in Ids /\ t.execTime # Nil
      BY DEF Task
    <3>2. UNCHANGED row /\ done' = (IF row[t.id] = t.execTime THEN done \cup {t.id} ELSE done)
      BY <2>3 DEF Confirm, serviceVars
    <3> QED  BY <3>1, <3>2 DEF Delivery!Next, Delivery!Complete
  <2>4. ASSUME NEW batch \in Batches, ConfirmExecution(batch) \/ ConfirmationFails(batch)
        PROVE  Delivery!Next \/ UNCHANGED <<row, done>>
    <3>1. IdsOf(batch) \subseteq done /\ IdsOf(batch) \subseteq Ids
      BY <2>t, BatchIsDone, BatchType
    <3>2. Delivery!Remove(IdsOf(batch)) \/ UNCHANGED <<row, done>>
      BY <2>4, <3>1 DEF ConfirmExecution, ConfirmationFails, DeleteRows, Delivery!Remove
    <3> QED  BY <3>1, <3>2 DEF Delivery!Next
  <2>5. CASE Quiet \/ PreloaderFails \/ Restart
    BY <2>5, QuietSteps DEF PreloaderFails, Restart, serviceVars
  <2> QED  BY <2>1, <2>2, <2>3, <2>4, <2>5, HookSteps DEF Moves
<1> QED  BY <1>1, <1>2, HookTypeCorrect, NoReuseHolds, PTL
         DEF HookSpec, ImplementsDeliverySpec, Delivery!Spec, Delivery!vars

=============================================================================
