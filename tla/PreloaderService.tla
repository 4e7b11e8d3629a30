-------------------------- MODULE PreloaderService --------------------------
(***************************************************************************)
(* preloader_service/preloader_service.go with the task manager under it   *)
(* (task_manager/task_manager.go: clamping of past times, retries).        *)
(*                                                                         *)
(* A task due soon is created as taken: its creator stores it in a         *)
(* collection of this instance and pushes it to the waiting service        *)
(* itself.  Any other task is stored in a collection nobody of this        *)
(* instance has taken; the preloader later takes every collection due      *)
(* within TimePreload in one transaction, and its workers read the         *)
(* collections one by one and push their tasks.  Nothing else hands a task *)
(* to the waiting service, so a task that joins a taken collection after   *)
(* it was read is not seen again before the next restart.                  *)
(*                                                                         *)
(* Time is in whole seconds, the unit of every comparison.  The database   *)
(* may answer any statement with a deadlock, an error, or an error after   *)
(* the statement took effect (a lost answer); MaxFaults bounds how often.  *)
(* The channel preloadedTask is modelled by its reader: a push happens     *)
(* when the waiting service has room, at any later time.                   *)
(***************************************************************************)
EXTENDS Repository

CONSTANTS
    Creators,                  \* goroutines in AddNewTask
    Deleters,                  \* goroutines in Delete: API callers, confirmation workers
    Workers,                   \* getBunchOfTask goroutines
    ExecTimes,                 \* times asked for
    TimePreload,               \* Options.TimePreload
    CoefTimePreloadOfNewTask,  \* Options.CoefTimePreloadOfNewTask
    CtxTimeout,                \* Options.CtxTimeout of the preloader
    CleaningFrequency,         \* repository Options.CleaningFrequency, > 0
    MaxRetry,                  \* task manager Options.MaxRetry
    MaxCreateDelay,            \* assumed: seconds from the decision isTaken to the insert
    MaxFaults,                 \* bound: faults of the database
    MaxInstances,              \* bound: restarts + 1
    MaxClock                   \* bound: seconds the clock counts

ASSUME TimeAssumption ==
    /\ ExecTimes \subseteq Nat
    /\ TimePreload \in Nat \ {0}
    /\ CoefTimePreloadOfNewTask \in Nat
    /\ CtxTimeout \in Nat
    /\ MaxCreateDelay \in Nat
ASSUME WorkersAssumption == Workers # {}
ASSUME CountAssumption ==
    CleaningFrequency \in Nat \ {0} /\ MaxRetry \in Nat \ {0} /\ MaxFaults \in Nat

VARIABLES
    clock,
    call,               \* creators: the running AddNewTask
    deleter,            \* deleters: the running Delete
    cleanRequestCount,  \* counter of the repository, kept modulo CleaningFrequency
    pc,                 \* where Run is
    wakeAt,             \* end of its sleep
    deadline,           \* of the context of the current round
    try,                \* of GetTasksToComplete
    pending,            \* Collections.collections: taken, not yet given to a worker
    worker,
    loads,              \* times a task was pushed to the waiting service by this instance
    accepted,           \* what Create told the caller: "no", "taken", "later"
    deleted,            \* ids whose row was deleted (ids are not used again)
    fatal,              \* a LevelFatal event was raised by this instance
    faults

clients == <<call, deleter, cleanRequestCount>>
preloader == <<pc, wakeAt, deadline, try, pending, worker>>
history == <<loads, accepted, deleted>>
vars == <<collection, lastId, taskRow, instance, clock, call, deleter, cleanRequestCount,
          pc, wakeAt, deadline, try, pending, worker, loads, accepted, deleted, fatal, faults>>

NoCall == [pc |-> "idle", id |-> Nil, execTime |-> 0, isTaken |-> FALSE, start |-> 0,
           coll |-> 0, try |-> 0]

NoDelete == [pc |-> "idle", ids |-> {}]

WorkerOff == [pc |-> "off", coll |-> 0, tasks |-> {}]

Init ==
    /\ RepositoryInit
    /\ clock = 0
    /\ call = [c \in Creators |-> NoCall]
    /\ deleter = [d \in Deleters |-> NoDelete]
    /\ cleanRequestCount = 0
    /\ pc = "find"
    /\ wakeAt = 0
    /\ deadline = CtxTimeout
    /\ try = 1
    /\ pending = {}
    /\ worker = [w \in Workers |-> WorkerOff]
    /\ loads = [id \in Ids |-> 0]
    /\ accepted = [id \in Ids |-> "no"]
    /\ deleted = {}
    /\ fatal = FALSE
    /\ faults = 0

Fault == faults < MaxFaults /\ faults' = faults + 1

Load(id) == loads' = [loads EXCEPT ![id] = @ + 1]

InCreate(c) == call[c].pc \in {"find", "insertCollection", "insertTask"}

-----------------------------------------------------------------------------
(* AddNewTask                                                               *)

(* A wrong variant: the coefficient is forgotten.                           *)
NewTaskRangeWithoutCoef == TimePreload

(* A task due sooner than this is created as taken.                         *)
NewTaskRange == TimePreload * CoefTimePreloadOfNewTask

Later(a, b) == IF a < b THEN b ELSE a

(* Decide isTaken from the time asked for; Create moves a past time to now. *)
(* (Within the bound, there is a collection id left for every create.)      *)
AddNewTask(c, id, execTime) ==
    /\ call[c].pc = "idle"
    /\ id \notin deleted
    /\ lastId + Cardinality({b \in Creators : InCreate(b)}) < MaxCollections
    /\ call' = [call EXCEPT ![c] =
                   [pc |-> "find", id |-> id, execTime |-> Later(execTime, clock),
                    isTaken |-> NewTaskRange > execTime - clock, start |-> clock,
                    coll |-> 0, try |-> 1]]
    /\ UNCHANGED <<tables, instance, clock, deleter, cleanRequestCount, preloader,
                   history, fatal, faults>>

(* The call v at another statement, with another collection and try.        *)
CallAt(v, where, k, n) ==
    [pc |-> where, id |-> v.id, execTime |-> v.execTime, isTaken |-> v.isTaken,
     start |-> v.start, coll |-> k, try |-> n]

Chosen(v, k) == CallAt(v, "insertTask", k, v.try)

Again(v) == CallAt(v, "find", 0, v.try + 1)

(* A wrong variant: no collection is inserted when none is found.           *)
CreateFindOnly(c) ==
    /\ call[c].pc = "find"
    /\ LET ks == FindCollection(call[c].execTime, call[c].isTaken)
       IN  \/ \E k \in ks : call' = [call EXCEPT ![c] = Chosen(call[c], k)]
           \/ ks = {} /\ call' = [call EXCEPT ![c] = Chosen(call[c], 0)]
    /\ UNCHANGED <<tables, instance, clock, deleter, cleanRequestCount, preloader,
                   history, fatal, faults>>

CreateFindCollection(c) ==
    /\ call[c].pc = "find"
    /\ LET ks == FindCollection(call[c].execTime, call[c].isTaken)
       IN  \/ \E k \in ks : call' = [call EXCEPT ![c] = Chosen(call[c], k)]
           \/ ks = {} /\ call' = [call EXCEPT ![c].pc = "insertCollection"]
    /\ UNCHANGED <<tables, instance, clock, deleter, cleanRequestCount, preloader,
                   history, fatal, faults>>

CreateInsertCollection(c) ==
    /\ call[c].pc = "insertCollection"
    /\ InsertCollection(call[c].execTime, call[c].isTaken)
    /\ call' = [call EXCEPT ![c] = Chosen(call[c], lastId + 1)]
    /\ UNCHANGED <<taskRow, instance, clock, deleter, cleanRequestCount, preloader,
                   history, fatal, faults>>

(* The row is in: Create succeeds, and a taken task has still to be pushed. *)
CreateInsertTask(c) ==
    /\ call[c].pc = "insertTask"
    /\ InsertTask(call[c].id, call[c].coll)
    /\ accepted' = [accepted EXCEPT ![call[c].id] = IF call[c].isTaken THEN "taken" ELSE "later"]
    /\ call' = IF call[c].isTaken
               THEN [call EXCEPT ![c].pc = "push"]
               ELSE [call EXCEPT ![c] = NoCall]
    /\ UNCHANGED <<collection, lastId, instance, clock, deleter, cleanRequestCount,
                   preloader, loads, deleted, fatal, faults>>

(* TaskExist, or the foreign key: the collection chosen is gone.            *)
CreateInsertRefused(c) ==
    /\ call[c].pc = "insertTask"
    /\ taskRow[call[c].id] # 0 \/ ~Exists(call[c].coll)
    /\ call' = [call EXCEPT ![c] = NoCall]
    /\ UNCHANGED <<tables, instance, clock, deleter, cleanRequestCount, preloader,
                   history, fatal, faults>>

(* A deadlock: the whole procedure is called again, MaxRetry times in all.  *)
CreateDeadlock(c) ==
    /\ InCreate(c)
    /\ Fault
    /\ call' = [call EXCEPT ![c] =
                   IF call[c].try < MaxRetry THEN Again(call[c]) ELSE NoCall]
    /\ UNCHANGED <<tables, instance, clock, deleter, cleanRequestCount, preloader,
                   history, fatal>>

(* Any other error, before or after the row was inserted.                   *)
CreateFails(c) ==
    /\ InCreate(c)
    /\ Fault
    /\ \/ UNCHANGED taskRow
       \/ call[c].pc = "insertTask" /\ InsertTask(call[c].id, call[c].coll)
    /\ call' = [call EXCEPT ![c] = NoCall]
    /\ UNCHANGED <<collection, lastId, instance, clock, deleter, cleanRequestCount,
                   preloader, history, fatal>>

PushNewTask(c) ==
    /\ call[c].pc = "push"
    /\ Load(call[c].id)
    /\ call' = [call EXCEPT ![c] = NoCall]
    /\ UNCHANGED <<tables, instance, clock, deleter, cleanRequestCount, preloader,
                   accepted, deleted, fatal, faults>>

-----------------------------------------------------------------------------
(* Delete, for the API and for the confirmation of sent tasks               *)

(* Assumed of the callers: nobody deletes an id while it is being created.  *)
NobodyCreates(id) == \A c \in Creators : InCreate(c) => call[c].id # id

Delete(d, id) ==
    /\ deleter[d].pc = "idle"
    /\ NobodyCreates(id)
    /\ DeleteTask(id)
    /\ deleted' = IF taskRow[id] # 0 THEN deleted \cup {id} ELSE deleted
    /\ cleanRequestCount' = (cleanRequestCount + 1) % CleaningFrequency
    /\ deleter' = [deleter EXCEPT ![d].pc = "check"]
    /\ UNCHANGED <<collection, lastId, instance, clock, call, preloader, loads, accepted,
                   fatal, faults>>

(* An error, before or after the row was deleted.                           *)
DeleteFails(d, id) ==
    /\ deleter[d].pc = "idle"
    /\ NobodyCreates(id)
    /\ Fault
    /\ \/ UNCHANGED <<taskRow, deleted>>
       \/ /\ taskRow[id] # 0
          /\ DeleteTask(id)
          /\ deleted' = deleted \cup {id}
    /\ UNCHANGED <<collection, lastId, instance, clock, clients, preloader, loads, accepted,
                   fatal>>

(* The counter is read again: another Delete may have counted meanwhile.    *)
CheckCleaning(d) ==
    /\ deleter[d].pc = "check"
    /\ deleter' = [deleter EXCEPT ![d].pc = IF cleanRequestCount = 0 THEN "select" ELSE "idle"]
    /\ UNCHANGED <<tables, instance, clock, call, cleanRequestCount, preloader, history,
                   fatal, faults>>

SelectEmpty(d) ==
    /\ deleter[d].pc = "select"
    /\ LET ks == EmptyCollections(clock)
       IN  IF ks # {}
           THEN /\ deleter' = [deleter EXCEPT ![d] = [pc |-> "delete", ids |-> ks]]
                /\ UNCHANGED cleanRequestCount
           ELSE /\ deleter' = [deleter EXCEPT ![d] = NoDelete]
                /\ cleanRequestCount' = 0
    /\ UNCHANGED <<tables, instance, clock, call, preloader, history, fatal, faults>>

(* Whatever the statement answers, the counter starts again.                *)
DeleteEmpty(d) ==
    /\ deleter[d].pc = "delete"
    /\ \/ DeleteCollections(deleter[d].ids)
       \/ ~(\A k \in deleter[d].ids : TasksOf(k) = {}) /\ UNCHANGED collection
    /\ deleter' = [deleter EXCEPT ![d] = NoDelete]
    /\ cleanRequestCount' = 0
    /\ UNCHANGED <<lastId, taskRow, instance, clock, call, preloader, history, fatal, faults>>

CleaningFails(d) ==
    /\ deleter[d].pc \in {"select", "delete"}
    /\ Fault
    /\ deleter' = [deleter EXCEPT ![d] = NoDelete]
    /\ cleanRequestCount' = 0
    /\ UNCHANGED <<tables, instance, clock, call, preloader, history, fatal>>

-----------------------------------------------------------------------------
(* Run: one round finds collections, lets the workers read them and waits   *)
(* for all of them.                                                         *)

(* A round starts with a fresh context.                                     *)
StartRound ==
    /\ pc' = "find"
    /\ deadline' = clock + CtxTimeout
    /\ try' = 1

FindNothing ==
    /\ pc = "find"
    /\ clock < deadline
    /\ Due(clock + TimePreload) = {}
    /\ pc' = "sleep"
    /\ wakeAt' = clock + TimePreload
    /\ UNCHANGED <<tables, instance, clock, clients, deadline, try, pending, worker,
                   history, fatal, faults>>

Wake ==
    /\ pc = "sleep"
    /\ clock >= wakeAt
    /\ StartRound
    /\ UNCHANGED <<tables, instance, clock, clients, wakeAt, pending, worker, history,
                   fatal, faults>>

FindCollections ==
    /\ pc = "find"
    /\ clock < deadline
    /\ LET ks == Due(clock + TimePreload)
       IN  /\ ks # {}
           /\ TakeCollections(ks)
           /\ pending' = ks
    /\ pc' = "work"
    /\ worker' = [w \in Workers |-> [pc |-> "next", coll |-> 0, tasks |-> {}]]
    /\ UNCHANGED <<lastId, taskRow, instance, clock, clients, wakeAt, deadline, try,
                   history, fatal, faults>>

(* Deadlock or lock wait timeout; after the last try it is an error.        *)
FindRetry ==
    /\ pc = "find"
    /\ Fault
    /\ try < MaxRetry
    /\ try' = try + 1
    /\ UNCHANGED <<tables, instance, clock, clients, pc, wakeAt, deadline, pending, worker,
                   history, fatal>>

(* Any other error, the context's end included, raises LevelFatal and ends  *)
(* Run.  A commit whose answer was lost has taken the collections.          *)
FindFails ==
    /\ pc = "find"
    /\ \/ Fault /\ UNCHANGED collection
       \/ Fault /\ TakeCollections(Due(clock + TimePreload))
       \/ clock >= deadline /\ UNCHANGED <<collection, faults>>
    /\ pc' = "returned"
    /\ fatal' = TRUE
    /\ UNCHANGED <<lastId, taskRow, instance, clock, clients, wakeAt, deadline, try, pending,
                   worker, history>>

(* Collections.Next: take an id under the mutex ...                         *)
TakeCollectionId(w) ==
    /\ worker[w].pc = "next"
    /\ \/ \E k \in pending :
             /\ pending' = pending \ {k}
             /\ worker' = [worker EXCEPT ![w] = [pc |-> "read", coll |-> k, tasks |-> {}]]
       \/ /\ pending = {}
          /\ worker' = [worker EXCEPT ![w] = WorkerOff]
          /\ UNCHANGED pending
    /\ UNCHANGED <<tables, instance, clock, clients, pc, wakeAt, deadline, try, history,
                   fatal, faults>>

(* ... then read the collection's tasks without it.                         *)
GetTasksByCollection(w) ==
    /\ worker[w].pc = "read"
    /\ clock < deadline
    /\ LET ids == TasksOf(worker[w].coll)
       IN  worker' = [worker EXCEPT ![w] =
               [pc |-> IF ids = {} THEN "next" ELSE "push", coll |-> 0, tasks |-> ids]]
    /\ UNCHANGED <<tables, instance, clock, clients, pc, wakeAt, deadline, try, pending,
                   history, fatal, faults>>

(* A wrong variant: the worker stops without raising LevelFatal.            *)
GetTasksFailsSilently(w) ==
    /\ worker[w].pc = "read"
    /\ \/ Fault
       \/ clock >= deadline /\ UNCHANGED faults
    /\ worker' = [worker EXCEPT ![w] = WorkerOff]
    /\ UNCHANGED <<tables, instance, clock, clients, pc, wakeAt, deadline, try, pending,
                   history, fatal>>

(* The id is gone from Collections: nobody reads this collection again.     *)
GetTasksFails(w) ==
    /\ worker[w].pc = "read"
    /\ \/ Fault
       \/ clock >= deadline /\ UNCHANGED faults
    /\ worker' = [worker EXCEPT ![w] = WorkerOff]
    /\ fatal' = TRUE
    /\ UNCHANGED <<tables, instance, clock, clients, pc, wakeAt, deadline, try, pending,
                   history>>

PushTask(w) ==
    /\ worker[w].pc = "push"
    /\ \E id \in worker[w].tasks :
          /\ Load(id)
          /\ worker' = [worker EXCEPT ![w] =
                 [pc |-> IF @.tasks = {id} THEN "next" ELSE "push", coll |-> 0,
                  tasks |-> @.tasks \ {id}]]
    /\ UNCHANGED <<tables, instance, clock, clients, pc, wakeAt, deadline, try, pending,
                   accepted, deleted, fatal, faults>>

(* wg.Wait: ids no worker took (all workers failed) are forgotten.          *)
EndRound ==
    /\ pc = "work"
    /\ \A w \in Workers : worker[w].pc = "off"
    /\ StartRound
    /\ pending' = {}
    /\ UNCHANGED <<tables, instance, clock, clients, wakeAt, worker, history, fatal, faults>>

Preload ==
    \/ FindNothing \/ Wake \/ FindCollections \/ EndRound
    \/ (clock >= deadline /\ FindFails)

Work(w) ==
    \/ TakeCollectionId(w) \/ GetTasksByCollection(w) \/ PushTask(w)
    \/ (clock >= deadline /\ GetTasksFails(w))

-----------------------------------------------------------------------------

(* The application stops at any point and starts again: memory is lost, the *)
(* new process has a new appInstanceId.                                     *)
Restart ==
    /\ instance < MaxInstances
    /\ instance' = instance + 1
    /\ call' = [c \in Creators |-> NoCall]
    /\ deleter' = [d \in Deleters |-> NoDelete]
    /\ cleanRequestCount' = 0
    /\ StartRound
    /\ wakeAt' = 0
    /\ pending' = {}
    /\ worker' = [w \in Workers |-> WorkerOff]
    /\ loads' = [id \in Ids |-> 0]
    /\ fatal' = FALSE
    /\ UNCHANGED <<tables, clock, accepted, deleted, faults>>

(* A second passes; no create takes longer than MaxCreateDelay.             *)
Tick ==
    /\ clock < MaxClock
    /\ \A c \in Creators : InCreate(c) => clock < call[c].start + MaxCreateDelay
    /\ clock' = clock + 1
    /\ UNCHANGED <<tables, instance, clients, preloader, history, fatal, faults>>

Create(c) ==
    \/ CreateFindCollection(c) \/ CreateInsertCollection(c) \/ CreateInsertTask(c)
    \/ CreateInsertRefused(c) \/ PushNewTask(c)

Clean(d) == CheckCleaning(d) \/ SelectEmpty(d) \/ DeleteEmpty(d)

Next ==
    \/ \E c \in Creators :
          \/ \E id \in Ids, e \in ExecTimes : AddNewTask(c, id, e)
          \/ Create(c)
          \/ CreateDeadlock(c)
          \/ CreateFails(c)
    \/ \E d \in Deleters :
          \/ \E id \in Ids : Delete(d, id) \/ DeleteFails(d, id)
          \/ Clean(d)
          \/ CleaningFails(d)
    \/ FindNothing \/ Wake \/ FindCollections \/ FindRetry \/ FindFails \/ EndRound
    \/ \E w \in Workers :
          TakeCollectionId(w) \/ GetTasksByCollection(w) \/ GetTasksFails(w) \/ PushTask(w)
    \/ Restart
    \/ Tick

(* Goroutines run, the waiting service keeps reading its channel, the       *)
(* database answers, time passes.                                           *)
Fairness ==
    /\ WF_vars(Preload)
    /\ \A w \in Workers : WF_vars(Work(w))
    /\ \A c \in Creators : WF_vars(Create(c))
    /\ WF_vars(Tick)

Spec == Init /\ [][Next]_vars /\ Fairness

-----------------------------------------------------------------------------
(* Properties                                                               *)

Call ==
    [pc : {"idle", "find", "insertCollection", "insertTask", "push"},
     id : Ids \cup {Nil}, execTime : Nat, isTaken : BOOLEAN, start : Nat,
     coll : 0..MaxCollections, try : 0..MaxRetry]

CreatorsTypeOK ==
    /\ clock \in Nat
    /\ call \in [Creators -> Call]
    /\ \A c \in Creators : call[c].pc # "idle" => call[c].id \in Ids
    /\ \A c \in Creators : call[c].pc = "insertTask" => call[c].coll \in CollectionIds

DeletersTypeOK ==
    /\ deleter \in [Deleters -> [pc : {"idle", "check", "select", "delete"},
                                 ids : SUBSET CollectionIds]]
    /\ cleanRequestCount \in 0..(CleaningFrequency - 1)

WorkerState ==
    [pc : {"off", "next", "read", "push"}, coll : 0..MaxCollections, tasks : SUBSET Ids]

RunTypeOK ==
    /\ pc \in {"find", "sleep", "work", "returned"}
    /\ wakeAt \in Nat /\ deadline \in Nat /\ try \in 1..MaxRetry
    /\ pending \subseteq CollectionIds
    /\ worker \in [Workers -> WorkerState]

HistoryTypeOK ==
    /\ loads \in [Ids -> Nat]
    /\ accepted \in [Ids -> {"no", "taken", "later"}]
    /\ deleted \subseteq Ids
    /\ fatal \in BOOLEAN
    /\ faults \in 0..MaxFaults

(* Types; a running create knows its task, and its collection once it       *)
(* inserts; no key above the last auto-increment value has a row.           *)
TypeOK ==
    RepositoryTypeOK /\ CreatorsTypeOK /\ DeletersTypeOK /\ RunTypeOK /\ HistoryTypeOK

(* Somebody of this instance has the task or will read its collection.      *)
InHand(id) ==
    \/ loads[id] > 0
    \/ \E c \in Creators : call[c].pc = "push" /\ call[c].id = id
    \/ taskRow[id] \in pending
    \/ \E w \in Workers : \/ worker[w].pc = "read" /\ worker[w].coll = taskRow[id]
                          \/ id \in worker[w].tasks

Stranded(id) ==
    /\ accepted[id] # "no"
    /\ taskRow[id] # 0
    /\ Exists(taskRow[id])
    /\ collection[taskRow[id]].takenBy = instance
    /\ ~InHand(id)

(* A task the caller was told is created never sits in a collection this    *)
(* instance has taken and will not read again, unless a LevelFatal event    *)
(* was raised.                                                              *)
NoStrandedTask == \A id \in Ids : Stranded(id) => fatal

(* The same without the way out: what the README promises.                  *)
EveryTaskHasALoader == \A id \in Ids : ~Stranded(id)

(* The cleaning of empty collections never deletes the collection a create  *)
(* has chosen and not yet used.                                             *)
ChosenCollectionSurvives ==
    \A c \in Creators : call[c].pc = "insertTask" => Exists(call[c].coll)

(* A created task is loaded unless it is deleted or the preloader stops.    *)
EveryTaskLoaded ==
    \A id \in Ids : accepted[id] # "no" ~> loads[id] > 0 \/ taskRow[id] = 0 \/ fatal

(* Somebody of this instance will still read the task's collection.         *)
Unread(id) ==
    LET k == taskRow[id]
    IN  /\ k # 0
        /\ \/ collection[k].takenBy # instance
           \/ k \in pending
           \/ \E w \in Workers : worker[w].pc = "read" /\ worker[w].coll = k

(* The statements, rounds and collections do what PreloaderSpec says: a     *)
(* stored task is its creator's to push or still to be read, it is not read *)
(* twice (so handed over at most twice, once by its creator), and it is let *)
(* go only with LevelFatal.                                                 *)
Promise ==
    INSTANCE PreloaderSpec WITH
        Tasks    <- Ids,
        rows     <- {id \in Ids : taskRow[id] # 0},
        unread   <- {id \in Ids : Unread(id)},
        creating <- {call[c].id : c \in {b \in Creators : call[b].pc = "push"}},
        reading  <- UNION {worker[w].tasks : w \in Workers}

ImplementsPreloaderSpec == Promise!Spec

=============================================================================
