----------------------------- MODULE TriggerHook -----------------------------
(***************************************************************************)
(* The services as builder.go wires them and trigger_hook.go runs them:    *)
(* the waiting service's loop is WaitingService's, step by step; the       *)
(* preloader and the sender are what PreloaderSpec and SenderSpec promise  *)
(* of them (PreloaderService and SenderService implement these); between   *)
(* them the task table, whose rows outlive the process.                    *)
(*                                                                         *)
(* A task in memory is a copy of its row.  Copies can outlive the row      *)
(* (a cancellation does not search the sender), the row can outlive its    *)
(* copies (a crash).  The repository finds a row by id alone.              *)
(***************************************************************************)
EXTENDS WaitingService, FiniteSets, Integers

CONSTANTS
    MaxFaults,   \* bound: failures of the database
    MaxCrashes   \* bound: restarts nothing asked for

ASSUME HookBoundsAssumption == MaxFaults \in Nat /\ MaxCrashes \in Nat

VARIABLES
    given, rolledBack, confirming,  \* the sender: see SenderSpec
    all,         \* the metric All: how many tasks the service believes to be stored
    unanswered,  \* ids of calls to this instance that failed after their effect
    fatal,       \* this instance raised LevelFatal
    done,        \* ids whose stored task was confirmed or cancelled (history)
    faults, crashes

senderVars == <<given, rolledBack, confirming>>
eventVars == <<unanswered, fatal, faults, crashes>>
memory == <<preloadedTasks, canceledTasks, tasksReadyToSend, loopVars, adding, cancelling>>
hookVars == <<serviceVars, preloaderVars, senderVars, all, done, eventVars>>

Stored == {id \in Ids : row[id] # Nil}

StoredTasks == {TaskOf(id) : id \in Stored}

Count(ch, t) == Cardinality({i \in DOMAIN ch : ch[i] = t})

(* How many copies of t this instance holds or will still read.             *)
Copies(t) ==
    Cardinality({c \in Clients : adding[c] = t}) + One(t \in unread) + One(t \in reading)
    + Count(preloadedTasks, t) + tasksWaitingList.pq[t] + One(task = t)
    + Count(tasksReadyToSend, t) + given[t] + rolledBack[t] + confirming[t]

Preloader ==
    INSTANCE PreloaderSpec WITH
        Tasks <- Task, rows <- StoredTasks, loads <- [t \in Task |-> Copies(t)],
        creating <- {adding[c] : c \in Clients} \ {Nil}

Sender ==
    INSTANCE SenderSpec WITH
        Tasks <- Task, row <- StoredTasks,
        ready <- [t \in Task |-> Count(tasksReadyToSend, t)]

HookInit ==
    /\ Init
    /\ given = Sender!None /\ rolledBack = Sender!None /\ confirming = Sender!None
    /\ all = 0
    /\ unanswered = {}
    /\ fatal = FALSE
    /\ done = {}
    /\ faults = 0 /\ crashes = 0

Fault == faults < MaxFaults /\ faults' = faults + 1

-----------------------------------------------------------------------------
(* The API.  A statement and the update of the metric All that follows it   *)
(* in the same call are one step.                                           *)

(* CreateCtx of a task that is due soon: its creator has still to push it.  *)
CreateTaken(c, t) ==
    /\ Commit(c, t)
    /\ Preloader!StoreAsTaken(t)
    /\ all' = all + 1
    /\ done' = done \ {t.id}
    /\ UNCHANGED <<senderVars, eventVars>>

(* What Commit is for a task nobody pushes.                                 *)
Insert(c, t) ==
    /\ Idle(c)
    /\ row[t.id] = Nil
    /\ IdReuse \/ t.id \notin created
    /\ t.execTime >= Unix
    /\ row' = [row EXCEPT ![t.id] = t.execTime]
    /\ created' = created \cup {t.id}
    /\ done' = done \ {t.id}
    /\ UNCHANGED <<memory, clock, sent, senderVars>>

(* CreateCtx of a task that the preloader will find in the database.        *)
CreateForLater(c, t) ==
    /\ Insert(c, t)
    /\ Preloader!StoreForLater(t)
    /\ all' = all + 1
    /\ UNCHANGED eventVars

(* The row is stored and the caller gets an error: nobody pushes the task,  *)
(* and the metric does not count it.                                        *)
CreateUnanswered(c, t) ==
    /\ Fault
    /\ Insert(c, t)
    /\ Preloader!StoreAsTaken(t)
    /\ unanswered' = unanswered \cup {t.id}
    /\ UNCHANGED <<all, fatal, crashes>>

(* DeleteCtx of a stored id, first part.                                    *)
Cancel(c, id) ==
    /\ CancelIfExist(c, id)
    /\ Preloader!RowDeleted(TaskOf(id))
    /\ all' = all - 1
    /\ done' = done \cup {id}
    /\ UNCHANGED <<senderVars, eventVars>>

(* The row is deleted and the caller gets an error: the id is not pushed.   *)
CancelUnanswered(c, id) ==
    /\ Idle(c)
    /\ row[id] # Nil
    /\ Fault
    /\ row' = [row EXCEPT ![id] = Nil]
    /\ Preloader!RowDeleted(TaskOf(id))
    /\ done' = done \cup {id}
    /\ unanswered' = unanswered \cup {id}
    /\ UNCHANGED <<memory, clock, created, sent, senderVars, all, fatal, crashes>>

(* The blocking sends that end CreateCtx and DeleteCtx.                     *)
Push(c) ==
    /\ PushPreloaded(c) \/ PushCanceled(c)
    /\ UNCHANGED <<preloaderVars, senderVars, all, done, eventVars>>

Consumes ==
    /\ Consume
    /\ Sender!Give(Head(tasksReadyToSend))
    /\ UNCHANGED <<preloaderVars, all, done, eventVars>>

-----------------------------------------------------------------------------
(* The services                                                             *)

WaitingLoop ==
    /\ Run
    /\ UNCHANGED <<preloaderVars, senderVars, all, done, eventVars>>

ReadTasks ==
    /\ \E ts \in (SUBSET unread) \ {{}} : Preloader!Read(ts)
    /\ UNCHANGED <<serviceVars, senderVars, all, done, eventVars>>

(* A wrong variant: a worker pushes a task and keeps it.                    *)
HandOverTwice(t) ==
    /\ t \in reading
    /\ PushRead(t)
    /\ UNCHANGED <<preloaderVars, senderVars, all, done, eventVars>>

(* A worker of the preloader pushes a task it has read.                     *)
HandOver(t) ==
    /\ Preloader!HandOver(t)
    /\ PushRead(t)
    /\ UNCHANGED <<senderVars, all, done, eventVars>>

GiveAgain(t) ==
    /\ Sender!GiveAgain(t)
    /\ UNCHANGED <<serviceVars, preloaderVars, all, done, eventVars>>

(* A wrong variant: what was rolled back goes to the confirmations.         *)
RollbackConfirms(t) ==
    /\ Sender!Confirm(t)
    /\ UNCHANGED <<serviceVars, preloaderVars, all, done, eventVars>>

Rollback(t) ==
    /\ Sender!Rollback(t)
    /\ UNCHANGED <<serviceVars, preloaderVars, all, done, eventVars>>

(* The consumer has done the task.                                          *)
Confirm(t) ==
    /\ Sender!Confirm(t)
    /\ done' = IF row[t.id] = t.execTime THEN done \cup {t.id} ELSE done
    /\ UNCHANGED <<serviceVars, preloaderVars, all, eventVars>>

IdsOf(batch) == {t.id : t \in batch}

(* DELETE ... WHERE uuid IN ...: the time is not part of the key.           *)
DeleteRows(ids) ==
    /\ row' = [id \in Ids |-> IF id \in ids THEN Nil ELSE row[id]]
    /\ unread' = {t \in unread : t.id \notin ids}

(* A wrong variant: the metric counts the tasks asked for.                  *)
CountedAsked(batch) == Cardinality(batch)

(* How many rows the statement deletes.                                     *)
Affected(batch) == Cardinality(IdsOf(batch) \cap Stored)

ConfirmExecution(batch) ==
    /\ Sender!Settle(batch)
    /\ DeleteRows(IdsOf(batch))
    /\ all' = all - Affected(batch)
    /\ UNCHANGED <<memory, clock, created, sent, reading, done, eventVars>>

(* A wrong variant: the failure of a confirmation is only logged.           *)
ConfirmationFailsSilently(batch) ==
    /\ Fault
    /\ Sender!Settle(batch)
    /\ UNCHANGED <<serviceVars, preloaderVars, all, done, unanswered, fatal, crashes>>

(* An error, before or after the rows were deleted: the batch is dropped.   *)
ConfirmationFails(batch) ==
    /\ Fault
    /\ Sender!Settle(batch)
    /\ DeleteRows(IdsOf(batch)) \/ UNCHANGED <<row, unread>>
    /\ fatal' = TRUE
    /\ UNCHANGED <<memory, clock, created, sent, reading, all, done, unanswered, crashes>>

(* The preloader fails and lets go of what it had taken.                    *)
PreloaderFails ==
    /\ Fault
    /\ Preloader!Lose
    /\ fatal' = TRUE
    /\ UNCHANGED <<serviceVars, senderVars, all, done, unanswered, crashes>>

(* The process ends - at any point, or because LevelFatal made Run return - *)
(* and is built again: task_manager.New counts the rows.                    *)
Restart ==
    /\ \/ fatal /\ UNCHANGED crashes
       \/ crashes < MaxCrashes /\ crashes' = crashes + 1
    /\ preloadedTasks' = <<>> /\ canceledTasks' = <<>> /\ tasksReadyToSend' = <<>>
    /\ tasksWaitingList' = EmptyList
    /\ task' = Nil /\ timer' = 0 /\ pc' = "take" /\ greedy' = 0
    /\ adding' = [c \in Clients |-> Nil]
    /\ cancelling' = [c \in Clients |-> Nil]
    /\ Preloader!StartAgain(StoredTasks)
    /\ given' = Sender!None /\ rolledBack' = Sender!None /\ confirming' = Sender!None
    /\ all' = Cardinality(Stored)
    /\ unanswered' = {}
    /\ fatal' = FALSE
    /\ UNCHANGED <<clock, row, created, sent, done, faults>>

TimePasses ==
    /\ Tick
    /\ UNCHANGED <<preloaderVars, senderVars, all, done, eventVars>>

Batches == (SUBSET {t \in Task : confirming[t] > 0}) \ {{}}

HookNext ==
    \/ \E c \in Clients :
          \/ \E t \in Task : CreateTaken(c, t) \/ CreateForLater(c, t) \/ CreateUnanswered(c, t)
          \/ \E id \in Ids : Cancel(c, id) \/ CancelUnanswered(c, id)
          \/ Push(c)
    \/ WaitingLoop \/ ReadTasks \/ Consumes
    \/ \E t \in Task : HandOver(t) \/ GiveAgain(t) \/ Rollback(t) \/ Confirm(t)
    \/ \E batch \in Batches : ConfirmExecution(batch) \/ ConfirmationFails(batch)
    \/ PreloaderFails \/ Restart \/ TimePasses

(* As in the components, and: the preloader reads what is stored            *)
(* (EveryTaskLoaded), the sender gives again and confirms                   *)
(* (RolledBackIsRedelivered, ConfirmedIsDeleted); a task that is given      *)
(* again and again is confirmed at last; LevelFatal has a handler and its   *)
(* event is not dropped by a full queue, so that Run returns and the        *)
(* application is started again.                                            *)
HookFairness ==
    /\ WF_hookVars(WaitingLoop) /\ WF_hookVars(TimePasses) /\ WF_hookVars(Consumes)
    /\ WF_hookVars(ReadTasks) /\ WF_hookVars(fatal /\ Restart)
    /\ \A c \in Clients : WF_hookVars(Push(c))
    /\ \A t \in Task :
          WF_hookVars(HandOver(t)) /\ WF_hookVars(GiveAgain(t)) /\ SF_hookVars(Confirm(t))
    /\ WF_hookVars(\E batch \in Batches : ConfirmExecution(batch))

HookSpec == HookInit /\ [][HookNext]_hookVars /\ HookFairness

-----------------------------------------------------------------------------
(* Properties                                                               *)

(* Every stored task has a copy in some service or will be read, or the     *)
(* service is about to end with LevelFatal.  The one exception is a task    *)
(* whose create was answered with an error.                                 *)
NoRowForgotten ==
    \A id \in Stored : Copies(TaskOf(id)) > 0 \/ fatal \/ id \in unanswered

(* One instance holds at most two copies of a task (its creator's and a     *)
(* worker's), so it executes it at most twice unless it is rolled back.     *)
AtMostTwoCopies == \A t \in Task : Copies(t) <= 2

(* The metric All counts the rows, although rows are deleted by callers and *)
(* by confirmations, some of them twice; only calls that failed after their *)
(* effect make it wrong, until the next start.                              *)
AllCountsRows == unanswered = {} /\ ~fatal => all = Cardinality(Stored)

(* A stored task is executed or cancelled, through faults and restarts:     *)
(* README.md: "The system is durable to failures".                          *)
EveryTaskExecuted ==
    \A id \in Ids, e \in ExecTimes :
        row[id] = e /\ id \notin unanswered ~> row[id] # e

(* Only a completed task leaves the database, unless it is cancelled:       *)
(* README.md: "The system is durable to failures".                          *)
Delivery == INSTANCE DeliverySpec

ImplementsDeliverySpec == Delivery!Spec

=============================================================================
