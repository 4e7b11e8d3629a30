--------------------------- MODULE WaitingService ---------------------------
(***************************************************************************)
(* waiting_service/waiting_service.go: the goroutine that keeps preloaded  *)
(* tasks until their time, and CancelIfExist, which API callers run in     *)
(* their own goroutines.                                                   *)
(*                                                                         *)
(* The loop holds one task outside the list (the earliest), sleeps on a    *)
(* timer for it and is woken by the preloaded channel or by the channel of *)
(* cancellations.  A due task is sent with a blocking send, during which   *)
(* the loop reads neither channel.                                         *)
(*                                                                         *)
(* The clock counts half seconds so that time.Now().Unix(), which drops    *)
(* the fraction, is modelled as the truncation it is.                      *)
(*                                                                         *)
(* Outside the component and modelled by what it sees of them: the task    *)
(* manager's rows, the callers that commit a task and then push it to the  *)
(* preloaded channel (AddNewTask), the preloader's workers, which may push *)
(* the same task a second time (see PreloaderSpec), the consumer.  A task  *)
(* that only a worker pushes is, for the loop, one pushed late.            *)
(***************************************************************************)
EXTENDS PrioritizedTaskList, Sequences

CONSTANTS
    Clients,                \* goroutines that call the API
    GreedyProcessingLimit,  \* Options.GreedyProcessingLimit
    IdReuse,                \* may a client create an id again once it was deleted?
    MaxClock                \* bound: half seconds the clock counts

ASSUME GreedyAssumption == GreedyProcessingLimit \in Nat \ {0}
ASSUME IdReuseAssumption == IdReuse \in BOOLEAN
ASSUME NilIdAssumption == Nil \notin Ids
ASSUME MaxClockAssumption == MaxClock \in Nat

VARIABLES
    preloadedTasks,    \* channel of tasks, from the preloader
    canceledTasks,     \* channel of ids, from CancelIfExist
    tasksReadyToSend,  \* channel of tasks, to the sender
    tasksWaitingList,  \* the prioritized list
    task,              \* the loop's local: the earliest task, taken off the list
    timer,             \* when the timer of the current select fires
    pc,                \* where the loop is
    greedy,            \* the counter of the greedy loops
    clock,             \* half seconds
    row,               \* rows of the task table: the committed time of an id
    created,           \* ids that were ever committed
    adding,            \* task each client has committed and has still to push
    cancelling,        \* id each client has deleted and has still to push
    sent,              \* tasks the consumer took (history)
    unread,            \* stored tasks that a worker of the preloader will read
    reading            \* tasks that workers have read and have still to push

serviceVars == <<preloadedTasks, canceledTasks, tasksReadyToSend, tasksWaitingList, task,
                 timer, pc, greedy, clock, row, created, adding, cancelling, sent>>

preloaderVars == <<unread, reading>>

vars == <<serviceVars, preloaderVars>>

loopVars == <<tasksWaitingList, task, timer, pc, greedy>>
clientVars == <<row, created, adding, cancelling>>

(* Every channel is made with room for one element.                         *)
ChanCap == 1

HasRoom(ch) == Len(ch) < ChanCap

TicksPerSecond == 2

Unix == clock \div TicksPerSecond

TaskOf(id) == [id |-> id, execTime |-> row[id]]

One(b) == IF b THEN 1 ELSE 0

Init ==
    /\ preloadedTasks = <<>>
    /\ canceledTasks = <<>>
    /\ tasksReadyToSend = <<>>
    /\ tasksWaitingList = EmptyList
    /\ task = Nil
    /\ timer = 0
    /\ pc = "take"
    /\ greedy = 0
    /\ clock = 0
    /\ row = [id \in Ids |-> Nil]
    /\ created = {}
    /\ adding = [c \in Clients |-> Nil]
    /\ cancelling = [c \in Clients |-> Nil]
    /\ sent = {}
    /\ unread = {}
    /\ reading = {}

-----------------------------------------------------------------------------
(* The loop of Run                                                          *)

(* A wrong variant: the sleep ends a second too soon.                       *)
SleepOneSecondShort(t) == (t.execTime - 1 - Unix) * TicksPerSecond

(* A wrong variant: the timer is never armed for a held task.               *)
SleepForever(t) == MaxClock + 1

(* How long to sleep for t, in clock ticks: whole seconds, so a sleep that  *)
(* starts in the middle of a second ends in the middle of one.              *)
Sleep(t) == (t.execTime - Unix) * TicksPerSecond

(* The list is empty: sleep until something arrives (the timer of 2^63-1    *)
(* nanoseconds never fires).                                                *)
TakeNothing ==
    /\ pc = "take"
    /\ IsEmpty(tasksWaitingList)
    /\ pc' = "select"
    /\ UNCHANGED <<preloadedTasks, canceledTasks, tasksReadyToSend, tasksWaitingList,
                   task, timer, greedy, clock, clientVars, sent>>

(* Take the earliest task; arm a timer if it is not due.                    *)
TakeTask ==
    /\ pc = "take"
    /\ \E t \in Firsts(tasksWaitingList) :
          /\ tasksWaitingList' = Take(tasksWaitingList, t)
          /\ task' = t
          /\ \/ /\ Sleep(t) > 0
                /\ timer' = clock + Sleep(t)
                /\ pc' = "select"
             \/ /\ Sleep(t) <= 0
                /\ timer' = 0
                /\ pc' = "send"
    /\ UNCHANGED <<preloadedTasks, canceledTasks, tasksReadyToSend, greedy, clock,
                   clientVars, sent>>

TimerFires ==
    /\ pc = "select"
    /\ task # Nil
    /\ clock >= timer
    /\ pc' = "send"
    /\ timer' = 0
    /\ UNCHANGED <<preloadedTasks, canceledTasks, tasksReadyToSend, tasksWaitingList,
                   task, greedy, clock, clientVars, sent>>

PutBack(l) == IF task = Nil THEN l ELSE Add(l, task)

(* A wrong variant: the held task is not put back when a new one arrives.   *)
KeepWaitingForHeldTask ==
    /\ pc = "select"
    /\ preloadedTasks # <<>>
    /\ tasksWaitingList' = Add(tasksWaitingList, Head(preloadedTasks))
    /\ preloadedTasks' = Tail(preloadedTasks)
    /\ pc' = IF task = Nil THEN "take" ELSE "select"
    /\ UNCHANGED <<canceledTasks, tasksReadyToSend, task, timer, greedy, clock,
                   clientVars, sent>>

(* Woken by a preloaded task: put the held task back, add the new one.      *)
ReceivePreloaded ==
    /\ pc = "select"
    /\ preloadedTasks # <<>>
    /\ tasksWaitingList' = Add(PutBack(tasksWaitingList), Head(preloadedTasks))
    /\ preloadedTasks' = Tail(preloadedTasks)
    /\ task' = Nil
    /\ timer' = 0
    /\ greedy' = 0
    /\ pc' = "greedyAdd"
    /\ UNCHANGED <<canceledTasks, tasksReadyToSend, clock, clientVars, sent>>

GreedyAdd ==
    /\ pc = "greedyAdd"
    /\ greedy < GreedyProcessingLimit
    /\ preloadedTasks # <<>>
    /\ tasksWaitingList' = Add(tasksWaitingList, Head(preloadedTasks))
    /\ preloadedTasks' = Tail(preloadedTasks)
    /\ greedy' = greedy + 1
    /\ UNCHANGED <<canceledTasks, tasksReadyToSend, task, timer, pc, clock, clientVars, sent>>

(* Limit reached, or the select's default: nothing more in the channel.     *)
GreedyAddEnds ==
    /\ pc = "greedyAdd"
    /\ greedy = GreedyProcessingLimit \/ preloadedTasks = <<>>
    /\ pc' = "take"
    /\ greedy' = 0
    /\ UNCHANGED <<preloadedTasks, canceledTasks, tasksReadyToSend, tasksWaitingList,
                   task, timer, clock, clientVars, sent>>

(* A wrong variant: the held task is dropped whichever id is cancelled.     *)
DropHeldTaskOnAnyCancel ==
    /\ pc = "select"
    /\ canceledTasks # <<>>
    /\ tasksWaitingList' = DeleteIfExist(tasksWaitingList, Head(canceledTasks))
    /\ canceledTasks' = Tail(canceledTasks)
    /\ task' = Nil
    /\ timer' = 0
    /\ greedy' = 0
    /\ pc' = "greedyCancel"
    /\ UNCHANGED <<preloadedTasks, tasksReadyToSend, clock, clientVars, sent>>

(* Woken by a cancellation: put the held task back unless it is the         *)
(* cancelled one, then delete the id from the list.                         *)
ReceiveCanceled ==
    /\ pc = "select"
    /\ canceledTasks # <<>>
    /\ LET id   == Head(canceledTasks)
           kept == IF task # Nil /\ task.id # id
                   THEN Add(tasksWaitingList, task)
                   ELSE tasksWaitingList
       IN  tasksWaitingList' = DeleteIfExist(kept, id)
    /\ canceledTasks' = Tail(canceledTasks)
    /\ task' = Nil
    /\ timer' = 0
    /\ greedy' = 0
    /\ pc' = "greedyCancel"
    /\ UNCHANGED <<preloadedTasks, tasksReadyToSend, clock, clientVars, sent>>

(* A wrong variant: the greedy loop reads an id and forgets it.             *)
GreedyCancelWithoutDelete ==
    /\ pc = "greedyCancel"
    /\ greedy < GreedyProcessingLimit
    /\ canceledTasks # <<>>
    /\ canceledTasks' = Tail(canceledTasks)
    /\ greedy' = greedy + 1
    /\ UNCHANGED <<preloadedTasks, tasksReadyToSend, tasksWaitingList, task, timer, pc,
                   clock, clientVars, sent>>

GreedyCancel ==
    /\ pc = "greedyCancel"
    /\ greedy < GreedyProcessingLimit
    /\ canceledTasks # <<>>
    /\ tasksWaitingList' = DeleteIfExist(tasksWaitingList, Head(canceledTasks))
    /\ canceledTasks' = Tail(canceledTasks)
    /\ greedy' = greedy + 1
    /\ UNCHANGED <<preloadedTasks, tasksReadyToSend, task, timer, pc, clock, clientVars, sent>>

(* A wrong variant: the greedy loop has no default, it waits until the      *)
(* limit is reached.                                                        *)
GreedyCancelWithoutDefault ==
    /\ pc = "greedyCancel"
    /\ greedy = GreedyProcessingLimit
    /\ pc' = "take"
    /\ greedy' = 0
    /\ UNCHANGED <<preloadedTasks, canceledTasks, tasksReadyToSend, tasksWaitingList,
                   task, timer, clock, clientVars, sent>>

GreedyCancelEnds ==
    /\ pc = "greedyCancel"
    /\ greedy = GreedyProcessingLimit \/ canceledTasks = <<>>
    /\ pc' = "take"
    /\ greedy' = 0
    /\ UNCHANGED <<preloadedTasks, canceledTasks, tasksReadyToSend, tasksWaitingList,
                   task, timer, clock, clientVars, sent>>

(* The blocking send of a due task.                                         *)
SendReady ==
    /\ pc = "send"
    /\ HasRoom(tasksReadyToSend)
    /\ tasksReadyToSend' = Append(tasksReadyToSend, task)
    /\ task' = Nil
    /\ pc' = "take"
    /\ UNCHANGED <<preloadedTasks, canceledTasks, tasksWaitingList, timer, greedy, clock,
                   clientVars, sent>>

(* The loop and its callers leave unread and reading to Next.               *)
Run ==
    \/ TakeNothing \/ TakeTask \/ TimerFires \/ SendReady
    \/ ReceivePreloaded \/ GreedyAdd \/ GreedyAddEnds
    \/ ReceiveCanceled \/ GreedyCancel \/ GreedyCancelEnds

-----------------------------------------------------------------------------
(* Callers                                                                  *)

Idle(c) == adding[c] = Nil /\ cancelling[c] = Nil

(* CancelIfExist, first part: taskManager.Delete found the row.  When it    *)
(* did not, CancelIfExist returns its error and nothing changes.            *)
CancelIfExist(c, id) ==
    /\ Idle(c)
    /\ row[id] # Nil
    /\ row' = [row EXCEPT ![id] = Nil]
    /\ cancelling' = [cancelling EXCEPT ![c] = id]
    /\ UNCHANGED <<preloadedTasks, canceledTasks, tasksReadyToSend, loopVars, clock,
                   created, adding, sent>>

(* CancelIfExist, second part: the blocking send of the id.                 *)
PushCanceled(c) ==
    /\ cancelling[c] # Nil
    /\ HasRoom(canceledTasks)
    /\ canceledTasks' = Append(canceledTasks, cancelling[c])
    /\ cancelling' = [cancelling EXCEPT ![c] = Nil]
    /\ UNCHANGED <<preloadedTasks, tasksReadyToSend, loopVars, clock, row, created,
                   adding, sent>>

(* Outside: a task is committed with a time not in the past (the task       *)
(* manager moves earlier times to now) under an id that has no row ...      *)
Commit(c, t) ==
    /\ Idle(c)
    /\ row[t.id] = Nil
    /\ IdReuse \/ t.id \notin created
    /\ t.execTime >= Unix
    /\ row' = [row EXCEPT ![t.id] = t.execTime]
    /\ created' = created \cup {t.id}
    /\ adding' = [adding EXCEPT ![c] = t]
    /\ UNCHANGED <<preloadedTasks, canceledTasks, tasksReadyToSend, loopVars, clock,
                   cancelling, sent>>

(* ... and later pushed to the preloaded channel.                           *)
PushPreloaded(c) ==
    /\ adding[c] # Nil
    /\ HasRoom(preloadedTasks)
    /\ preloadedTasks' = Append(preloadedTasks, adding[c])
    /\ adding' = [adding EXCEPT ![c] = Nil]
    /\ UNCHANGED <<canceledTasks, tasksReadyToSend, loopVars, clock, row, created,
                   cancelling, sent>>

(* Outside: a worker of the preloader pushes a task it has read.            *)
PushRead(t) ==
    /\ HasRoom(preloadedTasks)
    /\ preloadedTasks' = Append(preloadedTasks, t)
    /\ UNCHANGED <<canceledTasks, tasksReadyToSend, loopVars, clock, clientVars, sent>>

(* Outside: the sender's Consume takes a ready task.                        *)
Consume ==
    /\ tasksReadyToSend # <<>>
    /\ sent' = sent \cup {Head(tasksReadyToSend)}
    /\ tasksReadyToSend' = Tail(tasksReadyToSend)
    /\ UNCHANGED <<preloadedTasks, canceledTasks, loopVars, clock, clientVars>>

Tick ==
    /\ clock < MaxClock
    /\ clock' = clock + 1
    /\ UNCHANGED <<preloadedTasks, canceledTasks, tasksReadyToSend, loopVars, clientVars, sent>>

-----------------------------------------------------------------------------
(* The service among the others                                             *)

(* A task that its creator will push may join a collection that a worker    *)
(* has still to read.                                                       *)
CommitTask(c, t) ==
    /\ Commit(c, t)
    /\ unread' \in {unread, unread \cup {t}}
    /\ UNCHANGED reading

CancelTask(c, id) ==
    /\ CancelIfExist(c, id)
    /\ unread' = unread \ {TaskOf(id)}
    /\ UNCHANGED reading

(* A collection is read once, so a worker reads a task once at most.        *)
ReadAgain(t) ==
    /\ t \in unread
    /\ unread' = unread \ {t}
    /\ reading' = reading \cup {t}
    /\ UNCHANGED serviceVars

PushAgain(t) ==
    /\ t \in reading
    /\ PushRead(t)
    /\ reading' = reading \ {t}
    /\ UNCHANGED unread

PushOwn(c) == (PushPreloaded(c) \/ PushCanceled(c)) /\ UNCHANGED preloaderVars

Next ==
    \/ Run /\ UNCHANGED preloaderVars
    \/ \E c \in Clients :
          \/ \E t \in Task : CommitTask(c, t)
          \/ \E id \in Ids : CancelTask(c, id)
          \/ PushOwn(c)
    \/ \E t \in Task : ReadAgain(t) \/ PushAgain(t)
    \/ (Consume \/ Tick) /\ UNCHANGED preloaderVars

(* The goroutine scheduler runs every runnable goroutine, the application   *)
(* keeps consuming, time passes; nobody is obliged to call the API.         *)
Fairness ==
    /\ WF_vars(Run /\ UNCHANGED preloaderVars)
    /\ WF_vars(Consume /\ UNCHANGED preloaderVars)
    /\ WF_vars(Tick /\ UNCHANGED preloaderVars)
    /\ \A c \in Clients : WF_vars(PushOwn(c))
    /\ \A t \in Task : WF_vars(PushAgain(t))

Spec == Init /\ [][Next]_vars /\ Fairness

-----------------------------------------------------------------------------
(* Properties                                                               *)

Elements(ch) == {ch[i] : i \in DOMAIN ch}

(* The types of what the service keeps and of its callers.                  *)
ServiceTypeOK ==
    /\ preloadedTasks \in Seq(Task) /\ Len(preloadedTasks) <= ChanCap
    /\ canceledTasks \in Seq(Ids) /\ Len(canceledTasks) <= ChanCap
    /\ tasksReadyToSend \in Seq(Task) /\ Len(tasksReadyToSend) <= ChanCap
    /\ tasksWaitingList \in TaskList
    /\ IndexIsLive(tasksWaitingList)
    /\ task \in Task \cup {Nil}
    /\ timer \in Nat
    /\ pc \in {"take", "select", "greedyAdd", "greedyCancel", "send"}
    /\ pc = "send" => task # Nil
    /\ pc \notin {"select", "send"} => task = Nil
    /\ greedy \in 0..GreedyProcessingLimit
    /\ clock \in Nat
    /\ row \in [Ids -> ExecTimes \cup {Nil}]
    /\ created \subseteq Ids
    /\ adding \in [Clients -> Task \cup {Nil}]
    /\ cancelling \in [Clients -> Ids \cup {Nil}]
    /\ sent \subseteq Task

(* Types; channels stay within their capacity, the index of the list has no *)
(* dangling entry, the loop releases only when it holds a task.             *)
TypeOK == ServiceTypeOK /\ unread \subseteq Task /\ reading \subseteq Task

(* No task is released before its second begins, although the loop computes *)
(* its sleep from a truncated clock and never looks at the clock again      *)
(* after the timer fired.                                                   *)
NeverEarly ==
    /\ pc = "select" /\ task # Nil => timer >= TicksPerSecond * task.execTime
    /\ pc = "send" => clock >= TicksPerSecond * task.execTime
    /\ \A t \in Elements(tasksReadyToSend) \cup sent : clock >= TicksPerSecond * t.execTime

(* While the loop waits for a task or releases it, nothing in the list is   *)
(* due earlier: tasks leave in the order of their times.                    *)
EarliestFirst ==
    task # Nil => \A u \in Task : Has(tasksWaitingList, u) => task.execTime <= u.execTime

(* Where a committed task can be on its way to the consumer.                *)
OnItsWay(t) ==
    \/ \E c \in Clients : adding[c] = t
    \/ t \in Elements(preloadedTasks)
    \/ Has(tasksWaitingList, t)
    \/ task = t
    \/ t \in Elements(tasksReadyToSend)
    \/ t \in sent

(* A task whose row was committed and not deleted is never dropped on its   *)
(* way, whatever is preloaded or cancelled around it (the loop takes it off *)
(* the list and puts it back many times).                                   *)
NothingLost ==
    \A id \in Ids : row[id] # Nil => OnItsWay(TaskOf(id))

(* How many copies of t the loop has: those in the list and the one it      *)
(* holds.                                                                   *)
Held(t) == tasksWaitingList.pq[t] + One(task = t)

Released(t) == t \in Elements(tasksReadyToSend) \cup sent

(* When the loop takes a cancellation from the channel it gives up a copy   *)
(* of the task, the held one or one of the list, and none of another task.  *)
(* "Searches for a task and deletes it" says more than the code does: a     *)
(* copy that a worker has pushed too may stay, since the index knows one of *)
(* them, after a release perhaps none; and so does a copy that the loop has *)
(* not received yet.                                                        *)
CancelRemovesCopy ==
    [][canceledTasks' # canceledTasks /\ canceledTasks # <<>> =>
         \A t \in Task :
             IF t.id = Head(canceledTasks)
             THEN Held(t) > 0 /\ ~Released(t) => Held(t)' < Held(t)
             ELSE Held(t)' = Held(t)]_vars

(* A committed task is released to the consumer unless it is deleted first. *)
EveryTaskReleased ==
    \A id \in Ids : row[id] # Nil ~> row[id] = Nil \/ TaskOf(id) \in sent

(* No API caller and no worker of the preloader stays blocked on the loop's *)
(* channels, although the loop stops reading them whenever it sends.        *)
CallersReturn ==
    /\ \A c \in Clients : ~Idle(c) ~> Idle(c)
    /\ reading # {} ~> reading = {}

=============================================================================
