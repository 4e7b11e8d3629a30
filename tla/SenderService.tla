---------------------------- MODULE SenderService ----------------------------
(***************************************************************************)
(* sender_service/sender_service.go and task_queue.go: how ready tasks     *)
(* reach the consumers of the application, and how the confirmed ones are  *)
(* deleted from the database in batches.                                   *)
(*                                                                         *)
(*   tasksReadyToSend --+                                                  *)
(*                      +--> Consume --Confirm--> tasksToConfirm --+       *)
(*   buffer.Out --------+       |                                  |       *)
(*       ^                   Rollback                       generateBatch  *)
(*       +---- buffer <---------+                                  |       *)
(*             DELETE <-- confirmation workers <-- batches <-- queue       *)
(*                                                                         *)
(* A consumer holds a *taskToSend that came from a sync.Pool and goes back *)
(* to it inside Confirm or Rollback, so the consumer may still have the    *)
(* pointer while another consumer works with the object.  Confirm and      *)
(* Rollback test isProcessed, set it and send: three steps, as they read   *)
(* and write the object without a lock.                                    *)
(*                                                                         *)
(* The README's example calls Confirm after a Rollback; the tests call one *)
(* of the two.  ConfirmAfterRollback says which of them the consumers do.  *)
(***************************************************************************)
EXTENDS Integers, Sequences, FiniteSets

CONSTANTS
    Tasks,
    Nil,
    Consumers,             \* goroutines that call Consume
    Objects,               \* taskToSend objects
    Workers,               \* confirmation goroutines
    BatchMaxItems,         \* Options.BatchMaxItems
    ConfirmAfterRollback,  \* do the consumers follow the README's example?
    MaxFaults              \* bound: errors of ConfirmExecution

ASSUME BatchAssumption == BatchMaxItems \in Nat \ {0}
ASSUME UsageAssumption == ConfirmAfterRollback \in BOOLEAN
ASSUME FaultsAssumption == MaxFaults \in Nat
ASSUME NilAssumption == Nil \notin Tasks \cup Objects

VARIABLES
    ready,           \* tasks the waiting service has still to hand over
    pool,            \* taskToSendPool: how many times an object is in it
    obj,             \* isProcessed and task of the objects
    consumer,
    bufferIn, bufferList, bufferOut,  \* the buffer of rolled back tasks
    tasksToConfirm,  \* channel
    generator,       \* first goroutine of generateBatch
    queue,           \* batchTaskQueue
    updateQueue,     \* channel of tokens: how many are in it
    dispatcher,      \* second goroutine of generateBatch
    batches,         \* channel
    worker,
    waitingForConfirmation,  \* the metric
    row,             \* tasks that are in the database
    failed,          \* tasks whose confirmation failed: LevelFatal was raised
    completed,       \* tasks some consumer executed successfully (history)
    faults

objects == <<pool, obj>>
buffer == <<bufferIn, bufferList, bufferOut>>
batching == <<generator, queue, updateQueue, dispatcher, batches, worker,
              waitingForConfirmation, row, failed, faults>>
vars == <<ready, pool, obj, consumer, bufferIn, bufferList, bufferOut, tasksToConfirm,
          generator, queue, updateQueue, dispatcher, batches, worker,
          waitingForConfirmation, row, failed, completed, faults>>

(* buffer.In, buffer.Out, updateQueue and batches have room for one.        *)
ChanCap == 1

NoTask == [pc |-> "idle", obj |-> Nil, then |-> "none", task |-> Nil]

Init ==
    /\ ready = Tasks
    /\ pool = [o \in Objects |-> 0]
    /\ obj = [o \in Objects |-> [isProcessed |-> FALSE, task |-> Nil]]
    /\ consumer = [c \in Consumers |-> NoTask]
    /\ bufferIn = <<>> /\ bufferList = <<>> /\ bufferOut = <<>>
    /\ tasksToConfirm = <<>>
    /\ generator = [pc |-> "collect", batch |-> <<>>]
    /\ queue = <<>>
    /\ updateQueue = 0
    /\ dispatcher = [pc |-> "pop", batch |-> <<>>]
    /\ batches = <<>>
    /\ worker = [w \in Workers |-> [pc |-> "take", batch |-> <<>>]]
    /\ waitingForConfirmation = 0
    /\ row = Tasks
    /\ failed = {}
    /\ completed = {}
    /\ faults = 0

Elements(s) == {s[i] : i \in DOMAIN s}

-----------------------------------------------------------------------------
(* Consume                                                                  *)

(* sync.Pool.Get: an object of the pool, or New when nobody has o.  Only    *)
(* isProcessed is reset.                                                    *)
Get(c, o) ==
    /\ consumer[c].pc = "idle"
    /\ \/ /\ pool[o] > 0
          /\ pool' = [pool EXCEPT ![o] = @ - 1]
          /\ obj' = [obj EXCEPT ![o].isProcessed = FALSE]
       \/ /\ pool[o] = 0
          /\ \A d \in Consumers : consumer[d].obj # o
          /\ obj' = [obj EXCEPT ![o] = [isProcessed |-> FALSE, task |-> Nil]]
          /\ UNCHANGED pool
    /\ consumer' = [consumer EXCEPT ![c].pc = "receive", ![c].obj = o]
    /\ UNCHANGED <<ready, buffer, tasksToConfirm, batching, completed>>

ReceiveReady(c) ==
    /\ consumer[c].pc = "receive"
    /\ \E t \in ready :
          /\ ready' = ready \ {t}
          /\ obj' = [obj EXCEPT ![consumer[c].obj].task = t]
    /\ consumer' = [consumer EXCEPT ![c].pc = "work"]
    /\ UNCHANGED <<pool, buffer, tasksToConfirm, batching, completed>>

ReceiveRolledBack(c) ==
    /\ consumer[c].pc = "receive"
    /\ bufferOut # <<>>
    /\ obj' = [obj EXCEPT ![consumer[c].obj].task = Head(bufferOut)]
    /\ bufferOut' = Tail(bufferOut)
    /\ consumer' = [consumer EXCEPT ![c].pc = "work"]
    /\ UNCHANGED <<ready, pool, bufferIn, bufferList, tasksToConfirm, batching, completed>>

-----------------------------------------------------------------------------
(* The application: execute the task, then Confirm or Rollback              *)

Complete(c) ==
    /\ consumer[c].pc = "work"
    /\ completed' = completed \cup {obj[consumer[c].obj].task}
    /\ consumer' = [consumer EXCEPT ![c].pc = "check", ![c].then = "confirm"]
    /\ UNCHANGED <<ready, objects, buffer, tasksToConfirm, batching>>

Reject(c) ==
    /\ consumer[c].pc = "work"
    /\ consumer' = [consumer EXCEPT ![c].pc = "check", ![c].then = "rollback"]
    /\ UNCHANGED <<ready, objects, buffer, tasksToConfirm, batching, completed>>

(* What a consumer does when its call returns.                              *)
Returned(c) ==
    consumer' = [consumer EXCEPT ![c] =
        IF ConfirmAfterRollback /\ @.then = "rollback"
        THEN [pc |-> "check", obj |-> @.obj, then |-> "confirm", task |-> Nil]
        ELSE NoTask]

(* Confirm and Rollback: if !tts.isProcessed ...                            *)
Check(c) ==
    /\ consumer[c].pc = "check"
    /\ IF obj[consumer[c].obj].isProcessed
       THEN Returned(c)
       ELSE consumer' = [consumer EXCEPT ![c].pc = "mark"]
    /\ UNCHANGED <<ready, objects, buffer, tasksToConfirm, batching, completed>>

(* A wrong variant: the object goes back to the pool before the send.       *)
PutTooEarly(c) ==
    /\ consumer[c].pc = "mark"
    /\ obj' = [obj EXCEPT ![consumer[c].obj].isProcessed = TRUE]
    /\ consumer' = [consumer EXCEPT ![c].pc = "send", ![c].task = obj[consumer[c].obj].task]
    /\ pool' = [pool EXCEPT ![consumer[c].obj] = @ + 1]
    /\ UNCHANGED <<ready, buffer, tasksToConfirm, batching, completed>>

(* ... set it, and read the task to send.                                   *)
Mark(c) ==
    /\ consumer[c].pc = "mark"
    /\ obj' = [obj EXCEPT ![consumer[c].obj].isProcessed = TRUE]
    /\ consumer' = [consumer EXCEPT ![c].pc = "send", ![c].task = obj[consumer[c].obj].task]
    /\ UNCHANGED <<ready, pool, buffer, tasksToConfirm, batching, completed>>

Put(o) == pool' = [pool EXCEPT ![o] = @ + 1]

(* The blocking sends, and the return of the object to the pool.            *)
SendConfirm(c) ==
    /\ consumer[c].pc = "send" /\ consumer[c].then = "confirm"
    /\ Len(tasksToConfirm) < BatchMaxItems
    /\ tasksToConfirm' = Append(tasksToConfirm, consumer[c].task)
    /\ Put(consumer[c].obj)
    /\ Returned(c)
    /\ UNCHANGED <<ready, obj, buffer, batching, completed>>

(* A wrong variant: Rollback sends to the channel of confirmations.         *)
RollbackToTheWrongChannel(c) ==
    /\ consumer[c].pc = "send" /\ consumer[c].then = "rollback"
    /\ Len(tasksToConfirm) < BatchMaxItems
    /\ tasksToConfirm' = Append(tasksToConfirm, consumer[c].task)
    /\ Put(consumer[c].obj)
    /\ Returned(c)
    /\ UNCHANGED <<ready, obj, buffer, batching, completed>>

SendRollback(c) ==
    /\ consumer[c].pc = "send" /\ consumer[c].then = "rollback"
    /\ Len(bufferIn) < ChanCap
    /\ bufferIn' = Append(bufferIn, consumer[c].task)
    /\ Put(consumer[c].obj)
    /\ Returned(c)
    /\ UNCHANGED <<ready, obj, bufferList, bufferOut, tasksToConfirm, batching, completed>>

-----------------------------------------------------------------------------
(* The goroutine of the buffer                                              *)

BufferReceive ==
    /\ bufferIn # <<>>
    /\ bufferList' = Append(bufferList, Head(bufferIn))
    /\ bufferIn' = Tail(bufferIn)
    /\ UNCHANGED <<ready, objects, consumer, bufferOut, tasksToConfirm, batching, completed>>

(* A wrong variant: the sent task is not removed from the list.             *)
BufferSendKeepsFront ==
    /\ bufferList # <<>>
    /\ Len(bufferOut) < ChanCap
    /\ bufferOut' = Append(bufferOut, Head(bufferList))
    /\ UNCHANGED <<ready, objects, consumer, bufferIn, bufferList, tasksToConfirm, batching,
                   completed>>

(* A wrong variant: the buffer is a stack.                                  *)
BufferSendNewest ==
    /\ bufferList # <<>>
    /\ Len(bufferOut) < ChanCap
    /\ LET n == Len(bufferList)
       IN  /\ bufferOut' = Append(bufferOut, bufferList[n])
           /\ bufferList' = SubSeq(bufferList, 1, n - 1)
    /\ UNCHANGED <<ready, objects, consumer, bufferIn, tasksToConfirm, batching, completed>>

BufferSend ==
    /\ bufferList # <<>>
    /\ Len(bufferOut) < ChanCap
    /\ bufferOut' = Append(bufferOut, Head(bufferList))
    /\ bufferList' = Tail(bufferList)
    /\ UNCHANGED <<ready, objects, consumer, bufferIn, tasksToConfirm, batching, completed>>

-----------------------------------------------------------------------------
(* generateBatch, first goroutine                                           *)

(* A wrong variant: off by one in the size of a batch.                      *)
CollectOneTooMany ==
    /\ generator.pc = "collect"
    /\ tasksToConfirm # <<>>
    /\ LET batch == Append(generator.batch, Head(tasksToConfirm))
       IN  generator' = [pc |-> IF Len(batch) > BatchMaxItems THEN "push" ELSE "collect",
                         batch |-> batch]
    /\ tasksToConfirm' = Tail(tasksToConfirm)
    /\ UNCHANGED <<ready, objects, consumer, buffer, queue, updateQueue, dispatcher, batches,
                   worker, waitingForConfirmation, row, failed, completed, faults>>

Collect ==
    /\ generator.pc = "collect"
    /\ tasksToConfirm # <<>>
    /\ LET batch == Append(generator.batch, Head(tasksToConfirm))
       IN  generator' = [pc |-> IF Len(batch) = BatchMaxItems THEN "push" ELSE "collect",
                         batch |-> batch]
    /\ tasksToConfirm' = Tail(tasksToConfirm)
    /\ UNCHANGED <<ready, objects, consumer, buffer, queue, updateQueue, dispatcher, batches,
                   worker, waitingForConfirmation, row, failed, completed, faults>>

(* A wrong variant: a batch that is not full is never sent.                 *)
OnlyFullBatches ==
    /\ generator.pc = "collect"
    /\ Len(generator.batch) = BatchMaxItems
    /\ generator' = [generator EXCEPT !.pc = "push"]
    /\ UNCHANGED <<ready, objects, consumer, buffer, tasksToConfirm, queue, updateQueue,
                   dispatcher, batches, worker, waitingForConfirmation, row, failed,
                   completed, faults>>

(* BatchTimeout; with an empty batch the timer just starts again.           *)
BatchExpires ==
    /\ generator.pc = "collect"
    /\ generator.batch # <<>>
    /\ generator' = [generator EXCEPT !.pc = "push"]
    /\ UNCHANGED <<ready, objects, consumer, buffer, tasksToConfirm, queue, updateQueue,
                   dispatcher, batches, worker, waitingForConfirmation, row, failed,
                   completed, faults>>

PushBatch ==
    /\ generator.pc = "push"
    /\ queue' = Append(queue, generator.batch)
    /\ generator' = [generator EXCEPT !.pc = "look"]
    /\ UNCHANGED <<ready, objects, consumer, buffer, tasksToConfirm, updateQueue, dispatcher,
                   batches, worker, waitingForConfirmation, row, failed, completed, faults>>

(* A wrong variant: a token is sent only when there is one.                 *)
LookTheWrongWay ==
    /\ generator.pc = "look"
    /\ generator' = [generator EXCEPT !.pc = IF updateQueue > 0 THEN "signal" ELSE "publish"]
    /\ UNCHANGED <<ready, objects, consumer, buffer, tasksToConfirm, queue, updateQueue,
                   dispatcher, batches, worker, waitingForConfirmation, row, failed,
                   completed, faults>>

(* if len(updateQueue) == 0 ...                                             *)
LookForToken ==
    /\ generator.pc = "look"
    /\ generator' = [generator EXCEPT !.pc = IF updateQueue = 0 THEN "signal" ELSE "publish"]
    /\ UNCHANGED <<ready, objects, consumer, buffer, tasksToConfirm, queue, updateQueue,
                   dispatcher, batches, worker, waitingForConfirmation, row, failed,
                   completed, faults>>

(* ... { updateQueue <- true }                                              *)
SendToken ==
    /\ generator.pc = "signal"
    /\ updateQueue < ChanCap
    /\ updateQueue' = updateQueue + 1
    /\ generator' = [generator EXCEPT !.pc = "publish"]
    /\ UNCHANGED <<ready, objects, consumer, buffer, tasksToConfirm, queue, dispatcher,
                   batches, worker, waitingForConfirmation, row, failed, completed, faults>>

PublishBatch ==
    /\ generator.pc = "publish"
    /\ waitingForConfirmation' = waitingForConfirmation + Len(generator.batch)
    /\ generator' = [pc |-> "collect", batch |-> <<>>]
    /\ UNCHANGED <<ready, objects, consumer, buffer, tasksToConfirm, queue, updateQueue,
                   dispatcher, batches, worker, row, failed, completed, faults>>

-----------------------------------------------------------------------------
(* generateBatch, second goroutine                                          *)

Pop ==
    /\ dispatcher.pc = "pop"
    /\ \/ /\ queue # <<>>
          /\ dispatcher' = [pc |-> "send", batch |-> Head(queue)]
          /\ queue' = Tail(queue)
       \/ /\ queue = <<>>
          /\ dispatcher' = [pc |-> "wait", batch |-> <<>>]
          /\ UNCHANGED queue
    /\ UNCHANGED <<ready, objects, consumer, buffer, tasksToConfirm, generator, updateQueue,
                   batches, worker, waitingForConfirmation, row, failed, completed, faults>>

ReceiveToken ==
    /\ dispatcher.pc = "wait"
    /\ updateQueue > 0
    /\ updateQueue' = updateQueue - 1
    /\ dispatcher' = [dispatcher EXCEPT !.pc = "pop"]
    /\ UNCHANGED <<ready, objects, consumer, buffer, tasksToConfirm, generator, queue,
                   batches, worker, waitingForConfirmation, row, failed, completed, faults>>

SendBatch ==
    /\ dispatcher.pc = "send"
    /\ Len(batches) < ChanCap
    /\ batches' = Append(batches, dispatcher.batch)
    /\ dispatcher' = [pc |-> "pop", batch |-> <<>>]
    /\ UNCHANGED <<ready, objects, consumer, buffer, tasksToConfirm, generator, queue,
                   updateQueue, worker, waitingForConfirmation, row, failed, completed, faults>>

-----------------------------------------------------------------------------
(* confirmation                                                             *)

TakeBatch(w) ==
    /\ worker[w].pc = "take"
    /\ batches # <<>>
    /\ worker' = [worker EXCEPT ![w] = [pc |-> "confirm", batch |-> Head(batches)]]
    /\ batches' = Tail(batches)
    /\ UNCHANGED <<ready, objects, consumer, buffer, tasksToConfirm, generator, queue,
                   updateQueue, dispatcher, waitingForConfirmation, row, failed, completed,
                   faults>>

ConfirmExecution(w) ==
    /\ worker[w].pc = "confirm"
    /\ row' = row \ Elements(worker[w].batch)
    /\ worker' = [worker EXCEPT ![w].pc = "publish"]
    /\ UNCHANGED <<ready, objects, consumer, buffer, tasksToConfirm, generator, queue,
                   updateQueue, dispatcher, batches, waitingForConfirmation, failed,
                   completed, faults>>

(* An error of the database, before or after the rows were deleted; a       *)
(* deadlock is retried by the task manager and shows here only at the end.  *)
ConfirmationFails(w) ==
    /\ worker[w].pc = "confirm"
    /\ faults < MaxFaults
    /\ faults' = faults + 1
    /\ row' \in {row, row \ Elements(worker[w].batch)}
    /\ failed' = failed \cup Elements(worker[w].batch)
    /\ worker' = [worker EXCEPT ![w].pc = "publish"]
    /\ UNCHANGED <<ready, objects, consumer, buffer, tasksToConfirm, generator, queue,
                   updateQueue, dispatcher, batches, waitingForConfirmation, completed>>

(* A wrong variant: a failed batch stays in the metric.                     *)
PublishUnlessFailed(w) ==
    /\ worker[w].pc = "publish"
    /\ waitingForConfirmation' = IF Elements(worker[w].batch) \subseteq failed
                                 THEN waitingForConfirmation
                                 ELSE waitingForConfirmation - Len(worker[w].batch)
    /\ worker' = [worker EXCEPT ![w] = [pc |-> "take", batch |-> <<>>]]
    /\ UNCHANGED <<ready, objects, consumer, buffer, tasksToConfirm, generator, queue,
                   updateQueue, dispatcher, batches, row, failed, completed, faults>>

(* The batch leaves the metric whether or not it was confirmed.             *)
PublishConfirmed(w) ==
    /\ worker[w].pc = "publish"
    /\ waitingForConfirmation' = waitingForConfirmation - Len(worker[w].batch)
    /\ worker' = [worker EXCEPT ![w] = [pc |-> "take", batch |-> <<>>]]
    /\ UNCHANGED <<ready, objects, consumer, buffer, tasksToConfirm, generator, queue,
                   updateQueue, dispatcher, batches, row, failed, completed, faults>>

-----------------------------------------------------------------------------

Consume(c) ==
    \/ \E o \in Objects : Get(c, o)
    \/ ReceiveReady(c) \/ ReceiveRolledBack(c)

Answer(c) ==
    \/ Complete(c) \/ Reject(c)
    \/ Check(c) \/ Mark(c) \/ SendConfirm(c) \/ SendRollback(c)

Generate ==
    Collect \/ BatchExpires \/ PushBatch \/ LookForToken \/ SendToken \/ PublishBatch

Dispatch == Pop \/ ReceiveToken \/ SendBatch

Confirmation(w) == TakeBatch(w) \/ ConfirmExecution(w) \/ PublishConfirmed(w)

Next ==
    \/ \E c \in Consumers : Consume(c) \/ Answer(c)
    \/ BufferReceive \/ BufferSend
    \/ Generate
    \/ Dispatch
    \/ \E w \in Workers : Confirmation(w) \/ ConfirmationFails(w)

(* Goroutines run, timers fire, the database answers; the application keeps *)
(* consuming and answers every task it was given.                           *)
Fairness ==
    /\ \A c \in Consumers : WF_vars(Consume(c) \/ Answer(c))
    /\ WF_vars(BufferReceive) /\ WF_vars(BufferSend)
    /\ WF_vars(Generate)
    /\ WF_vars(Dispatch)
    /\ \A w \in Workers : WF_vars(Confirmation(w))

Spec == Init /\ [][Next]_vars /\ Fairness

-----------------------------------------------------------------------------
(* Properties                                                               *)

Consumer ==
    [pc : {"idle", "receive", "work", "check", "mark", "send"}, obj : Objects \cup {Nil},
     then : {"none", "confirm", "rollback"}, task : Tasks \cup {Nil}]

ConsumersTypeOK ==
    /\ pool \in [Objects -> Nat]
    /\ obj \in [Objects -> [isProcessed : BOOLEAN, task : Tasks \cup {Nil}]]
    /\ consumer \in [Consumers -> Consumer]
    /\ \A c \in Consumers :
          /\ consumer[c].obj = Nil <=> consumer[c].pc = "idle"
          /\ consumer[c].pc \in {"work", "check", "mark", "send"} =>
                obj[consumer[c].obj].task \in Tasks
          /\ consumer[c].pc = "send" => consumer[c].task \in Tasks

ChannelsTypeOK ==
    /\ bufferIn \in Seq(Tasks) /\ Len(bufferIn) <= ChanCap
    /\ bufferList \in Seq(Tasks)
    /\ bufferOut \in Seq(Tasks) /\ Len(bufferOut) <= ChanCap
    /\ tasksToConfirm \in Seq(Tasks) /\ Len(tasksToConfirm) <= BatchMaxItems
    /\ updateQueue \in 0..ChanCap
    /\ queue \in Seq(Seq(Tasks))
    /\ batches \in Seq(Seq(Tasks)) /\ Len(batches) <= ChanCap

BatchingTypeOK ==
    /\ generator \in [pc : {"collect", "push", "look", "signal", "publish"}, batch : Seq(Tasks)]
    /\ Len(generator.batch) <= BatchMaxItems
    /\ generator.pc = "collect" => Len(generator.batch) < BatchMaxItems
    /\ dispatcher \in [pc : {"pop", "wait", "send"}, batch : Seq(Tasks)]
    /\ worker \in [Workers -> [pc : {"take", "confirm", "publish"}, batch : Seq(Tasks)]]

HistoryTypeOK ==
    /\ ready \subseteq Tasks
    /\ waitingForConfirmation \in Int
    /\ row \subseteq Tasks /\ failed \subseteq Tasks /\ completed \subseteq Tasks
    /\ faults \in 0..MaxFaults

(* Types; channels and batches stay within their capacity, a consumer that  *)
(* works has an object with a task in it.                                   *)
TypeOK == ConsumersTypeOK /\ ChannelsTypeOK /\ BatchingTypeOK /\ HistoryTypeOK

Holds(c) == consumer[c].pc # "idle"

(* While a consumer has a taskToSend, no other consumer has the same object *)
(* and the pool cannot hand it out.                                         *)
ObjectsNotShared ==
    \A c \in Consumers : Holds(c) =>
        /\ pool[consumer[c].obj] = 0
        /\ \A d \in Consumers \ {c} : consumer[d].obj # consumer[c].obj

(* The consumer's task: what it was given, or what it is about to send.     *)
Working(c, t) ==
    \/ consumer[c].pc \in {"work", "check", "mark"} /\ obj[consumer[c].obj].task = t
    \/ consumer[c].pc = "send" /\ consumer[c].task = t

In(name, s, t) == {<<name, i>> : i \in {j \in DOMAIN s : s[j] = t}}

InBatches(name, f, t) == {<<name, p>> : p \in UNION {In(i, f[i], t) : i \in DOMAIN f}}

(* Where a rolled back task waits for the next Consume.                     *)
InBuffer(t) ==
    In("bufferIn", bufferIn, t) \cup In("bufferList", bufferList, t)
    \cup In("bufferOut", bufferOut, t)

Confirming == [w \in {v \in Workers : worker[v].pc = "confirm"} |-> worker[w].batch]

(* Where a confirmed task waits for its deletion.                           *)
InBatching(t) ==
    In("tasksToConfirm", tasksToConfirm, t)
    \cup (IF generator.pc \in {"collect", "push"} THEN In("generator", generator.batch, t) ELSE {})
    \cup InBatches("queue", queue, t) \cup In("dispatcher", dispatcher.batch, t)
    \cup InBatches("batches", batches, t)
    \cup InBatches("worker", Confirming, t)

InHands(t) == {c \in Consumers : Working(c, t)}

(* "Only after the task is completed, the task is deleted from the          *)
(* database": a row is gone only if a consumer executed that task.          *)
DeletedOnlyWhenCompleted == Tasks \ row \subseteq completed

(* The dispatcher never sleeps on a queue with a batch in it, unless the    *)
(* generator is about to wake it or a token is waiting.                     *)
NoLostWakeUp ==
    dispatcher.pc = "wait" /\ queue # <<>> =>
        updateQueue > 0 \/ generator.pc \in {"look", "signal"}

(* Tasks in the batches of a function.                                      *)
Count(f) == Cardinality(UNION {{<<i, j>> : j \in DOMAIN f[i]} : i \in DOMAIN f})

InFlight ==
    Count(queue) + Len(dispatcher.batch) + Count(batches)
    + Count([w \in Workers |-> worker[w].batch])

NotYetPublished ==
    IF generator.pc \in {"look", "signal", "publish"} THEN Len(generator.batch) ELSE 0

(* The metric counts the tasks that wait for their deletion, except for the *)
(* batch that was queued and is about to be published.                      *)
MetricSettles == waitingForConfirmation = InFlight - NotYetPublished

(* A confirmed task is deleted from the database, or LevelFatal was raised. *)
ConfirmedIsDeleted ==
    \A t \in Tasks : t \in Elements(tasksToConfirm) ~> t \notin row \/ t \in failed

(* A task that was rolled back is given to a consumer again.                *)
RolledBackIsRedelivered ==
    \A t \in Tasks : t \in Elements(bufferIn) ~> \E c \in Consumers : Working(c, t)

(* The pool, the buffer, the batches and their goroutines do what           *)
(* SenderSpec says: no step doubles, skips or swallows a task, and a row is *)
(* deleted only with the confirmed task it belongs to.                      *)
Promise ==
    INSTANCE SenderSpec WITH
        ready      <- [t \in Tasks |-> IF t \in ready THEN 1 ELSE 0],
        given      <- [t \in Tasks |-> Cardinality(InHands(t))],
        rolledBack <- [t \in Tasks |-> Cardinality(InBuffer(t))],
        confirming <- [t \in Tasks |-> Cardinality(InBatching(t))]

ImplementsSenderSpec == Promise!Spec

=============================================================================
