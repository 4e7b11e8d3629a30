# Verification of triggerhook

TLA+ models of `github.com/pvelx/triggerhook`, a Go library that stores deferred
tasks in MySQL and hands each one to the application in its second. TLC checks
the models on small instances, TLAPS proves the central properties for every
value of the constants. `PROJECT.json` lists the runs, the source lines behind
each definition, the hazards and the theorems.

## 1. The system

```
 CreateCtx ──> preloader.AddNewTask ──> task manager ──> repository (MySQL)
                    │ due soon                               ▲   ▲
                    ▼                                        │   │
              preloadedTask (chan, 1) <── preloader.Run ─────┘   │
                    │                      and its workers       │
                    ▼                                            │
 DeleteCtx ──> waiting service (heap, one timer) ──> DELETE ─────┤
                    │ due                                        │
                    ▼                                            │
              tasksReadyToSend (chan, 1)                         │
                    │                                            │
                    ▼                                            │
 Consume ──>  sender service ── Confirm ──> batches ──> DELETE ──┘
                    ▲    └────── Rollback ──> buffer ──┐
                    └──────────────────────────────────┘
 every goroutine ──> error service (bounded queue, Run ends on LevelFatal)
 every goroutine ──> monitoring service (metrics)
```

| component | state | operations | what makes it correct |
|---|---|---|---|
| waiting service | heap, the one task held outside it, timer, three channels of capacity 1 | `CancelIfExist` (callers), the loop of `Run` | no task early, earliest first, nothing dropped, a cancellation the loop takes removes a copy of its task and of no other, everything is released, no caller or worker is blocked for ever |
| prioritized task list | heap, index from id to heap position | `Add`, `Take`, `DeleteIfExist`, `Len` | hands out a minimum; every remembered position is right, also after an item was cut out of the middle |
| preloader service | sleep, context of the round, ids still to read | `AddNewTask` (callers), `Run`, `getBunchOfTask` (workers) | a task is either handed over by its creator or in a collection a later round takes |
| task manager | none | `Create`, `Delete`, `GetTasksToComplete`, `ConfirmExecution`, `retry` | past times move to now; retries repeat whole statements |
| repository | tables `collection` and `task`, `cleanRequestCount` | `create_task`, `Delete`, `deleteEmptyCollections`, `FindBySecToExecTime`, `Collections.Next` | a collection is taken once per instance; cleaning hurts no create |
| sender service | object pool, buffer, queue of batches, channels, one metric | `Consume`, `Confirm`, `Rollback`, three kinds of goroutines | no task lost or doubled, only completed tasks deleted, every confirmed one deleted, every rolled back one delivered again |
| error service | bounded queue, token channel | `New` (everybody), `Run` | `Run` is woken, losses are reported, a fatal event ends `Run` |
| monitoring service | metrics, subscriptions | `Init`, `Publish`, `Listen`, `Run` | a rate loses no count, subscribers end with the true values, every topic is measured for ever |
| trigger hook, builder | the services; rows that outlive them | `CreateCtx`, `DeleteCtx`, `Consume`, `Run`; start and crash | a stored task has a copy on its way, at most two; only what is completed or cancelled leaves the database; everything is executed in the end |
| contracts, connection, util, mocks, `cmd` | – | – | not modelled (types, I/O, test doubles, benchmark) |

What is hard here: every hand-over is a channel of capacity one between
goroutines that also block in other sends; the procedure `create_task` and the
cleaning of collections are several statements without a transaction; a
collection is read once per instance, so a task that misses that read waits for
a restart; `Confirm` and `Rollback` give the object the caller still holds to a
pool; token channels are updated apart from the queues they announce; database
answers are lost, contexts end, the process is killed.

## 2. Modules

| module | models |
|---|---|
| `PrioritizedTaskList` | the list as the waiting loop sees it (operators): `pq` is a bag of tasks, `index` the item `DeleteIfExist` will remove |
| `TaskListSpec` | the same list as a specification of calls and answers |
| `TaskHeap` | `task_heap.go`, `heap.go`: array, items, positions, index; the loops of `container/heap` from their use, turn by turn. Implements `TaskListSpec` |
| `WaitingService` | `waiting_service.go` |
| `Repository` | the tables and statements of `mysql_repository.go` (operators, no behaviour of its own) |
| `PreloaderService` | `preloader_service.go` and the part of the task manager under it, on `Repository`. Implements `PreloaderSpec` |
| `PreloaderSpec` | what the preloader promises the other services, without collections, statements and clock |
| `SenderService` | `sender_service.go`, `task_queue.go`. Implements `SenderSpec` |
| `SenderSpec` | what the sender promises: counted tasks that are given, rolled back, confirmed, settled |
| `ErrorService` | `error_handler.go`, `event_queue.go` |
| `Monitoring` | `monitoring_service/` |
| `TriggerHook` | `trigger_hook.go`, `builder.go`, `task_manager.New`: `WaitingService` step by step, composed with `PreloaderSpec` and `SenderSpec` over one task table. Implements `DeliverySpec` |
| `DeliverySpec` | what the application may rely on: rows leave only after completion or cancellation |
| `MC...` | the TLC instances with their symmetry sets |
| `WaitingServiceProofs`, `TaskHeapProofs`, `PreloaderServiceProofs`, `SenderServiceProofs`, `ErrorServiceProofs`, `MonitoringProofs`, `TriggerHookProofs` | the theorems about each component; `TriggerHookProofs` builds on `WaitingServiceProofs` as `TriggerHook` does on `WaitingService` |
| `Counting` | lemmas about the number of places in a sequence, in a function of sequences, and in disjoint sets of places; for the metric and the refinement of the sender and for the rates |

In each model module, definitions marked "A wrong variant" are not part of the
specification. They are plausible mistakes in one definition; `PROJECT.json`
pairs each with the property that detects it.

**WaitingService.** `pc` is the place in `Run`: `take` (lines 120-128), `select`
(129), `greedyAdd`/`greedyCancel` (143-150, 161-168), `send` (174). The clock
counts half seconds, so that `time.Now().Unix()` really drops a fraction. The
environment commits a task with a time not in the past (the task manager's
clamping), pushes it later, deletes rows, consumes. The workers of the preloader are
part of it, as `PreloaderSpec` promises them: a task that its creator pushes may be
read by a worker too (`unread`, `reading`) and pushed a second time, so that the list
holds two items under one entry of its index. A task that only a worker pushes is, for
the loop, one pushed late. The actions of the loop and of its callers leave `unread`
and `reading` to `Next`, so that `TriggerHook`, where they belong to the preloader's
specification, can use the same actions. A failed `taskManager.Delete` changes nothing
here and is not an action. `IdReuse` says whether an id may be created again after its
deletion. What a cancellation means for copies that the loop has not yet received is
left open: `CancelRemovesCopy` speaks of the list and of the task in hand, and the API
may release a task whose deletion it has reported (hazard 2 of `PROJECT.json`).

**PreloaderService.** `call[c]` is the running `AddNewTask` of a creator, with
one action per statement of `create_task`, because the procedure runs without a
transaction. `deleter[d]` is a running `Delete` (from the API or from a
confirmation): DELETE and counter, the second read of the counter, SELECT of
empty collections, DELETE of them. `pc`, `pending`, `worker[w]` are `Run`,
`Collections.collections` and the workers. `FindBySecToExecTime` is one step: a
transaction that locks the rows it reads. `toNextExecTime` is read a little
before the rows are locked; a later lock only finds fewer rows than the model,
which the next round finds. `instance` numbers the values of `appInstanceId`;
`Restart` loses all memory and takes the next number. `fatal` records that
LevelFatal was raised. `cleanRequestCount` is kept modulo `CleaningFrequency`,
the only way it is used. The channel `preloadedTask` is a step of its reader: a
push may wait for as long as it likes, which is all that the preloader sees of
it. `MaxCreateDelay` bounds the seconds between the decision `isTaken` and the
insert: nothing in the code bounds them, so it is an assumption with a name, and
the theorems say how small it has to be. `NobodyCreates` excludes a delete of an
id while it is being created.

**SenderService.** `Confirm` and `Rollback` are three steps (test
`isProcessed`; set it and read the task; send and `Put`), since nothing locks the
object. `pool[o]` counts how often an object is in the pool. `Get` either takes
an object from the pool or makes a new one; an object that nobody holds and that
is not in the pool stands for both a fresh one and one the garbage collector
removed. `ConfirmAfterRollback` chooses between consumers that answer a task
once (the tests) and consumers written like the example in the repository's
README. `ready` is the channel from the waiting service. `time.NewTimer` is
`BatchExpires`, possible whenever the batch is not empty; with an empty batch
nothing changes.

**ErrorService.** `New` is `Push` under the mutex, then the look at the token
channel, then the send. `MaxQueueCap` is at least two: with one, `t.queue[2:]`
would be out of range.

**TaskHeap.** An item is an address from `Items`; `heap.pq` is the array from 0,
`heap.item[x]` the item's task and its own position (-1 once popped), `index[id]`
the item whose position field the map of `task_heap.go` points to. `run` is the
method that holds the mutex and the variables of the loop of `container/heap` it is
in. A method begins with a step (`AddTask`, `DeleteFound`, `TakeFirst`; the
constructor is `Init`), each turn of the loops `up` and `down` is one (`Rise`,
`Sink`), and it ends with one (`AddReturns`, ...), which pops the item and changes
the map. The next method starts when `run` is `Idle`: the mutex is held until the
method returns, so no other goroutine sees the array in between, and the steps are
there to be reasoned about. `last` is the last call and its answer, which the
refinement compares with the abstract list. The waiting service gives
`NewPrioritizedTask` an empty list (waiting_service.go:63); longer initial lists
exercise the constructor and `heap.Init`.

**Monitoring.** `metrics[t]` is the value of a topic's metric, `Nil` before `Init`
or `Listen`. A rate's `Get` resets it (`LeftByGet`). `Run` takes the subscribed
topics in any order (Go's map iteration), skips those without metric and blocks in
the send to a subscription's channel. A listener reads its gauge and stores it in
two steps. Sleeps have no length. `published` and `seen` are history. The sum of the
measurements in a channel (`Total`) is a number of places, which can be proved about
as a recursive sum cannot.

**TriggerHook.** The loop of the waiting service, its channels and its list are
`WaitingService`'s own actions. `unread` and `reading`, there an environment, are
here the preloader (`PreloaderSpec`), `given`, `rolledBack` and `confirming` the sender
(`SenderSpec`). A statement and the update of the metric `All` that follows it in
the same call are one step. `CreateUnanswered` and `CancelUnanswered` are calls
whose statement took effect and whose caller got an error. `ConfirmExecution`
deletes rows by id, as the statement does. `Restart` follows LevelFatal or is a
crash (`MaxCrashes`): memory is gone, everything stored is unread, `All` is counted
again. `done` is history for the refinement.

Three refinements carry the composition: what is proved of `PreloaderService` and
`SenderService` (`ImplementsPreloaderSpec`, `ImplementsSenderSpec`) is what
`TriggerHook` assumes of them, and what is proved of `TaskHeap` (`ImplementsList`) is
what `WaitingService` assumes of its list. The tasks of `PreloaderService` and `SenderService` are used
once; in `TriggerHook` the same steps are taken over tasks (id and time), so
that ids can be used again.

## 3. Runs

| run | instance | distinct states | shows |
|---|---|---|---|
| `waiting` | 1 client, workers, 2 ids, times 1 and 2, limit 1 | 211 thousand | `NeverEarly`, `EarliestFirst`, `NothingLost`, `CancelRemovesCopy`, `EveryTaskReleased`, `CallersReturn` hold when ids are used once |
| `task_heap` | 2 ids, 2 times, up to 6 items | 105 thousand | `HeapOrdered`, `PositionsKnown`, `DeleteIsExact` hold, and `ImplementsList`: the heap is the list `WaitingService` works with |
| `preloader` | 2 creators, 1 deleter, 1 worker, 1 fault, due and later times | 2.1 million | `NoStrandedTask`, `ChosenCollectionSurvives`, `ImplementsPreloaderSpec` hold with errors, deadlocks and lost answers at any step |
| `preloader_restart` | 1 creator, 1 worker, 2 ids, 1 fault, 1 restart | 540 thousand | `EveryTaskLoaded`, `ImplementsPreloaderSpec` hold |
| `preloader_deadline` | no fault, a slow reader | – | `EveryTaskHasALoader` fails |
| `sender` | 2 tasks, 2 consumers, 2 objects, 2 workers, batches of 2, 1 fault | 236 thousand | `ObjectsNotShared`, `DeletedOnlyWhenCompleted`, `NoLostWakeUp`, `MetricSettles`, `ConfirmedIsDeleted`, `RolledBackIsRedelivered`, `ImplementsSenderSpec` hold |
| `sender_readme` | the README's example in 2 goroutines | – | `DeletedOnlyWhenCompleted` fails |
| `error_service` | 2 reporters, 2 events each, a queue of 2 | 64 thousand | `NoLostWakeUp`, `LossIsReported`, `HandledInOrder`, `ReportersReturn`, `FatalStops` hold |
| `monitoring` | a metric of each kind, 4 subscriptions, channels of 1, 2 publications | 627 thousand | `NothingUncounted`, `SubscribersConverge`, `MeasuredForEver` hold; no deadlock |
| `trigger_hook` | 2 clients, 2 ids, 1 fault, 1 crash | 896 thousand | `NoRowForgotten`, `AtMostTwoCopies`, `AllCountsRows`, `ImplementsDeliverySpec` hold when ids are used once |
| `hook_liveness` | 2 clients, 1 id, 2 times, 2 faults, 1 crash | 70 thousand | `EveryTaskExecuted` holds |
| `hook_reuse` | 2 clients, 1 id, used again | – | `ImplementsDeliverySpec` fails |

Deadlock is checked in `task_heap` and `monitoring`, whose goroutines never stop.
Elsewhere it is not: at the bounds of clock, tasks or events the goroutines
wait for work that never comes. That nobody waits in vain before is what the
liveness properties and `NoLostWakeUp` say.

### Disagreements between the code and its documents

* `hook_reuse`: a task is cancelled while a copy of it is on its way, and its id is
  created again. The copy is consumed and confirmed all the same, and the
  confirmation, which names the id only, deletes the new row. Until the new task is
  executed it exists in memory only.
* `preloader_deadline`: the context of a round (5 s by default) also runs while
  workers wait in `preloadedTask <- task`. If the consumer is slower than that, the
  next `Next` removes an id from the list and its query fails. LevelFatal is
  raised, which by default nobody handles, and the collection is not read again.
* `sender_readme`: `Confirm` after `Rollback` works on an object that may already
  carry another consumer's task.

More things worth knowing, with no run of their own:

* A task created as taken may find a collection with its time that the preloader has
  just taken. Its creator pushes it (preloader_service.go:96), and so does the worker
  that reads the collection afterwards (:168), so that it is executed twice without any
  crash; `AtMostTwoCopies` is what does hold.
* If such a task is cancelled, one copy may stay. The second `Add` overwrites the index
  entry of the first (task_heap.go:44), and `DeleteIfExist`, which "searches for a task
  and deletes it" (waiting_service.go:34), removes the item the index knows. In the
  instance of `waiting`, the claim that no copy of the id is in the list or in hand
  after a cancellation was taken is violated; `CancelRemovesCopy` is what does hold.
* A cancellation may overtake its task, which then waits in a channel, or in the hands
  of its creator or of a worker: the loop finds nothing and releases the task later. No
  document excludes it.
* Reused ids hurt the waiting list too: with `IdReuse = TRUE` in `WaitingService.cfg`,
  `NothingLost` fails. The old cancellation (waiting_service.go:158) arrives after the
  new task and removes it from memory, while its row stays taken by this instance.
  `CancelRemovesCopy` fails there as well.
* Without a handler for LevelFatal, the default, `error_handler.go:86` drops the event
  before it looks at the level: with no handlers in `ErrorService.cfg`, `FatalStops`
  fails.
* A subscription to `waiting_for_sending` is accepted and never called, since no service
  initialises that topic.

### Bounds

Two of everything that competes (creators, consumers, reporters, callers of the hook) is
what the races above need, and the smallest instance with a second actor in every
window. `ExecTimes` and `MaxClock` let a task be past, due at once, inside
`TimePreload`, between `TimePreload` and `NewTaskRange`, and beyond it.
`MaxCollections` is the number of ids, one collection for each; `AddNewTask` is
guarded so that no create runs out of keys. In `TriggerHook` one time is enough for the
safety run (the order of times is `WaitingService`'s), two ids make batches of
different tasks, and the second half of a fault or crash is everything that can
follow it. `EventCap = 1` fills every channel of a subscription. `Items` bounds the
heap to six tasks: three levels, so that an item cut out of the middle can be
followed by one that rises. `MaxFaults` is one: each fault is
followed by all behaviours without one, and the safety properties are proved for
any number. `GreedyProcessingLimit = 1` makes the greedy loops end both ways. The
queue of two events is the smallest the code allows and overflows at once.
In `waiting` the second actor at every channel is a worker, which pushes what it
has read whenever it likes: a cancellation can meet a task that is still to be pushed,
and two cancellations can be on their way. With two clients, at 591 thousand states,
all its properties hold too; the theorems are for any number. `hook_liveness`, with
its faults and its crash, has one task, so that tasks contend in it only with their own
second copy. Two tasks of time 1 with one client, `MaxClock = 3` and no faults keep
`EveryTaskExecuted` as well (146 thousand states); that a fault during the contention of
two tasks delays none of them for ever is not checked.

### Fairness

Weak fairness of every goroutine's steps: the Go scheduler runs what can run, a
send proceeds when the reader makes room, timers fire. The application keeps
calling `Consume` and answers each task (without that nothing is promised), event
handlers return, the database answers. Nobody is obliged to create, delete or
report anything, faults and crashes never have to happen. In `preloader_restart`
the number of restarts is bounded: an application restarted for ever faster than a
round loads nothing.

`hook_liveness` takes from the components what they were shown to do: the preloader
reads what is stored (`EveryTaskLoaded`), the sender gives again and settles
(`RolledBackIsRedelivered`, `ConfirmedIsDeleted`). Two assumptions are about the
application: a task that it is given again and again is confirmed at last (strong
fairness, as rollbacks interrupt), and LevelFatal has a handler and its event is not
among those a full queue of the error service drops, so that `Run` returns and the
process is started again (weak fairness of `Restart` while `fatal`). Where the event is
dropped (hazard 22) or has no handler, the instance goes on without the lost tasks
until somebody restarts it.
In `monitoring`, callbacks return and sleeps end.

## 4. Proofs

All theorems hold for arbitrary constants that satisfy the `ASSUME`s of the
modules (which TLC evaluates in every run): sets of goroutines, tasks, objects and
topics of any size, any number of faults, crashes and restarts. The invariants the
proofs add were checked by TLC on the instances of the runs before they were proved.

| component | proved | assuming |
|---|---|---|
| prioritized task list | types and positions (`PositionsKnown`), `HeapOrdered`, `DeleteIsExact`, `ImplementsList` | – |
| waiting service | types, `EarliestFirst`, `NeverEarly` | – |
| | `NothingLost`, `CancelRemovesCopy` | ids are used once |
| preloader service | types | – |
| | `NoStrandedTask`, `ImplementsPreloaderSpec` | `CreateIsQuick` |
| | `ChosenCollectionSurvives` | `CleaningWaits` |
| sender service | types, `NoLostWakeUp`, `MetricSettles` | – |
| | `ObjectsNotShared`, `DeletedOnlyWhenCompleted`, `ImplementsSenderSpec` | a consumer answers a task once |
| error service | types, `NoLostWakeUp`, `LossIsReported`, `HandledInOrder` | – |
| monitoring service | types, `NothingUncounted` | – |
| trigger hook | types, `AllCountsRows` | – |
| | `NoRowForgotten`, `AtMostTwoCopies`, `ImplementsDeliverySpec` | ids are used once |

Each hypothesis is the condition without which a run or an instance shows the
property to fail (section 3), or a bound on durations that nothing in the code
sets. Together the four refinements proved say: what `TriggerHook` assumes of the
preloader and of the sender, and the waiting loop of its list, their code does, and
from it follows what the application relies on. Every invariant and every action
property the passing runs check is the statement of a theorem.

**TaskHeapProofs.** An invariant about a heap in the middle of a loop says where it is
out of order. While an item rises (`Rising`), the order holds except between it and
its parent, and its children are not earlier than that parent; while it sinks
(`Sinking`), it holds except between it and its children, from the node on that
`heap.Init` has come to (`Low`), and where `Remove` has just put an item into the gap
also except between it and its parent. `RiseKeepsOrder` and `SinkKeepsOrder` say that one
exchange moves the exception by one level; `RiseEndsInOrder` and `SinkEndsInOrder`,
that nothing is left of it where a loop ends. That `down` leaves the item where it was
when it has still to rise is why `Remove` may decide on that. `OrderInv` puts this
together, `RunInv` keeps what each method needs until it returns: the item it adds,
deletes or takes is at its place, and what Take cuts off is the earliest
(`RootIsFirst`; the first item earlier than the root would have a parent that is
not, so the well-founded order of the positions replaces an induction). `HeapInv`
joins them with `PositionsKnown`, which is inductive by `SwapResult`, `PushResult` and
`PopResult`. `DeletionIsExact` needs `EntriesComplete`: an id that was not doubled has
one item, and the entry of the id is that item, except while Add works.
`HeapImplementsList` counts the items of each task (`BagAdds`); the loops keep the
content (`LoopsKeepContent`), and only the last step of a method changes it.
`LoopsEnd` gives the loops a measure: `from` falls, or stays while `at` grows (sinking)
or falls (rising), within an array whose size a loop does not change.

**WaitingServiceProofs.** `TypeCorrect` is inductive with `IndexIsLive` in the
type invariant: without it `DeleteIfExist` could remove an item that is not in the
bag. `OrderAndTime` rests on `SleepIsLongEnough` (a sleep of whole seconds from a
truncated clock never ends early) and on what `Add` and `Take` do to membership;
`NoEarlyRelease` is its half about time.
`NothingLostWithoutReuse` assumes `~IdReuse` and needs `CancelsAreFinal`: an id in
the hands of a canceller or in the channel was created and has no row, so the
cancellation cannot hit a live task. These lemmas are about `Step`, a step as the
service sees it, whoever pushes: the hook's proofs use them too. `CancellationRemovesACopy`
says that a cancellation the loop takes from its channel gives up a copy of its task, if
the loop has one and none was released before, and no copy of another task. It assumes
`~IdReuse` and needs three more facts. `OneTaskPerId`: copies of one id, wherever they
are, are copies of one task. `CancelsOnce`: a cancelled id is on its way to the loop
once. `IndexKnows`: until the cancellation is taken, the index has an entry for a task
of the list that was not released, since a second `Add` of the same task only renews it.
That no copy is left cannot be proved: section 3 tells how one stays.

**PreloaderServiceProofs.** `NothingStranded` assumes `CreateIsQuick`:
`MaxCreateDelay + TimePreload < NewTaskRange`, which is what the comment on
`CoefTimePreloadOfNewTask` ("must be more than one") is about. The invariant
`LoadInv` says: rows lie in collections that exist (`RowsOK`); an id has
one life (`IdsOnce`); a create is on time and its choice has the right time
(`CallsOK`); a worker that stopped left nothing to read or raised LevelFatal
(`RoundOK`); the
collection a create for later has chosen is not taken by this instance
(`LaterStaysUntaken`) - the heart of the argument: to take it, the clock would
have to come within `TimePreload` of its time before the insert. `CleaningIsSafe`
assumes `CleaningWaits` (`MaxCreateDelay <= CleanAge`) and needs `SelectionIsOld`:
ids selected for deletion are older than any create's time.

`PreloaderKeepsPromise` is the refinement of `PreloaderSpec`. For every action there
is a lemma on the set of tasks still to be read: new collections, the cleaning, the
transaction of a round and the hand-out of its ids leave it alone, reading a
collection takes away that collection's tasks, a failure only loses some, a restart
puts back everything stored. Besides `LoadInv` it needs `HandInv`: no two creators
push the same task (`PushesApart`), a collection of a round is read by one worker or
waits for one, and belongs to this instance (`ReadersApart`), and what a worker has
read stays read (`ReadOnce`). Without the last, pushing a task would not take it out
of the workers' hands. `LaterStaysUntaken`, and with it `CreateIsQuick`, is what
makes a task stored for later one that will be read.

**SenderServiceProofs.** `DispatcherIsWoken` is inductive with the types.
`PoolIsSafe` and `DeletedAfterCompletion` assume `~ConfirmAfterRollback`.
`PoolInv` adds that an object is in the pool at most once; `PipelineDone` and
`ConfirmersDone` say that everything behind `Confirm`, and every consumer on its
way into it, carries completed tasks, which needs the pool to be safe.
`MetricIsExact` is inductive with `MetricInv`: what is counted is finite
(`CountsFinite`), and a goroutine that does not hold a batch has forgotten the last
one (`NobodyKeepsBatch`), as a batch remembered twice would be counted twice.

`SenderKeepsPromise` is the refinement of `SenderSpec`, under
`~ConfirmAfterRollback`. The numbers of the promise are sums over the channels, lists
and batches (`Counts`); each goroutine moves its tasks between two terms of one sum,
or from one count of the promise to the next. `PromiseInv` adds two facts to
`PoolInv` and `MetricInv`. `NotAnswered`: while a consumer works, `isProcessed` of
its object is not set, so that an answer never returns without sending.
`OnlyOnce`: a task is in one place of the whole service, so that a batch deleted
from the table leaves the sender once, and not once for each of its copies.

**ErrorServiceProofs.** `PushResult` gives the length and elements of the queue
after `Push`; with it the queue stays within its capacity (`TypeCorrect`) and the
message about a loss survives further overflows (`LossesAreReported`), as each
overflow that cuts it appends a new one. `RunIsWoken` covers any number of
reporters. `EventsKeepTheirOrder` needs `ReportedInOrder`: what was handled and what
is queued, one after the other, is in the order of each reporter, and nothing is in
it that its reporter has not reported yet. `ProducersAssumption` keeps the queue's
own message apart from the reporters' events, as its fixed text does in the code.

**MonitoringProofs.** `RatesAreExact` needs `RatesInv`: for each rate, what was
published is the metric, the measurements under way and what subscribers saw
(`Balanced`), and none of these is negative (`NoNegativeRate`), as the sum of a channel is
a number of places.

**TriggerHookProofs.** `HookTypeCorrect` adds to the types that the table and the
pushing callers are finite (`Finite`), which the counts of rows and copies need.
`MetricAllIsRight` follows from it: every statement changes the metric by the
cardinality it changes the table by. The other three assume `~IdReuse`.
`CopiesMove` says of every step except a create and a restart that it makes no copy,
and that the last one goes only with the row, a cancellation or LevelFatal. `NoReuse` is the invariant: what is
cancelled has no row (`CancelsAreFinal`), a copy belongs to a task that was created
and to no other row of its id (`CopiesAreCreated`), and whatever is about to be
deleted is done with (`DoneIsKnown`). With ids used again it fails in `hook_reuse`: a
copy would belong to another task's row. From it follow that no row is left without a
copy, a reader or LevelFatal (`NoRowIsForgotten`), that copies number at most two
(`CopiesAreBounded`), and that the services implement `DeliverySpec`
(`ServicesAreDurable`).

Only model-checked:

* the liveness properties (`EveryTaskReleased`, `CallersReturn`, `EveryTaskLoaded`,
  `ConfirmedIsDeleted`, `RolledBackIsRedelivered`, `ReportersReturn`, `FatalStops`,
  `SubscribersConverge`, `MeasuredForEver`, `EveryTaskExecuted`): fairness and ENABLED
  are out of the prover's reach, and so is the absence of deadlock. In `task_heap`
  the latter includes that no method is left in the middle of a loop, and `LoopsEnd`
  proves of every turn that it advances, for heaps of any size: a loop ends as long as
  the goroutine that runs it goes on, since nobody else can change the heap meanwhile.

## 5. Not modelled

Row locks and lock waits of MySQL (a statement is atomic; a deadlock is an error
of a statement); `Up` (creates tables and the procedure); validation of uuids; two
TriggerHooks in one process (`taskToSendPool` is shared by them); `ExecTime`s outside
MySQL's `INT`; contracts, connection, util, mocks and the benchmark, which keep no
state. The preloader and the sender enter `TriggerHook` as their specifications; with
all their steps the composition would be far beyond TLC.

## 6. Plan

1. (done) `WaitingService` on `PrioritizedTaskList`, types and order proved.
2. (done) `Repository` and `PreloaderService`, with faults and restarts.
3. (done) `SenderService`, `ErrorService`.
4. (done) `TaskHeap`, shown to implement the list of `WaitingService`.
5. (done) `PreloaderSpec` and `SenderSpec`, and `TriggerHook` built on them,
   implementing `DeliverySpec`; duplicates, crashes and reused ids.
6. (done) `Monitoring`.
7. (done) Proofs of the invariants of `TriggerHook`, of its refinement of `DeliverySpec`
   for ids used once, of `NothingUncounted`, `MetricSettles`, `CancelRemovesCopy` and
   `HandledInOrder`, and of the refinements of `SenderSpec` and `PreloaderSpec`.
8. (done) `TaskHeap` without recursion, the loops of `container/heap` as steps; its
   order, positions, deletions and its refinement of `TaskListSpec` proved.
9. (done) The workers' second push in `WaitingService`; cancellations of doubled tasks.
10. Open: `EveryTaskExecuted` with faults and two tasks needs a smaller model of the
    list to stay within TLC's reach.
