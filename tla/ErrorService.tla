---------------------------- MODULE ErrorService -----------------------------
(***************************************************************************)
(* error_service/error_handler.go and event_queue.go: every goroutine of   *)
(* the library reports events with New; EventHandler.Run, which is what    *)
(* the application waits for in TriggerHook.Run, calls the handlers and    *)
(* returns after a LevelFatal event.                                       *)
(*                                                                         *)
(* New pushes the event under the queue's mutex and then, without it,      *)
(* looks at the channel updateQueue and sends a token if it saw none.      *)
(* Several goroutines may see none at the same time.                       *)
(***************************************************************************)
EXTENDS Integers, Sequences

CONSTANTS
    Producers,   \* goroutines that report events
    Levels,      \* levels they report, "fatal" among others
    Handlers,    \* levels that have a function in Options.EventHandlers
    Debug,       \* Options.Debug
    MaxQueueCap, \* Options.EventCap; with 1 the code would slice out of range
    MaxEvents    \* bound: events a goroutine reports

ASSUME LevelsAssumption == Levels \subseteq {"fatal", "error", "debug"} /\ Handlers \subseteq Levels
ASSUME DebugAssumption == Debug \in BOOLEAN
ASSUME CapAssumption == MaxQueueCap \in Nat /\ MaxQueueCap >= 2
ASSUME MaxEventsAssumption == MaxEvents \in Nat
(* "queue" stands for the queue's own message, see Slow.                    *)
ASSUME ProducersAssumption == "queue" \notin Producers

VARIABLES
    eventQueue,   \* its queue
    updateQueue,  \* channel: tokens in it
    producer,     \* where a goroutine is in New, and how many events it reported
    pc,           \* where Run is
    handled,      \* events given to a handler, in order (history)
    dropped,      \* events the queue dropped because it was full (history)
    raised        \* levels of the events that were pushed (history)

vars == <<eventQueue, updateQueue, producer, pc, handled, dropped, raised>>

ChanCap == 1

Elements(s) == {s[i] : i \in DOMAIN s}

Event(p, n, level) == [by |-> p, n |-> n, level |-> level]

(* SlowEventHandler: "event handler is very slow; some messages are lost"   *)
Slow == [by |-> "queue", n |-> 0, level |-> "error"]

Init ==
    /\ eventQueue = <<>>
    /\ updateQueue = 0
    /\ producer = [p \in Producers |-> [pc |-> "idle", n |-> 0]]
    /\ pc = "pop"
    /\ handled = <<>>
    /\ dropped = {}
    /\ raised = {}

-----------------------------------------------------------------------------
(* New                                                                      *)

(* A wrong variant: a full queue drops its oldest event and says nothing.   *)
PushSilently(e) ==
    IF Len(eventQueue) = MaxQueueCap
    THEN /\ eventQueue' = Append(Tail(eventQueue), e)
         /\ dropped' = dropped \cup {eventQueue[1]}
    ELSE /\ eventQueue' = Append(eventQueue, e)
         /\ UNCHANGED dropped

(* A wrong variant: one event is dropped to make room for two.              *)
PushCutsOne(e) ==
    IF Len(eventQueue) = MaxQueueCap
    THEN /\ eventQueue' = Tail(eventQueue) \o <<Slow, e>>
         /\ dropped' = dropped \cup {eventQueue[1]}
    ELSE /\ eventQueue' = Append(eventQueue, e)
         /\ UNCHANGED dropped

(* A wrong variant: the new event is put before the older ones.             *)
PushFront(e) ==
    IF Len(eventQueue) = MaxQueueCap
    THEN /\ eventQueue' = SubSeq(eventQueue, 3, MaxQueueCap) \o <<Slow, e>>
         /\ dropped' = dropped \cup {eventQueue[1], eventQueue[2]}
    ELSE /\ eventQueue' = <<e>> \o eventQueue
         /\ UNCHANGED dropped

(* eventQueue.Push: a full queue loses its two oldest events and gets the   *)
(* message that says so.                                                    *)
Push(e) ==
    IF Len(eventQueue) = MaxQueueCap
    THEN /\ eventQueue' = SubSeq(eventQueue, 3, MaxQueueCap) \o <<Slow, e>>
         /\ dropped' = dropped \cup {eventQueue[1], eventQueue[2]}
    ELSE /\ eventQueue' = Append(eventQueue, e)
         /\ UNCHANGED dropped

(* Debug events are reported only in debug mode.                            *)
New(p, level) ==
    /\ producer[p].pc = "idle" /\ producer[p].n < MaxEvents
    /\ Debug \/ level # "debug"
    /\ Push(Event(p, producer[p].n + 1, level))
    /\ producer' = [producer EXCEPT ![p] = [pc |-> "look", n |-> @.n + 1]]
    /\ raised' = raised \cup {level}
    /\ UNCHANGED <<updateQueue, pc, handled>>

(* A wrong variant: a token is sent only when there is one.                 *)
LookTheWrongWay(p) ==
    /\ producer[p].pc = "look"
    /\ producer' = [producer EXCEPT ![p].pc = IF updateQueue > 0 THEN "signal" ELSE "idle"]
    /\ UNCHANGED <<eventQueue, updateQueue, pc, handled, dropped, raised>>

(* if len(eh.updateQueue) == 0 ...                                          *)
LookForToken(p) ==
    /\ producer[p].pc = "look"
    /\ producer' = [producer EXCEPT ![p].pc = IF updateQueue = 0 THEN "signal" ELSE "idle"]
    /\ UNCHANGED <<eventQueue, updateQueue, pc, handled, dropped, raised>>

(* ... { eh.updateQueue <- true }, which blocks if somebody was faster.     *)
SendToken(p) ==
    /\ producer[p].pc = "signal"
    /\ updateQueue < ChanCap
    /\ updateQueue' = updateQueue + 1
    /\ producer' = [producer EXCEPT ![p].pc = "idle"]
    /\ UNCHANGED <<eventQueue, pc, handled, dropped, raised>>

-----------------------------------------------------------------------------
(* Run                                                                      *)

(* A wrong variant: Run goes on after a fatal event.                        *)
HandleWithoutReturn ==
    /\ pc = "pop" /\ eventQueue # <<>>
    /\ Head(eventQueue).level \in Handlers
    /\ handled' = Append(handled, Head(eventQueue))
    /\ eventQueue' = Tail(eventQueue)
    /\ UNCHANGED <<pc, updateQueue, producer, dropped, raised>>

(* Pop an event and call its handler; a fatal one ends Run.                 *)
Handle ==
    /\ pc = "pop" /\ eventQueue # <<>>
    /\ Head(eventQueue).level \in Handlers
    /\ handled' = Append(handled, Head(eventQueue))
    /\ eventQueue' = Tail(eventQueue)
    /\ pc' = IF Head(eventQueue).level = "fatal" THEN "returned" ELSE "pop"
    /\ UNCHANGED <<updateQueue, producer, dropped, raised>>

(* No handler for the level: continue with the next event.                  *)
Ignore ==
    /\ pc = "pop" /\ eventQueue # <<>>
    /\ Head(eventQueue).level \notin Handlers
    /\ eventQueue' = Tail(eventQueue)
    /\ UNCHANGED <<updateQueue, producer, pc, handled, dropped, raised>>

(* A wrong variant: Run polls the queue and never reads the tokens.         *)
PollTheQueue ==
    /\ pc = "pop" /\ eventQueue = <<>>
    /\ pc' = "pop"
    /\ UNCHANGED <<eventQueue, updateQueue, producer, handled, dropped, raised>>

QueueIsEmpty ==
    /\ pc = "pop" /\ eventQueue = <<>>
    /\ pc' = "wait"
    /\ UNCHANGED <<eventQueue, updateQueue, producer, handled, dropped, raised>>

ReceiveToken ==
    /\ pc = "wait"
    /\ updateQueue > 0
    /\ updateQueue' = updateQueue - 1
    /\ pc' = "pop"
    /\ UNCHANGED <<eventQueue, producer, handled, dropped, raised>>

Run == Handle \/ Ignore \/ QueueIsEmpty \/ ReceiveToken

Next ==
    \/ \E p \in Producers :
          \/ \E level \in Levels : New(p, level)
          \/ LookForToken(p)
          \/ SendToken(p)
    \/ Run

(* Goroutines run and handlers return; nobody is obliged to report events.  *)
Fairness ==
    /\ WF_vars(Run)
    /\ \A p \in Producers : WF_vars(LookForToken(p)) /\ WF_vars(SendToken(p))

Spec == Init /\ [][Next]_vars /\ Fairness

-----------------------------------------------------------------------------
(* Properties                                                               *)

Events == [by : Producers, n : 1..MaxEvents, level : Levels] \cup {Slow}

(* Types; the queue of events and the channel of tokens stay within their   *)
(* capacity.                                                                *)
TypeOK ==
    /\ eventQueue \in Seq(Events) /\ Len(eventQueue) <= MaxQueueCap
    /\ updateQueue \in 0..ChanCap
    /\ producer \in [Producers -> [pc : {"idle", "look", "signal"}, n : 0..MaxEvents]]
    /\ pc \in {"pop", "wait", "returned"}
    /\ handled \in Seq(Events)
    /\ dropped \subseteq Events
    /\ raised \subseteq Levels

(* Run never sleeps while an event is queued, unless a token is waiting or  *)
(* a goroutine is about to send one: the look at the channel is not atomic  *)
(* with the push, and tokens of older events may still be in it.            *)
NoLostWakeUp ==
    pc = "wait" /\ eventQueue # <<>> =>
        \/ updateQueue > 0
        \/ \E p \in Producers : producer[p].pc \in {"look", "signal"}

(* If events were lost, the message about it is still to be handled or was  *)
(* handled, however often it was itself pushed out.                         *)
LossIsReported ==
    dropped # {} /\ "error" \in Handlers => Slow \in Elements(eventQueue) \cup Elements(handled)

(* The events of one goroutine are handled in the order it reported them.   *)
HandledInOrder ==
    \A i, j \in DOMAIN handled :
        i < j /\ handled[i].by = handled[j].by /\ handled[i] # Slow => handled[i].n < handled[j].n

(* A goroutine that reports an event is not blocked for ever, as long as    *)
(* Run has not returned.                                                    *)
ReportersReturn ==
    \A p \in Producers : producer[p].pc # "idle" ~> producer[p].pc = "idle" \/ pc = "returned"

(* LevelFatal means "The application cannot continue": once a fatal event   *)
(* was reported Run returns, unless the full queue dropped the event.       *)
FatalStops ==
    "fatal" \in raised ~> pc = "returned" \/ \E e \in dropped : e.level = "fatal"

=============================================================================
