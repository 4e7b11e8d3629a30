----------------------------- MODULE Monitoring ------------------------------
(***************************************************************************)
(* monitoring_service/: metrics that the services publish to from any      *)
(* goroutine, one goroutine (Run) that measures them again and again, a    *)
(* channel and a goroutine per subscription, a goroutine per listened      *)
(* topic that copies a gauge into its metric.                              *)
(*                                                                         *)
(* Set and Get of the metrics are single atomic operations.  The map of    *)
(* metrics has no lock: it is written by Init and Listen while the         *)
(* services are built, before Run.  Time is left out: a sleep ends some    *)
(* time.                                                                   *)
(***************************************************************************)
EXTENDS Integers, Sequences, FiniteSets

CONSTANTS
    Integral,    \* topics the services initialise with IntegralMetricType
    Velocity,    \* ... with VelocityMetricType
    Listened,    \* ... with Listen: the metric is a ValueMetric
    Subscribed,  \* keys of Options.Subscriptions, one callback each
    EventCap,    \* Options.EventCap
    MaxPublish,  \* bound: publications and changes of gauges
    Nil

Initialised == Integral \cup Velocity \cup Listened

Topics == Initialised \cup Subscribed

ASSUME EventCapAssumption == EventCap \in Nat \ {0}
ASSUME MaxPublishAssumption == MaxPublish \in Nat
ASSUME TopicsAssumption ==
    /\ Integral \cap Velocity = {}
    /\ Listened \cap (Integral \cup Velocity) = {}
    /\ Nil \notin Topics \cup Int

VARIABLES
    metrics,    \* the value of a topic's metric, Nil while the topic has none
    pc,         \* where Run is: "built" before it, "next", "send", "sleep"
    todo,       \* topics this round of Run has still to measure
    measuring,  \* Run's locals: the topic and its measure
    eventCh,    \* the channel of each subscription
    callback,   \* the measurement each callback is working on
    listener,   \* what each listening goroutine has read and has still to set
    gauge,      \* outside: what the callback of Listen would return
    published,  \* sum of the measurements published to a topic (history)
    count,      \* publications and changes of gauges so far
    seen        \* what the subscriber knows: sum of a velocity, else the last value (history)

vars == <<metrics, pc, todo, measuring, eventCh, callback, listener, gauge, published,
          count, seen>>
runVars == <<pc, todo, measuring>>
outside == <<gauge, published, count>>

Idle == [topic |-> Nil, measure |-> 0]

New ==
    /\ metrics = [t \in Topics |-> Nil]
    /\ pc = "built"
    /\ todo = {}
    /\ measuring = Idle
    /\ eventCh = [t \in Subscribed |-> <<>>]
    /\ callback = [t \in Subscribed |-> Nil]
    /\ listener = [t \in Listened |-> Nil]
    /\ gauge = [t \in Listened |-> 0]
    /\ published = [t \in Integral \cup Velocity |-> 0]
    /\ count = 0
    /\ seen = [t \in Subscribed |-> 0]

-----------------------------------------------------------------------------
(* The services                                                             *)

(* Init and Listen; a second call for a topic returns TopicExist.           *)
Init(t) ==
    /\ pc = "built"
    /\ t \in Initialised
    /\ metrics[t] = Nil
    /\ metrics' = [metrics EXCEPT ![t] = 0]
    /\ UNCHANGED <<runVars, eventCh, callback, listener, outside, seen>>

(* A wrong variant: Publish stores the measurement.                         *)
Overwrite(t, m) == m

(* Set of the integral and of the velocity metric adds.                     *)
Added(t, m) == metrics[t] + m

(* Before the topic is initialised Publish returns an error.                *)
Publish(t, m) ==
    /\ metrics[t] # Nil
    /\ count < MaxPublish
    /\ metrics' = [metrics EXCEPT ![t] = Added(t, m)]
    /\ published' = [published EXCEPT ![t] = @ + m]
    /\ count' = count + 1
    /\ UNCHANGED <<runVars, eventCh, callback, listener, gauge, seen>>

(* Outside: the number the gauge shows changes.                             *)
GaugeMoves(t) ==
    /\ count < MaxPublish
    /\ \E n \in 0..1 : n # gauge[t] /\ gauge' = [gauge EXCEPT ![t] = n]
    /\ count' = count + 1
    /\ UNCHANGED <<metrics, runVars, eventCh, callback, listener, published, seen>>

(* The goroutine of Listen calls the callback ...                           *)
ReadGauge(t) ==
    /\ metrics[t] # Nil
    /\ listener[t] = Nil
    /\ listener' = [listener EXCEPT ![t] = gauge[t]]
    /\ UNCHANGED <<metrics, runVars, eventCh, callback, outside, seen>>

(* ... then stores what it got, and sleeps.                                 *)
SetGauge(t) ==
    /\ listener[t] # Nil
    /\ metrics' = [metrics EXCEPT ![t] = listener[t]]
    /\ listener' = [listener EXCEPT ![t] = Nil]
    /\ UNCHANGED <<runVars, eventCh, callback, outside, seen>>

-----------------------------------------------------------------------------
(* Run                                                                      *)

(* Everything is built and the application calls Run, or the sleep ends.    *)
StartRound ==
    /\ \/ pc = "built" /\ \A t \in Initialised : metrics[t] # Nil
       \/ pc = "sleep"
    /\ pc' = "next"
    /\ todo' = Subscribed
    /\ UNCHANGED <<metrics, measuring, eventCh, callback, listener, outside, seen>>

(* A wrong variant: a topic without a metric ends the round.                *)
BreakOnMissing(t) ==
    /\ pc = "next"
    /\ t \in todo
    /\ metrics[t] = Nil
    /\ todo' = {}
    /\ UNCHANGED <<metrics, pc, measuring, eventCh, callback, listener, outside, seen>>

(* A subscription to a topic that nobody initialised.                       *)
SkipMissing(t) ==
    /\ pc = "next"
    /\ t \in todo
    /\ metrics[t] = Nil
    /\ todo' = todo \ {t}
    /\ UNCHANGED <<metrics, pc, measuring, eventCh, callback, listener, outside, seen>>

(* A wrong variant: the velocity is not reset.                              *)
LeftAlone(t) == metrics[t]

(* What Get leaves behind: the velocity metric starts again from zero.      *)
LeftByGet(t) == IF t \in Velocity THEN 0 ELSE metrics[t]

(* Topics come in the order of Go's map iteration: any.                     *)
Measure(t) ==
    /\ pc = "next"
    /\ t \in todo
    /\ metrics[t] # Nil
    /\ measuring' = [topic |-> t, measure |-> metrics[t]]
    /\ metrics' = [metrics EXCEPT ![t] = LeftByGet(t)]
    /\ todo' = todo \ {t}
    /\ pc' = "send"
    /\ UNCHANGED <<eventCh, callback, listener, outside, seen>>

(* A wrong variant: the channel is not bounded.                             *)
SendAlways ==
    /\ pc = "send"
    /\ eventCh' = [eventCh EXCEPT ![measuring.topic] = Append(@, measuring.measure)]
    /\ measuring' = Idle
    /\ pc' = "next"
    /\ UNCHANGED <<metrics, todo, callback, listener, outside, seen>>

(* The blocking send: a full channel stops the measuring of every topic.    *)
Send ==
    /\ pc = "send"
    /\ LET t == measuring.topic
       IN  /\ Len(eventCh[t]) < EventCap
           /\ eventCh' = [eventCh EXCEPT ![t] = Append(@, measuring.measure)]
    /\ measuring' = Idle
    /\ pc' = "next"
    /\ UNCHANGED <<metrics, todo, callback, listener, outside, seen>>

EndRound ==
    /\ pc = "next"
    /\ todo = {}
    /\ pc' = "sleep"
    /\ UNCHANGED <<metrics, todo, measuring, eventCh, callback, listener, outside, seen>>

-----------------------------------------------------------------------------
(* Subscribers                                                              *)

(* The goroutine of a subscription receives a measurement, calls back ...   *)
CallBack(t) ==
    /\ callback[t] = Nil
    /\ eventCh[t] # <<>>
    /\ callback' = [callback EXCEPT ![t] = Head(eventCh[t])]
    /\ eventCh' = [eventCh EXCEPT ![t] = Tail(@)]
    /\ UNCHANGED <<metrics, runVars, listener, outside, seen>>

(* ... and the callback returns.                                            *)
Returns(t) ==
    /\ callback[t] # Nil
    /\ seen' = [seen EXCEPT ![t] = IF t \in Velocity THEN @ + callback[t] ELSE callback[t]]
    /\ callback' = [callback EXCEPT ![t] = Nil]
    /\ UNCHANGED <<metrics, runVars, eventCh, listener, outside>>

Run ==
    \/ StartRound \/ Send \/ EndRound
    \/ \E t \in Subscribed : SkipMissing(t) \/ Measure(t)

Listen(t) == ReadGauge(t) \/ SetGauge(t)

Subscriber(t) == CallBack(t) \/ Returns(t)

(* The All metric goes up and down, a rate counts what happened.            *)
Next ==
    \/ \E t \in Topics : Init(t)
    \/ \E t \in Integral, m \in {-1, 1} : Publish(t, m)
    \/ \E t \in Velocity : Publish(t, 1)
    \/ \E t \in Listened : GaugeMoves(t) \/ Listen(t)
    \/ Run
    \/ \E t \in Subscribed : Subscriber(t)

(* Building ends, goroutines run, sleeps end, callbacks return.             *)
Fairness ==
    /\ \A t \in Initialised : WF_vars(Init(t))
    /\ WF_vars(Run)
    /\ \A t \in Listened : WF_vars(Listen(t))
    /\ \A t \in Subscribed : WF_vars(Subscriber(t))

Spec == New /\ [][Next]_vars /\ Fairness

-----------------------------------------------------------------------------
(* Properties                                                               *)

Value == Int \cup {Nil}

(* Types; no channel holds more than EventCap measurements.                 *)
TypeOK ==
    /\ metrics \in [Topics -> Value]
    /\ pc \in {"built", "next", "send", "sleep"}
    /\ todo \subseteq Subscribed
    /\ measuring \in [topic : Subscribed \cup {Nil}, measure : Int]
    /\ pc = "send" <=> measuring.topic # Nil
    /\ eventCh \in [Subscribed -> Seq(Int)]
    /\ \A t \in Subscribed : Len(eventCh[t]) <= EventCap
    /\ callback \in [Subscribed -> Value]
    /\ listener \in [Listened -> Value]
    /\ gauge \in [Listened -> Nat]
    /\ published \in [Integral \cup Velocity -> Int]
    /\ count \in 0..MaxPublish
    /\ seen \in [Subscribed -> Int]

OrZero(v) == IF v = Nil THEN 0 ELSE v

(* The sum of a sequence of numbers of events, which are never negative.    *)
Total(s) == Cardinality(UNION {{<<i, n>> : n \in 1..s[i]} : i \in DOMAIN s})

(* What left the metric of t and has not returned from its callback.        *)
Underway(t) ==
    (IF measuring.topic = t THEN measuring.measure ELSE 0)
    + Total(eventCh[t]) + OrZero(callback[t])

(* A rate loses no measurement and reports none twice, however publishers   *)
(* and Run's Get-and-reset interleave: "Number of created tasks ... per     *)
(* unit of time" (README.md).                                               *)
NothingUncounted ==
    \A t \in Velocity \cap Subscribed :
        published[t] = OrZero(metrics[t]) + Underway(t) + seen[t]

(* What the subscriber of t should know once nothing changes any more.      *)
Truth(t) == IF t \in Listened THEN gauge[t] ELSE published[t]

(* A subscriber that is called back with stale values ends with the true    *)
(* one: the total, the sum of the rates, the gauge.                         *)
SubscribersConverge ==
    \A t \in Subscribed \cap Initialised : <>[](seen[t] = Truth(t))

(* Every topic is measured for ever, although one goroutine measures all    *)
(* and a topic may have no metric or a full channel.                        *)
MeasuredForEver == \A t \in Subscribed \cap Initialised : []<>(measuring.topic = t)

=============================================================================
