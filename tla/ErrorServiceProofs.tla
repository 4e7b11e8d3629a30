------------------------- MODULE ErrorServiceProofs --------------------------
(***************************************************************************)
(* Proofs about ErrorService, for every number of goroutines, every queue  *)
(* of at least two events and every choice of handlers.                    *)
(***************************************************************************)
EXTENDS ErrorService, TLAPS

USE LevelsAssumption, DebugAssumption, CapAssumption, MaxEventsAssumption

(* What a push leaves in the queue: the event, its older events or the      *)
(* message about their loss, and never more than the capacity.              *)
LEMMA PushResult ==
    ASSUME TypeOK, NEW e \in Events, Push(e)
    PROVE  /\ eventQueue' \in Seq(Events) /\ Len(eventQueue') <= MaxQueueCap
           /\ eventQueue' # <<>>
           /\ dropped' \subseteq Events
           /\ \/ Slow \in Elements(eventQueue')
              \/ /\ Elements(eventQueue) \subseteq Elements(eventQueue')
                 /\ UNCHANGED dropped
<1>t. /\ eventQueue \in Seq(Events) /\ Len(eventQueue) <= MaxQueueCap /\ dropped \subseteq Events
      /\ Len(eventQueue) \in Nat
  BY DEF TypeOK
<1>s. Slow \in Events
  BY DEF Events
<1>1. CASE Len(eventQueue) = MaxQueueCap
  <2> DEFINE kept == SubSeq(eventQueue, 3, MaxQueueCap)
  <2>1. kept \in Seq(Events) /\ Len(kept) = MaxQueueCap - 2
    BY <1>t, <1>1
  <2>2. /\ eventQueue' = kept \o <<Slow, e>>
        /\ dropped' = dropped \cup {eventQueue[1], eventQueue[2]}
    BY <1>1 DEF Push
  <2>3. eventQueue[1] \in Events /\ eventQueue[2] \in Events
    BY <1>t, <1>1
  <2>4. <<Slow, e>> \in Seq(Events)
    BY <1>s
  <2> HIDE DEF kept
  <2>5. eventQueue' \in Seq(Events) /\ Len(eventQueue') = MaxQueueCap
    BY <2>1, <2>2, <2>4
  <2>6. eventQueue'[MaxQueueCap - 1] = Slow /\ MaxQueueCap - 1 \in DOMAIN eventQueue'
    BY <2>1, <2>2, <2>4, <2>5
  <2>7. Slow \in Elements(eventQueue')
    BY <2>6 DEF Elements
  <2> QED  BY <1>t, <2>2, <2>3, <2>5, <2>7
<1>2. CASE Len(eventQueue) # MaxQueueCap
  <2>1. eventQueue' = Append(eventQueue, e) /\ UNCHANGED dropped
    BY <1>2 DEF Push
  <2>2. eventQueue' \in Seq(Events) /\ Len(eventQueue') = Len(eventQueue) + 1
    BY <1>t, <2>1
  <2>3. Elements(eventQueue) \subseteq Elements(eventQueue')
    BY <1>t, <2>1 DEF Elements
  <2> QED  BY <1>t, <1>2, <2>1, <2>2, <2>3
<1> QED  BY <1>1, <1>2

(* The state of the error service has its type; the queue never grows past  *)
(* its capacity.                                                            *)
THEOREM TypeCorrect == Spec => []TypeOK
<1>1. Init => TypeOK
  BY DEF Init, TypeOK, ChanCap
<1>2. TypeOK /\ [Next]_vars => TypeOK'
  <2> SUFFICES ASSUME TypeOK, [Next]_vars PROVE TypeOK'
    OBVIOUS
  <2> USE DEF ChanCap
  <2>1. ASSUME NEW p \in Producers, NEW level \in Levels, New(p, level) PROVE TypeOK'
    <3>1. producer[p].n + 1 \in 1..MaxEvents
      BY <2>1 DEF New, TypeOK
    <3>2. Event(p, producer[p].n + 1, level) \in Events
      BY <3>1 DEF Event, Events
    <3>3. /\ eventQueue' \in Seq(Events) /\ Len(eventQueue') <= MaxQueueCap
          /\ dropped' \subseteq Events
      BY <2>1, <3>2, PushResult DEF New
    <3>4. producer' \in [Producers -> [pc : {"idle", "look", "signal"}, n : 0..MaxEvents]]
      BY <2>1, <3>1 DEF New, TypeOK
    <3> QED  BY <2>1, <3>3, <3>4 DEF New, TypeOK
  <2>2. ASSUME NEW p \in Producers, LookForToken(p) \/ SendToken(p) PROVE TypeOK'
    <3>1. producer' \in [Producers -> [pc : {"idle", "look", "signal"}, n : 0..MaxEvents]]
      <4> DEFINE State == [pc : {"idle", "look", "signal"}, n : 0..MaxEvents]
      <4>1. producer \in [Producers -> State]
        BY DEF TypeOK
      <4>2. PICK where \in {"idle", "signal"} : producer' = [producer EXCEPT ![p].pc = where]
        BY <2>2 DEF LookForToken, SendToken
      <4>3. [producer[p] EXCEPT !.pc = where] \in State
        BY <4>1
      <4> HIDE DEF State
      <4>4. producer' \in [Producers -> State]
        BY <4>1, <4>2, <4>3
      <4> QED  BY <4>4 DEF State
    <3>2. updateQueue' \in 0..ChanCap
      BY <2>2 DEF LookForToken, SendToken, TypeOK
    <3>3. UNCHANGED <<eventQueue, pc, handled, dropped, raised>>
      BY <2>2 DEF LookForToken, SendToken
    <3> QED  BY <3>1, <3>2, <3>3 DEF TypeOK
  <2>3. CASE Handle \/ Ignore
    <3>1. /\ Head(eventQueue) \in Events /\ Tail(eventQueue) \in Seq(Events)
          /\ Len(Tail(eventQueue)) <= MaxQueueCap
      BY <2>3 DEF Handle, Ignore, TypeOK
    <3>2. handled' \in Seq(Events)
      <4>1. handled \in Seq(Events) /\ Append(handled, Head(eventQueue)) \in Seq(Events)
        BY <3>1 DEF TypeOK
      <4>2. handled' = handled \/ handled' = Append(handled, Head(eventQueue))
        BY <2>3 DEF Handle, Ignore
      <4> QED  BY <4>1, <4>2
    <3>3. pc' \in {"pop", "wait", "returned"}
      BY <2>3 DEF Handle, Ignore, TypeOK
    <3>4. eventQueue' = Tail(eventQueue) /\ UNCHANGED <<updateQueue, producer, dropped, raised>>
      BY <2>3 DEF Handle, Ignore
    <3> QED  BY <3>1, <3>2, <3>3, <3>4 DEF TypeOK
  <2>4. CASE QueueIsEmpty \/ ReceiveToken
    <3>1. updateQueue' \in 0..ChanCap /\ pc' \in {"pop", "wait", "returned"}
      BY <2>4 DEF QueueIsEmpty, ReceiveToken, TypeOK
    <3>2. UNCHANGED <<eventQueue, producer, handled, dropped, raised>>
      BY <2>4 DEF QueueIsEmpty, ReceiveToken
    <3> QED  BY <3>1, <3>2 DEF TypeOK
  <2>5. CASE UNCHANGED vars
    BY <2>5 DEF TypeOK, vars
  <2> QED  BY <2>1, <2>2, <2>3, <2>4, <2>5 DEF Next, Run
<1> QED  BY <1>1, <1>2, PTL DEF Spec

(* Run is never left asleep on a queued event, whatever the order in which  *)
(* the goroutines look at updateQueue and send their tokens.                *)
THEOREM RunIsWoken == Spec => []NoLostWakeUp
<1>1. Init => NoLostWakeUp
  BY DEF Init, NoLostWakeUp
<1>2. TypeOK /\ NoLostWakeUp /\ [Next]_vars => NoLostWakeUp'
  <2> SUFFICES ASSUME TypeOK, NoLostWakeUp, [Next]_vars PROVE NoLostWakeUp'
    OBVIOUS
  <2>t. /\ updateQueue \in 0..1
        /\ producer \in [Producers -> [pc : {"idle", "look", "signal"}, n : 0..MaxEvents]]
    BY DEF TypeOK, ChanCap
  <2>1. ASSUME NEW p \in Producers, NEW level \in Levels, New(p, level) PROVE NoLostWakeUp'
    <3>1. producer'[p].pc = "look"
      BY <2>1, <2>t DEF New
    <3> QED  BY <3>1 DEF NoLostWakeUp
  <2>2. ASSUME NEW p \in Producers, LookForToken(p) PROVE NoLostWakeUp'
    <3>1. CASE updateQueue = 0
      <4>1. producer'[p].pc = "signal"
        BY <2>2, <2>t, <3>1 DEF LookForToken
      <4> QED  BY <4>1 DEF NoLostWakeUp
    <3>2. CASE updateQueue # 0
      BY <2>2, <2>t, <3>2 DEF LookForToken, NoLostWakeUp
    <3> QED  BY <3>1, <3>2
  <2>3. ASSUME NEW p \in Producers, SendToken(p) PROVE NoLostWakeUp'
    BY <2>3, <2>t DEF SendToken, NoLostWakeUp
  <2>4. CASE Handle \/ Ignore \/ QueueIsEmpty \/ ReceiveToken
    BY <2>4, <2>t DEF Handle, Ignore, QueueIsEmpty, ReceiveToken, NoLostWakeUp
  <2>5. CASE UNCHANGED vars
    BY <2>5 DEF vars, NoLostWakeUp
  <2> QED  BY <2>1, <2>2, <2>3, <2>4, <2>5 DEF Next, Run
<1> QED  BY <1>1, <1>2, TypeCorrect, PTL DEF Spec

(* Once events were lost, a message that says so is queued or was handled,  *)
(* although it may itself be among the two events a full queue drops        *)
(* (event_queue.go:23); later losses may share it.                          *)
THEOREM LossesAreReported == Spec => []LossIsReported
<1>1. Init => LossIsReported
  BY DEF Init, LossIsReported
<1>2. TypeOK /\ LossIsReported /\ [Next]_vars => LossIsReported'
  <2> SUFFICES ASSUME TypeOK, LossIsReported, [Next]_vars, "error" \in Handlers, dropped' # {}
               PROVE  Slow \in Elements(eventQueue') \cup Elements(handled')
    BY DEF LossIsReported
  <2>t. eventQueue \in Seq(Events) /\ handled \in Seq(Events)
    BY DEF TypeOK
  <2>1. ASSUME NEW p \in Producers, NEW level \in Levels, New(p, level)
        PROVE  Slow \in Elements(eventQueue') \cup Elements(handled')
    <3>1. Event(p, producer[p].n + 1, level) \in Events
      BY <2>1 DEF New, TypeOK, Event, Events
    <3>2. \/ Slow \in Elements(eventQueue')
          \/ Elements(eventQueue) \subseteq Elements(eventQueue') /\ UNCHANGED dropped
      BY <2>1, <3>1, PushResult DEF New
    <3> QED  BY <2>1, <3>2 DEF New, LossIsReported
  <2>2. CASE eventQueue # <<>> /\ (Handle \/ Ignore)
    <3>1. UNCHANGED dropped /\ eventQueue' = Tail(eventQueue)
      BY <2>2 DEF Handle, Ignore
    <3>2. Elements(eventQueue) \subseteq Elements(eventQueue') \cup {Head(eventQueue)}
      <4> SUFFICES ASSUME NEW i \in DOMAIN eventQueue, i # 1
                   PROVE  eventQueue[i] \in Elements(Tail(eventQueue))
        BY <2>t, <3>1 DEF Elements
      <4>1. i - 1 \in DOMAIN Tail(eventQueue) /\ Tail(eventQueue)[i - 1] = eventQueue[i]
        BY <2>t, <2>2
      <4> QED  BY <4>1 DEF Elements
    <3>3. CASE Handle
      <4>1. handled' = Append(handled, Head(eventQueue))
        BY <3>3 DEF Handle
      <4>2. Elements(handled) \cup {Head(eventQueue)} \subseteq Elements(handled')
        <5>1. Head(eventQueue) \in Events
          BY <2>t, <2>2
        <5>2. Len(handled') = Len(handled) + 1 /\ handled'[Len(handled) + 1] = Head(eventQueue)
              /\ handled' \in Seq(Events)
          BY <2>t, <4>1, <5>1
        <5>3. \A i \in DOMAIN handled : i \in DOMAIN handled' /\ handled'[i] = handled[i]
          BY <2>t, <4>1, <5>1
        <5>4. Len(handled) + 1 \in DOMAIN handled'
          BY <2>t, <5>2
        <5> QED  BY <5>2, <5>3, <5>4 DEF Elements
      <4> QED  BY <3>1, <3>2, <4>2 DEF LossIsReported
    <3>4. CASE Ignore
      <4>1. Head(eventQueue) # Slow /\ UNCHANGED handled
        BY <3>4 DEF Ignore, Slow
      <4> QED  BY <3>1, <3>2, <4>1 DEF LossIsReported
    <3> QED  BY <2>2, <3>3, <3>4
  <2>3. CASE \/ QueueIsEmpty \/ ReceiveToken \/ UNCHANGED vars
             \/ \E p \in Producers : LookForToken(p) \/ SendToken(p)
    <3>1. UNCHANGED <<eventQueue, handled, dropped>>
      BY <2>3 DEF QueueIsEmpty, ReceiveToken, LookForToken, SendToken, vars
    <3> QED  BY <3>1 DEF LossIsReported
  <2> QED  BY <2>1, <2>2, <2>3 DEF Next, Run, Handle, Ignore
<1> QED  BY <1>1, <1>2, TypeCorrect, PTL DEF Spec

-----------------------------------------------------------------------------
(* The order of events                                                      *)

(* e may be handled before f: it is not a later event of the same goroutine.*)
Before(e, f) == e.by = f.by /\ e # Slow => e.n < f.n

InOrder(s) == \A i, j \in DOMAIN s : i < j => Before(s[i], s[j])

(* Why events are handled in order: what was handled and what is queued are *)
(* in the order of reporting, and a goroutine's next event is its latest.   *)
ReportedInOrder ==
    /\ InOrder(handled) /\ InOrder(eventQueue)
    /\ \A e \in Elements(handled), f \in Elements(eventQueue) : Before(e, f)
    /\ \A e \in Elements(handled) \cup Elements(eventQueue) :
          e # Slow => e.n <= producer[e.by].n

(* Appending an event that nothing in the sequence has to follow.           *)
LEMMA AppendInOrder ==
    ASSUME NEW s \in Seq(Events), InOrder(s), NEW e \in Events,
           \A x \in Elements(s) : Before(x, e)
    PROVE  /\ Append(s, e) \in Seq(Events) /\ InOrder(Append(s, e))
           /\ Elements(Append(s, e)) = Elements(s) \cup {e}
<1> DEFINE a == Append(s, e)
<1>1. a \in Seq(Events) /\ Len(a) = Len(s) + 1 /\ a[Len(s) + 1] = e /\ Len(s) \in Nat
      /\ DOMAIN s = 1..Len(s) /\ DOMAIN a = 1..(Len(s) + 1)
  OBVIOUS
<1>2. \A i \in DOMAIN s : a[i] = s[i]
  OBVIOUS
<1> HIDE DEF a
<1>3. Elements(a) = Elements(s) \cup {e}
  BY <1>1, <1>2 DEF Elements
<1>4. ASSUME NEW i \in DOMAIN a, NEW j \in DOMAIN a, i < j PROVE Before(a[i], a[j])
  <2>1. i \in DOMAIN s /\ a[i] = s[i]
    BY <1>1, <1>2, <1>4
  <2>2. CASE j = Len(s) + 1
    BY <1>1, <2>1, <2>2 DEF Elements
  <2>3. CASE j # Len(s) + 1
    BY <1>1, <1>2, <1>4, <2>1, <2>3 DEF InOrder
  <2> QED  BY <2>2, <2>3
<1> QED  BY <1>1, <1>3, <1>4 DEF InOrder, a

(* The rest of a sequence is in order, and its head may go first.           *)
LEMMA TailInOrder ==
    ASSUME NEW s \in Seq(Events), s # <<>>, InOrder(s)
    PROVE  /\ Tail(s) \in Seq(Events) /\ InOrder(Tail(s)) /\ Head(s) \in Elements(s)
           /\ Elements(Tail(s)) \subseteq Elements(s)
           /\ \A x \in Elements(Tail(s)) : Before(Head(s), x)
<1>1. /\ DOMAIN s = 1..Len(s) /\ Len(s) \in Nat /\ Len(s) > 0 /\ Head(s) = s[1]
      /\ DOMAIN Tail(s) = 1..(Len(s) - 1) /\ Tail(s) \in Seq(Events)
  OBVIOUS
<1>2. \A i \in DOMAIN Tail(s) : i + 1 \in DOMAIN s /\ Tail(s)[i] = s[i + 1]
  OBVIOUS
<1>3. InOrder(Tail(s))
  BY <1>1, <1>2 DEF InOrder
<1>4. \A x \in Elements(Tail(s)) : x \in Elements(s) /\ Before(Head(s), x)
  BY <1>1, <1>2 DEF Elements, InOrder
<1>5. Head(s) \in Elements(s)
  BY <1>1 DEF Elements
<1> QED  BY <1>1, <1>3, <1>4, <1>5

(* What is left when the two oldest events are dropped.                     *)
LEMMA SubSeqInOrder ==
    ASSUME NEW s \in Seq(Events), InOrder(s), Len(s) = MaxQueueCap
    PROVE  /\ SubSeq(s, 3, MaxQueueCap) \in Seq(Events) /\ InOrder(SubSeq(s, 3, MaxQueueCap))
           /\ Elements(SubSeq(s, 3, MaxQueueCap)) \subseteq Elements(s)
<1> DEFINE k == SubSeq(s, 3, MaxQueueCap)
<1>1. /\ k \in Seq(Events) /\ DOMAIN k = 1..(MaxQueueCap - 2) /\ DOMAIN s = 1..MaxQueueCap
  OBVIOUS
<1>2. \A i \in 1..(MaxQueueCap - 2) : i + 2 \in DOMAIN s /\ k[i] = s[i + 2]
  OBVIOUS
<1> HIDE DEF k
<1>3. InOrder(k)
  <2> SUFFICES ASSUME NEW i \in DOMAIN k, NEW j \in DOMAIN k, i < j PROVE Before(k[i], k[j])
    BY DEF InOrder
  <2>1. /\ i + 2 \in DOMAIN s /\ j + 2 \in DOMAIN s /\ i + 2 < j + 2
        /\ k[i] = s[i + 2] /\ k[j] = s[j + 2]
    BY <1>1, <1>2
  <2> QED  BY <2>1 DEF InOrder
<1>4. Elements(k) \subseteq Elements(s)
  BY <1>1, <1>2 DEF Elements
<1> QED  BY <1>1, <1>3, <1>4 DEF k

(* A push keeps the order when the event is later than all that is queued.  *)
LEMMA PushInOrder ==
    ASSUME TypeOK, InOrder(eventQueue), NEW e \in Events, e # Slow, Push(e),
           \A x \in Elements(eventQueue) : Before(x, e)
    PROVE  InOrder(eventQueue') /\ Elements(eventQueue') \subseteq Elements(eventQueue) \cup {Slow, e}
<1>t. eventQueue \in Seq(Events) /\ Slow \in Events
  BY DEF TypeOK, Events
<1>1. CASE Len(eventQueue) = MaxQueueCap
  <2> DEFINE k == SubSeq(eventQueue, 3, MaxQueueCap)
  <2>1. k \in Seq(Events) /\ InOrder(k) /\ Elements(k) \subseteq Elements(eventQueue)
    BY <1>t, <1>1, SubSeqInOrder
  <2>2. eventQueue' = k \o <<Slow, e>>
    BY <1>1 DEF Push
  <2> HIDE DEF k
  <2>3. k \o <<Slow, e>> = Append(Append(k, Slow), e)
    BY <1>t, <2>1
  <2>4. \A x \in Events : Before(x, Slow) /\ Before(Slow, x)
    BY ProducersAssumption DEF Before, Events, Slow
  <2>5. /\ Append(k, Slow) \in Seq(Events) /\ InOrder(Append(k, Slow))
        /\ Elements(Append(k, Slow)) = Elements(k) \cup {Slow}
    <3>1. Elements(k) \subseteq Events
      BY <2>1 DEF Elements
    <3> QED  BY <1>t, <2>1, <2>4, <3>1, AppendInOrder
  <2>6. \A x \in Elements(Append(k, Slow)) : Before(x, e)
    BY <2>1, <2>4, <2>5
  <2>7. /\ InOrder(Append(Append(k, Slow), e))
        /\ Elements(Append(Append(k, Slow), e)) = Elements(Append(k, Slow)) \cup {e}
    BY <2>5, <2>6, AppendInOrder
  <2> QED  BY <2>1, <2>2, <2>3, <2>5, <2>7
<1>2. CASE Len(eventQueue) # MaxQueueCap
  <2>1. eventQueue' = Append(eventQueue, e)
    BY <1>2 DEF Push
  <2> QED  BY <1>t, <2>1, AppendInOrder
<1> QED  BY <1>1, <1>2

(* Run handles the events of one goroutine in the order New pushed them,    *)
(* although a full queue drops events and inserts its own message.          *)
THEOREM EventsKeepTheirOrder == Spec => []HandledInOrder
<1>1. Init => ReportedInOrder
  BY DEF Init, ReportedInOrder, InOrder, Elements
<1>2. TypeOK /\ TypeOK' /\ ReportedInOrder /\ [Next]_vars => ReportedInOrder'
  <2> SUFFICES ASSUME TypeOK, TypeOK', ReportedInOrder, [Next]_vars PROVE ReportedInOrder'
    OBVIOUS
  <2>t. /\ eventQueue \in Seq(Events) /\ handled \in Seq(Events)
        /\ Elements(eventQueue) \subseteq Events /\ Elements(handled) \subseteq Events
    BY DEF TypeOK, Elements
  <2>q. \A x \in Events : /\ x # Slow => x.by \in Producers /\ x.n \in Nat
                          /\ Before(x, Slow) /\ Before(Slow, x)
    BY ProducersAssumption DEF Before, Events, Slow
  <2>p. \A p \in Producers : producer[p].n \in Nat
    BY DEF TypeOK
  <2>1. ASSUME NEW p \in Producers, NEW level \in Levels, New(p, level) PROVE ReportedInOrder'
    <3> DEFINE e == Event(p, producer[p].n + 1, level)
    <3>1. e \in Events /\ e.by = p /\ e.n = producer[p].n + 1 /\ e # Slow
      <4>1. producer[p].n + 1 \in 1..MaxEvents
        BY <2>1 DEF New, TypeOK
      <4> QED  BY <4>1, ProducersAssumption DEF Event, Events, Slow
    <3>2. Push(e) /\ UNCHANGED handled
      BY <2>1 DEF New
    <3>3. producer'[p].n = producer[p].n + 1 /\ \A q \in Producers : q # p => producer'[q] = producer[q]
      BY <2>1 DEF New, TypeOK
    <3> HIDE DEF e
    <3>4. \A x \in Elements(eventQueue) \cup Elements(handled) : Before(x, e)
      BY <2>t, <2>q, <2>p, <3>1 DEF ReportedInOrder, Before
    <3>5. /\ InOrder(eventQueue')
          /\ Elements(eventQueue') \subseteq Elements(eventQueue) \cup {Slow, e}
      BY <3>1, <3>2, <3>4, PushInOrder DEF ReportedInOrder
    <3>6. \A x \in Elements(handled), f \in Elements(eventQueue') : Before(x, f)
      BY <2>t, <2>q, <3>4, <3>5 DEF ReportedInOrder
    <3>7. \A x \in Elements(handled) \cup Elements(eventQueue') :
             x # Slow => x.n <= producer'[x.by].n
      <4> SUFFICES ASSUME NEW x \in Elements(handled) \cup Elements(eventQueue'), x # Slow
                   PROVE  x.n <= producer'[x.by].n
        OBVIOUS
      <4>1. CASE x = e
        BY <2>p, <3>1, <3>3, <4>1
      <4>2. CASE x # e
        <5>1. x.n <= producer[x.by].n /\ x.by \in Producers /\ x.n \in Nat
          BY <2>t, <2>q, <3>5, <4>2 DEF ReportedInOrder
        <5> QED  BY <2>p, <3>3, <5>1
      <4> QED  BY <4>1, <4>2
    <3> QED  BY <3>2, <3>5, <3>6, <3>7 DEF ReportedInOrder
  <2>2. CASE Handle
    <3> DEFINE e == Head(eventQueue)
    <3>1. /\ eventQueue # <<>> /\ eventQueue' = Tail(eventQueue) /\ handled' = Append(handled, e)
          /\ UNCHANGED producer
      BY <2>2 DEF Handle
    <3>2. /\ InOrder(Tail(eventQueue)) /\ e \in Elements(eventQueue)
          /\ Elements(Tail(eventQueue)) \subseteq Elements(eventQueue)
          /\ \A x \in Elements(Tail(eventQueue)) : Before(e, x)
      BY <2>t, <3>1, TailInOrder DEF ReportedInOrder
    <3> HIDE DEF e
    <3>3. InOrder(handled') /\ Elements(handled') = Elements(handled) \cup {e}
      BY <2>t, <3>1, <3>2, AppendInOrder DEF ReportedInOrder
    <3> QED  BY <3>1, <3>2, <3>3 DEF ReportedInOrder
  <2>3. CASE Ignore
    <3>1. eventQueue # <<>> /\ eventQueue' = Tail(eventQueue) /\ UNCHANGED <<handled, producer>>
      BY <2>3 DEF Ignore
    <3>2. InOrder(Tail(eventQueue)) /\ Elements(Tail(eventQueue)) \subseteq Elements(eventQueue)
      BY <2>t, <3>1, TailInOrder DEF ReportedInOrder
    <3> QED  BY <3>1, <3>2 DEF ReportedInOrder
  <2>4. ASSUME NEW p \in Producers, LookForToken(p) \/ SendToken(p) PROVE ReportedInOrder'
    <3>1. \A q \in Producers : producer'[q].n = producer[q].n
      <4>1. PICK where : producer' = [producer EXCEPT ![p].pc = where]
        BY <2>4 DEF LookForToken, SendToken
      <4> QED  BY <4>1 DEF TypeOK
    <3>2. UNCHANGED <<eventQueue, handled>>
      BY <2>4 DEF LookForToken, SendToken
    <3> QED  BY <2>t, <2>q, <3>1, <3>2 DEF ReportedInOrder
  <2>5. CASE QueueIsEmpty \/ ReceiveToken \/ UNCHANGED vars
    BY <2>5 DEF QueueIsEmpty, ReceiveToken, vars, ReportedInOrder
  <2> QED  BY <2>1, <2>2, <2>3, <2>4, <2>5 DEF Next, Run
<1>3. ReportedInOrder => HandledInOrder
  BY DEF ReportedInOrder, InOrder, Before, HandledInOrder
<1> QED  BY <1>1, <1>2, <1>3, TypeCorrect, PTL DEF Spec

=============================================================================
