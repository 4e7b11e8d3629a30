--------------------------- MODULE MonitoringProofs --------------------------
(***************************************************************************)
(* Proofs about Monitoring, for all topics, subscriptions and capacities   *)
(* of the channels.                                                        *)
(***************************************************************************)
EXTENDS Monitoring, Counting

USE EventCapAssumption, MaxPublishAssumption, TopicsAssumption

-----------------------------------------------------------------------------
(* Type correctness                                                         *)

LEMMA TypeStep == TypeOK /\ [Next]_vars => TypeOK'
<1> SUFFICES ASSUME TypeOK, [Next]_vars PROVE TypeOK'
  OBVIOUS
<1>t. /\ metrics \in [Topics -> Value]
      /\ pc \in {"built", "next", "send", "sleep"}
      /\ todo \subseteq Subscribed
      /\ measuring \in [topic : Subscribed \cup {Nil}, measure : Int]
      /\ pc = "send" <=> measuring.topic # Nil
      /\ eventCh \in [Subscribed -> Seq(Int)]
      /\ \A t \in Subscribed : Len(eventCh[t]) <= EventCap
      /\ callback \in [Subscribed -> Value]
      /\ listener \in [Listened -> Value]
      /\ gauge \in [Listened -> Nat]
      /\ published \in [Integral \cup Velocity -> Int]
      /\ count \in 0..MaxPublish
      /\ seen \in [Subscribed -> Int]
  BY DEF TypeOK
<1>n. Nil \notin Subscribed /\ Nil \notin Int
  BY DEF Topics
<1>v. \A v \in Value : v # Nil => v \in Int
  BY DEF Value
<1> USE DEF runVars, outside
<1>1. ASSUME NEW t \in Topics, Init(t) PROVE TypeOK'
  <2>1. metrics' \in [Topics -> Value]
    BY <1>1, <1>t DEF Init, Value
  <2> QED  BY <1>1, <1>t, <2>1 DEF Init, TypeOK
<1>2. ASSUME NEW t \in Integral \cup Velocity, NEW m \in {-1, 1}, Publish(t, m) PROVE TypeOK'
  <2>1. metrics[t] + m \in Int
    BY <1>2, <1>t, <1>v DEF Publish, Topics, Initialised
  <2>2. metrics' \in [Topics -> Value]
    BY <1>2, <1>t, <2>1 DEF Publish, Added, Value
  <2>3. published' \in [Integral \cup Velocity -> Int]
    BY <1>2, <1>t DEF Publish
  <2>4. count' \in 0..MaxPublish
    BY <1>2, <1>t DEF Publish
  <2> QED  BY <1>2, <1>t, <2>2, <2>3, <2>4 DEF Publish, TypeOK
<1>3. ASSUME NEW t \in Listened, GaugeMoves(t) PROVE TypeOK'
  <2>1. gauge' \in [Listened -> Nat]
    BY <1>3, <1>t DEF GaugeMoves
  <2>2. count' \in 0..MaxPublish
    BY <1>3, <1>t DEF GaugeMoves
  <2> QED  BY <1>3, <1>t, <2>1, <2>2 DEF GaugeMoves, TypeOK
<1>4. ASSUME NEW t \in Listened, ReadGauge(t) PROVE TypeOK'
  <2>1. listener' \in [Listened -> Value]
    BY <1>4, <1>t DEF ReadGauge, Value
  <2> QED  BY <1>4, <1>t, <2>1 DEF ReadGauge, TypeOK
<1>5. ASSUME NEW t \in Listened, SetGauge(t) PROVE TypeOK'
  <2>1. metrics' \in [Topics -> Value] /\ listener' \in [Listened -> Value]
    BY <1>5, <1>t DEF SetGauge, Value
  <2> QED  BY <1>5, <1>t, <2>1 DEF SetGauge, TypeOK
<1>6. CASE StartRound
  BY <1>6, <1>t DEF StartRound, TypeOK
<1>7. ASSUME NEW t \in Subscribed, SkipMissing(t) PROVE TypeOK'
  BY <1>7, <1>t DEF SkipMissing, TypeOK
<1>8. ASSUME NEW t \in Subscribed, Measure(t) PROVE TypeOK'
  <2>1. metrics[t] \in Int
    BY <1>8, <1>t, <1>v DEF Measure, Topics
  <2>2. measuring' = [topic |-> t, measure |-> metrics[t]]
    BY <1>8 DEF Measure
  <2>3. measuring' \in [topic : Subscribed \cup {Nil}, measure : Int] /\ measuring'.topic # Nil
    BY <1>n, <2>1, <2>2
  <2>4. metrics' \in [Topics -> Value]
    <3>1. LeftByGet(t) \in Value
      BY <2>1 DEF LeftByGet, Value
    <3>2. metrics' = [metrics EXCEPT ![t] = LeftByGet(t)]
      BY <1>8 DEF Measure
    <3> QED  BY <1>t, <3>1, <3>2
  <2> QED  BY <1>8, <1>t, <2>3, <2>4 DEF Measure, TypeOK
<1>9. CASE Send
  <2> DEFINE t == measuring.topic
  <2>1. t \in Subscribed /\ measuring.measure \in Int
    BY <1>9, <1>t DEF Send
  <2>2. /\ Len(eventCh[t]) < EventCap
        /\ eventCh' = [eventCh EXCEPT ![t] = Append(@, measuring.measure)]
        /\ pc' = "next"
    BY <1>9 DEF Send
  <2>3. measuring' = [topic |-> Nil, measure |-> 0]
    BY <1>9 DEF Send, Idle
  <2>4. UNCHANGED <<metrics, todo, callback, listener, outside, seen>>
    BY <1>9 DEF Send
  <2> HIDE DEF t
  <2>5. eventCh' \in [Subscribed -> Seq(Int)]
    BY <1>t, <2>1, <2>2
  <2>6. \A u \in Subscribed : Len(eventCh'[u]) <= EventCap
    BY <1>t, <2>1, <2>2
  <2> QED  BY <1>t, <2>2, <2>3, <2>4, <2>5, <2>6 DEF TypeOK
<1>10. CASE EndRound
  BY <1>10, <1>t DEF EndRound, TypeOK
<1>11. ASSUME NEW t \in Subscribed, CallBack(t) PROVE TypeOK'
  <2>1. eventCh[t] \in Seq(Int) /\ eventCh[t] # <<>>
    BY <1>11, <1>t DEF CallBack
  <2>2. /\ Head(eventCh[t]) \in Int /\ Tail(eventCh[t]) \in Seq(Int)
        /\ Len(Tail(eventCh[t])) <= Len(eventCh[t])
    BY <2>1
  <2>3. eventCh' = [eventCh EXCEPT ![t] = Tail(@)]
    BY <1>11 DEF CallBack
  <2>4. eventCh' \in [Subscribed -> Seq(Int)]
    BY <1>t, <2>2, <2>3
  <2>5. \A u \in Subscribed : Len(eventCh'[u]) <= EventCap
    BY <1>t, <2>1, <2>2, <2>3
  <2>6. callback' \in [Subscribed -> Value]
    BY <1>11, <1>t, <2>2 DEF CallBack, Value
  <2> QED  BY <1>11, <1>t, <2>4, <2>5, <2>6 DEF CallBack, TypeOK
<1>12. ASSUME NEW t \in Subscribed, Returns(t) PROVE TypeOK'
  <2>1. callback[t] \in Int
    BY <1>12, <1>t, <1>v DEF Returns
  <2>2. seen' \in [Subscribed -> Int] /\ callback' \in [Subscribed -> Value]
    BY <1>12, <1>t, <2>1 DEF Returns, Value
  <2> QED  BY <1>12, <1>t, <2>2 DEF Returns, TypeOK
<1>13. CASE UNCHANGED vars
  BY <1>13, <1>t DEF vars, TypeOK
<1> QED
  BY <1>1, <1>2, <1>3, <1>4, <1>5, <1>6, <1>7, <1>8, <1>9, <1>10, <1>11, <1>12, <1>13
     DEF Next, Run, Listen, Subscriber

(* Every metric, channel and callback holds what its type says, and the     *)
(* blocking send keeps every channel within EventCap.                       *)
THEOREM TypeCorrect == Spec => []TypeOK
<1>1. New => TypeOK
  <2> SUFFICES ASSUME New PROVE TypeOK
    OBVIOUS
  <2>1. <<>> \in Seq(Int) /\ Len(<<>>) = 0
    OBVIOUS
  <2>2. eventCh \in [Subscribed -> Seq(Int)] /\ \A t \in Subscribed : Len(eventCh[t]) <= EventCap
    BY <2>1 DEF New
  <2>3. measuring.topic = Nil /\ measuring \in [topic : Subscribed \cup {Nil}, measure : Int]
    BY DEF New, Idle
  <2> QED  BY <2>2, <2>3 DEF New, TypeOK, Value
<1> QED  BY <1>1, TypeStep, PTL DEF Spec

-----------------------------------------------------------------------------
(* The sum of a channel                                                     *)

Ranges(s) == [i \in DOMAIN s |-> 1..s[i]]

Summed(s) == IsFiniteSet(Places(Ranges(s)))

LEMMA TotalOfPlaces == ASSUME NEW s PROVE Total(s) = Cardinality(Places(Ranges(s)))
<1>1. UNION {{<<i, n>> : n \in 1..s[i]} : i \in DOMAIN s} = Places(Ranges(s))
  BY DEF Places, PlacesAt, Ranges
<1> QED  BY <1>1, Zenon DEF Total

LEMMA TotalIsNat == ASSUME NEW s, Summed(s) PROVE Total(s) \in Nat
  BY TotalOfPlaces, FS_CardinalityType DEF Summed

LEMMA SizeOfRange == ASSUME NEW n \in Nat PROVE IsFiniteSet(1..n) /\ Cardinality(1..n) = n
<1>1. IsFiniteSet(1..n) /\ Cardinality(1..n) = IF 1 > n THEN 0 ELSE n - 1 + 1
  BY FS_Interval
<1>2. (IF 1 > n THEN 0 ELSE n - 1 + 1) = n
  OBVIOUS
<1> QED  BY <1>1, <1>2

LEMMA TotalAppend ==
    ASSUME NEW s \in Seq(Nat), NEW n \in Nat, Summed(s)
    PROVE  Summed(Append(s, n)) /\ Total(Append(s, n)) = Total(s) + n
<1> DEFINE k == Len(s) + 1
           r == Append(s, n)
<1>1. /\ DOMAIN s = 1..Len(s) /\ DOMAIN r = DOMAIN s \cup {k} /\ k \notin DOMAIN s
      /\ r[k] = n /\ \A i \in DOMAIN s : r[i] = s[i]
  OBVIOUS
<1> HIDE DEF k, r
<1>2. /\ k \notin DOMAIN Ranges(s) /\ DOMAIN Ranges(r) = DOMAIN Ranges(s) \cup {k}
      /\ \A i \in DOMAIN Ranges(s) : Ranges(r)[i] = Ranges(s)[i]
      /\ Ranges(r)[k] = 1..n
  BY <1>1 DEF Ranges
<1>3. Extends(Ranges(r), Ranges(s), k, 1..n)
  <2>1. Extends(Ranges(r), Ranges(s), k, Ranges(r)[k])
    BY <1>2, ExtendsAtNew
  <2> QED  BY <1>2, <2>1
<1>4. IsFiniteSet(1..n) /\ Cardinality(1..n) = n
  BY SizeOfRange
<1>5. IsFiniteSet(Places(Ranges(s)))
  BY DEF Summed
<1>6. /\ IsFiniteSet(Places(Ranges(r)))
      /\ Cardinality(Places(Ranges(r))) = Cardinality(Places(Ranges(s))) + Cardinality(1..n)
  BY <1>3, <1>4, <1>5, CountMore
<1>7. Summed(r) /\ Total(r) = Total(s) + n
  BY <1>4, <1>6, TotalOfPlaces DEF Summed
<1> QED  BY <1>7 DEF r

LEMMA TotalTail ==
    ASSUME NEW s \in Seq(Nat), s # <<>>, Summed(s)
    PROVE  Summed(Tail(s)) /\ Total(Tail(s)) = Total(s) - Head(s)
<1> DEFINE n == Len(s)
           t == Tail(s)
<1>1. /\ n \in Nat \ {0} /\ DOMAIN s = 1..n /\ s[1] = Head(s) /\ Head(s) \in Nat
      /\ DOMAIN t = 1..(n - 1) /\ \A i \in 1..(n - 1) : t[i] = s[i + 1]
  OBVIOUS
<1> HIDE DEF n, t
<1>2. IsFiniteSet(1..Head(s)) /\ Cardinality(1..Head(s)) = Head(s)
  BY <1>1, SizeOfRange
<1> DEFINE f == Ranges(s)
           u == Ranges(t)
<1>3. DOMAIN f = 1..n /\ DOMAIN u = 1..(n - 1) /\ f[1] = 1..Head(s)
  BY <1>1 DEF Ranges
<1>4. \A i \in 1..(n - 1) : u[i] = f[i + 1]
  BY <1>1 DEF Ranges
<1>5. IsFiniteSet(Places(f)) /\ IsFiniteSet(f[1])
  BY <1>2, <1>3 DEF Summed
<1> HIDE DEF f, u
<1>6. /\ IsFiniteSet(Places(u))
      /\ Cardinality(Places(u)) = Cardinality(Places(f)) - Cardinality(f[1])
  <2>1. /\ n \in Nat \ {0} /\ DOMAIN f = 1..n /\ DOMAIN u = 1..(n - 1)
        /\ \A i \in 1..(n - 1) : u[i] = f[i + 1]
        /\ IsFiniteSet(f[1]) /\ IsFiniteSet(Places(f))
    BY <1>1, <1>3, <1>4, <1>5
  <2> QED  BY <2>1, CountWithoutFirst
<1>7. Total(s) = Cardinality(Places(f)) /\ Total(t) = Cardinality(Places(u))
  BY TotalOfPlaces, Zenon DEF f, u
<1>8. Total(t) = Total(s) - Head(s)
  BY <1>2, <1>3, <1>6, <1>7
<1>9. Summed(t)
  BY <1>6 DEF Summed, u
<1> QED  BY <1>8, <1>9 DEF t

-----------------------------------------------------------------------------
(* Rates                                                                    *)

(* A rate counts what happened: no number of events on its way is negative, *)
(* and there are finitely many to sum.                                      *)
NoNegativeRate(t) ==
    /\ metrics[t] # Nil => metrics[t] \in Nat
    /\ measuring.topic = t => measuring.measure \in Nat
    /\ eventCh[t] \in Seq(Nat) /\ Summed(eventCh[t])
    /\ callback[t] # Nil => callback[t] \in Nat

Balanced(t) == published[t] = OrZero(metrics[t]) + Underway(t) + seen[t]

RatesInv == \A t \in Velocity \cap Subscribed : NoNegativeRate(t) /\ Balanced(t)

LEMMA RatesStep == TypeOK /\ RatesInv /\ [Next]_vars => RatesInv'
<1> SUFFICES ASSUME TypeOK, RatesInv, [Next]_vars, NEW t \in Velocity, t \in Subscribed
             PROVE  NoNegativeRate(t)' /\ Balanced(t)'
  BY DEF RatesInv
<1> DEFINE M == OrZero(metrics[t])
           U == IF measuring.topic = t THEN measuring.measure ELSE 0
           E == Total(eventCh[t])
           C == OrZero(callback[t])
<1>t. /\ metrics \in [Topics -> Value]
      /\ pc = "send" <=> measuring.topic # Nil
      /\ measuring \in [topic : Subscribed \cup {Nil}, measure : Int]
      /\ eventCh \in [Subscribed -> Seq(Int)]
      /\ callback \in [Subscribed -> Value]
      /\ published \in [Integral \cup Velocity -> Int]
      /\ seen \in [Subscribed -> Int]
  BY DEF TypeOK
<1>k. t \in Topics /\ t # Nil /\ t \notin Integral /\ t \notin Listened /\ Nil \notin Int
  BY DEF Topics
<1>n. /\ metrics[t] # Nil => metrics[t] \in Nat
      /\ measuring.topic = t => measuring.measure \in Nat
      /\ eventCh[t] \in Seq(Nat) /\ Summed(eventCh[t])
      /\ callback[t] # Nil => callback[t] \in Nat
  BY DEF RatesInv, NoNegativeRate
<1>b. published[t] = (M + (U + E + C)) + seen[t]
  BY DEF RatesInv, Balanced, Underway
<1>i. M \in Nat /\ U \in Nat /\ E \in Nat /\ C \in Nat /\ seen[t] \in Int
  <2>1. E \in Nat
    BY <1>n, TotalIsNat
  <2> QED  BY <1>n, <1>t, <2>1 DEF OrZero
(* Nothing moved that this rate is about.                                   *)
<1>f. ASSUME metrics'[t] = metrics[t], eventCh'[t] = eventCh[t], callback'[t] = callback[t],
             published'[t] = published[t], seen'[t] = seen[t],
             measuring' = measuring \/ (measuring.topic # t /\ measuring'.topic # t)
      PROVE  NoNegativeRate(t)' /\ Balanced(t)'
  <2>1. NoNegativeRate(t)'
    BY <1>n, <1>f DEF NoNegativeRate
  <2>2. OrZero(metrics'[t]) = M /\ OrZero(callback'[t]) = C /\ Total(eventCh'[t]) = E
    BY <1>f
  <2>3. (IF measuring'.topic = t THEN measuring'.measure ELSE 0) = U
    BY <1>f
  <2> HIDE DEF M, U, E, C
  <2>4. published'[t] = (M + (U + E + C)) + seen'[t]
    BY <1>b, <1>f
  <2>5. Balanced(t)'
    BY <2>2, <2>3, <2>4, Zenon DEF Balanced, Underway
  <2> QED  BY <2>1, <2>5
(* What this rate is about, term by term.                                   *)
<1>q. ASSUME NEW m \in Nat, NEW u \in Nat, NEW e \in Nat, NEW c \in Nat,
             OrZero(metrics'[t]) = m,
             (IF measuring'.topic = t THEN measuring'.measure ELSE 0) = u,
             Total(eventCh'[t]) = e, OrZero(callback'[t]) = c,
             published'[t] = (m + (u + e + c)) + seen'[t]
      PROVE  Balanced(t)'
  BY <1>q, Zenon DEF Balanced, Underway
<1> HIDE DEF M, U, E, C
<1> USE DEF runVars, outside
<1>1. ASSUME NEW u \in Topics, Init(u) PROVE NoNegativeRate(t)' /\ Balanced(t)'
  <2>0. UNCHANGED <<measuring, eventCh, callback, published, seen>>
    BY <1>1 DEF Init
  <2>1. CASE u # t
    <3>1. metrics'[t] = metrics[t]
      BY <1>1, <1>t, <1>k, <2>1 DEF Init
    <3> QED  BY <1>f, <2>0, <3>1
  <2>2. CASE u = t
    <3>1. metrics[t] = Nil /\ metrics'[t] = 0
      BY <1>1, <1>t, <1>k, <2>2 DEF Init
    <3>2. M = 0 /\ OrZero(metrics'[t]) = 0
      BY <3>1 DEF M, OrZero
    <3>3. NoNegativeRate(t)'
      BY <1>n, <2>0, <3>1 DEF NoNegativeRate
    <3>4. /\ (IF measuring'.topic = t THEN measuring'.measure ELSE 0) = U
          /\ Total(eventCh'[t]) = E /\ OrZero(callback'[t]) = C
      BY <2>0 DEF U, E, C
    <3>5. published'[t] = (0 + (U + E + C)) + seen'[t]
      BY <1>b, <2>0, <3>2
    <3> QED  BY <1>i, <1>q, <3>2, <3>3, <3>4, <3>5
  <2> QED  BY <2>1, <2>2
<1>2. ASSUME NEW u \in Integral \cup Velocity, NEW d \in {-1, 1}, Publish(u, d),
             u \in Velocity => d = 1
      PROVE  NoNegativeRate(t)' /\ Balanced(t)'
  <2>0. UNCHANGED <<measuring, eventCh, callback, seen>>
    BY <1>2 DEF Publish
  <2>1. CASE u # t
    <3>1. metrics'[t] = metrics[t] /\ published'[t] = published[t]
      BY <1>2, <1>t, <1>k, <2>1 DEF Publish
    <3> QED  BY <1>f, <2>0, <3>1
  <2>2. CASE u = t
    <3>1. /\ metrics[t] # Nil /\ metrics'[t] = metrics[t] + 1
          /\ published'[t] = published[t] + 1
      BY <1>2, <1>t, <1>k, <2>2 DEF Publish, Added
    <3>2. metrics[t] \in Nat /\ metrics'[t] \in Nat /\ metrics'[t] # Nil
      BY <1>n, <1>k, <3>1
    <3>3. M = metrics[t] /\ OrZero(metrics'[t]) = M + 1
      BY <3>1, <3>2 DEF M, OrZero
    <3>4. NoNegativeRate(t)'
      BY <1>n, <2>0, <3>2 DEF NoNegativeRate
    <3>5. /\ (IF measuring'.topic = t THEN measuring'.measure ELSE 0) = U
          /\ Total(eventCh'[t]) = E /\ OrZero(callback'[t]) = C /\ seen'[t] = seen[t]
      BY <2>0 DEF U, E, C
    <3>6. published'[t] = ((M + 1) + (U + E + C)) + seen'[t] /\ M + 1 \in Nat
      BY <1>b, <1>i, <3>1, <3>5
    <3> QED  BY <1>i, <1>q, <3>3, <3>4, <3>5, <3>6
  <2> QED  BY <2>1, <2>2
<1>3. ASSUME NEW u \in Listened, GaugeMoves(u) \/ ReadGauge(u)
      PROVE  NoNegativeRate(t)' /\ Balanced(t)'
  BY <1>3, <1>f DEF GaugeMoves, ReadGauge
<1>4. ASSUME NEW u \in Listened, SetGauge(u) PROVE NoNegativeRate(t)' /\ Balanced(t)'
  <2>1. metrics'[t] = metrics[t]
    BY <1>4, <1>t, <1>k DEF SetGauge
  <2> QED  BY <1>4, <1>f, <2>1 DEF SetGauge
<1>5. CASE StartRound \/ EndRound \/ (\E u \in Subscribed : SkipMissing(u)) \/ UNCHANGED vars
  <2>1. UNCHANGED <<metrics, measuring, eventCh, callback, published, seen>>
    BY <1>5 DEF StartRound, EndRound, SkipMissing, vars
  <2> QED  BY <1>f, <2>1
<1>6. ASSUME NEW u \in Subscribed, Measure(u) PROVE NoNegativeRate(t)' /\ Balanced(t)'
  <2>0. /\ UNCHANGED <<eventCh, callback, published, seen>>
        /\ measuring' = [topic |-> u, measure |-> metrics[u]] /\ measuring.topic = Nil
        /\ metrics' = [metrics EXCEPT ![u] = LeftByGet(u)]
    BY <1>6, <1>t DEF Measure
  <2>1. CASE u # t
    <3>1. metrics'[t] = metrics[t]
      BY <1>t, <1>k, <2>0, <2>1
    <3>2. measuring.topic # t /\ measuring'.topic # t
      BY <1>k, <2>0, <2>1
    <3> QED  BY <1>f, <2>0, <3>1, <3>2
  <2>2. CASE u = t
    <3>1. metrics[t] # Nil /\ metrics[t] \in Nat
      BY <1>6, <1>n, <2>2 DEF Measure
    <3>2. metrics'[t] = 0 /\ measuring'.topic = t /\ measuring'.measure = metrics[t]
      BY <1>t, <1>k, <2>0, <2>2 DEF LeftByGet
    <3>3. M = metrics[t] /\ U = 0 /\ OrZero(metrics'[t]) = 0
      BY <1>k, <2>0, <3>1, <3>2 DEF M, U, OrZero
    <3>4. NoNegativeRate(t)'
      BY <1>n, <2>0, <3>1, <3>2 DEF NoNegativeRate
    <3>5. /\ (IF measuring'.topic = t THEN measuring'.measure ELSE 0) = M
          /\ Total(eventCh'[t]) = E /\ OrZero(callback'[t]) = C /\ seen'[t] = seen[t]
          /\ published'[t] = published[t]
      BY <2>0, <3>2, <3>3 DEF E, C
    <3>6. published'[t] = (0 + (M + E + C)) + seen'[t]
      BY <1>b, <1>i, <3>3, <3>5
    <3> QED  BY <1>i, <1>q, <3>3, <3>4, <3>5, <3>6
  <2> QED  BY <2>1, <2>2
<1>7. CASE Send
  <2> DEFINE n == measuring.measure
  <2>0. /\ UNCHANGED <<metrics, callback, published, seen>>
        /\ eventCh' = [eventCh EXCEPT ![measuring.topic] = Append(@, n)]
        /\ measuring'.topic = Nil
    BY <1>7 DEF Send, Idle
  <2>1. CASE measuring.topic # t
    <3>1. eventCh'[t] = eventCh[t]
      BY <1>t, <2>0, <2>1
    <3> QED  BY <1>f, <1>k, <2>0, <2>1, <3>1
  <2>2. CASE measuring.topic = t
    <3>1. n \in Nat /\ U = n
      BY <1>n, <2>2 DEF U
    <3>2. eventCh'[t] = Append(eventCh[t], n)
      BY <1>t, <2>0, <2>2
    <3> HIDE DEF n
    <3>3. Summed(eventCh'[t]) /\ Total(eventCh'[t]) = E + U
      BY <1>n, <3>1, <3>2, TotalAppend DEF E
    <3>4. eventCh'[t] \in Seq(Nat)
      BY <1>n, <3>1, <3>2
    <3>5. NoNegativeRate(t)'
      BY <1>n, <1>k, <2>0, <3>3, <3>4 DEF NoNegativeRate
    <3>6. /\ (IF measuring'.topic = t THEN measuring'.measure ELSE 0) = 0
          /\ OrZero(metrics'[t]) = M /\ OrZero(callback'[t]) = C /\ seen'[t] = seen[t]
          /\ published'[t] = published[t]
      BY <1>k, <2>0 DEF M, C
    <3>7. published'[t] = (M + (0 + (E + U) + C)) + seen'[t] /\ E + U \in Nat
      BY <1>b, <1>i, <3>6
    <3> QED  BY <1>i, <1>q, <3>3, <3>5, <3>6, <3>7
  <2> QED  BY <2>1, <2>2
<1>8. ASSUME NEW u \in Subscribed, CallBack(u) PROVE NoNegativeRate(t)' /\ Balanced(t)'
  <2>0. /\ UNCHANGED <<metrics, measuring, published, seen>>
        /\ callback' = [callback EXCEPT ![u] = Head(eventCh[u])]
        /\ eventCh' = [eventCh EXCEPT ![u] = Tail(@)]
    BY <1>8 DEF CallBack
  <2>1. CASE u # t
    <3>1. eventCh'[t] = eventCh[t] /\ callback'[t] = callback[t]
      BY <1>t, <2>0, <2>1
    <3> QED  BY <1>f, <2>0, <3>1
  <2>2. CASE u = t
    <3> DEFINE h == Head(eventCh[t])
    <3>1. callback[t] = Nil /\ eventCh[t] # <<>> /\ callback'[t] = h /\ eventCh'[t] = Tail(eventCh[t])
      BY <1>8, <1>t, <2>0, <2>2 DEF CallBack
    <3>2. h \in Nat /\ Tail(eventCh[t]) \in Seq(Nat)
      BY <1>n, <3>1
    <3>3. Summed(eventCh'[t]) /\ Total(eventCh'[t]) = E - h
      BY <1>n, <3>1, TotalTail DEF E
    <3> HIDE DEF h
    <3>4. E - h \in Nat
      BY <3>3, TotalIsNat
    <3>5. C = 0 /\ OrZero(callback'[t]) = h
      BY <1>k, <3>1, <3>2 DEF C, OrZero
    <3>6. NoNegativeRate(t)'
      BY <1>n, <2>0, <3>1, <3>2, <3>3 DEF NoNegativeRate
    <3>7. /\ (IF measuring'.topic = t THEN measuring'.measure ELSE 0) = U
          /\ OrZero(metrics'[t]) = M /\ seen'[t] = seen[t] /\ published'[t] = published[t]
      BY <2>0 DEF M, U
    <3> DEFINE e == E - h
    <3>8. /\ e \in Nat /\ Total(eventCh'[t]) = e
          /\ published'[t] = (M + (U + e + h)) + seen'[t]
      BY <1>b, <1>i, <3>2, <3>3, <3>4, <3>5, <3>7
    <3> HIDE DEF e
    <3>9. Balanced(t)'
      BY <3>5, <3>7, <3>8, Zenon DEF Balanced, Underway
    <3> QED  BY <3>6, <3>9
  <2> QED  BY <2>1, <2>2
<1>9. ASSUME NEW u \in Subscribed, Returns(u) PROVE NoNegativeRate(t)' /\ Balanced(t)'
  <2>0. /\ UNCHANGED <<metrics, measuring, published, eventCh>>
        /\ callback[u] # Nil /\ callback' = [callback EXCEPT ![u] = Nil]
        /\ seen' = [seen EXCEPT ![u] = IF u \in Velocity THEN @ + callback[u] ELSE callback[u]]
    BY <1>9 DEF Returns
  <2>1. CASE u # t
    <3>1. seen'[t] = seen[t] /\ callback'[t] = callback[t]
      BY <1>t, <2>0, <2>1
    <3> QED  BY <1>f, <2>0, <3>1
  <2>2. CASE u = t
    <3>1. callback[t] \in Nat /\ callback'[t] = Nil /\ seen'[t] = seen[t] + callback[t]
      BY <1>n, <1>t, <2>0, <2>2
    <3>2. C = callback[t] /\ OrZero(callback'[t]) = 0
      BY <2>0, <2>2, <3>1 DEF C, OrZero
    <3>3. NoNegativeRate(t)'
      BY <1>n, <2>0, <3>1 DEF NoNegativeRate
    <3>4. /\ (IF measuring'.topic = t THEN measuring'.measure ELSE 0) = U
          /\ OrZero(metrics'[t]) = M /\ Total(eventCh'[t]) = E /\ published'[t] = published[t]
      BY <2>0 DEF M, U, E
    <3>5. published'[t] = (M + (U + E + 0)) + seen'[t]
      BY <1>b, <1>i, <3>1, <3>2, <3>4
    <3> QED  BY <1>i, <1>q, <3>2, <3>3, <3>4, <3>5
  <2> QED  BY <2>1, <2>2
<1> QED
  BY <1>1, <1>2, <1>3, <1>4, <1>5, <1>6, <1>7, <1>8, <1>9
     DEF Next, Run, Listen, Subscriber

(* Every measurement published to a rate is in its metric, on its way to    *)
(* the subscriber or was seen by it, and only once: a publication that      *)
(* falls between Run's Get and its send is counted in the next round.       *)
THEOREM RatesAreExact == Spec => []NothingUncounted
<1>1. New => RatesInv
  <2> SUFFICES ASSUME New, NEW t \in Velocity, t \in Subscribed
               PROVE  NoNegativeRate(t) /\ Balanced(t)
    BY DEF RatesInv
  <2>1. t \in Topics /\ t # Nil /\ Nil \notin Int
    BY DEF Topics
  <2>2. /\ metrics[t] = Nil /\ measuring.topic = Nil /\ eventCh[t] = <<>> /\ callback[t] = Nil
        /\ published[t] = 0 /\ seen[t] = 0
    BY <2>1 DEF New, Idle
  <2>3. Places(Ranges(<<>>)) = {}
    <3>1. DOMAIN <<>> = {}
      OBVIOUS
    <3> QED  BY <3>1 DEF Places, Ranges
  <2>4. Summed(<<>>) /\ Total(<<>>) = 0 /\ <<>> \in Seq(Nat)
    <3>1. Cardinality(Places(Ranges(<<>>))) = 0 /\ IsFiniteSet(Places(Ranges(<<>>)))
      BY <2>3, FS_EmptySet
    <3>2. Total(<<>>) = 0
      BY <3>1, TotalOfPlaces, Zenon
    <3>3. <<>> \in Seq(Nat)
      OBVIOUS
    <3> QED  BY <3>1, <3>2, <3>3 DEF Summed
  <2>5. NoNegativeRate(t)
    BY <2>1, <2>2, <2>4 DEF NoNegativeRate
  <2>6. OrZero(metrics[t]) = 0 /\ OrZero(callback[t]) = 0 /\ Total(eventCh[t]) = 0
    BY <2>2, <2>4 DEF OrZero
  <2>7. Underway(t) = 0
    BY <2>1, <2>2, <2>6 DEF Underway
  <2>8. Balanced(t)
    BY <2>2, <2>6, <2>7 DEF Balanced
  <2> QED  BY <2>5, <2>8
<1>2. TypeOK /\ RatesInv /\ [Next]_vars => RatesInv'
  BY RatesStep
<1>3. RatesInv => NothingUncounted
  BY DEF RatesInv, NothingUncounted, Balanced
<1> QED  BY <1>1, <1>2, <1>3, TypeCorrect, PTL DEF Spec

=============================================================================
