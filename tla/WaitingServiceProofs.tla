------------------------ MODULE WaitingServiceProofs ------------------------
(***************************************************************************)
(* What the waiting loop guarantees for every set of ids and times, every  *)
(* number of clients and every greedy limit.                               *)
(***************************************************************************)
EXTENDS WaitingService, SequenceTheorems, TLAPS

(* ------------------------------ the list ------------------------------- *)

(* Add keeps the list's type and its index live.                            *)
LEMMA AddType ==
    ASSUME NEW l \in TaskList, IndexIsLive(l), NEW t \in Task
    PROVE  Add(l, t) \in TaskList /\ IndexIsLive(Add(l, t))
<1>1. t.id \in Ids
  BY DEF Task
<1>2. Add(l, t) \in TaskList
  BY <1>1 DEF Add, TaskList
<1>3. IndexIsLive(Add(l, t))
  <2> SUFFICES ASSUME NEW id \in Ids, Add(l, t).index[id] # Nil
               PROVE  /\ Add(l, t).index[id].id = id
                      /\ Has(Add(l, t), Add(l, t).index[id])
    BY DEF IndexIsLive
  <2>1. CASE id = t.id
    BY <1>1, <2>1 DEF Add, TaskList, Has
  <2>2. CASE id # t.id
    <3>1. l.index[id] \in Task /\ l.index[id].id = id /\ Has(l, l.index[id])
      BY <1>1, <2>2 DEF Add, TaskList, IndexIsLive
    <3> QED  BY <1>1, <2>2, <3>1 DEF Add, TaskList, Has
  <2> QED  BY <2>1, <2>2
<1> QED  BY <1>2, <1>3

(* Add adds its task and removes none.                                      *)
LEMMA AddHas ==
    ASSUME NEW l \in TaskList, NEW t \in Task, NEW u \in Task
    PROVE  Has(Add(l, t), u) <=> (u = t \/ Has(l, u))
BY DEF Add, TaskList, Has

(* Taking a task of the list keeps the type: the removed item was there.    *)
LEMMA TakeType ==
    ASSUME NEW l \in TaskList, IndexIsLive(l), NEW t \in Task, Has(l, t)
    PROVE  Take(l, t) \in TaskList /\ IndexIsLive(Take(l, t))
<1>1. t.id \in Ids
  BY DEF Task
<1>2. l.pq[t] - 1 \in Nat
  BY DEF TaskList, Has
<1>3. Take(l, t) \in TaskList
  BY <1>1, <1>2 DEF Take, TaskList
<1>4. IndexIsLive(Take(l, t))
  <2> SUFFICES ASSUME NEW id \in Ids, Take(l, t).index[id] # Nil
               PROVE  /\ Take(l, t).index[id].id = id
                      /\ Has(Take(l, t), Take(l, t).index[id])
    BY DEF IndexIsLive
  <2>1. id # t.id
    BY <1>1 DEF Take, TaskList
  <2>2. l.index[id] \in Task /\ l.index[id].id = id /\ Has(l, l.index[id])
    BY <1>1, <2>1 DEF Take, TaskList, IndexIsLive
  <2> QED  BY <1>1, <2>1, <2>2 DEF Take, TaskList, Has
<1> QED  BY <1>3, <1>4

(* Take removes at most its own task.                                       *)
LEMMA TakeHas ==
    ASSUME NEW l \in TaskList, NEW t \in Task, NEW u \in Task
    PROVE  /\ Has(Take(l, t), u) => Has(l, u)
           /\ u # t /\ Has(l, u) => Has(Take(l, t), u)
BY DEF Take, TaskList, Has

(* DeleteIfExist keeps the list's type and its index live.                  *)
LEMMA DeleteType ==
    ASSUME NEW l \in TaskList, IndexIsLive(l), NEW id \in Ids
    PROVE  DeleteIfExist(l, id) \in TaskList /\ IndexIsLive(DeleteIfExist(l, id))
<1>1. CASE l.index[id] = Nil
  BY <1>1 DEF DeleteIfExist
<1>2. CASE l.index[id] # Nil
  <2>1. /\ l.index[id] \in Task
        /\ l.index[id].id = id
        /\ Has(l, l.index[id])
    BY <1>2 DEF TaskList, IndexIsLive
  <2>2. DeleteIfExist(l, id) = Take(l, l.index[id])
    BY <1>2, <2>1 DEF DeleteIfExist, Take
  <2> QED  BY <2>1, <2>2, TakeType
<1> QED  BY <1>1, <1>2

(* DeleteIfExist removes no task of another id.                             *)
LEMMA DeleteHas ==
    ASSUME NEW l \in TaskList, IndexIsLive(l), NEW id \in Ids, NEW u \in Task,
           u.id # id, Has(l, u)
    PROVE  Has(DeleteIfExist(l, id), u)
<1>1. CASE l.index[id] = Nil
  BY <1>1 DEF DeleteIfExist
<1>2. CASE l.index[id] # Nil
  <2>1. l.index[id] \in Task /\ l.index[id].id = id
    BY <1>2 DEF TaskList, IndexIsLive
  <2>2. DeleteIfExist(l, id) = Take(l, l.index[id])
    BY <1>2, <2>1 DEF DeleteIfExist, Take
  <2> QED  BY <2>1, <2>2, TakeHas
<1> QED  BY <1>1, <1>2

(* What the operations of the list do to the number of copies.              *)
LEMMA ListCounts ==
    ASSUME NEW l \in TaskList, NEW t \in Task, NEW u \in Task
    PROVE  /\ l.pq[u] \in Nat
           /\ Add(l, t).pq[u] = l.pq[u] + One(t = u)
           /\ Take(l, t).pq[u] = l.pq[u] - One(t = u)
<1>1. l.pq \in [Task -> Nat]
  BY DEF TaskList
<1>2. Add(l, t).pq = [l.pq EXCEPT ![t] = @ + 1] /\ Take(l, t).pq = [l.pq EXCEPT ![t] = @ - 1]
  BY DEF Add, Take
<1> QED  BY <1>1, <1>2 DEF One

(* A cancellation takes copies of its own id only.                          *)
LEMMA DeleteCounts ==
    ASSUME NEW l \in TaskList, IndexIsLive(l), NEW id \in Ids, NEW u \in Task
    PROVE  /\ DeleteIfExist(l, id).pq[u] \in Nat
           /\ DeleteIfExist(l, id).pq[u] <= l.pq[u]
           /\ u.id # id => DeleteIfExist(l, id).pq[u] = l.pq[u]
<1>1. DeleteIfExist(l, id) \in TaskList
  BY DeleteType
<1>2. CASE l.index[id] = Nil
  BY <1>1, <1>2, ListCounts DEF DeleteIfExist
<1>3. CASE l.index[id] # Nil
  <2>1. l.index[id] \in Task /\ l.index[id].id = id
    BY <1>3 DEF TaskList, IndexIsLive
  <2>2. DeleteIfExist(l, id) = Take(l, l.index[id])
    BY <1>3, <2>1 DEF DeleteIfExist, Take
  <2>3. l.pq[u] \in Nat /\ DeleteIfExist(l, id).pq[u] = l.pq[u] - One(l.index[id] = u)
    BY <2>1, <2>2, ListCounts
  <2>4. DeleteIfExist(l, id).pq[u] \in Nat
    BY <1>1, ListCounts
  <2> QED  BY <2>1, <2>3, <2>4 DEF One
<1> QED  BY <1>2, <1>3

(* ----------------------------- channels -------------------------------- *)

(* Sending puts the element in the channel and keeps the others.            *)
LEMMA SendElements ==
    ASSUME NEW S, NEW ch \in Seq(S), NEW x \in S
    PROVE  /\ Append(ch, x) \in Seq(S)
           /\ Len(Append(ch, x)) = Len(ch) + 1
           /\ Elements(Append(ch, x)) = Elements(ch) \cup {x}
<1>1. Append(ch, x) \in Seq(S) /\ Len(Append(ch, x)) = Len(ch) + 1
  OBVIOUS
<1>2. \A i \in 1..Len(ch) : Append(ch, x)[i] = ch[i]
  OBVIOUS
<1>3. Append(ch, x)[Len(ch) + 1] = x
  OBVIOUS
<1>4. \A T : \A s \in Seq(T) : DOMAIN s = 1..Len(s) /\ Len(s) \in Nat
  OBVIOUS
<1>5. DOMAIN ch = 1..Len(ch) /\ Len(ch) \in Nat
      /\ DOMAIN Append(ch, x) = 1..(Len(ch) + 1)
  BY <1>1, <1>4
<1>6. 1..(Len(ch) + 1) = 1..Len(ch) \cup {Len(ch) + 1}
  BY <1>5
<1>7. Elements(Append(ch, x)) = Elements(ch) \cup {x}
  BY <1>2, <1>3, <1>5, <1>6, Zenon DEF Elements
<1> QED  BY <1>1, <1>7

(* Receiving takes the head out and keeps the others.                       *)
LEMMA ReceiveElements ==
    ASSUME NEW S, NEW ch \in Seq(S), ch # <<>>
    PROVE  /\ Head(ch) \in S
           /\ Tail(ch) \in Seq(S)
           /\ Len(Tail(ch)) = Len(ch) - 1
           /\ Elements(ch) = Elements(Tail(ch)) \cup {Head(ch)}
<1>1. Len(ch) \in Nat /\ Len(ch) > 0
  BY EmptySeq
<1>2. Head(ch) \in S /\ Tail(ch) \in Seq(S) /\ Len(Tail(ch)) = Len(ch) - 1
  BY HeadTailProperties
<1>3. \A i \in 1..Len(ch)-1 : Tail(ch)[i] = ch[i+1]
  BY HeadTailProperties
<1>4. Elements(ch) = {ch[i] : i \in 1..Len(ch)}
  BY DEF Elements
<1>5. Elements(Tail(ch)) = {Tail(ch)[i] : i \in 1..Len(ch)-1}
  <2>1. DOMAIN Tail(ch) = 1..Len(Tail(ch))
    BY <1>2
  <2> QED  BY <2>1, <1>2, Zenon DEF Elements
<1>6. Head(ch) = ch[1]
  BY HeadTailProperties
<1>7. ASSUME NEW x \in Elements(ch) PROVE x \in Elements(Tail(ch)) \cup {Head(ch)}
  <2>1. PICK i \in 1..Len(ch) : x = ch[i]
    BY <1>4
  <2>2. CASE i = 1
    BY <2>1, <2>2, <1>6
  <2>3. CASE i # 1
    <3>1. i - 1 \in 1..Len(ch)-1 /\ Tail(ch)[i-1] = ch[i]
      BY <2>1, <2>3, <1>1, <1>3
    <3> QED  BY <3>1, <2>1, <1>5
  <2> QED  BY <2>2, <2>3
<1>8. ASSUME NEW x \in Elements(Tail(ch)) \cup {Head(ch)} PROVE x \in Elements(ch)
  <2>1. CASE x = Head(ch)
    BY <2>1, <1>1, <1>4, <1>6
  <2>2. CASE x \in Elements(Tail(ch))
    <3>1. PICK i \in 1..Len(ch)-1 : x = Tail(ch)[i]
      BY <2>2, <1>5
    <3>2. i + 1 \in 1..Len(ch) /\ x = ch[i+1]
      BY <3>1, <1>1, <1>3
    <3> QED  BY <3>2, <1>4
  <2> QED  BY <1>8, <2>1, <2>2
<1> QED  BY <1>2, <1>7, <1>8

(* ---------------------------- invariants ------------------------------- *)

USE DEF ChanCap, HasRoom

(* A step of the loop, of a caller, of a worker or of the consumer, as far  *)
(* as the service sees it; what a worker has read and pushes is open.       *)
Step ==
    \/ Run
    \/ \E c \in Clients :
          \/ \E t \in Task : Commit(c, t)
          \/ \E id \in Ids : CancelIfExist(c, id)
          \/ PushPreloaded(c) \/ PushCanceled(c)
    \/ \E t \in Task : PushRead(t)
    \/ Consume \/ Tick

LEMMA NextSteps == [Next]_vars => [Step]_serviceVars
BY DEF Next, Step, CommitTask, CancelTask, PushOwn, ReadAgain, PushAgain, vars

(* Every step of the loop and of its callers keeps the types: in particular *)
(* the list never goes negative, its index never dangles, and whoever is at *)
(* the send holds a task.                                                   *)
LEMMA TypeStep == ServiceTypeOK /\ [Step]_serviceVars => ServiceTypeOK'
<1> SUFFICES ASSUME ServiceTypeOK, [Step]_serviceVars PROVE ServiceTypeOK'
  OBVIOUS
<1> USE ExecTimesAssumption, NilAssumption, NilIdAssumption, GreedyAssumption
<1>1. CASE TakeNothing
  BY <1>1 DEF ServiceTypeOK, TakeNothing, clientVars
<1>2. CASE TakeTask
  <2>1. PICK t \in Firsts(tasksWaitingList) :
          /\ tasksWaitingList' = Take(tasksWaitingList, t)
          /\ task' = t
          /\ \/ Sleep(t) > 0 /\ timer' = clock + Sleep(t) /\ pc' = "select"
             \/ Sleep(t) <= 0 /\ timer' = 0 /\ pc' = "send"
    BY <1>2 DEF TakeTask
  <2>2. t \in Task /\ Has(tasksWaitingList, t) /\ t.execTime \in Nat
    BY <2>1 DEF Firsts, Task
  <2>3. tasksWaitingList' \in TaskList /\ IndexIsLive(tasksWaitingList')
    BY <2>1, <2>2, TakeType DEF ServiceTypeOK
  <2>4. timer' \in Nat
    BY <2>1, <2>2 DEF Sleep, Unix, TicksPerSecond, ServiceTypeOK
  <2>5. t # Nil
    BY <2>2 DEF Task
  <2> QED  BY <1>2, <2>1, <2>2, <2>3, <2>4, <2>5 DEF ServiceTypeOK, TakeTask, clientVars
<1>3. CASE TimerFires
  BY <1>3 DEF ServiceTypeOK, TimerFires, clientVars
<1>4. CASE SendReady
  <2>1. task \in Task
    BY <1>4 DEF ServiceTypeOK, SendReady
  <2>2. tasksReadyToSend' \in Seq(Task) /\ Len(tasksReadyToSend') <= 1
    BY <1>4, <2>1, SendElements DEF ServiceTypeOK, SendReady
  <2> QED  BY <1>4, <2>2 DEF ServiceTypeOK, SendReady, clientVars
<1>5. CASE ReceivePreloaded
  <2>1. /\ Head(preloadedTasks) \in Task
        /\ preloadedTasks' \in Seq(Task) /\ Len(preloadedTasks') <= 1
    BY <1>5, ReceiveElements DEF ServiceTypeOK, ReceivePreloaded
  <2>2. PutBack(tasksWaitingList) \in TaskList /\ IndexIsLive(PutBack(tasksWaitingList))
    BY AddType DEF ServiceTypeOK, PutBack
  <2>3. tasksWaitingList' \in TaskList /\ IndexIsLive(tasksWaitingList')
    BY <1>5, <2>1, <2>2, AddType DEF ReceivePreloaded
  <2> QED  BY <1>5, <2>1, <2>3 DEF ServiceTypeOK, ReceivePreloaded, clientVars
<1>6. CASE GreedyAdd
  <2>1. /\ Head(preloadedTasks) \in Task
        /\ preloadedTasks' \in Seq(Task) /\ Len(preloadedTasks') <= 1
    BY <1>6, ReceiveElements DEF ServiceTypeOK, GreedyAdd
  <2>2. tasksWaitingList' \in TaskList /\ IndexIsLive(tasksWaitingList')
    BY <1>6, <2>1, AddType DEF ServiceTypeOK, GreedyAdd
  <2> QED  BY <1>6, <2>1, <2>2 DEF ServiceTypeOK, GreedyAdd, clientVars
<1>7. CASE GreedyAddEnds
  BY <1>7 DEF ServiceTypeOK, GreedyAddEnds, clientVars
<1>8. CASE ReceiveCanceled
  <2>1. /\ Head(canceledTasks) \in Ids
        /\ canceledTasks' \in Seq(Ids) /\ Len(canceledTasks') <= 1
    BY <1>8, ReceiveElements DEF ServiceTypeOK, ReceiveCanceled
  <2> DEFINE kept == IF task # Nil /\ task.id # Head(canceledTasks)
                     THEN Add(tasksWaitingList, task)
                     ELSE tasksWaitingList
  <2>2. kept \in TaskList /\ IndexIsLive(kept)
    BY AddType DEF ServiceTypeOK
  <2>3. tasksWaitingList' = DeleteIfExist(kept, Head(canceledTasks))
    BY <1>8 DEF ReceiveCanceled
  <2>4. tasksWaitingList' \in TaskList /\ IndexIsLive(tasksWaitingList')
    BY <2>1, <2>2, <2>3, DeleteType
  <2> QED  BY <1>8, <2>1, <2>4 DEF ServiceTypeOK, ReceiveCanceled, clientVars
<1>9. CASE GreedyCancel
  <2>1. /\ Head(canceledTasks) \in Ids
        /\ canceledTasks' \in Seq(Ids) /\ Len(canceledTasks') <= 1
    BY <1>9, ReceiveElements DEF ServiceTypeOK, GreedyCancel
  <2>2. tasksWaitingList' \in TaskList /\ IndexIsLive(tasksWaitingList')
    BY <1>9, <2>1, DeleteType DEF ServiceTypeOK, GreedyCancel
  <2> QED  BY <1>9, <2>1, <2>2 DEF ServiceTypeOK, GreedyCancel, clientVars
<1>10. CASE GreedyCancelEnds
  BY <1>10 DEF ServiceTypeOK, GreedyCancelEnds, clientVars
<1>11. ASSUME NEW c \in Clients, NEW t \in Task, Commit(c, t) PROVE ServiceTypeOK'
  BY <1>11 DEF ServiceTypeOK, Commit, loopVars, Task
<1>12. ASSUME NEW c \in Clients, NEW id \in Ids, CancelIfExist(c, id) PROVE ServiceTypeOK'
  BY <1>12 DEF ServiceTypeOK, CancelIfExist, loopVars
<1>13. ASSUME NEW c \in Clients, PushPreloaded(c) PROVE ServiceTypeOK'
  <2>1. adding[c] \in Task
    BY <1>13 DEF ServiceTypeOK, PushPreloaded
  <2>2. preloadedTasks' \in Seq(Task) /\ Len(preloadedTasks') <= 1
    BY <1>13, <2>1, SendElements DEF ServiceTypeOK, PushPreloaded
  <2> QED  BY <1>13, <2>2 DEF ServiceTypeOK, PushPreloaded, loopVars
<1>14. ASSUME NEW c \in Clients, PushCanceled(c) PROVE ServiceTypeOK'
  <2>1. cancelling[c] \in Ids
    BY <1>14 DEF ServiceTypeOK, PushCanceled
  <2>2. canceledTasks' \in Seq(Ids) /\ Len(canceledTasks') <= 1
    BY <1>14, <2>1, SendElements DEF ServiceTypeOK, PushCanceled
  <2> QED  BY <1>14, <2>2 DEF ServiceTypeOK, PushCanceled, loopVars
<1>15. CASE Consume
  <2>1. /\ Head(tasksReadyToSend) \in Task
        /\ tasksReadyToSend' \in Seq(Task) /\ Len(tasksReadyToSend') <= 1
    BY <1>15, ReceiveElements DEF ServiceTypeOK, Consume
  <2> QED  BY <1>15, <2>1 DEF ServiceTypeOK, Consume, loopVars, clientVars
<1>16. CASE Tick
  BY <1>16 DEF ServiceTypeOK, Tick, loopVars, clientVars
<1>17. CASE UNCHANGED serviceVars
  BY <1>17 DEF ServiceTypeOK, serviceVars
<1>18. ASSUME NEW t \in Task, PushRead(t) PROVE ServiceTypeOK'
  <2>1. preloadedTasks' \in Seq(Task) /\ Len(preloadedTasks') <= 1
    BY <1>18, SendElements DEF ServiceTypeOK, PushRead
  <2> QED  BY <1>18, <2>1 DEF ServiceTypeOK, PushRead, loopVars, clientVars
<1> QED
  BY <1>1, <1>2, <1>3, <1>4, <1>5, <1>6, <1>7, <1>8, <1>9, <1>10, <1>11, <1>12,
     <1>13, <1>14, <1>15, <1>16, <1>17, <1>18 DEF Step, Run

(* The loop's state stays well formed (waiting_service.go, Run): channels   *)
(* within their capacity, no negative item count, no dangling index entry,  *)
(* a task in hand at every send.                                            *)
THEOREM TypeCorrect == Spec => []TypeOK
<1>1. Init => TypeOK
  BY ExecTimesAssumption, NilAssumption, NilIdAssumption, GreedyAssumption
     DEF Init, TypeOK, ServiceTypeOK, EmptyList, TaskList, IndexIsLive
<1>2. TypeOK /\ [Next]_vars => TypeOK'
  <2> SUFFICES ASSUME TypeOK, [Next]_vars PROVE TypeOK'
    OBVIOUS
  <2>1. ServiceTypeOK'
    BY TypeStep, NextSteps DEF TypeOK
  <2>2. unread' \subseteq Task /\ reading' \subseteq Task
    BY DEF TypeOK, Next, CommitTask, CancelTask, PushOwn, ReadAgain, PushAgain, preloaderVars, vars
  <2> QED  BY <2>1, <2>2 DEF TypeOK
<1> QED  BY <1>1, <1>2, PTL DEF Spec

(* --------------------------- order and time ---------------------------- *)

(* A sleep computed from the truncated clock never ends too soon.           *)
LEMMA SleepIsLongEnough ==
    ASSUME ServiceTypeOK, NEW t \in Task
    PROVE  /\ clock + Sleep(t) >= TicksPerSecond * t.execTime
           /\ Sleep(t) <= 0 => clock >= TicksPerSecond * t.execTime
<1>1. clock \in Nat /\ t.execTime \in Nat
  BY ExecTimesAssumption DEF ServiceTypeOK, Task
<1>2. \A n \in Nat : n \div 2 \in Nat /\ 2 * (n \div 2) <= n
  OBVIOUS
<1>3. clock \div 2 \in Nat /\ 2 * (clock \div 2) <= clock
  BY <1>1, <1>2
<1>4. \A q \in Nat : \A e \in Nat : \A k \in Nat : 2 * q <= k =>
          k + (e - q) * 2 >= 2 * e /\ ((e - q) * 2 <= 0 => k >= 2 * e)
  OBVIOUS
<1> QED  BY <1>1, <1>3, <1>4 DEF Sleep, Unix, TicksPerSecond

(* Tasks leave the loop in the order of their times, and none before its    *)
(* second begins (waiting_service.go:121-130, 174).                         *)
THEOREM OrderAndTime == Spec => [](EarliestFirst /\ NeverEarly)
<1> DEFINE Inv == EarliestFirst /\ NeverEarly
<1>1. Init => Inv
  BY DEF Init, EarliestFirst, NeverEarly, Elements
<1>2. ServiceTypeOK /\ ServiceTypeOK' /\ Inv /\ [Step]_serviceVars => Inv'
  <2> SUFFICES ASSUME ServiceTypeOK, ServiceTypeOK', Inv, [Step]_serviceVars PROVE Inv'
    OBVIOUS
  <2>1. CASE TakeTask
    <3>1. PICK t \in Firsts(tasksWaitingList) :
            /\ tasksWaitingList' = Take(tasksWaitingList, t)
            /\ task' = t
            /\ \/ Sleep(t) > 0 /\ timer' = clock + Sleep(t) /\ pc' = "select"
               \/ Sleep(t) <= 0 /\ timer' = 0 /\ pc' = "send"
      BY <2>1 DEF TakeTask
    <3>2. t \in Task
      BY <3>1 DEF Firsts
    <3>3. \A u \in Task : Has(tasksWaitingList', u) => t.execTime <= u.execTime
      BY <3>1, <3>2, TakeHas DEF Firsts, ServiceTypeOK
    <3>4. EarliestFirst'
      BY <3>1, <3>3 DEF EarliestFirst
    <3>5. NeverEarly'
      BY <2>1, <3>1, <3>2, SleepIsLongEnough DEF NeverEarly, TakeTask
    <3> QED  BY <3>4, <3>5
  <2>2. CASE TimerFires
    <3>1. task \in Task /\ task.execTime \in Nat /\ clock \in Nat /\ timer \in Nat
      BY <2>2, ExecTimesAssumption DEF TimerFires, ServiceTypeOK, Task
    <3> QED  BY <2>2, <3>1 DEF TimerFires, EarliestFirst, NeverEarly, TicksPerSecond
  <2>3. CASE SendReady
    <3>1. task \in Task
      BY <2>3 DEF SendReady, ServiceTypeOK
    <3>2. Elements(tasksReadyToSend') = Elements(tasksReadyToSend) \cup {task}
      BY <2>3, <3>1, SendElements DEF SendReady, ServiceTypeOK
    <3> QED  BY <2>3, <3>2 DEF SendReady, EarliestFirst, NeverEarly
  <2>4. CASE Consume
    <3>1. Elements(tasksReadyToSend) = Elements(tasksReadyToSend') \cup {Head(tasksReadyToSend)}
      BY <2>4, ReceiveElements DEF Consume, ServiceTypeOK
    <3> QED  BY <2>4, <3>1 DEF Consume, loopVars, EarliestFirst, NeverEarly
  <2>5. CASE Tick
    <3>1. \A t \in Task : t.execTime \in Nat
      BY ExecTimesAssumption DEF Task
    <3>2. Elements(tasksReadyToSend) \cup sent \subseteq Task
      BY DEF ServiceTypeOK, Elements
    <3>3. clock \in Nat /\ clock' = clock + 1 /\ UNCHANGED <<tasksReadyToSend, sent>>
      BY <2>5 DEF Tick, ServiceTypeOK
    <3>4. \A t \in Elements(tasksReadyToSend) \cup sent : clock' >= TicksPerSecond * t.execTime
      BY <3>1, <3>2, <3>3 DEF NeverEarly, TicksPerSecond
    <3>5. pc = "send" => clock' >= TicksPerSecond * task.execTime
      <4> SUFFICES ASSUME pc = "send" PROVE clock' >= TicksPerSecond * task.execTime
        OBVIOUS
      <4>1. task.execTime \in Nat
        BY <3>1 DEF ServiceTypeOK
      <4>2. clock >= TicksPerSecond * task.execTime
        BY DEF NeverEarly
      <4> QED  BY <3>3, <4>1, <4>2 DEF TicksPerSecond
    <3> QED  BY <2>5, <3>3, <3>4, <3>5 DEF Tick, loopVars, EarliestFirst, NeverEarly
  <2>6. CASE ReceivePreloaded \/ GreedyAdd \/ GreedyAddEnds \/ ReceiveCanceled
             \/ GreedyCancel \/ GreedyCancelEnds \/ TakeNothing
    BY <2>6 DEF ReceivePreloaded, GreedyAdd, GreedyAddEnds, ReceiveCanceled, GreedyCancel,
                GreedyCancelEnds, TakeNothing, EarliestFirst, NeverEarly, ServiceTypeOK
  <2>7. CASE \E c \in Clients : \/ \E t \in Task : Commit(c, t)
                                \/ \E id \in Ids : CancelIfExist(c, id)
                                \/ PushPreloaded(c)
                                \/ PushCanceled(c)
    BY <2>7 DEF Commit, CancelIfExist, PushPreloaded, PushCanceled, loopVars,
                EarliestFirst, NeverEarly
  <2>8. CASE UNCHANGED serviceVars
    BY <2>8 DEF serviceVars, EarliestFirst, NeverEarly
  <2>9. CASE \E t \in Task : PushRead(t)
    BY <2>9 DEF PushRead, loopVars, EarliestFirst, NeverEarly
  <2> QED  BY <2>1, <2>2, <2>3, <2>4, <2>5, <2>6, <2>7, <2>8, <2>9 DEF Step, Run
<1>3. TypeOK /\ TypeOK' /\ Inv /\ [Next]_vars => Inv'
  BY <1>2, NextSteps DEF TypeOK
<1> QED  BY <1>1, <1>3, TypeCorrect, PTL DEF Spec

(* In particular, a truncated clock never makes the loop release a task     *)
(* before its second (waiting_service.go:123-130).                          *)
THEOREM NoEarlyRelease == Spec => []NeverEarly
BY OrderAndTime, PTL

(* ------------------------------- no loss ------------------------------- *)

(* Why nothing is lost: with ids used once, a cancellation on its way is    *)
(* for an id whose row is gone and can never come back.                     *)
CancelsAreFinal ==
    /\ \A id \in Ids : row[id] # Nil => id \in created
    /\ \A c \in Clients : cancelling[c] # Nil =>
           row[cancelling[c]] = Nil /\ cancelling[c] \in created
    /\ \A id \in Elements(canceledTasks) : row[id] = Nil /\ id \in created

(* Without reuse a cancelled id stays without a row.                        *)
LEMMA CancelsStep ==
    ~IdReuse /\ ServiceTypeOK /\ CancelsAreFinal /\ [Step]_serviceVars => CancelsAreFinal'
<1> SUFFICES ASSUME ~IdReuse, ServiceTypeOK, CancelsAreFinal, [Step]_serviceVars
             PROVE  CancelsAreFinal'
  OBVIOUS
<1> USE ExecTimesAssumption, NilAssumption, NilIdAssumption
<1> DEFINE Frame == UNCHANGED <<canceledTasks, cancelling, row, created>>
<1>0. ASSUME Frame PROVE CancelsAreFinal'
  BY <1>0 DEF CancelsAreFinal
<1>1. CASE TakeNothing \/ TakeTask \/ TimerFires \/ SendReady \/ ReceivePreloaded
           \/ GreedyAdd \/ GreedyAddEnds \/ GreedyCancelEnds \/ Consume \/ Tick
  BY <1>0, <1>1 DEF TakeNothing, TakeTask, TimerFires, SendReady, ReceivePreloaded,
      GreedyAdd, GreedyAddEnds, GreedyCancelEnds, Consume, Tick, clientVars
<1>2. CASE ReceiveCanceled \/ GreedyCancel
  <2>1. Elements(canceledTasks') \subseteq Elements(canceledTasks)
    BY <1>2, ReceiveElements DEF ReceiveCanceled, GreedyCancel, ServiceTypeOK
  <2> QED  BY <1>2, <2>1 DEF ReceiveCanceled, GreedyCancel, CancelsAreFinal, clientVars
<1>3. ASSUME NEW c \in Clients, NEW t \in Task, Commit(c, t) PROVE CancelsAreFinal'
  <2>1. t.id \in Ids /\ t.id \notin created
    BY <1>3 DEF Commit, Task
  <2>2. Elements(canceledTasks) \subseteq Ids
    BY DEF ServiceTypeOK, Elements
  <2> QED  BY <1>3, <2>1, <2>2 DEF Commit, CancelsAreFinal, ServiceTypeOK
<1>4. ASSUME NEW c \in Clients, NEW id \in Ids, CancelIfExist(c, id) PROVE CancelsAreFinal'
  <2>1. Elements(canceledTasks) \subseteq Ids
    BY DEF ServiceTypeOK, Elements
  <2> QED  BY <1>4, <2>1 DEF CancelIfExist, CancelsAreFinal, ServiceTypeOK
<1>5. ASSUME NEW c \in Clients, PushPreloaded(c) PROVE CancelsAreFinal'
  BY <1>0, <1>5 DEF PushPreloaded
<1>6. ASSUME NEW c \in Clients, PushCanceled(c) PROVE CancelsAreFinal'
  <2>1. cancelling[c] \in Ids
    BY <1>6 DEF PushCanceled, ServiceTypeOK
  <2>2. Elements(canceledTasks') = Elements(canceledTasks) \cup {cancelling[c]}
    BY <1>6, <2>1, SendElements DEF PushCanceled, ServiceTypeOK
  <2> QED  BY <1>6, <2>1, <2>2 DEF PushCanceled, CancelsAreFinal, ServiceTypeOK
<1>7. CASE UNCHANGED serviceVars
  BY <1>0, <1>7 DEF serviceVars
<1>8. CASE \E t \in Task : PushRead(t)
  BY <1>0, <1>8 DEF PushRead, clientVars
<1> QED  BY <1>1, <1>2, <1>3, <1>4, <1>5, <1>6, <1>7, <1>8 DEF Step, Run

(* A committed task that was not deleted is never dropped by the loop, if   *)
(* no id is created again after its deletion.                               *)
THEOREM NothingLostWithoutReuse == ~IdReuse => (Spec => []NothingLost)
<1> SUFFICES ASSUME ~IdReuse PROVE Spec => []NothingLost
  OBVIOUS
<1> USE ExecTimesAssumption, NilAssumption, NilIdAssumption
<1>1. Init => CancelsAreFinal
  BY DEF Init, CancelsAreFinal, Elements
<1>2. TypeOK /\ CancelsAreFinal /\ [Next]_vars => CancelsAreFinal'
  BY CancelsStep, NextSteps DEF TypeOK
<1>3. Init => NothingLost
  BY DEF Init, NothingLost
<1>4. ServiceTypeOK /\ ServiceTypeOK' /\ CancelsAreFinal /\ NothingLost /\ [Step]_serviceVars
      => NothingLost'
  <2> SUFFICES ASSUME ServiceTypeOK, ServiceTypeOK', CancelsAreFinal, NothingLost,
                      [Step]_serviceVars,
                      NEW id \in Ids, row'[id] # Nil
               PROVE  OnItsWay([id |-> id, execTime |-> row[id]])'
    BY DEF NothingLost, TaskOf
  <2> DEFINE me == [id |-> id, execTime |-> row[id]]
  <2>1. ASSUME NEW c \in Clients, NEW t \in Task, Commit(c, t)
        PROVE  OnItsWay([id |-> id, execTime |-> row[id]])'
    <3>1. CASE t.id = id
      BY <2>1, <3>1 DEF Commit, OnItsWay, ServiceTypeOK, Task
    <3>2. CASE t.id # id
      <4>1. row'[id] = row[id]
        BY <2>1, <3>2 DEF Commit, ServiceTypeOK
      <4>2. OnItsWay(me)
        BY <4>1 DEF NothingLost, TaskOf
      <4>3. me # Nil /\ adding[c] = Nil
        BY <2>1, <4>1 DEF Commit, Idle, ServiceTypeOK
      <4> QED  BY <2>1, <4>1, <4>2, <4>3 DEF Commit, OnItsWay, ServiceTypeOK, loopVars
    <3> QED  BY <3>1, <3>2
  <2>2. CASE ~\E c \in Clients : \E t \in Task : Commit(c, t)
    <3>1. row[id] # Nil /\ row'[id] = row[id] /\ me \in Task
      BY <2>2 DEF Step, Run, TakeNothing, TakeTask, TimerFires, SendReady, ReceivePreloaded,
          GreedyAdd, GreedyAddEnds, ReceiveCanceled, GreedyCancel, GreedyCancelEnds,
          CancelIfExist, PushPreloaded, PushCanceled, PushRead, Consume, Tick, clientVars,
          serviceVars, ServiceTypeOK, Task
    <3>2. OnItsWay(me)
      BY <3>1 DEF NothingLost, TaskOf
    <3> SUFFICES OnItsWay(me)'
      BY <3>1
    <3>3. me # Nil
      BY <3>1 DEF Task
    <3>4. CASE TakeTask
      <4>1. PICK t \in Task : tasksWaitingList' = Take(tasksWaitingList, t) /\ task' = t
        BY <3>4 DEF TakeTask, Firsts
      <4>2. task = Nil
        BY <3>4 DEF TakeTask, ServiceTypeOK
      <4> QED  BY <3>1, <3>2, <3>3, <3>4, <4>1, <4>2, TakeHas
               DEF TakeTask, OnItsWay, ServiceTypeOK, clientVars
    <3>5. CASE SendReady
      <4>1. task \in Task
        BY <3>5 DEF SendReady, ServiceTypeOK
      <4>2. Elements(tasksReadyToSend') = Elements(tasksReadyToSend) \cup {task}
        BY <3>5, <4>1, SendElements DEF SendReady, ServiceTypeOK
      <4> QED  BY <3>1, <3>2, <3>5, <4>2 DEF SendReady, OnItsWay, clientVars
    <3>6. CASE ReceivePreloaded
      <4>1. /\ Head(preloadedTasks) \in Task
            /\ Elements(preloadedTasks) = Elements(preloadedTasks') \cup {Head(preloadedTasks)}
        BY <3>6, ReceiveElements DEF ReceivePreloaded, ServiceTypeOK
      <4>2. PutBack(tasksWaitingList) \in TaskList
        BY AddType DEF PutBack, ServiceTypeOK
      <4>3. Has(tasksWaitingList, me) \/ task = me => Has(PutBack(tasksWaitingList), me)
        BY <3>1, <3>3, AddHas DEF PutBack, ServiceTypeOK
      <4>4. Has(PutBack(tasksWaitingList), me) \/ me = Head(preloadedTasks)
               => Has(tasksWaitingList', me)
        BY <3>1, <3>6, <4>1, <4>2, AddHas DEF ReceivePreloaded
      <4> QED  BY <3>1, <3>2, <3>6, <4>1, <4>3, <4>4 DEF ReceivePreloaded, OnItsWay, clientVars
    <3>7. CASE GreedyAdd
      <4>1. /\ Head(preloadedTasks) \in Task
            /\ Elements(preloadedTasks) = Elements(preloadedTasks') \cup {Head(preloadedTasks)}
        BY <3>7, ReceiveElements DEF GreedyAdd, ServiceTypeOK
      <4>2. Has(tasksWaitingList, me) \/ me = Head(preloadedTasks) => Has(tasksWaitingList', me)
        BY <3>1, <3>7, <4>1, AddHas DEF GreedyAdd, ServiceTypeOK
      <4> QED  BY <3>1, <3>2, <3>7, <4>1, <4>2 DEF GreedyAdd, OnItsWay, clientVars
    <3>8. CASE ReceiveCanceled
      <4>1. Head(canceledTasks) \in Ids /\ Head(canceledTasks) \in Elements(canceledTasks)
        BY <3>8, ReceiveElements DEF ReceiveCanceled, ServiceTypeOK
      <4>2. me.id = id /\ Head(canceledTasks) # id
        BY <3>1, <4>1 DEF CancelsAreFinal
      <4> DEFINE kept == IF task # Nil /\ task.id # Head(canceledTasks)
                         THEN Add(tasksWaitingList, task)
                         ELSE tasksWaitingList
      <4>3. kept \in TaskList /\ IndexIsLive(kept)
        BY AddType DEF ServiceTypeOK
      <4>4. Has(tasksWaitingList, me) \/ task = me => Has(kept, me)
        BY <3>1, <3>3, <4>2, AddHas DEF ServiceTypeOK
      <4>5. tasksWaitingList' = DeleteIfExist(kept, Head(canceledTasks))
        BY <3>8 DEF ReceiveCanceled
      <4>6. Has(kept, me) => Has(tasksWaitingList', me)
        BY <3>1, <4>1, <4>2, <4>3, <4>5, DeleteHas
      <4> QED  BY <3>1, <3>2, <3>8, <4>4, <4>6 DEF ReceiveCanceled, OnItsWay, clientVars
    <3>9. CASE GreedyCancel
      <4>1. Head(canceledTasks) \in Ids /\ Head(canceledTasks) \in Elements(canceledTasks)
        BY <3>9, ReceiveElements DEF GreedyCancel, ServiceTypeOK
      <4>2. me.id = id /\ Head(canceledTasks) # id
        BY <3>1, <4>1 DEF CancelsAreFinal
      <4>3. Has(tasksWaitingList, me) => Has(tasksWaitingList', me)
        BY <3>1, <3>9, <4>1, <4>2, DeleteHas DEF GreedyCancel, ServiceTypeOK
      <4> QED  BY <3>1, <3>2, <3>9, <4>3 DEF GreedyCancel, OnItsWay, clientVars
    <3>10. ASSUME NEW c \in Clients, PushPreloaded(c) PROVE OnItsWay(me)'
      <4>1. adding[c] \in Task
        BY <3>10 DEF PushPreloaded, ServiceTypeOK
      <4>2. Elements(preloadedTasks') = Elements(preloadedTasks) \cup {adding[c]}
        BY <3>10, <4>1, SendElements DEF PushPreloaded, ServiceTypeOK
      <4> QED  BY <3>1, <3>2, <3>10, <4>2 DEF PushPreloaded, OnItsWay, ServiceTypeOK, loopVars
    <3>11. CASE Consume
      <4>1. Elements(tasksReadyToSend) = Elements(tasksReadyToSend') \cup {Head(tasksReadyToSend)}
        BY <3>11, ReceiveElements DEF Consume, ServiceTypeOK
      <4> QED  BY <3>1, <3>2, <3>11, <4>1 DEF Consume, OnItsWay, loopVars, clientVars
    <3>12. CASE TakeNothing \/ TimerFires \/ GreedyAddEnds \/ GreedyCancelEnds \/ Tick
                \/ (\E c \in Clients : PushCanceled(c) \/ \E i \in Ids : CancelIfExist(c, i))
                \/ UNCHANGED serviceVars
      BY <3>1, <3>2, <3>12 DEF TakeNothing, TimerFires, GreedyAddEnds, GreedyCancelEnds, Tick,
          PushCanceled, CancelIfExist, OnItsWay, loopVars, clientVars, serviceVars
    <3>13. ASSUME NEW t \in Task, PushRead(t) PROVE OnItsWay(me)'
      <4>1. Elements(preloadedTasks') = Elements(preloadedTasks) \cup {t}
        BY <3>13, SendElements DEF PushRead, ServiceTypeOK
      <4> QED  BY <3>1, <3>2, <3>13, <4>1 DEF PushRead, OnItsWay, loopVars, clientVars
    <3> QED
      BY <2>2, <3>4, <3>5, <3>6, <3>7, <3>8, <3>9, <3>10, <3>11, <3>12, <3>13 DEF Step, Run
  <2> QED  BY <2>1, <2>2
<1>5. TypeOK /\ TypeOK' /\ CancelsAreFinal /\ NothingLost /\ [Next]_vars => NothingLost'
  BY <1>4, NextSteps DEF TypeOK
<1> QED  BY <1>1, <1>2, <1>3, <1>5, TypeCorrect, PTL DEF Spec

(* --------------------------- cancellations ----------------------------- *)

(* Where a copy of t is before its release.                                 *)
Present(t) ==
    \/ \E c \in Clients : adding[c] = t
    \/ t \in Elements(preloadedTasks)
    \/ Has(tasksWaitingList, t)
    \/ task = t
    \/ t \in unread \cup reading

(* With ids used once, copies of one id are copies of one task.             *)
OneTaskPerId ==
    /\ \A t \in Task : Present(t) => t.id \in created
    /\ \A t, u \in Task : Present(t) /\ Present(u) /\ t.id = u.id => t = u

(* A step of the loop brings no task in.                                    *)
LEMMA RunKeeps ==
    ASSUME ServiceTypeOK, Run, NEW u \in Task, Present(u)',
           UNCHANGED <<adding, unread, reading>>
    PROVE  Present(u)
<1> USE NilAssumption, NilIdAssumption
<1> DEFINE l == tasksWaitingList
           x == Head(preloadedTasks)
<1>t. /\ u # Nil /\ task \in Task \cup {Nil} /\ l \in TaskList /\ IndexIsLive(l)
      /\ l.pq[u] \in Nat
  BY ListCounts DEF ServiceTypeOK, Task
<1>1. ASSUME UNCHANGED <<preloadedTasks, tasksWaitingList>>, task' \in {task, Nil}
      PROVE  Present(u)
  BY <1>1, <1>t DEF Present, Elements
<1>2. CASE TakeNothing \/ TimerFires \/ SendReady \/ GreedyAddEnds \/ GreedyCancelEnds
  BY <1>1, <1>2 DEF TakeNothing, TimerFires, SendReady, GreedyAddEnds, GreedyCancelEnds
<1>3. CASE TakeTask
  <2>1. PICK t \in Task : /\ Has(l, t) /\ l' = Take(l, t) /\ task' = t
                          /\ UNCHANGED preloadedTasks
    BY <1>3 DEF TakeTask, Firsts
  <2>2. Has(l', u) => Has(l, u)
    BY <1>t, <2>1, TakeHas
  <2> QED  BY <2>1, <2>2 DEF Present, Elements
<1>4. CASE ReceivePreloaded \/ GreedyAdd
  <2>1. /\ x \in Task
        /\ Elements(preloadedTasks) = Elements(preloadedTasks') \cup {x}
    BY <1>4, ReceiveElements DEF ReceivePreloaded, GreedyAdd, ServiceTypeOK
  <2>2. /\ l' = Add(PutBack(l), x) /\ task' = Nil
    BY <1>4 DEF ReceivePreloaded, GreedyAdd, ServiceTypeOK, PutBack
  <2>3. PutBack(l) \in TaskList /\ (Has(PutBack(l), u) => Has(l, u) \/ task = u)
    BY <1>t, AddType, AddHas DEF PutBack
  <2>4. Has(l', u) => Has(l, u) \/ task = u \/ u = x
    BY <2>1, <2>2, <2>3, AddHas
  <2> QED  BY <1>t, <2>1, <2>2, <2>4 DEF Present
<1>5. CASE ReceiveCanceled \/ GreedyCancel
  <2> DEFINE k == IF task # Nil /\ task.id # Head(canceledTasks) THEN Add(l, task) ELSE l
  <2>1. Head(canceledTasks) \in Ids
    BY <1>5, ReceiveElements DEF ReceiveCanceled, GreedyCancel, ServiceTypeOK
  <2>2. l' = DeleteIfExist(k, Head(canceledTasks)) /\ task' = Nil /\ UNCHANGED preloadedTasks
    BY <1>5 DEF ReceiveCanceled, GreedyCancel, ServiceTypeOK
  <2>3. k \in TaskList /\ IndexIsLive(k) /\ (Has(k, u) => Has(l, u) \/ task = u)
    BY <1>t, AddType, AddHas
  <2> HIDE DEF k
  <2>4. Has(l', u) => Has(k, u)
    BY <2>1, <2>2, <2>3, DeleteCounts, ListCounts DEF Has
  <2> QED  BY <1>t, <2>2, <2>3, <2>4 DEF Present, Elements
<1> QED  BY <1>2, <1>3, <1>4, <1>5 DEF Run

(* Only a commit brings a task in.                                          *)
LEMMA PresentStep ==
    ASSUME TypeOK, [Next]_vars, NEW u \in Task, Present(u)', ~Present(u)
    PROVE  \E c \in Clients : CommitTask(c, u)
<1> USE NilAssumption, NilIdAssumption
<1>t. ServiceTypeOK /\ u # Nil /\ adding \in [Clients -> Task \cup {Nil}]
  BY DEF TypeOK, ServiceTypeOK, Task
<1>1. CASE Run /\ UNCHANGED preloaderVars
  <2>1. UNCHANGED <<adding, unread, reading>>
    BY <1>1 DEF preloaderVars, clientVars, Run, TakeNothing, TakeTask, TimerFires, SendReady,
        ReceivePreloaded, GreedyAdd, GreedyAddEnds, ReceiveCanceled, GreedyCancel, GreedyCancelEnds
  <2> QED  BY <1>1, <1>t, <2>1, RunKeeps
<1>2. CASE ((Consume \/ Tick) /\ UNCHANGED preloaderVars) \/ UNCHANGED vars
  BY <1>2 DEF Consume, Tick, loopVars, clientVars, preloaderVars, serviceVars, vars, Present, Elements
<1>3. ASSUME NEW c \in Clients, NEW t \in Task, CommitTask(c, t) PROVE u = t
  BY <1>3, <1>t DEF CommitTask, Commit, loopVars, Present, Elements
<1>4. ASSUME NEW c \in Clients, NEW id \in Ids, CancelTask(c, id) PROVE FALSE
  BY <1>4 DEF CancelTask, CancelIfExist, loopVars, Present, Elements
<1>5. ASSUME NEW c \in Clients, PushPreloaded(c), UNCHANGED preloaderVars PROVE FALSE
  <2>1. adding[c] \in Task
    BY <1>5, <1>t DEF PushPreloaded
  <2>2. Elements(preloadedTasks') = Elements(preloadedTasks) \cup {adding[c]}
    BY <1>5, <1>t, <2>1, SendElements DEF PushPreloaded, ServiceTypeOK
  <2> QED  BY <1>5, <1>t, <2>2 DEF PushPreloaded, loopVars, preloaderVars, Present
<1>6. ASSUME NEW c \in Clients, PushCanceled(c), UNCHANGED preloaderVars PROVE FALSE
  BY <1>6 DEF PushCanceled, loopVars, preloaderVars, Present, Elements
<1>7. ASSUME NEW t \in Task, ReadAgain(t) PROVE FALSE
  BY <1>7 DEF ReadAgain, serviceVars, Present, Elements
<1>8. ASSUME NEW t \in Task, PushAgain(t) PROVE FALSE
  <2>1. Elements(preloadedTasks') = Elements(preloadedTasks) \cup {t}
    BY <1>8, <1>t, SendElements DEF PushAgain, PushRead, ServiceTypeOK
  <2> QED  BY <1>8, <2>1 DEF PushAgain, PushRead, loopVars, clientVars, Present
<1> QED
  BY <1>1, <1>2, <1>3, <1>4, <1>5, <1>6, <1>7, <1>8 DEF Next, PushOwn

LEMMA OneTaskPerIdStep ==
    ~IdReuse /\ TypeOK /\ OneTaskPerId /\ [Next]_vars => OneTaskPerId'
<1> SUFFICES ASSUME ~IdReuse, TypeOK, OneTaskPerId, [Next]_vars PROVE OneTaskPerId'
  OBVIOUS
<1>1. created \subseteq created'
  BY DEF Next, Run, TakeNothing, TakeTask, TimerFires, SendReady, ReceivePreloaded, GreedyAdd,
      GreedyAddEnds, ReceiveCanceled, GreedyCancel, GreedyCancelEnds, CommitTask, Commit,
      CancelTask, CancelIfExist, PushOwn, PushPreloaded, PushCanceled, ReadAgain, PushAgain,
      PushRead, Consume, Tick, clientVars, serviceVars, vars
<1>2. ASSUME NEW c \in Clients, NEW t \in Task, CommitTask(c, t)
      PROVE  t.id \notin created /\ created' = created \cup {t.id}
  BY <1>2 DEF CommitTask, Commit
<1>3. ASSUME NEW c \in Clients, NEW d \in Clients, NEW t \in Task, NEW u \in Task,
             CommitTask(c, t), CommitTask(d, u)
      PROVE  t.id = u.id => t = u
  <2>1. c = d \/ adding'[c] = Nil
    BY <1>3 DEF CommitTask, Commit, Idle, TypeOK, ServiceTypeOK
  <2>2. adding'[c] = t /\ adding'[d] = u /\ t # Nil
    BY <1>3, NilAssumption DEF CommitTask, Commit, Task, TypeOK, ServiceTypeOK
  <2> QED  BY <2>1, <2>2
<1>4. ASSUME NEW t \in Task, Present(t)' PROVE t.id \in created'
  BY <1>1, <1>2, <1>4, PresentStep DEF OneTaskPerId
<1>5. ASSUME NEW t \in Task, NEW u \in Task, Present(t)', Present(u)', t.id = u.id
      PROVE  t = u
  <2>1. CASE Present(t) /\ Present(u)
    BY <1>5, <2>1 DEF OneTaskPerId
  <2>2. CASE ~Present(t) /\ ~Present(u)
    BY <1>3, <1>5, <2>2, PresentStep
  <2>3. CASE Present(t) /\ ~Present(u)
    BY <1>2, <1>5, <2>3, PresentStep DEF OneTaskPerId
  <2>4. CASE ~Present(t) /\ Present(u)
    BY <1>2, <1>5, <2>4, PresentStep DEF OneTaskPerId
  <2> QED  BY <2>1, <2>2, <2>3, <2>4
<1> QED  BY <1>4, <1>5 DEF OneTaskPerId

(* A cancelled id is on its way to the loop once.                           *)
CancelsOnce ==
    /\ \A c, d \in Clients : cancelling[c] # Nil /\ cancelling[c] = cancelling[d] => c = d
    /\ \A c \in Clients : cancelling[c] \notin Elements(canceledTasks)

(* A channel has room for one element: a receive empties it.                *)
LEMMA ReceiveLast ==
    ASSUME NEW S, NEW ch \in Seq(S), ch # <<>>, Len(ch) <= ChanCap
    PROVE  Elements(Tail(ch)) = {}
<1>1. Len(ch) \in Nat \ {0} /\ \A n \in Nat \ {0} : n <= 1 => n - 1 = 0
  BY EmptySeq
<1>2. Len(ch) - 1 = 0
  BY <1>1, Zenon
<1>3. Tail(ch) \in Seq(S) /\ Len(Tail(ch)) = 0
  BY <1>2, HeadTailProperties
<1> QED  BY <1>3 DEF Elements

LEMMA CancelsOnceStep ==
    ServiceTypeOK /\ CancelsAreFinal /\ CancelsOnce /\ [Step]_serviceVars => CancelsOnce'
<1> SUFFICES ASSUME ServiceTypeOK, CancelsAreFinal, CancelsOnce, [Step]_serviceVars
             PROVE  CancelsOnce'
  OBVIOUS
<1> USE NilAssumption, NilIdAssumption
<1>t. Elements(canceledTasks) \subseteq Ids /\ cancelling \in [Clients -> Ids \cup {Nil}]
  BY DEF ServiceTypeOK, Elements
<1>0. ASSUME UNCHANGED <<canceledTasks, cancelling>> PROVE CancelsOnce'
  BY <1>0 DEF CancelsOnce
<1>1. CASE TakeNothing \/ TakeTask \/ TimerFires \/ SendReady \/ ReceivePreloaded \/ GreedyAdd
           \/ GreedyAddEnds \/ GreedyCancelEnds \/ Consume \/ Tick \/ UNCHANGED serviceVars
           \/ (\E t \in Task : PushRead(t))
           \/ \E c \in Clients : PushPreloaded(c) \/ \E t \in Task : Commit(c, t)
  BY <1>0, <1>1 DEF TakeNothing, TakeTask, TimerFires, SendReady, ReceivePreloaded, GreedyAdd,
      GreedyAddEnds, GreedyCancelEnds, Consume, Tick, PushRead, PushPreloaded, Commit,
      clientVars, serviceVars
<1>2. CASE ReceiveCanceled \/ GreedyCancel
  <2>1. Elements(canceledTasks') = {} /\ UNCHANGED cancelling
    BY <1>2, ReceiveLast DEF ReceiveCanceled, GreedyCancel, ServiceTypeOK, clientVars
  <2> QED  BY <2>1 DEF CancelsOnce
<1>3. ASSUME NEW c \in Clients, NEW id \in Ids, CancelIfExist(c, id) PROVE CancelsOnce'
  <2>1. /\ id # Nil /\ row[id] # Nil /\ UNCHANGED canceledTasks
        /\ cancelling' = [cancelling EXCEPT ![c] = id]
    BY <1>3 DEF CancelIfExist
  <2>2. id \notin Elements(canceledTasks) /\ \A d \in Clients : cancelling[d] # id
    BY <2>1 DEF CancelsAreFinal
  <2> QED  BY <1>t, <2>1, <2>2 DEF CancelsOnce
<1>4. ASSUME NEW c \in Clients, PushCanceled(c) PROVE CancelsOnce'
  <2>1. cancelling[c] \in Ids /\ cancelling' = [cancelling EXCEPT ![c] = Nil]
    BY <1>4, <1>t DEF PushCanceled
  <2>2. Elements(canceledTasks') = Elements(canceledTasks) \cup {cancelling[c]}
    BY <1>4, <2>1, SendElements DEF PushCanceled, ServiceTypeOK
  <2> QED  BY <1>t, <2>1, <2>2 DEF CancelsOnce
<1> QED  BY <1>1, <1>2, <1>3, <1>4 DEF Step, Run

(* The id has a row, or its cancellation has not reached the loop yet.      *)
Pending(id) ==
    \/ row[id] # Nil
    \/ \E c \in Clients : cancelling[c] = id
    \/ id \in Elements(canceledTasks)

(* Until a cancellation is taken from the channel, the index knows a copy   *)
(* of the list: other copies are overwritten by the same task, and only     *)
(* the release of a copy erases the entry.                                  *)
IndexKnows ==
    \A t \in Task : Pending(t.id) /\ Has(tasksWaitingList, t) /\ task # t /\ ~Released(t) =>
                        tasksWaitingList.index[t.id] = t

(* Adding a task makes the index know it and changes no other entry.        *)
LEMMA AddKnows ==
    ASSUME NEW l \in TaskList, NEW t \in Task, NEW id \in Ids
    PROVE  Add(l, t).index[id] = IF id = t.id THEN t ELSE l.index[id]
BY DEF Add, TaskList, Task

LEMMA IndexKnowsStep ==
    /\ ~IdReuse /\ ServiceTypeOK /\ OneTaskPerId /\ CancelsAreFinal /\ CancelsOnce /\ IndexKnows
    /\ [Step]_serviceVars
    => IndexKnows'
<1> SUFFICES ASSUME ~IdReuse, ServiceTypeOK, OneTaskPerId, CancelsAreFinal, CancelsOnce, IndexKnows,
                    [Step]_serviceVars, NEW t \in Task,
                    Pending(t.id)', Has(tasksWaitingList', t), task' # t, ~Released(t)'
             PROVE  tasksWaitingList'.index[t.id] = t
  BY DEF IndexKnows
<1> USE NilAssumption, NilIdAssumption
<1> DEFINE l == tasksWaitingList
<1>t. /\ t.id \in Ids /\ t # Nil /\ task \in Task \cup {Nil} /\ l \in TaskList /\ IndexIsLive(l)
      /\ Elements(canceledTasks) \subseteq Ids /\ cancelling \in [Clients -> Ids \cup {Nil}]
      /\ row \in [Ids -> ExecTimes \cup {Nil}]
  BY DEF ServiceTypeOK, Task, Elements
<1>0. ASSUME UNCHANGED <<tasksWaitingList, task>>, Pending(t.id), ~Released(t)
      PROVE  l'.index[t.id] = t
  BY <1>0 DEF IndexKnows
<1>r. ASSUME UNCHANGED <<tasksReadyToSend, sent>> PROVE ~Released(t)
  BY <1>r DEF Released, Elements
<1>p. ASSUME UNCHANGED <<row, cancelling, canceledTasks>> PROVE Pending(t.id)
  BY <1>p DEF Pending, Elements
<1>1. CASE TakeNothing \/ TimerFires \/ GreedyAddEnds \/ GreedyCancelEnds \/ Tick
           \/ UNCHANGED serviceVars \/ (\E u \in Task : PushRead(u))
           \/ \E c \in Clients : PushPreloaded(c)
  BY <1>0, <1>r, <1>p, <1>1 DEF TakeNothing, TimerFires, GreedyAddEnds, GreedyCancelEnds, Tick,
      PushRead, PushPreloaded, loopVars, clientVars, serviceVars
<1>2. CASE SendReady
  <2>1. task \in Task /\ UNCHANGED <<tasksWaitingList, row, cancelling, canceledTasks, sent>>
    BY <1>2 DEF SendReady, ServiceTypeOK, clientVars
  <2>2. Elements(tasksReadyToSend') = Elements(tasksReadyToSend) \cup {task}
    BY <1>2, <2>1, SendElements DEF SendReady, ServiceTypeOK
  <2>3. ~Released(t) /\ task # t
    BY <2>1, <2>2 DEF Released
  <2> QED  BY <1>p, <2>1, <2>3 DEF IndexKnows
<1>3. CASE Consume
  <2>1. /\ Elements(tasksReadyToSend) = Elements(tasksReadyToSend') \cup {Head(tasksReadyToSend)}
        /\ sent' = sent \cup {Head(tasksReadyToSend)}
    BY <1>3, ReceiveElements DEF Consume, ServiceTypeOK
  <2>2. ~Released(t)
    BY <2>1 DEF Released
  <2> QED  BY <1>0, <1>p, <1>3, <2>2 DEF Consume, loopVars, clientVars
<1>4. CASE TakeTask
  <2>1. PICK u \in Task : /\ Has(l, u) /\ l' = Take(l, u) /\ task' = u /\ task = Nil
    BY <1>4 DEF TakeTask, Firsts, ServiceTypeOK
  <2>2. Has(l, t) /\ Pending(t.id) /\ ~Released(t) /\ t # u
    BY <1>4, <1>t, <1>r, <1>p, <2>1, TakeHas DEF TakeTask, clientVars
  <2>3. t.id # u.id
    BY <2>1, <2>2 DEF OneTaskPerId, Present
  <2>4. l.index[t.id] = t
    BY <1>t, <2>1, <2>2 DEF IndexKnows
  <2> QED  BY <1>t, <2>1, <2>3, <2>4 DEF Take, TaskList
<1>5. CASE ReceivePreloaded \/ GreedyAdd
  <2> DEFINE x == Head(preloadedTasks)
             k == PutBack(l)
  <2>1. x \in Task /\ x \in Elements(preloadedTasks)
    BY <1>5, ReceiveElements DEF ReceivePreloaded, GreedyAdd, ServiceTypeOK
  <2>2. l' = Add(k, x) /\ Pending(t.id) /\ ~Released(t)
    BY <1>5, <1>r, <1>p DEF ReceivePreloaded, GreedyAdd, ServiceTypeOK, PutBack, clientVars
  <2>3. /\ k \in TaskList /\ (Has(k, t) => Has(l, t) \/ task = t)
        /\ k.index[t.id] = IF task # Nil /\ t.id = task.id THEN task ELSE l.index[t.id]
    BY <1>t, AddType, AddHas, AddKnows DEF PutBack
  <2>4. l'.index[t.id] = IF t.id = x.id THEN x ELSE k.index[t.id]
    BY <1>t, <2>1, <2>2, <2>3, AddKnows
  <2>5. Present(t)
    BY <2>1, <2>2, <2>3, AddHas DEF Present
  <2>6. CASE t.id = x.id
    BY <2>1, <2>4, <2>5, <2>6 DEF OneTaskPerId, Present
  <2>7. CASE t.id # x.id
    <3>1. Has(k, t)
      BY <2>1, <2>2, <2>3, <2>7, AddHas
    <3>2. CASE task # Nil /\ t.id = task.id
      BY <1>t, <2>3, <2>4, <2>5, <2>7, <3>2 DEF OneTaskPerId, Present
    <3>3. CASE ~(task # Nil /\ t.id = task.id)
      BY <1>t, <2>2, <2>3, <2>4, <2>7, <3>1, <3>3 DEF IndexKnows
    <3> QED  BY <3>2, <3>3
  <2> QED  BY <2>6, <2>7
<1>6. CASE ReceiveCanceled \/ GreedyCancel
  <2> DEFINE id == Head(canceledTasks)
             k == IF task # Nil /\ task.id # id THEN Add(l, task) ELSE l
  <2>1. id \in Ids /\ id \in Elements(canceledTasks) /\ Elements(canceledTasks') = {}
    <3>1. /\ canceledTasks \in Seq(Ids) /\ canceledTasks # <<>> /\ Len(canceledTasks) <= 1
          /\ canceledTasks' = Tail(canceledTasks)
      BY <1>6 DEF ReceiveCanceled, GreedyCancel, ServiceTypeOK
    <3>2. Elements(Tail(canceledTasks)) = {}
      BY <3>1, ReceiveLast
    <3>3. id \in Ids /\ Elements(canceledTasks) = Elements(Tail(canceledTasks)) \cup {id}
      BY <3>1, ReceiveElements
    <3> QED  BY <3>1, <3>2, <3>3
  <2>2. l' = DeleteIfExist(k, id) /\ UNCHANGED <<row, cancelling, tasksReadyToSend, sent>>
    BY <1>6 DEF ReceiveCanceled, GreedyCancel, ServiceTypeOK, clientVars
  <2>3. t.id # id
    BY <2>1, <2>2 DEF Pending, CancelsAreFinal, CancelsOnce
  <2>4. Pending(t.id) /\ ~Released(t)
    BY <1>r, <2>1, <2>2 DEF Pending
  <2>5. /\ k \in TaskList /\ IndexIsLive(k) /\ (Has(k, t) => Has(l, t) \/ task = t)
        /\ k.index[t.id] = IF task # Nil /\ task.id # id /\ t.id = task.id
                           THEN task ELSE l.index[t.id]
    BY <1>t, AddType, AddHas, AddKnows
  <2> HIDE DEF k
  <2>6. Has(k, t)
    BY <2>1, <2>2, <2>5, DeleteCounts, ListCounts DEF Has
  <2>7. k.index[t.id] = t
    <3>1. CASE task # Nil /\ t.id = task.id
      BY <1>t, <2>3, <2>5, <2>6, <3>1 DEF OneTaskPerId, Present
    <3>2. CASE ~(task # Nil /\ t.id = task.id)
      BY <1>t, <2>4, <2>5, <2>6, <3>2 DEF IndexKnows
    <3> QED  BY <3>1, <3>2
  <2> QED  BY <1>t, <2>1, <2>2, <2>3, <2>5, <2>7 DEF DeleteIfExist, TaskList
<1>7. ASSUME NEW c \in Clients, NEW u \in Task, Commit(c, u) PROVE l'.index[t.id] = t
  <2>1. /\ UNCHANGED <<tasksWaitingList, task, cancelling, canceledTasks, tasksReadyToSend, sent>>
        /\ u.id \notin created /\ row' = [row EXCEPT ![u.id] = u.execTime]
    BY <1>7 DEF Commit, loopVars
  <2>2. t.id \in created
    BY <2>1 DEF OneTaskPerId, Present
  <2>3. row'[t.id] = row[t.id]
    BY <1>t, <2>1, <2>2
  <2>4. Pending(t.id)
    BY <2>1, <2>3 DEF Pending, Elements
  <2> QED  BY <1>0, <1>r, <2>1, <2>4
<1>8. ASSUME NEW c \in Clients, NEW id \in Ids, CancelIfExist(c, id) PROVE l'.index[t.id] = t
  <2>1. /\ UNCHANGED <<tasksWaitingList, task, canceledTasks, tasksReadyToSend, sent>>
        /\ row[id] # Nil /\ row' = [row EXCEPT ![id] = Nil]
        /\ cancelling[c] = Nil /\ cancelling' = [cancelling EXCEPT ![c] = id]
    BY <1>8 DEF CancelIfExist, Idle, loopVars
  <2>2. Pending(t.id)
    BY <1>t, <2>1 DEF Pending, Elements
  <2> QED  BY <1>0, <1>r, <2>1, <2>2
<1>9. ASSUME NEW c \in Clients, PushCanceled(c) PROVE l'.index[t.id] = t
  <2>1. cancelling[c] \in Ids /\ cancelling' = [cancelling EXCEPT ![c] = Nil]
        /\ UNCHANGED <<tasksWaitingList, task, row, tasksReadyToSend, sent>>
    BY <1>9, <1>t DEF PushCanceled, loopVars
  <2>2. Elements(canceledTasks') = Elements(canceledTasks) \cup {cancelling[c]}
    BY <1>9, <2>1, SendElements DEF PushCanceled, ServiceTypeOK
  <2>3. Pending(t.id)
    BY <1>t, <2>1, <2>2 DEF Pending
  <2> QED  BY <1>0, <1>r, <2>1, <2>3
<1> QED  BY <1>1, <1>2, <1>3, <1>4, <1>5, <1>6, <1>7, <1>8, <1>9 DEF Step, Run

(* Taking a cancellation from the channel gives up a copy of its task that  *)
(* is in the list or held, unless a copy was released before, and no copy   *)
(* of another task, if ids are used only once (waiting_service.go:153-168;  *)
(* task_heap.go:47-57).                                                     *)
THEOREM CancellationRemovesACopy == ~IdReuse => (Spec => CancelRemovesCopy)
<1> SUFFICES ASSUME ~IdReuse PROVE Spec => CancelRemovesCopy
  OBVIOUS
<1> USE NilAssumption, NilIdAssumption
<1> DEFINE Inv == OneTaskPerId /\ CancelsAreFinal /\ CancelsOnce /\ IndexKnows
           Removes ==
             canceledTasks' # canceledTasks /\ canceledTasks # <<>> =>
               \A t \in Task :
                  IF t.id = Head(canceledTasks)
                  THEN Held(t) > 0 /\ ~Released(t) => Held(t)' < Held(t)
                  ELSE Held(t)' = Held(t)
<1>1. Init => Inv
  <2> SUFFICES ASSUME Init PROVE Inv
    OBVIOUS
  <2>1. \A t \in Task : ~Present(t)
    BY DEF Init, EmptyList, Present, Has, Elements, Task
  <2>2. \A t \in Task : ~Has(tasksWaitingList, t)
    BY DEF Init, EmptyList, Has
  <2>3. CancelsAreFinal /\ CancelsOnce
    BY DEF Init, CancelsAreFinal, CancelsOnce, Elements
  <2> QED  BY <2>1, <2>2, <2>3 DEF OneTaskPerId, IndexKnows
<1>2. TypeOK /\ Inv /\ [Next]_vars => Inv'
  BY NextSteps, OneTaskPerIdStep, CancelsStep, CancelsOnceStep, IndexKnowsStep DEF TypeOK
<1>3. TypeOK /\ Inv /\ [Next]_vars => [Removes]_vars
  <2> SUFFICES ASSUME ServiceTypeOK, Inv, [Step]_serviceVars, NEW t \in Task,
                      canceledTasks' # canceledTasks, canceledTasks # <<>>
               PROVE  IF t.id = Head(canceledTasks)
                      THEN Held(t) > 0 /\ ~Released(t) => Held(t)' < Held(t)
                      ELSE Held(t)' = Held(t)
    BY NextSteps DEF TypeOK
  <2> DEFINE l == tasksWaitingList
             id == Head(canceledTasks)
             k == IF task # Nil /\ task.id # id THEN Add(l, task) ELSE l
  <2>t. /\ t.id \in Ids /\ t # Nil /\ task \in Task \cup {Nil} /\ l \in TaskList
        /\ IndexIsLive(l) /\ l.pq[t] \in Nat
    BY ListCounts DEF ServiceTypeOK, Task
  <2>1. ASSUME NEW c \in Clients, PushCanceled(c) PROVE FALSE
    <3>1. Len(canceledTasks) \in Nat /\ Len(canceledTasks) < 1
      BY <2>1 DEF PushCanceled, ServiceTypeOK
    <3>2. canceledTasks = <<>>
      BY <3>1, EmptySeq DEF ServiceTypeOK
    <3> QED  BY <3>2
  <2>2. ReceiveCanceled \/ GreedyCancel
    BY <2>1 DEF Step, Run, TakeNothing, TakeTask, TimerFires, SendReady, ReceivePreloaded, GreedyAdd,
        GreedyAddEnds, GreedyCancelEnds, Commit, CancelIfExist, PushPreloaded, PushRead, Consume,
        Tick, serviceVars
  <2>3. id \in Ids /\ id \in Elements(canceledTasks)
    BY <2>2, ReceiveElements DEF ReceiveCanceled, GreedyCancel, ServiceTypeOK
  <2>4. l' = DeleteIfExist(k, id) /\ task' = Nil
    BY <2>2 DEF ReceiveCanceled, GreedyCancel, ServiceTypeOK
  <2>5. /\ k \in TaskList /\ IndexIsLive(k)
        /\ k.pq[t] = l.pq[t] + IF task # Nil /\ task.id # id THEN One(task = t) ELSE 0
        /\ k.index[id] = l.index[id]
    BY <2>t, <2>3, AddType, AddKnows, ListCounts
  <2>6. Held(t)' = l'.pq[t]
    <3>1. l'.pq[t] \in Nat
      BY TypeStep, ListCounts DEF ServiceTypeOK
    <3> QED  BY <2>t, <2>4, <3>1 DEF Held, One
  <2>7. CASE t.id # id
    <3>1. l'.pq[t] = k.pq[t]
      BY <2>3, <2>4, <2>5, <2>7, DeleteCounts
    <3> QED  BY <2>t, <2>5, <2>6, <2>7, <3>1 DEF Held, One
  <2>8. ASSUME t.id = id, Held(t) > 0, ~Released(t) PROVE Held(t)' < Held(t)
    <3>1. k.pq[t] = l.pq[t]
      BY <2>t, <2>5, <2>8 DEF One
    <3>2. CASE task = t
      <4>1. l'.pq[t] \in Nat /\ l'.pq[t] <= l.pq[t]
        BY <2>3, <2>4, <2>5, <3>1, DeleteCounts
      <4> QED  BY <2>t, <2>6, <3>2, <4>1 DEF Held, One
    <3>3. CASE task # t
      <4>1. Has(l, t) /\ Held(t) = l.pq[t]
        BY <2>t, <2>8, <3>3 DEF Held, One, Has
      <4>2. l.index[id] = t
        BY <2>3, <2>8, <3>3, <4>1 DEF IndexKnows, Pending
      <4> HIDE DEF k, id, l
      <4>3. l' = Take(k, t)
        BY <2>t, <2>4, <2>5, <2>8, <4>2 DEF DeleteIfExist, Take
      <4>4. l'.pq[t] = l.pq[t] - 1
        BY <2>5, <3>1, <4>3, ListCounts DEF One
      <4> QED  BY <2>t, <2>6, <4>1, <4>4
    <3> QED  BY <3>2, <3>3
  <2> QED  BY <2>7, <2>8
<1> QED  BY <1>1, <1>2, <1>3, TypeCorrect, PTL DEF Spec, CancelRemovesCopy

=============================================================================
