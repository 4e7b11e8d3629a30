------------------------ MODULE SenderServiceProofs --------------------------
(***************************************************************************)
(* Proofs about SenderService, for every number of tasks, consumers,       *)
(* objects and workers: its types and safety, and that it implements       *)
(* SenderSpec.                                                             *)
(***************************************************************************)
EXTENDS SenderService, Counting

USE BatchAssumption, UsageAssumption, FaultsAssumption, NilAssumption

LEMMA HeadTail ==
    ASSUME NEW S, NEW s \in Seq(S), s # <<>> PROVE Head(s) \in S /\ Tail(s) \in Seq(S)
  OBVIOUS

-----------------------------------------------------------------------------
(* Type correctness                                                         *)

(* The objects and the consumers that hold them.                            *)
LEMMA ConsumersType == TypeOK /\ [Next]_vars => ConsumersTypeOK'
<1> SUFFICES ASSUME TypeOK, [Next]_vars PROVE ConsumersTypeOK'
  OBVIOUS
<1>t. /\ pool \in [Objects -> Nat]
      /\ obj \in [Objects -> [isProcessed : BOOLEAN, task : Tasks \cup {Nil}]]
      /\ consumer \in [Consumers -> Consumer]
      /\ \A c \in Consumers :
            /\ consumer[c].obj = Nil <=> consumer[c].pc = "idle"
            /\ consumer[c].pc \in {"work", "check", "mark", "send"} =>
                  obj[consumer[c].obj].task \in Tasks
            /\ consumer[c].pc = "send" => consumer[c].task \in Tasks
      /\ ready \subseteq Tasks /\ bufferOut \in Seq(Tasks)
  BY DEF TypeOK, ConsumersTypeOK, ChannelsTypeOK, HistoryTypeOK
<1>e. \A c \in Consumers : consumer[c] \in Consumer
  BY <1>t
<1>f. UNCHANGED <<pool, obj, consumer>> => ConsumersTypeOK'
  BY <1>t DEF ConsumersTypeOK
<1>o. ASSUME NEW c \in Consumers, consumer[c].pc # "idle"
      PROVE  consumer[c].obj \in Objects
  BY <1>o, <1>t DEF Consumer
(* One consumer changes, and one object.                                    *)
<1>c. ASSUME NEW c \in Consumers, NEW v \in Consumer, NEW o \in Objects,
             NEW x \in [isProcessed : BOOLEAN, task : Tasks \cup {Nil}],
             consumer' = [consumer EXCEPT ![c] = v], obj' = [obj EXCEPT ![o] = x],
             pool' \in [Objects -> Nat],
             v.obj = Nil <=> v.pc = "idle",
             v.pc \in {"work", "check", "mark", "send"} => obj'[v.obj].task \in Tasks,
             v.pc = "send" => v.task \in Tasks,
             \/ x.task \in Tasks
             \/ x.task = obj[o].task
             \/ \A d \in Consumers : consumer[d].obj # o
      PROVE  ConsumersTypeOK'
  <2>1. consumer' \in [Consumers -> Consumer] /\ consumer'[c] = v
    BY <1>c, <1>t
  <2>2. obj' \in [Objects -> [isProcessed : BOOLEAN, task : Tasks \cup {Nil}]]
    BY <1>c, <1>t
  <2>3. ASSUME NEW d \in Consumers, d # c
        PROVE  /\ consumer'[d].obj = Nil <=> consumer'[d].pc = "idle"
               /\ consumer'[d].pc \in {"work", "check", "mark", "send"} =>
                     obj'[consumer'[d].obj].task \in Tasks
               /\ consumer'[d].pc = "send" => consumer'[d].task \in Tasks
    <3>1. consumer'[d] = consumer[d]
      BY <1>c, <1>t, <2>3
    <3>2. ASSUME consumer[d].pc \in {"work", "check", "mark", "send"}
          PROVE  obj'[consumer[d].obj].task \in Tasks
      <4>1. consumer[d].obj \in Objects /\ obj[consumer[d].obj].task \in Tasks
        BY <3>2, <1>o, <1>t
      <4> QED  BY <1>c, <1>t, <4>1
    <3> QED  BY <1>t, <3>1, <3>2
  <2> QED  BY <1>c, <2>1, <2>2, <2>3 DEF ConsumersTypeOK
(* One consumer changes and no object.                                      *)
<1>n. ASSUME NEW c \in Consumers, NEW v \in Consumer,
             consumer' = [consumer EXCEPT ![c] = v], UNCHANGED obj,
             pool' \in [Objects -> Nat],
             v.obj = Nil <=> v.pc = "idle",
             v.pc \in {"work", "check", "mark", "send"} => obj[v.obj].task \in Tasks,
             v.pc = "send" => v.task \in Tasks
      PROVE  ConsumersTypeOK'
  BY <1>n, <1>t DEF ConsumersTypeOK
<1>1. ASSUME NEW c \in Consumers, NEW o \in Objects, Get(c, o) PROVE ConsumersTypeOK'
  <2> DEFINE v == [consumer[c] EXCEPT !.pc = "receive", !.obj = o]
  <2>1. v \in Consumer /\ v.pc = "receive" /\ v.obj = o /\ o # Nil
    BY <1>e, NilAssumption DEF Consumer
  <2>2. consumer' = [consumer EXCEPT ![c] = v]
    BY <1>1, <1>t DEF Get, Consumer
  <2>3. CASE pool[o] > 0 /\ pool' = [pool EXCEPT ![o] = @ - 1]
             /\ obj' = [obj EXCEPT ![o].isProcessed = FALSE]
    <3> DEFINE x == [obj[o] EXCEPT !.isProcessed = FALSE]
    <3>1. x \in [isProcessed : BOOLEAN, task : Tasks \cup {Nil}] /\ x.task = obj[o].task
      <4>1. obj[o] \in [isProcessed : BOOLEAN, task : Tasks \cup {Nil}]
        BY <1>t
      <4> QED  BY <4>1
    <3>2. obj' = [obj EXCEPT ![o] = x]
      BY <2>3
    <3>3. pool' \in [Objects -> Nat]
      <4>1. pool[o] - 1 \in Nat
        BY <1>t, <2>3
      <4> QED  BY <1>t, <2>3, <4>1
    <3> HIDE DEF x, v
    <3> QED  BY <1>c, <2>1, <2>2, <3>1, <3>2, <3>3
  <2>4. CASE /\ \A d \in Consumers : consumer[d].obj # o
             /\ obj' = [obj EXCEPT ![o] = [isProcessed |-> FALSE, task |-> Nil]]
             /\ UNCHANGED pool
    <3> HIDE DEF v
    <3>1. [isProcessed |-> FALSE, task |-> Nil] \in [isProcessed : BOOLEAN, task : Tasks \cup {Nil}]
      OBVIOUS
    <3> QED  BY <1>c, <1>t, <2>1, <2>2, <2>4, <3>1
  <2> QED  BY <1>1, <2>3, <2>4 DEF Get
<1>2. ASSUME NEW c \in Consumers, ReceiveReady(c) \/ ReceiveRolledBack(c) PROVE ConsumersTypeOK'
  <2> DEFINE o == consumer[c].obj
             v == [consumer[c] EXCEPT !.pc = "work"]
  <2>1. PICK t \in Tasks : obj' = [obj EXCEPT ![o].task = t]
    <3>1. CASE ReceiveReady(c)
      BY <1>t, <3>1 DEF ReceiveReady
    <3>2. CASE ReceiveRolledBack(c)
      <4>1. Head(bufferOut) \in Tasks
        BY <1>t, <3>2 DEF ReceiveRolledBack
      <4> QED  BY <3>2, <4>1 DEF ReceiveRolledBack
    <3> QED  BY <1>2, <3>1, <3>2
  <2>2. o \in Objects /\ o # Nil
    BY <1>2, <1>o DEF ReceiveReady, ReceiveRolledBack
  <2> DEFINE x == [obj[o] EXCEPT !.task = t]
  <2>3. /\ x \in [isProcessed : BOOLEAN, task : Tasks \cup {Nil}] /\ x.task = t
        /\ obj' = [obj EXCEPT ![o] = x] /\ obj'[o].task = t
    BY <1>t, <2>1, <2>2, ZenonT(40)
  <2>4. v \in Consumer /\ v.pc = "work" /\ v.obj = o
    BY <1>t, ZenonT(40) DEF Consumer
  <2>5. consumer' = [consumer EXCEPT ![c] = v] /\ pool' \in [Objects -> Nat]
    BY <1>2, <1>t DEF ReceiveReady, ReceiveRolledBack, Consumer
  <2>6. obj'[v.obj].task \in Tasks /\ x.task \in Tasks
    BY <2>3, <2>4
  <2>7. v.obj # Nil
    BY <2>2, <2>4
  <2>8. v.pc # "idle" /\ v.pc # "send"
    BY <2>4
  <2>9. obj' = [obj EXCEPT ![o] = x] /\ x \in [isProcessed : BOOLEAN, task : Tasks \cup {Nil}]
    BY <2>3
  <2> HIDE DEF o, v, x
  <2> QED  BY <1>c, <2>2, <2>4, <2>5, <2>6, <2>7, <2>8, <2>9
<1>3. ASSUME NEW c \in Consumers, Complete(c) \/ Reject(c) PROVE ConsumersTypeOK'
  <2>1. PICK k \in {"confirm", "rollback"} :
            consumer' = [consumer EXCEPT ![c].pc = "check", ![c].then = k]
    BY <1>3 DEF Complete, Reject
  <2> DEFINE v == [consumer[c] EXCEPT !.pc = "check", !.then = k]
  <2>2. v \in Consumer /\ v.pc = "check" /\ v.obj = consumer[c].obj
    BY <1>e DEF Consumer
  <2>3. consumer' = [consumer EXCEPT ![c] = v]
    BY <1>t, <2>1 DEF Consumer
  <2>4. consumer[c].pc = "work" /\ UNCHANGED <<pool, obj>>
    BY <1>3 DEF Complete, Reject, objects
  <2> HIDE DEF v
  <2> QED  BY <1>n, <1>t, <2>2, <2>3, <2>4
<1>r. ASSUME NEW c \in Consumers, Returned(c), consumer[c].pc \in {"check", "send"},
             obj[consumer[c].obj].task \in Tasks, UNCHANGED obj, pool' \in [Objects -> Nat]
      PROVE  ConsumersTypeOK'
  <2> DEFINE v == IF ConfirmAfterRollback /\ consumer[c].then = "rollback"
                  THEN [pc |-> "check", obj |-> consumer[c].obj, then |-> "confirm", task |-> Nil]
                  ELSE NoTask
  <2>1. v \in Consumer /\ (v.obj = Nil <=> v.pc = "idle") /\ v.pc \in {"check", "idle"}
        /\ (v.pc = "check" => v.obj = consumer[c].obj)
    BY <1>r, <1>t, <1>o DEF Consumer, NoTask
  <2>2. consumer' = [consumer EXCEPT ![c] = v]
    BY <1>r, <1>t DEF Returned
  <2> HIDE DEF v
  <2> QED  BY <1>r, <1>n, <2>1, <2>2
<1>4. ASSUME NEW c \in Consumers, Check(c) PROVE ConsumersTypeOK'
  <2>1. CASE obj[consumer[c].obj].isProcessed
    BY <1>4, <1>r, <1>t, <2>1 DEF Check, objects
  <2>2. CASE ~obj[consumer[c].obj].isProcessed
    <3> DEFINE v == [consumer[c] EXCEPT !.pc = "mark"]
    <3>1. v \in Consumer /\ v.pc = "mark" /\ v.obj = consumer[c].obj
      BY <1>e DEF Consumer
    <3>2. consumer' = [consumer EXCEPT ![c] = v] /\ UNCHANGED <<pool, obj>>
          /\ consumer[c].pc = "check"
      BY <1>4, <1>t, <2>2 DEF Check, objects, Consumer
    <3> HIDE DEF v
    <3> QED  BY <1>n, <1>t, <3>1, <3>2
  <2> QED  BY <2>1, <2>2
<1>5. ASSUME NEW c \in Consumers, Mark(c) PROVE ConsumersTypeOK'
  <2> DEFINE o == consumer[c].obj
             v == [consumer[c] EXCEPT !.pc = "send", !.task = obj[o].task]
             x == [obj[o] EXCEPT !.isProcessed = TRUE]
  <2>1. o \in Objects /\ obj[o].task \in Tasks
    BY <1>5, <1>o, <1>t DEF Mark
  <2>2. v \in Consumer /\ v.pc = "send" /\ v.obj = o /\ v.task \in Tasks /\ o # Nil
    <3>1. o # Nil
      BY <2>1, NilAssumption
    <3> QED  BY <1>e, <2>1, <3>1 DEF Consumer
  <2>3. consumer' = [consumer EXCEPT ![c] = v] /\ UNCHANGED pool
    <3>1. /\ consumer' = [consumer EXCEPT ![c].pc = "send", ![c].task = obj[o].task]
          /\ UNCHANGED pool
      BY <1>5 DEF Mark
    <3>2. consumer[c] \in Consumer
      BY <1>t
    <3> HIDE DEF o
    <3> QED  BY <1>t, <3>1, <3>2 DEF Consumer
  <2>4. /\ x \in [isProcessed : BOOLEAN, task : Tasks \cup {Nil}] /\ x.task \in Tasks
        /\ obj' = [obj EXCEPT ![o] = x]
    <3>1. obj[o] \in [isProcessed : BOOLEAN, task : Tasks \cup {Nil}]
      BY <1>t, <2>1
    <3>2. x \in [isProcessed : BOOLEAN, task : Tasks \cup {Nil}] /\ x.task \in Tasks
      BY <2>1, <3>1
    <3>3. obj' = [obj EXCEPT ![o] = x]
      BY <1>5 DEF Mark
    <3> QED  BY <3>2, <3>3
  <2> HIDE DEF o, v, x
  <2> QED  BY <1>c, <1>t, <2>1, <2>2, <2>3, <2>4
<1>6. ASSUME NEW c \in Consumers, SendConfirm(c) \/ SendRollback(c) PROVE ConsumersTypeOK'
  <2>1. consumer[c].obj \in Objects /\ consumer[c].pc = "send" /\ Returned(c) /\ UNCHANGED obj
    BY <1>6, <1>o DEF SendConfirm, SendRollback
  <2>2. pool' \in [Objects -> Nat]
    <3>1. Put(consumer[c].obj)
      BY <1>6 DEF SendConfirm, SendRollback
    <3>2. pool[consumer[c].obj] + 1 \in Nat
      BY <1>t, <2>1
    <3> QED  BY <1>t, <3>1, <3>2 DEF Put
  <2>3. obj[consumer[c].obj].task \in Tasks
    BY <1>t, <2>1
  <2> QED  BY <1>r, <2>1, <2>2, <2>3
<1>7. CASE \/ BufferReceive \/ BufferSend \/ Generate \/ Dispatch
           \/ \E w \in Workers : Confirmation(w) \/ ConfirmationFails(w)
           \/ UNCHANGED vars
  BY <1>7, <1>f DEF BufferReceive, BufferSend, Generate, Collect, BatchExpires, PushBatch,
                    LookForToken, SendToken, PublishBatch, Dispatch, Pop, ReceiveToken,
                    SendBatch, Confirmation, TakeBatch, ConfirmExecution, PublishConfirmed,
                    ConfirmationFails, objects, vars
<1> QED  BY <1>1, <1>2, <1>3, <1>4, <1>5, <1>6, <1>7 DEF Next, Consume, Answer

(* The channels and queues.                                                 *)
LEMMA ChannelsType == TypeOK /\ [Next]_vars => ChannelsTypeOK'
<1> SUFFICES ASSUME TypeOK, [Next]_vars PROVE ChannelsTypeOK'
  OBVIOUS
<1> USE DEF ChanCap
<1>t. ChannelsTypeOK /\ ConsumersTypeOK /\ BatchingTypeOK
  BY DEF TypeOK
<1>f. UNCHANGED <<bufferIn, bufferList, bufferOut, tasksToConfirm, updateQueue, queue, batches>>
      => ChannelsTypeOK'
  BY <1>t DEF ChannelsTypeOK
<1>1. ASSUME NEW c \in Consumers,
             \/ \E o \in Objects : Get(c, o)
             \/ ReceiveReady(c) \/ Complete(c) \/ Reject(c) \/ Check(c) \/ Mark(c)
      PROVE  ChannelsTypeOK'
  BY <1>1, <1>f DEF Get, ReceiveReady, Complete, Reject, Check, Mark, buffer, batching
<1>2. ASSUME NEW c \in Consumers, ReceiveRolledBack(c) PROVE ChannelsTypeOK'
  BY <1>2, <1>t DEF ReceiveRolledBack, ChannelsTypeOK, batching
<1>3. ASSUME NEW c \in Consumers, SendConfirm(c) PROVE ChannelsTypeOK'
  <2>1. consumer[c].task \in Tasks
    BY <1>3, <1>t DEF SendConfirm, ConsumersTypeOK
  <2> QED  BY <1>3, <1>t, <2>1 DEF SendConfirm, ChannelsTypeOK, buffer, batching
<1>4. ASSUME NEW c \in Consumers, SendRollback(c) PROVE ChannelsTypeOK'
  <2>1. consumer[c].task \in Tasks
    BY <1>4, <1>t DEF SendRollback, ConsumersTypeOK
  <2> QED  BY <1>4, <1>t, <2>1 DEF SendRollback, ChannelsTypeOK, batching
<1>5. CASE BufferReceive
  BY <1>5, <1>t DEF BufferReceive, ChannelsTypeOK, batching
<1>6. CASE BufferSend
  BY <1>6, <1>t DEF BufferSend, ChannelsTypeOK, batching
<1>7. CASE Collect
  BY <1>7, <1>t DEF Collect, ChannelsTypeOK, buffer
<1>8. CASE PushBatch
  BY <1>8, <1>t DEF PushBatch, ChannelsTypeOK, BatchingTypeOK, buffer
<1>9. CASE SendToken \/ ReceiveToken
  BY <1>9, <1>t DEF SendToken, ReceiveToken, ChannelsTypeOK, buffer
<1>10. CASE Pop
  <2>1. queue \in Seq(Seq(Tasks)) /\ (queue' = queue \/ (queue # <<>> /\ queue' = Tail(queue)))
    BY <1>10, <1>t DEF Pop, ChannelsTypeOK
  <2>2. queue' \in Seq(Seq(Tasks))
    BY <2>1, HeadTail
  <2> QED  BY <1>10, <1>t, <2>2 DEF Pop, ChannelsTypeOK, buffer
<1>11. CASE SendBatch
  BY <1>11, <1>t DEF SendBatch, ChannelsTypeOK, BatchingTypeOK, buffer
<1>12. ASSUME NEW w \in Workers, TakeBatch(w) PROVE ChannelsTypeOK'
  <2>1. batches' = Tail(batches) /\ batches # <<>> /\ batches \in Seq(Seq(Tasks))
    BY <1>12, <1>t DEF TakeBatch, ChannelsTypeOK
  <2>2. batches' \in Seq(Seq(Tasks)) /\ Len(batches') <= Len(batches)
    BY <2>1
  <2> QED  BY <1>12, <1>t, <2>1, <2>2 DEF TakeBatch, ChannelsTypeOK, buffer
<1>13. CASE \/ BatchExpires \/ LookForToken \/ PublishBatch \/ UNCHANGED vars
            \/ \E w \in Workers : \/ ConfirmExecution(w) \/ ConfirmationFails(w)
                                  \/ PublishConfirmed(w)
  BY <1>13, <1>f DEF BatchExpires, LookForToken, PublishBatch, ConfirmExecution,
                     ConfirmationFails, PublishConfirmed, buffer, vars
<1> QED
  BY <1>1, <1>2, <1>3, <1>4, <1>5, <1>6, <1>7, <1>8, <1>9, <1>10, <1>11, <1>12, <1>13
     DEF Next, Consume, Answer, Generate, Dispatch, Confirmation

(* A confirmation worker has no part in the other goroutines' state.        *)
LEMMA WorkersStepAlone ==
    ASSUME NEW w \in Workers,
           \/ TakeBatch(w) \/ ConfirmExecution(w) \/ ConfirmationFails(w)
           \/ PublishConfirmed(w)
    PROVE  UNCHANGED <<generator, dispatcher>>
<1>1. CASE TakeBatch(w)
  BY <1>1 DEF TakeBatch
<1>2. CASE ConfirmExecution(w)
  BY <1>2 DEF ConfirmExecution
<1>3. CASE ConfirmationFails(w)
  BY <1>3 DEF ConfirmationFails
<1>4. CASE PublishConfirmed(w)
  BY <1>4 DEF PublishConfirmed
<1> QED  BY <1>1, <1>2, <1>3, <1>4

(* The goroutines that make, dispatch and confirm batches.                  *)
LEMMA BatchingType == TypeOK /\ [Next]_vars => BatchingTypeOK'
<1> SUFFICES ASSUME TypeOK, [Next]_vars PROVE BatchingTypeOK'
  OBVIOUS
<1>t. ChannelsTypeOK /\ BatchingTypeOK
  BY DEF TypeOK
<1>f. UNCHANGED <<generator, dispatcher, worker>> => BatchingTypeOK'
  BY <1>t DEF BatchingTypeOK
<1>1. CASE Collect
  <2>1. Head(tasksToConfirm) \in Tasks /\ generator.batch \in Seq(Tasks)
    BY <1>1, <1>t DEF Collect, ChannelsTypeOK, BatchingTypeOK
  <2> DEFINE b == Append(generator.batch, Head(tasksToConfirm))
  <2>2. b \in Seq(Tasks) /\ Len(b) = Len(generator.batch) + 1
    BY <2>1
  <2>3. Len(generator.batch) < BatchMaxItems /\ Len(generator.batch) \in Nat
    BY <1>1, <1>t, <2>1 DEF Collect, BatchingTypeOK
  <2>4. generator' = [pc |-> IF Len(b) = BatchMaxItems THEN "push" ELSE "collect", batch |-> b]
        /\ UNCHANGED <<dispatcher, worker>>
    BY <1>1 DEF Collect
  <2> HIDE DEF b
  <2> QED  BY <1>t, <2>2, <2>3, <2>4 DEF BatchingTypeOK
<1>2. CASE BatchExpires \/ PushBatch \/ LookForToken \/ SendToken
  BY <1>2, <1>t DEF BatchExpires, PushBatch, LookForToken, SendToken, BatchingTypeOK
<1>3. CASE PublishBatch
  BY <1>3, <1>t DEF PublishBatch, BatchingTypeOK
<1>4. CASE Pop \/ ReceiveToken \/ SendBatch
  <2>1. queue # <<>> => Head(queue) \in Seq(Tasks)
    BY <1>t DEF ChannelsTypeOK
  <2>2. dispatcher' \in [pc : {"pop", "wait", "send"}, batch : Seq(Tasks)]
    <3>e. <<>> \in Seq(Tasks)
      OBVIOUS
    <3>1. CASE Pop
      <4>1. CASE queue # <<>> /\ dispatcher' = [pc |-> "send", batch |-> Head(queue)]
        BY <2>1, <4>1
      <4>2. CASE dispatcher' = [pc |-> "wait", batch |-> <<>>]
        BY <3>e, <4>2
      <4> QED  BY <3>1, <4>1, <4>2 DEF Pop
    <3>2. CASE ReceiveToken
      BY <1>t, <3>2 DEF ReceiveToken, BatchingTypeOK
    <3>3. CASE SendBatch
      BY <3>e, <3>3 DEF SendBatch
    <3> QED  BY <1>4, <3>1, <3>2, <3>3
  <2> QED  BY <1>4, <1>t, <2>2 DEF Pop, ReceiveToken, SendBatch, BatchingTypeOK
<1>5. ASSUME NEW w \in Workers,
             \/ TakeBatch(w) \/ ConfirmExecution(w) \/ ConfirmationFails(w)
             \/ PublishConfirmed(w)
      PROVE  BatchingTypeOK'
  <2>1. PICK v \in [pc : {"take", "confirm", "publish"}, batch : Seq(Tasks)] :
            worker' = [worker EXCEPT ![w] = v]
    <3>1. CASE TakeBatch(w)
      <4>1. Head(batches) \in Seq(Tasks)
        BY <1>t, <3>1 DEF TakeBatch, ChannelsTypeOK
      <4> QED  BY <3>1, <4>1 DEF TakeBatch
    <3>2. CASE ConfirmExecution(w) \/ ConfirmationFails(w)
      <4>1. worker' = [worker EXCEPT ![w] = [worker[w] EXCEPT !.pc = "publish"]]
        BY <1>t, <3>2 DEF ConfirmExecution, ConfirmationFails, BatchingTypeOK
      <4>2. [worker[w] EXCEPT !.pc = "publish"]
                \in [pc : {"take", "confirm", "publish"}, batch : Seq(Tasks)]
        BY <1>t DEF BatchingTypeOK
      <4> QED  BY <4>1, <4>2
    <3>3. CASE PublishConfirmed(w)
      <4>1. [pc |-> "take", batch |-> <<>>]
                \in [pc : {"take", "confirm", "publish"}, batch : Seq(Tasks)]
        OBVIOUS
      <4> QED  BY <3>3, <4>1 DEF PublishConfirmed
    <3> QED  BY <1>5, <3>1, <3>2, <3>3
  <2>2. UNCHANGED <<generator, dispatcher>>
    BY <1>5, WorkersStepAlone
  <2> QED  BY <1>t, <2>1, <2>2 DEF BatchingTypeOK
<1>6. CASE \/ \E c \in Consumers : Consume(c) \/ Answer(c)
           \/ BufferReceive \/ BufferSend \/ UNCHANGED vars
  BY <1>6, <1>f DEF Consume, Answer, Get, ReceiveReady, ReceiveRolledBack, Complete, Reject,
                    Check, Mark, SendConfirm, SendRollback, BufferReceive, BufferSend,
                    batching, vars
<1> QED  BY <1>1, <1>2, <1>3, <1>4, <1>5, <1>6 DEF Next, Generate, Dispatch, Confirmation

(* The rows, the metric and the history.                                    *)
LEMMA HistoryType == TypeOK /\ [Next]_vars => HistoryTypeOK'
<1> SUFFICES ASSUME TypeOK, [Next]_vars PROVE HistoryTypeOK'
  OBVIOUS
<1>t. ConsumersTypeOK /\ BatchingTypeOK /\ HistoryTypeOK
  BY DEF TypeOK
<1>f. UNCHANGED <<ready, waitingForConfirmation, row, failed, completed, faults>>
      => HistoryTypeOK'
  BY <1>t DEF HistoryTypeOK
<1>1. ASSUME NEW c \in Consumers, ReceiveReady(c) PROVE HistoryTypeOK'
  BY <1>1, <1>t DEF ReceiveReady, HistoryTypeOK, batching
<1>2. ASSUME NEW c \in Consumers, Complete(c) PROVE HistoryTypeOK'
  <2>1. obj[consumer[c].obj].task \in Tasks
    BY <1>2, <1>t DEF Complete, ConsumersTypeOK
  <2> QED  BY <1>2, <1>t, <2>1 DEF Complete, HistoryTypeOK, batching
<1>3. CASE PublishBatch
  <2>1. Len(generator.batch) \in Nat
    BY <1>t DEF BatchingTypeOK
  <2> QED  BY <1>3, <1>t, <2>1 DEF PublishBatch, HistoryTypeOK
<1>4. ASSUME NEW w \in Workers, PublishConfirmed(w) PROVE HistoryTypeOK'
  <2>1. Len(worker[w].batch) \in Nat
    BY <1>t DEF BatchingTypeOK
  <2> QED  BY <1>4, <1>t, <2>1 DEF PublishConfirmed, HistoryTypeOK
<1>5. ASSUME NEW w \in Workers, ConfirmExecution(w) \/ ConfirmationFails(w) PROVE HistoryTypeOK'
  <2>1. Elements(worker[w].batch) \subseteq Tasks
    BY <1>t DEF BatchingTypeOK, Elements
  <2> QED  BY <1>5, <1>t, <2>1 DEF ConfirmExecution, ConfirmationFails, HistoryTypeOK
<1>6. CASE \/ \E c \in Consumers :
                 \/ \E o \in Objects : Get(c, o)
                 \/ ReceiveRolledBack(c) \/ Reject(c) \/ Check(c) \/ Mark(c)
                 \/ SendConfirm(c) \/ SendRollback(c)
           \/ BufferReceive \/ BufferSend \/ UNCHANGED vars
  BY <1>6, <1>f DEF Get, ReceiveRolledBack, Reject, Check, Mark, SendConfirm, SendRollback,
                    BufferReceive, BufferSend, batching, vars
<1>7. CASE \/ Collect \/ BatchExpires \/ PushBatch \/ LookForToken \/ SendToken \/ Dispatch
           \/ \E w \in Workers : TakeBatch(w)
  BY <1>7, <1>f DEF Collect, BatchExpires, PushBatch, LookForToken, SendToken, Dispatch, Pop,
                    ReceiveToken, SendBatch, TakeBatch
<1> QED  BY <1>1, <1>2, <1>3, <1>4, <1>5, <1>6, <1>7
            DEF Next, Consume, Answer, Generate, Confirmation

(* The state of the sender has its type: channels and batches never exceed  *)
(* their capacity, a consumer that is past Consume has a task.              *)
THEOREM TypeCorrect == Spec => []TypeOK
<1>1. Init => TypeOK
  BY DEF Init, TypeOK, ConsumersTypeOK, ChannelsTypeOK, BatchingTypeOK, HistoryTypeOK,
         NoTask, Consumer, ChanCap
<1>2. TypeOK /\ [Next]_vars => TypeOK'
  BY ConsumersType, ChannelsType, BatchingType, HistoryType DEF TypeOK
<1> QED  BY <1>1, <1>2, PTL DEF Spec

-----------------------------------------------------------------------------
(* Wake-ups                                                                 *)

(* The dispatcher is never left asleep on a queued batch: it goes to sleep  *)
(* only when the queue is empty, and a batch is queued by the goroutine     *)
(* that looks for a token afterwards.                                       *)
THEOREM DispatcherIsWoken == Spec => []NoLostWakeUp
<1>1. Init => NoLostWakeUp
  BY DEF Init, NoLostWakeUp
<1>2. TypeOK /\ NoLostWakeUp /\ [Next]_vars => NoLostWakeUp'
  <2> SUFFICES ASSUME TypeOK, NoLostWakeUp, [Next]_vars PROVE NoLostWakeUp'
    OBVIOUS
  <2>t. /\ updateQueue \in 0..1
        /\ generator \in [pc : {"collect", "push", "look", "signal", "publish"}, batch : Seq(Tasks)]
        /\ dispatcher \in [pc : {"pop", "wait", "send"}, batch : Seq(Tasks)]
    BY DEF TypeOK, ChannelsTypeOK, BatchingTypeOK, ChanCap
  <2>f. UNCHANGED <<dispatcher, queue, updateQueue, generator>> => NoLostWakeUp'
    BY DEF NoLostWakeUp
  <2>1. CASE Collect \/ BatchExpires \/ PublishBatch
    BY <2>1, <2>t DEF Collect, BatchExpires, PublishBatch, NoLostWakeUp
  <2>2. CASE PushBatch \/ LookForToken \/ SendToken
    BY <2>2, <2>t DEF PushBatch, LookForToken, SendToken, NoLostWakeUp
  <2>3. CASE Pop \/ ReceiveToken \/ SendBatch
    <3>1. CASE Pop
      BY <2>t, <3>1 DEF Pop, NoLostWakeUp
    <3>2. CASE ReceiveToken
      BY <2>t, <3>2 DEF ReceiveToken, NoLostWakeUp
    <3>3. CASE SendBatch
      <4>1. dispatcher'.pc = "pop"
        BY <3>3 DEF SendBatch
      <4> QED  BY <4>1 DEF NoLostWakeUp
    <3> QED  BY <2>3, <3>1, <3>2, <3>3
  <2>4. CASE \/ \E c \in Consumers : Consume(c) \/ Answer(c)
             \/ BufferReceive \/ BufferSend \/ UNCHANGED vars
    BY <2>4, <2>f DEF Consume, Answer, Get, ReceiveReady, ReceiveRolledBack, Complete, Reject,
                      Check, Mark, SendConfirm, SendRollback, BufferReceive, BufferSend,
                      batching, vars
  <2>5. CASE \E w \in Workers : Confirmation(w) \/ ConfirmationFails(w)
    BY <2>5, <2>f DEF Confirmation, TakeBatch, ConfirmExecution, ConfirmationFails,
                      PublishConfirmed
  <2> QED  BY <2>1, <2>2, <2>3, <2>4, <2>5 DEF Next, Generate, Dispatch
<1> QED  BY <1>1, <1>2, TypeCorrect, PTL DEF Spec

-----------------------------------------------------------------------------
(* The pool                                                                 *)

(* An object is in the pool at most once: what Get relies on.               *)
PoolInv == ObjectsNotShared /\ \A o \in Objects : pool[o] <= 1

(* A consumer that answers a task once leaves the object with that answer.  *)
LEMMA PoolStep == ~ConfirmAfterRollback /\ TypeOK /\ PoolInv /\ [Next]_vars => PoolInv'
<1> SUFFICES ASSUME ~ConfirmAfterRollback, TypeOK, PoolInv, [Next]_vars PROVE PoolInv'
  OBVIOUS
<1>t. /\ pool \in [Objects -> Nat]
      /\ consumer \in [Consumers -> Consumer]
      /\ \A c \in Consumers : consumer[c].obj = Nil <=> consumer[c].pc = "idle"
  BY DEF TypeOK, ConsumersTypeOK
<1>o. ASSUME NEW c \in Consumers, Holds(c) PROVE consumer[c].obj \in Objects
  BY <1>o, <1>t DEF Consumer, Holds
(* The holder of an object goes on with it.                                 *)
<1>s. ASSUME NEW c \in Consumers, NEW v, v.obj = consumer[c].obj, Holds(c),
             consumer' = [consumer EXCEPT ![c] = v], UNCHANGED pool
      PROVE  PoolInv'
  <2>1. \A d \in Consumers : consumer'[d].obj = consumer[d].obj
    BY <1>s, <1>t
  <2>2. \A d \in Consumers : Holds(d)' => Holds(d)
    BY <1>s, <1>t DEF Holds
  <2> QED  BY <1>s, <2>1, <2>2 DEF ObjectsNotShared, PoolInv
(* The holder of an object drops it.                                        *)
<1>r. ASSUME NEW c \in Consumers, Holds(c), Returned(c),
             pool' = pool \/ Put(consumer[c].obj)
      PROVE  PoolInv'
  <2>1. consumer' = [consumer EXCEPT ![c] = NoTask]
    BY <1>r DEF Returned
  <2>2. NoTask.pc = "idle" /\ NoTask.obj = Nil
    BY DEF NoTask
  <2>3. ASSUME NEW d \in Consumers, Holds(d)'
        PROVE  /\ d # c /\ consumer'[d] = consumer[d] /\ Holds(d)
               /\ consumer[d].obj # consumer[c].obj
    BY <1>r, <1>t, <2>1, <2>2, <2>3 DEF Holds, ObjectsNotShared, PoolInv
  <2>4. ASSUME NEW d \in Consumers, Holds(d)'
        PROVE  pool'[consumer'[d].obj] = 0
    <3>1. consumer[d].obj \in Objects /\ consumer[d].obj # consumer[c].obj
          /\ pool[consumer[d].obj] = 0 /\ consumer'[d] = consumer[d]
      BY <2>3, <2>4, <1>o DEF ObjectsNotShared, PoolInv
    <3> QED  BY <1>r, <1>t, <3>1 DEF Put
  <2>5. ASSUME NEW d \in Consumers, Holds(d)', NEW e \in Consumers \ {d}
        PROVE  consumer'[e].obj # consumer'[d].obj
    <3>1. consumer'[d] = consumer[d] /\ Holds(d) /\ consumer[d].obj \in Objects
      BY <2>3, <2>5, <1>o
    <3>2. CASE e = c
      BY <1>t, <2>1, <2>2, <3>1, <3>2
    <3>3. CASE e # c
      BY <1>t, <2>1, <2>5, <3>1, <3>3 DEF ObjectsNotShared, PoolInv
    <3> QED  BY <3>2, <3>3
  <2>6. \A o \in Objects : pool'[o] <= 1
    <3>1. pool[consumer[c].obj] = 0
      BY <1>r DEF PoolInv, ObjectsNotShared
    <3> QED  BY <1>r, <1>t, <3>1 DEF Put, PoolInv
  <2> QED  BY <2>4, <2>5, <2>6 DEF ObjectsNotShared, PoolInv
<1>f. UNCHANGED <<pool, consumer>> => PoolInv'
  BY DEF PoolInv, ObjectsNotShared, Holds
<1>1. ASSUME NEW c \in Consumers, NEW o \in Objects, Get(c, o) PROVE PoolInv'
  <2>1. pool'[o] = 0 /\ \A q \in Objects : pool'[q] = pool[q] \/ pool'[q] = 0
    <3>1. pool[o] = 0 \/ pool[o] = 1
      BY <1>t DEF PoolInv
    <3> QED  BY <1>1, <1>t, <3>1 DEF Get
  <2>2. \A d \in Consumers : consumer[d].obj # o
    <3> SUFFICES ASSUME NEW d \in Consumers, consumer[d].obj = o PROVE FALSE
      OBVIOUS
    <3>1. pool[o] > 0
      BY <1>1 DEF Get
    <3>2. Holds(d)
      BY <1>t DEF Holds
    <3> QED  BY <3>1, <3>2 DEF PoolInv, ObjectsNotShared
  <2>3. consumer'[c].obj = o /\ \A d \in Consumers \ {c} : consumer'[d] = consumer[d]
    BY <1>1, <1>t DEF Get, Consumer
  <2>4. ASSUME NEW d \in Consumers, Holds(d)'
        PROVE  /\ pool'[consumer'[d].obj] = 0
               /\ \A e \in Consumers \ {d} : consumer'[e].obj # consumer'[d].obj
    <3>1. CASE d = c
      BY <2>1, <2>2, <2>3, <3>1
    <3>2. CASE d # c
      <4>1. Holds(d) /\ consumer'[d] = consumer[d] /\ consumer[d].obj \in Objects
        BY <2>3, <2>4, <3>2, <1>o DEF Holds
      <4>2. pool[consumer[d].obj] = 0
            /\ \A e \in Consumers \ {d} : consumer[e].obj # consumer[d].obj
        BY <4>1 DEF PoolInv, ObjectsNotShared
      <4> QED  BY <2>1, <2>2, <2>3, <4>1, <4>2
    <3> QED  BY <3>1, <3>2
  <2>5. \A q \in Objects : pool'[q] <= 1
    BY <2>1 DEF PoolInv
  <2> QED  BY <2>4, <2>5 DEF PoolInv, ObjectsNotShared
<1>2. ASSUME NEW c \in Consumers,
             \/ ReceiveReady(c) \/ ReceiveRolledBack(c) \/ Complete(c) \/ Reject(c) \/ Mark(c)
      PROVE  PoolInv'
  <2>1. Holds(c) /\ UNCHANGED pool
    BY <1>2 DEF Holds, ReceiveReady, ReceiveRolledBack, Complete, Reject, Mark, objects
  <2>2. PICK v : v.obj = consumer[c].obj /\ consumer' = [consumer EXCEPT ![c] = v]
    <3>1. CASE ReceiveReady(c) \/ ReceiveRolledBack(c)
      <4> WITNESS [consumer[c] EXCEPT !.pc = "work"]
      <4> QED  BY <1>t, <3>1 DEF ReceiveReady, ReceiveRolledBack, Consumer
    <3>2. CASE Complete(c)
      <4> WITNESS [consumer[c] EXCEPT !.pc = "check", !.then = "confirm"]
      <4> QED  BY <1>t, <3>2 DEF Complete, Consumer
    <3>3. CASE Reject(c)
      <4> WITNESS [consumer[c] EXCEPT !.pc = "check", !.then = "rollback"]
      <4> QED  BY <1>t, <3>3 DEF Reject, Consumer
    <3>4. CASE Mark(c)
      <4> WITNESS [consumer[c] EXCEPT !.pc = "send", !.task = obj[consumer[c].obj].task]
      <4> QED  BY <1>t, <3>4 DEF Mark, Consumer
    <3> QED  BY <1>2, <3>1, <3>2, <3>3, <3>4
  <2> QED  BY <1>s, <2>1, <2>2
<1>3. ASSUME NEW c \in Consumers, Check(c) PROVE PoolInv'
  <2>1. Holds(c) /\ UNCHANGED pool
    BY <1>3 DEF Holds, Check, objects
  <2>2. CASE Returned(c)
    BY <1>r, <2>1, <2>2
  <2>3. CASE consumer' = [consumer EXCEPT ![c].pc = "mark"]
    <3>1. consumer' = [consumer EXCEPT ![c] = [consumer[c] EXCEPT !.pc = "mark"]]
      BY <1>t, <2>3
    <3>2. [consumer[c] EXCEPT !.pc = "mark"].obj = consumer[c].obj
      BY <1>t DEF Consumer
    <3> QED  BY <1>s, <2>1, <3>1, <3>2
  <2> QED  BY <1>3, <2>2, <2>3 DEF Check
<1>4. ASSUME NEW c \in Consumers, SendConfirm(c) \/ SendRollback(c) PROVE PoolInv'
  <2>1. Holds(c) /\ Returned(c) /\ Put(consumer[c].obj)
    BY <1>4 DEF Holds, SendConfirm, SendRollback
  <2> QED  BY <1>r, <2>1
<1>5. CASE \/ BufferReceive \/ BufferSend \/ Generate \/ Dispatch
           \/ \E w \in Workers : Confirmation(w) \/ ConfirmationFails(w)
           \/ UNCHANGED vars
  BY <1>5, <1>f DEF BufferReceive, BufferSend, Generate, Collect, BatchExpires, PushBatch,
                    LookForToken, SendToken, PublishBatch, Dispatch, Pop, ReceiveToken,
                    SendBatch, Confirmation, TakeBatch, ConfirmExecution, PublishConfirmed,
                    ConfirmationFails, objects, vars
<1> QED  BY <1>1, <1>2, <1>3, <1>4, <1>5 DEF Next, Consume, Answer

LEMMA PoolInvHolds == ~ConfirmAfterRollback => (Spec => []PoolInv)
<1> SUFFICES ASSUME ~ConfirmAfterRollback PROVE Spec => []PoolInv
  OBVIOUS
<1>1. Init => PoolInv
  BY DEF Init, PoolInv, ObjectsNotShared, Holds, NoTask
<1>2. TypeOK /\ PoolInv /\ [Next]_vars => PoolInv'
  BY PoolStep
<1> QED  BY <1>1, <1>2, TypeCorrect, PTL DEF Spec

(* When every consumer calls Confirm or Rollback once, the pool never gives *)
(* a taskToSend to two consumers: the unlocked isProcessed is enough.       *)
THEOREM PoolIsSafe == ~ConfirmAfterRollback => (Spec => []ObjectsNotShared)
<1>1. PoolInv => ObjectsNotShared
  BY DEF PoolInv
<1> QED  BY <1>1, PoolInvHolds, PTL

-----------------------------------------------------------------------------
(* Deletion                                                                 *)

LEMMA SeqMonotone == ASSUME NEW S, NEW T, S \subseteq T PROVE Seq(S) \subseteq Seq(T)
  OBVIOUS

(* Everything on its way to the database was completed ...                  *)
PipelineDone ==
    /\ tasksToConfirm \in Seq(completed)
    /\ generator.batch \in Seq(completed)
    /\ queue \in Seq(Seq(completed))
    /\ dispatcher.batch \in Seq(completed)
    /\ batches \in Seq(Seq(completed))
    /\ \A w \in Workers : worker[w].batch \in Seq(completed)
    /\ Tasks \ row \subseteq completed

(* ... and so was what a consumer is confirming.                            *)
ConfirmersDone ==
    \A c \in Consumers : consumer[c].then = "confirm" =>
        /\ consumer[c].pc \in {"check", "mark"} => obj[consumer[c].obj].task \in completed
        /\ consumer[c].pc = "send" => consumer[c].task \in completed

LEMMA PipelineStep ==
    TypeOK /\ PipelineDone /\ ConfirmersDone /\ [Next]_vars => PipelineDone'
<1> SUFFICES ASSUME TypeOK, PipelineDone, ConfirmersDone, [Next]_vars PROVE PipelineDone'
  OBVIOUS
<1>t. /\ generator \in [pc : {"collect", "push", "look", "signal", "publish"}, batch : Seq(Tasks)]
      /\ dispatcher \in [pc : {"pop", "wait", "send"}, batch : Seq(Tasks)]
      /\ worker \in [Workers -> [pc : {"take", "confirm", "publish"}, batch : Seq(Tasks)]]
  BY DEF TypeOK, BatchingTypeOK
<1>e. <<>> \in Seq(completed)
  OBVIOUS
<1>f. UNCHANGED <<tasksToConfirm, generator, queue, dispatcher, batches, worker, row, completed>>
      => PipelineDone'
  BY DEF PipelineDone
<1>1. ASSUME NEW c \in Consumers, Complete(c) PROVE PipelineDone'
  <2>1. completed \subseteq completed'
    BY <1>1 DEF Complete
  <2>2. Seq(completed) \subseteq Seq(completed')
    BY <2>1, SeqMonotone
  <2>3. Seq(Seq(completed)) \subseteq Seq(Seq(completed'))
    BY <2>2, SeqMonotone
  <2> QED  BY <1>1, <2>1, <2>2, <2>3 DEF Complete, PipelineDone, batching
<1>2. ASSUME NEW c \in Consumers, SendConfirm(c) PROVE PipelineDone'
  <2>1. consumer[c].task \in completed
    BY <1>2 DEF SendConfirm, ConfirmersDone
  <2> QED  BY <1>2, <2>1 DEF SendConfirm, PipelineDone, batching
<1>3. CASE Collect
  <2>1. Head(tasksToConfirm) \in completed /\ Tail(tasksToConfirm) \in Seq(completed)
    BY <1>3 DEF Collect, PipelineDone
  <2>2. generator'.batch \in Seq(completed)
    BY <1>3, <2>1 DEF Collect, PipelineDone
  <2> QED  BY <1>3, <2>1, <2>2 DEF Collect, PipelineDone
<1>4. CASE BatchExpires \/ LookForToken \/ SendToken
  BY <1>4, <1>t DEF BatchExpires, LookForToken, SendToken, PipelineDone
<1>5. CASE PushBatch
  <2>1. Append(queue, generator.batch) \in Seq(Seq(completed))
    BY DEF PipelineDone
  <2> QED  BY <1>5, <1>t, <2>1 DEF PushBatch, PipelineDone
<1>6. CASE PublishBatch
  BY <1>6, <1>e DEF PublishBatch, PipelineDone
<1>7. CASE Pop
  <2>1. queue # <<>> => Head(queue) \in Seq(completed) /\ Tail(queue) \in Seq(Seq(completed))
    BY DEF PipelineDone
  <2>2. queue' \in Seq(Seq(completed))
    <3>1. CASE queue # <<>> /\ queue' = Tail(queue)
      BY <2>1, <3>1
    <3>2. CASE UNCHANGED queue
      BY <3>2 DEF PipelineDone
    <3> QED  BY <1>7, <3>1, <3>2 DEF Pop
  <2>3. dispatcher'.batch \in Seq(completed)
    <3>1. CASE queue # <<>> /\ dispatcher' = [pc |-> "send", batch |-> Head(queue)]
      BY <2>1, <3>1
    <3>2. CASE dispatcher' = [pc |-> "wait", batch |-> <<>>]
      BY <1>e, <3>2
    <3> QED  BY <1>7, <3>1, <3>2 DEF Pop
  <2> QED  BY <1>7, <2>2, <2>3 DEF Pop, PipelineDone
<1>8. CASE ReceiveToken
  BY <1>8, <1>t DEF ReceiveToken, PipelineDone
<1>9. CASE SendBatch
  <2>1. Append(batches, dispatcher.batch) \in Seq(Seq(completed))
    BY DEF PipelineDone
  <2> QED  BY <1>9, <1>e, <2>1 DEF SendBatch, PipelineDone
<1>10. ASSUME NEW w \in Workers, TakeBatch(w) PROVE PipelineDone'
  <2>1. batches # <<>> /\ batches \in Seq(Seq(completed))
    BY <1>10 DEF TakeBatch, PipelineDone
  <2>2. Head(batches) \in Seq(completed) /\ Tail(batches) \in Seq(Seq(completed))
    BY <2>1
  <2>3. \A v \in Workers : worker'[v].batch \in Seq(completed)
    BY <1>10, <1>t, <2>2 DEF TakeBatch, PipelineDone
  <2> QED  BY <1>10, <2>2, <2>3 DEF TakeBatch, PipelineDone
<1>11. ASSUME NEW w \in Workers, ConfirmExecution(w) \/ ConfirmationFails(w) PROVE PipelineDone'
  <2>1. Elements(worker[w].batch) \subseteq completed
    BY DEF PipelineDone, Elements
  <2>2. \A v \in Workers : worker'[v].batch = worker[v].batch
    <3>1. worker' = [worker EXCEPT ![w].pc = "publish"]
      BY <1>11 DEF ConfirmExecution, ConfirmationFails
    <3> QED  BY <1>t, <3>1
  <2>3. Tasks \ row' \subseteq completed
    BY <1>11, <2>1 DEF ConfirmExecution, ConfirmationFails, PipelineDone
  <2> QED  BY <1>11, <2>2, <2>3 DEF ConfirmExecution, ConfirmationFails, PipelineDone
<1>12. ASSUME NEW w \in Workers, PublishConfirmed(w) PROVE PipelineDone'
  <2>1. \A v \in Workers : worker'[v].batch \in Seq(completed)
    BY <1>12, <1>t, <1>e DEF PublishConfirmed, PipelineDone
  <2> QED  BY <1>12, <2>1 DEF PublishConfirmed, PipelineDone
<1>13. CASE \/ \E c \in Consumers : \/ Consume(c) \/ Reject(c) \/ Check(c) \/ Mark(c)
                                    \/ SendRollback(c)
            \/ BufferReceive \/ BufferSend \/ UNCHANGED vars
  BY <1>13, <1>f DEF Consume, Get, ReceiveReady, ReceiveRolledBack, Reject, Check, Mark,
                     SendRollback, BufferReceive, BufferSend, batching, vars
<1> QED
  BY <1>1, <1>2, <1>3, <1>4, <1>5, <1>6, <1>7, <1>8, <1>9, <1>10, <1>11, <1>12, <1>13
     DEF Next, Answer, Generate, Dispatch, Confirmation

LEMMA ConfirmersStep ==
    ~ConfirmAfterRollback /\ TypeOK /\ ObjectsNotShared /\ ConfirmersDone /\ [Next]_vars
        => ConfirmersDone'
<1> SUFFICES ASSUME ~ConfirmAfterRollback, TypeOK, ObjectsNotShared, ConfirmersDone, [Next]_vars
             PROVE  ConfirmersDone'
  OBVIOUS
<1>t. /\ obj \in [Objects -> [isProcessed : BOOLEAN, task : Tasks \cup {Nil}]]
      /\ consumer \in [Consumers -> Consumer]
      /\ \A c \in Consumers : consumer[c].obj = Nil <=> consumer[c].pc = "idle"
  BY DEF TypeOK, ConsumersTypeOK
<1>o. ASSUME NEW c \in Consumers, consumer[c].pc # "idle" PROVE consumer[c].obj \in Objects
  BY <1>o, <1>t DEF Consumer
<1>f. UNCHANGED <<consumer, obj, completed>> => ConfirmersDone'
  BY DEF ConfirmersDone
(* Only consumer c changes, and no task of an object that another one has.  *)
<1>c. ASSUME NEW c \in Consumers, completed \subseteq completed',
             \A d \in Consumers \ {c} : consumer'[d] = consumer[d],
             \A d \in Consumers \ {c} : consumer[d].pc # "idle" =>
                 obj'[consumer[d].obj].task = obj[consumer[d].obj].task,
             consumer'[c].then = "confirm" =>
                 /\ consumer'[c].pc \in {"check", "mark"} =>
                       obj'[consumer'[c].obj].task \in completed'
                 /\ consumer'[c].pc = "send" => consumer'[c].task \in completed'
      PROVE  ConfirmersDone'
  BY <1>c DEF ConfirmersDone
<1>1. ASSUME NEW c \in Consumers, NEW o \in Objects, Get(c, o) PROVE ConfirmersDone'
  <2>1. consumer'[c].pc = "receive" /\ \A d \in Consumers \ {c} : consumer'[d] = consumer[d]
    BY <1>1, <1>t DEF Get, Consumer
  <2>2. ASSUME NEW d \in Consumers, consumer[d].pc # "idle"
        PROVE  obj'[consumer[d].obj].task = obj[consumer[d].obj].task
    <3>1. consumer[d].obj \in Objects
      BY <2>2, <1>o
    <3> QED  BY <1>1, <1>t, <3>1 DEF Get
  <2>3. UNCHANGED completed
    BY <1>1 DEF Get
  <2> QED  BY <1>c, <2>1, <2>2, <2>3
<1>2. ASSUME NEW c \in Consumers, ReceiveReady(c) \/ ReceiveRolledBack(c) PROVE ConfirmersDone'
  <2>1. consumer'[c].pc = "work" /\ \A d \in Consumers \ {c} : consumer'[d] = consumer[d]
    BY <1>2, <1>t DEF ReceiveReady, ReceiveRolledBack, Consumer
  <2>2. ASSUME NEW d \in Consumers \ {c}, consumer[d].pc # "idle"
        PROVE  obj'[consumer[d].obj].task = obj[consumer[d].obj].task
    <3>1. consumer[d].obj \in Objects /\ consumer[d].obj # consumer[c].obj
      BY <2>2, <1>o DEF ObjectsNotShared, Holds
    <3>2. PICK t : obj' = [obj EXCEPT ![consumer[c].obj].task = t]
      BY <1>2 DEF ReceiveReady, ReceiveRolledBack
    <3> QED  BY <1>t, <3>1, <3>2
  <2>3. UNCHANGED completed
    BY <1>2 DEF ReceiveReady, ReceiveRolledBack
  <2> QED  BY <1>c, <2>1, <2>2, <2>3
<1>3. ASSUME NEW c \in Consumers, Complete(c) PROVE ConfirmersDone'
  <2>1. /\ consumer'[c].pc = "check" /\ consumer'[c].obj = consumer[c].obj
        /\ \A d \in Consumers \ {c} : consumer'[d] = consumer[d]
    BY <1>3, <1>t DEF Complete, Consumer
  <2>2. UNCHANGED obj /\ completed' = completed \cup {obj[consumer[c].obj].task}
    BY <1>3 DEF Complete, objects
  <2> QED  BY <1>c, <2>1, <2>2
<1>4. ASSUME NEW c \in Consumers, Reject(c) PROVE ConfirmersDone'
  <2>1. consumer'[c].then = "rollback" /\ \A d \in Consumers \ {c} : consumer'[d] = consumer[d]
    BY <1>4, <1>t DEF Reject, Consumer
  <2>2. UNCHANGED <<obj, completed>>
    BY <1>4 DEF Reject, objects
  <2> QED  BY <1>c, <2>1, <2>2
<1>r. ASSUME NEW c \in Consumers, Returned(c), UNCHANGED <<obj, completed>> PROVE ConfirmersDone'
  <2>1. consumer'[c] = NoTask /\ \A d \in Consumers \ {c} : consumer'[d] = consumer[d]
    BY <1>r, <1>t DEF Returned
  <2>2. NoTask.then = "none"
    BY DEF NoTask
  <2> QED  BY <1>c, <1>r, <2>1, <2>2
<1>5. ASSUME NEW c \in Consumers, Check(c) PROVE ConfirmersDone'
  <2>1. UNCHANGED <<obj, completed>> /\ consumer[c].pc = "check"
    BY <1>5 DEF Check, objects
  <2>2. CASE consumer' = [consumer EXCEPT ![c].pc = "mark"]
    <3>1. /\ consumer'[c].pc = "mark" /\ consumer'[c].obj = consumer[c].obj
          /\ consumer'[c].then = consumer[c].then
          /\ \A d \in Consumers \ {c} : consumer'[d] = consumer[d]
      BY <1>t, <2>2 DEF Consumer
    <3> QED  BY <1>c, <2>1, <3>1 DEF ConfirmersDone
  <2> QED  BY <1>5, <1>r, <2>1, <2>2 DEF Check
<1>6. ASSUME NEW c \in Consumers, Mark(c) PROVE ConfirmersDone'
  <2>1. /\ consumer'[c].pc = "send" /\ consumer'[c].task = obj[consumer[c].obj].task
        /\ consumer'[c].then = consumer[c].then
        /\ \A d \in Consumers \ {c} : consumer'[d] = consumer[d]
    BY <1>6, <1>t DEF Mark, Consumer
  <2>2. \A q \in Objects : obj'[q].task = obj[q].task
    BY <1>6, <1>t DEF Mark
  <2>3. UNCHANGED completed /\ consumer[c].pc = "mark"
    BY <1>6 DEF Mark
  <2> QED  BY <1>c, <1>o, <2>1, <2>2, <2>3 DEF ConfirmersDone
<1>7. ASSUME NEW c \in Consumers, SendConfirm(c) \/ SendRollback(c) PROVE ConfirmersDone'
  BY <1>7, <1>r DEF SendConfirm, SendRollback
<1>8. CASE \/ BufferReceive \/ BufferSend \/ Generate \/ Dispatch
           \/ \E w \in Workers : Confirmation(w) \/ ConfirmationFails(w)
           \/ UNCHANGED vars
  BY <1>8, <1>f DEF BufferReceive, BufferSend, Generate, Collect, BatchExpires, PushBatch,
                    LookForToken, SendToken, PublishBatch, Dispatch, Pop, ReceiveToken,
                    SendBatch, Confirmation, TakeBatch, ConfirmExecution, PublishConfirmed,
                    ConfirmationFails, objects, vars
<1> QED  BY <1>1, <1>2, <1>3, <1>4, <1>5, <1>6, <1>7, <1>8 DEF Next, Consume, Answer

(* When every consumer calls Confirm or Rollback once, a task is deleted    *)
(* from the database only after a consumer completed it.                    *)
THEOREM DeletedAfterCompletion ==
    ~ConfirmAfterRollback => (Spec => []DeletedOnlyWhenCompleted)
<1> SUFFICES ASSUME ~ConfirmAfterRollback PROVE Spec => []DeletedOnlyWhenCompleted
  OBVIOUS
<1>1. Init => PipelineDone /\ ConfirmersDone
  <2> SUFFICES ASSUME Init PROVE PipelineDone /\ ConfirmersDone
    OBVIOUS
  <2>1. <<>> \in Seq(completed) /\ <<>> \in Seq(Seq(completed))
    OBVIOUS
  <2>2. PipelineDone
    BY <2>1 DEF Init, PipelineDone
  <2>3. ConfirmersDone
    BY DEF Init, ConfirmersDone, NoTask
  <2> QED  BY <2>2, <2>3
<1>2. TypeOK /\ ObjectsNotShared /\ PipelineDone /\ ConfirmersDone /\ [Next]_vars
      => PipelineDone' /\ ConfirmersDone'
  BY PipelineStep, ConfirmersStep
<1>3. PipelineDone => DeletedOnlyWhenCompleted
  BY DEF PipelineDone, DeletedOnlyWhenCompleted
<1> QED  BY <1>1, <1>2, <1>3, TypeCorrect, PoolIsSafe, PTL DEF Spec

-----------------------------------------------------------------------------
(* The metric                                                               *)

(* The places of the tasks in each batch of a function, and whether Count   *)
(* counts them all.                                                         *)
Domains(f) == [i \in DOMAIN f |-> DOMAIN f[i]]

Counted(f) == IsFiniteSet(Places(Domains(f)))

LEMMA CountOfPlaces == ASSUME NEW f PROVE Count(f) = Cardinality(Places(Domains(f)))
<1>1. UNION {{<<i, j>> : j \in DOMAIN f[i]} : i \in DOMAIN f} = Places(Domains(f))
  BY DEF Places, PlacesAt, Domains
<1> QED  BY <1>1, Zenon DEF Count

LEMMA CountIsNat == ASSUME NEW f, Counted(f) PROVE Count(f) \in Nat
  BY CountOfPlaces, FS_CardinalityType DEF Counted

LEMMA LengthOfBatch ==
    ASSUME NEW S, NEW b \in Seq(S)
    PROVE  IsFiniteSet(DOMAIN b) /\ Cardinality(DOMAIN b) = Len(b)
<1>1. Len(b) \in Nat /\ DOMAIN b = 1..Len(b)
  OBVIOUS
<1>2. Cardinality(1..Len(b)) = IF 1 > Len(b) THEN 0 ELSE Len(b) - 1 + 1
  BY <1>1, FS_Interval
<1>3. (IF 1 > Len(b) THEN 0 ELSE Len(b) - 1 + 1) = Len(b)
  BY <1>1
<1> QED  BY <1>1, <1>2, <1>3, FS_Interval

LEMMA CountAppend ==
    ASSUME NEW S, NEW q \in Seq(Seq(S)), NEW b \in Seq(S), Counted(q)
    PROVE  Counted(Append(q, b)) /\ Count(Append(q, b)) = Count(q) + Len(b)
<1> DEFINE k == Len(q) + 1
           r == Append(q, b)
<1>1. /\ DOMAIN q = 1..Len(q) /\ DOMAIN r = DOMAIN q \cup {k} /\ k \notin DOMAIN q
      /\ r[k] = b /\ \A i \in DOMAIN q : r[i] = q[i]
  OBVIOUS
<1> HIDE DEF k, r
<1>2. /\ k \notin DOMAIN Domains(q) /\ DOMAIN Domains(r) = DOMAIN Domains(q) \cup {k}
      /\ \A i \in DOMAIN Domains(q) : Domains(r)[i] = Domains(q)[i]
      /\ Domains(r)[k] = DOMAIN b
  BY <1>1 DEF Domains
<1>3. Extends(Domains(r), Domains(q), k, DOMAIN b)
  <2>1. Extends(Domains(r), Domains(q), k, Domains(r)[k])
    BY <1>2, ExtendsAtNew
  <2> QED  BY <1>2, <2>1
<1>4. IsFiniteSet(DOMAIN b) /\ Cardinality(DOMAIN b) = Len(b)
  BY LengthOfBatch
<1>5. IsFiniteSet(Places(Domains(q)))
  BY DEF Counted
<1>6. /\ IsFiniteSet(Places(Domains(r)))
      /\ Cardinality(Places(Domains(r))) =
             Cardinality(Places(Domains(q))) + Cardinality(DOMAIN b)
  BY <1>3, <1>4, <1>5, CountMore
<1>7. Counted(r) /\ Count(r) = Count(q) + Len(b)
  BY <1>4, <1>6, CountOfPlaces DEF Counted
<1> QED  BY <1>7 DEF r

(* A function that maps w to a batch b and is empty there before or after.  *)
LEMMA ExtendsAtWorker ==
    ASSUME NEW f, NEW g, NEW w \in DOMAIN f, DOMAIN g = DOMAIN f, f[w] = <<>>,
           \A v \in DOMAIN f \ {w} : g[v] = f[v]
    PROVE  Extends(Domains(g), Domains(f), w, DOMAIN g[w])
<1>1. DOMAIN f[w] = {}
  OBVIOUS
<1>2. /\ w \in DOMAIN Domains(f) /\ DOMAIN Domains(g) = DOMAIN Domains(f)
      /\ Domains(f)[w] = {} /\ Domains(g)[w] = DOMAIN g[w]
      /\ \A v \in DOMAIN Domains(f) \ {w} : Domains(g)[v] = Domains(f)[v]
  BY <1>1 DEF Domains
<1>3. Extends(Domains(g), Domains(f), w, Domains(g)[w])
  BY <1>2, ExtendsAtEmpty
<1> QED  BY <1>2, <1>3

LEMMA CountGiven ==
    ASSUME NEW f, NEW g, NEW w \in DOMAIN f, NEW S, g[w] \in Seq(S), DOMAIN g = DOMAIN f,
           f[w] = <<>>, \A v \in DOMAIN f \ {w} : g[v] = f[v], Counted(f)
    PROVE  Counted(g) /\ Count(g) = Count(f) + Len(g[w])
<1>1. Extends(Domains(g), Domains(f), w, DOMAIN g[w])
  BY ExtendsAtWorker
<1>2. IsFiniteSet(DOMAIN g[w]) /\ Cardinality(DOMAIN g[w]) = Len(g[w])
  BY LengthOfBatch
<1>3. IsFiniteSet(Places(Domains(f)))
  BY DEF Counted
<1>4. /\ IsFiniteSet(Places(Domains(g)))
      /\ Cardinality(Places(Domains(g))) =
             Cardinality(Places(Domains(f))) + Cardinality(DOMAIN g[w])
  BY <1>1, <1>2, <1>3, CountMore
<1> QED  BY <1>2, <1>4, CountOfPlaces DEF Counted

LEMMA CountTaken ==
    ASSUME NEW f, NEW g, NEW w \in DOMAIN f, NEW S, g[w] \in Seq(S), DOMAIN g = DOMAIN f,
           f[w] = <<>>, \A v \in DOMAIN f \ {w} : g[v] = f[v], Counted(g)
    PROVE  Counted(f) /\ Count(f) = Count(g) - Len(g[w])
<1>1. Extends(Domains(g), Domains(f), w, DOMAIN g[w])
  BY ExtendsAtWorker
<1>2. IsFiniteSet(DOMAIN g[w]) /\ Cardinality(DOMAIN g[w]) = Len(g[w])
  BY LengthOfBatch
<1>3. IsFiniteSet(Places(Domains(g)))
  BY DEF Counted
<1>4. /\ IsFiniteSet(Places(Domains(f)))
      /\ Cardinality(Places(Domains(f))) =
             Cardinality(Places(Domains(g))) - Cardinality(DOMAIN g[w])
  BY <1>1, <1>2, <1>3, CountLess
<1> QED  BY <1>2, <1>4, CountOfPlaces DEF Counted

LEMMA CountTail ==
    ASSUME NEW S, NEW q \in Seq(Seq(S)), q # <<>>, Counted(q)
    PROVE  Counted(Tail(q)) /\ Count(Tail(q)) = Count(q) - Len(Head(q))
<1> DEFINE n == Len(q)
           t == Tail(q)
<1>1. /\ n \in Nat \ {0} /\ DOMAIN q = 1..n /\ q[1] = Head(q) /\ Head(q) \in Seq(S)
      /\ DOMAIN t = 1..(n - 1) /\ \A i \in 1..(n - 1) : t[i] = q[i + 1]
  OBVIOUS
<1> HIDE DEF n, t
<1>2. /\ DOMAIN Domains(q) = 1..n /\ DOMAIN Domains(t) = 1..(n - 1)
      /\ Domains(q)[1] = DOMAIN Head(q)
  BY <1>1 DEF Domains
<1>3. \A i \in 1..(n - 1) : Domains(t)[i] = Domains(q)[i + 1]
  BY <1>1 DEF Domains
<1>4. IsFiniteSet(DOMAIN Head(q)) /\ Cardinality(DOMAIN Head(q)) = Len(Head(q))
  BY <1>1, LengthOfBatch
<1>5. IsFiniteSet(Places(Domains(q))) /\ IsFiniteSet(Domains(q)[1])
  BY <1>2, <1>4 DEF Counted
<1>6. /\ IsFiniteSet(Places(Domains(t)))
      /\ Cardinality(Places(Domains(t))) =
             Cardinality(Places(Domains(q))) - Cardinality(Domains(q)[1])
  <2> DEFINE f == Domains(q)
             u == Domains(t)
  <2>1. /\ DOMAIN f = 1..n /\ DOMAIN u = 1..(n - 1) /\ n \in Nat \ {0}
        /\ \A i \in 1..(n - 1) : u[i] = f[i + 1]
        /\ IsFiniteSet(f[1]) /\ IsFiniteSet(Places(f))
    BY <1>1, <1>2, <1>3, <1>5
  <2> HIDE DEF f, u
  <2>2. /\ IsFiniteSet(Places(u))
        /\ Cardinality(Places(u)) = Cardinality(Places(f)) - Cardinality(f[1])
    BY <2>1, CountWithoutFirst
  <2> QED  BY <2>2 DEF f, u
<1>7. Counted(t) /\ Count(t) = Count(q) - Len(Head(q))
  BY <1>2, <1>4, <1>6, CountOfPlaces DEF Counted
<1> QED  BY <1>7 DEF t

(* The batches the workers have.                                            *)
WorkerBatches == [w \in Workers |-> worker[w].batch]

(* Only a dispatcher that sends and a worker that confirms have a batch,    *)
(* and there are finitely many tasks to count.                              *)
CountsFinite ==
    /\ Counted(queue) /\ Counted(batches)
    /\ Counted(WorkerBatches)

NobodyKeepsBatch ==
    /\ dispatcher.pc # "send" => dispatcher.batch = <<>>
    /\ \A w \in Workers : worker[w].pc = "take" => worker[w].batch = <<>>

MetricInv == MetricSettles /\ CountsFinite /\ NobodyKeepsBatch

LEMMA NobodyKeepsBatchStep == TypeOK /\ NobodyKeepsBatch /\ [Next]_vars => NobodyKeepsBatch'
<1> SUFFICES ASSUME TypeOK, NobodyKeepsBatch, [Next]_vars PROVE NobodyKeepsBatch'
  OBVIOUS
<1>t. /\ dispatcher \in [pc : {"pop", "wait", "send"}, batch : Seq(Tasks)]
      /\ worker \in [Workers -> [pc : {"take", "confirm", "publish"}, batch : Seq(Tasks)]]
  BY DEF TypeOK, BatchingTypeOK
<1>f. UNCHANGED <<dispatcher, worker>> => NobodyKeepsBatch'
  BY DEF NobodyKeepsBatch
<1>1. CASE Dispatch
  BY <1>1, <1>t DEF Dispatch, Pop, ReceiveToken, SendBatch, NobodyKeepsBatch
<1>2. ASSUME NEW w \in Workers, Confirmation(w) \/ ConfirmationFails(w) PROVE NobodyKeepsBatch'
  <2>1. \A v \in Workers \ {w} : worker'[v] = worker[v]
    BY <1>2, <1>t DEF Confirmation, ConfirmationFails, TakeBatch, ConfirmExecution,
                      PublishConfirmed
  <2>2. worker'[w].pc = "take" => worker'[w].batch = <<>>
    <3>1. CASE TakeBatch(w) \/ ConfirmExecution(w) \/ ConfirmationFails(w)
      <4>1. worker'[w].pc # "take"
        BY <1>t, <3>1 DEF TakeBatch, ConfirmExecution, ConfirmationFails
      <4> QED  BY <4>1
    <3>2. CASE PublishConfirmed(w)
      BY <1>t, <3>2 DEF PublishConfirmed
    <3> QED  BY <1>2, <3>1, <3>2 DEF Confirmation
  <2>3. UNCHANGED dispatcher
    BY <1>2, WorkersStepAlone DEF Confirmation
  <2> QED  BY <2>1, <2>2, <2>3, ZenonT(40) DEF NobodyKeepsBatch
<1>3. CASE \/ \E c \in Consumers : Consume(c) \/ Answer(c)
           \/ BufferReceive \/ BufferSend \/ Generate \/ UNCHANGED vars
  BY <1>3, <1>f DEF Consume, Get, ReceiveReady, ReceiveRolledBack, Answer, Complete, Reject,
                    Check, Mark, SendConfirm, SendRollback, BufferReceive, BufferSend,
                    Generate, Collect, BatchExpires, PushBatch, LookForToken, SendToken,
                    PublishBatch, batching, vars
<1> QED  BY <1>1, <1>2, <1>3 DEF Next

(* Every step moves a batch from one place that is counted to another, or   *)
(* changes the metric by what it adds and removes.                          *)
LEMMA MetricStep ==
    TypeOK /\ MetricInv /\ [Next]_vars => MetricSettles' /\ CountsFinite'
<1> SUFFICES ASSUME TypeOK, MetricInv, [Next]_vars PROVE MetricSettles' /\ CountsFinite'
  OBVIOUS
<1> DEFINE Q == Count(queue)
           B == Count(batches)
           W == Count(WorkerBatches)
           D == Len(dispatcher.batch)
           G == NotYetPublished
<1>t. /\ generator \in [pc : {"collect", "push", "look", "signal", "publish"}, batch : Seq(Tasks)]
      /\ dispatcher \in [pc : {"pop", "wait", "send"}, batch : Seq(Tasks)]
      /\ worker \in [Workers -> [pc : {"take", "confirm", "publish"}, batch : Seq(Tasks)]]
      /\ queue \in Seq(Seq(Tasks)) /\ batches \in Seq(Seq(Tasks))
      /\ waitingForConfirmation \in Int
  BY DEF TypeOK, BatchingTypeOK, ChannelsTypeOK, HistoryTypeOK
<1>n. /\ Counted(queue) /\ Counted(batches)
      /\ Counted(WorkerBatches)
      /\ dispatcher.pc # "send" => dispatcher.batch = <<>>
      /\ \A w \in Workers : worker[w].pc = "take" => worker[w].batch = <<>>
  BY DEF MetricInv, CountsFinite, NobodyKeepsBatch
<1>m. waitingForConfirmation = (Q + D + B + W) - G
  <2>1. InFlight = Q + D + B + W
    BY Zenon DEF InFlight, WorkerBatches
  <2> HIDE DEF Q, D, B, W
  <2> QED  BY <2>1 DEF MetricInv, MetricSettles, G
<1>i. Q \in Nat /\ B \in Nat /\ W \in Nat /\ D \in Nat /\ G \in Nat
  <2>1. Q \in Nat /\ B \in Nat /\ W \in Nat
    BY <1>n, CountIsNat
  <2>2. D \in Nat /\ G \in Nat
    BY <1>t DEF NotYetPublished
  <2> QED  BY <2>1, <2>2
(* What is counted afterwards.                                              *)
<1>q. ASSUME Counted(queue'), Counted(batches'),
             Counted(WorkerBatches'),
             waitingForConfirmation' =
                 (Count(queue') + Len(dispatcher'.batch) + Count(batches')
                  + Count(WorkerBatches')) - NotYetPublished'
      PROVE  MetricSettles' /\ CountsFinite'
  <2>1. InFlight' =
            Count(queue') + Len(dispatcher'.batch) + Count(batches') + Count(WorkerBatches')
    BY Zenon DEF InFlight, WorkerBatches
  <2>2. MetricSettles'
    BY <1>q, <2>1 DEF MetricSettles
  <2> QED  BY <1>q, <2>2, Zenon DEF CountsFinite
<1>w. UNCHANGED worker => UNCHANGED WorkerBatches
  BY DEF WorkerBatches
<1>g. UNCHANGED generator => UNCHANGED NotYetPublished
  BY DEF NotYetPublished
<1> HIDE DEF Q, B, W, D, G
<1>1. CASE PushBatch
  <2>1. /\ generator.batch \in Seq(Tasks) /\ queue' = Append(queue, generator.batch)
        /\ UNCHANGED <<batches, dispatcher, worker>>
    BY <1>1, <1>t DEF PushBatch
  <2>6. waitingForConfirmation' = waitingForConfirmation
    BY <1>1 DEF PushBatch
  <2>2. G = 0 /\ NotYetPublished' = Len(generator.batch)
    BY <1>1, <1>t DEF PushBatch, NotYetPublished, G
  <2>3. Counted(queue') /\ Count(queue') = Q + Len(generator.batch)
    BY <1>t, <1>n, <2>1, CountAppend DEF Q
  <2>4. Len(generator.batch) \in Nat
    BY <2>1
  <2>5. waitingForConfirmation' = (Count(queue') + D + B + W) - NotYetPublished'
    <3>1. \A n \in Nat : (Q + D + B + W) - 0 = (Q + n + D + B + W) - n
      BY <1>i
    <3>2. waitingForConfirmation' = (Q + D + B + W) - 0
      BY <1>m, <2>2, <2>6
    <3> QED  BY <2>2, <2>3, <2>4, <3>1, <3>2
  <2> QED  BY <1>q, <1>w, <1>n, <2>1, <2>3, <2>5 DEF D, B, W
<1>2. CASE PublishBatch
  <2>1. /\ UNCHANGED <<queue, batches, dispatcher, worker>>
        /\ waitingForConfirmation' = waitingForConfirmation + Len(generator.batch)
    BY <1>2 DEF PublishBatch
  <2>2. G = Len(generator.batch) /\ NotYetPublished' = 0
    BY <1>2, <1>t DEF PublishBatch, NotYetPublished, G
  <2>3. waitingForConfirmation' = (Q + D + B + W) - NotYetPublished'
    BY <1>m, <1>i, <2>1, <2>2
  <2> QED  BY <1>q, <1>w, <1>n, <2>1, <2>3 DEF Q, D, B, W
<1>3. CASE Collect \/ BatchExpires \/ LookForToken \/ SendToken
  <2>1. UNCHANGED <<queue, batches, dispatcher, worker, waitingForConfirmation>>
    BY <1>3 DEF Collect, BatchExpires, LookForToken, SendToken
  <2>2. NotYetPublished' = G
    <3>1. CASE Collect \/ BatchExpires
      <4>1. generator.pc = "collect" /\ generator'.pc \in {"collect", "push"}
        BY <1>t, <3>1 DEF Collect, BatchExpires
      <4> QED  BY <4>1 DEF NotYetPublished, G
    <3>2. CASE LookForToken \/ SendToken
      <4>1. /\ generator.pc \in {"look", "signal"} /\ generator'.pc \in {"signal", "publish"}
            /\ generator'.batch = generator.batch
        BY <1>t, <3>2 DEF LookForToken, SendToken
      <4> QED  BY <4>1 DEF NotYetPublished, G
    <3> QED  BY <1>3, <3>1, <3>2
  <2>3. waitingForConfirmation' = (Q + D + B + W) - NotYetPublished'
    BY <1>m, <2>1, <2>2
  <2> QED  BY <1>q, <1>w, <1>n, <2>1, <2>3 DEF Q, D, B, W
<1>4. CASE Pop
  <2>1. /\ UNCHANGED <<batches, worker, generator, waitingForConfirmation>>
        /\ dispatcher.batch = <<>>
    BY <1>4, <1>n DEF Pop
  <2>2. D = 0 /\ NotYetPublished' = G
    BY <2>1, <1>g DEF D, G
  <2>3. CASE queue # <<>> /\ dispatcher' = [pc |-> "send", batch |-> Head(queue)]
             /\ queue' = Tail(queue)
    <3>1. Counted(queue') /\ Count(queue') = Q - Len(Head(queue))
      BY <1>t, <1>n, <2>3, CountTail DEF Q
    <3>2. Len(Head(queue)) \in Nat /\ dispatcher'.batch = Head(queue)
      BY <1>t, <2>3
    <3>3. waitingForConfirmation' =
              (Count(queue') + Len(dispatcher'.batch) + B + W) - NotYetPublished'
      BY <1>m, <1>i, <2>1, <2>2, <3>1, <3>2
    <3> QED  BY <1>q, <1>w, <1>n, <2>1, <3>1, <3>3 DEF B, W
  <2>4. CASE dispatcher' = [pc |-> "wait", batch |-> <<>>] /\ UNCHANGED queue
    <3>1. Len(dispatcher'.batch) = 0
      BY <2>4
    <3>2. waitingForConfirmation' = (Q + Len(dispatcher'.batch) + B + W) - NotYetPublished'
      BY <1>m, <1>i, <2>1, <2>2, <3>1
    <3> QED  BY <1>q, <1>w, <1>n, <2>1, <2>4, <3>2 DEF Q, B, W
  <2> QED  BY <1>4, <2>3, <2>4 DEF Pop
<1>5. CASE ReceiveToken
  <2>1. /\ UNCHANGED <<queue, batches, worker, generator, waitingForConfirmation>>
        /\ dispatcher'.batch = dispatcher.batch
    BY <1>5, <1>t DEF ReceiveToken
  <2>2. waitingForConfirmation' = (Q + D + B + W) - NotYetPublished'
    BY <1>m, <1>g, <2>1 DEF G
  <2> QED  BY <1>q, <1>w, <1>n, <2>1, <2>2 DEF Q, D, B, W
<1>6. CASE SendBatch
  <2>1. /\ UNCHANGED <<queue, worker, generator, waitingForConfirmation>>
        /\ batches' = Append(batches, dispatcher.batch)
        /\ dispatcher.batch \in Seq(Tasks) /\ dispatcher'.batch = <<>>
    BY <1>6, <1>t DEF SendBatch
  <2>2. Counted(batches') /\ Count(batches') = B + D
    BY <1>t, <1>n, <2>1, CountAppend DEF B, D
  <2>3. Len(dispatcher'.batch) = 0 /\ NotYetPublished' = G
    BY <1>g, <2>1 DEF G
  <2>4. waitingForConfirmation' =
            (Q + Len(dispatcher'.batch) + Count(batches') + W) - NotYetPublished'
    BY <1>m, <1>i, <2>1, <2>2, <2>3
  <2> QED  BY <1>q, <1>w, <1>n, <2>1, <2>2, <2>4 DEF Q, W
<1>7. ASSUME NEW w \in Workers, TakeBatch(w) PROVE MetricSettles' /\ CountsFinite'
  <2>1. /\ UNCHANGED <<queue, dispatcher, generator, waitingForConfirmation>>
        /\ batches # <<>> /\ batches' = Tail(batches) /\ worker[w].batch = <<>>
        /\ worker' = [worker EXCEPT ![w] = [pc |-> "confirm", batch |-> Head(batches)]]
    BY <1>7, <1>n DEF TakeBatch
  <2>2. Head(batches) \in Seq(Tasks) /\ Len(Head(batches)) \in Nat
    BY <1>t, <2>1
  <2>3. Counted(batches') /\ Count(batches') = B - Len(Head(batches))
    BY <1>t, <1>n, <2>1, CountTail DEF B
  <2>4. /\ DOMAIN WorkerBatches' = DOMAIN WorkerBatches /\ w \in DOMAIN WorkerBatches
        /\ WorkerBatches[w] = <<>> /\ WorkerBatches'[w] = Head(batches)
        /\ \A v \in DOMAIN WorkerBatches \ {w} : WorkerBatches'[v] = WorkerBatches[v]
    BY <1>t, <2>1 DEF WorkerBatches
  <2>5. Counted(WorkerBatches') /\ Count(WorkerBatches') = W + Len(Head(batches))
    BY <1>n, <2>2, <2>4, CountGiven DEF W
  <2>6. waitingForConfirmation' =
            (Q + D + Count(batches') + Count(WorkerBatches')) - NotYetPublished'
    BY <1>m, <1>i, <1>g, <2>1, <2>2, <2>3, <2>5 DEF G
  <2> QED  BY <1>q, <1>n, <2>1, <2>3, <2>5, <2>6 DEF Q, D
<1>8. ASSUME NEW w \in Workers, ConfirmExecution(w) \/ ConfirmationFails(w)
      PROVE  MetricSettles' /\ CountsFinite'
  <2>1. /\ UNCHANGED <<queue, batches, dispatcher, generator, waitingForConfirmation>>
        /\ worker' = [worker EXCEPT ![w].pc = "publish"]
    BY <1>8 DEF ConfirmExecution, ConfirmationFails
  <2>2. UNCHANGED WorkerBatches
    BY <1>t, <2>1 DEF WorkerBatches
  <2>3. waitingForConfirmation' = (Q + D + B + W) - NotYetPublished'
    BY <1>m, <1>g, <2>1 DEF G
  <2> QED  BY <1>q, <1>n, <2>1, <2>2, <2>3 DEF Q, D, B, W
<1>9. ASSUME NEW w \in Workers, PublishConfirmed(w) PROVE MetricSettles' /\ CountsFinite'
  <2> DEFINE b == worker[w].batch
  <2>1. /\ UNCHANGED <<queue, batches, dispatcher, generator>>
        /\ waitingForConfirmation' = waitingForConfirmation - Len(b)
        /\ worker' = [worker EXCEPT ![w] = [pc |-> "take", batch |-> <<>>]]
        /\ b \in Seq(Tasks) /\ Len(b) \in Nat
    BY <1>9, <1>t DEF PublishConfirmed
  <2>2. /\ DOMAIN WorkerBatches = DOMAIN WorkerBatches' /\ w \in DOMAIN WorkerBatches'
        /\ WorkerBatches'[w] = <<>> /\ WorkerBatches[w] = b
        /\ \A v \in DOMAIN WorkerBatches' \ {w} : WorkerBatches[v] = WorkerBatches'[v]
    BY <1>t, <2>1 DEF WorkerBatches
  <2> HIDE DEF b
  <2>3. Counted(WorkerBatches') /\ Count(WorkerBatches') = W - Len(b)
    BY <1>n, <2>1, <2>2, CountTaken DEF W
  <2>4. waitingForConfirmation' = (Q + D + B + Count(WorkerBatches')) - NotYetPublished'
    BY <1>m, <1>i, <1>g, <2>1, <2>3 DEF G
  <2> QED  BY <1>q, <1>n, <2>1, <2>3, <2>4 DEF Q, D, B
<1>10. CASE \/ \E c \in Consumers : Consume(c) \/ Answer(c)
            \/ BufferReceive \/ BufferSend \/ UNCHANGED vars
  <2>1. UNCHANGED <<generator, queue, dispatcher, batches, worker, waitingForConfirmation>>
    BY <1>10 DEF Consume, Get, ReceiveReady, ReceiveRolledBack, Answer, Complete, Reject,
                 Check, Mark, SendConfirm, SendRollback, BufferReceive, BufferSend,
                 batching, vars
  <2>2. waitingForConfirmation' = (Q + D + B + W) - NotYetPublished'
    BY <1>m, <1>g, <2>1 DEF G
  <2>3. /\ Count(queue') = Q /\ Len(dispatcher'.batch) = D /\ Count(batches') = B
        /\ Counted(queue') /\ Counted(batches')
    BY <1>n, <2>1 DEF Q, D, B
  <2>4. Count(WorkerBatches') = W /\ Counted(WorkerBatches')
    BY <1>n, <1>w, <2>1 DEF W
  <2>5. waitingForConfirmation' =
            (Count(queue') + Len(dispatcher'.batch) + Count(batches') + Count(WorkerBatches'))
            - NotYetPublished'
    BY <2>2, <2>3, <2>4
  <2> QED  BY <1>q, <2>3, <2>4, <2>5
<1> QED
  BY <1>1, <1>2, <1>3, <1>4, <1>5, <1>6, <1>7, <1>8, <1>9, <1>10
     DEF Next, Generate, Dispatch, Confirmation

LEMMA MetricInvHolds == Spec => []MetricInv
<1>1. Init => MetricInv
  <2> SUFFICES ASSUME Init PROVE MetricInv
    OBVIOUS
  <2>1. Places(Domains(<<>>)) = {}
    <3>1. DOMAIN <<>> = {}
      OBVIOUS
    <3> QED  BY <3>1 DEF Places, Domains
  <2>2. \A w \in Workers : WorkerBatches[w] = <<>>
    BY DEF Init, WorkerBatches
  <2>3. Places(Domains(WorkerBatches)) = {}
    <3>1. DOMAIN <<>> = {} /\ DOMAIN WorkerBatches = Workers
      BY DEF WorkerBatches
    <3> QED  BY <2>2, <3>1 DEF Places, PlacesAt, Domains
  <2>4. Count(<<>>) = 0 /\ Count(WorkerBatches) = 0
    BY <2>1, <2>3, CountOfPlaces, FS_EmptySet
  <2>5. CountsFinite
    BY <2>1, <2>3, FS_EmptySet DEF Init, CountsFinite, Counted
  <2>6. NobodyKeepsBatch
    BY DEF Init, NobodyKeepsBatch
  <2>7. InFlight = 0 + 0 + 0 + 0 /\ NotYetPublished = 0 /\ waitingForConfirmation = 0
    <3>1. Len(dispatcher.batch) = 0
      BY DEF Init
    <3>2. InFlight = Count(queue) + Len(dispatcher.batch) + Count(batches) + Count(WorkerBatches)
      BY DEF InFlight, WorkerBatches
    <3>3. queue = <<>> /\ batches = <<>> /\ generator.pc = "collect" /\ waitingForConfirmation = 0
      BY DEF Init
    <3> QED  BY <2>4, <3>1, <3>2, <3>3 DEF NotYetPublished
  <2>8. MetricSettles
    BY <2>7 DEF MetricSettles
  <2> QED  BY <2>5, <2>6, <2>8 DEF MetricInv
<1>2. TypeOK /\ MetricInv /\ [Next]_vars => MetricInv'
  BY MetricStep, NobodyKeepsBatchStep DEF MetricInv
<1> QED  BY <1>1, <1>2, TypeCorrect, PTL DEF Spec

(* The metric of the confirmations is always the number of tasks in         *)
(* batches, less the batch that was queued and is about to be published:    *)
(* no order of the generator, the dispatcher and the workers makes it drift.*)
THEOREM MetricIsExact == Spec => []MetricSettles
<1>1. MetricInv => MetricSettles
  BY DEF MetricInv
<1> QED  BY <1>1, MetricInvHolds, PTL

-----------------------------------------------------------------------------
(* SenderService implements SenderSpec: each step of the pool, the buffer   *)
(* and the batches is a step of the promise or is invisible to it.          *)

(* The counts of the refinement as sums over the channels                   *)

LEMMA InPlaces ==
    ASSUME NEW a, NEW s, NEW t PROVE In(a, s, t) = PlacesAt(a, Indices(s, t))
  BY DEF In, PlacesAt, Indices

LEMMA InBatchesPlaces ==
    ASSUME NEW a, NEW f, NEW t PROVE InBatches(a, f, t) = PlacesAt(a, Places(Hits(f, t)))
<1>1. \A i \in DOMAIN f : In(i, f[i], t) = PlacesAt(i, Hits(f, t)[i])
  BY InPlaces DEF Hits
<1>2. DOMAIN Hits(f, t) = DOMAIN f
  BY DEF Hits
<1>3. UNION {In(i, f[i], t) : i \in DOMAIN f} = Places(Hits(f, t))
  BY <1>1, <1>2 DEF Places
<1> QED  BY <1>3 DEF InBatches, PlacesAt

(* The tasks of a sequence are among those of a function of sequences that  *)
(* are counted.                                                             *)
LEMMA HitsFinite ==
    ASSUME NEW f, NEW g, Counted(f), DOMAIN g \subseteq DOMAIN f,
           \A i \in DOMAIN g : g[i] = f[i], NEW t
    PROVE  IsFiniteSet(Places(Hits(g, t)))
<1>1. Places(Hits(g, t)) \subseteq Places(Domains(f))
  BY DEF Places, PlacesAt, Hits, Indices, Domains
<1> QED  BY <1>1, FS_Subset DEF Counted

BufferSum(t) == Occurrences(bufferIn, t) + Occurrences(bufferList, t) + Occurrences(bufferOut, t)

Collected(t) ==
    IF generator.pc \in {"collect", "push"} THEN Occurrences(generator.batch, t) ELSE 0

BatchingSum(t) ==
    (Occurrences(tasksToConfirm, t) + Collected(t) + Within(queue, t))
    + (Occurrences(dispatcher.batch, t) + Within(batches, t) + Within(Confirming, t))

(* Everything that is counted is finite.                                    *)
Numbers(t) ==
    /\ Occurrences(bufferIn, t) \in Nat /\ Occurrences(bufferList, t) \in Nat
    /\ Occurrences(bufferOut, t) \in Nat /\ Occurrences(tasksToConfirm, t) \in Nat
    /\ Collected(t) \in Nat /\ Within(queue, t) \in Nat
    /\ Occurrences(dispatcher.batch, t) \in Nat
    /\ Within(batches, t) \in Nat /\ Within(Confirming, t) \in Nat

AllFinite(t) ==
    /\ IsFiniteSet(Places(Hits(queue, t))) /\ IsFiniteSet(Places(Hits(batches, t)))
    /\ IsFiniteSet(Places(Hits(Confirming, t)))

CountsRight ==
    \A t \in Tasks : /\ Cardinality(InBuffer(t)) = BufferSum(t)
                     /\ Cardinality(InBatching(t)) = BatchingSum(t)
                     /\ Numbers(t) /\ AllFinite(t)

LEMMA Counts == TypeOK /\ CountsFinite => CountsRight
<1> SUFFICES ASSUME TypeOK, CountsFinite PROVE CountsRight
  OBVIOUS
<1> SUFFICES ASSUME NEW t \in Tasks
             PROVE  /\ Cardinality(InBuffer(t)) = BufferSum(t)
                    /\ Cardinality(InBatching(t)) = BatchingSum(t)
                    /\ Numbers(t) /\ AllFinite(t)
  BY DEF CountsRight
<1>t. /\ bufferIn \in Seq(Tasks) /\ bufferList \in Seq(Tasks) /\ bufferOut \in Seq(Tasks)
      /\ tasksToConfirm \in Seq(Tasks) /\ generator.batch \in Seq(Tasks)
      /\ dispatcher.batch \in Seq(Tasks)
  BY DEF TypeOK, ChannelsTypeOK, BatchingTypeOK
<1>f. AllFinite(t)
  <2>1. Counted(queue) /\ Counted(batches) /\ Counted(WorkerBatches)
    BY DEF CountsFinite
  <2>2. /\ DOMAIN Confirming \subseteq DOMAIN WorkerBatches
        /\ \A w \in DOMAIN Confirming : Confirming[w] = WorkerBatches[w]
    BY DEF Confirming, WorkerBatches
  <2> QED  BY <2>1, <2>2, HitsFinite DEF AllFinite
<1>g. /\ IsFiniteSet(Indices(bufferIn, t)) /\ IsFiniteSet(Indices(bufferList, t))
      /\ IsFiniteSet(Indices(bufferOut, t)) /\ IsFiniteSet(Indices(tasksToConfirm, t))
      /\ IsFiniteSet(Indices(generator.batch, t)) /\ IsFiniteSet(Indices(dispatcher.batch, t))
  BY <1>t, OccurrencesFinite
<1> DEFINE G == IF generator.pc \in {"collect", "push"} THEN Indices(generator.batch, t) ELSE {}
<1>c. IsFiniteSet(G) /\ Cardinality(G) = Collected(t)
  BY <1>g, FS_EmptySet DEF Collected, Occurrences
<1>1. Cardinality(InBuffer(t)) = BufferSum(t)
  <2>1. InBuffer(t) = PlacesAt("bufferIn", Indices(bufferIn, t))
                      \cup PlacesAt("bufferList", Indices(bufferList, t))
                      \cup PlacesAt("bufferOut", Indices(bufferOut, t))
    BY InPlaces, Zenon DEF InBuffer
  <2> QED  BY <1>g, <2>1, CountThree DEF BufferSum, Occurrences
<1>2. Cardinality(InBatching(t)) = BatchingSum(t)
  <2> DEFINE A == PlacesAt("tasksToConfirm", Indices(tasksToConfirm, t))
                  \cup PlacesAt("generator", G)
                  \cup PlacesAt("queue", Places(Hits(queue, t)))
             B == PlacesAt("dispatcher", Indices(dispatcher.batch, t))
                  \cup PlacesAt("batches", Places(Hits(batches, t)))
                  \cup PlacesAt("worker", Places(Hits(Confirming, t)))
  <2>1. /\ IsFiniteSet(A)
        /\ Cardinality(A) = Occurrences(tasksToConfirm, t) + Collected(t) + Within(queue, t)
    <3> HIDE DEF G
    <3> DEFINE R == Indices(tasksToConfirm, t)
               S == Places(Hits(queue, t))
               U == PlacesAt("tasksToConfirm", R) \cup PlacesAt("generator", G)
                    \cup PlacesAt("queue", S)
    <3>1. IsFiniteSet(R) /\ IsFiniteSet(S)
      BY <1>f, <1>g DEF AllFinite
    <3>2. /\ IsFiniteSet(U)
          /\ Cardinality(U) = Cardinality(R) + Cardinality(G) + Cardinality(S)
      <4> HIDE DEF R, S
      <4> QED  BY <1>c, <3>1, CountThree
    <3> QED  BY <1>c, <3>2 DEF Occurrences, Within
  <2>2. /\ IsFiniteSet(B)
        /\ Cardinality(B) =
               Occurrences(dispatcher.batch, t) + Within(batches, t) + Within(Confirming, t)
    <3> DEFINE R == Indices(dispatcher.batch, t)
               S == Places(Hits(batches, t))
               W == Places(Hits(Confirming, t))
               U == PlacesAt("dispatcher", R) \cup PlacesAt("batches", S)
                    \cup PlacesAt("worker", W)
    <3>1. IsFiniteSet(R) /\ IsFiniteSet(S) /\ IsFiniteSet(W)
      BY <1>f, <1>g DEF AllFinite
    <3>2. /\ IsFiniteSet(U)
          /\ Cardinality(U) = Cardinality(R) + Cardinality(S) + Cardinality(W)
      <4> HIDE DEF R, S, W
      <4> QED  BY <3>1, CountThree
    <3> QED  BY <3>2 DEF Occurrences, Within
  <2>3. A \cap B = {}
    <3> HIDE DEF G
    <3> QED  BY DEF PlacesAt
  <2>4. InBatching(t) = A \cup B
    <3>1. PlacesAt("generator", G) =
              IF generator.pc \in {"collect", "push"} THEN In("generator", generator.batch, t) ELSE {}
      BY InPlaces DEF PlacesAt
    <3>2. /\ In("tasksToConfirm", tasksToConfirm, t) =
                 PlacesAt("tasksToConfirm", Indices(tasksToConfirm, t))
          /\ In("dispatcher", dispatcher.batch, t) =
                 PlacesAt("dispatcher", Indices(dispatcher.batch, t))
          /\ InBatches("queue", queue, t) = PlacesAt("queue", Places(Hits(queue, t)))
          /\ InBatches("batches", batches, t) = PlacesAt("batches", Places(Hits(batches, t)))
          /\ InBatches("worker", Confirming, t) = PlacesAt("worker", Places(Hits(Confirming, t)))
      BY InPlaces, InBatchesPlaces
    <3> HIDE DEF G
    <3> QED  BY <3>1, <3>2 DEF InBatching
  <2> HIDE DEF A, B
  <2>5. Cardinality(A \cup B) = Cardinality(A) + Cardinality(B)
    BY <2>1, <2>2, <2>3, CountDisjoint
  <2>6. Cardinality(InBatching(t)) = Cardinality(A) + Cardinality(B)
    BY <2>4, <2>5, Zenon
  <2> QED  BY <2>1, <2>2, <2>6 DEF BatchingSum
<1>3. Numbers(t)
  <2>1. /\ Within(queue, t) \in Nat /\ Within(batches, t) \in Nat /\ Within(Confirming, t) \in Nat
    BY <1>f, FS_CardinalityType DEF AllFinite, Within
  <2>2. /\ Occurrences(bufferIn, t) \in Nat /\ Occurrences(bufferList, t) \in Nat
        /\ Occurrences(bufferOut, t) \in Nat /\ Occurrences(tasksToConfirm, t) \in Nat
        /\ Occurrences(dispatcher.batch, t) \in Nat /\ Collected(t) \in Nat
    BY <1>g, <1>c, FS_CardinalityType DEF Occurrences
  <2> QED  BY <2>1, <2>2 DEF Numbers
<1> QED  BY <1>f, <1>1, <1>2, <1>3

(* The same after a step.                                                   *)
LEMMA CountsAfter == TypeOK' /\ CountsFinite' => CountsRight'
<1>1. TypeOK /\ CountsFinite => CountsRight
  BY Counts
<1> QED  BY <1>1, PTL


-----------------------------------------------------------------------------
(* The steps of the promise                                                 *)

(* A task is in one place of the service, all in all.                       *)
Everywhere(t) ==
    OneIf(t \in ready) + Cardinality(InHands(t)) + Cardinality(InBuffer(t))
    + Cardinality(InBatching(t))

Numbered(t) ==
    /\ Cardinality(InHands(t)) \in Nat /\ Cardinality(InBuffer(t)) \in Nat
    /\ Cardinality(InBatching(t)) \in Nat

(* What a step does to the counts.                                          *)
HandsChange(t, n) == Cardinality(InHands(t)') = Cardinality(InHands(t)) + n
BufferChange(t, n) == Cardinality(InBuffer(t)') = Cardinality(InBuffer(t)) + n
BatchingChange(t, n) == Cardinality(InBatching(t)') = Cardinality(InBatching(t)) + n

(* It is a step of the promise and makes no task more.                      *)
Kept ==
    /\ [Promise!Next]_(Promise!vars)
    /\ \A t \in Tasks : Everywhere(t)' <= Everywhere(t)

GivenOf == [t \in Tasks |-> Cardinality(InHands(t))]
RolledBackOf == [t \in Tasks |-> Cardinality(InBuffer(t))]
ConfirmingOf == [t \in Tasks |-> Cardinality(InBatching(t))]
ReadyOf == [t \in Tasks |-> IF t \in ready THEN 1 ELSE 0]

LEMMA OneMore ==
    ASSUME NEW S, NEW f \in [S -> Nat], NEW t \in S, NEW g, DOMAIN g = S, g = [u \in S |-> g[u]],
           \A u \in S : g[u] = f[u] + OneIf(u = t)
    PROVE  g = [f EXCEPT ![t] = @ + 1]
<1> DEFINE h == [f EXCEPT ![t] = @ + 1]
<1>1. DOMAIN h = S /\ h = [u \in S |-> h[u]] /\ h[t] = f[t] + 1
      /\ \A u \in S : u # t => h[u] = f[u]
  OBVIOUS
<1>2. \A u \in S : g[u] = h[u]
  BY <1>1 DEF OneIf
<1> HIDE DEF h
<1>3. g = h
  BY <1>1, <1>2
<1> QED  BY <1>3 DEF h

LEMMA OneLess ==
    ASSUME NEW S, NEW f \in [S -> Nat], NEW t \in S, NEW g, DOMAIN g = S, g = [u \in S |-> g[u]],
           \A u \in S : g[u] = f[u] - OneIf(u = t)
    PROVE  g = [f EXCEPT ![t] = @ - 1]
<1> DEFINE h == [f EXCEPT ![t] = @ - 1]
<1>1. DOMAIN h = S /\ h = [u \in S |-> h[u]] /\ h[t] = f[t] - 1
      /\ \A u \in S : u # t => h[u] = f[u]
  OBVIOUS
<1>2. \A u \in S : g[u] = h[u]
  BY <1>1 DEF OneIf
<1> HIDE DEF h
<1>3. g = h
  BY <1>1, <1>2
<1> QED  BY <1>3 DEF h

LEMMA CountFunctions ==
    ASSUME \A u \in Tasks : Numbered(u)
    PROVE  /\ GivenOf \in [Tasks -> Nat] /\ RolledBackOf \in [Tasks -> Nat]
           /\ ConfirmingOf \in [Tasks -> Nat]
  BY DEF Numbered, GivenOf, RolledBackOf, ConfirmingOf

LEMMA HandsOneMore ==
    ASSUME NEW t \in Tasks, \A u \in Tasks : Numbered(u),
           \A u \in Tasks : HandsChange(u, OneIf(u = t))
    PROVE  GivenOf' = [GivenOf EXCEPT ![t] = @ + 1]
<1>1. GivenOf \in [Tasks -> Nat]
  BY CountFunctions
<1>2. /\ DOMAIN GivenOf' = Tasks /\ GivenOf' = [u \in Tasks |-> GivenOf'[u]]
      /\ \A u \in Tasks : GivenOf'[u] = GivenOf[u] + OneIf(u = t)
  BY DEF GivenOf, HandsChange
<1> QED  BY <1>1, <1>2, OneMore

LEMMA HandsOneLess ==
    ASSUME NEW t \in Tasks, \A u \in Tasks : Numbered(u),
           \A u \in Tasks : HandsChange(u, -OneIf(u = t))
    PROVE  GivenOf' = [GivenOf EXCEPT ![t] = @ - 1]
<1>1. GivenOf \in [Tasks -> Nat]
  BY CountFunctions
<1>2. /\ DOMAIN GivenOf' = Tasks /\ GivenOf' = [u \in Tasks |-> GivenOf'[u]]
      /\ \A u \in Tasks : GivenOf'[u] = GivenOf[u] - OneIf(u = t)
  BY <1>1 DEF GivenOf, HandsChange, OneIf
<1> QED  BY <1>1, <1>2, OneLess

LEMMA BufferOneMore ==
    ASSUME NEW t \in Tasks, \A u \in Tasks : Numbered(u),
           \A u \in Tasks : BufferChange(u, OneIf(u = t))
    PROVE  RolledBackOf' = [RolledBackOf EXCEPT ![t] = @ + 1]
<1>1. RolledBackOf \in [Tasks -> Nat]
  BY CountFunctions
<1>2. /\ DOMAIN RolledBackOf' = Tasks /\ RolledBackOf' = [u \in Tasks |-> RolledBackOf'[u]]
      /\ \A u \in Tasks : RolledBackOf'[u] = RolledBackOf[u] + OneIf(u = t)
  BY DEF RolledBackOf, BufferChange
<1> QED  BY <1>1, <1>2, OneMore

LEMMA BufferOneLess ==
    ASSUME NEW t \in Tasks, \A u \in Tasks : Numbered(u),
           \A u \in Tasks : BufferChange(u, -OneIf(u = t))
    PROVE  RolledBackOf' = [RolledBackOf EXCEPT ![t] = @ - 1]
<1>1. RolledBackOf \in [Tasks -> Nat]
  BY CountFunctions
<1>2. /\ DOMAIN RolledBackOf' = Tasks /\ RolledBackOf' = [u \in Tasks |-> RolledBackOf'[u]]
      /\ \A u \in Tasks : RolledBackOf'[u] = RolledBackOf[u] - OneIf(u = t)
  BY <1>1 DEF RolledBackOf, BufferChange, OneIf
<1> QED  BY <1>1, <1>2, OneLess

LEMMA BatchingOneMore ==
    ASSUME NEW t \in Tasks, \A u \in Tasks : Numbered(u),
           \A u \in Tasks : BatchingChange(u, OneIf(u = t))
    PROVE  ConfirmingOf' = [ConfirmingOf EXCEPT ![t] = @ + 1]
<1>1. ConfirmingOf \in [Tasks -> Nat]
  BY CountFunctions
<1>2. /\ DOMAIN ConfirmingOf' = Tasks /\ ConfirmingOf' = [u \in Tasks |-> ConfirmingOf'[u]]
      /\ \A u \in Tasks : ConfirmingOf'[u] = ConfirmingOf[u] + OneIf(u = t)
  BY DEF ConfirmingOf, BatchingChange
<1> QED  BY <1>1, <1>2, OneMore

LEMMA HandsSame ==
    ASSUME \A u \in Tasks : Numbered(u), \A u \in Tasks : HandsChange(u, 0)
    PROVE  UNCHANGED GivenOf
  BY DEF GivenOf, HandsChange, Numbered

LEMMA BufferSame ==
    ASSUME \A u \in Tasks : Numbered(u), \A u \in Tasks : BufferChange(u, 0)
    PROVE  UNCHANGED RolledBackOf
  BY DEF RolledBackOf, BufferChange, Numbered

LEMMA BatchingSame ==
    ASSUME \A u \in Tasks : Numbered(u), \A u \in Tasks : BatchingChange(u, 0)
    PROVE  UNCHANGED ConfirmingOf
  BY DEF ConfirmingOf, BatchingChange, Numbered

LEMMA Stutters ==
    ASSUME UNCHANGED <<ready, row>>, \A u \in Tasks : Numbered(u),
           \A u \in Tasks : HandsChange(u, 0) /\ BufferChange(u, 0) /\ BatchingChange(u, 0)
    PROVE  Kept
<1>1. \A u \in Tasks : /\ Cardinality(InHands(u)') = Cardinality(InHands(u))
                       /\ Cardinality(InBuffer(u)') = Cardinality(InBuffer(u))
                       /\ Cardinality(InBatching(u)') = Cardinality(InBatching(u))
  BY DEF HandsChange, BufferChange, BatchingChange, Numbered
<1>2. UNCHANGED Promise!vars
  BY <1>1 DEF Promise!vars
<1>3. \A u \in Tasks : Everywhere(u)' = Everywhere(u)
  BY <1>1 DEF Everywhere
<1>4. \A u \in Tasks : Everywhere(u) \in Nat
  BY DEF Everywhere, Numbered, OneIf
<1> QED  BY <1>2, <1>3, <1>4 DEF Kept

LEMMA Gives ==
    ASSUME NEW t \in ready, ready \subseteq Tasks, ready' = ready \ {t}, UNCHANGED row,
           \A u \in Tasks : Numbered(u),
           \A u \in Tasks : /\ HandsChange(u, OneIf(u = t))
                            /\ BufferChange(u, 0) /\ BatchingChange(u, 0)
    PROVE  Kept
<1>1. \A u \in Tasks : /\ Cardinality(InHands(u)') = Cardinality(InHands(u)) + OneIf(u = t)
                       /\ Cardinality(InBuffer(u)') = Cardinality(InBuffer(u))
                       /\ Cardinality(InBatching(u)') = Cardinality(InBatching(u))
  BY DEF HandsChange, BufferChange, BatchingChange, Numbered
<1>2. Promise!Next
  <2>1. Promise!Give(t)
    BY HandsOneMore, BufferSame, BatchingSame
       DEF Promise!Give, Promise!More, GivenOf, RolledBackOf, ConfirmingOf
  <2>2. ReadyOf[t] > 0 /\ ReadyOf' = [ReadyOf EXCEPT ![t] = @ - 1]
    BY DEF ReadyOf
  <2> QED  BY <2>1, <2>2 DEF Promise!Next, Promise!Less, ReadyOf
<1>3. \A u \in Tasks : Everywhere(u)' <= Everywhere(u)
  BY <1>1 DEF Everywhere, Numbered, OneIf
<1> QED  BY <1>2, <1>3 DEF Kept

LEMMA GivesAgain ==
    ASSUME NEW t \in Tasks, UNCHANGED <<ready, row>>, Cardinality(InBuffer(t)) > 0,
           \A u \in Tasks : Numbered(u),
           \A u \in Tasks : /\ HandsChange(u, OneIf(u = t))
                            /\ BufferChange(u, -OneIf(u = t)) /\ BatchingChange(u, 0)
    PROVE  Kept
<1>1. \A u \in Tasks : /\ Cardinality(InHands(u)') = Cardinality(InHands(u)) + OneIf(u = t)
                       /\ Cardinality(InBuffer(u)') = Cardinality(InBuffer(u)) - OneIf(u = t)
                       /\ Cardinality(InBatching(u)') = Cardinality(InBatching(u))
  BY DEF HandsChange, BufferChange, BatchingChange, Numbered, OneIf
<1>2. Promise!Next
  <2>1. Promise!GiveAgain(t)
    BY HandsOneMore, BufferOneLess, BatchingSame
       DEF Promise!GiveAgain, Promise!More, Promise!Less, GivenOf, RolledBackOf, ConfirmingOf
  <2> QED  BY <2>1 DEF Promise!Next
<1>3. \A u \in Tasks : Everywhere(u)' <= Everywhere(u)
  BY <1>1 DEF Everywhere, Numbered, OneIf
<1> QED  BY <1>2, <1>3 DEF Kept

LEMMA RollsBack ==
    ASSUME NEW t \in Tasks, UNCHANGED <<ready, row>>, Cardinality(InHands(t)) > 0,
           \A u \in Tasks : Numbered(u),
           \A u \in Tasks : /\ HandsChange(u, -OneIf(u = t))
                            /\ BufferChange(u, OneIf(u = t)) /\ BatchingChange(u, 0)
    PROVE  Kept
<1>1. \A u \in Tasks : /\ Cardinality(InHands(u)') = Cardinality(InHands(u)) - OneIf(u = t)
                       /\ Cardinality(InBuffer(u)') = Cardinality(InBuffer(u)) + OneIf(u = t)
                       /\ Cardinality(InBatching(u)') = Cardinality(InBatching(u))
  BY DEF HandsChange, BufferChange, BatchingChange, Numbered, OneIf
<1>2. Promise!Next
  <2>1. Promise!Rollback(t)
    BY HandsOneLess, BufferOneMore, BatchingSame
       DEF Promise!Rollback, Promise!More, Promise!Less, GivenOf, RolledBackOf, ConfirmingOf
  <2> QED  BY <2>1 DEF Promise!Next
<1>3. \A u \in Tasks : Everywhere(u)' <= Everywhere(u)
  BY <1>1 DEF Everywhere, Numbered, OneIf
<1> QED  BY <1>2, <1>3 DEF Kept

LEMMA Confirms ==
    ASSUME NEW t \in Tasks, UNCHANGED <<ready, row>>, Cardinality(InHands(t)) > 0,
           \A u \in Tasks : Numbered(u),
           \A u \in Tasks : /\ HandsChange(u, -OneIf(u = t))
                            /\ BufferChange(u, 0) /\ BatchingChange(u, OneIf(u = t))
    PROVE  Kept
<1>1. \A u \in Tasks : /\ Cardinality(InHands(u)') = Cardinality(InHands(u)) - OneIf(u = t)
                       /\ Cardinality(InBuffer(u)') = Cardinality(InBuffer(u))
                       /\ Cardinality(InBatching(u)') = Cardinality(InBatching(u)) + OneIf(u = t)
  BY DEF HandsChange, BufferChange, BatchingChange, Numbered, OneIf
<1>2. Promise!Next
  <2>1. Promise!Confirm(t)
    BY HandsOneLess, BufferSame, BatchingOneMore
       DEF Promise!Confirm, Promise!More, Promise!Less, GivenOf, RolledBackOf, ConfirmingOf
  <2> QED  BY <2>1 DEF Promise!Next
<1>3. \A u \in Tasks : Everywhere(u)' <= Everywhere(u)
  BY <1>1 DEF Everywhere, Numbered, OneIf
<1> QED  BY <1>2, <1>3 DEF Kept

(* A batch without tasks changes nothing.                                   *)
LEMMA Settles ==
    ASSUME NEW batch \in SUBSET Tasks, UNCHANGED ready, row' \in {row, row \ batch},
           \A u \in batch : Cardinality(InBatching(u)) > 0,
           \A u \in Tasks : Numbered(u),
           \A u \in Tasks : /\ HandsChange(u, 0) /\ BufferChange(u, 0)
                            /\ BatchingChange(u, -OneIf(u \in batch))
    PROVE  Kept
<1>1. \A u \in Tasks :
          /\ Cardinality(InHands(u)') = Cardinality(InHands(u))
          /\ Cardinality(InBuffer(u)') = Cardinality(InBuffer(u))
          /\ Cardinality(InBatching(u)') = Cardinality(InBatching(u)) - OneIf(u \in batch)
  BY DEF HandsChange, BufferChange, BatchingChange, Numbered, OneIf
<1>2. [Promise!Next]_(Promise!vars)
  <2>1. CASE batch # {}
    <3>1. Promise!Settle(batch)
      BY <1>1 DEF Promise!Settle, OneIf, Numbered
    <3> QED  BY <2>1, <3>1 DEF Promise!Next
  <2>2. CASE batch = {}
    <3>1. UNCHANGED row
      BY <2>2
    <3>2. \A u \in Tasks : Cardinality(InBatching(u)') = Cardinality(InBatching(u))
      BY <1>1, <2>2 DEF OneIf, Numbered
    <3> QED  BY <1>1, <3>1, <3>2 DEF Promise!vars
  <2> QED  BY <2>1, <2>2
<1>3. \A u \in Tasks : Everywhere(u)' <= Everywhere(u)
  BY <1>1 DEF Everywhere, Numbered, OneIf
<1> QED  BY <1>2, <1>3 DEF Kept


-----------------------------------------------------------------------------
(* The consumers                                                            *)

HandsFinite == \A t \in Tasks : IsFiniteSet(InHands(t))

(* A consumer that has not answered finds isProcessed unset: what the test  *)
(* in Confirm and Rollback relies on.                                       *)
NotAnswered ==
    \A c \in Consumers :
        consumer[c].pc \in {"receive", "work", "check", "mark"} =>
            ~obj[consumer[c].obj].isProcessed

(* A step of consumer c changes nothing that another one has.               *)
OthersKeep(c) ==
    \A d \in Consumers \ {c} :
        /\ consumer'[d] = consumer[d]
        /\ consumer[d].pc # "idle" => obj'[consumer[d].obj] = obj[consumer[d].obj]

LEMMA OthersKeepTheirs ==
    ASSUME TypeOK, PoolInv, NEW c \in Consumers, Consume(c) \/ Answer(c) PROVE OthersKeep(c)
<1>t. /\ pool \in [Objects -> Nat]
      /\ obj \in [Objects -> [isProcessed : BOOLEAN, task : Tasks \cup {Nil}]]
      /\ consumer \in [Consumers -> Consumer]
      /\ \A d \in Consumers : consumer[d].obj = Nil <=> consumer[d].pc = "idle"
  BY DEF TypeOK, ConsumersTypeOK
<1>o. ASSUME NEW d \in Consumers, consumer[d].pc # "idle" PROVE consumer[d].obj \in Objects
  BY <1>o, <1>t DEF Consumer
<1>p. \A d \in Consumers : consumer[d].pc # "idle" =>
          /\ pool[consumer[d].obj] = 0
          /\ \A e \in Consumers \ {d} : consumer[e].obj # consumer[d].obj
  BY DEF PoolInv, ObjectsNotShared, Holds
<1>1. \A d \in Consumers \ {c} : consumer'[d] = consumer[d]
  BY <1>t DEF Consume, Get, ReceiveReady, ReceiveRolledBack, Answer, Complete, Reject, Check,
              Mark, SendConfirm, SendRollback, Returned
<1>2. ASSUME NEW d \in Consumers \ {c}, consumer[d].pc # "idle"
      PROVE  obj'[consumer[d].obj] = obj[consumer[d].obj]
  <2>1. consumer[d].obj \in Objects /\ pool[consumer[d].obj] = 0
    BY <1>2, <1>o, <1>p
  <2>2. CASE \E o \in Objects : Get(c, o)
    <3>1. PICK o \in Objects : Get(c, o)
      BY <2>2
    <3>2. consumer[d].obj # o
      BY <2>1, <3>1 DEF Get
    <3> QED  BY <1>t, <2>1, <3>1, <3>2 DEF Get
  <2>3. CASE ReceiveReady(c) \/ ReceiveRolledBack(c) \/ Mark(c)
    <3>1. consumer[d].obj # consumer[c].obj
      BY <1>2, <1>p
    <3> QED  BY <1>t, <2>1, <2>3, <3>1 DEF ReceiveReady, ReceiveRolledBack, Mark
  <2>4. CASE Complete(c) \/ Reject(c) \/ Check(c) \/ SendConfirm(c) \/ SendRollback(c)
    BY <2>4 DEF Complete, Reject, Check, SendConfirm, SendRollback, objects
  <2> QED  BY <2>2, <2>3, <2>4 DEF Consume, Answer
<1> QED  BY <1>1, <1>2 DEF OthersKeep

LEMMA OthersWork ==
    ASSUME NEW c \in Consumers, OthersKeep(c), NEW u
    PROVE  \A d \in Consumers \ {c} : Working(d, u)' <=> Working(d, u)
  BY DEF OthersKeep, Working

(* What happens to the tasks in the consumers' hands when c takes one, ...  *)
LEMMA TakesInHand ==
    ASSUME HandsFinite, NEW c \in Consumers, OthersKeep(c), NEW t \in Tasks,
           \A u \in Tasks : ~Working(c, u), \A u \in Tasks : Working(c, u)' <=> u = t
    PROVE  HandsFinite' /\ \A u \in Tasks : HandsChange(u, OneIf(u = t))
<1> SUFFICES ASSUME NEW u \in Tasks
             PROVE  IsFiniteSet(InHands(u)') /\ HandsChange(u, OneIf(u = t))
  BY DEF HandsFinite
<1>1. \A d \in Consumers \ {c} : Working(d, u)' <=> Working(d, u)
  BY OthersWork
<1>2. IsFiniteSet(InHands(u)) /\ Cardinality(InHands(u)) \in Nat /\ c \notin InHands(u)
  BY FS_CardinalityType DEF HandsFinite, InHands
<1>3. CASE u = t
  <2>1. InHands(u)' = InHands(u) \cup {c}
    BY <1>1, <1>3 DEF InHands
  <2>2. /\ IsFiniteSet(InHands(u) \cup {c})
        /\ Cardinality(InHands(u) \cup {c}) = Cardinality(InHands(u)) + 1
    BY <1>2, FS_AddElement
  <2>3. IsFiniteSet(InHands(u)') /\ Cardinality(InHands(u)') = Cardinality(InHands(u)) + 1
    BY <2>1, <2>2, Zenon
  <2> QED  BY <1>3, <2>3 DEF HandsChange, OneIf
<1>4. CASE u # t
  <2>1. InHands(u)' = InHands(u)
    BY <1>1, <1>4 DEF InHands
  <2>2. IsFiniteSet(InHands(u)') /\ Cardinality(InHands(u)') = Cardinality(InHands(u))
    BY <1>2, <2>1, Zenon
  <2> QED  BY <1>2, <1>4, <2>2 DEF HandsChange, OneIf
<1> QED  BY <1>3, <1>4

(* ... when it gives its task away, ...                                     *)
LEMMA GivesAway ==
    ASSUME HandsFinite, NEW c \in Consumers, OthersKeep(c), NEW t \in Tasks,
           \A u \in Tasks : ~Working(c, u)', \A u \in Tasks : Working(c, u) <=> u = t
    PROVE  /\ HandsFinite' /\ \A u \in Tasks : HandsChange(u, -OneIf(u = t))
           /\ Cardinality(InHands(t)) > 0
<1>1. ASSUME NEW u \in Tasks PROVE IsFiniteSet(InHands(u)') /\ HandsChange(u, -OneIf(u = t))
  <2>1. \A d \in Consumers \ {c} : Working(d, u)' <=> Working(d, u)
    BY OthersWork
  <2>2. IsFiniteSet(InHands(u)) /\ Cardinality(InHands(u)) \in Nat
    BY FS_CardinalityType DEF HandsFinite
  <2>3. CASE u = t
    <3>1. InHands(u)' = InHands(u) \ {c} /\ c \in InHands(u)
      BY <1>1, <2>1, <2>3 DEF InHands
    <3>2. /\ IsFiniteSet(InHands(u) \ {c})
          /\ Cardinality(InHands(u) \ {c}) = Cardinality(InHands(u)) - 1
      BY <2>2, <3>1, FS_RemoveElement
    <3>3. IsFiniteSet(InHands(u)') /\ Cardinality(InHands(u)') = Cardinality(InHands(u)) - 1
      BY <3>1, <3>2, Zenon
    <3> QED  BY <2>2, <2>3, <3>3 DEF HandsChange, OneIf
  <2>4. CASE u # t
    <3>1. InHands(u)' = InHands(u)
      BY <1>1, <2>1, <2>4 DEF InHands
    <3>2. IsFiniteSet(InHands(u)') /\ Cardinality(InHands(u)') = Cardinality(InHands(u))
      BY <2>2, <3>1, Zenon
    <3> QED  BY <2>2, <2>4, <3>2 DEF HandsChange, OneIf
  <2> QED  BY <2>3, <2>4
<1>2. Cardinality(InHands(t)) > 0
  <2>1. IsFiniteSet(InHands(t)) /\ InHands(t) # {}
    BY DEF HandsFinite, InHands
  <2> QED  BY <2>1, FS_CardinalityType, FS_EmptySet
<1> QED  BY <1>1, <1>2 DEF HandsFinite

(* ... and when nobody does.                                                *)
LEMMA HandsKept ==
    ASSUME HandsFinite, \A u \in Tasks : \A d \in Consumers : Working(d, u)' <=> Working(d, u)
    PROVE  HandsFinite' /\ \A u \in Tasks : HandsChange(u, 0)
<1> SUFFICES ASSUME NEW u \in Tasks PROVE IsFiniteSet(InHands(u)') /\ HandsChange(u, 0)
  BY DEF HandsFinite
<1>1. InHands(u)' = InHands(u)
  BY DEF InHands
<1>2. IsFiniteSet(InHands(u)) /\ Cardinality(InHands(u)) \in Nat
  BY FS_CardinalityType DEF HandsFinite
<1>3. IsFiniteSet(InHands(u)') /\ Cardinality(InHands(u)') = Cardinality(InHands(u))
  BY <1>1, <1>2, Zenon
<1> QED  BY <1>2, <1>3 DEF HandsChange

LEMMA ConsumerKeeps ==
    ASSUME HandsFinite, NEW c \in Consumers, OthersKeep(c),
           \A u \in Tasks : Working(c, u)' <=> Working(c, u)
    PROVE  HandsFinite' /\ \A u \in Tasks : HandsChange(u, 0)
<1>1. \A u \in Tasks : \A d \in Consumers : Working(d, u)' <=> Working(d, u)
  BY OthersWork
<1> QED  BY <1>1, HandsKept


LEMMA NotAnsweredStep ==
    ~ConfirmAfterRollback /\ TypeOK /\ PoolInv /\ NotAnswered /\ [Next]_vars => NotAnswered'
<1> SUFFICES ASSUME ~ConfirmAfterRollback, TypeOK, PoolInv, NotAnswered, [Next]_vars
             PROVE  NotAnswered'
  OBVIOUS
<1>t. /\ obj \in [Objects -> [isProcessed : BOOLEAN, task : Tasks \cup {Nil}]]
      /\ consumer \in [Consumers -> Consumer]
      /\ \A d \in Consumers : consumer[d].obj = Nil <=> consumer[d].pc = "idle"
  BY DEF TypeOK, ConsumersTypeOK
<1>o. ASSUME NEW d \in Consumers, consumer[d].pc # "idle" PROVE consumer[d].obj \in Objects
  BY <1>o, <1>t DEF Consumer
<1>1. ASSUME NEW c \in Consumers, Consume(c) \/ Answer(c) PROVE NotAnswered'
  <2>1. OthersKeep(c)
    BY <1>1, OthersKeepTheirs
  <2>2. consumer'[c].pc \in {"receive", "work", "check", "mark"} =>
            ~obj'[consumer'[c].obj].isProcessed
    <3>1. ASSUME NEW o \in Objects, Get(c, o)
          PROVE  ~obj'[consumer'[c].obj].isProcessed
      <4>1. consumer'[c].obj = o
        BY <1>t, <3>1 DEF Get, Consumer
      <4> QED  BY <1>t, <3>1, <4>1 DEF Get
    <3>2. CASE ReceiveReady(c) \/ ReceiveRolledBack(c)
      <4>1. consumer'[c].obj = consumer[c].obj /\ consumer[c].pc = "receive"
        BY <1>t, <3>2 DEF ReceiveReady, ReceiveRolledBack, Consumer
      <4>2. consumer[c].obj \in Objects /\ ~obj[consumer[c].obj].isProcessed
        BY <1>o, <4>1 DEF NotAnswered
      <4>3. PICK t : obj' = [obj EXCEPT ![consumer[c].obj].task = t]
        BY <3>2 DEF ReceiveReady, ReceiveRolledBack
      <4>4. obj'[consumer[c].obj].isProcessed = obj[consumer[c].obj].isProcessed
        BY <1>t, <4>2, <4>3
      <4> QED  BY <4>1, <4>2, <4>4
    <3>3. CASE Complete(c) \/ Reject(c)
      <4>1. consumer'[c].obj = consumer[c].obj /\ consumer[c].pc = "work" /\ UNCHANGED obj
        BY <1>t, <3>3 DEF Complete, Reject, Consumer, objects
      <4> QED  BY <4>1 DEF NotAnswered
    <3>4. CASE Check(c)
      <4>1. ~obj[consumer[c].obj].isProcessed /\ UNCHANGED obj
        BY <3>4 DEF Check, objects, NotAnswered
      <4>2. consumer'[c].obj = consumer[c].obj
        BY <1>t, <3>4, <4>1 DEF Check, Consumer
      <4> QED  BY <4>1, <4>2
    <3>5. CASE Mark(c)
      BY <1>t, <3>5 DEF Mark, Consumer
    <3>6. CASE SendConfirm(c) \/ SendRollback(c)
      <4>1. consumer'[c] = NoTask
        BY <1>t, <3>6 DEF SendConfirm, SendRollback, Returned
      <4> QED  BY <4>1 DEF NoTask
    <3> QED  BY <1>1, <3>1, <3>2, <3>3, <3>4, <3>5, <3>6 DEF Consume, Answer
  <2> QED  BY <2>1, <2>2 DEF NotAnswered, OthersKeep
<1>2. CASE \/ BufferReceive \/ BufferSend \/ Generate \/ Dispatch
           \/ \E w \in Workers : Confirmation(w) \/ ConfirmationFails(w)
           \/ UNCHANGED vars
  <2>1. UNCHANGED <<consumer, obj>>
    BY <1>2 DEF BufferReceive, BufferSend, Generate, Collect, BatchExpires, PushBatch,
                LookForToken, SendToken, PublishBatch, Dispatch, Pop, ReceiveToken,
                SendBatch, Confirmation, TakeBatch, ConfirmExecution, PublishConfirmed,
                ConfirmationFails, objects, vars
  <2> QED  BY <2>1 DEF NotAnswered
<1> QED  BY <1>1, <1>2 DEF Next

(* The sums over the channels change as the counts of the refinement do.    *)
LEMMA SumsChange ==
    ASSUME CountsRight, CountsRight', NEW u \in Tasks, NEW n
    PROVE  /\ BufferSum(u)' = BufferSum(u) + n => BufferChange(u, n)
           /\ BatchingSum(u)' = BatchingSum(u) + n => BatchingChange(u, n)
  BY DEF CountsRight, BufferChange, BatchingChange

LEMMA BufferKept ==
    ASSUME CountsRight, CountsRight', UNCHANGED buffer
    PROVE  \A u \in Tasks : BufferChange(u, 0)
<1> SUFFICES ASSUME NEW u \in Tasks PROVE BufferChange(u, 0)
  OBVIOUS
<1>1. BufferSum(u)' = BufferSum(u) /\ BufferSum(u) \in Nat
  BY DEF buffer, BufferSum, CountsRight, Numbers
<1> QED  BY <1>1, SumsChange

LEMMA BatchingKept ==
    ASSUME CountsRight, CountsRight', UNCHANGED <<tasksToConfirm, batching>>
    PROVE  \A u \in Tasks : BatchingChange(u, 0)
<1> SUFFICES ASSUME NEW u \in Tasks PROVE BatchingChange(u, 0)
  OBVIOUS
<1>1. UNCHANGED Confirming /\ UNCHANGED Collected(u)
  BY DEF batching, Confirming, Collected
<1>2. BatchingSum(u)' = BatchingSum(u) /\ BatchingSum(u) \in Nat
  BY <1>1 DEF batching, BatchingSum, CountsRight, Numbers
<1> QED  BY <1>2, SumsChange

LEMMA CountsNumbered ==
    ASSUME CountsRight, HandsFinite PROVE \A u \in Tasks : Numbered(u)
<1> SUFFICES ASSUME NEW u \in Tasks PROVE Numbered(u)
  OBVIOUS
<1>1. Cardinality(InHands(u)) \in Nat
  BY FS_CardinalityType DEF HandsFinite
<1> QED  BY <1>1 DEF CountsRight, Numbers, Numbered, BufferSum, BatchingSum


(* What the consumers do keeps the promise.                                 *)
LEMMA ConsumersKeepPromise ==
    ASSUME ~ConfirmAfterRollback, TypeOK, PoolInv, NotAnswered, HandsFinite,
           CountsRight, CountsRight', NEW c \in Consumers, Consume(c) \/ Answer(c)
    PROVE  Kept /\ HandsFinite'
<1>t. /\ obj \in [Objects -> [isProcessed : BOOLEAN, task : Tasks \cup {Nil}]]
      /\ consumer \in [Consumers -> Consumer]
      /\ \A d \in Consumers :
            /\ consumer[d].obj = Nil <=> consumer[d].pc = "idle"
            /\ consumer[d].pc \in {"work", "check", "mark", "send"} =>
                  obj[consumer[d].obj].task \in Tasks
            /\ consumer[d].pc = "send" => consumer[d].task \in Tasks
      /\ ready \subseteq Tasks
      /\ bufferIn \in Seq(Tasks) /\ bufferOut \in Seq(Tasks) /\ tasksToConfirm \in Seq(Tasks)
  BY DEF TypeOK, ConsumersTypeOK, ChannelsTypeOK, HistoryTypeOK
<1>o. consumer[c].pc # "idle" => consumer[c].obj \in Objects
  BY <1>t DEF Consumer
<1>k. OthersKeep(c)
  BY OthersKeepTheirs
<1>n. \A u \in Tasks : Numbered(u)
  BY CountsNumbered
<1>b. UNCHANGED buffer => \A u \in Tasks : BufferChange(u, 0)
  BY BufferKept
<1>g. UNCHANGED <<tasksToConfirm, batching>> => \A u \in Tasks : BatchingChange(u, 0)
  BY BatchingKept
<1>1. ASSUME \A u \in Tasks : Working(c, u)' <=> Working(c, u),
             UNCHANGED <<ready, buffer, tasksToConfirm, batching>>
      PROVE  Kept /\ HandsFinite'
  <2>1. HandsFinite' /\ \A u \in Tasks : HandsChange(u, 0)
    BY <1>k, <1>1, ConsumerKeeps
  <2>2. UNCHANGED <<ready, row>>
    BY <1>1 DEF batching
  <2> QED  BY <1>n, <1>b, <1>g, <1>1, <2>1, <2>2, Stutters
<1>2. CASE \/ \E o \in Objects : Get(c, o)
           \/ Complete(c) \/ Reject(c) \/ Check(c) \/ Mark(c)
  <2>1. UNCHANGED <<ready, buffer, tasksToConfirm, batching>>
    BY <1>2 DEF Get, Complete, Reject, Check, Mark
  <2>2. ASSUME NEW u \in Tasks PROVE Working(c, u)' <=> Working(c, u)
    <3>1. CASE \E o \in Objects : Get(c, o)
      BY <1>t, <3>1 DEF Get, Consumer, Working
    <3>2. CASE Complete(c) \/ Reject(c)
      <4>1. /\ consumer[c].pc = "work" /\ consumer'[c].pc = "check"
            /\ consumer'[c].obj = consumer[c].obj /\ UNCHANGED obj
        BY <1>t, <3>2 DEF Complete, Reject, Consumer, objects
      <4> QED  BY <4>1 DEF Working
    <3>3. CASE Check(c)
      <4>1. ~obj[consumer[c].obj].isProcessed
        BY <3>3 DEF Check, NotAnswered
      <4>2. /\ consumer[c].pc = "check" /\ UNCHANGED obj
            /\ consumer' = [consumer EXCEPT ![c] = [@ EXCEPT !.pc = "mark"]]
        BY <3>3, <4>1, Zenon DEF Check, objects
      <4>3. consumer'[c].pc = "mark" /\ consumer'[c].obj = consumer[c].obj
        BY <1>t, <4>2 DEF Consumer
      <4> QED  BY <4>2, <4>3 DEF Working
    <3>4. CASE Mark(c)
      BY <1>t, <3>4 DEF Mark, Consumer, Working
    <3> QED  BY <1>2, <3>1, <3>2, <3>3, <3>4
  <2> QED  BY <1>1, <2>1, <2>2
<1>3. ASSUME NEW t \in Tasks, consumer[c].pc = "receive",
             obj' = [obj EXCEPT ![consumer[c].obj].task = t],
             consumer' = [consumer EXCEPT ![c].pc = "work"]
      PROVE  HandsFinite' /\ \A u \in Tasks : HandsChange(u, OneIf(u = t))
  <2>1. consumer'[c].pc = "work" /\ consumer'[c].obj = consumer[c].obj
    BY <1>t, <1>3 DEF Consumer
  <2>2. obj'[consumer[c].obj].task = t
    BY <1>t, <1>o, <1>3
  <2>3. \A u \in Tasks : ~Working(c, u) /\ (Working(c, u)' <=> u = t)
    BY <1>3, <2>1, <2>2 DEF Working
  <2> QED  BY <1>k, <2>3, TakesInHand
<1>4. CASE ReceiveReady(c)
  <2>1. PICK t \in ready : /\ ready' = ready \ {t}
                           /\ obj' = [obj EXCEPT ![consumer[c].obj].task = t]
    BY <1>4 DEF ReceiveReady
  <2>2. /\ consumer[c].pc = "receive" /\ consumer' = [consumer EXCEPT ![c].pc = "work"]
        /\ UNCHANGED <<buffer, tasksToConfirm, batching, row>>
    BY <1>4 DEF ReceiveReady, batching
  <2>3. HandsFinite' /\ \A u \in Tasks : HandsChange(u, OneIf(u = t))
    BY <1>t, <1>3, <2>1, <2>2
  <2>4. Kept
    BY <1>t, <1>n, <1>b, <1>g, <2>1, <2>2, <2>3, Gives
  <2> QED  BY <2>3, <2>4
<1>5. CASE ReceiveRolledBack(c)
  <2> DEFINE t == Head(bufferOut)
  <2>1. /\ consumer[c].pc = "receive" /\ consumer' = [consumer EXCEPT ![c].pc = "work"]
        /\ obj' = [obj EXCEPT ![consumer[c].obj].task = t]
        /\ bufferOut # <<>> /\ bufferOut' = Tail(bufferOut)
        /\ UNCHANGED <<ready, bufferIn, bufferList, tasksToConfirm, batching, row>>
    BY <1>5 DEF ReceiveRolledBack, batching
  <2>2. t \in Tasks
    BY <1>t, <2>1
  <2> HIDE DEF t
  <2>3. HandsFinite' /\ \A u \in Tasks : HandsChange(u, OneIf(u = t))
    BY <1>3, <2>1, <2>2
  <2>4. ASSUME NEW u \in Tasks
        PROVE  BufferSum(u)' = BufferSum(u) + (-OneIf(u = t)) /\ (u = t => BufferSum(u) > 0)
    <3>1. Occurrences(bufferOut, u)' = Occurrences(bufferOut, u) - OneIf(u = t)
      <4>1. Occurrences(Tail(bufferOut), u) = Occurrences(bufferOut, u) - OneIf(t = u)
        BY <1>t, <2>1, OccurrencesTail DEF t
      <4> QED  BY <2>1, <4>1 DEF OneIf
    <3>2. /\ Occurrences(bufferIn, u) \in Nat /\ Occurrences(bufferList, u) \in Nat
          /\ Occurrences(bufferOut, u) \in Nat /\ Occurrences(bufferOut, u)' \in Nat
      BY DEF CountsRight, Numbers
    <3>3. BufferSum(u)' = Occurrences(bufferIn, u) + Occurrences(bufferList, u)
                          + (Occurrences(bufferOut, u) - OneIf(u = t))
      BY <2>1, <3>1 DEF BufferSum
    <3>4. OneIf(u = t) \in {0, 1} /\ (u = t => OneIf(u = t) = 1)
      BY DEF OneIf
    <3> QED  BY <3>1, <3>2, <3>3, <3>4 DEF BufferSum
  <2>5. \A u \in Tasks : BufferChange(u, -OneIf(u = t))
    BY <2>4, SumsChange
  <2>6. Cardinality(InBuffer(t)) > 0
    BY <2>2, <2>4 DEF CountsRight
  <2>7. Kept
    BY <1>n, <1>g, <2>1, <2>2, <2>3, <2>5, <2>6, GivesAgain
  <2> QED  BY <2>3, <2>7
<1>6. ASSUME consumer[c].pc = "send", Returned(c)
      PROVE  /\ HandsFinite' /\ \A u \in Tasks : HandsChange(u, -OneIf(u = consumer[c].task))
             /\ Cardinality(InHands(consumer[c].task)) > 0
  <2>1. consumer'[c] = NoTask
    BY <1>t, <1>6 DEF Returned
  <2>2. \A u \in Tasks : ~Working(c, u)' /\ (Working(c, u) <=> u = consumer[c].task)
    BY <1>6, <2>1 DEF Working, NoTask
  <2>3. consumer[c].task \in Tasks
    BY <1>t, <1>6
  <2> QED  BY <1>k, <2>2, <2>3, GivesAway
<1>7. CASE SendConfirm(c)
  <2> DEFINE t == consumer[c].task
  <2>1. /\ consumer[c].pc = "send" /\ Returned(c) /\ t \in Tasks
        /\ tasksToConfirm' = Append(tasksToConfirm, t)
        /\ UNCHANGED <<ready, buffer, batching, row>>
    BY <1>t, <1>7 DEF SendConfirm, batching
  <2>2. /\ HandsFinite' /\ \A u \in Tasks : HandsChange(u, -OneIf(u = t))
        /\ Cardinality(InHands(t)) > 0
    BY <1>6, <2>1
  <2> HIDE DEF t
  <2>3. ASSUME NEW u \in Tasks PROVE BatchingSum(u)' = BatchingSum(u) + OneIf(u = t)
    <3>1. Occurrences(tasksToConfirm, u)' = Occurrences(tasksToConfirm, u) + OneIf(u = t)
      <4>1. Occurrences(Append(tasksToConfirm, t), u) = Occurrences(tasksToConfirm, u) + OneIf(t = u)
        BY <1>t, <2>1, OccurrencesAppend
      <4> QED  BY <2>1, <4>1 DEF OneIf
    <3>2. UNCHANGED Confirming /\ UNCHANGED Collected(u) /\ UNCHANGED <<queue, dispatcher, batches>>
      BY <2>1 DEF batching, Confirming, Collected
    <3>3. Numbers(u)
      BY DEF CountsRight
    <3> QED  BY <3>1, <3>2, <3>3 DEF Numbers, BatchingSum, OneIf
  <2>4. \A u \in Tasks : BatchingChange(u, OneIf(u = t))
    BY <2>3, SumsChange
  <2>5. Kept
    BY <1>n, <1>b, <2>1, <2>2, <2>4, Confirms
  <2> QED  BY <2>2, <2>5
<1>8. CASE SendRollback(c)
  <2> DEFINE t == consumer[c].task
  <2>1. /\ consumer[c].pc = "send" /\ Returned(c) /\ t \in Tasks
        /\ bufferIn' = Append(bufferIn, t)
        /\ UNCHANGED <<ready, bufferList, bufferOut, tasksToConfirm, batching, row>>
    BY <1>t, <1>8 DEF SendRollback, batching
  <2>2. /\ HandsFinite' /\ \A u \in Tasks : HandsChange(u, -OneIf(u = t))
        /\ Cardinality(InHands(t)) > 0
    BY <1>6, <2>1
  <2> HIDE DEF t
  <2>3. ASSUME NEW u \in Tasks PROVE BufferSum(u)' = BufferSum(u) + OneIf(u = t)
    <3>1. Occurrences(bufferIn, u)' = Occurrences(bufferIn, u) + OneIf(u = t)
      <4>1. Occurrences(Append(bufferIn, t), u) = Occurrences(bufferIn, u) + OneIf(t = u)
        BY <1>t, <2>1, OccurrencesAppend
      <4> QED  BY <2>1, <4>1 DEF OneIf
    <3>2. Numbers(u)
      BY DEF CountsRight
    <3> QED  BY <2>1, <3>1, <3>2 DEF Numbers, BufferSum, OneIf
  <2>4. \A u \in Tasks : BufferChange(u, OneIf(u = t))
    BY <2>3, SumsChange
  <2>5. Kept
    BY <1>n, <1>g, <2>1, <2>2, <2>4, RollsBack
  <2> QED  BY <2>2, <2>5
<1> QED  BY <1>2, <1>4, <1>5, <1>7, <1>8 DEF Consume, Answer


-----------------------------------------------------------------------------
(* The goroutines of the buffer and of the batches                          *)

OnlyOnce == \A t \in Tasks : Everywhere(t) <= 1

LEMMA OccursIffElement ==
    ASSUME NEW S, NEW s \in Seq(S), NEW x PROVE Occurrences(s, x) > 0 <=> x \in Elements(s)
<1>1. IsFiniteSet(Indices(s, x)) /\ Occurrences(s, x) \in Nat
  BY OccurrencesFinite
<1>2. Indices(s, x) = {} <=> Occurrences(s, x) = 0
  BY <1>1, FS_EmptySet DEF Occurrences
<1>3. Indices(s, x) = {} <=> x \notin Elements(s)
  BY DEF Indices, Elements
<1> QED  BY <1>1, <1>2, <1>3

LEMMA BufferKeepsPromise ==
    ASSUME TypeOK, HandsFinite, CountsRight, CountsRight', BufferReceive \/ BufferSend
    PROVE  Kept /\ HandsFinite'
<1>t. bufferIn \in Seq(Tasks) /\ bufferList \in Seq(Tasks) /\ bufferOut \in Seq(Tasks)
  BY DEF TypeOK, ChannelsTypeOK
<1>1. UNCHANGED <<ready, row, consumer, obj, tasksToConfirm, batching>>
  BY DEF BufferReceive, BufferSend, objects, batching
<1>2. HandsFinite' /\ \A u \in Tasks : HandsChange(u, 0)
  BY <1>1, HandsKept DEF Working
<1>3. ASSUME NEW u \in Tasks PROVE BufferSum(u)' = BufferSum(u) + 0
  <2>n. Numbers(u)
    BY DEF CountsRight
  <2>1. CASE BufferReceive
    <3>1. /\ bufferIn # <<>> /\ bufferIn' = Tail(bufferIn) /\ Head(bufferIn) \in Tasks
          /\ bufferList' = Append(bufferList, Head(bufferIn)) /\ UNCHANGED bufferOut
      BY <1>t, <2>1 DEF BufferReceive
    <3>2. Occurrences(bufferIn', u) = Occurrences(bufferIn, u) - OneIf(Head(bufferIn) = u)
      BY <1>t, <3>1, OccurrencesTail
    <3>3. Occurrences(bufferList', u) = Occurrences(bufferList, u) + OneIf(Head(bufferIn) = u)
      BY <1>t, <3>1, OccurrencesAppend
    <3> QED  BY <2>n, <3>1, <3>2, <3>3 DEF BufferSum, Numbers, OneIf
  <2>2. CASE BufferSend
    <3>1. /\ bufferList # <<>> /\ bufferList' = Tail(bufferList) /\ Head(bufferList) \in Tasks
          /\ bufferOut' = Append(bufferOut, Head(bufferList)) /\ UNCHANGED bufferIn
      BY <1>t, <2>2 DEF BufferSend
    <3>2. Occurrences(bufferList', u) = Occurrences(bufferList, u) - OneIf(Head(bufferList) = u)
      BY <1>t, <3>1, OccurrencesTail
    <3>3. Occurrences(bufferOut', u) = Occurrences(bufferOut, u) + OneIf(Head(bufferList) = u)
      BY <1>t, <3>1, OccurrencesAppend
    <3> QED  BY <2>n, <3>1, <3>2, <3>3 DEF BufferSum, Numbers, OneIf
  <2> QED  BY <2>1, <2>2
<1>4. \A u \in Tasks : BufferChange(u, 0)
  BY <1>3, SumsChange
<1>5. \A u \in Tasks : BatchingChange(u, 0)
  BY <1>1, BatchingKept
<1>6. \A u \in Tasks : Numbered(u)
  BY CountsNumbered
<1> QED  BY <1>1, <1>2, <1>4, <1>5, <1>6, Stutters

(* A step that changes at most the batches, and not how often they have a   *)
(* task.                                                                    *)
LEMMA BatchesMove ==
    ASSUME HandsFinite, CountsRight, CountsRight', UNCHANGED <<ready, row, consumer, obj, buffer>>,
           \A u \in Tasks : BatchingSum(u)' = BatchingSum(u)
    PROVE  Kept /\ HandsFinite'
<1>1. HandsFinite' /\ \A u \in Tasks : HandsChange(u, 0)
  BY HandsKept DEF Working
<1>2. \A u \in Tasks : BufferChange(u, 0)
  BY BufferKept
<1>3. \A u \in Tasks : BatchingChange(u, 0)
  <2> SUFFICES ASSUME NEW u \in Tasks PROVE BatchingChange(u, 0)
    OBVIOUS
  <2>1. BatchingSum(u)' = BatchingSum(u) + 0
    BY DEF BatchingSum, CountsRight, Numbers
  <2> QED  BY <2>1, SumsChange
<1>4. \A u \in Tasks : Numbered(u)
  BY CountsNumbered
<1> QED  BY <1>1, <1>2, <1>3, <1>4, Stutters

LEMMA GeneratorKeepsPromise ==
    ASSUME TypeOK, HandsFinite, CountsRight, CountsRight', Generate
    PROVE  Kept /\ HandsFinite'
<1>t. /\ generator \in [pc : {"collect", "push", "look", "signal", "publish"}, batch : Seq(Tasks)]
      /\ tasksToConfirm \in Seq(Tasks) /\ queue \in Seq(Seq(Tasks))
  BY DEF TypeOK, ChannelsTypeOK, BatchingTypeOK
<1>1. UNCHANGED <<ready, row, consumer, obj, buffer, dispatcher, batches, worker>>
  BY DEF Generate, Collect, BatchExpires, PushBatch, LookForToken, SendToken, PublishBatch, objects
<1>c. UNCHANGED Confirming
  BY <1>1 DEF Confirming
<1>2. ASSUME NEW u \in Tasks PROVE BatchingSum(u)' = BatchingSum(u)
  <2>n. Numbers(u) /\ AllFinite(u)
    BY DEF CountsRight
  <2>1. CASE Collect
    <3> DEFINE t == Head(tasksToConfirm)
    <3>1. /\ tasksToConfirm # <<>> /\ tasksToConfirm' = Tail(tasksToConfirm) /\ t \in Tasks
          /\ generator.pc = "collect" /\ generator'.pc \in {"collect", "push"}
          /\ generator'.batch = Append(generator.batch, t) /\ UNCHANGED queue
      BY <1>t, <2>1 DEF Collect
    <3> HIDE DEF t
    <3>2. Occurrences(tasksToConfirm', u) = Occurrences(tasksToConfirm, u) - OneIf(t = u)
      BY <1>t, <3>1, OccurrencesTail DEF t
    <3>3. Occurrences(generator'.batch, u) = Occurrences(generator.batch, u) + OneIf(t = u)
      BY <1>t, <3>1, OccurrencesAppend
    <3>4. Collected(u)' = Collected(u) + OneIf(t = u)
      BY <3>1, <3>3 DEF Collected
    <3> QED  BY <1>1, <1>c, <2>n, <3>1, <3>2, <3>4 DEF BatchingSum, Numbers, OneIf
  <2>2. CASE BatchExpires \/ LookForToken \/ SendToken \/ PublishBatch
    <3>1. UNCHANGED <<tasksToConfirm, queue>>
      BY <2>2 DEF BatchExpires, LookForToken, SendToken, PublishBatch
    <3>2. Collected(u)' = Collected(u)
      <4>1. CASE BatchExpires
        BY <1>t, <4>1 DEF BatchExpires, Collected
      <4>2. CASE LookForToken \/ SendToken
        BY <1>t, <4>2 DEF LookForToken, SendToken, Collected
      <4>3. CASE PublishBatch
        <5>1. /\ generator.pc = "publish" /\ generator'.pc = "collect"
              /\ generator'.batch = <<>>
          BY <4>3 DEF PublishBatch
        <5> QED  BY <5>1, OccurrencesOfEmpty DEF Collected
      <4> QED  BY <2>2, <4>1, <4>2, <4>3
    <3> QED  BY <1>1, <1>c, <3>1, <3>2 DEF BatchingSum
  <2>3. CASE PushBatch
    <3>1. /\ generator.pc = "push" /\ generator'.pc = "look"
          /\ queue' = Append(queue, generator.batch) /\ generator.batch \in Seq(Tasks)
          /\ UNCHANGED tasksToConfirm
      BY <1>t, <2>3 DEF PushBatch
    <3>2. Within(queue', u) = Within(queue, u) + Occurrences(generator.batch, u)
      BY <1>t, <2>n, <3>1, WithinAppend DEF AllFinite
    <3>3. Collected(u) = Occurrences(generator.batch, u) /\ Collected(u)' = 0
      BY <3>1 DEF Collected
    <3> QED  BY <1>1, <1>c, <2>n, <3>1, <3>2, <3>3 DEF BatchingSum, Numbers
  <2> QED  BY <2>1, <2>2, <2>3 DEF Generate
<1> QED  BY <1>1, <1>2, BatchesMove

LEMMA DispatcherKeepsPromise ==
    ASSUME TypeOK, NobodyKeepsBatch, HandsFinite, CountsRight, CountsRight', Dispatch
    PROVE  Kept /\ HandsFinite'
<1>t. /\ dispatcher \in [pc : {"pop", "wait", "send"}, batch : Seq(Tasks)]
      /\ queue \in Seq(Seq(Tasks)) /\ batches \in Seq(Seq(Tasks))
  BY DEF TypeOK, ChannelsTypeOK, BatchingTypeOK
<1>1. UNCHANGED <<ready, row, consumer, obj, buffer, tasksToConfirm, generator, worker>>
  BY DEF Dispatch, Pop, ReceiveToken, SendBatch, objects
<1>c. UNCHANGED Confirming
  BY <1>1 DEF Confirming
<1>2. ASSUME NEW u \in Tasks PROVE BatchingSum(u)' = BatchingSum(u)
  <2>n. Numbers(u) /\ AllFinite(u)
    BY DEF CountsRight
  <2>g. UNCHANGED Collected(u)
    BY <1>1 DEF Collected
  <2>e. Occurrences(<<>>, u) = 0
    BY OccurrencesOfEmpty
  <2>1. CASE Pop
    <3>1. Occurrences(dispatcher.batch, u) = 0 /\ UNCHANGED batches
      BY <2>1, <2>e DEF Pop, NobodyKeepsBatch
    <3>2. Within(queue', u) + Occurrences(dispatcher'.batch, u) = Within(queue, u)
      <4>1. CASE queue # <<>> /\ queue' = Tail(queue)
                 /\ dispatcher' = [pc |-> "send", batch |-> Head(queue)]
        <5>1. Within(queue', u) = Within(queue, u) - Occurrences(Head(queue), u)
          BY <1>t, <2>n, <4>1, WithinTail DEF AllFinite
        <5>2. dispatcher'.batch = Head(queue) /\ Occurrences(Head(queue), u) \in Nat
          BY <1>t, <4>1, OccurrencesFinite
        <5> QED  BY <2>n, <5>1, <5>2 DEF Numbers
      <4>2. CASE UNCHANGED queue /\ dispatcher' = [pc |-> "wait", batch |-> <<>>]
        <5>1. dispatcher'.batch = <<>>
          BY <4>2
        <5> QED  BY <2>e, <2>n, <4>2, <5>1 DEF Numbers
      <4> QED  BY <2>1, <4>1, <4>2 DEF Pop
    <3>3. Numbers(u)'
      BY DEF CountsRight
    <3> QED  BY <1>1, <1>c, <2>n, <2>g, <3>1, <3>2, <3>3 DEF BatchingSum, Numbers
  <2>2. CASE ReceiveToken
    <3>1. dispatcher'.batch = dispatcher.batch /\ UNCHANGED <<queue, batches>>
      BY <1>t, <2>2 DEF ReceiveToken
    <3> QED  BY <1>1, <1>c, <2>g, <3>1 DEF BatchingSum
  <2>3. CASE SendBatch
    <3>1. /\ batches' = Append(batches, dispatcher.batch) /\ dispatcher.batch \in Seq(Tasks)
          /\ dispatcher'.batch = <<>> /\ UNCHANGED queue
      BY <1>t, <2>3 DEF SendBatch
    <3>2. Within(batches', u) = Within(batches, u) + Occurrences(dispatcher.batch, u)
      BY <1>t, <2>n, <3>1, WithinAppend DEF AllFinite
    <3>3. Occurrences(dispatcher'.batch, u) = 0
      BY <2>e, <3>1
    <3> QED  BY <1>1, <1>c, <2>n, <2>g, <3>1, <3>2, <3>3 DEF BatchingSum, Numbers
  <2> QED  BY <2>1, <2>2, <2>3 DEF Dispatch
<1> QED  BY <1>1, <1>2, BatchesMove


(* The batch of a worker that starts or stops confirming.                   *)
LEMMA ConfirmingMore ==
    ASSUME TypeOK, CountsRight, NEW w \in Workers, worker[w].pc # "confirm", NEW b \in Seq(Tasks),
           worker' = [worker EXCEPT ![w] = [pc |-> "confirm", batch |-> b]], NEW u \in Tasks
    PROVE  Within(Confirming, u)' = Within(Confirming, u) + Occurrences(b, u)
<1> DEFINE f == Confirming
           g == Confirming'
<1>1. worker \in [Workers -> [pc : {"take", "confirm", "publish"}, batch : Seq(Tasks)]]
  BY DEF TypeOK, BatchingTypeOK
<1>2. /\ worker'[w].pc = "confirm" /\ worker'[w].batch = b
      /\ \A v \in Workers \ {w} : worker'[v] = worker[v]
  BY <1>1
<1>3. /\ w \notin DOMAIN f /\ DOMAIN g = DOMAIN f \cup {w} /\ g[w] = b
      /\ \A v \in DOMAIN f : g[v] = f[v]
  BY <1>2 DEF Confirming
<1>4. IsFiniteSet(Places(Hits(f, u)))
  BY DEF CountsRight, AllFinite
<1> HIDE DEF f, g
<1>5. g[w] \in Seq(Tasks)
  BY <1>3
<1>6. Within(g, u) = Within(f, u) + Occurrences(g[w], u)
  BY <1>3, <1>4, <1>5, WithinMore
<1> QED  BY <1>3, <1>6 DEF f, g

LEMMA ConfirmingLess ==
    ASSUME TypeOK, CountsRight, NEW w \in Workers, worker[w].pc = "confirm",
           worker' = [worker EXCEPT ![w].pc = "publish"], NEW u \in Tasks
    PROVE  Within(Confirming, u)' = Within(Confirming, u) - Occurrences(worker[w].batch, u)
<1> DEFINE g == Confirming
           f == Confirming'
           b == worker[w].batch
<1>1. worker \in [Workers -> [pc : {"take", "confirm", "publish"}, batch : Seq(Tasks)]]
  BY DEF TypeOK, BatchingTypeOK
<1>2. worker'[w].pc = "publish" /\ \A v \in Workers \ {w} : worker'[v] = worker[v]
  BY <1>1
<1>3. /\ w \notin DOMAIN f /\ DOMAIN g = DOMAIN f \cup {w} /\ g[w] = b
      /\ \A v \in DOMAIN f : g[v] = f[v]
  BY <1>2 DEF Confirming
<1>4. IsFiniteSet(Places(Hits(g, u))) /\ b \in Seq(Tasks)
  BY <1>1 DEF CountsRight, AllFinite
<1> HIDE DEF f, g, b
<1>5. g[w] \in Seq(Tasks)
  BY <1>3, <1>4
<1>6. Within(f, u) = Within(g, u) - Occurrences(g[w], u)
  BY <1>3, <1>4, <1>5, WithinLess
<1> QED  BY <1>3, <1>6 DEF f, g, b

LEMMA WorkersKeepPromise ==
    ASSUME TypeOK, HandsFinite, OnlyOnce, CountsRight, CountsRight',
           NEW w \in Workers, Confirmation(w) \/ ConfirmationFails(w)
    PROVE  Kept /\ HandsFinite'
<1>t. /\ worker \in [Workers -> [pc : {"take", "confirm", "publish"}, batch : Seq(Tasks)]]
      /\ batches \in Seq(Seq(Tasks))
  BY DEF TypeOK, ChannelsTypeOK, BatchingTypeOK
<1>1. UNCHANGED <<ready, consumer, obj, buffer, tasksToConfirm, generator, queue, dispatcher>>
  BY DEF Confirmation, TakeBatch, ConfirmExecution, PublishConfirmed, ConfirmationFails, objects
<1>g. \A u : UNCHANGED Collected(u)
  BY <1>1 DEF Collected
<1>n. \A u \in Tasks : Numbers(u) /\ AllFinite(u)
  BY DEF CountsRight
<1>2. CASE TakeBatch(w)
  <2>1. /\ worker[w].pc # "confirm" /\ batches # <<>> /\ batches' = Tail(batches)
        /\ worker' = [worker EXCEPT ![w] = [pc |-> "confirm", batch |-> Head(batches)]]
        /\ Head(batches) \in Seq(Tasks) /\ UNCHANGED row
    BY <1>t, <1>2 DEF TakeBatch
  <2>2. ASSUME NEW u \in Tasks PROVE BatchingSum(u)' = BatchingSum(u)
    <3>1. Within(batches', u) = Within(batches, u) - Occurrences(Head(batches), u)
      BY <1>t, <1>n, <2>1, WithinTail DEF AllFinite
    <3>2. Within(Confirming, u)' = Within(Confirming, u) + Occurrences(Head(batches), u)
      BY <2>1, ConfirmingMore
    <3>3. Occurrences(Head(batches), u) \in Nat
      BY <2>1, OccurrencesFinite
    <3>4. Numbers(u) /\ UNCHANGED Collected(u)
      BY <1>n, <1>g
    <3> QED  BY <1>1, <3>1, <3>2, <3>3, <3>4 DEF BatchingSum, Numbers
  <2> QED  BY <1>1, <2>1, <2>2, BatchesMove
<1>3. CASE PublishConfirmed(w)
  <2>1. /\ worker[w].pc = "publish" /\ UNCHANGED <<row, batches>>
        /\ worker' = [worker EXCEPT ![w] = [pc |-> "take", batch |-> <<>>]]
    BY <1>3 DEF PublishConfirmed
  <2>2. /\ worker'[w].pc = "take"
        /\ \A v \in Workers \ {w} : worker'[v] = worker[v]
    BY <1>t, <2>1
  <2>3. UNCHANGED Confirming
    BY <2>1, <2>2 DEF Confirming
  <2>4. \A u \in Tasks : BatchingSum(u)' = BatchingSum(u)
    BY <1>1, <1>g, <2>1, <2>3 DEF BatchingSum
  <2> QED  BY <1>1, <2>1, <2>4, BatchesMove
<1>4. CASE ConfirmExecution(w) \/ ConfirmationFails(w)
  <2> DEFINE b == worker[w].batch
  <2>1. /\ worker[w].pc = "confirm" /\ worker' = [worker EXCEPT ![w].pc = "publish"]
        /\ UNCHANGED batches /\ row' \in {row, row \ Elements(b)}
    BY <1>4 DEF ConfirmExecution, ConfirmationFails
  <2>2. b \in Seq(Tasks) /\ Elements(b) \in SUBSET Tasks
    <3>1. b \in Seq(Tasks)
      BY <1>t
    <3> HIDE DEF b
    <3> QED  BY <3>1 DEF Elements
  <2>3. ASSUME NEW u \in Tasks
        PROVE  Within(Confirming, u)' = Within(Confirming, u) - Occurrences(b, u)
    BY <2>1, ConfirmingLess
  <2> HIDE DEF b
  <2>4. ASSUME NEW u \in Tasks
        PROVE  /\ BatchingSum(u)' = BatchingSum(u) + (-OneIf(u \in Elements(b)))
               /\ u \in Elements(b) => BatchingSum(u) > 0
    <3>1. Occurrences(b, u) \in Nat /\ (Occurrences(b, u) > 0 <=> u \in Elements(b))
      BY <2>2, OccurrencesFinite, OccursIffElement
    <3>2. BatchingSum(u)' = BatchingSum(u) - Occurrences(b, u)
      BY <1>1, <1>g, <1>n, <2>1, <2>3, <3>1 DEF BatchingSum, Numbers
    <3>3. BatchingSum(u) \in Nat /\ BatchingSum(u)' \in Nat
      BY DEF CountsRight, Numbers, BatchingSum
    <3>4. BatchingSum(u) <= 1
      <4>1. /\ Cardinality(InHands(u)) \in Nat /\ Cardinality(InBuffer(u)) \in Nat
            /\ Cardinality(InBatching(u)) = BatchingSum(u) /\ OneIf(u \in ready) \in {0, 1}
        BY CountsNumbered DEF Numbered, CountsRight, OneIf
      <4>2. OneIf(u \in ready) + Cardinality(InHands(u)) + Cardinality(InBuffer(u))
            + Cardinality(InBatching(u)) <= 1
        BY DEF OnlyOnce, Everywhere
      <4> QED  BY <3>3, <4>1, <4>2
    <3>5. Occurrences(b, u) = OneIf(u \in Elements(b))
      <4>1. Occurrences(b, u) <= 1
        BY <3>1, <3>2, <3>3, <3>4
      <4> QED  BY <3>1, <4>1 DEF OneIf
    <3> QED  BY <3>1, <3>2, <3>3, <3>5
  <2>5. \A u \in Tasks : BatchingChange(u, -OneIf(u \in Elements(b)))
    BY <2>4, SumsChange
  <2>6. \A u \in Elements(b) : Cardinality(InBatching(u)) > 0
    BY <2>2, <2>4 DEF CountsRight
  <2>7. HandsFinite' /\ \A u \in Tasks : HandsChange(u, 0)
    BY <1>1, HandsKept DEF Working
  <2>8. \A u \in Tasks : BufferChange(u, 0)
    BY <1>1, BufferKept
  <2>9. \A u \in Tasks : Numbered(u)
    BY CountsNumbered
  <2>10. Kept
    BY <1>1, <2>1, <2>2, <2>5, <2>6, <2>7, <2>8, <2>9, Settles
  <2> QED  BY <2>7, <2>10
<1> QED  BY <1>2, <1>3, <1>4 DEF Confirmation

-----------------------------------------------------------------------------
(* The refinement                                                           *)

PromiseInv == HandsFinite /\ NotAnswered /\ OnlyOnce

LEMMA EveryStepKeepsPromise ==
    ~ConfirmAfterRollback /\ TypeOK /\ TypeOK' /\ PoolInv /\ MetricInv /\ MetricInv' /\ PromiseInv
    /\ [Next]_vars => Kept /\ HandsFinite'
<1> SUFFICES ASSUME ~ConfirmAfterRollback, TypeOK, TypeOK', PoolInv, MetricInv, MetricInv',
                    PromiseInv, [Next]_vars
             PROVE  Kept /\ HandsFinite'
  OBVIOUS
<1>1. CountsRight /\ CountsRight'
  BY Counts, CountsAfter DEF MetricInv
<1>2. HandsFinite /\ NotAnswered /\ OnlyOnce /\ NobodyKeepsBatch
  BY DEF PromiseInv, MetricInv
<1>3. ASSUME NEW c \in Consumers, Consume(c) \/ Answer(c) PROVE Kept /\ HandsFinite'
  BY <1>1, <1>2, <1>3, ConsumersKeepPromise
<1>4. CASE BufferReceive \/ BufferSend
  BY <1>1, <1>2, <1>4, BufferKeepsPromise
<1>5. CASE Generate
  BY <1>1, <1>2, <1>5, GeneratorKeepsPromise
<1>6. CASE Dispatch
  BY <1>1, <1>2, <1>6, DispatcherKeepsPromise
<1>7. ASSUME NEW w \in Workers, Confirmation(w) \/ ConfirmationFails(w) PROVE Kept /\ HandsFinite'
  BY <1>1, <1>2, <1>7, WorkersKeepPromise
<1>8. CASE UNCHANGED vars
  <2>1. UNCHANGED <<ready, row, consumer, obj, buffer, tasksToConfirm, batching>>
    BY <1>8 DEF vars, buffer, batching
  <2>2. \A u \in Tasks : BatchingSum(u)' = BatchingSum(u)
    BY <2>1 DEF BatchingSum, batching, Confirming, Collected
  <2> QED  BY <1>1, <1>2, <2>1, <2>2, BatchesMove
<1> QED  BY <1>3, <1>4, <1>5, <1>6, <1>7, <1>8 DEF Next

LEMMA PromiseInvStep ==
    ~ConfirmAfterRollback /\ TypeOK /\ TypeOK' /\ PoolInv /\ MetricInv /\ MetricInv' /\ PromiseInv
    /\ [Next]_vars => PromiseInv'
<1> SUFFICES ASSUME ~ConfirmAfterRollback, TypeOK, TypeOK', PoolInv, MetricInv, MetricInv',
                    PromiseInv, [Next]_vars
             PROVE  PromiseInv'
  OBVIOUS
<1>1. Kept /\ HandsFinite'
  BY EveryStepKeepsPromise
<1>2. NotAnswered'
  BY NotAnsweredStep DEF PromiseInv
<1>3. CountsRight /\ CountsRight'
  BY Counts, CountsAfter DEF MetricInv
<1>4. ASSUME NEW u \in Tasks PROVE Everywhere(u)' <= 1
  <2>1. Everywhere(u) \in Nat
    BY <1>3, CountsNumbered DEF PromiseInv, Everywhere, Numbered, OneIf
  <2>2. Everywhere(u)' \in Nat
    <3>1. Cardinality(InHands(u)') \in Nat
      BY <1>1, FS_CardinalityType DEF HandsFinite
    <3> QED  BY <1>3, <3>1 DEF CountsRight, Numbers, BufferSum, BatchingSum, Everywhere, OneIf
  <2>3. Everywhere(u) <= 1 /\ Everywhere(u)' <= Everywhere(u)
    BY <1>1 DEF PromiseInv, OnlyOnce, Kept
  <2> QED  BY <2>1, <2>2, <2>3
<1>5. OnlyOnce'
  BY <1>4 DEF OnlyOnce
<1> QED  BY <1>1, <1>2, <1>5 DEF PromiseInv


(* When every consumer answers a task once, the pool, the buffer, the       *)
(* batches and their goroutines are invisible: a task is given, given again *)
(* after each rollback, and leaves the sender once, with the deletion of    *)
(* its row or its failure.  TriggerHook takes the sender for SenderSpec.    *)
THEOREM SenderKeepsPromise == ~ConfirmAfterRollback => (Spec => ImplementsSenderSpec)
<1> SUFFICES ASSUME ~ConfirmAfterRollback PROVE Spec => ImplementsSenderSpec
  OBVIOUS
<1>1. Init => PromiseInv /\ Promise!Init
  <2> SUFFICES ASSUME Init PROVE PromiseInv /\ Promise!Init
    OBVIOUS
  <2>1. \A t \in Tasks : InHands(t) = {} /\ InBuffer(t) = {} /\ InBatching(t) = {}
    <3>1. Confirming = <<>> /\ DOMAIN <<>> = {}
      BY DEF Init, Confirming
    <3> QED  BY <3>1 DEF Init, InHands, Working, NoTask, InBuffer, In, InBatching, InBatches
  <2>2. \A t \in Tasks : /\ Cardinality(InHands(t)) = 0 /\ Cardinality(InBuffer(t)) = 0
                         /\ Cardinality(InBatching(t)) = 0 /\ IsFiniteSet(InHands(t))
    BY <2>1, FS_EmptySet
  <2>3. PromiseInv
    BY <2>2 DEF Init, PromiseInv, HandsFinite, NotAnswered, OnlyOnce, Everywhere, OneIf, NoTask
  <2>4. Promise!Init
    BY <2>2 DEF Init, Promise!Init, Promise!None
  <2> QED  BY <2>3, <2>4
<1>2. /\ TypeOK /\ TypeOK' /\ PoolInv /\ MetricInv /\ MetricInv' /\ PromiseInv /\ [Next]_vars
      => PromiseInv' /\ [Promise!Next]_(Promise!vars)
  BY EveryStepKeepsPromise, PromiseInvStep DEF Kept
<1> QED  BY <1>1, <1>2, TypeCorrect, PoolInvHolds, MetricInvHolds, PTL
         DEF Spec, ImplementsSenderSpec, Promise!Spec

=============================================================================
