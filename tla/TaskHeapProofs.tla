--------------------------- MODULE TaskHeapProofs ----------------------------
(***************************************************************************)
(* Proofs about TaskHeap, for every number of items, tasks and times.      *)
(*                                                                         *)
(* The loops of container/heap are steps, so that an invariant says what   *)
(* holds between two turns: where the heap is out of order, and that one   *)
(* exchange moves that place up or down by one level.                      *)
(***************************************************************************)
EXTENDS TaskHeap, FunctionTheorems, FiniteSetTheorems, WellFoundedInduction, TLAPS

-----------------------------------------------------------------------------
(* Order of an array p of times: m is the size of the heap in it            *)

Ordered(p, m) == \A k \in 1..(m - 1) : p[Parent(k)] <= p[k]

(* In order but for the item at "at", which may be earlier than its parent; *)
(* what is below it is not.                                                 *)
Rising(p, m, at) ==
    /\ \A k \in 1..(m - 1) : k # at => p[Parent(k)] <= p[k]
    /\ \A k \in 1..(m - 1) : Parent(k) = at /\ at > 0 => p[Parent(at)] <= p[k]

(* In order from the node low on but for the item at "at", which may be     *)
(* later than its children, and may be earlier than its parent where the    *)
(* loop began; what is below it is not.                                     *)
Sinking(p, m, low, from, at) ==
    /\ \A k \in 1..(m - 1) :
          Parent(k) >= low /\ Parent(k) # at /\ (k = at => at # from) => p[Parent(k)] <= p[k]
    /\ \A k \in 1..(m - 1) :
          Parent(k) = at /\ at > 0 /\ Parent(at) >= low => p[Parent(at)] <= p[k]

Keys(h) == [i \in DOMAIN h.pq |-> h.item[h.pq[i]].task.execTime]

Low == IF run.method = "new" THEN run.from ELSE 0

(* What the loops know about the order.                                     *)
OrderInv ==
    /\ run.loop = "none" => Ordered(Keys(heap), Limit)
    /\ run.loop = "up" => Rising(Keys(heap), Limit, run.at)
    /\ run.loop = "down" => Sinking(Keys(heap), Limit, Low, run.from, run.at)

(* What a method knows while it works.                                      *)
RunInv ==
    /\ run.method = "idle" => run = Idle
    /\ run.loop = "up" => run.method \in {"add", "delete"} /\ run.at \in 0..(Limit - 1)
    /\ run.loop = "down" =>
          /\ run.method \in {"new", "delete", "take"}
          /\ run.at \in DOMAIN heap.pq /\ run.from \in 0..run.at
          /\ run.method = "take" => run.from = 0
          /\ run.method # "take" => run.at < Limit
    /\ run.method = "add" =>
          /\ run.loop # "down"
          /\ run.arg \in InHeap(heap) /\ \A id \in Ids : index[id] # run.arg
    /\ run.method = "delete" =>
          /\ Size(heap) > 0 /\ run.arg \in Ids /\ index[run.arg] # Nil
          /\ LastItem(heap) = index[run.arg]
    /\ run.method = "take" =>
          /\ Size(heap) > 0
          /\ \A i \in DOMAIN heap.pq : Keys(heap)[Size(heap) - 1] <= Keys(heap)[i]

(* The entry of an id that was not added twice is that of its only item.    *)
EntriesComplete ==
    \A id \in Ids \ doubled : \A x \in InHeap(heap) :
        heap.item[x].task.id = id =>
            /\ \A y \in InHeap(heap) : heap.item[y].task.id = id => x = y
            /\ index[id] = x \/ (run.method = "add" /\ run.arg = x)

HeapInv == PositionsKnown /\ RunInv /\ OrderInv

-----------------------------------------------------------------------------
(* One turn of a loop                                                       *)

LEMMA ParentIs ==
    ASSUME NEW k \in Nat, k > 0
    PROVE  /\ Parent(k) \in Nat /\ Parent(k) < k
           /\ \A i \in Nat : Parent(k) = i <=> k = 2 * i + 1 \/ k = 2 * i + 2
  BY DEF Parent

(* q is p with two places exchanged.                                        *)
Exchanged(q, p, n, i, j) ==
    /\ p \in [0..(n - 1) -> Nat] /\ q \in [0..(n - 1) -> Nat]
    /\ q[i] = p[j] /\ q[j] = p[i]
    /\ \A k \in 0..(n - 1) : k # i /\ k # j => q[k] = p[k]

(* An item earlier than its parent changes places with it.                  *)
LEMMA RiseKeepsOrder ==
    ASSUME NEW n \in Nat, NEW m \in 0..n, NEW j \in 1..(m - 1), NEW p, NEW q,
           Exchanged(q, p, n, Parent(j), j), Rising(p, m, j), p[j] < p[Parent(j)]
    PROVE  Rising(q, m, Parent(j))
<1> DEFINE i == Parent(j)
<1>1. i \in Nat /\ i < j /\ i \in 0..(n - 1) /\ j \in 0..(n - 1)
  BY ParentIs
<1>2. \A k \in 1..(m - 1) : /\ k \in 0..(n - 1) /\ Parent(k) \in 0..(n - 1) /\ Parent(k) < k
                            /\ p[k] \in Nat /\ p[Parent(k)] \in Nat
  <2> SUFFICES ASSUME NEW k \in 1..(m - 1)
               PROVE  /\ k \in 0..(n - 1) /\ Parent(k) \in 0..(n - 1) /\ Parent(k) < k
                      /\ p[k] \in Nat /\ p[Parent(k)] \in Nat
    OBVIOUS
  <2>1. k \in 0..(n - 1) /\ Parent(k) \in 0..(n - 1) /\ Parent(k) < k
    BY ParentIs
  <2> QED  BY <2>1 DEF Exchanged
<1>3. /\ q[i] = p[j] /\ q[j] = p[i] /\ p[i] \in Nat /\ p[j] \in Nat
      /\ \A k \in 0..(n - 1) : k # i /\ k # j => q[k] = p[k]
  BY <1>1 DEF Exchanged
<1> HIDE DEF i
<1>4. p[j] < p[i] /\ Parent(j) = i
  BY DEF i
(* The children of j, and its sibling, are not earlier than i was.          *)
<1>5. ASSUME NEW k \in 1..(m - 1), k # j PROVE p[Parent(k)] <= p[k]
  BY <1>5 DEF Rising
<1>6. ASSUME NEW k \in 1..(m - 1), Parent(k) = j PROVE p[i] <= p[k]
  BY <1>4, <1>6, j > 0 DEF Rising
<1>7. ASSUME NEW k \in 1..(m - 1), k # i PROVE q[Parent(k)] <= q[k]
  <2>1. CASE k = j
    BY <1>3, <1>4, <2>1
  <2>2. CASE k # j /\ Parent(k) = i
    BY <1>2, <1>3, <1>4, <1>5, <1>7, <2>2
  <2>3. CASE k # j /\ Parent(k) = j
    BY <1>2, <1>3, <1>6, <1>7, <2>3
  <2>4. CASE k # j /\ Parent(k) # i /\ Parent(k) # j
    BY <1>2, <1>3, <1>5, <1>7, <2>4
  <2> QED  BY <2>1, <2>2, <2>3, <2>4
<1>8. ASSUME NEW k \in 1..(m - 1), Parent(k) = i, i > 0 PROVE q[Parent(i)] <= q[k]
  <2>1. i \in 1..(m - 1) /\ i # j
    BY <1>1, <1>8
  <2>2. p[Parent(i)] <= p[i] /\ q[Parent(i)] = p[Parent(i)] /\ p[Parent(i)] \in Nat
    BY <1>1, <1>2, <1>3, <1>5, <2>1
  <2>3. CASE k = j
    BY <1>3, <2>2, <2>3
  <2>4. CASE k # j
    BY <1>2, <1>3, <1>5, <1>8, <2>2, <2>4
  <2> QED  BY <2>3, <2>4
<1> QED  BY <1>7, <1>8 DEF i, Rising

(* j is the child of i that down compares with it.                          *)
Chosen(p, m, i, j) ==
    /\ j \in {2 * i + 1, 2 * i + 2} /\ j < m
    /\ \A k \in 1..(m - 1) : Parent(k) = i => p[j] <= p[k]

(* An item later than one of its children changes places with the earlier.  *)
LEMMA SinkKeepsOrder ==
    ASSUME NEW n \in Nat, NEW m \in 0..n, NEW i \in 0..(m - 1), NEW j \in Nat, NEW p, NEW q,
           NEW low \in Int, NEW from \in 0..i, low <= i,
           Exchanged(q, p, n, i, j), Chosen(p, m, i, j), Sinking(p, m, low, from, i), p[j] < p[i]
    PROVE  Sinking(q, m, low, from, j)
<1>1. /\ j \in 1..(m - 1) /\ Parent(j) = i /\ i < j /\ from < j
      /\ i \in 0..(n - 1) /\ j \in 0..(n - 1)
  BY ParentIs DEF Chosen
<1>2. \A k \in 1..(m - 1) : /\ k \in 0..(n - 1) /\ Parent(k) \in 0..(n - 1) /\ Parent(k) < k
                            /\ p[k] \in Nat /\ p[Parent(k)] \in Nat
  <2> SUFFICES ASSUME NEW k \in 1..(m - 1)
               PROVE  /\ k \in 0..(n - 1) /\ Parent(k) \in 0..(n - 1) /\ Parent(k) < k
                      /\ p[k] \in Nat /\ p[Parent(k)] \in Nat
    OBVIOUS
  <2>1. k \in 0..(n - 1) /\ Parent(k) \in 0..(n - 1) /\ Parent(k) < k
    BY ParentIs
  <2> QED  BY <2>1 DEF Exchanged
<1>3. /\ q[i] = p[j] /\ q[j] = p[i] /\ p[i] \in Nat /\ p[j] \in Nat
      /\ \A k \in 0..(n - 1) : k # i /\ k # j => q[k] = p[k]
  BY <1>1 DEF Exchanged
<1>4. ASSUME NEW k \in 1..(m - 1), Parent(k) >= low, Parent(k) # i, k # i
      PROVE  p[Parent(k)] <= p[k]
  BY <1>4 DEF Sinking
<1>5. ASSUME NEW k \in 1..(m - 1), Parent(k) = i PROVE p[j] <= p[k]
  BY <1>5 DEF Chosen
<1>6. ASSUME NEW k \in 1..(m - 1), Parent(k) >= low, Parent(k) # j PROVE q[Parent(k)] <= q[k]
  <2>1. CASE k = j
    BY <1>1, <1>3, <2>1
  <2>2. CASE k # j /\ Parent(k) = i
    BY <1>1, <1>2, <1>3, <1>5, <2>2
  <2>3. CASE k = i
    <3>1. p[Parent(i)] <= p[j]
      BY <1>1, <1>6, <2>3 DEF Sinking
    <3>2. q[Parent(i)] = p[Parent(i)]
      BY <1>1, <1>2, <1>3, <1>6, <2>3
    <3> QED  BY <1>3, <2>3, <3>1, <3>2
  <2>4. CASE k # j /\ k # i /\ Parent(k) # i
    BY <1>2, <1>3, <1>4, <1>6, <2>4
  <2> QED  BY <2>1, <2>2, <2>3, <2>4
<1>7. ASSUME NEW k \in 1..(m - 1), Parent(k) = j, Parent(j) >= low
      PROVE  q[Parent(j)] <= q[k]
  <2>1. p[j] <= p[k]
    BY <1>1, <1>2, <1>4, <1>7
  <2> QED  BY <1>1, <1>2, <1>3, <1>7, <2>1
<1> QED  BY <1>1, <1>6, <1>7 DEF Sinking

(* A loop ends where its item is in order with its neighbours.              *)
LEMMA RiseEndsInOrder ==
    ASSUME NEW n \in Nat, NEW m \in 0..n, NEW j \in 0..(m - 1), NEW p \in [0..(n - 1) -> Nat],
           Rising(p, m, j), j > 0 => p[Parent(j)] <= p[j]
    PROVE  Ordered(p, m)
  BY DEF Ordered, Rising

LEMMA SinkEndsInOrder ==
    ASSUME NEW n \in Nat, NEW m \in 0..n, NEW i \in 0..(n - 1), NEW p \in [0..(n - 1) -> Nat],
           NEW low \in Int, NEW from \in 0..i, Sinking(p, m, low, from, i),
           \A k \in 1..(m - 1) : Parent(k) = i => p[i] <= p[k]
    PROVE  /\ \A k \in 1..(m - 1) : Parent(k) >= low /\ (k = i => i # from) => p[Parent(k)] <= p[k]
           /\ low = 0 /\ i = from => Rising(p, m, i)
           /\ low = 0 /\ (i # from \/ i = 0) => Ordered(p, m)
<1>1. \A k \in 1..(m - 1) : Parent(k) >= low /\ (k = i => i # from) => p[Parent(k)] <= p[k]
  BY DEF Sinking
<1>2. \A k \in 1..(m - 1) : Parent(k) \in Nat
  BY ParentIs
<1>3. ASSUME low = 0, i = from PROVE Rising(p, m, i)
  <2>1. ASSUME NEW k \in 1..(m - 1), Parent(k) = i, i > 0 PROVE p[Parent(i)] <= p[k]
    <3>1. Parent(i) >= low
      BY <1>3, <2>1, ParentIs
    <3> QED  BY <2>1, <3>1 DEF Sinking
  <2> QED  BY <1>1, <1>2, <1>3, <2>1 DEF Rising
<1>4. ASSUME low = 0, i # from \/ i = 0 PROVE Ordered(p, m)
  BY <1>1, <1>2, <1>4 DEF Ordered
<1> QED  BY <1>1, <1>3, <1>4

(* The root is the earliest of an ordered heap: else take the first item    *)
(* that is earlier; its parent comes before it and is not.                  *)
LEMMA RootIsFirst ==
    ASSUME NEW n \in Nat, NEW p \in [0..(n - 1) -> Nat], Ordered(p, n), NEW i \in 0..(n - 1)
    PROVE  p[0] <= p[i]
<1> DEFINE Earlier == {k \in 0..(n - 1) : p[k] < p[0]}
<1> SUFFICES ASSUME Earlier # {} PROVE FALSE
  BY 0 \in 0..(n - 1)
<1>1. IsWellFoundedOn(OpToRel(<, Nat), Nat)
  BY NatLessThanWellFounded
<1>2. Earlier \subseteq Nat
  OBVIOUS
<1>3. PICK k \in Earlier : \A j \in Earlier : <<j, k>> \notin OpToRel(<, Nat)
  BY <1>1, <1>2, WFMin, Zenon
<1>4. \A j \in Earlier : ~(j < k)
  BY <1>2, <1>3 DEF OpToRel
<1>5. k \in 1..(n - 1) /\ p[k] < p[0] /\ p[0] \in Nat
  <2>1. k \in 0..(n - 1) /\ p[k] < p[0]
    OBVIOUS
  <2>2. 0 \in 0..(n - 1) /\ p[0] \in Nat
    OBVIOUS
  <2>3. k # 0
    BY <2>1, <2>2
  <2> QED  BY <2>1, <2>2, <2>3
<1>6. Parent(k) \in 0..(n - 1) /\ Parent(k) < k
  BY <1>5, ParentIs
<1>7. p[Parent(k)] <= p[k]
  BY <1>5 DEF Ordered
<1>8. Parent(k) \in Earlier
  BY <1>5, <1>6, <1>7
<1> QED  BY <1>4, <1>6, <1>8

-----------------------------------------------------------------------------
(* What Swap, Push and Pop do                                               *)

Used == [task : Task, index : Nat]

(* The part of PositionsKnown that is about the array and the items.        *)
HeapOK(h) ==
    /\ Size(h) \in Nat /\ DOMAIN h.pq = 0..(Size(h) - 1)
    /\ \A i \in DOMAIN h.pq : h.pq[i] \in Items
    /\ \A i, j \in DOMAIN h.pq : h.pq[i] = h.pq[j] => i = j
    /\ h.item \in [Items -> Used \cup {FreeItem}]
    /\ \A i \in DOMAIN h.pq : h.item[h.pq[i]] \in Used /\ h.item[h.pq[i]].index = i

LEMMA UsedIsNotFree == \A x \in Used : x # FreeItem /\ x.task \in Task /\ x.task.execTime \in Nat
<1> TAKE x \in Used
<1>1. x.index \in Nat /\ x.task \in Task
  BY DEF Used
<1>2. FreeItem.index = -1
  BY DEF FreeItem
<1>3. x.task.execTime \in Nat
  BY <1>1, ExecTimesAssumption DEF Task
<1> QED  BY <1>1, <1>2, <1>3

LEMMA PositionsAreHeapOK ==
    PositionsKnown <=>
        /\ HeapOK(heap)
        /\ index \in [Ids -> Items \cup {Nil}] /\ run \in Run /\ doubled \subseteq Ids
        /\ \A id \in Ids : index[id] # Nil =>
              index[id] \in InHeap(heap) /\ heap.item[index[id]].task.id = id
  BY UsedIsNotFree DEF PositionsKnown, TypeOK, HeapOK, Used

LEMMA SizeIs ==
    ASSUME NEW n \in Nat, NEW h, DOMAIN h.pq = 0..(n - 1) PROVE Size(h) = n
<1>1. Cardinality(0..(n - 1)) = n
  BY FS_Interval
<1> QED  BY <1>1 DEF Size

LEMMA KeysType == ASSUME NEW h, HeapOK(h) PROVE Keys(h) \in [0..(Size(h) - 1) -> Nat]
  BY UsedIsNotFree DEF HeapOK, Keys

(* Less compares the keys.                                                  *)
LEMMA LessIs ==
    ASSUME NEW h, HeapOK(h), NEW i \in DOMAIN h.pq, NEW j \in DOMAIN h.pq
    PROVE  Less(h, i, j) <=> Keys(h)[i] < Keys(h)[j]
  BY Zenon DEF Less, Keys

(* The tasks of the items stay; two of them change places.                  *)
LEMMA SwapResult ==
    ASSUME NEW h, HeapOK(h), NEW i \in DOMAIN h.pq, NEW j \in DOMAIN h.pq
    PROVE  LET g == Swap(h, i, j)
           IN  /\ HeapOK(g) /\ Size(g) = Size(h) /\ DOMAIN g.pq = DOMAIN h.pq
               /\ InHeap(g) = InHeap(h)
               /\ g.pq = [h.pq EXCEPT ![i] = h.pq[j], ![j] = h.pq[i]]
               /\ \A x \in Items : g.item[x].task = h.item[x].task
               /\ Exchanged(Keys(g), Keys(h), Size(h), i, j)
<1> DEFINE g == Swap(h, i, j)
           a == h.pq[i]
           b == h.pq[j]
<1>1. /\ a \in Items /\ b \in Items /\ (a = b => i = j)
      /\ h.item[a] \in Used /\ h.item[b] \in Used
      /\ h.item \in [Items -> Used \cup {FreeItem}]
      /\ \A k \in DOMAIN h.pq : h.pq[k] \in Items
      /\ \A k, l \in DOMAIN h.pq : h.pq[k] = h.pq[l] => k = l
      /\ \A k \in DOMAIN h.pq : h.item[h.pq[k]] \in Used /\ h.item[h.pq[k]].index = k
      /\ DOMAIN h.pq = 0..(Size(h) - 1) /\ Size(h) \in Nat
  BY DEF HeapOK
<1>2. /\ DOMAIN g.pq = DOMAIN h.pq
      /\ g.pq[i] = b /\ g.pq[j] = a
      /\ \A k \in DOMAIN h.pq : k # i /\ k # j => g.pq[k] = h.pq[k]
      /\ g.pq = [h.pq EXCEPT ![i] = h.pq[j], ![j] = h.pq[i]]
  BY DEF Swap
<1>3. /\ DOMAIN g.item = Items
      /\ g.item[b] = [task |-> h.item[b].task, index |-> i]
      /\ g.item[a] = [task |-> h.item[a].task, index |-> j]
      /\ \A x \in Items : x # a /\ x # b => g.item[x] = h.item[x]
  <2>1. h.item[b] = [task |-> h.item[b].task, index |-> h.item[b].index]
        /\ h.item[a] = [task |-> h.item[a].task, index |-> h.item[a].index]
    BY <1>1 DEF Used
  <2> QED  BY <1>1, <2>1 DEF Swap
<1> HIDE DEF g, a, b
<1>4. Size(g) = Size(h)
  BY <1>2 DEF Size
<1>5. \A x \in Items : g.item[x].task = h.item[x].task
  BY <1>3
<1>6. \A k \in DOMAIN g.pq : g.item[g.pq[k]] \in Used /\ g.item[g.pq[k]].index = k
  <2> SUFFICES ASSUME NEW k \in DOMAIN g.pq
               PROVE  g.item[g.pq[k]] \in Used /\ g.item[g.pq[k]].index = k
    OBVIOUS
  <2>1. i \in Nat /\ j \in Nat
    BY <1>1
  <2>2. CASE k = i
    BY <1>1, <1>2, <1>3, <2>1, <2>2 DEF Used
  <2>3. CASE k = j
    BY <1>1, <1>2, <1>3, <2>1, <2>3 DEF Used
  <2>4. CASE k # i /\ k # j
    <3>1. g.pq[k] = h.pq[k] /\ k \in DOMAIN h.pq
      BY <1>2, <2>4
    <3>2. h.pq[k] # a /\ h.pq[k] # b
      BY <1>1, <2>4, <3>1 DEF a, b
    <3> QED  BY <1>1, <1>3, <3>1, <3>2
  <2> QED  BY <2>2, <2>3, <2>4
<1>7. \A k, l \in DOMAIN g.pq : g.pq[k] = g.pq[l] => k = l
  BY <1>6
<1>8. g.item \in [Items -> Used \cup {FreeItem}]
  <2>1. \A x \in Items : g.item[x] \in Used \cup {FreeItem}
    BY <1>1, <1>3 DEF Used
  <2>2. g.item = [x \in Items |-> g.item[x]]
    BY <1>1 DEF g, Swap
  <2> QED  BY <2>1, <2>2
<1>9. \A k \in DOMAIN g.pq : g.pq[k] \in Items
  BY <1>1, <1>2
<1>10. HeapOK(g)
  BY <1>1, <1>2, <1>4, <1>6, <1>7, <1>8, <1>9 DEF HeapOK
<1>11. InHeap(g) = InHeap(h)
  BY <1>2 DEF InHeap, a, b
<1>12. Exchanged(Keys(g), Keys(h), Size(h), i, j)
  <2>1. \A k \in DOMAIN g.pq : Keys(g)[k] = h.item[g.pq[k]].task.execTime
    BY <1>5, <1>9 DEF Keys
  <2>2. \A k \in DOMAIN h.pq : Keys(h)[k] = h.item[h.pq[k]].task.execTime
    BY DEF Keys
  <2>3. Keys(h) \in [0..(Size(h) - 1) -> Nat] /\ Keys(g) \in [0..(Size(h) - 1) -> Nat]
    BY <1>4, <1>10, KeysType
  <2>4. /\ Keys(g)[i] = Keys(h)[j] /\ Keys(g)[j] = Keys(h)[i]
        /\ \A k \in DOMAIN h.pq : k # i /\ k # j => Keys(g)[k] = Keys(h)[k]
    <3>1. i \in DOMAIN g.pq /\ j \in DOMAIN g.pq
      BY <1>2
    <3>2. Keys(g)[i] = Keys(h)[j] /\ Keys(g)[j] = Keys(h)[i]
      BY <1>2, <2>1, <2>2, <3>1 DEF a, b
    <3>3. ASSUME NEW k \in DOMAIN h.pq, k # i, k # j PROVE Keys(g)[k] = Keys(h)[k]
      BY <1>2, <2>1, <2>2, <3>3
    <3> QED  BY <3>2, <3>3
  <2> QED  BY <1>1, <2>3, <2>4 DEF Exchanged
<1> QED  BY <1>2, <1>4, <1>5, <1>10, <1>11, <1>12 DEF g

LEMMA PushResult ==
    ASSUME NEW h, HeapOK(h), NEW x \in Items, x \notin InHeap(h), NEW t \in Task
    PROVE  LET g == PushItem(h, x, t)
               n == Size(h)
           IN  /\ HeapOK(g) /\ Size(g) = n + 1 /\ g.pq[n] = x
               /\ InHeap(g) = InHeap(h) \cup {x}
               /\ g.item[x].task = t
               /\ \A y \in Items \ {x} : g.item[y] = h.item[y]
               /\ Keys(g) \in [0..n -> Nat]
               /\ \A i \in 0..(n - 1) : Keys(g)[i] = Keys(h)[i]
<1> DEFINE g == PushItem(h, x, t)
           n == Size(h)
<1>1. /\ n \in Nat /\ DOMAIN h.pq = 0..(n - 1)
      /\ \A k \in DOMAIN h.pq : h.pq[k] \in Items
      /\ \A k, l \in DOMAIN h.pq : h.pq[k] = h.pq[l] => k = l
      /\ h.item \in [Items -> Used \cup {FreeItem}]
      /\ \A k \in DOMAIN h.pq : h.item[h.pq[k]] \in Used /\ h.item[h.pq[k]].index = k
      /\ \A k \in DOMAIN h.pq : h.pq[k] # x
  BY DEF HeapOK, InHeap
<1>2. /\ DOMAIN g.pq = 0..n /\ g.pq[n] = x
      /\ \A k \in 0..(n - 1) : g.pq[k] = h.pq[k]
  BY <1>1 DEF PushItem
<1>3. /\ g.item[x] = [task |-> t, index |-> n]
      /\ \A y \in Items : y # x => g.item[y] = h.item[y]
      /\ DOMAIN g.item = Items /\ g.item = [y \in Items |-> g.item[y]]
  BY <1>1 DEF PushItem
<1> HIDE DEF g, n
<1>4. Size(g) = n + 1
  BY <1>1, <1>2, SizeIs
<1>5. \A k \in DOMAIN g.pq :
          g.pq[k] \in Items /\ g.item[g.pq[k]] \in Used /\ g.item[g.pq[k]].index = k
  <2> SUFFICES ASSUME NEW k \in DOMAIN g.pq
               PROVE  g.pq[k] \in Items /\ g.item[g.pq[k]] \in Used /\ g.item[g.pq[k]].index = k
    OBVIOUS
  <2>1. CASE k = n
    BY <1>1, <1>2, <1>3, <2>1 DEF Used
  <2>2. CASE k # n
    BY <1>1, <1>2, <1>3, <2>2
  <2> QED  BY <2>1, <2>2
<1>6. g.item \in [Items -> Used \cup {FreeItem}]
  <2>1. g.item[x] \in Used
    BY <1>1, <1>3 DEF Used
  <2> QED  BY <1>1, <1>3, <2>1
<1>7. HeapOK(g)
  <2>1. Size(g) \in Nat /\ DOMAIN g.pq = 0..(Size(g) - 1)
    BY <1>1, <1>2, <1>4
  <2>2. \A k, l \in DOMAIN g.pq : g.pq[k] = g.pq[l] => k = l
    BY <1>5
  <2> QED  BY <1>5, <1>6, <2>1, <2>2 DEF HeapOK
<1>8. InHeap(g) = InHeap(h) \cup {x}
  BY <1>1, <1>2 DEF InHeap
<1>9. \A i \in 0..(n - 1) : Keys(g)[i] = Keys(h)[i]
  BY <1>1, <1>2, <1>3 DEF Keys
<1>10. Keys(g) \in [0..n -> Nat]
  <2>1. Keys(g) \in [0..(Size(g) - 1) -> Nat]
    BY <1>7, KeysType
  <2> QED  BY <1>1, <1>4, <2>1
<1>11. g.item[x].task = t /\ \A y \in Items \ {x} : g.item[y] = h.item[y]
  BY <1>3
<1> QED  BY <1>2, <1>4, <1>7, <1>8, <1>9, <1>10, <1>11, Zenon DEF g, n

LEMMA PopResult ==
    ASSUME NEW h, HeapOK(h), Size(h) > 0
    PROVE  LET g == PopItem(h)
               n == Size(h) - 1
           IN  /\ HeapOK(g) /\ Size(g) = n
               /\ LastItem(h) \in InHeap(h) /\ InHeap(g) = InHeap(h) \ {LastItem(h)}
               /\ \A y \in Items \ {LastItem(h)} : g.item[y] = h.item[y]
               /\ Keys(g) \in [0..(n - 1) -> Nat]
               /\ \A i \in 0..(n - 1) : Keys(g)[i] = Keys(h)[i]
<1> DEFINE g == PopItem(h)
           n == Size(h) - 1
           x == LastItem(h)
<1>1. /\ n \in Nat /\ DOMAIN h.pq = 0..n
      /\ \A k \in DOMAIN h.pq : h.pq[k] \in Items
      /\ \A k, l \in DOMAIN h.pq : h.pq[k] = h.pq[l] => k = l
      /\ h.item \in [Items -> Used \cup {FreeItem}]
      /\ \A k \in DOMAIN h.pq : h.item[h.pq[k]] \in Used /\ h.item[h.pq[k]].index = k
      /\ x \in Items /\ x = h.pq[n]
  <2>1. n \in Nat /\ DOMAIN h.pq = 0..n /\ n \in DOMAIN h.pq
    BY DEF HeapOK
  <2> HIDE DEF n
  <2>2. x = h.pq[n]
    BY DEF LastItem, n
  <2> QED  BY <2>1, <2>2 DEF HeapOK
<1>2. DOMAIN g.pq = 0..(n - 1) /\ \A k \in 0..(n - 1) : g.pq[k] = h.pq[k]
  <2>1. g.pq = [i \in 0..(Size(h) - 2) |-> h.pq[i]]
    BY DEF PopItem
  <2>2. Size(h) - 2 = n - 1
    BY DEF HeapOK
  <2> QED  BY <2>1, <2>2
<1>3. /\ g.item[x] = FreeItem
      /\ \A y \in Items : y # x => g.item[y] = h.item[y]
      /\ DOMAIN g.item = Items /\ g.item = [y \in Items |-> g.item[y]]
  BY <1>1 DEF PopItem
<1> HIDE DEF g, n, x
<1>4. Size(g) = n
  BY <1>1, <1>2, SizeIs
<1>5. \A k \in DOMAIN g.pq :
          g.pq[k] \in Items /\ g.pq[k] # x /\ g.item[g.pq[k]] = h.item[h.pq[k]]
  BY <1>1, <1>2, <1>3
<1>6. g.item \in [Items -> Used \cup {FreeItem}]
  BY <1>1, <1>3
<1>7. HeapOK(g)
  <2>1. Size(g) \in Nat /\ DOMAIN g.pq = 0..(Size(g) - 1)
    BY <1>1, <1>2, <1>4
  <2>2. \A k, l \in DOMAIN g.pq : g.pq[k] = g.pq[l] => k = l
    BY <1>1, <1>2
  <2> QED  BY <1>1, <1>2, <1>5, <1>6, <2>1, <2>2 DEF HeapOK
<1>8. x \in InHeap(h) /\ InHeap(g) = InHeap(h) \ {x}
  BY <1>1, <1>2 DEF InHeap
<1>9. \A i \in 0..(n - 1) : Keys(g)[i] = Keys(h)[i]
  BY <1>1, <1>2, <1>5 DEF Keys
<1>10. Keys(g) \in [0..(n - 1) -> Nat]
  BY <1>4, <1>7, KeysType
<1>11. \A y \in Items \ {x} : g.item[y] = h.item[y]
  BY <1>3
<1> QED  BY <1>4, <1>7, <1>8, <1>9, <1>10, <1>11, Zenon DEF g, n, x

-----------------------------------------------------------------------------
(* Types, positions and order                                               *)

(* Of the tasks with one id there is a latest.                              *)
LEMMA LatestExists ==
    ASSUME NEW n \in Nat, NEW tasks, DOMAIN tasks = 1..n, NEW id,
           \E i \in DOMAIN tasks : tasks[i].id = id
    PROVE  LET i == Latest(tasks, id)
           IN  /\ i \in DOMAIN tasks /\ tasks[i].id = id
               /\ \A j \in DOMAIN tasks : tasks[j].id = id => j <= i
<1> DEFINE Rest == {n - i : i \in {j \in 1..n : tasks[j].id = id}}
<1>1. Rest # {} /\ Rest \subseteq Nat
  OBVIOUS
<1>2. PICK k \in Rest : \A j \in Rest : <<j, k>> \notin OpToRel(<, Nat)
  BY <1>1, NatLessThanWellFounded, WFMin, Zenon
<1>3. k \in Nat /\ \A j \in Rest : ~(j < k)
  BY <1>1, <1>2 DEF OpToRel
<1>4. PICK i \in 1..n : tasks[i].id = id /\ k = n - i
  BY <1>2
<1>5. \A j \in DOMAIN tasks : tasks[j].id = id => j <= i
  <2> SUFFICES ASSUME NEW j \in 1..n, tasks[j].id = id PROVE j <= i
    OBVIOUS
  <2>1. n - j \in Rest
    OBVIOUS
  <2>2. ~(n - j < n - i)
    BY <1>3, <1>4, <2>1
  <2> HIDE DEF Rest
  <2> QED  BY <2>2
<1> QED  BY <1>4, <1>5 DEF Latest

LEMMA PositionsAreHeapOKThen ==
    PositionsKnown' <=>
        /\ HeapOK(heap')
        /\ index' \in [Ids -> Items \cup {Nil}] /\ run' \in Run /\ doubled' \subseteq Ids
        /\ \A id \in Ids : index'[id] # Nil =>
              index'[id] \in InHeap(heap') /\ heap'.item[index'[id]].task.id = id
  BY UsedIsNotFree DEF PositionsKnown, TypeOK, HeapOK, Used, Size, InHeap

LEMMA LimitIs ==
    ASSUME HeapInv
    PROVE  /\ Size(heap) \in Nat /\ DOMAIN heap.pq = 0..(Size(heap) - 1)
           /\ Limit \in Int /\ Limit <= Size(heap)
           /\ Size(heap) > 0 \/ run.method \notin {"take", "delete"} => Limit \in Nat
           /\ run.method \in {"take", "delete"} => Limit = Size(heap) - 1 /\ Limit \in Nat
           /\ run.method \notin {"take", "delete"} => Limit = Size(heap)
           /\ Keys(heap) \in [0..(Size(heap) - 1) -> Nat]
<1>1. HeapOK(heap)
  BY PositionsAreHeapOK DEF HeapInv
<1>2. run.method \in {"take", "delete"} => Size(heap) > 0
  BY DEF HeapInv, RunInv
<1>3. /\ Size(heap) \in Nat /\ DOMAIN heap.pq = 0..(Size(heap) - 1)
      /\ Keys(heap) \in [0..(Size(heap) - 1) -> Nat]
  BY <1>1, KeysType DEF HeapOK
<1>4. Limit = IF run.method \in {"take", "delete"} THEN Size(heap) - 1 ELSE Size(heap)
  BY DEF Limit
<1> QED  BY <1>2, <1>3, <1>4

(* The initial list: nothing above its leaves is in order yet.              *)
LEMMA HeapInvInit == Init => HeapInv
<1> SUFFICES ASSUME Init PROVE HeapInv
  OBVIOUS
<1>1. PICK tasks \in InitialLists : \E xs \in Injections(Len(tasks)) : New(tasks, xs)
  BY DEF Init
<1>2. PICK xs \in Injections(Len(tasks)) : New(tasks, xs)
  BY <1>1
<1> DEFINE n == Len(tasks)
<1>3. /\ tasks \in Seq(Task) /\ n \in Nat /\ DOMAIN tasks = 1..n
      /\ \A i \in 1..n : tasks[i] \in Task
  BY InitialListsAssumption
<1>4. xs \in [1..n -> Items] /\ \A i, j \in 1..n : xs[i] = xs[j] => i = j
  BY <1>2 DEF Injections
<1>5. /\ DOMAIN heap.pq = 0..(n - 1) /\ \A i \in 0..(n - 1) : heap.pq[i] = xs[i + 1]
      /\ heap.item = Unordered(tasks, xs).item
  BY <1>2 DEF New, Unordered
<1>6. Size(heap) = n
  BY <1>3, <1>5, SizeIs
<1>7. \A i \in 1..n : /\ heap.item[xs[i]].task = tasks[i]
                      /\ heap.item[xs[i]].index = i - 1 /\ heap.item[xs[i]] \in Used
  <2> SUFFICES ASSUME NEW i \in 1..n
               PROVE  /\ heap.item[xs[i]].task = tasks[i]
                      /\ heap.item[xs[i]].index = i - 1 /\ heap.item[xs[i]] \in Used
    OBVIOUS
  <2>1. (CHOOSE j \in DOMAIN tasks : xs[j] = xs[i]) = i
    BY <1>3, <1>4
  <2>2. xs[i] \in Items /\ \E j \in DOMAIN tasks : xs[j] = xs[i]
    BY <1>3, <1>4
  <2>3. heap.item[xs[i]] = [task |-> tasks[i], index |-> i - 1]
    BY <1>5, <2>1, <2>2 DEF Unordered
  <2>4. tasks[i] \in Task /\ i - 1 \in Nat
    BY <1>3
  <2> QED  BY <2>3, <2>4 DEF Used
<1>8. heap.item \in [Items -> Used \cup {FreeItem}]
  <2>1. DOMAIN heap.item = Items /\ heap.item = [x \in Items |-> heap.item[x]]
    BY <1>5 DEF Unordered
  <2>2. ASSUME NEW x \in Items PROVE heap.item[x] \in Used \cup {FreeItem}
    <3>1. CASE \E i \in 1..n : xs[i] = x
      BY <1>7, <3>1
    <3>2. CASE ~\E i \in 1..n : xs[i] = x
      BY <1>3, <1>5, <3>2 DEF Unordered
    <3> QED  BY <3>1, <3>2
  <2> QED  BY <2>1, <2>2
<1>9. HeapOK(heap)
  <2>1. ASSUME NEW i \in DOMAIN heap.pq
        PROVE  /\ heap.pq[i] \in Items
               /\ heap.item[heap.pq[i]] \in Used /\ heap.item[heap.pq[i]].index = i
    <3>1. i + 1 \in 1..n /\ heap.pq[i] = xs[i + 1] /\ i \in Nat
      BY <1>3, <1>5
    <3> QED  BY <1>4, <1>7, <3>1
  <2>2. \A i, j \in DOMAIN heap.pq : heap.pq[i] = heap.pq[j] => i = j
    BY <2>1
  <2> QED  BY <1>3, <1>5, <1>6, <1>8, <2>1, <2>2 DEF HeapOK
<1>10. \A id \in Ids : (\E i \in DOMAIN tasks : tasks[i].id = id) =>
          Latest(tasks, id) \in DOMAIN tasks /\ tasks[Latest(tasks, id)].id = id
  BY <1>3, LatestExists
<1>11. /\ index \in [Ids -> Items \cup {Nil}]
       /\ \A id \in Ids : index[id] # Nil =>
             index[id] \in InHeap(heap) /\ heap.item[index[id]].task.id = id
  <2>1. index = [id \in Ids |-> IF \E i \in DOMAIN tasks : tasks[i].id = id
                                THEN xs[Latest(tasks, id)] ELSE Nil]
    BY <1>2 DEF New
  <2>2. ASSUME NEW i \in 1..n PROVE xs[i] \in InHeap(heap) /\ xs[i] \in Items
    <3>1. i - 1 \in DOMAIN heap.pq /\ heap.pq[i - 1] = xs[i]
      BY <1>3, <1>5
    <3> QED  BY <1>4, <3>1 DEF InHeap
  <2>3. ASSUME NEW id \in Ids, index[id] # Nil
        PROVE  index[id] \in InHeap(heap) /\ heap.item[index[id]].task.id = id
    <3>1. Latest(tasks, id) \in 1..n /\ tasks[Latest(tasks, id)].id = id
          /\ index[id] = xs[Latest(tasks, id)]
      BY <1>3, <1>10, <2>1, <2>3
    <3> QED  BY <1>7, <2>2, <3>1
  <2>4. ASSUME NEW id \in Ids PROVE index[id] \in Items \cup {Nil}
    BY <1>3, <1>10, <2>1, <2>2
  <2> QED  BY <2>1, <2>3, <2>4
<1>12. run = SinkNode((n \div 2) - 1) /\ run \in Run
  BY <1>2, <1>3 DEF New, SinkNode, Start, Run
<1>13. PositionsKnown
  BY <1>9, <1>11, <1>12, PositionsAreHeapOK DEF Init
<1>14. Limit = n
  BY <1>6, <1>12 DEF Limit, SinkNode, Start
<1>15. RunInv
  BY <1>3, <1>5, <1>12, <1>14 DEF RunInv, SinkNode, Start
<1>16. OrderInv
  <2>1. run.loop = "none" => Ordered(Keys(heap), n)
    BY <1>3, <1>12 DEF SinkNode, Start, Ordered
  <2>2. run.loop = "down" => Sinking(Keys(heap), n, Low, run.from, run.at)
    <3> SUFFICES ASSUME run.loop = "down" PROVE Sinking(Keys(heap), n, Low, run.from, run.at)
      OBVIOUS
    <3> DEFINE i == (n \div 2) - 1
    <3>1. Low = i /\ run.from = i /\ run.at = i /\ i \in Nat
      BY <1>3, <1>12 DEF Low, SinkNode, Start
    <3>2. \A k \in 1..(n - 1) : Parent(k) <= i
      BY <1>3 DEF Parent
    <3>3. i > 0 => Parent(i) < i
      BY <3>1, ParentIs
    <3> HIDE DEF i
    <3> QED  BY <3>1, <3>2, <3>3, ParentIs DEF Sinking
  <2> QED  BY <1>12, <1>14, <2>1, <2>2 DEF OrderInv, SinkNode, Start
<1> QED  BY <1>13, <1>15, <1>16 DEF HeapInv

(* A turn of a loop exchanges two items of the heap and moves "at".         *)
LEMMA TurnKeeps ==
    ASSUME HeapInv, run.loop # "none",
           NEW i \in 0..(Limit - 1), NEW j \in 0..(Limit - 1), NEW k \in 0..(Limit - 1),
           run.loop = "down" => run.from <= k,
           heap' = Swap(heap, i, j), run' = [run EXCEPT !.at = k],
           UNCHANGED <<index, doubled>>
    PROVE  /\ PositionsKnown' /\ RunInv' /\ Limit' = Limit
           /\ Exchanged(Keys(heap'), Keys(heap), Size(heap), i, j)
<1>1. /\ HeapOK(heap) /\ run \in Run /\ RunInv
      /\ index \in [Ids -> Items \cup {Nil}] /\ doubled \subseteq Ids
      /\ \A id \in Ids : index[id] # Nil =>
            index[id] \in InHeap(heap) /\ heap.item[index[id]].task.id = id
  BY PositionsAreHeapOK DEF HeapInv
<1>2. /\ Size(heap) \in Nat /\ DOMAIN heap.pq = 0..(Size(heap) - 1)
      /\ Limit \in Int /\ Limit <= Size(heap)
      /\ Keys(heap) \in [0..(Size(heap) - 1) -> Nat]
      /\ run.method \in {"take", "delete"} => Limit = Size(heap) - 1
  BY LimitIs
<1>3. i \in DOMAIN heap.pq /\ j \in DOMAIN heap.pq /\ k \in DOMAIN heap.pq
  BY <1>2
<1>4. /\ HeapOK(heap') /\ Size(heap') = Size(heap) /\ DOMAIN heap'.pq = DOMAIN heap.pq
      /\ InHeap(heap') = InHeap(heap)
      /\ heap'.pq = [heap.pq EXCEPT ![i] = heap.pq[j], ![j] = heap.pq[i]]
      /\ \A x \in Items : heap'.item[x].task = heap.item[x].task
      /\ Exchanged(Keys(heap'), Keys(heap), Size(heap), i, j)
  BY <1>1, <1>3, SwapResult
<1>5. /\ run' \in Run /\ run'.method = run.method /\ run'.arg = run.arg /\ run'.at = k
      /\ run'.loop = run.loop /\ run'.from = run.from /\ index' = index /\ doubled' = doubled
  BY <1>1, <1>2 DEF Run
<1>6. Limit' = Limit
  BY <1>4, <1>5 DEF Limit
<1>7. PositionsKnown'
  <2>1. \A id \in Ids : index[id] # Nil => index[id] \in Items
    BY <1>1
  <2> QED  BY <1>1, <1>4, <1>5, <2>1, PositionsAreHeapOKThen
<1>8. RunInv'
  <2>1. ASSUME run.method \in {"take", "delete"}
        PROVE  /\ Size(heap) - 1 \in DOMAIN heap.pq
               /\ heap'.pq[Size(heap) - 1] = heap.pq[Size(heap) - 1]
               /\ Keys(heap')[Size(heap) - 1] = Keys(heap)[Size(heap) - 1]
    <3>1. Size(heap) - 1 # i /\ Size(heap) - 1 # j /\ Size(heap) - 1 \in DOMAIN heap.pq
      BY <1>1, <1>2, <2>1 DEF RunInv
    <3> QED  BY <1>2, <1>4, <3>1 DEF Exchanged
  <2>2. run.method # "idle"
    BY <1>1, <1>5 DEF RunInv, Idle, Start
  <2>3. run.method = "delete" => LastItem(heap') = LastItem(heap)
    BY <1>4, <2>1 DEF LastItem
  <2>4. ASSUME run.method = "take", NEW l \in DOMAIN heap.pq
        PROVE  Keys(heap')[Size(heap) - 1] <= Keys(heap')[l]
    <3>1. \A o \in DOMAIN heap.pq : Keys(heap)[Size(heap) - 1] <= Keys(heap)[o]
      BY <1>1, <2>4 DEF RunInv
    <3>2. Keys(heap')[l] \in {Keys(heap)[i], Keys(heap)[j], Keys(heap)[l]}
      BY <1>2, <1>4 DEF Exchanged
    <3> QED  BY <1>3, <2>1, <2>4, <3>1, <3>2
  <2> QED  BY <1>1, <1>2, <1>3, <1>4, <1>5, <1>6, <2>2, <2>3, <2>4 DEF RunInv
<1> QED  BY <1>4, <1>6, <1>7, <1>8

LEMMA RiseStep == HeapInv /\ Rise => HeapInv'
<1> SUFFICES ASSUME HeapInv, Rise PROVE HeapInv'
  OBVIOUS
<1> DEFINE j == run.at
           i == Parent(run.at)
<1>1. /\ run.loop = "up" /\ Rises /\ heap' = Swap(heap, i, j) /\ run' = [run EXCEPT !.at = i]
      /\ UNCHANGED <<index, doubled>>
  BY DEF Rise
<1>2. /\ Size(heap) \in Nat /\ DOMAIN heap.pq = 0..(Size(heap) - 1)
      /\ Limit \in Nat /\ Limit <= Size(heap)
  <2>1. j \in 0..(Limit - 1)
    BY <1>1 DEF HeapInv, RunInv
  <2> QED  BY <2>1, LimitIs
<1>3. j \in 1..(Limit - 1)
  BY <1>1, <1>2 DEF HeapInv, RunInv, Rises
<1>4. i \in 0..(Limit - 1)
  BY <1>2, <1>3, ParentIs
<1>5. Keys(heap)[j] < Keys(heap)[i]
  <2>1. HeapOK(heap)
    BY PositionsAreHeapOK DEF HeapInv
  <2> QED  BY <1>1, <1>2, <1>3, <1>4, <2>1, LessIs DEF Rises
<1> HIDE DEF i, j
<1>6. /\ PositionsKnown' /\ RunInv' /\ Limit' = Limit
      /\ Exchanged(Keys(heap'), Keys(heap), Size(heap), i, j)
  BY <1>1, <1>3, <1>4, TurnKeeps
<1>7. Rising(Keys(heap'), Limit, i)
  <2>1. Rising(Keys(heap), Limit, j)
    BY <1>1 DEF HeapInv, OrderInv, j
  <2>2. i = Parent(j)
    BY DEF i, j
  <2> QED  BY <1>2, <1>3, <1>5, <1>6, <2>1, <2>2, RiseKeepsOrder
<1>8. run'.loop = "up" /\ run'.at = i
  BY <1>1 DEF HeapInv, PositionsKnown, TypeOK, Run
<1> QED  BY <1>6, <1>7, <1>8 DEF HeapInv, OrderInv

(* The children of the item at "at", and the one that down compares.        *)
LEMMA ChildrenAt ==
    ASSUME HeapInv, run.loop = "down"
    PROVE  LET i == run.at
               j == EarlierChild(i)
               p == Keys(heap)
           IN  /\ i \in DOMAIN heap.pq
               /\ Sinks => i \in 0..(Limit - 1) /\ Chosen(p, Limit, i, j) /\ p[j] < p[i]
               /\ ~Sinks => \A k \in 1..(Limit - 1) : Parent(k) = i => p[i] <= p[k]
<1> DEFINE i == run.at
           j == EarlierChild(i)
           p == Keys(heap)
           m == Limit
<1>1. HeapOK(heap) /\ i \in DOMAIN heap.pq
  BY PositionsAreHeapOK DEF HeapInv, RunInv
<1>2. /\ Size(heap) \in Nat /\ DOMAIN heap.pq = 0..(Size(heap) - 1)
      /\ m \in Int /\ m <= Size(heap) /\ p \in [0..(Size(heap) - 1) -> Nat]
  BY LimitIs
<1>3. j = IF 2 * i + 2 < m /\ Less(heap, 2 * i + 2, 2 * i + 1) THEN 2 * i + 2 ELSE 2 * i + 1
  BY DEF EarlierChild
<1>4. Sinks <=> 2 * i + 1 < m /\ Less(heap, j, i)
  BY DEF Sinks
<1>5. \A k, l \in DOMAIN heap.pq : Less(heap, k, l) <=> p[k] < p[l]
  BY <1>1, LessIs
<1> HIDE DEF i, j, p, m
<1>6. i \in Nat
  BY <1>1, <1>2
<1>7. CASE 2 * i + 1 < m
  <2>1. 2 * i + 1 \in DOMAIN heap.pq /\ i \in 0..(m - 1)
    BY <1>2, <1>6, <1>7
  <2>2. j \in DOMAIN heap.pq /\ j < m /\ j \in {2 * i + 1, 2 * i + 2}
    BY <1>2, <1>3, <1>6, <1>7
  <2>3. ASSUME NEW k \in 1..(m - 1), Parent(k) = i PROVE p[j] <= p[k] /\ p[k] \in Nat
    <3>1. k = 2 * i + 1 \/ k = 2 * i + 2
      BY <1>6, <2>3, ParentIs
    <3>2. k \in DOMAIN heap.pq /\ k < m /\ p[k] \in Nat
      BY <1>2, <2>3
    <3>3. CASE 2 * i + 2 < m
      <4>1. 2 * i + 2 \in DOMAIN heap.pq
        BY <1>2, <1>6, <3>3
      <4>2. p[2 * i + 1] \in Nat /\ p[2 * i + 2] \in Nat
        BY <1>2, <2>1, <4>1
      <4>3. Less(heap, 2 * i + 2, 2 * i + 1) <=> p[2 * i + 2] < p[2 * i + 1]
        BY <1>5, <2>1, <4>1
      <4> QED  BY <1>3, <3>1, <3>2, <3>3, <4>2, <4>3
    <3>4. CASE ~(2 * i + 2 < m)
      BY <1>3, <1>6, <3>1, <3>2, <3>4
    <3> QED  BY <3>2, <3>3, <3>4
  <2>4. Chosen(p, m, i, j)
    BY <2>2, <2>3 DEF Chosen
  <2>5. Sinks <=> p[j] < p[i]
    BY <1>1, <1>4, <1>5, <1>7, <2>2
  <2>6. p[i] \in Nat /\ p[j] \in Nat
    BY <1>1, <1>2, <2>2
  <2>7. ~Sinks => \A k \in 1..(m - 1) : Parent(k) = i => p[i] <= p[k]
    BY <2>3, <2>5, <2>6
  <2> QED  BY <1>1, <2>1, <2>4, <2>5, <2>7 DEF i, j, p, m
<1>8. CASE ~(2 * i + 1 < m)
  <2>1. ~Sinks
    BY <1>4, <1>8
  <2>2. ASSUME NEW k \in 1..(m - 1), Parent(k) = i PROVE FALSE
    <3>1. k = 2 * i + 1 \/ k = 2 * i + 2
      BY <1>6, <2>2, ParentIs
    <3> QED  BY <1>2, <1>6, <1>8, <3>1
  <2> QED  BY <1>1, <2>1, <2>2 DEF i, j, p, m
<1> QED  BY <1>7, <1>8

LEMMA SinkStep == HeapInv /\ Sink => HeapInv'
<1> SUFFICES ASSUME HeapInv, Sink PROVE HeapInv'
  OBVIOUS
<1> DEFINE i == run.at
           j == EarlierChild(run.at)
           p == Keys(heap)
<1>1. /\ run.loop = "down" /\ Sinks /\ heap' = Swap(heap, i, j) /\ run' = [run EXCEPT !.at = j]
      /\ UNCHANGED <<index, doubled>>
  BY DEF Sink
<1>2. i \in 0..(Limit - 1) /\ Chosen(p, Limit, i, j) /\ p[j] < p[i]
  BY <1>1, ChildrenAt
<1>3. /\ Size(heap) \in Nat /\ Limit \in Int /\ Limit <= Size(heap)
      /\ run \in Run /\ run.from \in 0..i
  BY <1>1, LimitIs DEF HeapInv, PositionsKnown, TypeOK, RunInv
<1>4. j \in Nat /\ j \in 0..(Limit - 1) /\ run.from <= j /\ Limit \in 0..Size(heap)
  <2> HIDE DEF i, j, p
  <2> QED  BY <1>2, <1>3 DEF Chosen
<1>5. Sinking(p, Limit, Low, run.from, i) /\ Low \in Int /\ Low <= i
  <2>1. Sinking(p, Limit, Low, run.from, i)
    BY <1>1 DEF HeapInv, OrderInv
  <2>2. Low \in {run.from, 0}
    BY DEF Low
  <2>3. i \in Nat /\ run.from \in Nat /\ run.from <= i
    BY <1>2, <1>3
  <2> QED  BY <2>1, <2>2, <2>3
<1> HIDE DEF i, j
<1>6. /\ PositionsKnown' /\ RunInv' /\ Limit' = Limit
      /\ Exchanged(Keys(heap'), p, Size(heap), i, j)
  BY <1>1, <1>2, <1>4, TurnKeeps
<1>7. Sinking(Keys(heap'), Limit, Low, run.from, j)
  <2> HIDE DEF p
  <2> QED  BY <1>2, <1>3, <1>4, <1>5, <1>6, SinkKeepsOrder
<1>8. run'.loop = "down" /\ run'.at = j /\ run'.from = run.from /\ run'.method = run.method
  BY <1>1, <1>3 DEF Run
<1>9. Low' = Low
  BY <1>8 DEF Low
<1> QED  BY <1>1, <1>6, <1>7, <1>8, <1>9 DEF HeapInv, OrderInv

(* Nothing of the list changes.                                             *)
LEMMA ListStays ==
    ASSUME HeapInv, run' \in Run, UNCHANGED <<heap, index, doubled>> PROVE PositionsKnown'
<1>1. /\ HeapOK(heap) /\ index \in [Ids -> Items \cup {Nil}] /\ doubled \subseteq Ids
      /\ \A id \in Ids : index[id] # Nil =>
            index[id] \in InHeap(heap) /\ heap.item[index[id]].task.id = id
  BY PositionsAreHeapOK DEF HeapInv
<1> QED  BY <1>1, PositionsAreHeapOKThen

LEMMA RiseEndsStep == HeapInv /\ RiseEnds => HeapInv'
<1> SUFFICES ASSUME HeapInv, RiseEnds PROVE HeapInv'
  OBVIOUS
<1>1. /\ run.loop = "up" /\ ~Rises /\ run' = [run EXCEPT !.loop = "none"]
      /\ UNCHANGED <<heap, index, doubled>> /\ run \in Run
  BY DEF RiseEnds, HeapInv, PositionsKnown, TypeOK
<1>2. /\ run' \in Run /\ run'.loop = "none" /\ run'.method = run.method /\ run'.arg = run.arg
  BY <1>1 DEF Run
<1>3. Limit' = Limit
  BY <1>1, <1>2 DEF Limit, Size
<1>4. PositionsKnown'
  BY <1>1, <1>2, ListStays
<1>5. RunInv'
  <2>1. RunInv /\ run.method # "idle"
    BY <1>1 DEF HeapInv, RunInv, Idle, Start
  <2> QED  BY <1>1, <1>2, <2>1 DEF RunInv, Keys, LastItem, InHeap, Size
<1>6. Ordered(Keys(heap), Limit)
  <2>1. run.at \in 0..(Limit - 1) /\ Rising(Keys(heap), Limit, run.at)
    BY <1>1 DEF HeapInv, RunInv, OrderInv
  <2>2. /\ Size(heap) \in Nat /\ DOMAIN heap.pq = 0..(Size(heap) - 1) /\ Limit \in 0..Size(heap)
        /\ Keys(heap) \in [0..(Size(heap) - 1) -> Nat]
    BY <2>1, LimitIs
  <2>3. run.at > 0 => Keys(heap)[Parent(run.at)] <= Keys(heap)[run.at]
    <3> SUFFICES ASSUME run.at > 0 PROVE Keys(heap)[Parent(run.at)] <= Keys(heap)[run.at]
      OBVIOUS
    <3>1. run.at \in DOMAIN heap.pq /\ Parent(run.at) \in DOMAIN heap.pq
      BY <2>1, <2>2, ParentIs
    <3>2. ~(Keys(heap)[run.at] < Keys(heap)[Parent(run.at)])
      BY <1>1, <3>1, LessIs, PositionsAreHeapOK DEF Rises, HeapInv
    <3> QED  BY <2>2, <3>1, <3>2
  <2> QED  BY <2>1, <2>2, <2>3, RiseEndsInOrder
<1> QED  BY <1>1, <1>2, <1>3, <1>4, <1>5, <1>6 DEF HeapInv, OrderInv, Keys

LEMMA SinkEndsStep == HeapInv /\ SinkEnds => HeapInv'
<1> SUFFICES ASSUME HeapInv, SinkEnds PROVE HeapInv'
  OBVIOUS
<1> DEFINE i == run.at
           p == Keys(heap)
<1>1. /\ run.loop = "down" /\ ~Sinks /\ run' = AfterSinking(run)
      /\ UNCHANGED <<heap, index, doubled>> /\ run \in Run
  BY DEF SinkEnds, HeapInv, PositionsKnown, TypeOK
<1>2. /\ Size(heap) \in Nat /\ DOMAIN heap.pq = 0..(Size(heap) - 1)
      /\ Limit \in 0..Size(heap) /\ p \in [0..(Size(heap) - 1) -> Nat]
      /\ i \in 0..(Size(heap) - 1)
  <2>1. i \in DOMAIN heap.pq
    BY <1>1 DEF HeapInv, RunInv
  <2> QED  BY <2>1, LimitIs
<1>3. /\ run.method \in {"new", "delete", "take"} /\ run.from \in 0..i
      /\ run.method = "take" => run.from = 0
      /\ run.method # "take" => i < Limit
  BY <1>1 DEF HeapInv, RunInv
<1>4. Low \in Int /\ Sinking(p, Limit, Low, run.from, i)
  BY <1>1, <1>3 DEF HeapInv, OrderInv, Low
<1>5. \A k \in 1..(Limit - 1) : Parent(k) = i => p[i] <= p[k]
  BY <1>1, ChildrenAt
<1>6. /\ \A k \in 1..(Limit - 1) : Parent(k) >= Low /\ (k = i => i # run.from) => p[Parent(k)] <= p[k]
      /\ Low = 0 /\ i = run.from => Rising(p, Limit, i)
      /\ Low = 0 /\ (i # run.from \/ i = 0) => Ordered(p, Limit)
  <2> HIDE DEF i, p
  <2> QED  BY <1>2, <1>3, <1>4, <1>5, SinkEndsInOrder
<1>7. UNCHANGED p
  BY <1>1 DEF Keys
<1>8. CASE run.method = "new"
  <2> DEFINE f == run.from - 1
  <2>1. run' = SinkNode(f) /\ Low = run.from /\ f \in Int
    BY <1>1, <1>3, <1>8 DEF AfterSinking, Low
  <2>2. /\ run' \in Run /\ run'.method = "new" /\ run'.from = f /\ run'.at = f
        /\ run'.loop = IF f < 0 THEN "none" ELSE "down"
    BY <2>1 DEF SinkNode, Start, Run
  <2>3. Limit' = Limit
    BY <1>1, <1>8, <2>2 DEF Limit, Size
  <2>4. PositionsKnown'
    BY <1>1, <2>2, ListStays
  <2>5. RunInv'
    BY <1>1, <1>2, <1>3, <1>8, <2>2, <2>3 DEF RunInv
  <2>6. \A k \in 1..(Limit - 1) : Parent(k) >= run.from => p[Parent(k)] <= p[k]
    <3> SUFFICES ASSUME NEW k \in 1..(Limit - 1), Parent(k) >= run.from PROVE p[Parent(k)] <= p[k]
      OBVIOUS
    <3>1. k # run.from
      BY <1>2, <1>3, ParentIs
    <3> QED  BY <1>6, <2>1, <3>1
  <2>7. CASE f < 0
    <3>1. \A k \in 1..(Limit - 1) : Parent(k) >= run.from
      BY <1>2, <1>3, <2>7, ParentIs
    <3>2. Ordered(p, Limit)
      BY <2>6, <3>1 DEF Ordered
    <3> QED  BY <1>7, <2>2, <2>3, <2>4, <2>5, <2>7, <3>2 DEF HeapInv, OrderInv
  <2>8. CASE f >= 0
    <3>1. f \in Nat /\ (f > 0 => Parent(f) < f)
      BY <2>1, <2>8, ParentIs
    <3>2. \A k \in 1..(Limit - 1) : Parent(k) \in Nat
      BY <1>2, ParentIs
    <3>3. Sinking(p, Limit, f, f, f)
      <4> HIDE DEF p
      <4>1. run.from = f + 1
        BY <1>3
      <4> HIDE DEF f
      <4>2. ASSUME NEW k \in 1..(Limit - 1), Parent(k) >= f, Parent(k) # f
            PROVE  p[Parent(k)] <= p[k]
        BY <2>6, <3>1, <3>2, <4>1, <4>2
      <4>3. f > 0 => ~(Parent(f) >= f)
        BY <3>1, ParentIs
      <4> QED  BY <3>1, <4>2, <4>3 DEF Sinking
    <3>4. Low' = f
      BY <2>2 DEF Low
    <3> QED  BY <1>7, <2>2, <2>3, <2>4, <2>5, <2>8, <3>3, <3>4 DEF HeapInv, OrderInv
  <2> QED  BY <2>1, <2>7, <2>8
<1>9. CASE run.method # "new"
  <2>1. /\ run' \in Run /\ run'.method = run.method /\ run'.arg = run.arg
        /\ run'.from = run.from /\ run'.at = i
        /\ run'.loop = IF run.method = "delete" /\ i = run.from THEN "up" ELSE "none"
    BY <1>1, <1>9 DEF AfterSinking, Run
  <2>2. Limit' = Limit
    BY <1>1, <2>1 DEF Limit, Size
  <2>3. PositionsKnown'
    BY <1>1, <2>1, ListStays
  <2>4. RunInv'
    <3>1. RunInv
      BY DEF HeapInv
    <3>2. UNCHANGED <<Keys(heap), LastItem(heap), InHeap(heap), Size(heap)>>
      BY <1>1
    <3>3. run.method \in {"delete", "take"}
      BY <1>3, <1>9
    <3>4. run'.loop = "up" => run'.method = "delete" /\ run'.at \in 0..(Limit' - 1)
      BY <1>2, <1>3, <2>1, <2>2
    <3>5. run'.loop # "down"
      BY <2>1
    <3> QED  BY <1>1, <2>1, <3>1, <3>2, <3>3, <3>4, <3>5 DEF RunInv
  <2>5. Low = 0
    BY <1>9 DEF Low
  <2>6. OrderInv'
    BY <1>2, <1>3, <1>6, <1>7, <1>9, <2>1, <2>2, <2>5 DEF OrderInv
  <2> QED  BY <2>3, <2>4, <2>6 DEF HeapInv
<1> QED  BY <1>8, <1>9

LEMMA IdleRun == Idle \in Run /\ Idle.method = "idle" /\ Idle.loop = "none"
  BY DEF Idle, Start, Run

LEMMA NewReturnsStep == HeapInv /\ NewReturns => HeapInv'
<1> SUFFICES ASSUME HeapInv, NewReturns PROVE HeapInv'
  OBVIOUS
<1>1. /\ run.method = "new" /\ run.loop = "none" /\ run' = Idle
      /\ UNCHANGED <<heap, index, doubled>>
  BY DEF NewReturns
<1>2. PositionsKnown'
  BY <1>1, ListStays, IdleRun
<1>3. RunInv'
  BY <1>1, IdleRun DEF RunInv
<1>4. Limit' = Limit
  BY <1>1, IdleRun DEF Limit, Size
<1>5. Ordered(Keys(heap), Limit)
  BY <1>1 DEF HeapInv, OrderInv
<1> QED  BY <1>1, <1>2, <1>3, <1>4, <1>5, IdleRun DEF HeapInv, OrderInv

(* Between two methods the whole heap is in order.                          *)
LEMMA IdleHeap ==
    ASSUME HeapInv, run = Idle
    PROVE  /\ HeapOK(heap) /\ Size(heap) \in Nat /\ DOMAIN heap.pq = 0..(Size(heap) - 1)
           /\ Limit = Size(heap) /\ Ordered(Keys(heap), Size(heap))
           /\ Keys(heap) \in [0..(Size(heap) - 1) -> Nat]
           /\ index \in [Ids -> Items \cup {Nil}] /\ doubled \subseteq Ids
           /\ \A id \in Ids : index[id] # Nil =>
                 index[id] \in InHeap(heap) /\ heap.item[index[id]].task.id = id
<1>1. /\ HeapOK(heap) /\ index \in [Ids -> Items \cup {Nil}] /\ doubled \subseteq Ids
      /\ \A id \in Ids : index[id] # Nil =>
            index[id] \in InHeap(heap) /\ heap.item[index[id]].task.id = id
  BY PositionsAreHeapOK DEF HeapInv
<1>2. Limit = Size(heap) /\ Ordered(Keys(heap), Limit)
  BY IdleRun DEF HeapInv, OrderInv, Limit
<1> QED  BY <1>1, <1>2, KeysType DEF HeapOK

LEMMA AddTaskStep == ASSUME NEW t \in Task, HeapInv, AddTask(t) PROVE HeapInv'
<1> DEFINE n == Size(heap)
           p == Keys(heap)
           q == Keys(heap')
<1>1. PICK x \in Items : /\ IsFree(x) /\ heap' = PushItem(heap, x, t)
                         /\ run' = Start("add", x, "up", n)
  BY DEF AddTask
<1>2. run = Idle /\ index' = index /\ doubled' \subseteq Ids
  BY IdleHeap DEF AddTask, Task
<1>3. /\ HeapOK(heap) /\ n \in Nat /\ Ordered(p, n) /\ p \in [0..(n - 1) -> Nat]
      /\ index \in [Ids -> Items \cup {Nil}]
      /\ \A id \in Ids : index[id] # Nil =>
            index[id] \in InHeap(heap) /\ heap.item[index[id]].task.id = id
  BY <1>2, IdleHeap
<1>4. /\ HeapOK(heap') /\ Size(heap') = n + 1 /\ heap'.pq[n] = x
      /\ InHeap(heap') = InHeap(heap) \cup {x} /\ heap'.item[x].task = t
      /\ \A y \in Items \ {x} : heap'.item[y] = heap.item[y]
      /\ q \in [0..n -> Nat] /\ \A i \in 0..(n - 1) : q[i] = p[i]
  <2>1. x \notin InHeap(heap)
    BY <1>1 DEF IsFree
  <2> QED  BY <1>1, <1>3, <2>1, PushResult
<1>5. /\ run' \in Run /\ run'.method = "add" /\ run'.arg = x /\ run'.loop = "up" /\ run'.at = n
  BY <1>1, <1>3 DEF Start, Run
<1>6. \A id \in Ids : index[id] # x
  BY <1>1 DEF IsFree
<1>7. PositionsKnown'
  <2>1. \A id \in Ids : index[id] # Nil => index[id] \in Items \ {x}
    BY <1>3, <1>6
  <2> QED  BY <1>2, <1>3, <1>4, <1>5, <2>1, PositionsAreHeapOKThen
<1>8. Limit' = n + 1
  BY <1>4, <1>5 DEF Limit
<1>9. RunInv'
  BY <1>2, <1>3, <1>4, <1>5, <1>6, <1>8 DEF RunInv
<1>10. Rising(q, n + 1, n)
  <2> HIDE DEF n, p, q
  <2>1. ASSUME NEW k \in 1..n, k # n PROVE q[Parent(k)] <= q[k]
    <3>1. k \in 0..(n - 1) /\ Parent(k) \in 0..(n - 1) /\ k \in 1..(n - 1)
      BY <1>3, <2>1, ParentIs
    <3> QED  BY <1>3, <1>4, <3>1 DEF Ordered
  <2>2. ASSUME NEW k \in 1..n PROVE Parent(k) # n
    BY <1>3, ParentIs
  <2> QED  BY <1>3, <2>1, <2>2 DEF Rising
<1> QED  BY <1>5, <1>7, <1>8, <1>9, <1>10 DEF HeapInv, OrderInv

LEMMA AddReturnsStep == HeapInv /\ AddReturns => HeapInv'
<1> SUFFICES ASSUME HeapInv, AddReturns PROVE HeapInv'
  OBVIOUS
<1> DEFINE x == run.arg
           t == heap.item[run.arg].task
<1>1. /\ run.method = "add" /\ run.loop = "none" /\ run' = Idle /\ index' = Enter(t.id, x)
      /\ UNCHANGED <<heap, doubled>>
  BY DEF AddReturns
<1>2. /\ HeapOK(heap) /\ index \in [Ids -> Items \cup {Nil}] /\ doubled \subseteq Ids
      /\ \A id \in Ids : index[id] # Nil =>
            index[id] \in InHeap(heap) /\ heap.item[index[id]].task.id = id
  BY PositionsAreHeapOK DEF HeapInv
<1>3. x \in InHeap(heap)
  BY <1>1 DEF HeapInv, RunInv
<1>4. x \in Items /\ t \in Task /\ t.id \in Ids
  <2>1. x \in Items /\ heap.item[x] \in Used
    BY <1>2, <1>3 DEF HeapOK, InHeap
  <2> QED  BY <2>1, UsedIsNotFree DEF Task
<1>5. PositionsKnown'
  BY <1>1, <1>2, <1>3, <1>4, IdleRun, PositionsAreHeapOKThen DEF Enter
<1>6. RunInv'
  BY <1>1, IdleRun DEF RunInv
<1>7. Limit' = Limit
  BY <1>1, IdleRun DEF Limit, Size
<1>8. Ordered(Keys(heap), Limit)
  BY <1>1 DEF HeapInv, OrderInv
<1> QED  BY <1>1, <1>5, <1>6, <1>7, <1>8, IdleRun DEF HeapInv, OrderInv

(* The last item comes to a place of an ordered heap, and what was there    *)
(* goes behind it.                                                          *)
LEMMA GapInOrder ==
    ASSUME NEW n \in Nat, NEW i \in 0..n, i < n \/ n = 0, NEW p, NEW q,
           Exchanged(q, p, n + 1, i, n), Ordered(p, n + 1)
    PROVE  Sinking(q, n, 0, i, i)
<1>1. \A k \in 0..n : p[k] \in Nat /\ (k # i /\ k # n => q[k] = p[k])
  BY DEF Exchanged
<1>2. \A k \in 1..n : k \in 0..n /\ Parent(k) \in 0..n /\ Parent(k) < k /\ p[Parent(k)] <= p[k]
  BY ParentIs DEF Ordered
<1>3. ASSUME NEW k \in 1..(n - 1), Parent(k) # i, k # i PROVE q[Parent(k)] <= q[k]
  BY <1>1, <1>2, <1>3
<1>4. ASSUME NEW k \in 1..(n - 1), Parent(k) = i, i > 0 PROVE q[Parent(i)] <= q[k]
  <2>1. k \in 1..n /\ i \in 1..n /\ k # i /\ k # n /\ Parent(i) # i /\ Parent(i) # n
    BY <1>2, <1>4
  <2>2. p[Parent(i)] <= p[i] /\ p[i] <= p[k]
    BY <1>2, <1>4, <2>1
  <2>3. q[Parent(i)] = p[Parent(i)] /\ q[k] = p[k]
    BY <1>1, <1>2, <2>1
  <2> QED  BY <1>1, <1>2, <2>1, <2>2, <2>3
<1> QED  BY <1>3, <1>4 DEF Sinking

LEMMA DeleteFoundStep == ASSUME NEW id \in Ids, HeapInv, DeleteFound(id) PROVE HeapInv'
<1> DEFINE x == index[id]
           i == heap.item[index[id]].index
           n == Size(heap) - 1
<1>1. /\ run = Idle /\ x # Nil /\ UNCHANGED <<index, doubled>>
      /\ \/ i = n /\ run' = Start("delete", id, "none", i) /\ heap' = heap
         \/ i # n /\ run' = Start("delete", id, "down", i) /\ heap' = Swap(heap, i, n)
  BY DEF DeleteFound
<1>2. /\ HeapOK(heap) /\ DOMAIN heap.pq = 0..n /\ n \in Int
      /\ Ordered(Keys(heap), n + 1) /\ Keys(heap) \in [0..n -> Nat] /\ n + 1 = Size(heap)
      /\ index \in [Ids -> Items \cup {Nil}] /\ doubled \subseteq Ids
      /\ \A k \in Ids : index[k] # Nil =>
            index[k] \in InHeap(heap) /\ heap.item[index[k]].task.id = k
  <2>1. Size(heap) \in Nat /\ n + 1 = Size(heap) /\ n \in Int
    BY <1>1, IdleHeap
  <2> HIDE DEF n
  <2>2. n = Size(heap) - 1
    BY <2>1
  <2> QED  BY <1>1, <2>1, <2>2, IdleHeap
<1>3. i \in DOMAIN heap.pq /\ heap.pq[i] = x
  <2>1. PICK k \in DOMAIN heap.pq : heap.pq[k] = x
    BY <1>1, <1>2 DEF InHeap
  <2> QED  BY <1>2, <2>1 DEF HeapOK
<1>4. n \in Nat /\ n \in DOMAIN heap.pq /\ i \in 0..n
  BY <1>2, <1>3
<1> HIDE DEF i, n
<1>5. /\ run' \in Run /\ run'.method = "delete" /\ run'.arg = id /\ run'.from = i /\ run'.at = i
      /\ run'.loop = IF i = n THEN "none" ELSE "down"
  BY <1>1, <1>4 DEF Start, Run
<1>6. CASE i = n
  <2>1. PositionsKnown'
    BY <1>1, <1>5, <1>6, ListStays
  <2>2. Size(heap') = n + 1 /\ Limit' = n /\ Keys(heap') = Keys(heap)
    BY <1>1, <1>2, <1>4, <1>5, <1>6 DEF Limit
  <2>3. LastItem(heap') = x
    <3>1. Size(heap') - 1 = i
      BY <1>4, <1>6, <2>2
    <3> QED  BY <1>1, <1>3, <1>6, <3>1 DEF LastItem
  <2>4. RunInv'
    BY <1>1, <1>4, <1>5, <1>6, <2>2, <2>3 DEF RunInv
  <2>5. Ordered(Keys(heap), n)
    <3>1. \A k \in 1..(n - 1) : k \in 1..((n + 1) - 1)
      BY <1>4
    <3> QED  BY <1>2, <3>1 DEF Ordered
  <2> QED  BY <1>5, <1>6, <2>1, <2>2, <2>4, <2>5 DEF HeapInv, OrderInv
<1>7. CASE i # n
  <2>1. /\ HeapOK(heap') /\ Size(heap') = n + 1 /\ DOMAIN heap'.pq = DOMAIN heap.pq
        /\ InHeap(heap') = InHeap(heap) /\ heap'.pq[n] = heap.pq[i]
        /\ \A y \in Items : heap'.item[y].task = heap.item[y].task
        /\ Exchanged(Keys(heap'), Keys(heap), n + 1, i, n)
    <3>1. /\ HeapOK(heap') /\ Size(heap') = Size(heap) /\ DOMAIN heap'.pq = DOMAIN heap.pq
          /\ InHeap(heap') = InHeap(heap)
          /\ heap'.pq = [heap.pq EXCEPT ![i] = heap.pq[n], ![n] = heap.pq[i]]
          /\ \A y \in Items : heap'.item[y].task = heap.item[y].task
          /\ Exchanged(Keys(heap'), Keys(heap), Size(heap), i, n)
      BY <1>1, <1>2, <1>3, <1>4, <1>7, SwapResult
    <3>2. heap'.pq[n] = heap.pq[i]
      BY <1>4, <3>1
    <3> QED  BY <1>2, <3>1, <3>2
  <2>2. PositionsKnown'
    <3>1. \A k \in Ids : index[k] # Nil => index[k] \in Items
      BY <1>2
    <3> QED  BY <1>1, <1>2, <1>5, <2>1, <3>1, PositionsAreHeapOKThen
  <2>3. Limit' = n
    BY <1>4, <1>5, <2>1 DEF Limit
  <2>4. LastItem(heap') = x
    <3>1. Size(heap') - 1 = n
      BY <1>4, <2>1
    <3> QED  BY <1>3, <2>1, <3>1 DEF LastItem
  <2>5. RunInv'
    BY <1>1, <1>2, <1>4, <1>5, <1>7, <2>1, <2>3, <2>4 DEF RunInv
  <2>6. Sinking(Keys(heap'), n, 0, i, i)
    BY <1>2, <1>4, <1>7, <2>1, GapInOrder
  <2>7. Low' = 0
    BY <1>5 DEF Low
  <2> QED  BY <1>5, <1>7, <2>2, <2>3, <2>5, <2>6, <2>7 DEF HeapInv, OrderInv
<1> QED  BY <1>6, <1>7

LEMMA TakeFirstStep == HeapInv /\ TakeFirst => HeapInv'
<1> SUFFICES ASSUME HeapInv, TakeFirst PROVE HeapInv'
  OBVIOUS
<1> DEFINE n == Size(heap) - 1
           p == Keys(heap)
           q == Keys(heap')
<1>1. /\ run = Idle /\ Size(heap) > 0 /\ UNCHANGED <<index, doubled>>
      /\ heap' = Swap(heap, 0, n) /\ run' = Start("take", Nil, "down", 0)
  BY DEF TakeFirst
<1>2. n \in Nat /\ n + 1 = Size(heap)
  BY <1>1, IdleHeap
<1> HIDE DEF n
<1>3. /\ HeapOK(heap) /\ DOMAIN heap.pq = 0..n /\ Ordered(p, n + 1) /\ p \in [0..n -> Nat]
      /\ index \in [Ids -> Items \cup {Nil}] /\ doubled \subseteq Ids
      /\ \A id \in Ids : index[id] # Nil =>
            index[id] \in InHeap(heap) /\ heap.item[index[id]].task.id = id
  <2>1. n = Size(heap) - 1
    BY <1>2
  <2> QED  BY <1>1, <1>2, <2>1, IdleHeap
<1>4. 0 \in DOMAIN heap.pq /\ n \in DOMAIN heap.pq
  BY <1>2, <1>3
<1>5. /\ HeapOK(heap') /\ Size(heap') = n + 1 /\ DOMAIN heap'.pq = 0..n
      /\ InHeap(heap') = InHeap(heap)
      /\ \A y \in Items : heap'.item[y].task = heap.item[y].task
      /\ Exchanged(q, p, n + 1, 0, n)
  <2>1. /\ HeapOK(heap') /\ Size(heap') = Size(heap) /\ DOMAIN heap'.pq = DOMAIN heap.pq
        /\ InHeap(heap') = InHeap(heap)
        /\ \A y \in Items : heap'.item[y].task = heap.item[y].task
        /\ Exchanged(q, p, Size(heap), 0, n)
    <3>1. /\ HeapOK(heap') /\ Size(heap') = Size(heap) /\ DOMAIN heap'.pq = DOMAIN heap.pq
          /\ InHeap(heap') = InHeap(heap)
          /\ heap'.pq = [heap.pq EXCEPT ![0] = heap.pq[n], ![n] = heap.pq[0]]
          /\ \A y \in Items : heap'.item[y].task = heap.item[y].task
          /\ Exchanged(q, p, Size(heap), 0, n)
      BY <1>1, <1>3, <1>4, SwapResult
    <3> QED  BY <3>1
  <2> QED  BY <1>2, <1>3, <2>1
<1>6. /\ run' \in Run /\ run'.method = "take" /\ run'.from = 0 /\ run'.at = 0
      /\ run'.loop = "down"
  BY <1>1 DEF Start, Run
<1>7. PositionsKnown'
  <2>1. \A id \in Ids : index[id] # Nil => index[id] \in Items
    BY <1>3
  <2> QED  BY <1>1, <1>3, <1>5, <1>6, <2>1, PositionsAreHeapOKThen
<1>8. Limit' = n
  BY <1>2, <1>5, <1>6 DEF Limit
(* What goes to the end was the root, the earliest of all.                  *)
<1>9. \A i \in 0..n : q[n] <= q[i]
  <2> HIDE DEF p, q
  <2> SUFFICES ASSUME NEW i \in 0..n PROVE q[n] <= q[i]
    OBVIOUS
  <2>1. q[n] = p[0] /\ q[0] = p[n] /\ (i # 0 /\ i # n => q[i] = p[i])
    BY <1>2, <1>5 DEF Exchanged
  <2>2. \A k \in 0..n : p[0] <= p[k] /\ p[k] \in Nat
    <3> SUFFICES ASSUME NEW k \in 0..n PROVE p[0] <= p[k]
      BY <1>3
    <3> DEFINE m == n + 1
    <3>1. m \in Nat /\ m - 1 = n
      BY <1>2
    <3> HIDE DEF m
    <3>2. Ordered(p, m) /\ p \in [0..(m - 1) -> Nat] /\ k \in 0..(m - 1)
      BY <1>3, <3>1 DEF m
    <3> QED  BY <3>1, <3>2, RootIsFirst
  <2> QED  BY <1>2, <2>1, <2>2
<1>10. RunInv'
  <2>1. Size(heap') - 1 = n /\ Size(heap') > 0
    BY <1>2, <1>5
  <2> QED  BY <1>2, <1>5, <1>6, <1>9, <2>1 DEF RunInv
<1>11. Sinking(q, n, 0, 0, 0)
  <2> HIDE DEF p, q
  <2> QED  BY <1>2, <1>3, <1>5, GapInOrder
<1>12. Low' = 0
  BY <1>6 DEF Low
<1> QED  BY <1>6, <1>7, <1>8, <1>10, <1>11, <1>12 DEF HeapInv, OrderInv

(* The last item is cut off, and the entry of its id erased.                *)
LEMMA CutKeeps ==
    ASSUME HeapInv, run.method \in {"take", "delete"}, run.loop = "none", run' = Idle,
           heap' = PopItem(heap), NEW id \in Ids,
           heap.item[LastItem(heap)].task.id = id, index' = Forget(id), Undouble
    PROVE  HeapInv'
<1> DEFINE x == LastItem(heap)
<1>1. /\ HeapOK(heap) /\ index \in [Ids -> Items \cup {Nil}] /\ doubled \subseteq Ids
      /\ \A k \in Ids : index[k] # Nil =>
            index[k] \in InHeap(heap) /\ heap.item[index[k]].task.id = k
  BY PositionsAreHeapOK DEF HeapInv
<1>2. /\ Size(heap) > 0 /\ Size(heap) \in Nat /\ Limit = Size(heap) - 1
  <2>1. Size(heap) > 0
    BY DEF HeapInv, RunInv
  <2> QED  BY <2>1, LimitIs
<1>3. /\ HeapOK(heap') /\ Size(heap') = Limit
      /\ x \in InHeap(heap) /\ InHeap(heap') = InHeap(heap) \ {x}
      /\ \A y \in Items \ {x} : heap'.item[y] = heap.item[y]
      /\ \A i \in 0..(Limit - 1) : Keys(heap')[i] = Keys(heap)[i]
  BY <1>1, <1>2, PopResult
<1>4. PositionsKnown'
  <2>1. doubled' \subseteq Ids /\ index' \in [Ids -> Items \cup {Nil}]
    BY <1>1 DEF Undouble, Forget
  <2>2. ASSUME NEW k \in Ids, index'[k] # Nil
        PROVE  index'[k] \in InHeap(heap') /\ heap'.item[index'[k]].task.id = k
    <3>1. k # id /\ index'[k] = index[k]
      BY <1>1, <2>2 DEF Forget
    <3>2. index[k] \in InHeap(heap) /\ heap.item[index[k]].task.id = k /\ index[k] \in Items
      BY <1>1, <2>2, <3>1
    <3>3. index[k] # x
      BY <3>1, <3>2
    <3> QED  BY <1>3, <3>1, <3>2, <3>3
  <2> QED  BY <1>3, <2>1, <2>2, IdleRun, PositionsAreHeapOKThen
<1>5. Limit' = Limit
  BY <1>3, IdleRun DEF Limit
<1>6. RunInv'
  BY IdleRun DEF RunInv
<1>7. Ordered(Keys(heap'), Limit)
  <2>1. Ordered(Keys(heap), Limit)
    BY DEF HeapInv, OrderInv
  <2>2. \A k \in 1..(Limit - 1) : k \in 0..(Limit - 1) /\ Parent(k) \in 0..(Limit - 1)
    BY <1>2, ParentIs
  <2> QED  BY <1>3, <2>1, <2>2 DEF Ordered
<1> QED  BY <1>4, <1>5, <1>6, <1>7, IdleRun DEF HeapInv, OrderInv

(* The tasks of the items in the array.                                     *)
LEMMA TasksInHeap ==
    ASSUME NEW h, HeapOK(h), NEW x \in InHeap(h)
    PROVE  x \in Items /\ h.item[x].task \in Task /\ h.item[x].task.id \in Ids
<1>1. x \in Items /\ h.item[x] \in Used
  BY DEF HeapOK, InHeap
<1> QED  BY <1>1, UsedIsNotFree DEF Task

LEMMA DeleteReturnsStep == HeapInv /\ DeleteReturns => HeapInv'
<1> SUFFICES ASSUME HeapInv, DeleteReturns PROVE HeapInv'
  OBVIOUS
<1>1. /\ run.method = "delete" /\ run.loop = "none" /\ run' = Idle
      /\ heap' = PopItem(heap) /\ index' = Forget(run.arg) /\ Undouble
  BY DEF DeleteReturns
<1>2. run.arg \in Ids /\ index[run.arg] # Nil /\ LastItem(heap) = index[run.arg]
  BY <1>1 DEF HeapInv, RunInv
<1>3. heap.item[LastItem(heap)].task.id = run.arg
  BY <1>2, PositionsAreHeapOK DEF HeapInv
<1> QED  BY <1>1, <1>2, <1>3, CutKeeps

LEMMA TakeReturnsStep == HeapInv /\ TakeReturns => HeapInv'
<1> SUFFICES ASSUME HeapInv, TakeReturns PROVE HeapInv'
  OBVIOUS
<1>1. /\ run.method = "take" /\ run.loop = "none" /\ run' = Idle
      /\ heap' = PopItem(heap) /\ Undouble
      /\ index' = Forget(heap.item[LastItem(heap)].task.id)
  BY DEF TakeReturns
<1>2. HeapOK(heap) /\ Size(heap) > 0
  BY <1>1, PositionsAreHeapOK DEF HeapInv, RunInv
<1>3. heap.item[LastItem(heap)].task.id \in Ids
  BY <1>2, PopResult, TasksInHeap
<1> QED  BY <1>1, <1>3, CutKeeps

LEMMA NothingStep == HeapInv /\ UNCHANGED <<heap, index, run, doubled>> => HeapInv'
<1> SUFFICES ASSUME HeapInv, UNCHANGED <<heap, index, run, doubled>> PROVE HeapInv'
  OBVIOUS
<1>1. PositionsKnown'
  BY ListStays DEF HeapInv, PositionsKnown, TypeOK
<1>2. RunInv' /\ OrderInv'
  <2>1. UNCHANGED <<Limit, Low, Keys(heap), Size(heap), InHeap(heap), LastItem(heap)>>
    BY DEF Limit, Low
  <2> QED  BY <2>1 DEF HeapInv, RunInv, OrderInv
<1> QED  BY <1>1, <1>2 DEF HeapInv

LEMMA HeapInvNext == HeapInv /\ [Next]_vars => HeapInv'
<1> SUFFICES ASSUME HeapInv, [Next]_vars PROVE HeapInv'
  OBVIOUS
<1>1. ASSUME NEW t \in Task, AddTask(t) PROVE HeapInv'
  BY <1>1, AddTaskStep
<1>2. ASSUME NEW id \in Ids, DeleteFound(id) PROVE HeapInv'
  BY <1>2, DeleteFoundStep
<1>3. ASSUME NEW id \in Ids, DeleteMissing(id) PROVE HeapInv'
  BY <1>3, NothingStep DEF DeleteMissing
<1>4. CASE TakeFromEmpty
  BY <1>4, NothingStep DEF TakeFromEmpty
<1>5. CASE Loops
  BY <1>5, RiseStep, RiseEndsStep, SinkStep, SinkEndsStep DEF Loops
<1>6. CASE Returns
  BY <1>6, NewReturnsStep, AddReturnsStep, DeleteReturnsStep, TakeReturnsStep DEF Returns
<1>7. CASE UNCHANGED vars
  BY <1>7, NothingStep DEF vars
<1> QED  BY <1>1, <1>2, <1>3, <1>4, <1>5, <1>6, <1>7, TakeFirstStep DEF Next

LEMMA HeapInvHolds == Spec => []HeapInv
  BY HeapInvInit, HeapInvNext, PTL DEF Spec

(* heap.go and task_heap.go keep the positions: every item knows its place  *)
(* in the array after any sequence of swaps, and every entry of the index   *)
(* leads to an item of its id.                                              *)
THEOREM PositionsStay == Spec => []PositionsKnown
<1>1. HeapInv => PositionsKnown
  BY DEF HeapInv
<1> QED  BY <1>1, HeapInvHolds, PTL

(* When a method of task_heap.go has returned, the array is a heap: for any *)
(* number of tasks, also after DeleteIfExist cut one out of the middle.     *)
THEOREM HeapStaysOrdered == Spec => []HeapOrdered
<1>1. HeapInv => HeapOrdered
  <2> SUFFICES ASSUME HeapInv, run = Idle, NEW i \in DOMAIN heap.pq, i > 0
               PROVE  ~Less(heap, i, Parent(i))
    BY DEF HeapOrdered
  <2>1. /\ HeapOK(heap) /\ Size(heap) \in Nat /\ DOMAIN heap.pq = 0..(Size(heap) - 1)
        /\ Ordered(Keys(heap), Size(heap)) /\ Keys(heap) \in [0..(Size(heap) - 1) -> Nat]
    BY IdleHeap
  <2>2. Parent(i) \in DOMAIN heap.pq /\ i \in 1..(Size(heap) - 1)
    BY <2>1, ParentIs
  <2>3. Keys(heap)[Parent(i)] <= Keys(heap)[i]
    BY <2>1, <2>2 DEF Ordered
  <2> QED  BY <2>1, <2>2, <2>3, LessIs
<1> QED  BY <1>1, HeapInvHolds, PTL

-----------------------------------------------------------------------------
(* What the list contains                                                   *)

(* The items in the array and their tasks are the same, the places may not  *)
(* be.                                                                      *)
SameContent ==
    /\ InHeap(heap') = InHeap(heap)
    /\ \A x \in Items : heap'.item[x].task = heap.item[x].task

(* A turn of a loop changes only places.                                    *)
LEMMA LoopsKeepContent ==
    ASSUME HeapInv, Loops
    PROVE  /\ SameContent /\ UNCHANGED <<index, last, doubled>>
           /\ run.method \in {"new", "add", "delete", "take"} /\ run'.method = run.method
           /\ run.method = "add" => run'.arg = run.arg
<1>1. /\ HeapOK(heap) /\ run \in Run /\ Size(heap) \in Nat
      /\ DOMAIN heap.pq = 0..(Size(heap) - 1) /\ Limit \in Int /\ Limit <= Size(heap)
  BY PositionsAreHeapOK, LimitIs DEF HeapInv
<1>2. /\ run.loop = "up" => run.method \in {"add", "delete"} /\ run.at \in 0..(Limit - 1)
      /\ run.loop = "down" => run.method \in {"new", "delete", "take"}
  BY DEF HeapInv, RunInv
<1>3. CASE Rise
  <2> DEFINE j == run.at
             i == Parent(run.at)
  <2>1. /\ run.loop = "up" /\ Rises /\ heap' = Swap(heap, i, j) /\ run' = [run EXCEPT !.at = i]
        /\ UNCHANGED <<index, last, doubled>>
    BY <1>3 DEF Rise
  <2>2. i \in DOMAIN heap.pq /\ j \in DOMAIN heap.pq
    BY <1>1, <1>2, <2>1, ParentIs DEF Rises
  <2>3. InHeap(heap') = InHeap(heap) /\ heap'.pq = [heap.pq EXCEPT ![i] = heap.pq[j], ![j] = heap.pq[i]]
        /\ \A x \in Items : heap'.item[x].task = heap.item[x].task
    BY <1>1, <2>1, <2>2, SwapResult
  <2> QED  BY <1>1, <1>2, <2>1, <2>3 DEF SameContent, Run
<1>4. CASE Sink
  <2> DEFINE i == run.at
             j == EarlierChild(run.at)
  <2>1. /\ run.loop = "down" /\ Sinks /\ heap' = Swap(heap, i, j) /\ run' = [run EXCEPT !.at = j]
        /\ UNCHANGED <<index, last, doubled>>
    BY <1>4 DEF Sink
  <2>2. i \in 0..(Limit - 1) /\ Chosen(Keys(heap), Limit, i, j)
    BY <2>1, ChildrenAt
  <2>3. i \in DOMAIN heap.pq /\ j \in DOMAIN heap.pq
    <3> HIDE DEF i, j
    <3> QED  BY <1>1, <2>2 DEF Chosen
  <2>4. InHeap(heap') = InHeap(heap) /\ heap'.pq = [heap.pq EXCEPT ![i] = heap.pq[j], ![j] = heap.pq[i]]
        /\ \A x \in Items : heap'.item[x].task = heap.item[x].task
    BY <1>1, <2>1, <2>3, SwapResult
  <2> QED  BY <1>1, <1>2, <2>1, <2>4 DEF SameContent, Run
<1>5. CASE RiseEnds
  BY <1>1, <1>2, <1>5 DEF RiseEnds, SameContent, Run
<1>6. CASE SinkEnds
  <2>1. /\ run.loop = "down" /\ run' = AfterSinking(run) /\ UNCHANGED <<heap, index, last, doubled>>
    BY <1>6 DEF SinkEnds
  <2>2. run'.method = run.method
    BY <1>1, <2>1 DEF AfterSinking, SinkNode, Start, Run
  <2> QED  BY <1>2, <2>1, <2>2 DEF SameContent
<1> QED  BY <1>3, <1>4, <1>5, <1>6 DEF Loops

(* So does the exchange with which DeleteIfExist and Take begin.            *)
LEMMA StartsKeepContent ==
    ASSUME HeapInv, TakeFirst \/ \E id \in Ids : DeleteFound(id)
    PROVE  /\ SameContent /\ UNCHANGED <<index, last, doubled>>
           /\ run = Idle /\ run'.method \in {"delete", "take"}
<1>1. /\ run = Idle /\ run'.method \in {"delete", "take"} /\ UNCHANGED <<index, last, doubled>>
      /\ UNCHANGED heap \/ \E i, j \in DOMAIN heap.pq : heap' = Swap(heap, i, j)
  <2>1. CASE TakeFirst
    <3>1. run = Idle /\ Size(heap) > 0
      BY <2>1 DEF TakeFirst
    <3>2. 0 \in DOMAIN heap.pq /\ Size(heap) - 1 \in DOMAIN heap.pq
      BY <3>1, IdleHeap
    <3> QED  BY <2>1, <3>2 DEF TakeFirst, Start
  <2>2. ASSUME NEW id \in Ids, DeleteFound(id)
        PROVE  /\ run = Idle /\ run'.method = "delete" /\ UNCHANGED <<index, last, doubled>>
               /\ UNCHANGED heap \/ \E i, j \in DOMAIN heap.pq : heap' = Swap(heap, i, j)
    <3> DEFINE i == heap.item[index[id]].index
               n == Size(heap) - 1
    <3>1. /\ run = Idle /\ index[id] # Nil /\ UNCHANGED <<index, last, doubled>>
          /\ \/ run' = Start("delete", id, "none", i) /\ heap' = heap
             \/ run' = Start("delete", id, "down", i) /\ heap' = Swap(heap, i, n)
      BY <2>2 DEF DeleteFound
    <3>2. /\ HeapOK(heap) /\ Size(heap) \in Nat /\ DOMAIN heap.pq = 0..n
          /\ index[id] \in InHeap(heap)
      BY <3>1, IdleHeap
    <3>3. PICK k \in DOMAIN heap.pq : heap.pq[k] = index[id]
      BY <3>2 DEF InHeap
    <3>4. i \in DOMAIN heap.pq /\ n \in DOMAIN heap.pq
      BY <3>2, <3>3 DEF HeapOK
    <3> QED  BY <3>1, <3>4 DEF Start
  <2> QED  BY <2>1, <2>2
<1>2. ASSUME NEW i \in DOMAIN heap.pq, NEW j \in DOMAIN heap.pq, heap' = Swap(heap, i, j)
      PROVE  SameContent
  <2>1. HeapOK(heap)
    BY PositionsAreHeapOK DEF HeapInv
  <2>2. InHeap(heap') = InHeap(heap) /\ heap'.pq = [heap.pq EXCEPT ![i] = heap.pq[j], ![j] = heap.pq[i]]
        /\ \A x \in Items : heap'.item[x].task = heap.item[x].task
    BY <1>2, <2>1, SwapResult
  <2> QED  BY <2>2 DEF SameContent
<1>3. UNCHANGED heap => SameContent
  BY DEF SameContent
<1> QED  BY <1>1, <1>2, <1>3

(* An array has finitely many items, whatever Items is.                     *)
LEMMA InHeapFinite == ASSUME NEW h, HeapOK(h) PROVE IsFiniteSet(InHeap(h))
<1> DEFINE S == 0..(Size(h) - 1)
           F == [i \in S |-> h.pq[i]]
<1>1. F \in Bijection(S, InHeap(h))
  <2>1. F \in [S -> InHeap(h)] /\ \A i, j \in S : F[i] = F[j] => i = j
    BY DEF HeapOK, InHeap
  <2>2. \A x \in InHeap(h) : \E i \in S : F[i] = x
    BY DEF HeapOK, InHeap
  <2> HIDE DEF F, S
  <2> QED  BY <2>1, <2>2, Fun_IsBij
<1>2. ExistsBijection(S, InHeap(h))
  <2> HIDE DEF F, S
  <2> QED  BY <1>1, Fun_ExistsBij
<1>3. IsFiniteSet(S)
  BY FS_Interval DEF HeapOK
<1> HIDE DEF S
<1> QED  BY <1>2, <1>3, FS_Bijection

WithId(h, id) == {x \in InHeap(h) : h.item[x].task.id = id}

LEMMA CopiesAre ==
    ASSUME NEW h, HeapOK(h), NEW id
    PROVE  /\ IsFiniteSet(WithId(h, id)) /\ Copies(h, id) = Cardinality(WithId(h, id))
           /\ Copies(h, id) \in Nat
           /\ Copies(h, id) = 0 <=> \A x \in InHeap(h) : h.item[x].task.id # id
<1>1. WithId(h, id) \subseteq InHeap(h)
  BY DEF WithId
<1>2. IsFiniteSet(WithId(h, id))
  BY <1>1, InHeapFinite, FS_Subset
<1>3. Copies(h, id) = Cardinality(WithId(h, id))
  BY DEF Copies, WithId
<1>4. Copies(h, id) = 0 <=> WithId(h, id) = {}
  BY <1>2, <1>3, FS_EmptySet
<1>5. WithId(h, id) = {} <=> \A x \in InHeap(h) : h.item[x].task.id # id
  BY DEF WithId
<1> QED  BY <1>2, <1>3, <1>4, <1>5, FS_CardinalityType

(* Two different items are two copies.                                      *)
LEMMA TwoAreMore ==
    ASSUME NEW S, IsFiniteSet(S), NEW x \in S, NEW y \in S, x # y
    PROVE  Cardinality(S) > 1
<1>1. IsFiniteSet(S \ {x}) /\ Cardinality(S \ {x}) = Cardinality(S) - 1
  BY FS_RemoveElement
<1>2. y \in S \ {x}
  OBVIOUS
<1>3. Cardinality(S \ {x}) # 0
  BY <1>1, <1>2, FS_EmptySet
<1>4. Cardinality(S) \in Nat /\ Cardinality(S \ {x}) \in Nat
  BY <1>1, FS_CardinalityType
<1> QED  BY <1>1, <1>3, <1>4

(* One item less, and no other item has another task.                       *)
LEMMA CopiesWithoutLast ==
    ASSUME NEW h, HeapOK(h), Size(h) > 0, NEW id
    PROVE  Copies(PopItem(h), id) =
             Copies(h, id) - IF h.item[LastItem(h)].task.id = id THEN 1 ELSE 0
<1> DEFINE g == PopItem(h)
           x == LastItem(h)
<1>1. /\ HeapOK(g) /\ x \in InHeap(h) /\ InHeap(g) = InHeap(h) \ {x}
      /\ \A y \in Items \ {x} : g.item[y] = h.item[y]
  BY PopResult
<1>2. \A y \in InHeap(h) : y \in Items
  BY TasksInHeap
<1> HIDE DEF g, x
<1>3. WithId(g, id) = WithId(h, id) \ {x}
  BY <1>1, <1>2 DEF WithId
<1>4. x \in WithId(h, id) <=> h.item[x].task.id = id
  BY <1>1 DEF WithId
<1>5. /\ IsFiniteSet(WithId(h, id)) /\ Copies(h, id) = Cardinality(WithId(h, id))
      /\ Copies(h, id) \in Nat
  BY CopiesAre
<1>6. Copies(g, id) = Cardinality(WithId(g, id))
  BY <1>1, CopiesAre
<1>7. Cardinality(WithId(h, id) \ {x}) =
        IF x \in WithId(h, id) THEN Cardinality(WithId(h, id)) - 1 ELSE Cardinality(WithId(h, id))
  BY <1>5, FS_RemoveElement
<1>8. Copies(g, id) = Copies(h, id) - IF h.item[x].task.id = id THEN 1 ELSE 0
  BY <1>3, <1>4, <1>5, <1>6, <1>7
<1> QED  BY <1>8 DEF g, x

-----------------------------------------------------------------------------
(* Deletion                                                                 *)

LEMMA EntriesInit == Init => EntriesComplete
<1> SUFFICES ASSUME Init, NEW id \in Ids \ doubled,
                    NEW x \in InHeap(heap), heap.item[x].task.id = id
             PROVE  /\ \A y \in InHeap(heap) : heap.item[y].task.id = id => x = y
                    /\ index[id] = x
  BY DEF EntriesComplete
<1>1. HeapOK(heap) /\ PositionsKnown
  BY HeapInvInit, PositionsAreHeapOK DEF HeapInv
<1>2. ~(Copies(heap, id) > 1)
  BY DEF Init
<1>3. ASSUME NEW y \in InHeap(heap), heap.item[y].task.id = id PROVE x = y
  <2>1. x \in WithId(heap, id) /\ y \in WithId(heap, id)
    BY <1>3 DEF WithId
  <2> QED  BY <1>1, <1>2, <2>1, CopiesAre, TwoAreMore
(* The item of the latest task with the id has it too.                      *)
<1>4. index[id] # Nil
  <2>1. PICK tasks \in InitialLists : \E xs \in Injections(Len(tasks)) : New(tasks, xs)
    BY DEF Init
  <2>2. PICK xs \in Injections(Len(tasks)) : New(tasks, xs)
    BY <2>1
  <2> DEFINE n == Len(tasks)
  <2>3. n \in Nat /\ DOMAIN tasks = 1..n /\ xs \in [1..n -> Items]
        /\ \A i, j \in 1..n : xs[i] = xs[j] => i = j
    BY <2>2, InitialListsAssumption DEF Injections
  <2>4. PICK k \in DOMAIN heap.pq : heap.pq[k] = x
    BY DEF InHeap
  <2>5. DOMAIN heap.pq = 0..(n - 1) /\ heap.pq[k] = xs[k + 1]
    BY <2>2, <2>4 DEF New, Unordered
  <2>6. k + 1 \in 1..n /\ xs[k + 1] = x
    BY <2>3, <2>4, <2>5
  <2>7. (CHOOSE j \in DOMAIN tasks : xs[j] = x) = k + 1
    BY <2>3, <2>6
  <2>8. heap.item[x].task = tasks[k + 1]
    <3>1. x \in Items /\ \E i \in DOMAIN tasks : xs[i] = x
      BY <2>3, <2>6
    <3>2. heap.item[x] = [task |-> tasks[k + 1], index |-> (k + 1) - 1]
      BY <2>2, <2>7, <3>1 DEF New, Unordered
    <3> QED  BY <3>2
  <2>9. \E i \in DOMAIN tasks : tasks[i].id = id
    BY <2>3, <2>6, <2>8
  <2>10. Latest(tasks, id) \in DOMAIN tasks
    BY <2>3, <2>9, LatestExists
  <2>11. index[id] = xs[Latest(tasks, id)]
    BY <2>2, <2>9 DEF New
  <2> QED  BY <2>3, <2>10, <2>11, ItemsAssumption
<1>5. index[id] \in InHeap(heap) /\ heap.item[index[id]].task.id = id
  BY <1>1, <1>4 DEF PositionsKnown
<1> QED  BY <1>3, <1>5

(* The content stays, and with it the entries.                              *)
LEMMA EntriesStay ==
    ASSUME HeapInv, EntriesComplete, SameContent, UNCHANGED <<index, doubled>>,
           run.method = "add" => run'.method = "add" /\ run'.arg = run.arg
    PROVE  EntriesComplete'
<1>1. \A x \in InHeap(heap) : x \in Items
  BY PositionsAreHeapOK, TasksInHeap DEF HeapInv
<1> QED  BY <1>1 DEF EntriesComplete, SameContent

LEMMA EntriesAdd == ASSUME NEW t \in Task, HeapInv, EntriesComplete, AddTask(t) PROVE EntriesComplete'
<1>1. PICK x \in Items : /\ IsFree(x) /\ heap' = PushItem(heap, x, t)
                         /\ run' = Start("add", x, "up", Size(heap))
  BY DEF AddTask
<1>2. /\ run = Idle /\ index' = index
      /\ doubled' = IF Copies(heap, t.id) > 0 THEN doubled \cup {t.id} ELSE doubled
  BY DEF AddTask
<1>3. HeapOK(heap) /\ x \notin InHeap(heap) /\ \A y \in InHeap(heap) : y \in Items
  BY <1>1, <1>2, IdleHeap, TasksInHeap DEF IsFree
<1>4. /\ InHeap(heap') = InHeap(heap) \cup {x} /\ heap'.item[x].task = t
      /\ \A y \in Items \ {x} : heap'.item[y] = heap.item[y]
  BY <1>1, <1>3, PushResult
<1>5. run'.method = "add" /\ run'.arg = x
  BY <1>1 DEF Start
<1> SUFFICES ASSUME NEW id \in Ids \ doubled',
                    NEW y \in InHeap(heap'), heap'.item[y].task.id = id
             PROVE  /\ \A z \in InHeap(heap') : heap'.item[z].task.id = id => y = z
                    /\ index'[id] = y \/ run'.arg = y
  BY <1>5 DEF EntriesComplete
<1>6. id \notin doubled
  BY <1>2
<1>7. CASE id = t.id
  <2>1. \A z \in InHeap(heap) : heap.item[z].task.id # id
    <3>1. ~(Copies(heap, id) > 0)
      BY <1>2, <1>7
    <3>2. Copies(heap, id) \in Nat /\ (Copies(heap, id) = 0 <=> \A z \in InHeap(heap) : heap.item[z].task.id # id)
      BY <1>3, CopiesAre
    <3>3. Copies(heap, id) = 0
      BY <3>1, <3>2
    <3> QED  BY <3>2, <3>3
  <2>2. \A z \in InHeap(heap') : heap'.item[z].task.id = id => z = x
    BY <1>3, <1>4, <2>1
  <2> QED  BY <1>5, <2>2
<1>8. CASE id # t.id
  <2>1. \A z \in InHeap(heap') : heap'.item[z].task.id = id =>
            z \in InHeap(heap) /\ heap.item[z].task.id = id
    BY <1>3, <1>4, <1>8
  <2>2. ~(run.method = "add")
    BY <1>2, IdleRun
  <2> QED  BY <1>2, <1>6, <2>1, <2>2 DEF EntriesComplete
<1> QED  BY <1>7, <1>8

LEMMA EntriesAddReturns == ASSUME HeapInv, EntriesComplete, AddReturns PROVE EntriesComplete'
<1> DEFINE x == run.arg
           t == heap.item[x].task
<1>1. /\ run.method = "add" /\ UNCHANGED <<heap, doubled>> /\ index' = Enter(t.id, x)
  BY DEF AddReturns
<1>2. x \in InHeap(heap) /\ t.id \in Ids /\ index \in [Ids -> Items \cup {Nil}]
  BY <1>1, PositionsAreHeapOK, TasksInHeap DEF HeapInv, RunInv
<1> SUFFICES ASSUME NEW id \in Ids \ doubled, NEW y \in InHeap(heap), heap.item[y].task.id = id
             PROVE  /\ \A z \in InHeap(heap) : heap.item[z].task.id = id => y = z
                    /\ index'[id] = y
  BY <1>1 DEF EntriesComplete
<1>3. \A z \in InHeap(heap) : heap.item[z].task.id = id => y = z
  BY DEF EntriesComplete
<1>4. CASE id = t.id
  BY <1>1, <1>2, <1>3, <1>4 DEF Enter
<1>5. CASE id # t.id
  BY <1>1, <1>2, <1>5 DEF Enter, EntriesComplete
<1> QED  BY <1>3, <1>4, <1>5

LEMMA EntriesCut ==
    ASSUME HeapInv, EntriesComplete, run.method \in {"take", "delete"},
           heap' = PopItem(heap), NEW id \in Ids,
           heap.item[LastItem(heap)].task.id = id, index' = Forget(id), Undouble
    PROVE  EntriesComplete'
<1> DEFINE x == LastItem(heap)
<1>1. HeapOK(heap) /\ Size(heap) > 0 /\ index \in [Ids -> Items \cup {Nil}]
  BY PositionsAreHeapOK DEF HeapInv, RunInv
<1>2. /\ HeapOK(heap') /\ x \in InHeap(heap) /\ InHeap(heap') = InHeap(heap) \ {x}
      /\ \A y \in Items \ {x} : heap'.item[y] = heap.item[y]
  BY <1>1, PopResult
<1>3. \A y \in InHeap(heap) : y \in Items
  BY <1>1, TasksInHeap
<1> HIDE DEF x
<1> SUFFICES ASSUME NEW k \in Ids \ doubled',
                    NEW y \in InHeap(heap'), heap'.item[y].task.id = k
             PROVE  /\ \A z \in InHeap(heap') : heap'.item[z].task.id = k => y = z
                    /\ index'[k] = y
  BY DEF EntriesComplete
<1>4. k \notin doubled
  <2>1. Copies(heap', k) \in Nat /\ Copies(heap', k) # 0
    BY <1>2, CopiesAre
  <2> QED  BY <2>1 DEF Undouble
<1>5. y \in InHeap(heap) /\ y # x /\ heap.item[y].task.id = k
  BY <1>2, <1>3
<1>6. k # id
  BY <1>2, <1>4, <1>5 DEF x, EntriesComplete
<1>7. index[k] = y /\ \A z \in InHeap(heap) : heap.item[z].task.id = k => y = z
  BY <1>4, <1>5 DEF EntriesComplete
<1> QED  BY <1>1, <1>2, <1>3, <1>6, <1>7 DEF Forget

LEMMA EntriesNext == HeapInv /\ EntriesComplete /\ [Next]_vars => EntriesComplete'
<1> SUFFICES ASSUME HeapInv, EntriesComplete, [Next]_vars PROVE EntriesComplete'
  OBVIOUS
<1>1. ASSUME NEW t \in Task, AddTask(t) PROVE EntriesComplete'
  BY <1>1, EntriesAdd
<1>2. CASE TakeFirst \/ \E id \in Ids : DeleteFound(id)
  BY <1>2, StartsKeepContent, EntriesStay, IdleRun
<1>3. CASE UNCHANGED <<heap, index, run, doubled>>
  BY <1>3, EntriesStay DEF SameContent
<1>4. CASE Loops
  BY <1>4, LoopsKeepContent, EntriesStay
<1>5. CASE NewReturns
  <2>1. run.method # "add" /\ SameContent /\ UNCHANGED <<index, doubled>>
    BY <1>5 DEF NewReturns, SameContent
  <2> QED  BY <2>1, EntriesStay
<1>6. CASE AddReturns
  BY <1>6, EntriesAddReturns
<1>7. CASE DeleteReturns
  <2>1. /\ run.method = "delete" /\ heap' = PopItem(heap) /\ index' = Forget(run.arg) /\ Undouble
    BY <1>7 DEF DeleteReturns
  <2>2. run.arg \in Ids /\ index[run.arg] # Nil /\ LastItem(heap) = index[run.arg]
    BY <2>1 DEF HeapInv, RunInv
  <2>3. heap.item[LastItem(heap)].task.id = run.arg
    BY <2>2, PositionsAreHeapOK DEF HeapInv
  <2> QED  BY <2>1, <2>2, <2>3, EntriesCut
<1>8. CASE TakeReturns
  <2>1. /\ run.method = "take" /\ heap' = PopItem(heap) /\ Undouble
        /\ index' = Forget(heap.item[LastItem(heap)].task.id)
    BY <1>8 DEF TakeReturns
  <2>2. HeapOK(heap) /\ Size(heap) > 0
    BY <2>1, PositionsAreHeapOK DEF HeapInv, RunInv
  <2>3. heap.item[LastItem(heap)].task.id \in Ids
    BY <2>2, PopResult, TasksInHeap
  <2> QED  BY <2>1, <2>3, EntriesCut
<1> QED  BY <1>1, <1>2, <1>3, <1>4, <1>5, <1>6, <1>7, <1>8
         DEF Next, Returns, DeleteMissing, TakeFromEmpty, vars

(* Until New has returned nothing else was called.                          *)
NewIsFirst == run.method = "new" => last.op = "new"

WholeInv == HeapInv /\ EntriesComplete /\ NewIsFirst

LEMMA WholeInvHolds == Spec => []WholeInv
<1>1. Init => NewIsFirst
  BY DEF Init, NewIsFirst, Call
<1>2. HeapInv /\ NewIsFirst /\ [Next]_vars => NewIsFirst'
  <2> SUFFICES ASSUME HeapInv, NewIsFirst, [Next]_vars PROVE NewIsFirst'
    OBVIOUS
  <2>1. CASE Loops
    BY <2>1, LoopsKeepContent DEF NewIsFirst
  <2>2. ASSUME NEW t \in Task, AddTask(t) PROVE NewIsFirst'
    BY <2>2 DEF AddTask, Start, NewIsFirst
  <2>3. CASE TakeFirst \/ \E id \in Ids : DeleteFound(id)
    BY <2>3, StartsKeepContent DEF NewIsFirst
  <2>4. CASE TakeFromEmpty \/ Returns \/ \E id \in Ids : DeleteMissing(id)
    BY <2>4, IdleRun
       DEF TakeFromEmpty, Returns, NewReturns, AddReturns, DeleteReturns, TakeReturns,
           DeleteMissing, NewIsFirst
  <2>5. CASE UNCHANGED vars
    BY <2>5 DEF vars, NewIsFirst
  <2> QED  BY <2>1, <2>2, <2>3, <2>4, <2>5 DEF Next
<1> QED  BY <1>1, <1>2, HeapInvInit, HeapInvNext, EntriesInit, EntriesNext, PTL DEF Spec, WholeInv

(* DeleteIfExist removes exactly one item of its id when it answers true    *)
(* and none when it answers false, and no other; for an id that was never   *)
(* in the list twice its answer tells whether the id was there.             *)
THEOREM DeletionIsExact == Spec => DeleteIsExact
<1> DEFINE Exact ==
        run' = Idle /\ last'.op = "delete" =>
          LET id == last'.arg
          IN  /\ Copies(heap', id) = IF last'.answer THEN Copies(heap, id) - 1 ELSE Copies(heap, id)
              /\ \A other \in Ids \ {id} : Copies(heap', other) = Copies(heap, other)
              /\ id \notin doubled => Copies(heap', id) = 0
<1>1. ASSUME WholeInv, Next PROVE Exact
  <2> USE DEF WholeInv
  <2>1. CASE Loops
    <3>1. run'.method # "idle"
      BY <1>1, <2>1, LoopsKeepContent
    <3> QED  BY <3>1, IdleRun
  <2>2. ASSUME NEW t \in Task, AddTask(t) PROVE Exact
    <3>1. run'.method = "add"
      BY <2>2 DEF AddTask, Start
    <3> QED  BY <3>1, IdleRun
  <2>3. CASE TakeFirst \/ \E id \in Ids : DeleteFound(id)
    <3>1. run'.method # "idle"
      BY <1>1, <2>3, StartsKeepContent
    <3> QED  BY <3>1, IdleRun
  <2>4. CASE NewReturns \/ AddReturns \/ TakeReturns \/ TakeFromEmpty
    <3>1. last'.op # "delete"
      BY <1>1, <2>4 DEF NewReturns, AddReturns, TakeReturns, TakeFromEmpty, Call, NewIsFirst
    <3> QED  BY <3>1
  <2>5. CASE DeleteReturns
    <3> DEFINE id == run.arg
    <3>1. /\ run.method = "delete" /\ heap' = PopItem(heap) /\ index' = Forget(id)
          /\ last' = Call("delete", id, TRUE) /\ Undouble
      BY <2>5 DEF DeleteReturns
    <3>2. /\ HeapOK(heap) /\ Size(heap) > 0 /\ id \in Ids
          /\ heap.item[LastItem(heap)].task.id = id
      BY <1>1, <3>1, PositionsAreHeapOK DEF HeapInv, RunInv
    <3>3. \A k : Copies(heap', k) = Copies(heap, k) - IF id = k THEN 1 ELSE 0
      BY <3>1, <3>2, CopiesWithoutLast
    <3>4. \A k : Copies(heap, k) \in Nat
      BY <3>2, CopiesAre
    <3>5. last'.arg = id /\ last'.answer = TRUE
      BY <3>1 DEF Call
    <3>6. ASSUME id \notin doubled PROVE Copies(heap', id) = 0
      <4>1. /\ HeapOK(heap') /\ LastItem(heap) \in InHeap(heap)
            /\ InHeap(heap') = InHeap(heap) \ {LastItem(heap)}
            /\ \A y \in Items \ {LastItem(heap)} : heap'.item[y] = heap.item[y]
        BY <3>1, <3>2, PopResult
      <4>2. \A y \in InHeap(heap) : y \in Items
        BY <3>2, TasksInHeap
      <4>3. \A y \in InHeap(heap) : heap.item[y].task.id = id => y = LastItem(heap)
        BY <1>1, <3>2, <3>6, <4>1 DEF EntriesComplete
      <4> QED  BY <4>1, <4>2, <4>3, CopiesAre
    <3> HIDE DEF id
    <3> QED  BY <3>3, <3>4, <3>5, <3>6
  <2>6. ASSUME NEW id \in Ids, DeleteMissing(id) PROVE Exact
    <3>1. run = Idle /\ index[id] = Nil /\ last' = Call("delete", id, FALSE) /\ heap' = heap
      BY <2>6 DEF DeleteMissing
    <3>2. last'.arg = id /\ last'.answer = FALSE
      BY <3>1 DEF Call
    <3>3. ASSUME id \notin doubled PROVE Copies(heap, id) = 0
      <4>1. HeapOK(heap) /\ \A y \in InHeap(heap) : y \in Items
        BY <1>1, <3>1, IdleHeap, TasksInHeap
      <4>2. \A y \in InHeap(heap) : heap.item[y].task.id # id
        BY <1>1, <3>1, <3>3, <4>1, IdleRun, ItemsAssumption DEF EntriesComplete
      <4> QED  BY <4>1, <4>2, CopiesAre
    <3> QED  BY <3>1, <3>2, <3>3
  <2> HIDE DEF Exact
  <2> QED  BY <1>1, <2>1, <2>2, <2>3, <2>4, <2>5, <2>6 DEF Next, Returns
<1>2. WholeInv /\ [Next]_vars => [Exact]_vars
  BY <1>1
<1> QED  BY <1>2, WholeInvHolds, PTL DEF Spec, DeleteIsExact

-----------------------------------------------------------------------------
(* The array implements the list                                            *)

(* The tasks of the items of S, as a bag.                                   *)
BagOf(h, S) == [t \in Task |-> Cardinality({x \in S : h.item[x].task = t})]

(* The task each id leads to.                                               *)
EntriesOf(h, ix) == [id \in Ids |-> IF ix[id] = Nil THEN Nil ELSE h.item[ix[id]].task]

Content == [pq |-> BagOf(heap, Listed), index |-> EntriesOf(heap, index)]

(* T has the items of S, with the same tasks, and x with the task u.        *)
OneMore(g, T, h, S, x, u) ==
    /\ IsFiniteSet(S) /\ x \notin S /\ T = S \cup {x}
    /\ \A y \in S : g.item[y].task = h.item[y].task
    /\ u \in Task /\ g.item[x].task = u

LEMMA BagAdds ==
    ASSUME NEW g, NEW T, NEW h, NEW S, NEW x, NEW u, OneMore(g, T, h, S, x, u)
    PROVE  /\ BagOf(g, T) = [BagOf(h, S) EXCEPT ![u] = @ + 1]
           /\ BagOf(h, S) = [BagOf(g, T) EXCEPT ![u] = @ - 1]
<1> USE DEF OneMore
<1> DEFINE F == BagOf(h, S)
           G == BagOf(g, T)
<1>1. ASSUME NEW t \in Task PROVE F[t] \in Nat /\ G[t] = F[t] + IF t = u THEN 1 ELSE 0
  <2> DEFINE A == {y \in S : h.item[y].task = t}
             B == {y \in T : g.item[y].task = t}
  <2>1. IsFiniteSet(A)
    BY FS_Subset
  <2>2. G[t] = Cardinality(B) /\ F[t] = Cardinality(A)
    BY Zenon DEF BagOf
  <2>3. B = IF t = u THEN A \cup {x} ELSE A
    OBVIOUS
  <2>4. x \notin A
    OBVIOUS
  <2> HIDE DEF A, B
  <2>5. Cardinality(A \cup {x}) = Cardinality(A) + 1 /\ Cardinality(A) \in Nat
    BY <2>1, <2>4, FS_AddElement, FS_CardinalityType
  <2> QED  BY <2>2, <2>3, <2>5
<1>2. G = [t \in Task |-> G[t]] /\ F = [t \in Task |-> F[t]]
  BY Zenon DEF BagOf
<1> HIDE DEF F, G
<1>3. u \in Task /\ \A t \in Task : t # u => G[t] = F[t]
  BY <1>1
<1>4. G[u] = F[u] + 1 /\ F[u] = G[u] - 1
  BY <1>1, <1>3
<1>5. G = [F EXCEPT ![u] = @ + 1]
  BY <1>2, <1>3, <1>4
<1>6. F = [G EXCEPT ![u] = @ - 1]
  BY <1>2, <1>3, <1>4
<1> QED  BY <1>5, <1>6 DEF F, G

(* What an id leads to is in the list.                                      *)
LEMMA Leads ==
    ASSUME HeapInv
    PROVE  /\ HeapOK(heap) /\ IsFiniteSet(Listed) /\ Listed \subseteq InHeap(heap)
           /\ index \in [Ids -> Items \cup {Nil}]
           /\ \A x \in InHeap(heap) :
                 x \in Items /\ heap.item[x].task \in Task /\ heap.item[x].task.id \in Ids
           /\ \A id \in Ids : index[id] # Nil =>
                 index[id] \in InHeap(heap) /\ heap.item[index[id]].task.id = id
<1>1. HeapOK(heap) /\ IsFiniteSet(InHeap(heap))
  BY PositionsAreHeapOK, InHeapFinite DEF HeapInv
<1>2. Listed \subseteq InHeap(heap)
  BY DEF Listed
<1>3. IsFiniteSet(Listed)
  BY <1>1, <1>2, FS_Subset
<1>4. \A x \in InHeap(heap) :
          x \in Items /\ heap.item[x].task \in Task /\ heap.item[x].task.id \in Ids
  BY <1>1, TasksInHeap
<1>5. /\ index \in [Ids -> Items \cup {Nil}]
      /\ \A id \in Ids : index[id] # Nil =>
            index[id] \in InHeap(heap) /\ heap.item[index[id]].task.id = id
  BY PositionsAreHeapOK DEF HeapInv
<1> QED  BY <1>1, <1>2, <1>3, <1>4, <1>5

(* What no caller sees.                                                     *)
LEMMA ContentStays ==
    ASSUME HeapInv, Listed' = Listed, index' = index,
           \A x \in InHeap(heap) : heap'.item[x].task = heap.item[x].task
    PROVE  Content' = Content
<1>1. Listed \subseteq InHeap(heap) /\ \A id \in Ids : index[id] # Nil => index[id] \in InHeap(heap)
  BY Leads
<1>2. ASSUME NEW t \in Task
      PROVE  {x \in Listed : heap'.item[x].task = t} = {x \in Listed : heap.item[x].task = t}
  BY <1>1
<1>3. BagOf(heap', Listed) = BagOf(heap, Listed)
  BY <1>2, Zenon DEF BagOf
<1>4. EntriesOf(heap', index) = EntriesOf(heap, index)
  BY <1>1 DEF EntriesOf
<1>5. Content' = [pq |-> BagOf(heap', Listed'), index |-> EntriesOf(heap', index')]
  BY DEF Content, BagOf, EntriesOf
<1> QED  BY <1>3, <1>4, <1>5 DEF Content

(* New: an item and an entry for each task of the given list.               *)
LEMMA MapsInit == Init => List!Init
<1> SUFFICES ASSUME Init PROVE List!Init
  OBVIOUS
<1>1. PICK tasks \in InitialLists : \E xs \in Injections(Len(tasks)) : New(tasks, xs)
  BY DEF Init
<1>2. PICK xs \in Injections(Len(tasks)) : New(tasks, xs)
  BY <1>1
<1> DEFINE n == Len(tasks)
<1>3. /\ n \in Nat /\ DOMAIN tasks = 1..n /\ xs \in [1..n -> Items]
      /\ \A i, j \in 1..n : xs[i] = xs[j] => i = j
  BY <1>2, InitialListsAssumption DEF Injections
<1>4. /\ DOMAIN heap.pq = 0..(n - 1) /\ \A i \in 0..(n - 1) : heap.pq[i] = xs[i + 1]
      /\ heap.item = Unordered(tasks, xs).item
  BY <1>2 DEF New, Unordered
<1>5. \A i \in 1..n : heap.item[xs[i]].task = tasks[i]
  <2> SUFFICES ASSUME NEW i \in 1..n PROVE heap.item[xs[i]].task = tasks[i]
    OBVIOUS
  <2>1. (CHOOSE j \in DOMAIN tasks : xs[j] = xs[i]) = i
    BY <1>3
  <2>2. xs[i] \in Items /\ \E j \in DOMAIN tasks : xs[j] = xs[i]
    BY <1>3
  <2>3. heap.item[xs[i]] = [task |-> tasks[i], index |-> i - 1]
    BY <1>4, <2>1, <2>2 DEF Unordered
  <2> QED  BY <2>3
<1>6. Listed = InHeap(heap) /\ \A x : x \in Listed <=> \E i \in 1..n : x = xs[i]
  <2>1. Listed = InHeap(heap)
    BY <1>2 DEF New, SinkNode, Start, Listed
  <2>2. ASSUME NEW i \in 1..n PROVE xs[i] \in InHeap(heap)
    <3>1. i - 1 \in 0..(n - 1) /\ (i - 1) + 1 = i
      BY <1>3
    <3> QED  BY <1>4, <3>1 DEF InHeap
  <2>3. ASSUME NEW x \in InHeap(heap) PROVE \E i \in 1..n : x = xs[i]
    <3>1. PICK k \in 0..(n - 1) : x = heap.pq[k]
      BY <1>4 DEF InHeap
    <3>2. k + 1 \in 1..n /\ x = xs[k + 1]
      BY <1>3, <1>4, <3>1
    <3> QED  BY <3>2
  <2> QED  BY <2>1, <2>2, <2>3
<1>7. ASSUME NEW t \in Task
      PROVE  Cardinality({x \in Listed : heap.item[x].task = t}) =
               Cardinality({i \in DOMAIN tasks : tasks[i] = t})
  <2> DEFINE A == {i \in DOMAIN tasks : tasks[i] = t}
             B == {x \in Listed : heap.item[x].task = t}
             F == [i \in A |-> xs[i]]
  <2>1. F \in Bijection(A, B)
    <3>1. F \in [A -> B] /\ \A i, j \in A : F[i] = F[j] => i = j
      BY <1>3, <1>5, <1>6
    <3>2. \A x \in B : \E i \in A : F[i] = x
      BY <1>3, <1>5, <1>6
    <3> HIDE DEF A, B, F
    <3> QED  BY <3>1, <3>2, Fun_IsBij
  <2>2. IsFiniteSet(A)
    <3>1. IsFiniteSet(1..n) /\ A \subseteq 1..n
      BY <1>3, FS_Interval
    <3> QED  BY <3>1, FS_Subset
  <2> HIDE DEF A, B, F
  <2>3. ExistsBijection(A, B)
    BY <2>1, Fun_ExistsBij
  <2>4. Cardinality(B) = Cardinality(A)
    BY <2>2, <2>3, FS_Bijection
  <2> QED  BY <2>4 DEF A, B
<1>8. ASSUME NEW id \in Ids
      PROVE  (IF index[id] = Nil THEN Nil ELSE heap.item[index[id]].task) =
               IF \E i \in DOMAIN tasks : tasks[i].id = id THEN tasks[Latest(tasks, id)] ELSE Nil
  <2>1. CASE \E i \in DOMAIN tasks : tasks[i].id = id
    <3>1. Latest(tasks, id) \in 1..n
      BY <1>3, <2>1, LatestExists
    <3>2. index[id] = xs[Latest(tasks, id)]
      BY <1>2, <2>1 DEF New
    <3>3. index[id] # Nil
      BY <1>3, <3>1, <3>2, ItemsAssumption
    <3> QED  BY <1>5, <2>1, <3>1, <3>2, <3>3
  <2>2. CASE ~\E i \in DOMAIN tasks : tasks[i].id = id
    BY <1>2, <2>2 DEF New
  <2> QED  BY <2>1, <2>2
<1>9. Content = List!ListOf(tasks)
  <2>1. BagOf(heap, Listed) = [t \in Task |-> Cardinality({i \in DOMAIN tasks : tasks[i] = t})]
    BY <1>7, Zenon DEF BagOf
  <2>2. EntriesOf(heap, index) = [id \in Ids |-> IF \E i \in DOMAIN tasks : tasks[i].id = id
                                                 THEN tasks[Latest(tasks, id)] ELSE Nil]
    BY <1>8, Zenon DEF EntriesOf
  <2> DEFINE X == [t \in Task |-> Cardinality({i \in DOMAIN tasks : tasks[i] = t})]
             Y == [id \in Ids |-> IF \E i \in DOMAIN tasks : tasks[i].id = id
                                   THEN tasks[Latest(tasks, id)] ELSE Nil]
  <2>3. List!ListOf(tasks) = [pq |-> X, index |-> Y]
    BY Zenon DEF List!ListOf, List!Task, Task, List!Latest, Latest, List!Cardinality, Cardinality
  <2>4. BagOf(heap, Listed) = X /\ EntriesOf(heap, index) = Y
    BY <2>1, <2>2
  <2> HIDE DEF X, Y
  <2> QED  BY <2>3, <2>4 DEF Content
<1>10. last = List!Call("new", Nil, Nil)
  BY DEF Init, Call, List!Call
<1> QED  BY <1>9, <1>10, Zenon DEF List!Init, Content, BagOf, EntriesOf

(* A step that no caller sees.                                              *)
LEMMA MapsStutter ==
    ASSUME HeapInv, Listed' = Listed, UNCHANGED <<index, last>>,
           \A x \in InHeap(heap) : heap'.item[x].task = heap.item[x].task
    PROVE  UNCHANGED List!vars
<1>1. Content' = Content
  BY ContentStays
<1> QED  BY <1>1, Zenon DEF List!vars, Content, BagOf, EntriesOf

LEMMA MapsAddTask == ASSUME NEW t \in Task, HeapInv, AddTask(t) PROVE UNCHANGED List!vars
<1>1. PICK x \in Items : /\ IsFree(x) /\ heap' = PushItem(heap, x, t)
                         /\ run' = Start("add", x, "up", Size(heap))
  BY DEF AddTask
<1>2. run = Idle /\ UNCHANGED <<index, last>>
  BY DEF AddTask
<1>3. HeapOK(heap) /\ x \notin InHeap(heap) /\ \A y \in InHeap(heap) : y \in Items
  BY <1>1, <1>2, IdleHeap, TasksInHeap DEF IsFree
<1>4. /\ InHeap(heap') = InHeap(heap) \cup {x}
      /\ \A y \in Items \ {x} : heap'.item[y] = heap.item[y]
  BY <1>1, <1>3, PushResult
<1>5. run'.method = "add" /\ run'.arg = x
  BY <1>1 DEF Start
<1>6. Listed' = Listed
  <2>1. Listed = InHeap(heap)
    BY <1>2, IdleRun DEF Listed
  <2>2. Listed' = InHeap(heap') \ {x}
    BY <1>5 DEF Listed, InHeap
  <2> QED  BY <1>3, <1>4, <2>1, <2>2
<1> QED  BY <1>2, <1>3, <1>4, <1>6, MapsStutter

LEMMA MapsSameContent ==
    ASSUME HeapInv, SameContent, UNCHANGED <<index, last>>,
           run.method = "add" <=> run'.method = "add", run.method = "add" => run'.arg = run.arg
    PROVE  UNCHANGED List!vars
<1>1. Listed' = Listed
  BY DEF Listed, SameContent
<1> QED  BY <1>1, Leads, MapsStutter DEF SameContent

LEMMA MapsAddReturns == ASSUME HeapInv, AddReturns PROVE List!Next
<1> DEFINE x == run.arg
           t == heap.item[x].task
<1>1. /\ run.method = "add" /\ run' = Idle /\ heap' = heap /\ index' = Enter(t.id, x)
      /\ last' = Call("add", t, Nil)
  BY DEF AddReturns
<1>2. x \in InHeap(heap)
  BY <1>1 DEF HeapInv, RunInv
<1>3. /\ Listed = InHeap(heap) \ {x} /\ IsFiniteSet(Listed) /\ Listed' = Listed \cup {x}
      /\ x \in Items /\ t \in Task /\ t.id \in Ids /\ index \in [Ids -> Items \cup {Nil}]
      /\ x # Nil
  BY <1>1, <1>2, Leads, IdleRun, ItemsAssumption DEF Listed, InHeap
<1>4. BagOf(heap', Listed') = [BagOf(heap, Listed) EXCEPT ![t] = @ + 1]
  <2>1. OneMore(heap', Listed', heap, Listed, x, t)
    BY <1>1, <1>3 DEF OneMore
  <2> HIDE DEF t, x
  <2> QED  BY <2>1, BagAdds
<1>5. EntriesOf(heap', index') = [EntriesOf(heap, index) EXCEPT ![t.id] = t]
  BY <1>1, <1>3 DEF EntriesOf, Enter
<1>6. Content' = [pq |-> BagOf(heap', Listed'), index |-> EntriesOf(heap', index')]
  BY DEF Content, BagOf, EntriesOf
<1>7. Content' = List!Add(Content, t)
  <2> HIDE DEF t, x
  <2>1. Content.pq = BagOf(heap, Listed) /\ Content.index = EntriesOf(heap, index)
    BY DEF Content
  <2> QED  BY <1>4, <1>5, <1>6, <2>1, Zenon DEF List!Add
<1>8. last' = List!Call("add", t, Nil)
  BY <1>1 DEF Call, List!Call
<1>9. PICK u \in List!Task : u = t
  BY <1>3 DEF Task, List!Task
<1> HIDE DEF t, x
<1>10. Content' = List!Add(Content, u) /\ last' = List!Call("add", u, Nil)
  BY <1>7, <1>8, <1>9
<1>11. List!AddTask(u)
  BY <1>10, Zenon DEF List!AddTask, Content, BagOf, EntriesOf
<1> QED  BY <1>11 DEF List!Next

(* The list without the item that was cut off.                              *)
LEMMA ContentCut ==
    ASSUME HeapInv, run.method \in {"take", "delete"}, run' = Idle, heap' = PopItem(heap),
           NEW t \in Task, heap.item[LastItem(heap)].task = t, index' = Forget(t.id)
    PROVE  /\ Content'.pq = [Content.pq EXCEPT ![t] = @ - 1]
           /\ Content'.index = [Content.index EXCEPT ![t.id] = Nil]
           /\ Content' = [pq |-> Content'.pq, index |-> Content'.index]
           /\ LastItem(heap) \in Listed
<1> DEFINE x == LastItem(heap)
<1>1. HeapOK(heap) /\ Size(heap) > 0
  BY PositionsAreHeapOK DEF HeapInv, RunInv
<1>2. /\ x \in InHeap(heap) /\ InHeap(heap') = InHeap(heap) \ {x}
      /\ \A y \in Items \ {x} : heap'.item[y] = heap.item[y]
  BY <1>1, PopResult
<1> HIDE DEF x
<1>3. Listed = InHeap(heap) /\ Listed' = InHeap(heap')
  BY IdleRun DEF Listed, InHeap
<1>4. heap.item[x].task = t
  BY DEF x
<1>5. /\ \A y \in InHeap(heap) : y \in Items
      /\ index \in [Ids -> Items \cup {Nil}] /\ IsFiniteSet(Listed)
      /\ \A id \in Ids : index[id] # Nil =>
            index[id] \in InHeap(heap) /\ heap.item[index[id]].task.id = id
      /\ t.id \in Ids
  BY Leads DEF Task
<1>6. BagOf(heap', Listed') = [BagOf(heap, Listed) EXCEPT ![t] = @ - 1]
  <2>1. /\ \A y \in Listed' : heap.item[y].task = heap'.item[y].task
        /\ Listed = Listed' \cup {x} /\ x \notin Listed'
    BY <1>2, <1>3, <1>5
  <2>2. IsFiniteSet(Listed')
    BY <1>2, <1>3, <1>5, FS_Subset
  <2>3. OneMore(heap, Listed, heap', Listed', x, t)
    BY <1>4, <2>1, <2>2 DEF OneMore
  <2> QED  BY <2>3, BagAdds
<1>7. EntriesOf(heap', index') = [EntriesOf(heap, index) EXCEPT ![t.id] = Nil]
  <2>1. ASSUME NEW k \in Ids
        PROVE  EntriesOf(heap', index')[k] = IF k = t.id THEN Nil ELSE EntriesOf(heap, index)[k]
    <3>1. index'[k] = IF k = t.id THEN Nil ELSE index[k]
      BY <1>5 DEF Forget
    <3>2. k # t.id /\ index[k] # Nil => heap'.item[index[k]] = heap.item[index[k]]
      BY <1>2, <1>4, <1>5
    <3> QED  BY <3>1, <3>2 DEF EntriesOf
  <2>2. /\ EntriesOf(heap', index') = [k \in Ids |-> EntriesOf(heap', index')[k]]
        /\ EntriesOf(heap, index) = [k \in Ids |-> EntriesOf(heap, index)[k]]
    BY Zenon DEF EntriesOf
  <2> DEFINE F == EntriesOf(heap', index')
             G == EntriesOf(heap, index)
  <2> HIDE DEF F, G
  <2>3. F = [G EXCEPT ![t.id] = Nil]
    BY <2>1, <2>2 DEF F, G
  <2> QED  BY <2>3 DEF F, G
<1>8. Content' = [pq |-> BagOf(heap', Listed'), index |-> EntriesOf(heap', index')]
  BY DEF Content, BagOf, EntriesOf
<1>9. Content.pq = BagOf(heap, Listed) /\ Content.index = EntriesOf(heap, index)
  BY DEF Content
<1>10. Content'.pq = BagOf(heap', Listed') /\ Content'.index = EntriesOf(heap', index')
  BY <1>8
<1> QED  BY <1>2, <1>3, <1>6, <1>7, <1>8, <1>9, <1>10 DEF x

LEMMA MapsDeleteReturns == ASSUME HeapInv, DeleteReturns PROVE List!Next
<1>1. /\ run.method = "delete" /\ run' = Idle /\ heap' = PopItem(heap)
      /\ index' = Forget(run.arg) /\ last' = Call("delete", run.arg, TRUE)
  BY DEF DeleteReturns
<1>2. /\ run.arg \in Ids /\ index[run.arg] # Nil /\ LastItem(heap) = index[run.arg]
  BY <1>1 DEF HeapInv, RunInv
<1>3. PICK id \in Ids : id = run.arg
  BY <1>2
<1>4. PICK t \in Task : t = heap.item[index[id]].task /\ t.id = id
  BY <1>2, <1>3, Leads
<1>5. Content.index[id] = t /\ t # Nil
  BY <1>2, <1>3, <1>4, NilAssumption DEF Content, EntriesOf, Task
<1>6. /\ Content'.pq = [Content.pq EXCEPT ![t] = @ - 1]
      /\ Content'.index = [Content.index EXCEPT ![id] = Nil]
      /\ Content' = [pq |-> Content'.pq, index |-> Content'.index]
  BY <1>1, <1>2, <1>3, <1>4, ContentCut
<1>7. Content' = List!DeleteIfExist(Content, id)
  BY <1>5, <1>6, Zenon DEF List!DeleteIfExist
<1>8. last' = List!Call("delete", id, Content.index[id] # Nil)
  <2>1. (Content.index[id] # Nil) = TRUE
    BY <1>5
  <2> QED  BY <1>1, <1>3, <2>1, Zenon DEF Call, List!Call
<1>9. List!DeleteId(id)
  BY <1>7, <1>8, Zenon DEF List!DeleteId, Content, BagOf, EntriesOf
<1> QED  BY <1>9 DEF List!Next

LEMMA MapsDeleteMissing == ASSUME NEW id \in Ids, HeapInv, DeleteMissing(id) PROVE List!Next
<1>1. run = Idle /\ index[id] = Nil /\ last' = Call("delete", id, FALSE) /\ UNCHANGED <<heap, index, run>>
  BY DEF DeleteMissing
<1>2. Content' = Content /\ Content.index[id] = Nil
  BY <1>1 DEF Content, BagOf, EntriesOf, Listed
<1>3. Content' = List!DeleteIfExist(Content, id)
  BY <1>2, Zenon DEF List!DeleteIfExist
<1>4. last' = List!Call("delete", id, Content.index[id] # Nil)
  <2>1. (Content.index[id] # Nil) = FALSE
    BY <1>2
  <2> QED  BY <1>1, <2>1, Zenon DEF Call, List!Call
<1>5. List!DeleteId(id)
  BY <1>3, <1>4, Zenon DEF List!DeleteId, Content, BagOf, EntriesOf
<1> QED  BY <1>5 DEF List!Next

(* Whose tasks the bag counts.                                              *)
LEMMA BagHas ==
    ASSUME HeapInv, NEW t \in Task
    PROVE  Content.pq[t] > 0 <=> \E x \in Listed : heap.item[x].task = t
<1> DEFINE A == {x \in Listed : heap.item[x].task = t}
<1>1. Content.pq[t] = Cardinality(A)
  BY Zenon DEF Content, BagOf
<1>2. IsFiniteSet(A)
  BY Leads, FS_Subset
<1>3. A = {} <=> ~\E x \in Listed : heap.item[x].task = t
  OBVIOUS
<1> HIDE DEF A
<1>4. Cardinality(A) \in Nat /\ (Cardinality(A) = 0 <=> A = {})
  BY <1>2, FS_CardinalityType, FS_EmptySet
<1> QED  BY <1>1, <1>3, <1>4

LEMMA MapsTakeReturns == ASSUME HeapInv, TakeReturns PROVE List!Next
<1> DEFINE n == Size(heap) - 1
           x == LastItem(heap)
<1>1. /\ run.method = "take" /\ run' = Idle /\ heap' = PopItem(heap)
      /\ index' = Forget(heap.item[x].task.id) /\ last' = Call("take", Nil, heap.item[x].task)
  BY DEF TakeReturns
<1>2. /\ HeapOK(heap) /\ Size(heap) > 0 /\ Listed = InHeap(heap)
      /\ \A i \in DOMAIN heap.pq : Keys(heap)[n] <= Keys(heap)[i]
  BY <1>1, Leads DEF HeapInv, RunInv, Listed
<1>3. n \in DOMAIN heap.pq /\ x = heap.pq[n] /\ x \in InHeap(heap)
  <2>1. n \in DOMAIN heap.pq
    BY <1>2 DEF HeapOK
  <2> QED  BY <2>1 DEF LastItem, InHeap
<1>4. PICK t \in Task : t = heap.item[x].task
  BY <1>3, Leads
<1>5. /\ Content'.pq = [Content.pq EXCEPT ![t] = @ - 1]
      /\ Content'.index = [Content.index EXCEPT ![t.id] = Nil]
      /\ Content' = [pq |-> Content'.pq, index |-> Content'.index]
  BY <1>1, <1>4, ContentCut
<1>6. Content.pq[t] > 0
  BY <1>2, <1>3, <1>4, BagHas
<1>7. ASSUME NEW u \in Task, Content.pq[u] > 0 PROVE t.execTime <= u.execTime
  <2>1. PICK y \in InHeap(heap) : heap.item[y].task = u
    BY <1>2, <1>7, BagHas
  <2>2. PICK i \in DOMAIN heap.pq : y = heap.pq[i]
    BY DEF InHeap
  <2>3. Keys(heap)[i] = u.execTime
    BY <2>1, <2>2 DEF Keys
  <2>4. Keys(heap)[n] = t.execTime
    BY <1>3, <1>4 DEF Keys
  <2> QED  BY <1>2, <2>2, <2>3, <2>4
<1>8. t \in List!Firsts(Content)
  BY <1>6, <1>7, Zenon DEF List!Firsts, List!Has, List!Task, Task
<1>9. Content' = List!Take(Content, t)
  BY <1>5, Zenon DEF List!Take
<1>10. last' = List!Call("take", Nil, t)
  BY <1>1, <1>4 DEF Call, List!Call
<1>11. List!TakeFirst
  BY <1>8, <1>9, <1>10, Zenon DEF List!TakeFirst, Content, BagOf, EntriesOf
<1> QED  BY <1>11 DEF List!Next

LEMMA MapsTakeFromEmpty == ASSUME HeapInv, TakeFromEmpty PROVE List!Next
<1>1. run = Idle /\ Size(heap) = 0 /\ last' = Call("take", Nil, Nil) /\ UNCHANGED <<heap, index, run>>
  BY DEF TakeFromEmpty
<1>2. Listed = {}
  BY <1>1, IdleHeap DEF Listed, InHeap
<1>3. \A t \in Task : ~(Content.pq[t] > 0)
  BY <1>2, BagHas
<1>4. List!IsEmpty(Content)
  BY <1>3, Zenon DEF List!IsEmpty, List!Has, List!Task, Task
<1>5. Content' = Content
  BY <1>1 DEF Content, BagOf, EntriesOf, Listed
<1>6. last' = List!Call("take", Nil, Nil)
  BY <1>1 DEF Call, List!Call
<1>7. List!TakeFromEmpty
  BY <1>4, <1>5, <1>6, Zenon DEF List!TakeFromEmpty, Content, BagOf, EntriesOf
<1> QED  BY <1>7 DEF List!Next

(* task_heap.go implements the list of PrioritizedTaskList: seen from its   *)
(* caller the bag of tasks and the entries change with the calls as the     *)
(* specification says, Take gives an earliest task, and no caller sees the  *)
(* swaps in between.                                                        *)
THEOREM HeapImplementsList == Spec => ImplementsList
<1>1. HeapInv /\ Next => List!Next \/ UNCHANGED List!vars
  <2> SUFFICES ASSUME HeapInv, Next PROVE List!Next \/ UNCHANGED List!vars
    OBVIOUS
  <2>1. ASSUME NEW t \in Task, AddTask(t) PROVE UNCHANGED List!vars
    BY <2>1, MapsAddTask
  <2>2. CASE TakeFirst \/ \E id \in Ids : DeleteFound(id)
    BY <2>2, StartsKeepContent, IdleRun, MapsSameContent
  <2>3. CASE Loops
    BY <2>3, LoopsKeepContent, MapsSameContent
  <2>4. CASE NewReturns
    BY <2>4, IdleRun, MapsSameContent DEF NewReturns, SameContent
  <2>5. ASSUME NEW id \in Ids, DeleteMissing(id) PROVE List!Next
    BY <2>5, MapsDeleteMissing
  <2> QED  BY <2>1, <2>2, <2>3, <2>4, <2>5, MapsAddReturns, MapsDeleteReturns, MapsTakeReturns,
              MapsTakeFromEmpty DEF Next, Returns
<1>2. HeapInv /\ UNCHANGED vars => UNCHANGED List!vars
  <2> SUFFICES ASSUME HeapInv, UNCHANGED vars PROVE UNCHANGED List!vars
    OBVIOUS
  <2>1. SameContent /\ UNCHANGED <<index, last, run>>
    BY DEF vars, SameContent
  <2> QED  BY <2>1, MapsSameContent
<1>3. HeapInv /\ [Next]_vars => [List!Next]_(List!vars)
  BY <1>1, <1>2
<1> QED  BY <1>3, HeapInvHolds, MapsInit, PTL DEF Spec, ImplementsList, List!Spec

-----------------------------------------------------------------------------
(* The loops end                                                            *)

(* A turn ends the loops, or passes from sinking to rising, or goes on to   *)
(* an earlier node of heap.Init, or moves the item up or down.              *)
Advances ==
    \/ run'.loop = "none"
    \/ run.loop = "down" /\ run'.loop = "up"
    \/ run.loop = "up" /\ run'.loop = "up" /\ run'.at < run.at
    \/ /\ run.loop = "down" /\ run'.loop = "down"
       /\ \/ run'.from < run.from
          \/ run'.from = run.from /\ run'.at > run.at

(* No method of task_heap.go loops for ever with the mutex: while a loop runs *)
(* each step advances, in an array that keeps its size and between the ends *)
(* of the array, so that it ends after finitely many.                       *)
THEOREM LoopsEnd ==
    Spec => [][run.loop # "none" =>
                 /\ Advances
                 /\ Size(heap') = Size(heap) /\ run.at \in 0..(Size(heap) - 1)
                 /\ run.loop = "down" => run.from \in Nat]_vars
<1> DEFINE Good == run.loop # "none" =>
                     /\ Advances
                     /\ Size(heap') = Size(heap) /\ run.at \in 0..(Size(heap) - 1)
                     /\ run.loop = "down" => run.from \in Nat
<1>1. ASSUME HeapInv, Next PROVE Good
  <2> SUFFICES ASSUME run.loop # "none"
               PROVE  /\ Advances
                      /\ Size(heap') = Size(heap) /\ run.at \in 0..(Size(heap) - 1)
                      /\ run.loop = "down" => run.from \in Nat
    OBVIOUS
  <2>1. Loops
    BY <1>1, IdleRun DEF Next, Returns, AddTask, DeleteFound, DeleteMissing, TakeFirst,
                         TakeFromEmpty, NewReturns, AddReturns, DeleteReturns, TakeReturns
  <2>2. /\ HeapOK(heap) /\ run \in Run /\ Size(heap) \in Nat
        /\ DOMAIN heap.pq = 0..(Size(heap) - 1) /\ Limit \in Int /\ Limit <= Size(heap)
    BY <1>1, PositionsAreHeapOK, LimitIs DEF HeapInv
  <2>3. /\ run.loop = "up" => run.at \in 0..(Limit - 1)
        /\ run.loop = "down" => run.at \in DOMAIN heap.pq /\ run.from \in 0..run.at
    BY <1>1 DEF HeapInv, RunInv
  <2>4. run.loop \in {"up", "down"}
    BY <2>2 DEF Run
  <2>5. run.at \in 0..(Size(heap) - 1) /\ (run.loop = "down" => run.from \in Nat)
    BY <2>2, <2>3, <2>4
  <2>6. CASE Rise
    <3>1. /\ run.loop = "up" /\ Rises /\ heap' = Swap(heap, Parent(run.at), run.at)
          /\ run' = [run EXCEPT !.at = Parent(run.at)]
      BY <2>6 DEF Rise
    <3>2. Parent(run.at) \in DOMAIN heap.pq /\ Parent(run.at) < run.at
      BY <2>2, <2>5, <3>1, ParentIs DEF Rises
    <3>3. Size(heap') = Size(heap)
      BY <3>1 DEF Swap, Size
    <3>4. Advances
      BY <2>2, <3>1, <3>2 DEF Advances, Run
    <3> QED  BY <2>5, <3>3, <3>4
  <2>7. CASE Sink
    <3> DEFINE j == EarlierChild(run.at)
    <3>1. /\ run.loop = "down" /\ heap' = Swap(heap, run.at, j) /\ run' = [run EXCEPT !.at = j]
      BY <2>7 DEF Sink
    <3>2. j \in {2 * run.at + 1, 2 * run.at + 2}
      BY DEF EarlierChild
    <3>3. j > run.at
      BY <2>5, <3>2
    <3>4. Size(heap') = Size(heap)
      BY <3>1 DEF Swap, Size
    <3> HIDE DEF j
    <3>5. Advances
      BY <2>2, <3>1, <3>3 DEF Advances, Run
    <3> QED  BY <2>5, <3>4, <3>5
  <2>8. CASE RiseEnds
    BY <2>2, <2>5, <2>8 DEF RiseEnds, Advances, Run
  <2>9. CASE SinkEnds
    <3>1. run.loop = "down" /\ heap' = heap /\ run' = AfterSinking(run)
      BY <2>9 DEF SinkEnds
    <3>2. CASE run.method = "new"
      <4>1. run'.from = run.from - 1 /\ run'.loop \in {"none", "down"}
        BY <3>1, <3>2 DEF AfterSinking, SinkNode, Start
      <4>2. run'.from < run.from
        BY <2>5, <3>1, <4>1
      <4>3. run'.loop = "down" => Advances
        BY <3>1, <4>2, Zenon DEF Advances
      <4>4. run'.loop = "none" => Advances
        BY Zenon DEF Advances
      <4> QED  BY <2>5, <3>1, <4>1, <4>3, <4>4
    <3>3. CASE run.method # "new"
      <4>1. run'.loop \in {"none", "up"}
        BY <2>2, <3>1, <3>3 DEF AfterSinking, Run
      <4>2. Advances
        BY <3>1, <4>1 DEF Advances
      <4> QED  BY <2>5, <3>1, <4>2
    <3> QED  BY <3>2, <3>3
  <2> QED  BY <2>1, <2>6, <2>7, <2>8, <2>9 DEF Loops
<1>2. HeapInv /\ [Next]_vars => [Good]_vars
  BY <1>1
<1> QED  BY <1>2, HeapInvHolds, PTL DEF Spec

=============================================================================
