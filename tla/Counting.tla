------------------------------- MODULE Counting ------------------------------
(***************************************************************************)
(* Counting the places in the sets that a function maps to: the tasks of a *)
(* sequence of batches, the publications in a channel of measurements.     *)
(* The lemmas say how the count changes when a set is added, appended or   *)
(* taken from the front, for finite sets of any size.                      *)
(***************************************************************************)
EXTENDS Integers, Sequences, FunctionTheorems, FiniteSetTheorems, TLAPS

PlacesAt(k, S) == {<<k, j>> : j \in S}

Places(f) == UNION {PlacesAt(i, f[i]) : i \in DOMAIN f}

(* g has the places of f and those of S at k.                               *)
Extends(g, f, k, S) ==
    Places(g) = Places(f) \cup PlacesAt(k, S) /\ Places(f) \cap PlacesAt(k, S) = {}

(* One set has as many places as elements.                                  *)
LEMMA PlacesOfSet ==
    ASSUME NEW S, IsFiniteSet(S), NEW k
    PROVE  IsFiniteSet(PlacesAt(k, S)) /\ Cardinality(PlacesAt(k, S)) = Cardinality(S)
<1> DEFINE F == [j \in S |-> <<k, j>>]
<1>1. F \in Bijection(S, PlacesAt(k, S))
  <2>1. F \in [S -> PlacesAt(k, S)]
    BY DEF PlacesAt
  <2>2. \A i, j \in S : F[i] = F[j] => i = j
    OBVIOUS
  <2>3. \A p \in PlacesAt(k, S) : \E j \in S : F[j] = p
    BY DEF PlacesAt
  <2> HIDE DEF F
  <2> QED  BY <2>1, <2>2, <2>3, Fun_IsBij
<1>2. ExistsBijection(S, PlacesAt(k, S))
  <2> HIDE DEF F
  <2> QED  BY <1>1, Fun_ExistsBij
<1> QED  BY <1>2, FS_Bijection

(* A finite set more.                                                       *)
LEMMA CountMore ==
    ASSUME NEW f, NEW g, NEW S, IsFiniteSet(S), NEW k, Extends(g, f, k, S),
           IsFiniteSet(Places(f))
    PROVE  /\ IsFiniteSet(Places(g))
           /\ Cardinality(Places(g)) = Cardinality(Places(f)) + Cardinality(S)
<1> DEFINE P == PlacesAt(k, S)
<1>1. IsFiniteSet(P) /\ Cardinality(P) = Cardinality(S)
  BY PlacesOfSet
<1>2. Cardinality(S) \in Nat /\ Cardinality(Places(f)) \in Nat
  BY FS_CardinalityType
<1> HIDE DEF P
<1>3. Places(g) = Places(f) \cup P /\ Places(f) \cap P = {}
  BY DEF P, Extends
<1>4. /\ IsFiniteSet(Places(f) \cup P)
      /\ Cardinality(Places(f) \cup P) =
             Cardinality(Places(f)) + Cardinality(P) - Cardinality(Places(f) \cap P)
  BY <1>1, FS_Union
<1>5. Cardinality(Places(f) \cap P) = 0
  BY <1>3, FS_EmptySet
<1>6. Cardinality(Places(g)) =
          Cardinality(Places(f)) + Cardinality(P) - Cardinality(Places(f) \cap P)
  BY <1>3, <1>4, Zenon
<1>7. Cardinality(Places(g)) = Cardinality(Places(f)) + Cardinality(S)
  BY <1>1, <1>2, <1>5, <1>6
<1>8. IsFiniteSet(Places(g))
  BY <1>3, <1>4
<1> QED  BY <1>7, <1>8

(* A finite set less.                                                       *)
LEMMA CountLess ==
    ASSUME NEW f, NEW g, NEW S, IsFiniteSet(S), NEW k, Extends(g, f, k, S),
           IsFiniteSet(Places(g))
    PROVE  /\ IsFiniteSet(Places(f))
           /\ Cardinality(Places(f)) = Cardinality(Places(g)) - Cardinality(S)
<1>1. IsFiniteSet(Places(f))
  BY FS_Subset DEF Extends
<1>2. Cardinality(Places(g)) = Cardinality(Places(f)) + Cardinality(S)
  BY <1>1, CountMore
<1>3. Cardinality(S) \in Nat /\ Cardinality(Places(f)) \in Nat
  BY <1>1, FS_CardinalityType
<1>4. Cardinality(Places(f)) = Cardinality(Places(g)) - Cardinality(S)
  BY <1>2, <1>3
<1> QED  BY <1>1, <1>4

(* A set at a new argument.                                                 *)
LEMMA ExtendsAtNew ==
    ASSUME NEW f, NEW g, NEW k, k \notin DOMAIN f, DOMAIN g = DOMAIN f \cup {k},
           \A i \in DOMAIN f : g[i] = f[i]
    PROVE  Extends(g, f, k, g[k])
  BY DEF Extends, Places, PlacesAt

(* A set where there was none.                                              *)
LEMMA ExtendsAtEmpty ==
    ASSUME NEW f, NEW g, NEW k \in DOMAIN f, f[k] = {}, DOMAIN g = DOMAIN f,
           \A i \in DOMAIN f \ {k} : g[i] = f[i]
    PROVE  Extends(g, f, k, g[k])
  BY DEF Extends, Places, PlacesAt

(* Without its first set, a sequence of sets has that many places less.     *)
LEMMA CountWithoutFirst ==
    ASSUME NEW n \in Nat \ {0}, NEW f, NEW t, DOMAIN f = 1..n, DOMAIN t = 1..(n - 1),
           \A i \in 1..(n - 1) : t[i] = f[i + 1],
           IsFiniteSet(f[1]), IsFiniteSet(Places(f))
    PROVE  /\ IsFiniteSet(Places(t))
           /\ Cardinality(Places(t)) = Cardinality(Places(f)) - Cardinality(f[1])
<1> DEFINE later == [i \in 2..n |-> f[i]]
           F == [p \in Places(later) |-> <<p[1] - 1, p[2]>>]
<1>l. DOMAIN later = 2..n /\ \A i \in 2..n : later[i] = f[i]
  OBVIOUS
<1> HIDE DEF later
<1>1. /\ IsFiniteSet(Places(later))
      /\ Cardinality(Places(later)) = Cardinality(Places(f)) - Cardinality(f[1])
  <2>1. DOMAIN f = DOMAIN later \cup {1} /\ 1 \notin DOMAIN later
    BY <1>l
  <2>2. Extends(f, later, 1, f[1])
    BY <1>l, <2>1, ExtendsAtNew
  <2> QED  BY <2>2, CountLess
<1>2. \A p : p \in Places(later) <=> \E i \in 2..n : \E j \in f[i] : p = <<i, j>>
  BY <1>l DEF Places, PlacesAt
<1>3. \A p : p \in Places(t) <=> \E i \in 1..(n - 1) : \E j \in f[i + 1] : p = <<i, j>>
  BY DEF Places, PlacesAt
<1>4. F \in Bijection(Places(later), Places(t))
  <2>1. ASSUME NEW p \in Places(later) PROVE <<p[1] - 1, p[2]>> \in Places(t)
    <3>1. PICK i \in 2..n : \E j \in f[i] : p = <<i, j>>
      BY <1>2
    <3>2. i - 1 \in 1..(n - 1) /\ (i - 1) + 1 = i /\ p[1] = i /\ p[2] \in f[i]
      BY <3>1
    <3> QED  BY <1>3, <3>2
  <2>2. F \in [Places(later) -> Places(t)]
    BY <2>1
  <2>3. ASSUME NEW a \in Places(later), NEW b \in Places(later), F[a] = F[b] PROVE a = b
    <3>1. PICK i \in 2..n : \E j \in f[i] : a = <<i, j>>
      BY <1>2
    <3>2. PICK k \in 2..n : \E l \in f[k] : b = <<k, l>>
      BY <1>2
    <3>3. a = <<i, a[2]>> /\ b = <<k, b[2]>> /\ a[1] = i /\ b[1] = k
      BY <3>1, <3>2
    <3>4. <<a[1] - 1, a[2]>> = <<b[1] - 1, b[2]>>
      BY <2>3
    <3>5. i - 1 = k - 1 /\ a[2] = b[2]
      BY <3>3, <3>4
    <3> QED  BY <3>3, <3>5
  <2>4. ASSUME NEW p \in Places(t) PROVE \E a \in Places(later) : F[a] = p
    <3>1. PICK i \in 1..(n - 1) : \E j \in f[i + 1] : p = <<i, j>>
      BY <1>3
    <3>2. i + 1 \in 2..n
      BY <3>1
    <3>3. p = <<i, p[2]>> /\ p[2] \in f[i + 1]
      BY <3>1
    <3>4. <<i + 1, p[2]>> \in Places(later)
      BY <1>2, <3>2, <3>3
    <3>5. F[<<i + 1, p[2]>>] = <<i, p[2]>>
      BY <3>4
    <3> QED  BY <3>3, <3>4, <3>5
  <2> HIDE DEF F
  <2> QED  BY <2>2, <2>3, <2>4, Fun_IsBij
<1>5. ExistsBijection(Places(later), Places(t))
  <2> HIDE DEF F
  <2> QED  BY <1>4, Fun_ExistsBij
<1>6. IsFiniteSet(Places(t)) /\ Cardinality(Places(t)) = Cardinality(Places(later))
  BY <1>1, <1>5, FS_Bijection
<1> QED  BY <1>1, <1>6

-----------------------------------------------------------------------------
(* How often x occurs in a sequence, and in the sequences of a function     *)

Indices(s, x) == {j \in DOMAIN s : s[j] = x}

Occurrences(s, x) == Cardinality(Indices(s, x))

OneIf(b) == IF b THEN 1 ELSE 0

LEMMA OccurrencesFinite ==
    ASSUME NEW S, NEW s \in Seq(S), NEW x
    PROVE  IsFiniteSet(Indices(s, x)) /\ Occurrences(s, x) \in Nat
<1>1. DOMAIN s = 1..Len(s) /\ Len(s) \in Nat
  OBVIOUS
<1>2. IsFiniteSet(1..Len(s))
  BY <1>1, FS_Interval
<1>3. Indices(s, x) \subseteq 1..Len(s)
  BY <1>1 DEF Indices
<1>4. IsFiniteSet(Indices(s, x))
  BY <1>2, <1>3, FS_Subset
<1> QED  BY <1>4, FS_CardinalityType DEF Occurrences

LEMMA OccurrencesOfEmpty == ASSUME NEW x PROVE Occurrences(<<>>, x) = 0
<1>1. Indices(<<>>, x) = {}
  BY DEF Indices
<1> QED  BY <1>1, FS_EmptySet DEF Occurrences

LEMMA OccurrencesAppend ==
    ASSUME NEW S, NEW s \in Seq(S), NEW y \in S, NEW x
    PROVE  Occurrences(Append(s, y), x) = Occurrences(s, x) + OneIf(y = x)
<1> DEFINE k == Len(s) + 1
           r == Append(s, y)
<1>1. /\ DOMAIN s = 1..Len(s) /\ DOMAIN r = DOMAIN s \cup {k} /\ k \notin DOMAIN s
      /\ r[k] = y /\ \A i \in DOMAIN s : r[i] = s[i]
  OBVIOUS
<1> HIDE DEF k, r
<1>2. IsFiniteSet(Indices(s, x)) /\ Occurrences(s, x) \in Nat
  BY OccurrencesFinite
<1>3. CASE y = x
  <2>1. Indices(r, x) = Indices(s, x) \cup {k} /\ k \notin Indices(s, x)
    BY <1>1, <1>3 DEF Indices
  <2>2. Cardinality(Indices(s, x) \cup {k}) = Cardinality(Indices(s, x)) + 1
    BY <1>2, <2>1, FS_AddElement
  <2>3. Occurrences(r, x) = Occurrences(s, x) + 1
    BY <2>1, <2>2, Zenon DEF Occurrences
  <2> QED  BY <1>3, <2>3 DEF r, OneIf
<1>4. CASE y # x
  <2>1. Indices(r, x) = Indices(s, x)
    BY <1>1, <1>4 DEF Indices
  <2>2. Occurrences(r, x) = Occurrences(s, x)
    BY <2>1, Zenon DEF Occurrences
  <2> QED  BY <1>2, <1>4, <2>2 DEF r, OneIf
<1> QED  BY <1>3, <1>4

LEMMA OccurrencesTail ==
    ASSUME NEW S, NEW s \in Seq(S), s # <<>>, NEW x
    PROVE  Occurrences(Tail(s), x) = Occurrences(s, x) - OneIf(Head(s) = x)
<1> DEFINE n == Len(s)
           t == Tail(s)
           I == Indices(s, x)
           J == Indices(t, x)
           F == [j \in J |-> j + 1]
<1>1. /\ n \in Nat \ {0} /\ DOMAIN s = 1..n /\ s[1] = Head(s)
      /\ DOMAIN t = 1..(n - 1) /\ \A i \in 1..(n - 1) : t[i] = s[i + 1]
  OBVIOUS
<1> HIDE DEF n, t
<1>2. F \in Bijection(J, I \ {1})
  <2>1. J \subseteq 1..(n - 1) /\ I \subseteq 1..n
    BY <1>1 DEF Indices
  <2>2. \A j \in 1..(n - 1) : j \in J <=> j + 1 \in I
    BY <1>1 DEF Indices
  <2> HIDE DEF I, J
  <2>3. F \in [J -> I \ {1}]
    BY <1>1, <2>1, <2>2
  <2>4. \A i, j \in J : F[i] = F[j] => i = j
    BY <1>1, <2>1
  <2>5. ASSUME NEW i \in I \ {1} PROVE \E j \in J : F[j] = i
    <3>1. i - 1 \in 1..(n - 1) /\ (i - 1) + 1 = i
      BY <1>1, <2>1, <2>5
    <3>2. i - 1 \in J
      BY <2>2, <2>5, <3>1
    <3> QED  BY <3>1, <3>2
  <2> HIDE DEF F
  <2> QED  BY <2>3, <2>4, <2>5, Fun_IsBij
<1>3. IsFiniteSet(I) /\ Cardinality(I) \in Nat
  BY OccurrencesFinite DEF Occurrences
<1>4. ExistsBijection(J, I \ {1})
  <2> HIDE DEF F, I, J
  <2> QED  BY <1>2, Fun_ExistsBij
<1>5. Occurrences(s, x) = Cardinality(I) /\ Occurrences(t, x) = Cardinality(J)
  BY DEF Occurrences
<1>6. 1 \in I <=> Head(s) = x
  BY <1>1 DEF Indices
<1> HIDE DEF F, I, J
<1>7. ExistsBijection(I \ {1}, J)
  BY <1>4, Fun_ExistsBijSymmetric
<1>8. /\ IsFiniteSet(I \ {1})
      /\ Cardinality(I \ {1}) = IF 1 \in I THEN Cardinality(I) - 1 ELSE Cardinality(I)
  BY <1>3, FS_RemoveElement
<1>9. Cardinality(J) = Cardinality(I \ {1})
  BY <1>7, <1>8, FS_Bijection
<1>10. Occurrences(t, x) = Occurrences(s, x) - OneIf(Head(s) = x)
  BY <1>3, <1>5, <1>6, <1>8, <1>9 DEF OneIf
<1> QED  BY <1>10 DEF t

(* Where x occurs in the sequences of f.                                    *)
Hits(f, x) == [i \in DOMAIN f |-> Indices(f[i], x)]

Within(f, x) == Cardinality(Places(Hits(f, x)))

LEMMA HitsAtNew ==
    ASSUME NEW f, NEW g, NEW k, k \notin DOMAIN f, DOMAIN g = DOMAIN f \cup {k},
           \A i \in DOMAIN f : g[i] = f[i], NEW x
    PROVE  Extends(Hits(g, x), Hits(f, x), k, Indices(g[k], x))
<1> DEFINE F == Hits(f, x)
           G == Hits(g, x)
<1>1. /\ k \notin DOMAIN F /\ DOMAIN G = DOMAIN F \cup {k}
      /\ \A i \in DOMAIN F : G[i] = F[i]
      /\ G[k] = Indices(g[k], x)
  BY DEF Hits
<1> HIDE DEF F, G
<1>2. Extends(G, F, k, G[k])
  BY <1>1, ExtendsAtNew
<1>3. Extends(G, F, k, Indices(g[k], x))
  BY <1>1, <1>2
<1> QED  BY <1>3 DEF F, G

(* A sequence more.                                                         *)
LEMMA WithinMore ==
    ASSUME NEW f, NEW g, NEW k, k \notin DOMAIN f, DOMAIN g = DOMAIN f \cup {k},
           \A i \in DOMAIN f : g[i] = f[i], NEW S, g[k] \in Seq(S), NEW x,
           IsFiniteSet(Places(Hits(f, x)))
    PROVE  /\ IsFiniteSet(Places(Hits(g, x)))
           /\ Within(g, x) = Within(f, x) + Occurrences(g[k], x)
<1>1. Extends(Hits(g, x), Hits(f, x), k, Indices(g[k], x))
  BY HitsAtNew
<1>2. IsFiniteSet(Indices(g[k], x))
  BY OccurrencesFinite
<1>3. /\ IsFiniteSet(Places(Hits(g, x)))
      /\ Cardinality(Places(Hits(g, x))) =
             Cardinality(Places(Hits(f, x))) + Cardinality(Indices(g[k], x))
  BY <1>1, <1>2, CountMore
<1> QED  BY <1>3 DEF Within, Occurrences

(* A sequence less.                                                         *)
LEMMA WithinLess ==
    ASSUME NEW f, NEW g, NEW k, k \notin DOMAIN f, DOMAIN g = DOMAIN f \cup {k},
           \A i \in DOMAIN f : g[i] = f[i], NEW S, g[k] \in Seq(S), NEW x,
           IsFiniteSet(Places(Hits(g, x)))
    PROVE  /\ IsFiniteSet(Places(Hits(f, x)))
           /\ Within(f, x) = Within(g, x) - Occurrences(g[k], x)
<1>1. Extends(Hits(g, x), Hits(f, x), k, Indices(g[k], x))
  BY HitsAtNew
<1>2. IsFiniteSet(Indices(g[k], x))
  BY OccurrencesFinite
<1>3. /\ IsFiniteSet(Places(Hits(f, x)))
      /\ Cardinality(Places(Hits(f, x))) =
             Cardinality(Places(Hits(g, x))) - Cardinality(Indices(g[k], x))
  BY <1>1, <1>2, CountLess
<1> QED  BY <1>3 DEF Within, Occurrences

LEMMA WithinAppend ==
    ASSUME NEW S, NEW q \in Seq(Seq(S)), NEW b \in Seq(S), NEW x, IsFiniteSet(Places(Hits(q, x)))
    PROVE  /\ IsFiniteSet(Places(Hits(Append(q, b), x)))
           /\ Within(Append(q, b), x) = Within(q, x) + Occurrences(b, x)
<1> DEFINE k == Len(q) + 1
           r == Append(q, b)
<1>1. /\ DOMAIN r = DOMAIN q \cup {k} /\ k \notin DOMAIN q
      /\ r[k] = b /\ \A i \in DOMAIN q : r[i] = q[i]
  OBVIOUS
<1> HIDE DEF k, r
<1>2. r[k] \in Seq(S)
  BY <1>1
<1>3. IsFiniteSet(Places(Hits(r, x))) /\ Within(r, x) = Within(q, x) + Occurrences(r[k], x)
  BY <1>1, <1>2, WithinMore
<1> QED  BY <1>1, <1>3 DEF r

LEMMA WithinTail ==
    ASSUME NEW S, NEW q \in Seq(Seq(S)), q # <<>>, NEW x, IsFiniteSet(Places(Hits(q, x)))
    PROVE  /\ IsFiniteSet(Places(Hits(Tail(q), x)))
           /\ Within(Tail(q), x) = Within(q, x) - Occurrences(Head(q), x)
<1> DEFINE n == Len(q)
           t == Tail(q)
<1>1. /\ n \in Nat \ {0} /\ DOMAIN q = 1..n /\ q[1] = Head(q) /\ Head(q) \in Seq(S)
      /\ DOMAIN t = 1..(n - 1) /\ \A i \in 1..(n - 1) : t[i] = q[i + 1]
  OBVIOUS
<1> HIDE DEF n, t
<1> DEFINE f == Hits(q, x)
           g == Hits(t, x)
<1>2. /\ DOMAIN f = 1..n /\ DOMAIN g = 1..(n - 1) /\ f[1] = Indices(Head(q), x)
  BY <1>1 DEF Hits
<1>3. \A i \in 1..(n - 1) : g[i] = f[i + 1]
  BY <1>1 DEF Hits
<1>4. IsFiniteSet(Places(f)) /\ IsFiniteSet(f[1])
  BY <1>1, <1>2, OccurrencesFinite
<1>5. Within(q, x) = Cardinality(Places(f)) /\ Within(t, x) = Cardinality(Places(g))
      /\ Occurrences(Head(q), x) = Cardinality(f[1])
  BY <1>2 DEF Within, Occurrences
<1>6. IsFiniteSet(Places(g)) <=> IsFiniteSet(Places(Hits(t, x)))
  OBVIOUS
<1> HIDE DEF f, g
<1>7. IsFiniteSet(Places(g)) /\ Cardinality(Places(g)) = Cardinality(Places(f)) - Cardinality(f[1])
  <2>1. /\ n \in Nat \ {0} /\ DOMAIN f = 1..n /\ DOMAIN g = 1..(n - 1)
        /\ \A i \in 1..(n - 1) : g[i] = f[i + 1]
        /\ IsFiniteSet(f[1]) /\ IsFiniteSet(Places(f))
    BY <1>1, <1>2, <1>3, <1>4
  <2> QED  BY <2>1, CountWithoutFirst
<1>8. IsFiniteSet(Places(Hits(t, x))) /\ Within(t, x) = Within(q, x) - Occurrences(Head(q), x)
  BY <1>5, <1>6, <1>7
<1> QED  BY <1>8 DEF t


-----------------------------------------------------------------------------
(* Several sets of places under different names                             *)

LEMMA CountDisjoint ==
    ASSUME NEW A, NEW B, IsFiniteSet(A), IsFiniteSet(B), A \cap B = {}
    PROVE  IsFiniteSet(A \cup B) /\ Cardinality(A \cup B) = Cardinality(A) + Cardinality(B)
<1>1. Cardinality(A) \in Nat /\ Cardinality(B) \in Nat
  BY FS_CardinalityType
<1>2. Cardinality(A \cap B) = 0
  BY FS_EmptySet
<1>3. /\ IsFiniteSet(A \cup B)
      /\ Cardinality(A \cup B) = Cardinality(A) + Cardinality(B) - Cardinality(A \cap B)
  BY FS_Union
<1> QED  BY <1>1, <1>2, <1>3

LEMMA DifferentPlaces ==
    ASSUME NEW a, NEW b, a # b, NEW S, NEW T PROVE PlacesAt(a, S) \cap PlacesAt(b, T) = {}
  BY DEF PlacesAt

LEMMA CountThree ==
    ASSUME NEW a, NEW b, NEW c, a # b, a # c, b # c,
           NEW R, NEW S, NEW T, IsFiniteSet(R), IsFiniteSet(S), IsFiniteSet(T)
    PROVE  LET U == PlacesAt(a, R) \cup PlacesAt(b, S) \cup PlacesAt(c, T)
           IN  /\ IsFiniteSet(U)
               /\ Cardinality(U) = Cardinality(R) + Cardinality(S) + Cardinality(T)
<1> DEFINE A == PlacesAt(a, R)
           B == PlacesAt(b, S)
           C == PlacesAt(c, T)
<1>1. /\ IsFiniteSet(A) /\ Cardinality(A) = Cardinality(R)
      /\ IsFiniteSet(B) /\ Cardinality(B) = Cardinality(S)
      /\ IsFiniteSet(C) /\ Cardinality(C) = Cardinality(T)
  BY PlacesOfSet
<1>2. A \cap B = {} /\ A \cap C = {} /\ B \cap C = {}
  BY DifferentPlaces
<1> HIDE DEF A, B, C
<1>3. IsFiniteSet(A \cup B) /\ Cardinality(A \cup B) = Cardinality(A) + Cardinality(B)
  BY <1>1, <1>2, CountDisjoint
<1>4. (A \cup B) \cap C = {}
  BY <1>2
<1>5. /\ IsFiniteSet((A \cup B) \cup C)
      /\ Cardinality((A \cup B) \cup C) = Cardinality(A \cup B) + Cardinality(C)
  BY <1>1, <1>3, <1>4, CountDisjoint
<1> QED  BY <1>1, <1>3, <1>5 DEF A, B, C

=============================================================================
