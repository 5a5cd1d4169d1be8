----------------------------- MODULE DataFacts -----------------------------
(***************************************************************************)
(* What the operators on sequences, numbers and sums do, as the proofs of  *)
(* this project use it.  Induction is stated over a set of numbers, so     *)
(* that a proof can cite it for a set it defines.                          *)
(***************************************************************************)
EXTENDS Integers, SequencesExt, SequenceTheorems, FiniteSetTheorems, TLAPS

-----------------------------------------------------------------------------
(* Sequences *)

\* What is left of a sequence behind its first element.
LEMMA HeadAndTail ==
  ASSUME NEW S, NEW s \in Seq(S), s # << >>
  PROVE  /\ Tail(s) \in Seq(S)
         /\ Len(s) \in Nat \ {0}
         /\ Len(Tail(s)) = Len(s) - 1
         /\ Head(s) \in S
         /\ Head(s) = s[1]
         /\ \A i \in 1..(Len(s) - 1) : Tail(s)[i] = s[i + 1]
PROOF
  BY HeadTailProperties

\* What is in a list is at its head or behind it.
LEMMA HeadOrTail ==
  ASSUME NEW S, NEW s \in Seq(S), s # << >>
  PROVE  ToSet(s) = {Head(s)} \cup ToSet(Tail(s))
PROOF
<1> DEFINE t == Tail(s)
           n == Len(s)
<1>1. /\ n \in Nat \ {0} /\ Len(t) = n - 1 /\ Head(s) = s[1]
      /\ \A i \in 1..(n - 1) : t[i] = s[i + 1]
      /\ DOMAIN s = 1..n /\ DOMAIN t = 1..Len(t)
  BY HeadAndTail
<1> HIDE DEF t, n
<1>2. ASSUME NEW x \in ToSet(s) PROVE x = Head(s) \/ x \in ToSet(t)
  <2>1. PICK i \in 1..n : s[i] = x
    BY <1>1, <1>2 DEF ToSet
  <2>2. CASE i # 1
    <3>1. i - 1 \in 1..(n - 1) /\ (i - 1) + 1 = i
      BY <1>1, <2>2
    <3>2. t[i - 1] = x /\ i - 1 \in DOMAIN t
      BY <1>1, <2>1, <3>1
    <3> QED
      BY <3>2 DEF ToSet
  <2> QED
    BY <1>1, <2>1, <2>2
<1>3. Head(s) \in ToSet(s)
  BY <1>1 DEF ToSet
<1>4. ASSUME NEW x \in ToSet(t) PROVE x \in ToSet(s)
  <2>1. PICK i \in 1..(n - 1) : t[i] = x
    BY <1>1, <1>4 DEF ToSet
  <2>2. s[i + 1] = x /\ i + 1 \in DOMAIN s
    BY <1>1, <2>1
  <2> QED
    BY <2>2 DEF ToSet
<1> QED
  BY <1>2, <1>3, <1>4 DEF t

\* A sequence and one more element.
LEMMA OneMore ==
  ASSUME NEW S, NEW s \in Seq(S), NEW e \in S
  PROVE  /\ Append(s, e) \in Seq(S)
         /\ Len(Append(s, e)) = Len(s) + 1
         /\ \A i \in 1..Len(s) : Append(s, e)[i] = s[i]
         /\ Append(s, e)[Len(s) + 1] = e
PROOF
  BY AppendProperties

\* The elements of a sequence over a set are in it.
LEMMA ElementsInSet ==
  ASSUME NEW S, NEW s \in Seq(S)
  PROVE  /\ DOMAIN s = 1..Len(s) /\ Len(s) \in Nat
         /\ \A i \in 1..Len(s) : s[i] \in S /\ s[i] \in ToSet(s)
         /\ ToSet(s) \subseteq S
PROOF
  BY DEF ToSet

\* The elements of a sequence and one more.
LEMMA OneMoreInSet ==
  ASSUME NEW S, NEW s \in Seq(S), NEW e \in S
  PROVE  Append(s, e) \in Seq(S) /\ ToSet(Append(s, e)) = ToSet(s) \cup {e}
PROOF
<1> DEFINE n == Len(s)
           more == Append(s, e)
<1>1. /\ n \in Nat /\ DOMAIN s = 1..n /\ more \in Seq(S)
      /\ DOMAIN more = 1..(n + 1)
      /\ \A i \in 1..n : more[i] = s[i]
      /\ more[n + 1] = e
      /\ n + 1 \in 1..(n + 1) /\ 1..n \subseteq 1..(n + 1)
      /\ \A i \in 1..(n + 1) : i \in 1..n \/ i = n + 1
  BY OneMore
<1> HIDE DEF more
<1>2. ASSUME NEW x \in ToSet(more) PROVE x \in ToSet(s) \cup {e}
  BY <1>1, <1>2 DEF ToSet
<1>3. ASSUME NEW x \in ToSet(s) \cup {e} PROVE x \in ToSet(more)
  BY <1>1, <1>3 DEF ToSet
<1> QED
  BY <1>1, <1>2, <1>3 DEF more

\* A sequence over a set is one over a larger set.
LEMMA LargerSet ==
  ASSUME NEW S, NEW T, S \subseteq T, NEW s \in Seq(S)
  PROVE  s \in Seq(T)
PROOF
<1>1. Len(s) \in Nat /\ s = [i \in 1..Len(s) |-> s[i]]
  OBVIOUS
<1>2. \A i \in 1..Len(s) : s[i] \in T
  OBVIOUS
<1> QED
  BY <1>1, <1>2, SeqDef

\* A sequence is one over every set its elements are in.
LEMMA OverTheSet ==
  ASSUME NEW S, NEW T, NEW s \in Seq(S), \A i \in 1..Len(s) : s[i] \in T
  PROVE  s \in Seq(T)
PROOF
<1>1. Len(s) \in Nat /\ s = [i \in 1..Len(s) |-> s[i]]
  OBVIOUS
<1> QED
  BY <1>1, SeqDef

\* What RemoveAt returns: the elements before i, then those behind it moved
\* up by one.
LEMMA RemoveAtProperties ==
  ASSUME NEW S, NEW s \in Seq(S), NEW i \in 1..Len(s)
  PROVE  /\ RemoveAt(s, i) \in Seq(S)
         /\ Len(RemoveAt(s, i)) = Len(s) - 1
         /\ \A j \in 1..(Len(s) - 1) :
              RemoveAt(s, i)[j] = IF j < i THEN s[j] ELSE s[j + 1]
PROOF
<1> DEFINE a == SubSeq(s, 1, i - 1)
           b == SubSeq(s, i + 1, Len(s))
<1>1. a \in Seq(S) /\ Len(a) = i - 1 /\ \A j \in 1..(i - 1) : a[j] = s[j]
  <2>1. \A j \in 1..(i - 1) : s[j] \in S
    OBVIOUS
  <2> QED
    BY <2>1, SubSeqProperties
<1>2. /\ b \in Seq(S)
      /\ Len(b) = Len(s) - i
      /\ \A j \in 1..(Len(s) - i) : b[j] = s[i + j]
  <2>1. \A j \in (i + 1)..Len(s) : s[j] \in S
    OBVIOUS
  <2> QED
    BY <2>1, SubSeqProperties
<1>3. /\ a \o b \in Seq(S)
      /\ Len(a \o b) = Len(s) - 1
      /\ \A j \in 1..(Len(s) - 1) :
           (a \o b)[j] = IF j < i THEN s[j] ELSE s[j + 1]
  <2> HIDE DEF a, b
  <2>1. /\ a \o b \in Seq(S)
        /\ Len(a \o b) = Len(a) + Len(b)
        /\ \A j \in 1..(Len(a) + Len(b)) :
             (a \o b)[j] = IF j <= Len(a) THEN a[j] ELSE b[j - Len(a)]
    BY <1>1, <1>2, ConcatProperties
  <2> QED
    BY <1>1, <1>2, <2>1
<1> QED
  BY <1>3 DEF RemoveAt

\* Two entries of a sequence of integers are changed, as fillOrder does with
\* the quantities of two orders.
LEMMA ReplaceTwo ==
  ASSUME NEW s \in Seq(Int), NEW i \in 1..Len(s), NEW j \in 1..Len(s),
         NEW x \in Int, NEW y \in Int
  PROVE  /\ [s EXCEPT ![i] = x, ![j] = y] \in Seq(Int)
         /\ Len([s EXCEPT ![i] = x, ![j] = y]) = Len(s)
         /\ \A k \in 1..Len(s) : [s EXCEPT ![i] = x, ![j] = y][k] =
              IF k = j THEN y ELSE IF k = i THEN x ELSE s[k]
PROOF
<1> DEFINE first  == [s EXCEPT ![i] = x]
           second == [s EXCEPT ![i] = x, ![j] = y]
<1>1. /\ first \in Seq(Int)
      /\ Len(first) = Len(s)
      /\ \A k \in 1..Len(s) : first[k] = IF k = i THEN x ELSE s[k]
  BY ExceptSeq
<1>2. second = [first EXCEPT ![j] = y]
  OBVIOUS
<1> HIDE DEF first, second
<1>3. /\ second \in Seq(Int)
      /\ Len(second) = Len(first)
      /\ \A k \in 1..Len(first) : second[k] = IF k = j THEN y ELSE first[k]
  BY <1>1, <1>2, ExceptSeq
<1>4. /\ second \in Seq(Int)
      /\ Len(second) = Len(s)
      /\ \A k \in 1..Len(s) :
           second[k] = IF k = j THEN y ELSE IF k = i THEN x ELSE s[k]
  BY <1>1, <1>3
<1> QED
  BY <1>4 DEF second

-----------------------------------------------------------------------------
(* Numbers *)

\* A set of numbers that is not empty has a smallest one.
LEMMA SmallestNumber ==
  ASSUME NEW I \in SUBSET Nat, I # {}
  PROVE  Min(I) \in I /\ \A i \in I : Min(I) =< i
PROOF
<1> DEFINE Less == {pair \in Nat \X Nat : pair[1] < pair[2]}
<1>1. IsWellFoundedOn(Less, Nat)
  BY NatLessThanWellFounded DEF OpToRel
<1>2. PICK x \in I : \A y \in I : <<y, x>> \notin Less
  BY <1>1, WFMin
<1>3. ASSUME NEW y \in I PROVE x =< y
  <2>1. x \in Nat /\ y \in Nat
    OBVIOUS
  <2>2. y < x => <<y, x>> \in Less
    BY <2>1
  <2> QED
    BY <1>2, <2>1, <2>2
<1> QED
  BY <1>3 DEF Min

\* Induction: a set of numbers that has 0, and with a number the next, has all.
LEMMA AllNumbers ==
  ASSUME NEW I \in SUBSET Nat, 0 \in I, \A n \in I : n + 1 \in I
  PROVE  I = Nat
PROOF
<1> SUFFICES ASSUME Nat \ I # {} PROVE FALSE
  OBVIOUS
<1> DEFINE m == Min(Nat \ I)
<1>1. m \in Nat \ I /\ \A i \in Nat \ I : m =< i
  <2> DEFINE J == Nat \ I
  <2>1. J \in SUBSET Nat /\ J # {}
    OBVIOUS
  <2> HIDE DEF J
  <2>2. Min(J) \in J /\ \A i \in J : Min(J) =< i
    BY <2>1, SmallestNumber
  <2> QED
    BY <2>2 DEF J
<1> HIDE DEF m
<1>2. m - 1 \in Nat /\ m - 1 \notin Nat \ I
  BY <1>1
<1> QED
  BY <1>1, <1>2

-----------------------------------------------------------------------------
(* Lists that something is taken out of *)

\* What RemoveFirst leaves.
LEMMA RemoveFirstType ==
  ASSUME NEW S, NEW s \in Seq(S), NEW e
  PROVE  RemoveFirst(s, e) \in Seq(S)
PROOF
<1> DEFINE I == {i \in 1..Len(s) : s[i] = e}
<1>1. CASE I = {}
  BY <1>1 DEF RemoveFirst
<1>2. CASE I # {}
  <2>1. Min(I) \in I
    <3>1. I \in SUBSET Nat
      OBVIOUS
    <3> HIDE DEF I
    <3> QED
      BY <1>2, <3>1, SmallestNumber
  <2>2. RemoveFirst(s, e) = RemoveAt(s, Min(I))
    BY <1>2 DEF RemoveFirst, SelectInSeq
  <2> QED
    BY <2>1, <2>2, RemoveAtProperties
<1> QED
  BY <1>1, <1>2

\* RemoveFirst takes out one element, if it is there.
LEMMA RemovedOne ==
  ASSUME NEW S, NEW list \in Seq(S), NEW e
  PROVE  \/ e \notin ToSet(list) /\ RemoveFirst(list, e) = list
         \/ \E k \in 1..Len(list) :
              /\ list[k] = e
              /\ Len(RemoveFirst(list, e)) = Len(list) - 1
              /\ DOMAIN RemoveFirst(list, e) = 1..(Len(list) - 1)
              /\ \A j \in 1..(Len(list) - 1) :
                   RemoveFirst(list, e)[j] = IF j < k THEN list[j] ELSE list[j + 1]
PROOF
<1> DEFINE I == {i \in 1..Len(list) : list[i] = e}
<1>1. CASE I = {}
  <2>1. e \notin ToSet(list)
    BY <1>1 DEF ToSet
  <2> QED
    BY <1>1, <2>1 DEF RemoveFirst
<1>2. CASE I # {}
  <2>1. Min(I) \in I
    <3>1. I \in SUBSET Nat
      OBVIOUS
    <3> HIDE DEF I
    <3> QED
      BY <1>2, <3>1, SmallestNumber
  <2>2. RemoveFirst(list, e) = RemoveAt(list, Min(I))
    BY <1>2 DEF RemoveFirst, SelectInSeq
  <2>3. PICK k : k = Min(I)
    OBVIOUS
  <2>4. k \in 1..Len(list) /\ list[k] = e
    BY <2>1, <2>3
  <2>5. RemoveFirst(list, e) = RemoveAt(list, k)
    BY <2>2, <2>3
  <2> HIDE DEF I
  <2>6. /\ RemoveAt(list, k) \in Seq(S)
        /\ Len(RemoveAt(list, k)) = Len(list) - 1
        /\ \A j \in 1..(Len(list) - 1) :
             RemoveAt(list, k)[j] = IF j < k THEN list[j] ELSE list[j + 1]
    BY <2>4, RemoveAtProperties
  <2>7. DOMAIN RemoveAt(list, k) = 1..(Len(list) - 1)
    BY <2>6
  <2> QED
    BY <2>4, <2>5, <2>6, <2>7
<1> QED
  BY <1>1, <1>2

\* Where x stands in a list.
PlacesIn(list, x) == {i \in 1..Len(list) : list[i] = x}

\* It stands in finitely many places, and in some if it is in the list.
LEMMA PlacesAreFinite ==
  ASSUME NEW S, NEW list \in Seq(S), NEW x
  PROVE  /\ IsFiniteSet(PlacesIn(list, x))
         /\ Cardinality(PlacesIn(list, x)) \in Nat
         /\ Cardinality(PlacesIn(list, x)) = 0 <=> x \notin ToSet(list)
PROOF
<1>1. IsFiniteSet(PlacesIn(list, x))
  <2>1. IsFiniteSet(1..Len(list)) /\ PlacesIn(list, x) \in SUBSET (1..Len(list))
    BY FS_Interval DEF PlacesIn
  <2> QED
    BY <2>1, FS_Subset
<1>2. PlacesIn(list, x) = {} <=> x \notin ToSet(list)
  BY DEF PlacesIn, ToSet
<1> QED
  BY <1>1, <1>2, FS_CardinalityType, FS_EmptySet

\* Another element at the end leaves the places of x.
LEMMA PlacesAppend ==
  ASSUME NEW S, NEW list \in Seq(S), NEW e \in S, NEW x, x # e
  PROVE  PlacesIn(Append(list, e), x) = PlacesIn(list, x)
PROOF
<1>1. /\ Len(Append(list, e)) = Len(list) + 1
      /\ \A i \in 1..Len(list) : Append(list, e)[i] = list[i]
      /\ Append(list, e)[Len(list) + 1] = e
  BY OneMore
<1>2. Len(list) \in Nat
  OBVIOUS
<1> QED
  BY <1>1, <1>2 DEF PlacesIn

\* Removing another element leaves the number of places of x.
LEMMA PlacesRemoved ==
  ASSUME NEW S, NEW list \in Seq(S), NEW e, NEW x, x # e
  PROVE  Cardinality(PlacesIn(RemoveFirst(list, e), x)) = Cardinality(PlacesIn(list, x))
PROOF
<1> DEFINE n == Len(list)
           less == RemoveFirst(list, e)
<1>0. n \in Nat
  OBVIOUS
<1>1. CASE less = list
  BY <1>1
<1>2. ASSUME NEW k \in 1..n, list[k] = e, Len(less) = n - 1,
             \A j \in 1..(n - 1) : less[j] = IF j < k THEN list[j] ELSE list[j + 1]
      PROVE  Cardinality(PlacesIn(less, x)) = Cardinality(PlacesIn(list, x))
  <2> DEFINE A == PlacesIn(list, x)
             B == PlacesIn(less, x)
             f == [i \in A |-> IF i < k THEN i ELSE i - 1]
  <2> HIDE DEF less
  <2>1. /\ A \subseteq 1..n /\ B \subseteq 1..(n - 1) /\ k \notin A
        /\ \A i \in A : list[i] = x
        /\ \A j \in 1..(n - 1) : j \in B <=> less[j] = x
        /\ \A i \in 1..n : i \in A <=> list[i] = x
    BY <1>2 DEF PlacesIn
  <2> HIDE DEF A, B
  <2>2. \A i \in A : f[i] \in 1..(n - 1) /\ less[f[i]] = list[i]
    BY <1>0, <1>2, <2>1
  <2>3. f \in [A -> B]
    BY <2>1, <2>2
  <2>4. \A i, j \in A : f[i] = f[j] => i = j
    BY <1>0, <1>2, <2>1
  <2>5. \A j \in B : \E i \in A : f[i] = j
    <3>1. ASSUME NEW j \in B PROVE \E i \in A : f[i] = j
      <4>1. j \in 1..(n - 1) /\ less[j] = x
        BY <2>1
      <4>2. CASE j < k
        <5>1. j \in A /\ f[j] = j
          BY <1>0, <1>2, <2>1, <4>1, <4>2
        <5> QED
          BY <5>1
      <4>3. CASE ~(j < k)
        <5>1. j + 1 \in A
          BY <1>0, <1>2, <2>1, <4>1, <4>3
        <5>2. f[j + 1] = j
          BY <1>0, <1>2, <4>1, <4>3, <5>1
        <5> QED
          BY <5>1, <5>2
      <4> QED
        BY <4>2, <4>3
    <3> QED
      BY <3>1
  <2>6. f \in Bijection(A, B)
    BY <2>3, <2>4, <2>5 DEF Bijection, Injection, Surjection, IsInjective
  <2>7. IsFiniteSet(A) /\ ExistsBijection(A, B)
    BY <2>6, PlacesAreFinite DEF A, ExistsBijection
  <2> QED
    BY <2>7, FS_Bijection DEF A, B
<1> QED
  BY <1>1, <1>2, RemovedOne

-----------------------------------------------------------------------------
(* Lists one behind the other *)

\* A list and what comes behind it.
Follow(list, more) == list \o more

\* f[i] is the first i of the lists one behind the other, for the i up to k.
IsJoining(f, lists, S, k) ==
  /\ f \in [0..k -> Seq(S)]
  /\ f[0] = << >>
  /\ \A i \in 0..(k - 1) : f[i + 1] = Follow(f[i], lists[i + 1])

\* Every list of lists can be joined.
LEMMA JoiningExists ==
  ASSUME NEW S, NEW lists \in Seq(Seq(S))
  PROVE  \E f : IsJoining(f, lists, S, Len(lists))
PROOF
<1> DEFINE n == Len(lists)
           I == {k \in Nat : k =< n => \E f : IsJoining(f, lists, S, k)}
<1>0. n \in Nat /\ \A i \in 1..n : lists[i] \in Seq(S)
  OBVIOUS
<1>1. 0 \in I
  <2>1. << >> \in Seq(S)
    OBVIOUS
  <2>2. IsJoining([i \in 0..0 |-> << >>], lists, S, 0)
    BY <2>1 DEF IsJoining
  <2> QED
    BY <2>2
<1>2. ASSUME NEW k \in I PROVE k + 1 \in I
  <2>1. k \in Nat
    OBVIOUS
  <2>2. ASSUME k + 1 =< n PROVE \E f : IsJoining(f, lists, S, k + 1)
    <3>1. PICK f : IsJoining(f, lists, S, k)
      BY <1>0, <2>1, <2>2
    <3>2. /\ f \in [0..k -> Seq(S)] /\ f[k] \in Seq(S) /\ lists[k + 1] \in Seq(S)
      BY <1>0, <2>1, <2>2, <3>1 DEF IsJoining
    <3> DEFINE next == Follow(f[k], lists[k + 1])
               more == [i \in 0..(k + 1) |-> IF i = k + 1 THEN next ELSE f[i]]
    <3>3. next \in Seq(S)
      BY <3>2, ConcatProperties DEF Follow
    <3> HIDE DEF next
    <3>4. more \in [0..(k + 1) -> Seq(S)]
      BY <2>1, <3>2, <3>3
    <3>5. more[0] = << >>
      BY <2>1, <3>1 DEF IsJoining
    <3>6. ASSUME NEW i \in 0..k PROVE more[i + 1] = Follow(more[i], lists[i + 1])
      <4>1. CASE i = k
        <5>1. more[i + 1] = next /\ more[i] = f[k]
          BY <2>1, <4>1
        <5> QED
          BY <4>1, <5>1 DEF next
      <4>2. CASE i # k
        <5>1. i \in 0..(k - 1) /\ more[i + 1] = f[i + 1] /\ more[i] = f[i]
          BY <2>1, <4>2
        <5> QED
          BY <3>1, <5>1 DEF IsJoining
      <4> QED
        BY <4>1, <4>2
    <3> HIDE DEF more
    <3>7. IsJoining(more, lists, S, k + 1)
      BY <2>1, <3>4, <3>5, <3>6 DEF IsJoining
    <3> QED
      BY <3>7
  <2> QED
    BY <2>1, <2>2
<1>3. I = Nat
  <2>1. I \in SUBSET Nat
    OBVIOUS
  <2> HIDE DEF I
  <2> QED
    BY <1>1, <1>2, <2>1, AllNumbers
<1> QED
  BY <1>0, <1>3

\* What FlattenSeq returns: the lists one behind the other.
LEMMA FlattenJoins ==
  ASSUME NEW S, NEW lists \in Seq(Seq(S)), NEW f, IsJoining(f, lists, S, Len(lists))
  PROVE  FlattenSeq(lists) = f[Len(lists)]
PROOF
<1> DEFINE n == Len(lists)
<1>0. n \in Nat /\ \A i \in 1..n : lists[i] \in Seq(S)
  OBVIOUS
<1>5. /\ f \in [0..n -> Seq(S)] /\ f[0] = << >>
      /\ \A i \in 0..(n - 1) : f[i + 1] = Follow(f[i], lists[i + 1])
  BY DEF IsJoining
<1>6. CASE n = 0
  <2>1. FlattenSeq(lists) = << >>
    BY <1>6 DEF FlattenSeq
  <2> QED
    BY <1>5, <1>6, <2>1
<1>7. CASE n # 0
  <2> DEFINE Rec(g) == g = [i \in 1..n |-> IF i = 1 THEN lists[i] ELSE Follow(g[i - 1], lists[i])]
             g0 == CHOOSE g : Rec(g)
  <2>1. FlattenSeq(lists) = g0[n]
    BY <1>7 DEF FlattenSeq, Follow
  <2>2. f[1] = lists[1]
    <3>1. f[1] = Follow(f[0], lists[1])
      BY <1>0, <1>5, <1>7
    <3>2. << >> \o lists[1] = lists[1]
      BY <1>0, <1>7, ConcatEmptySeq
    <3> QED
      BY <1>5, <3>1, <3>2 DEF Follow
  <2> DEFINE h == [i \in 1..n |-> f[i]]
  <2>3. Rec(h)
    <3>1. ASSUME NEW i \in 1..n
          PROVE  h[i] = IF i = 1 THEN lists[i] ELSE Follow(h[i - 1], lists[i])
      <4>1. CASE i = 1
        BY <2>2, <4>1
      <4>2. CASE i # 1
        <5>1. i - 1 \in 0..(n - 1) /\ i - 1 \in 1..n /\ (i - 1) + 1 = i
          BY <1>0, <4>2
        <5> QED
          BY <1>5, <4>2, <5>1
      <4> QED
        BY <4>1, <4>2
    <3> DEFINE k == [i \in 1..n |-> IF i = 1 THEN lists[i] ELSE Follow(h[i - 1], lists[i])]
    <3>2. h = k
      BY <3>1
    <3> QED
      BY <3>2
  <2>4. Rec(g0)
    <3> HIDE DEF Rec, h
    <3> QED
      BY <2>3
  <2>5. \A i \in 1..n : g0[i] = IF i = 1 THEN lists[i] ELSE Follow(g0[i - 1], lists[i])
    <3> HIDE DEF g0
    <3> QED
      BY <2>4
  <2> HIDE DEF g0, Rec, h
  <2> DEFINE J == {i \in Nat : i \in 1..n => g0[i] = f[i]}
  <2>6. 0 \in J
    OBVIOUS
  <2>7. ASSUME NEW i \in J PROVE i + 1 \in J
    <3>1. ASSUME i + 1 \in 1..n PROVE g0[i + 1] = f[i + 1]
      <4>1. i \in 0..(n - 1) /\ (i + 1) - 1 = i
        BY <1>0, <3>1
      <4>2. CASE i = 0
        BY <2>2, <2>5, <3>1, <4>2
      <4>3. CASE i # 0
        <5>1. i \in 1..n /\ i + 1 # 1
          BY <1>0, <4>1, <4>3
        <5>2. g0[i + 1] = Follow(g0[i], lists[i + 1])
          BY <2>5, <3>1, <4>1, <5>1
        <5>3. f[i + 1] = Follow(f[i], lists[i + 1])
          BY <1>5, <4>1
        <5> QED
          BY <5>1, <5>2, <5>3
      <4> QED
        BY <4>2, <4>3
    <3> QED
      BY <3>1
  <2>8. J = Nat
    <3>1. J \in SUBSET Nat
      OBVIOUS
    <3> HIDE DEF J
    <3> QED
      BY <2>6, <2>7, <3>1, AllNumbers
  <2>9. g0[n] = f[n]
    BY <1>0, <1>7, <2>8
  <2> QED
    BY <2>1, <2>9
<1> QED
  BY <1>6, <1>7

\* The elements of two lists one behind the other.
LEMMA ConcatInSet ==
  ASSUME NEW S, NEW s \in Seq(S), NEW t \in Seq(S)
  PROVE  s \o t \in Seq(S) /\ ToSet(s \o t) = ToSet(s) \cup ToSet(t)
PROOF
<1> DEFINE m == Len(s)
           n == Len(t)
           c == s \o t
<1>1. /\ m \in Nat /\ n \in Nat /\ c \in Seq(S) /\ Len(c) = m + n
      /\ \A i \in 1..(m + n) : c[i] = IF i =< m THEN s[i] ELSE t[i - m]
      /\ DOMAIN s = 1..m /\ DOMAIN t = 1..n /\ DOMAIN c = 1..(m + n)
  BY ConcatProperties
<1> HIDE DEF c, m, n
<1>2. ASSUME NEW x \in ToSet(c) PROVE x \in ToSet(s) \cup ToSet(t)
  <2>1. PICK i \in 1..(m + n) : c[i] = x
    BY <1>1, <1>2 DEF ToSet
  <2>2. CASE i =< m
    BY <1>1, <2>1, <2>2 DEF ToSet
  <2>3. CASE ~(i =< m)
    <3>1. i - m \in 1..n /\ t[i - m] = x
      BY <1>1, <2>1, <2>3
    <3> QED
      BY <1>1, <3>1 DEF ToSet
  <2> QED
    BY <2>2, <2>3
<1>3. ASSUME NEW x \in ToSet(s) PROVE x \in ToSet(c)
  <2>1. PICK i \in 1..m : s[i] = x
    BY <1>1, <1>3 DEF ToSet
  <2>2. i \in 1..(m + n) /\ c[i] = x
    BY <1>1, <2>1
  <2> QED
    BY <1>1, <2>2 DEF ToSet
<1>4. ASSUME NEW x \in ToSet(t) PROVE x \in ToSet(c)
  <2>1. PICK i \in 1..n : t[i] = x
    BY <1>1, <1>4 DEF ToSet
  <2>2. i + m \in 1..(m + n) /\ c[i + m] = x
    BY <1>1, <2>1
  <2> QED
    BY <1>1, <2>2 DEF ToSet
<1> QED
  BY <1>1, <1>2, <1>3, <1>4 DEF c

\* The last element of a list that ends with two.
LEMMA LastOfTwo ==
  ASSUME NEW S, NEW s \in Seq(S), NEW two \in Seq(S), Len(two) = 2
  PROVE  /\ Len(s) + 2 \in 1..Len(s \o two)
         /\ (s \o two)[Len(s) + 2] = two[2]
PROOF
<1> DEFINE m == Len(s)
           c == s \o two
<1>1. /\ Len(c) = m + Len(two)
      /\ \A i \in 1..(m + Len(two)) : c[i] = IF i =< m THEN s[i] ELSE two[i - m]
  BY Zenon, ConcatProperties
<1>2. m \in Nat
  OBVIOUS
<1> HIDE DEF c, m
<1>3. Len(c) = m + 2 /\ c[m + 2] = two[2]
  BY <1>1, <1>2
<1> QED
  BY <1>2, <1>3 DEF c, m

\* The list of all has what each list has.
LEMMA FlattenHas ==
  ASSUME NEW S, NEW lists \in Seq(Seq(S))
  PROVE  /\ FlattenSeq(lists) \in Seq(S)
         /\ \A i \in 1..Len(lists) : ToSet(lists[i]) \subseteq ToSet(FlattenSeq(lists))
PROOF
<1> DEFINE n == Len(lists)
<1>0. n \in Nat /\ \A i \in 1..n : lists[i] \in Seq(S)
  OBVIOUS
<1>1. PICK f : IsJoining(f, lists, S, n)
  BY JoiningExists
<1>2. /\ f \in [0..n -> Seq(S)] /\ n \in 0..n
      /\ \A i \in 0..(n - 1) : f[i + 1] = Follow(f[i], lists[i + 1])
  BY <1>0, <1>1 DEF IsJoining
<1>3. FlattenSeq(lists) = f[n]
  BY <1>1, FlattenJoins
<1> HIDE DEF n
<1>4. \A i \in 0..(n - 1) : ToSet(f[i + 1]) = ToSet(f[i]) \cup ToSet(lists[i + 1])
  <2>1. ASSUME NEW i \in 0..(n - 1)
        PROVE  ToSet(f[i + 1]) = ToSet(f[i]) \cup ToSet(lists[i + 1])
    <3>1. i \in 0..n /\ i + 1 \in 1..n
      BY <1>0
    <3>2. f[i] \in Seq(S) /\ lists[i + 1] \in Seq(S)
      BY <1>0, <1>2, <3>1
    <3>3. ToSet(f[i] \o lists[i + 1]) = ToSet(f[i]) \cup ToSet(lists[i + 1])
      BY <3>2, ConcatInSet
    <3> QED
      BY <1>2, <3>3 DEF Follow
  <2> QED
    BY <2>1
<1> DEFINE K == {k \in Nat : k =< n => \A i \in 1..k : ToSet(lists[i]) \subseteq ToSet(f[k])}
<1>5. 0 \in K
  OBVIOUS
<1>6. ASSUME NEW k \in K PROVE k + 1 \in K
  <2>1. ASSUME k + 1 =< n, NEW i \in 1..(k + 1) PROVE ToSet(lists[i]) \subseteq ToSet(f[k + 1])
    <3>1. k \in 0..(n - 1) /\ (i = k + 1 \/ i \in 1..k)
      BY <1>0, <2>1
    <3>2. ToSet(f[k + 1]) = ToSet(f[k]) \cup ToSet(lists[k + 1])
      BY <1>4, <3>1
    <3>3. i \in 1..k => ToSet(lists[i]) \subseteq ToSet(f[k])
      BY <1>0, <2>1
    <3> QED
      BY <3>1, <3>2, <3>3
  <2> QED
    BY <2>1
<1>7. K = Nat
  <2>1. K \in SUBSET Nat
    OBVIOUS
  <2> HIDE DEF K
  <2> QED
    BY <1>5, <1>6, <2>1, AllNumbers
<1>8. n \in K /\ n = Len(lists)
  BY <1>0, <1>7 DEF n
<1> QED
  BY <1>0, <1>2, <1>3, <1>8

-----------------------------------------------------------------------------
(* Sums *)

\* sums[n] is the sum of f[1] to f[n], for the n up to a bound.
IsRunning(sums, f, D) ==
  /\ sums \in [D -> Int]
  /\ sums[0] = 0
  /\ \A n \in Nat : n + 1 \in D => sums[n + 1] = sums[n] + f[n + 1]

\* Every function has its running sum.
LEMMA RunningSum ==
  ASSUME NEW f \in [Nat -> Int]
  PROVE  \E sums : IsRunning(sums, f, Nat)
PROOF
<1> DEFINE I == {n \in Nat : \E sums : IsRunning(sums, f, 0..n)}
<1>1. 0 \in I
  <2>1. IsRunning([i \in 0..0 |-> 0], f, 0..0)
    BY DEF IsRunning
  <2> QED
    BY <2>1
<1>2. ASSUME NEW n \in I PROVE n + 1 \in I
  <2>1. PICK sums : IsRunning(sums, f, 0..n)
    OBVIOUS
  <2> DEFINE more == [i \in 0..(n + 1) |-> IF i = n + 1 THEN sums[n] + f[n + 1] ELSE sums[i]]
  <2>2. n \in Nat /\ sums \in [0..n -> Int] /\ sums[n] \in Int /\ f[n + 1] \in Int
    BY <2>1 DEF IsRunning
  <2>3. more \in [0..(n + 1) -> Int]
    BY <2>2
  <2>4. more[0] = 0
    BY <2>1, <2>2 DEF IsRunning
  <2>5. ASSUME NEW i \in Nat, i + 1 \in 0..(n + 1)
        PROVE  more[i + 1] = more[i] + f[i + 1]
    <3>1. CASE i = n
      BY <2>2, <3>1
    <3>2. CASE i # n
      <4>1. i + 1 \in 0..n /\ i # n + 1 /\ i + 1 # n + 1
        BY <2>2, <2>5, <3>2
      <4>2. sums[i + 1] = sums[i] + f[i + 1]
        BY <2>1, <4>1 DEF IsRunning
      <4> QED
        BY <2>2, <2>5, <4>1, <4>2
    <3> QED
      BY <3>1, <3>2
  <2> HIDE DEF more
  <2>6. IsRunning(more, f, 0..(n + 1))
    BY <2>3, <2>4, <2>5 DEF IsRunning
  <2> QED
    BY <2>2, <2>6
<1>3. I = Nat
  <2>1. I \in SUBSET Nat
    OBVIOUS
  <2> HIDE DEF I
  <2> QED
    BY <1>1, <1>2, <2>1, AllNumbers
<1> DEFINE Upto(n) == CHOOSE sums : IsRunning(sums, f, 0..n)
<1>4. \A n \in Nat : IsRunning(Upto(n), f, 0..n)
  <2>1. \A n \in Nat : \E sums : IsRunning(sums, f, 0..n)
    BY <1>3
  <2> QED
    BY <2>1
<1> HIDE DEF Upto
<1>5. ASSUME NEW n \in Nat, NEW m \in Nat, m =< n
      PROVE  Upto(n)[m] = Upto(m)[m]
  <2> DEFINE J == {i \in Nat : i =< m => Upto(n)[i] = Upto(m)[i]}
  <2>1. 0 \in J
    BY <1>4 DEF IsRunning
  <2>2. ASSUME NEW i \in J PROVE i + 1 \in J
    <3>1. CASE i + 1 =< m
      <4>1. i \in Nat /\ i + 1 \in 0..m /\ i + 1 \in 0..n
        BY <1>5, <3>1
      <4>2. /\ Upto(n)[i + 1] = Upto(n)[i] + f[i + 1]
            /\ Upto(m)[i + 1] = Upto(m)[i] + f[i + 1]
        BY <1>4, <4>1 DEF IsRunning
      <4> QED
        BY <3>1, <4>1, <4>2
    <3>2. CASE ~(i + 1 =< m)
      BY <3>2
    <3> QED
      BY <3>1, <3>2
  <2>3. J = Nat
    <3>1. J \in SUBSET Nat
      OBVIOUS
    <3> HIDE DEF J
    <3> QED
      BY <2>1, <2>2, <3>1, AllNumbers
  <2> QED
    BY <2>3
<1> DEFINE all == [n \in Nat |-> Upto(n)[n]]
<1>6. all \in [Nat -> Int]
  <2>1. \A n \in Nat : Upto(n) \in [0..n -> Int] /\ n \in 0..n
    BY <1>4 DEF IsRunning
  <2> QED
    BY <2>1
<1>7. all[0] = 0
  BY <1>4 DEF IsRunning
<1>8. ASSUME NEW n \in Nat PROVE all[n + 1] = all[n] + f[n + 1]
  <2>1. n + 1 \in Nat /\ n + 1 \in 0..(n + 1) /\ n =< n + 1
    OBVIOUS
  <2>2. Upto(n + 1)[n + 1] = Upto(n + 1)[n] + f[n + 1]
    BY <1>4, <2>1 DEF IsRunning
  <2>3. Upto(n + 1)[n] = Upto(n)[n]
    BY <1>5, <2>1
  <2> QED
    BY <2>1, <2>2, <2>3
<1> HIDE DEF all
<1>9. IsRunning(all, f, Nat)
  BY <1>6, <1>7, <1>8 DEF IsRunning
<1> QED
  BY <1>9

\* total[T] is the sum of f[x] for the x in T, whichever x is taken first.
IsTotal(total, f, S) ==
  /\ total \in [SUBSET S -> Int]
  /\ total[{}] = 0
  /\ \A T \in SUBSET S : \A x \in T : total[T] = f[x] + total[T \ {x}]

\* There is a sum over every subset of a finite set.
LEMMA TotalExists ==
  ASSUME NEW S, IsFiniteSet(S), NEW f \in [S -> Int]
  PROVE  \E total : IsTotal(total, f, S)
PROOF
<1> DEFINE n == Cardinality(S)
<1>1. n \in Nat /\ \E b : b \in Bijection(1..n, S)
  BY FS_CardinalityType DEF ExistsBijection
<1>2. PICK b : b \in Bijection(1..n, S)
  BY <1>1
<1>3. /\ b \in [1..n -> S]
      /\ \A i, j \in 1..n : b[i] = b[j] => i = j
      /\ \A x \in S : \E i \in 1..n : b[i] = x
  BY <1>2 DEF Bijection, Injection, Surjection, IsInjective
<1> HIDE DEF n
<1> DEFINE step(T) == [k \in Nat |-> IF k \in 1..n /\ b[k] \in T THEN f[b[k]] ELSE 0]
           run(T)  == CHOOSE sums : IsRunning(sums, step(T), Nat)
<1>4. ASSUME NEW T PROVE IsRunning(run(T), step(T), Nat)
  <2>1. step(T) \in [Nat -> Int]
    BY <1>1, <1>3
  <2> HIDE DEF step
  <2>2. \E sums : IsRunning(sums, step(T), Nat)
    BY <2>1, RunningSum
  <2> QED
    BY <2>2
<1> HIDE DEF run
<1>5. ASSUME NEW T
      PROVE  /\ run(T)[0] = 0
             /\ \A k \in Nat : run(T)[k] \in Int
             /\ \A k \in Nat : run(T)[k + 1] = run(T)[k] +
                  (IF k + 1 \in 1..n /\ b[k + 1] \in T THEN f[b[k + 1]] ELSE 0)
  <2>1. IsRunning(run(T), step(T), Nat)
    BY <1>4
  <2>2. \A k \in Nat : step(T)[k + 1] =
          IF k + 1 \in 1..n /\ b[k + 1] \in T THEN f[b[k + 1]] ELSE 0
    OBVIOUS
  <2> HIDE DEF step
  <2> QED
    BY <2>1, <2>2 DEF IsRunning
<1> HIDE DEF step
<1> DEFINE total == [T \in SUBSET S |-> run(T)[n]]
<1>6. total \in [SUBSET S -> Int]
  BY <1>1, <1>5
<1>7. total[{}] = 0
  <2> DEFINE J == {k \in Nat : run({})[k] = 0}
  <2>1. 0 \in J
    BY <1>5
  <2>2. ASSUME NEW k \in J PROVE k + 1 \in J
    BY <1>5
  <2>3. J = Nat
    <3>1. J \in SUBSET Nat
      OBVIOUS
    <3> HIDE DEF J
    <3> QED
      BY <2>1, <2>2, <3>1, AllNumbers
  <2> QED
    BY <1>1, <2>3
<1>8. ASSUME NEW T \in SUBSET S, NEW x \in T
      PROVE  total[T] = f[x] + total[T \ {x}]
  <2>1. PICK i \in 1..n : b[i] = x
    BY <1>3, <1>8
  <2> DEFINE R == T \ {x}
             J == {k \in Nat : run(T)[k] = run(R)[k] + (IF i =< k THEN f[x] ELSE 0)}
  <2>2. f[x] \in Int /\ i \in Nat \ {0}
    BY <1>1, <1>8
  <2>3. 0 \in J
    BY <1>5, <2>2
  <2>4. ASSUME NEW k \in J PROVE k + 1 \in J
    <3>1. /\ k \in Nat
          /\ run(T)[k] \in Int /\ run(R)[k] \in Int
          /\ run(T)[k] = run(R)[k] + (IF i =< k THEN f[x] ELSE 0)
          /\ run(T)[k + 1] = run(T)[k] +
               (IF k + 1 \in 1..n /\ b[k + 1] \in T THEN f[b[k + 1]] ELSE 0)
          /\ run(R)[k + 1] = run(R)[k] +
               (IF k + 1 \in 1..n /\ b[k + 1] \in R THEN f[b[k + 1]] ELSE 0)
      BY <1>5
    <3>2. CASE k + 1 = i
      <4>1. b[k + 1] \in T /\ b[k + 1] \notin R /\ b[k + 1] = x /\ k + 1 \in 1..n
            /\ ~(i =< k) /\ i =< k + 1
        BY <2>1, <2>2, <3>1, <3>2
      <4> HIDE DEF R
      <4>2. run(T)[k + 1] = run(R)[k + 1] + f[x]
        BY <2>2, <3>1, <4>1
      <4> QED
        BY <3>1, <4>1, <4>2
    <3>3. CASE k + 1 # i
      <4>1. k + 1 \in 1..n => (b[k + 1] \in T <=> b[k + 1] \in R)
        BY <1>3, <2>1, <3>3
      <4>2. k + 1 \in 1..n => f[b[k + 1]] \in Int
        BY <1>3
      <4>3. i =< k <=> i =< k + 1
        BY <2>2, <3>1, <3>3
      <4> DEFINE d == IF k + 1 \in 1..n /\ b[k + 1] \in T THEN f[b[k + 1]] ELSE 0
                 e == IF i =< k THEN f[x] ELSE 0
      <4>4. d \in Int /\ e \in Int
        BY <2>2, <4>2
      <4>5. run(T)[k + 1] = run(T)[k] + d /\ run(R)[k + 1] = run(R)[k] + d
        BY <3>1, <4>1
      <4>6. run(T)[k] = run(R)[k] + e
        BY <3>1
      <4>7. e = IF i =< k + 1 THEN f[x] ELSE 0
        BY <4>3
      <4> HIDE DEF d, e, R
      <4>8. run(T)[k + 1] = run(R)[k + 1] + e
        BY <3>1, <4>4, <4>5, <4>6
      <4> QED
        BY <3>1, <4>7, <4>8
    <3> QED
      BY <3>2, <3>3
  <2>5. J = Nat
    <3>1. J \in SUBSET Nat
      OBVIOUS
    <3> HIDE DEF J
    <3> QED
      BY <2>3, <2>4, <3>1, AllNumbers
  <2>6. run(T)[n] = run(R)[n] + f[x]
    <3>1. n \in J
      BY <1>1, <2>5
    <3>2. run(T)[n] = run(R)[n] + (IF i =< n THEN f[x] ELSE 0)
      BY <3>1
    <3>3. i =< n
      BY <1>1
    <3> QED
      BY <3>2, <3>3
  <2>7. run(R)[n] \in Int /\ R \in SUBSET S
    BY <1>1, <1>5
  <2> QED
    BY <2>2, <2>6, <2>7
<1> HIDE DEF total
<1>9. IsTotal(total, f, S)
  BY <1>6, <1>7, <1>8 DEF IsTotal
<1> QED
  BY <1>9

\* Sums over a set are equal if the functions are on that set.
LEMMA TotalOf ==
  ASSUME NEW S, NEW R, NEW f, NEW g, NEW t, NEW u,
         IsTotal(t, f, S), IsTotal(u, g, R),
         NEW T, IsFiniteSet(T), T \subseteq S, T \subseteq R,
         \A x \in T : f[x] = g[x]
  PROVE  t[T] = u[T]
PROOF
<1> DEFINE I == {n \in Nat : \A Q \in SUBSET T : Cardinality(Q) = n => t[Q] = u[Q]}
<1>1. 0 \in I
  <2>1. ASSUME NEW Q \in SUBSET T, Cardinality(Q) = 0 PROVE t[Q] = u[Q]
    <3>1. Q = {}
      BY <2>1, FS_Subset, FS_EmptySet
    <3> QED
      BY <3>1 DEF IsTotal
  <2> QED
    BY <2>1
<1>2. ASSUME NEW n \in I PROVE n + 1 \in I
  <2>1. ASSUME NEW Q \in SUBSET T, Cardinality(Q) = n + 1 PROVE t[Q] = u[Q]
    <3>1. IsFiniteSet(Q) /\ Q # {}
      BY <2>1, FS_Subset, FS_EmptySet
    <3>2. PICK x : x \in Q
      BY <3>1
    <3>3. Cardinality(Q \ {x}) = n
      <4>1. n \in Nat /\ Cardinality(Q) \in Nat /\ Cardinality(Q) = n + 1
        BY <2>1, <3>1, FS_CardinalityType
      <4>2. Cardinality(Q \ {x}) = Cardinality(Q) - 1
        BY <3>1, <3>2, FS_RemoveElement
      <4> HIDE DEF I
      <4> QED
        BY <4>1, <4>2
    <3>4. t[Q \ {x}] = u[Q \ {x}]
      BY <3>3
    <3>5. /\ t[Q] = f[x] + t[Q \ {x}]
          /\ u[Q] = g[x] + u[Q \ {x}]
      BY <3>2 DEF IsTotal
    <3> QED
      BY <3>2, <3>4, <3>5
  <2> QED
    BY <2>1
<1>3. I = Nat
  <2>1. I \in SUBSET Nat
    OBVIOUS
  <2> HIDE DEF I
  <2> QED
    BY <1>1, <1>2, <2>1, AllNumbers
<1>4. Cardinality(T) \in Nat
  BY FS_CardinalityType
<1> QED
  BY <1>3, <1>4

\* What is taken from one and given to another leaves the sum.
LEMMA TotalMoves ==
  ASSUME NEW S, IsFiniteSet(S), NEW f \in [S -> Int], NEW g \in [S -> Int],
         NEW t, NEW u, IsTotal(t, f, S), IsTotal(u, g, S),
         NEW a \in S, NEW b \in S, a # b, NEW d \in Int,
         g[a] = f[a] + d, g[b] = f[b] - d,
         \A x \in S : x \notin {a, b} => g[x] = f[x]
  PROVE  u[S] = t[S]
PROOF
<1> DEFINE R == (S \ {a}) \ {b}
<1>1. t[R] = u[R]
  <2>1. IsFiniteSet(R)
    BY FS_RemoveElement
  <2> QED
    BY <2>1, TotalOf
<1>2. /\ t[S] = f[a] + t[S \ {a}] /\ t[S \ {a}] = f[b] + t[R]
      /\ u[S] = g[a] + u[S \ {a}] /\ u[S \ {a}] = g[b] + u[R]
  <2>1. S \in SUBSET S /\ S \ {a} \in SUBSET S /\ b \in S \ {a}
    OBVIOUS
  <2> QED
    BY <2>1 DEF IsTotal
<1>3. t[R] \in Int /\ f[a] \in Int /\ f[b] \in Int
  <2>1. R \in SUBSET S
    OBVIOUS
  <2> QED
    BY <2>1 DEF IsTotal
<1> HIDE DEF R
<1> QED
  BY <1>1, <1>2, <1>3

\* iter sums up f by taking one element at a time out of a set.
TakesOut(iter, f, S) ==
  /\ iter[{}] = 0
  /\ \A T \in SUBSET S : T # {} => \E x \in T : iter[T] = f[x] + iter[T \ {x}]

\* Which element it takes makes no difference.
LEMMA AnyOrder ==
  ASSUME NEW S, IsFiniteSet(S), NEW f, NEW t, IsTotal(t, f, S),
         NEW iter, TakesOut(iter, f, S)
  PROVE  iter[S] = t[S]
PROOF
<1> DEFINE I == {n \in Nat : \A Q \in SUBSET S : Cardinality(Q) = n => iter[Q] = t[Q]}
<1>1. 0 \in I
  <2>1. ASSUME NEW Q \in SUBSET S, Cardinality(Q) = 0 PROVE iter[Q] = t[Q]
    <3>1. Q = {}
      BY <2>1, FS_Subset, FS_EmptySet
    <3> QED
      BY <3>1 DEF IsTotal, TakesOut
  <2> QED
    BY <2>1
<1>2. ASSUME NEW n \in I PROVE n + 1 \in I
  <2>1. ASSUME NEW Q \in SUBSET S, Cardinality(Q) = n + 1 PROVE iter[Q] = t[Q]
    <3>1. n \in Nat /\ IsFiniteSet(Q) /\ Q # {}
      BY <2>1, FS_Subset, FS_EmptySet
    <3>2. PICK x \in Q : iter[Q] = f[x] + iter[Q \ {x}]
      BY <3>1 DEF TakesOut
    <3>3. Cardinality(Q \ {x}) = n
      <4>1. Cardinality(Q \ {x}) = Cardinality(Q) - 1 /\ Cardinality(Q) \in Nat
        BY <3>1, FS_RemoveElement, FS_CardinalityType
      <4> HIDE DEF I
      <4> QED
        BY <2>1, <3>1, <4>1
    <3>4. iter[Q \ {x}] = t[Q \ {x}]
      BY <3>3
    <3>5. t[Q] = f[x] + t[Q \ {x}]
      BY DEF IsTotal
    <3> QED
      BY <3>2, <3>4, <3>5
  <2> QED
    BY <2>1
<1>3. I = Nat
  <2>1. I \in SUBSET Nat
    OBVIOUS
  <2> HIDE DEF I
  <2> QED
    BY <1>1, <1>2, <2>1, AllNumbers
<1>4. Cardinality(S) \in Nat
  BY FS_CardinalityType
<1> QED
  BY <1>3, <1>4

\* What SumFunction sums up.
LEMMA SumOfFunction ==
  ASSUME NEW S, IsFiniteSet(S), NEW f \in [S -> Int], NEW t, IsTotal(t, f, S)
  PROVE  SumFunction(f) = t[S]
PROOF
<1> DEFINE Pick(T) == CHOOSE x \in T : TRUE
           IsSum(g) == g = [T \in SUBSET S |->
                              IF T = {} THEN 0 ELSE f[Pick(T)] + g[T \ {Pick(T)}]]
           iter == CHOOSE g : IsSum(g)
<1>1. SumFunction(f) = iter[S]
  BY DEF SumFunction, SumFunctionOnSet, FoldFunctionOnSet, MapThenFoldSet
<1>2. \A T \in SUBSET S : T # {} => Pick(T) \in T
  OBVIOUS
<1> HIDE DEF Pick
<1>3. IsSum(t)
  BY <1>2 DEF IsTotal
<1>4. IsSum(iter)
  <2> HIDE DEF IsSum
  <2> QED
    BY <1>3
<1> HIDE DEF iter
<1>5. TakesOut(iter, f, S)
  BY <1>2, <1>4 DEF TakesOut
<1> HIDE DEF IsSum
<1>6. iter[S] = t[S]
  BY <1>5, AnyOrder
<1> QED
  BY <1>1, <1>6

\* The sum of a finite function is a number.
LEMMA SumIsNumber ==
  ASSUME NEW S, IsFiniteSet(S), NEW f \in [S -> Int]
  PROVE  SumFunction(f) \in Int
PROOF
<1>1. PICK t : IsTotal(t, f, S)
  BY TotalExists
<1>2. SumFunction(f) = t[S]
  BY <1>1, SumOfFunction
<1> QED
  BY <1>1, <1>2 DEF IsTotal

\* Nothing adds up to nothing.
LEMMA SumOfNothing ==
  ASSUME NEW S, IsFiniteSet(S), NEW f \in [S -> Int], \A x \in S : f[x] = 0
  PROVE  SumFunction(f) = 0
PROOF
<1> DEFINE t == [T \in SUBSET S |-> 0]
<1>1. IsTotal(t, f, S) /\ t[S] = 0
  BY DEF IsTotal
<1> HIDE DEF t
<1>2. SumFunction(f) = t[S]
  BY <1>1, SumOfFunction
<1> QED
  BY <1>1, <1>2

\* From f to g, a gets d from b.
Moves(f, g, a, b, d) ==
  /\ a # b
  /\ g[a] = f[a] + d
  /\ g[b] = f[b] - d
  /\ \A x \in DOMAIN f : x \notin {a, b} => g[x] = f[x]

\* What one pays and another gets leaves the sum.
LEMMA SumMoves ==
  ASSUME NEW S, IsFiniteSet(S), NEW f \in [S -> Int], NEW g \in [S -> Int],
         NEW a \in S, NEW b \in S, NEW d \in Int, Moves(f, g, a, b, d)
  PROVE  SumFunction(g) = SumFunction(f)
PROOF
<1>1. PICK t : IsTotal(t, f, S)
  BY TotalExists
<1>2. PICK u : IsTotal(u, g, S)
  BY TotalExists
<1>3. u[S] = t[S]
  BY <1>1, <1>2, TotalMoves DEF Moves
<1>4. SumFunction(f) = t[S]
  BY <1>1, SumOfFunction
<1>5. SumFunction(g) = u[S]
  BY <1>2, SumOfFunction
<1> QED
  BY <1>3, <1>4, <1>5

\* One more number at the end of a list.
LEMMA SumOfOneMore ==
  ASSUME NEW n \in Nat, NEW f \in [1..n -> Int], NEW g \in [1..(n + 1) -> Int],
         \A i \in 1..n : g[i] = f[i]
  PROVE  SumFunction(g) = SumFunction(f) + g[n + 1]
PROOF
<1>1. IsFiniteSet(1..n) /\ IsFiniteSet(1..(n + 1))
  BY FS_Interval
<1>2. PICK t : IsTotal(t, f, 1..n)
  BY <1>1, TotalExists
<1>3. PICK u : IsTotal(u, g, 1..(n + 1))
  BY <1>1, TotalExists
<1>4. n + 1 \in 1..(n + 1) /\ (1..(n + 1)) \ {n + 1} = 1..n
  OBVIOUS
<1>5. u[1..(n + 1)] = g[n + 1] + u[1..n]
  <2> DEFINE R == 1..(n + 1)
  <2>1. R \in SUBSET R /\ n + 1 \in R /\ R \ {n + 1} = 1..n
    BY <1>4
  <2>2. IsTotal(u, g, R)
    BY <1>3
  <2> HIDE DEF R
  <2>3. u[R] = g[n + 1] + u[R \ {n + 1}]
    BY <2>1, <2>2 DEF IsTotal
  <2> QED
    BY <2>1, <2>3 DEF R
<1>6. u[1..n] = t[1..n]
  BY <1>1, <1>2, <1>3, <1>4, TotalOf
<1>7. t[1..n] \in Int /\ g[n + 1] \in Int
  BY <1>2, <1>4 DEF IsTotal
<1>8. SumFunction(f) = t[1..n]
  BY <1>1, <1>2, SumOfFunction
<1>9. SumFunction(g) = u[1..(n + 1)]
  BY <1>1, <1>3, SumOfFunction
<1> QED
  BY <1>5, <1>6, <1>7, <1>8, <1>9
=============================================================================
