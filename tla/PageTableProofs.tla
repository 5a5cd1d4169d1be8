-------------------------- MODULE PageTableProofs --------------------------
(***************************************************************************)
(* Proofs about what a page shows of the orders of its user: that the      *)
(* table tells what rests, and that what was filled is counted once for    *)
(* every time the session of the page is listed.                           *)
(*                                                                         *)
(* A page lags behind the exchange by what waits for it, by the responses  *)
(* of the call that runs, and by the confirmations of the trades the call  *)
(* has yet to settle.  The invariant takes these together as one list of   *)
(* messages and says that the list leads from what the page shows now to   *)
(* how the order is (InStep).                                              *)
(***************************************************************************)
EXTENDS TradingProofs

-----------------------------------------------------------------------------
(* What waits for a page tells of one order *)

\* An order message about the order with the ID x, one that tells this action,
\* and the message that the order was cancelled.
Tells(m, x)      == m.kind = "order" /\ m.response.id = x
Says(m, x, act)  == Tells(m, x) /\ m.response.action = act
Ends(m, x)       == m.kind = "cancel" /\ m.response.id = x /\ m.response.success
Concerns(m, x)   == Tells(m, x) \/ Ends(m, x)

\* Where an order is: the one that comes in and of which nothing was told yet,
\* one that rests or can be matched on, or one that nothing more happens to.
Stages == {"fresh", "rests", "over"}

\* A message tells at which stage the order is, and what is left of it.
Right(m, stage, left) ==
  IF m.kind = "cancel" THEN stage = "over"
  ELSE /\ stage = "rests" <=> m.response.action \in {Partly, Rests}
       /\ stage = "rests" => m.response.remaining = left

\* The last message about the order does.
LastIsRight(w, x, stage, left) ==
  \E i \in 1..Len(w) : /\ Concerns(w[i], x) /\ Right(w[i], stage, left)
                       /\ \A j \in (i + 1)..Len(w) : ~Concerns(w[j], x)

\* None tells of it.
Silent(w, x) == \A i \in 1..Len(w) : ~Concerns(w[i], x)

\* What a page shows of an order; one that it does not know counts as one
\* cancelled before anything of it was filled.
NoEntry        == [filled |-> 0, remaining |-> 0, status |-> "Canceled", row |-> NoRow]
EntryAt(pg, x) == IF x \in DOMAIN pg.orders THEN pg.orders[x] ELSE NoEntry

\* The entry tells it.
EntryIsRight(e, stage, left) ==
  /\ stage = "rests" <=> Live(e)
  /\ stage = "rests" => e.remaining = left

\* The messages that wait tell of the order as it is or, if none does, the entry.
IsTold(e, w, x, stage, left) ==
  \/ LastIsRight(w, x, stage, left)
  \/ Silent(w, x) /\ EntryIsRight(e, stage, left)

\* Nothing but refusals was told under an ID.
Unfilled(e, w, x) ==
  /\ e.filled = 0 /\ e.status # "Filled"
  /\ \A i \in 1..Len(w) : Concerns(w[i], x) => Says(w[i], x, Failed)

\* An order that is shown as filled is over, and of the message that tells it
\* only copies can wait, at the head.
FilledIsOver(e, w, x, stage) ==
  e.status = "Filled" =>
    /\ stage = "over"
    /\ \A j \in 1..Len(w) : Tells(w[j], x) => Tells(w[1], x) /\ Says(w[j], x, Filled)

\* One that is shown as cancelled is over too, unless nothing was filled of it.
CanceledIsOver(e, w, x, stage) ==
  e.status = "Canceled" =>
    \/ e.filled = 0
    \/ stage = "over" /\ \A j \in 1..Len(w) : ~Tells(w[j], x)

\* Behind a message that ends the order come copies of it only, at once.
EndsAreLast(w, x, stage) ==
  \A i \in 1..Len(w) : Ends(w[i], x) \/ Says(w[i], x, Filled) =>
    /\ stage = "over"
    /\ \A j \in (i + 1)..Len(w) :
         Tells(w[j], x) => Tells(w[i], x) /\ Tells(w[i + 1], x) /\ Says(w[j], x, Filled)

\* Refusals come before everything else.
RefusedFirst(e, w, x) ==
  \A i \in 1..Len(w) : Says(w[i], x, Failed) =>
    /\ e.filled = 0 /\ e.status # "Filled"
    /\ \A j \in 1..(i - 1) : Tells(w[j], x) => Says(w[j], x, Failed)

\* An order ends once, and nothing is told of it after that.
ClosesOnce(e, w, x, stage) ==
  /\ FilledIsOver(e, w, x, stage) /\ CanceledIsOver(e, w, x, stage)
  /\ EndsAreLast(w, x, stage) /\ RefusedFirst(e, w, x)

\* What a message tells to be filled of the order; what a page that shows a
\* filled shows when it has handled the messages.
FillOf(m, x) == IF Tells(m, x) THEN m.response.filled ELSE 0

\* f goes through what is shown to be filled, message by message.
FillsBy(f, w, x) ==
  /\ f \in [0..Len(w) -> Int]
  /\ \A i \in 0..(Len(w) - 1) : f[i + 1] = f[i] + FillOf(w[i + 1], x)

Fills(w, x, a, b) == \E f : FillsBy(f, w, x) /\ f[0] = a /\ f[Len(w)] = b

\* The page deleted the entry of an order that is over, and will not hear of
\* it again.
Lost(e, w, x, stage) ==
  e = NoEntry /\ stage = "over" /\ \A j \in 1..Len(w) : ~Tells(w[j], x)

\* The page, the messages that wait for it, sent k times each, and the order
\* of which `left' is left of `size' are in step.
InStep(e, w, x, k, stage, size, left) ==
  /\ Lost(e, w, x, stage) \/ Fills(w, x, e.filled, k * (size - left))
  /\ size > 0 /\ stage # "fresh" => IsTold(e, w, x, stage, left)
  /\ ClosesOnce(e, w, x, stage)
  /\ stage = "fresh" => Unfilled(e, w, x) /\ left = size

\* n copies of a message more.
Grown(w, n, m) == Follow(w, [copy \in 1..n |-> m])

\* What that is, message by message.
LEMMA GrownIs ==
  ASSUME NEW w \in Seq(Mail), NEW n \in Nat, NEW m \in Mail
  PROVE  /\ Grown(w, n, m) \in Seq(Mail)
         /\ Len(Grown(w, n, m)) = Len(w) + n /\ Len(w) \in Nat
         /\ \A i \in 1..Len(w) : Grown(w, n, m)[i] = w[i]
         /\ \A i \in (Len(w) + 1)..(Len(w) + n) : Grown(w, n, m)[i] = m
         /\ n = 0 => Grown(w, n, m) = w
PROOF
<1> DEFINE c == [copy \in 1..n |-> m]
<1> HIDE DEF Mail
<1>1. c \in Seq(Mail) /\ Len(c) = n /\ \A i \in 1..n : c[i] = m
  OBVIOUS
<1> HIDE DEF c
<1>2. /\ w \o c \in Seq(Mail) /\ Len(w \o c) = Len(w) + Len(c) /\ Len(w) \in Nat
      /\ \A i \in 1..(Len(w) + Len(c)) :
           (w \o c)[i] = IF i <= Len(w) THEN w[i] ELSE c[i - Len(w)]
  <2>1. c \in Seq(Mail) /\ w \in Seq(Mail)
    BY <1>1
  <2>2. Len(w) \in Nat
    BY <2>1
  <2>3. /\ w \o c \in Seq(Mail) /\ Len(w \o c) = Len(w) + Len(c)
        /\ \A i \in 1..(Len(w) + Len(c)) :
             (w \o c)[i] = IF i <= Len(w) THEN w[i] ELSE c[i - Len(w)]
    BY <2>1, ConcatProperties
  <2> QED
    BY <2>2, <2>3
<1>3. Grown(w, n, m) = w \o c
  BY DEF Grown, Follow, c
<1>4. \A i \in 1..Len(w) : (w \o c)[i] = w[i]
  BY <1>1, <1>2
<1>5. ASSUME NEW i \in (Len(w) + 1)..(Len(w) + n)
      PROVE  (w \o c)[i] = m
  <2>1. i \in 1..(Len(w) + Len(c)) /\ ~(i <= Len(w)) /\ i - Len(w) \in 1..n
    BY <1>1, <1>2
  <2> QED
    BY <1>1, <1>2, <2>1
<1>6. n = 0 => w \o c = w
  <2> SUFFICES ASSUME n = 0 PROVE w \o c = w
    OBVIOUS
  <2>1. c = << >>
    BY <1>1
  <2> QED
    BY <2>1
<1> QED
  BY <1>1, <1>2, <1>3, <1>4, <1>5, <1>6

\* What FillOf adds up to.
LEMMA FillsGrow ==
  ASSUME NEW w \in Seq(Mail), NEW n \in Nat, NEW m \in Mail, NEW x,
         NEW a \in Int, NEW b \in Int, Fills(w, x, a, b)
  PROVE  Fills(Grown(w, n, m), x, a, b + n * FillOf(m, x))
PROOF
<1> HIDE DEF Mail
<1>1. PICK w2 : w2 = Grown(w, n, m)
  OBVIOUS
<1>2. PICK l : l = Len(w)
  OBVIOUS
<1>3. PICK d : d = FillOf(m, x)
  OBVIOUS
<1>4. /\ w2 \in Seq(Mail) /\ Len(w2) = l + n /\ l \in Nat
      /\ \A i \in 1..l : w2[i] = w[i]
      /\ \A i \in (l + 1)..(l + n) : w2[i] = m
  <2>1. /\ Grown(w, n, m) \in Seq(Mail)
        /\ Len(Grown(w, n, m)) = Len(w) + n /\ Len(w) \in Nat
        /\ \A i \in 1..Len(w) : Grown(w, n, m)[i] = w[i]
        /\ \A i \in (Len(w) + 1)..(Len(w) + n) : Grown(w, n, m)[i] = m
    BY GrownIs
  <2> QED
    BY <1>1, <1>2, <2>1
<1>5. d \in Int
  BY <1>3 DEF FillOf, Tells, Mail, Reports, OrderMessage
<1>6. PICK f : FillsBy(f, w, x) /\ f[0] = a /\ f[l] = b
  BY <1>2 DEF Fills
<1> DEFINE g == [i \in 0..(l + n) |-> IF i <= l THEN f[i] ELSE b + (i - l) * d]
<1>7. /\ f \in [0..l -> Int]
      /\ \A i \in 0..(l - 1) : f[i + 1] = f[i] + FillOf(w[i + 1], x)
  BY <1>2, <1>6 DEF FillsBy
<1>8. \A i \in 0..n : i * d \in Int /\ (i + 1) * d = i * d + d
  BY <1>4, <1>5
<1>9. g \in [0..(l + n) -> Int]
  <2>1. ASSUME NEW i \in 0..(l + n), ~(i <= l) PROVE (i - l) * d \in Int
    BY <1>4, <1>5, <2>1
  <2>2. ASSUME NEW i \in 0..(l + n), i <= l PROVE f[i] \in Int
    BY <1>4, <1>7, <2>2
  <2> QED
    BY <2>1, <2>2
<1>10. ASSUME NEW i \in 0..(l + n - 1)
       PROVE  g[i + 1] = g[i] + FillOf(w2[i + 1], x)
  <2>0. i \in 0..(l + n) /\ i + 1 \in 0..(l + n) /\ i \in Nat
    BY <1>4
  <2>1. CASE i + 1 <= l
    <3>1. g[i + 1] = f[i + 1] /\ g[i] = f[i] /\ w2[i + 1] = w[i + 1]
      BY <1>4, <2>0, <2>1
    <3> QED
      BY <1>4, <1>7, <2>0, <2>1, <3>1
  <2>2. CASE ~(i + 1 <= l)
    <3>1. i - l \in 0..n /\ w2[i + 1] = m
      BY <1>4, <2>0, <2>2
    <3>2. g[i + 1] = b + (i + 1 - l) * d
      BY <1>4, <2>0, <2>2
    <3>3. g[i] = b + (i - l) * d
      <4>1. CASE i = l
        BY <1>4, <1>5, <1>6, <2>0, <4>1
      <4>2. CASE i # l
        BY <1>4, <2>0, <2>2, <4>2
      <4> QED
        BY <4>1, <4>2
    <3>4. (i + 1 - l) * d = (i - l) * d + d /\ (i - l) * d \in Int
      <4>1. PICK k : k = i - l
        OBVIOUS
      <4>2. k \in 0..n /\ i + 1 - l = k + 1
        BY <1>4, <2>0, <3>1, <4>1
      <4> QED
        BY <1>8, <4>1, <4>2
    <3> HIDE DEF g
    <3> QED
      BY <1>3, <1>5, <3>1, <3>2, <3>3, <3>4
  <2> QED
    BY <2>1, <2>2
<1>11. g[0] = a /\ g[l + n] = b + n * d
  <2>1. CASE n = 0
    BY <1>4, <1>5, <1>6, <2>1
  <2>2. CASE n # 0
    <3>1. l + n \in 0..(l + n) /\ ~(l + n <= l) /\ (l + n) - l = n
      BY <1>4, <2>2
    <3> QED
      BY <1>4, <1>6, <3>1
  <2> QED
    BY <2>1, <2>2
<1> HIDE DEF g
<1>12. FillsBy(g, w2, x)
  BY <1>4, <1>9, <1>10 DEF FillsBy
<1> QED
  BY <1>1, <1>3, <1>4, <1>11, <1>12 DEF Fills

\* The head of the queue is handled.
LEMMA FillsHandled ==
  ASSUME NEW w \in Seq(Mail), w # << >>, NEW x, NEW a \in Int, NEW b, Fills(w, x, a, b)
  PROVE  Fills(Tail(w), x, a + FillOf(Head(w), x), b)
PROOF
<1> HIDE DEF Mail
<1>1. PICK l, v : l = Len(w) /\ v = Tail(w)
  OBVIOUS
<1>2. /\ v \in Seq(Mail) /\ l \in Nat \ {0} /\ Len(v) = l - 1 /\ Head(w) = w[1]
      /\ \A i \in 1..(l - 1) : v[i] = w[i + 1]
  BY <1>1, HeadAndTail
<1>3. PICK f : FillsBy(f, w, x) /\ f[0] = a /\ f[l] = b
  BY <1>1 DEF Fills
<1>4. /\ f \in [0..l -> Int]
      /\ \A i \in 0..(l - 1) : f[i + 1] = f[i] + FillOf(w[i + 1], x)
  BY <1>1, <1>3 DEF FillsBy
<1> DEFINE g == [i \in 0..(l - 1) |-> f[i + 1]]
<1>5. g \in [0..(l - 1) -> Int]
  BY <1>2, <1>4
<1>6. g[0] = a + FillOf(Head(w), x) /\ g[l - 1] = b
  BY <1>2, <1>3, <1>4
<1>7. ASSUME NEW i \in 0..(l - 1 - 1)
      PROVE  g[i + 1] = g[i] + FillOf(v[i + 1], x)
  <2>1. /\ i + 1 \in 0..(l - 1) /\ i \in 0..(l - 1) /\ i + 1 \in 1..(l - 1)
    BY <1>2
  <2>2. v[i + 1] = w[(i + 1) + 1] /\ g[i + 1] = f[(i + 1) + 1] /\ g[i] = f[i + 1]
    BY <1>2, <2>1
  <2> HIDE DEF g
  <2> QED
    BY <1>4, <2>1, <2>2
<1> HIDE DEF g
<1>8. FillsBy(g, v, x)
  BY <1>2, <1>5, <1>7 DEF FillsBy
<1> QED
  BY <1>1, <1>2, <1>6, <1>8 DEF Fills

\* Messages that tell of no fill.
LEMMA FillsNothing ==
  ASSUME NEW w \in Seq(Mail), NEW x, NEW a \in Int,
         \A i \in 1..Len(w) : FillOf(w[i], x) = 0
  PROVE  Fills(w, x, a, a)
PROOF
<1> HIDE DEF Mail
<1>1. PICK l : l = Len(w)
  OBVIOUS
<1>2. l \in Nat
  BY <1>1
<1> DEFINE g == [i \in 0..l |-> a]
<1>3. g \in [0..l -> Int] /\ g[0] = a /\ g[l] = a
  BY <1>2
<1>4. \A i \in 0..(l - 1) : g[i + 1] = g[i] + FillOf(w[i + 1], x)
  BY <1>1, <1>2
<1> HIDE DEF g
<1>5. FillsBy(g, w, x)
  BY <1>1, <1>3, <1>4 DEF FillsBy
<1> QED
  BY <1>1, <1>3, <1>5 DEF Fills

\* w2 is w and n times m behind it.
IsGrown(w2, w, n, m) ==
  /\ w2 \in Seq(Mail) /\ Len(w) \in Nat /\ Len(w2) = Len(w) + n
  /\ \A i \in 1..Len(w2) : IF i <= Len(w) THEN w2[i] = w[i] ELSE w2[i] = m

\* It is so of n copies more.
LEMMA GrownIsGrown ==
  ASSUME NEW w \in Seq(Mail), NEW n \in Nat, NEW m \in Mail
  PROVE  IsGrown(Grown(w, n, m), w, n, m)
PROOF
<1> HIDE DEF Mail
<1>1. /\ Grown(w, n, m) \in Seq(Mail)
      /\ Len(Grown(w, n, m)) = Len(w) + n /\ Len(w) \in Nat
      /\ \A i \in 1..Len(w) : Grown(w, n, m)[i] = w[i]
      /\ \A i \in (Len(w) + 1)..(Len(w) + n) : Grown(w, n, m)[i] = m
  BY GrownIs
<1> QED
  BY <1>1 DEF IsGrown

\* Messages about other things leave an order in step.
LEMMA OthersTold ==
  ASSUME NEW w \in Seq(Mail), NEW n \in Nat, NEW m \in Mail, NEW x, ~Concerns(m, x),
         NEW e \in Entry, NEW k \in Nat, NEW stage, NEW size \in Int, NEW left \in Int,
         InStep(e, w, x, k, stage, size, left)
  PROVE  InStep(e, Grown(w, n, m), x, k, stage, size, left)
PROOF
<1>1. PICK w2 : w2 = Grown(w, n, m)
  OBVIOUS
<1>2. IsGrown(w2, w, n, m)
  BY <1>1, GrownIsGrown
<1>3. PICK l, l2 : l = Len(w) /\ l2 = Len(w2)
  OBVIOUS
<1> HIDE DEF Mail
<1>4. /\ l \in Nat /\ l2 \in Nat /\ l <= l2
      /\ \A i \in 1..l : i \in 1..l2 /\ w2[i] = w[i]
      /\ \A i \in 1..l2 : i \in 1..l \/ w2[i] = m
  BY <1>2, <1>3 DEF IsGrown
<1>5. ~Tells(m, x) /\ ~Ends(m, x)
  BY DEF Concerns
<1>6. Lost(e, w, x, stage) => Lost(e, w2, x, stage)
  BY <1>3, <1>4, <1>5 DEF Lost
<1>7. Fills(w, x, e.filled, k * (size - left)) => Fills(w2, x, e.filled, k * (size - left))
  <2> SUFFICES ASSUME Fills(w, x, e.filled, k * (size - left))
               PROVE  Fills(w2, x, e.filled, k * (size - left))
    OBVIOUS
  <2>1. PICK b : b = k * (size - left)
    OBVIOUS
  <2>2. b \in Int /\ e.filled \in Int
    <3>1. size - left \in Int
      OBVIOUS
    <3>2. k * (size - left) \in Int
      BY <3>1
    <3>3. e.filled \in Nat
      BY DEF Entry
    <3> QED
      BY <2>1, <3>2, <3>3
  <2>3. Fills(Grown(w, n, m), x, e.filled, b + n * FillOf(m, x))
    BY <2>1, <2>2, FillsGrow
  <2>4. b + n * FillOf(m, x) = b
    BY <1>5, <2>2 DEF FillOf
  <2> QED
    BY <1>1, <2>1, <2>3, <2>4
<1>8. IsTold(e, w, x, stage, left) => IsTold(e, w2, x, stage, left)
  <2>1. ASSUME LastIsRight(w, x, stage, left)
        PROVE  LastIsRight(w2, x, stage, left)
    <3>1. PICK i \in 1..l : /\ Concerns(w[i], x) /\ Right(w[i], stage, left)
                            /\ \A j \in (i + 1)..l : ~Concerns(w[j], x)
      BY <1>3, <2>1 DEF LastIsRight
    <3>2. i \in 1..l2 /\ Concerns(w2[i], x) /\ Right(w2[i], stage, left)
      BY <1>4, <3>1
    <3>3. ASSUME NEW j \in (i + 1)..l2 PROVE ~Concerns(w2[j], x)
      <4>1. j \in 1..l2
        BY <1>4
      <4>2. CASE w2[j] = m
        BY <4>2
      <4>3. CASE j \in 1..l
        <5>1. j \in (i + 1)..l
          BY <1>4, <4>3
        <5> QED
          BY <1>4, <3>1, <4>3, <5>1
      <4> QED
        BY <1>4, <4>1, <4>2, <4>3
    <3> QED
      BY <1>3, <3>2, <3>3 DEF LastIsRight
  <2>2. Silent(w, x) => Silent(w2, x)
    BY <1>3, <1>4 DEF Silent
  <2> QED
    BY <2>1, <2>2 DEF IsTold
<1>9. ClosesOnce(e, w, x, stage) => ClosesOnce(e, w2, x, stage)
  <2> SUFFICES ASSUME ClosesOnce(e, w, x, stage) PROVE ClosesOnce(e, w2, x, stage)
    OBVIOUS
  <2>0. \A a : ~Says(m, x, a)
    BY <1>5 DEF Says
  <2>1. FilledIsOver(e, w2, x, stage)
    <3> SUFFICES ASSUME e.status = "Filled"
                 PROVE  /\ stage = "over"
                        /\ \A j \in 1..l2 : Tells(w2[j], x) => Tells(w2[1], x) /\ Says(w2[j], x, Filled)
      BY <1>3 DEF FilledIsOver
    <3>1. /\ stage = "over"
          /\ \A j \in 1..l : Tells(w[j], x) => Tells(w[1], x) /\ Says(w[j], x, Filled)
      BY <1>3 DEF ClosesOnce, FilledIsOver
    <3>2. \A j \in 1..l : 1 \in 1..l
      BY <1>4
    <3> QED
      BY <1>4, <1>5, <3>1, <3>2
  <2>2. CanceledIsOver(e, w2, x, stage)
    BY <1>3, <1>4, <1>5 DEF ClosesOnce, CanceledIsOver
  <2>3. EndsAreLast(w2, x, stage)
    <3> SUFFICES ASSUME NEW i \in 1..l2, Ends(w2[i], x) \/ Says(w2[i], x, Filled)
                 PROVE  /\ stage = "over"
                        /\ \A j \in (i + 1)..l2 : Tells(w2[j], x) =>
                             Tells(w2[i], x) /\ Tells(w2[i + 1], x) /\ Says(w2[j], x, Filled)
      BY <1>3 DEF EndsAreLast
    <3>1. i \in 1..l /\ w2[i] = w[i]
      BY <1>4, <1>5, <2>0
    <3>2. /\ stage = "over"
          /\ \A j \in (i + 1)..l : Tells(w[j], x) =>
               Tells(w[i], x) /\ Tells(w[i + 1], x) /\ Says(w[j], x, Filled)
      BY <1>3, <3>1 DEF ClosesOnce, EndsAreLast
    <3>3. ASSUME NEW j \in (i + 1)..l2, Tells(w2[j], x)
          PROVE  Tells(w2[i], x) /\ Tells(w2[i + 1], x) /\ Says(w2[j], x, Filled)
      <4>1. j \in 1..l2
        BY <1>4
      <4>2. j \in 1..l /\ w2[j] = w[j]
        BY <1>4, <1>5, <3>3, <4>1
      <4>3. j \in (i + 1)..l /\ i + 1 \in 1..l
        BY <1>4, <3>1, <4>2
      <4> QED
        BY <1>4, <3>1, <3>2, <3>3, <4>2, <4>3
    <3> QED
      BY <3>2, <3>3
  <2>4. RefusedFirst(e, w2, x)
    <3> SUFFICES ASSUME NEW i \in 1..l2, Says(w2[i], x, Failed)
                 PROVE  /\ e.filled = 0 /\ e.status # "Filled"
                        /\ \A j \in 1..(i - 1) : Tells(w2[j], x) => Says(w2[j], x, Failed)
      BY <1>3 DEF RefusedFirst
    <3>1. i \in 1..l /\ w2[i] = w[i]
      BY <1>4, <2>0
    <3>2. \A j \in 1..(i - 1) : j \in 1..l /\ w2[j] = w[j]
      BY <1>4, <3>1
    <3> QED
      BY <1>3, <3>1, <3>2 DEF ClosesOnce, RefusedFirst
  <2> QED
    BY <2>1, <2>2, <2>3, <2>4 DEF ClosesOnce
<1>10. Unfilled(e, w, x) => Unfilled(e, w2, x)
  BY <1>3, <1>4 DEF Unfilled
<1> QED
  BY <1>1, <1>6, <1>7, <1>8, <1>9, <1>10 DEF InStep

\* An order that is not over is not shown as filled; nothing waits that ends it.
LEMMA NotOver ==
  ASSUME NEW w, NEW x, NEW e, NEW k, NEW stage, stage # "over", NEW size, NEW left,
         InStep(e, w, x, k, stage, size, left)
  PROVE  /\ Fills(w, x, e.filled, k * (size - left))
         /\ e.status # "Filled"
         /\ e.status = "Canceled" => e.filled = 0
         /\ \A i \in 1..Len(w) : ~Ends(w[i], x) /\ ~Says(w[i], x, Filled)
PROOF
  BY DEF InStep, Lost, ClosesOnce, FilledIsOver, CanceledIsOver, EndsAreLast

\* The last of some copies is the last message about an order.
LEMMA CopyIsLast ==
  ASSUME NEW w2, NEW w, NEW n \in Nat \ {0}, NEW m, IsGrown(w2, w, n, m),
         NEW x, Concerns(m, x), NEW stage, NEW left, Right(m, stage, left)
  PROVE  LastIsRight(w2, x, stage, left)
PROOF
<1>1. /\ Len(w2) \in 1..Len(w2) /\ w2[Len(w2)] = m
      /\ \A j \in (Len(w2) + 1)..Len(w2) : FALSE
  BY DEF IsGrown
<1> QED
  BY <1>1 DEF LastIsRight

\* The order is reported to be filled further.
LEMMA ReportTold ==
  ASSUME NEW w \in Seq(Mail), NEW k \in Nat \ {0}, NEW m \in Mail, NEW x,
         NEW e \in Entry, NEW size \in Int, NEW left \in Int, NEW left2 \in Int,
         NEW stage, stage # "over", NEW stage2 \in {"rests", "over"},
         InStep(e, w, x, k, stage, size, left),
         Tells(m, x), m.response.filled = left - left2,
         m.response.action # Failed,
         m.response.action = Filled => stage2 = "over",
         size > 0 => Right(m, stage2, left2)
  PROVE  InStep(e, Grown(w, k, m), x, k, stage2, size, left2)
PROOF
<1>1. PICK w2 : w2 = Grown(w, k, m)
  OBVIOUS
<1>2. IsGrown(w2, w, k, m)
  BY <1>1, GrownIsGrown
<1>3. PICK l, l2 : l = Len(w) /\ l2 = Len(w2)
  OBVIOUS
<1> HIDE DEF Mail
<1>4. /\ l \in Nat /\ l2 \in Nat /\ l <= l2
      /\ \A i \in 1..l : i \in 1..l2 /\ w2[i] = w[i]
      /\ \A i \in 1..l2 : i \in 1..l \/ w2[i] = m
      /\ \A i \in 1..l2 : ~(i <= l) => w2[i] = m
  BY <1>2, <1>3 DEF IsGrown
<1>5. /\ Fills(w, x, e.filled, k * (size - left))
      /\ e.status # "Filled"
      /\ e.status = "Canceled" => e.filled = 0
      /\ \A i \in 1..l : ~Ends(w[i], x) /\ ~Says(w[i], x, Filled)
  BY <1>3, NotOver
<1>6. m.kind = "order" /\ ~Ends(m, x) /\ ~Says(m, x, Failed)
  BY DEF Tells, Ends, Says
<1>7. Fills(w2, x, e.filled, k * (size - left2))
  <2>1. PICK b, d : b = size - left /\ d = left - left2
    OBVIOUS
  <2>2. b \in Int /\ d \in Int /\ size - left2 = b + d
    BY <2>1
  <2>3. k * b \in Int /\ k * d \in Int /\ k * (b + d) = k * b + k * d
    BY <2>2
  <2>4. e.filled \in Nat
    BY DEF Entry
  <2>5. FillOf(m, x) = d
    BY <2>1 DEF FillOf
  <2>6. Fills(Grown(w, k, m), x, e.filled, k * b + k * FillOf(m, x))
    BY <1>5, <2>1, <2>3, <2>4, FillsGrow
  <2> QED
    BY <1>1, <2>2, <2>3, <2>5, <2>6
<1>8. size > 0 => IsTold(e, w2, x, stage2, left2)
  <2>1. Concerns(m, x)
    BY DEF Concerns
  <2> QED
    BY <1>2, <2>1, CopyIsLast DEF IsTold
<1>9. ClosesOnce(e, w2, x, stage2)
  <2>1. FilledIsOver(e, w2, x, stage2) /\ CanceledIsOver(e, w2, x, stage2)
    BY <1>5 DEF FilledIsOver, CanceledIsOver
  <2>2. EndsAreLast(w2, x, stage2)
    <3> SUFFICES ASSUME NEW i \in 1..l2, Ends(w2[i], x) \/ Says(w2[i], x, Filled)
                 PROVE  /\ stage2 = "over"
                        /\ \A j \in (i + 1)..l2 : Tells(w2[j], x) =>
                             Tells(w2[i], x) /\ Tells(w2[i + 1], x) /\ Says(w2[j], x, Filled)
      BY <1>3 DEF EndsAreLast
    <3>1. ~(i \in 1..l) /\ w2[i] = m
      BY <1>4, <1>5
    <3>2. Says(m, x, Filled) /\ stage2 = "over"
      BY <1>6, <3>1 DEF Says
    <3>3. ASSUME NEW j \in (i + 1)..l2
          PROVE  w2[i + 1] = m /\ w2[j] = m
      <4>1. i + 1 \in 1..l2 /\ ~(i + 1 <= l) /\ j \in 1..l2 /\ ~(j <= l)
        BY <1>4, <3>1
      <4> QED
        BY <1>4, <4>1
    <3> QED
      BY <3>1, <3>2, <3>3
  <2>3. RefusedFirst(e, w2, x)
    <3> SUFFICES ASSUME NEW i \in 1..l2, Says(w2[i], x, Failed)
                 PROVE  /\ e.filled = 0 /\ e.status # "Filled"
                        /\ \A j \in 1..(i - 1) : Tells(w2[j], x) => Says(w2[j], x, Failed)
      BY <1>3 DEF RefusedFirst
    <3>1. i \in 1..l /\ w2[i] = w[i]
      BY <1>4, <1>6
    <3>2. \A j \in 1..(i - 1) : j \in 1..l /\ w2[j] = w[j]
      BY <1>4, <3>1
    <3> QED
      BY <1>3, <3>1, <3>2 DEF InStep, ClosesOnce, RefusedFirst
  <2> QED
    BY <2>1, <2>2, <2>3 DEF ClosesOnce
<1> QED
  BY <1>1, <1>7, <1>8, <1>9 DEF InStep

\* It is reported to be cancelled.
LEMMA EndTold ==
  ASSUME NEW w \in Seq(Mail), NEW k \in Nat \ {0}, NEW m \in Mail, NEW x,
         NEW e \in Entry, NEW size \in Int, NEW left \in Int,
         InStep(e, w, x, k, "rests", size, left), Ends(m, x)
  PROVE  InStep(e, Grown(w, k, m), x, k, "over", size, left)
PROOF
<1>1. PICK w2 : w2 = Grown(w, k, m)
  OBVIOUS
<1>2. IsGrown(w2, w, k, m)
  BY <1>1, GrownIsGrown
<1>3. PICK l, l2 : l = Len(w) /\ l2 = Len(w2)
  OBVIOUS
<1> HIDE DEF Mail
<1>4. /\ l \in Nat /\ l2 \in Nat /\ l <= l2
      /\ \A i \in 1..l : i \in 1..l2 /\ w2[i] = w[i]
      /\ \A i \in 1..l2 : i \in 1..l \/ w2[i] = m
      /\ \A i \in 1..l2 : ~(i <= l) => w2[i] = m
  BY <1>2, <1>3 DEF IsGrown
<1>5. /\ Fills(w, x, e.filled, k * (size - left))
      /\ e.status # "Filled"
      /\ e.status = "Canceled" => e.filled = 0
      /\ \A i \in 1..l : ~Ends(w[i], x) /\ ~Says(w[i], x, Filled)
  BY <1>3, NotOver
<1>6. m.kind = "cancel" /\ ~Tells(m, x) /\ ~Says(m, x, Failed) /\ ~Says(m, x, Filled)
  BY DEF Tells, Ends, Says
<1>7. Fills(w2, x, e.filled, k * (size - left))
  <2>1. PICK b : b = k * (size - left)
    OBVIOUS
  <2>2. b \in Int
    <3>1. size - left \in Int
      OBVIOUS
    <3> QED
      BY <2>1, <3>1
  <2>3. e.filled \in Nat
    BY DEF Entry
  <2>4. Fills(Grown(w, k, m), x, e.filled, b + k * FillOf(m, x))
    BY <1>5, <2>1, <2>2, <2>3, FillsGrow
  <2>5. b + k * FillOf(m, x) = b
    BY <1>6, <2>2 DEF FillOf
  <2> QED
    BY <1>1, <2>1, <2>4, <2>5
<1>8. IsTold(e, w2, x, "over", left)
  <2>1. Concerns(m, x) /\ Right(m, "over", left)
    BY <1>6 DEF Concerns, Right
  <2> QED
    BY <1>2, <2>1, CopyIsLast DEF IsTold
<1>9. ClosesOnce(e, w2, x, "over")
  <2>1. FilledIsOver(e, w2, x, "over") /\ CanceledIsOver(e, w2, x, "over")
    BY <1>5 DEF FilledIsOver, CanceledIsOver
  <2>2. EndsAreLast(w2, x, "over")
    <3> SUFFICES ASSUME NEW i \in 1..l2, Ends(w2[i], x) \/ Says(w2[i], x, Filled)
                 PROVE  \A j \in (i + 1)..l2 : ~Tells(w2[j], x)
      BY <1>3 DEF EndsAreLast
    <3>1. ~(i \in 1..l)
      BY <1>4, <1>5
    <3>2. ASSUME NEW j \in (i + 1)..l2
          PROVE  j \in 1..l2 /\ ~(j <= l)
      BY <1>4, <3>1
    <3> QED
      BY <1>4, <1>6, <3>2
  <2>3. RefusedFirst(e, w2, x)
    <3> SUFFICES ASSUME NEW i \in 1..l2, Says(w2[i], x, Failed)
                 PROVE  /\ e.filled = 0 /\ e.status # "Filled"
                        /\ \A j \in 1..(i - 1) : Tells(w2[j], x) => Says(w2[j], x, Failed)
      BY <1>3 DEF RefusedFirst
    <3>1. i \in 1..l /\ w2[i] = w[i]
      BY <1>4, <1>6
    <3>2. \A j \in 1..(i - 1) : j \in 1..l /\ w2[j] = w[j]
      BY <1>4, <3>1
    <3> QED
      BY <1>3, <3>1, <3>2 DEF InStep, ClosesOnce, RefusedFirst
  <2> QED
    BY <2>1, <2>2, <2>3 DEF ClosesOnce
<1> QED
  BY <1>1, <1>7, <1>8, <1>9 DEF InStep

\* An order comes in under an ID that only refusals were told under.
LEMMA ComesInStep ==
  ASSUME NEW w \in Seq(Mail), NEW x, NEW e \in Entry, NEW k \in Nat, NEW size \in Int,
         Unfilled(e, w, x),
         \A i \in 1..Len(w) : Says(w[i], x, Failed) => FillOf(w[i], x) = 0
  PROVE  InStep(e, w, x, k, "fresh", size, size)
PROOF
<1> HIDE DEF Mail
<1>1. /\ e.filled = 0 /\ e.status # "Filled"
      /\ \A i \in 1..Len(w) : Concerns(w[i], x) => Says(w[i], x, Failed)
  BY DEF Unfilled
<1>2. k * (size - size) = 0
  OBVIOUS
<1>3. Fills(w, x, 0, 0)
  <2>1. \A i \in 1..Len(w) : FillOf(w[i], x) = 0
    BY <1>1 DEF FillOf, Concerns
  <2> QED
    BY <2>1, FillsNothing
<1>4. Failed # Filled
  BY DEF Failed, Filled
<1>5. ClosesOnce(e, w, x, "fresh")
  <2>1. \A i \in 1..Len(w) : ~Ends(w[i], x) /\ ~Says(w[i], x, Filled)
    BY <1>1, <1>4 DEF Concerns, Ends, Says, Tells
  <2>2. \A i \in 1..Len(w) : Tells(w[i], x) => Says(w[i], x, Failed)
    BY <1>1 DEF Concerns
  <2>3. \A i \in 1..Len(w) : \A j \in 1..(i - 1) : j \in 1..Len(w)
    OBVIOUS
  <2> QED
    BY <1>1, <2>1, <2>2, <2>3
       DEF ClosesOnce, FilledIsOver, CanceledIsOver, EndsAreLast, RefusedFirst
<1> QED
  BY <1>1, <1>2, <1>3, <1>5 DEF InStep

\* The statuses the actions stand for.
LEMMA StatusIs ==
  /\ StatusOf(Filled) = "Filled" /\ StatusOf(Partly) = "Partial Filled"
  /\ StatusOf(Rests) = "Resting" /\ StatusOf(Failed) = "Canceled"
PROOF
  BY DEF StatusOf, Status, Filled, Partly, Rests, Failed

\* What a message m makes of the entry under the ID x.
EntryMoves(e, e2, m, x) ==
  \/ /\ Tells(m, x)
     /\ e2.filled = e.filled + m.response.filled
     /\ e2.remaining = m.response.remaining
     /\ e2.status = StatusOf(m.response.action)
  \/ /\ Ends(m, x)
     /\ e2.filled = e.filled /\ e2.status = "Canceled" /\ (e = NoEntry => e2 = NoEntry)
  \/ ~Concerns(m, x) /\ e2 = e
  \/ ~Concerns(m, x) /\ e2 = NoEntry /\ Done(e)

\* The action of an order message; a refusal tells of no fill.
ActionIs(m, x) ==
  Tells(m, x) =>
    /\ m.response.action \in {Filled, Partly, Rests, Failed}
    /\ m.response.action = Failed => m.response.filled = 0

\* A message tells of an order or ends it, and tells one action.
LEMMA TellsOrEnds ==
  ASSUME NEW m, NEW x
  PROVE  /\ ~(Tells(m, x) /\ Ends(m, x))
         /\ \A a : Says(m, x, a) => Tells(m, x)
         /\ Tells(m, x) => \A a : Says(m, x, a) <=> m.response.action = a
PROOF
  BY DEF Tells, Ends, Says

\* The head of w and what is behind it.
IsHeadOf(w, m, v) ==
  /\ Len(w) \in Nat \ {0} /\ Len(v) = Len(w) - 1 /\ w[1] = m
  /\ \A i \in 1..Len(v) : v[i] = w[i + 1]

\* The first message is handled: what is shown to be filled in the end stays.
LEMMA TotalHandled ==
  ASSUME NEW w \in Seq(Mail), w # << >>, NEW x, NEW k \in Nat,
         NEW e \in Entry, NEW e2 \in Entry, NEW m, m = Head(w),
         NEW stage, stage # "fresh", NEW size \in Int, NEW left \in Int,
         EntryMoves(e, e2, m, x), ClosesOnce(e, w, x, stage),
         Lost(e, w, x, stage) \/ Fills(w, x, e.filled, k * (size - left))
  PROVE  Lost(e2, Tail(w), x, stage) \/ Fills(Tail(w), x, e2.filled, k * (size - left))
PROOF
<1>1. PICK v, b : v = Tail(w) /\ b = k * (size - left)
  OBVIOUS
<1>2. IsHeadOf(w, m, v)
  <2> HIDE DEF Mail
  <2> QED
    BY <1>1, HeadAndTail DEF IsHeadOf
<1>3. e.filled \in Nat
  BY DEF Entry
<1>4. Fills(w, x, e.filled, b) => Fills(v, x, e.filled + FillOf(m, x), b)
  BY <1>1, <1>3, FillsHandled
<1>5. \A i \in 1..Len(v) : i + 1 \in 1..Len(w)
  BY <1>2 DEF IsHeadOf
<1>6. ASSUME \A j \in 1..Len(w) : ~Tells(w[j], x)
      PROVE  \A j \in 1..Len(v) : ~Tells(v[j], x)
  BY <1>2, <1>5, <1>6 DEF IsHeadOf
<1>7. 1 \in 1..Len(w) /\ w[1] = m
  BY <1>2 DEF IsHeadOf
<1>8. ~Tells(m, x) => e.filled + FillOf(m, x) = e.filled
  BY <1>3 DEF FillOf
<1>9. CASE Tells(m, x)
  <2>1. ~Lost(e, w, x, stage)
    BY <1>7, <1>9 DEF Lost
  <2>2. e2.filled = e.filled + FillOf(m, x)
    BY <1>9, TellsOrEnds DEF EntryMoves, FillOf, Concerns
  <2> QED
    BY <1>1, <1>4, <2>1, <2>2
<1>10. CASE Ends(m, x)
  <2>1. ~Tells(m, x) /\ e2.filled = e.filled /\ (e = NoEntry => e2 = NoEntry)
    BY <1>10, TellsOrEnds DEF EntryMoves, Concerns
  <2> QED
    BY <1>1, <1>4, <1>6, <1>8, <2>1 DEF Lost
<1>11. CASE ~Concerns(m, x)
  <2>1. ~Tells(m, x) /\ (e2 = e \/ (e2 = NoEntry /\ Done(e)))
    BY <1>11 DEF EntryMoves, Concerns
  <2>2. CASE e2 = e
    BY <1>1, <1>4, <1>6, <1>8, <2>1, <2>2 DEF Lost
  <2>3. CASE e2 = NoEntry /\ Done(e)
    <3>1. e2.filled = 0
      BY <2>3 DEF NoEntry
    <3>2. \/ e.filled = 0
          \/ stage = "over" /\ \A j \in 1..Len(w) : ~Tells(w[j], x)
      BY <1>7, <2>1, <2>3 DEF Done, ClosesOnce, FilledIsOver, CanceledIsOver
    <3> QED
      BY <1>1, <1>4, <1>6, <1>8, <2>1, <2>3, <3>1, <3>2 DEF Lost
  <2> QED
    BY <2>1, <2>2, <2>3
<1> QED
  BY <1>9, <1>10, <1>11 DEF Concerns

\* The order goes on being told as it is.
LEMMA TableHandled ==
  ASSUME NEW w \in Seq(Mail), w # << >>, NEW x,
         NEW e \in Entry, NEW e2 \in Entry, NEW m, m = Head(w),
         NEW stage, stage \in {"rests", "over"}, NEW left \in Int,
         EntryMoves(e, e2, m, x), ActionIs(m, x), IsTold(e, w, x, stage, left)
  PROVE  IsTold(e2, Tail(w), x, stage, left)
PROOF
<1>1. PICK v : v = Tail(w)
  OBVIOUS
<1>2. IsHeadOf(w, m, v)
  <2> HIDE DEF Mail
  <2> QED
    BY <1>1, HeadAndTail DEF IsHeadOf
<1>3. /\ \A i \in 1..Len(v) : i + 1 \in 1..Len(w) /\ v[i] = w[i + 1]
      /\ 1 \in 1..Len(w) /\ w[1] = m
  BY <1>2 DEF IsHeadOf
<1>4. ASSUME NEW i \in 1..Len(w), Concerns(w[i], x), Right(w[i], stage, left),
             \A j \in (i + 1)..Len(w) : ~Concerns(w[j], x)
      PROVE  IsTold(e2, v, x, stage, left)
  <2>1. CASE i = 1
    <3>1. Silent(v, x)
      <4>1. \A j \in 1..Len(v) : j + 1 \in (i + 1)..Len(w)
        BY <1>2, <2>1 DEF IsHeadOf
      <4> QED
        BY <1>3, <1>4, <4>1 DEF Silent
    <3>2. EntryIsRight(e2, stage, left)
      <4>1. Concerns(m, x) /\ Right(m, stage, left)
        BY <1>3, <1>4, <2>1
      <4>2. CASE Tells(m, x)
        <5>1. /\ e2.remaining = m.response.remaining
              /\ e2.status = StatusOf(m.response.action)
              /\ m.response.action \in {Filled, Partly, Rests, Failed}
          BY <4>2, TellsOrEnds DEF EntryMoves, Concerns, ActionIs
        <5>2. m.kind # "cancel"
          BY <4>2 DEF Tells
        <5>3. Live(e2) <=> m.response.action \in {Partly, Rests}
          <6>1. Filled \notin {Partly, Rests} /\ Failed \notin {Partly, Rests}
            BY DEF Filled, Partly, Rests, Failed
          <6> QED
            BY <5>1, <6>1, StatusIs DEF Live, Done
        <5> QED
          BY <4>1, <5>1, <5>2, <5>3 DEF Right, EntryIsRight
      <4>3. CASE Ends(m, x)
        <5>1. e2.status = "Canceled" /\ m.kind = "cancel"
          BY <4>3, TellsOrEnds DEF EntryMoves, Concerns, Ends
        <5> QED
          BY <4>1, <5>1 DEF Right, EntryIsRight, Live, Done
      <4> QED
        BY <4>1, <4>2, <4>3 DEF Concerns
    <3> QED
      BY <3>1, <3>2 DEF IsTold
  <2>2. CASE i # 1
    <3>1. PICK h : h = i - 1
      OBVIOUS
    <3>2. h \in 1..Len(v) /\ v[h] = w[i] /\ h + 1 = i
      BY <1>2, <1>3, <2>2, <3>1 DEF IsHeadOf
    <3>3. \A j \in (h + 1)..Len(v) : j \in 1..Len(v) /\ j + 1 \in (i + 1)..Len(w)
      BY <1>2, <3>2 DEF IsHeadOf
    <3>4. \A j \in (h + 1)..Len(v) : ~Concerns(v[j], x)
      BY <1>3, <1>4, <3>3
    <3> QED
      BY <1>4, <3>2, <3>4 DEF LastIsRight, IsTold
  <2> QED
    BY <2>1, <2>2
<1>5. ASSUME Silent(w, x), EntryIsRight(e, stage, left)
      PROVE  IsTold(e2, v, x, stage, left)
  <2>1. ~Concerns(m, x) /\ Silent(v, x)
    BY <1>3, <1>5 DEF Silent
  <2>2. e2 = e \/ (e2 = NoEntry /\ Done(e))
    BY <2>1 DEF EntryMoves, Concerns
  <2>3. ~Live(NoEntry)
    BY DEF NoEntry, Live, Done
  <2> QED
    BY <1>5, <2>1, <2>2, <2>3 DEF IsTold, EntryIsRight, Live
<1> QED
  BY <1>1, <1>4, <1>5 DEF IsTold, LastIsRight

\* What was told of the end of the order goes on being so.
LEMMA ClosesHandled ==
  ASSUME NEW w \in Seq(Mail), w # << >>, NEW x,
         NEW e \in Entry, NEW e2 \in Entry, NEW m, m = Head(w), NEW stage,
         EntryMoves(e, e2, m, x), ActionIs(m, x), ClosesOnce(e, w, x, stage)
  PROVE  ClosesOnce(e2, Tail(w), x, stage)
PROOF
<1>1. PICK v : v = Tail(w)
  OBVIOUS
<1>2. IsHeadOf(w, m, v)
  <2> HIDE DEF Mail
  <2> QED
    BY <1>1, HeadAndTail DEF IsHeadOf
<1>3. /\ \A i \in 1..Len(v) : i + 1 \in 1..Len(w) /\ i + 1 \in 2..Len(w) /\ v[i] = w[i + 1]
      /\ 1 \in 1..Len(w) /\ w[1] = m
      /\ \A i \in 1..Len(v) : 1 \in 1..Len(v) /\ v[1] = w[2]
  BY <1>2 DEF IsHeadOf
<1>4. e.filled \in Nat
  BY DEF Entry
<1>5. Filled # Partly /\ Filled # Rests /\ Filled # Failed /\ Failed # Partly /\ Failed # Rests
  BY DEF Filled, Partly, Rests, Failed
<1>6. EndsAreLast(v, x, stage)
  <2> SUFFICES ASSUME NEW i \in 1..Len(v), Ends(v[i], x) \/ Says(v[i], x, Filled)
               PROVE  /\ stage = "over"
                      /\ \A j \in (i + 1)..Len(v) : Tells(v[j], x) =>
                           Tells(v[i], x) /\ Tells(v[i + 1], x) /\ Says(v[j], x, Filled)
    BY DEF EndsAreLast
  <2>1. /\ stage = "over"
        /\ \A j \in ((i + 1) + 1)..Len(w) : Tells(w[j], x) =>
             Tells(w[i + 1], x) /\ Tells(w[(i + 1) + 1], x) /\ Says(w[j], x, Filled)
    BY <1>3 DEF ClosesOnce, EndsAreLast
  <2>2. ASSUME NEW j \in (i + 1)..Len(v)
        PROVE  /\ j \in 1..Len(v) /\ i + 1 \in 1..Len(v) /\ j + 1 \in ((i + 1) + 1)..Len(w)
    BY <1>2 DEF IsHeadOf
  <2> QED
    BY <1>3, <2>1, <2>2
<1>7. ASSUME Ends(m, x) \/ Says(m, x, Filled)
      PROVE  /\ stage = "over"
             /\ \A j \in 1..Len(v) : Tells(v[j], x) =>
                  Tells(m, x) /\ Tells(v[1], x) /\ Says(v[j], x, Filled)
  <2>1. /\ stage = "over"
        /\ \A j \in (1 + 1)..Len(w) : Tells(w[j], x) =>
             Tells(w[1], x) /\ Tells(w[1 + 1], x) /\ Says(w[j], x, Filled)
    BY <1>3, <1>7 DEF ClosesOnce, EndsAreLast
  <2> QED
    BY <1>3, <2>1
<1>8. ASSUME NEW i \in 1..Len(v), Says(v[i], x, Failed)
      PROVE  /\ e.filled = 0 /\ e.status # "Filled"
             /\ Tells(m, x) => Says(m, x, Failed)
             /\ \A j \in 1..(i - 1) : Tells(v[j], x) => Says(v[j], x, Failed)
  <2>1. /\ e.filled = 0 /\ e.status # "Filled"
        /\ \A j \in 1..((i + 1) - 1) : Tells(w[j], x) => Says(w[j], x, Failed)
    BY <1>3, <1>8 DEF ClosesOnce, RefusedFirst
  <2>2. 1 \in 1..((i + 1) - 1) /\ \A j \in 1..(i - 1) : j \in 1..Len(v) /\ j + 1 \in 1..((i + 1) - 1)
    BY <1>2 DEF IsHeadOf
  <2> QED
    BY <1>3, <2>1, <2>2
<1>9. ASSUME ~Tells(m, x)
      PROVE  /\ e.status = "Filled" => stage = "over" /\ \A j \in 1..Len(v) : ~Tells(v[j], x)
             /\ e.status = "Canceled" =>
                  e.filled = 0 \/ (stage = "over" /\ \A j \in 1..Len(v) : ~Tells(v[j], x))
  BY <1>3, <1>9 DEF ClosesOnce, FilledIsOver, CanceledIsOver
<1>10. CASE Tells(m, x)
  <2>1. /\ e2.filled = e.filled + m.response.filled
        /\ e2.status = StatusOf(m.response.action)
        /\ m.response.action \in {Filled, Partly, Rests, Failed}
        /\ m.response.action = Failed => m.response.filled = 0
    BY <1>10, TellsOrEnds DEF EntryMoves, Concerns, ActionIs
  <2>2. /\ e2.status = "Filled" <=> Says(m, x, Filled)
        /\ e2.status = "Canceled" <=> Says(m, x, Failed)
    BY <1>5, <1>10, <2>1, StatusIs, TellsOrEnds
  <2>3. Says(m, x, Failed) => e2.filled = 0
    <3>1. Says(m, x, Failed) => e.filled = 0
      BY <1>3 DEF ClosesOnce, RefusedFirst
    <3> QED
      BY <1>10, <2>1, <3>1, TellsOrEnds
  <2>4. FilledIsOver(e2, v, x, stage)
    BY <1>7, <2>2 DEF FilledIsOver
  <2>5. CanceledIsOver(e2, v, x, stage)
    BY <2>2, <2>3 DEF CanceledIsOver
  <2>6. RefusedFirst(e2, v, x)
    <3>1. Says(m, x, Failed) => ~Says(m, x, Filled)
      BY <1>5, <1>10, TellsOrEnds
    <3> QED
      BY <1>8, <1>10, <2>2, <2>3, <3>1 DEF RefusedFirst
  <2> QED
    BY <1>1, <1>6, <2>4, <2>5, <2>6 DEF ClosesOnce
<1>11. CASE Ends(m, x)
  <2>1. ~Tells(m, x) /\ e2.filled = e.filled /\ e2.status = "Canceled"
    BY <1>11, TellsOrEnds DEF EntryMoves, Concerns
  <2>2. stage = "over" /\ \A j \in 1..Len(v) : ~Tells(v[j], x)
    BY <1>7, <1>11, <2>1
  <2>3. RefusedFirst(e2, v, x)
    BY <2>2, TellsOrEnds DEF RefusedFirst
  <2> QED
    BY <1>1, <1>6, <2>1, <2>2, <2>3 DEF ClosesOnce, FilledIsOver, CanceledIsOver
<1>12. CASE ~Concerns(m, x)
  <2>1. ~Tells(m, x) /\ (e2 = e \/ e2 = NoEntry)
    BY <1>12 DEF EntryMoves, Concerns
  <2>2. CASE e2 = e
    BY <1>1, <1>6, <1>8, <1>9, <2>1, <2>2
       DEF ClosesOnce, FilledIsOver, CanceledIsOver, RefusedFirst
  <2>3. CASE e2 = NoEntry
    <3>1. e2.filled = 0 /\ e2.status = "Canceled"
      BY <2>3 DEF NoEntry
    <3> QED
      BY <1>1, <1>6, <1>8, <3>1
         DEF ClosesOnce, FilledIsOver, CanceledIsOver, RefusedFirst
  <2> QED
    BY <2>1, <2>2, <2>3
<1> QED
  BY <1>10, <1>11, <1>12 DEF Concerns

\* The page handles a message: it stays in step.
LEMMA HandledInStep ==
  ASSUME NEW w \in Seq(Mail), w # << >>, NEW x, NEW k \in Nat,
         NEW e \in Entry, NEW e2 \in Entry,
         NEW stage, stage \in {"rests", "over"}, NEW size \in Int, NEW left \in Int,
         EntryMoves(e, e2, Head(w), x), ActionIs(Head(w), x),
         InStep(e, w, x, k, stage, size, left)
  PROVE  InStep(e2, Tail(w), x, k, stage, size, left)
PROOF
<1>1. PICK m : m = Head(w)
  OBVIOUS
<1>2. /\ Lost(e, w, x, stage) \/ Fills(w, x, e.filled, k * (size - left))
      /\ size > 0 => IsTold(e, w, x, stage, left)
      /\ ClosesOnce(e, w, x, stage)
  BY DEF InStep
<1>3. Lost(e2, Tail(w), x, stage) \/ Fills(Tail(w), x, e2.filled, k * (size - left))
  BY <1>1, <1>2, TotalHandled
<1>4. size > 0 => IsTold(e2, Tail(w), x, stage, left)
  BY <1>1, <1>2, TableHandled
<1>5. ClosesOnce(e2, Tail(w), x, stage)
  BY <1>1, <1>2, ClosesHandled
<1> QED
  BY <1>3, <1>4, <1>5 DEF InStep

\* When everything is handled, the entry tells.
LEMMA InStepAtLast ==
  ASSUME NEW x, NEW e \in Entry, NEW k \in Nat, NEW stage, stage # "fresh",
         NEW size \in Int, NEW left \in Int, InStep(e, << >>, x, k, stage, size, left)
  PROVE  /\ e # NoEntry => e.filled = k * (size - left)
         /\ size > 0 => EntryIsRight(e, stage, left)
PROOF
<1>1. Lost(e, << >>, x, stage) \/ e.filled = k * (size - left)
  BY DEF InStep, Fills
<1>2. ~LastIsRight(<< >>, x, stage, left)
  BY DEF LastIsRight
<1> QED
  BY <1>1, <1>2 DEF InStep, Lost, IsTold

-----------------------------------------------------------------------------
(* The table of past orders *)

\* No row is in the table twice.
RowsDiffer(past) == \A i, j \in 1..Len(past) : past[i].row = past[j].row => i = j

\* The row is that of the order under its ID, which is done.
Matched(pg, r) ==
  r.id \in DOMAIN pg.orders /\ pg.orders[r.id].row = r.row /\ Done(pg.orders[r.id])

\* Every order the page knows has a row of its own.
RowsAreGood(pg) ==
  RowsDiffer(pg.past) /\ \A id \in DOMAIN pg.orders : pg.orders[id].row # NoRow

\* What a table is without a row.
LEMMA RowIsOut ==
  ASSUME NEW S, NEW past \in Seq(S), NEW row, RowsDiffer(past)
  PROVE  LET others == WithoutRow(past, row)
         IN  /\ others \in Seq(S) /\ RowsDiffer(others)
             /\ \A i \in 1..Len(others) :
                  others[i] \in ToSet(past) /\ others[i].row # row
PROOF
<1> DEFINE I == {i \in 1..Len(past) : past[i].row = row}
           others == WithoutRow(past, row)
<1>0. Len(past) \in Nat /\ \A i \in 1..Len(past) : past[i] \in ToSet(past)
  BY ElementsInSet
<1>1. CASE I = {}
  <2>1. others = past
    BY <1>1 DEF WithoutRow, RemoveFirstMatch
  <2> QED
    BY <1>0, <1>1, <2>1
<1>2. CASE I # {}
  <2>1. Min(I) \in I
    <3>1. I \in SUBSET Nat
      OBVIOUS
    <3> HIDE DEF I
    <3> QED
      BY <1>2, <3>1, SmallestNumber
  <2>2. others = RemoveAt(past, Min(I))
    BY <1>2 DEF WithoutRow, RemoveFirstMatch, SelectInSeq
  <2>3. PICK k : k = Min(I)
    OBVIOUS
  <2>4. k \in 1..Len(past) /\ past[k].row = row
    BY <2>1, <2>3
  <2> HIDE DEF I, others
  <2>5. /\ others \in Seq(S) /\ Len(others) = Len(past) - 1
        /\ \A j \in 1..(Len(past) - 1) :
             others[j] = IF j < k THEN past[j] ELSE past[j + 1]
    BY <2>2, <2>3, <2>4, RemoveAtProperties
  <2>6. \A j \in 1..(Len(past) - 1) :
          \E i \in 1..Len(past) : i # k /\ others[j] = past[i]
                                  /\ i = IF j < k THEN j ELSE j + 1
    BY <1>0, <2>4, <2>5
  <2>7. \A j \in 1..Len(others) : others[j] \in ToSet(past) /\ others[j].row # row
    BY <1>0, <2>4, <2>5, <2>6 DEF RowsDiffer
  <2>8. ASSUME NEW j1 \in 1..Len(others), NEW j2 \in 1..Len(others),
               others[j1].row = others[j2].row
        PROVE  j1 = j2
    <3>1. PICK i1 \in 1..Len(past) : others[j1] = past[i1] /\ i1 = IF j1 < k THEN j1 ELSE j1 + 1
      BY <2>5, <2>6
    <3>2. PICK i2 \in 1..Len(past) : others[j2] = past[i2] /\ i2 = IF j2 < k THEN j2 ELSE j2 + 1
      BY <2>5, <2>6
    <3>3. i1 = i2
      BY <2>8, <3>1, <3>2 DEF RowsDiffer
    <3> QED
      BY <1>0, <2>4, <2>5, <3>1, <3>2, <3>3
  <2> QED
    BY <2>5, <2>7, <2>8 DEF RowsDiffer, others
<1> QED
  BY <1>1, <1>2

\* What updateOrdersTable makes of the orders and of the past ones, for the
\* order that has the row when it returns.
TableMoves(pg, id, new, row) ==
  /\ row \in Nat \ {NoRow}
  /\ pg.orders[id].row # NoRow => row = pg.orders[id].row
  /\ \A i \in DOMAIN new.orders :
       /\ i \in DOMAIN pg.orders
       /\ new.orders[i] = IF i = id THEN [pg.orders[id] EXCEPT !.row = row] ELSE pg.orders[i]
  /\ \/ DOMAIN new.orders = DOMAIN pg.orders
     \/ /\ pg.orders[id].row = NoRow /\ Done(pg.orders[id])
        /\ pg.past # << >> /\ new.past = << >>
        /\ DOMAIN new.orders = DOMAIN pg.orders \ {Head(pg.past).id}
  /\ RowsDiffer(new.past)
  /\ \A r \in ToSet(new.past) :
       \/ r.row = row /\ r.id = id /\ Done(pg.orders[id])
       \/ r \in ToSet(pg.past) /\ r.row # row

\* updateOrdersTable does it for one row.
LEMMA TableUpdated ==
  ASSUME NEW pg, GoodPage(pg), NEW id \in DOMAIN pg.orders, RowsDiffer(pg.past)
  PROVE  \E row : TableMoves(pg, id, UpdateOrdersTable(pg, id), row)
PROOF
<1> DEFINE entry  == pg.orders[id]
           fresh  == entry.row = NoRow
           row    == IF fresh THEN pg.rows + 1 ELSE entry.row
           ended  == fresh /\ Done(entry)
           full   == ended /\ pg.pastCount >= MaxPastOrders
           kept   == IF full THEN Forgotten(pg) ELSE pg.orders
           gone   == pg.pastGone \/ full
           others == WithoutRow(pg.past, row)
           first  == [row |-> row, id |-> id]
           new    == UpdateOrdersTable(pg, id)
           rows1  == IF fresh THEN pg.rows + 1 ELSE pg.rows
           count1 == IF ended THEN pg.pastCount + 1 ELSE pg.pastCount
           map1   == [i \in DOMAIN kept |->
                        IF i = id THEN [entry EXCEPT !.row = row] ELSE kept[i]]
           past1  == IF gone THEN << >>
                     ELSE IF Done(entry) THEN <<first>> \o others
                     ELSE others
<1>1. new = [pg EXCEPT !.orders = map1, !.rows = rows1, !.pastCount = count1,
                       !.pastGone = gone, !.past = past1]
  BY DEF UpdateOrdersTable
<1>2. /\ entry \in Entry /\ entry.row \in Nat /\ pg.rows \in Nat
      /\ pg.past \in Seq(PastRow(pg.rows)) /\ DOMAIN pg = PageFields
  BY DEF GoodPage, GoodRest, GoodOrders, Entry
<1>3. row \in Nat \ {NoRow} /\ (entry.row # NoRow => row = entry.row)
  BY <1>2 DEF NoRow
<1>4. /\ \A i \in DOMAIN kept : i \in DOMAIN pg.orders /\ kept[i] = pg.orders[i]
      /\ \/ DOMAIN kept = DOMAIN pg.orders
         \/ /\ full /\ pg.past # << >>
            /\ DOMAIN kept = DOMAIN pg.orders \ {Head(pg.past).id}
  BY DEF Forgotten
<1>5. /\ others \in Seq(PastRow(pg.rows)) /\ RowsDiffer(others)
      /\ \A i \in 1..Len(others) : others[i] \in ToSet(pg.past) /\ others[i].row # row
  <2> HIDE DEF row, PastRow
  <2> QED
    BY <1>2, RowIsOut
<1>6. /\ RowsDiffer(past1)
      /\ \A r \in ToSet(past1) :
           \/ r.row = row /\ r.id = id /\ Done(entry)
           \/ r \in ToSet(pg.past) /\ r.row # row
  <2> HIDE DEF others, row, PastRow, gone, entry
  <2>0. PICK l : l = Len(others)
    OBVIOUS
  <2>1. l \in Nat /\ ToSet(others) = {others[i] : i \in 1..l}
    BY <1>5, <2>0 DEF ToSet
  <2>2. CASE past1 = << >>
    BY <2>2 DEF RowsDiffer, ToSet
  <2>3. CASE past1 = others
    BY <1>5, <2>0, <2>1, <2>3
  <2>4. CASE past1 = <<first>> \o others /\ Done(entry)
    <3>1. /\ Len(past1) = l + 1 /\ past1[1] = first
          /\ \A i \in 2..(l + 1) : past1[i] = others[i - 1] /\ i - 1 \in 1..l
      <4> HIDE DEF first
      <4>1. first \in {first} \cup PastRow(pg.rows)
        OBVIOUS
      <4>2. PICK T : T = {first} \cup PastRow(pg.rows)
        OBVIOUS
      <4>3. <<first>> \in Seq(T) /\ others \in Seq(T)
        <5>1. PastRow(pg.rows) \subseteq T /\ first \in T
          BY <4>2
        <5> QED
          BY <1>5, <5>1, LargerSet
      <4>4. /\ Len(<<first>> \o others) = 1 + l
            /\ \A i \in 1..(1 + l) :
                 (<<first>> \o others)[i] = IF i <= 1 THEN <<first>>[i] ELSE others[i - 1]
        BY <2>0, <4>3, ConcatProperties
      <4> HIDE DEF past1
      <4> QED
        BY <2>1, <2>4, <4>4
    <3>2. first.row = row /\ first.id = id
      OBVIOUS
    <3>3. ToSet(past1) = {past1[i] : i \in 1..(l + 1)}
      <4>1. DOMAIN past1 = 1..(l + 1)
        <5>1. past1 \in Seq({first} \cup PastRow(pg.rows))
          <6>1. <<first>> \in Seq({first} \cup PastRow(pg.rows))
            OBVIOUS
          <6>2. others \in Seq({first} \cup PastRow(pg.rows))
            <7>1. PastRow(pg.rows) \subseteq ({first} \cup PastRow(pg.rows))
              OBVIOUS
            <7> QED
              BY <1>5, <7>1, LargerSet
          <6> QED
            BY <2>4, <6>1, <6>2, ConcatProperties
        <5> QED
          BY <3>1, <5>1
      <4> QED
        BY <4>1 DEF ToSet
    <3> HIDE DEF past1, first
    <3>4. ASSUME NEW i \in 1..(l + 1), i # 1
          PROVE  past1[i] \in ToSet(pg.past) /\ past1[i].row # row /\ i - 1 \in 1..l
                 /\ past1[i] = others[i - 1]
      BY <1>5, <2>0, <2>1, <3>1, <3>4
    <3>5. ASSUME NEW i \in 1..(l + 1), NEW j \in 1..(l + 1), past1[i].row = past1[j].row
          PROVE  i = j
      BY <1>5, <2>0, <2>1, <3>1, <3>2, <3>4, <3>5 DEF RowsDiffer
    <3> QED
      BY <2>4, <3>1, <3>2, <3>3, <3>4, <3>5 DEF RowsDiffer
  <2> QED
    BY <2>2, <2>3, <2>4
<1>7. new.orders = map1 /\ new.past = past1
  <2> HIDE DEF map1, past1, rows1, count1, gone, new
  <2> QED
    BY <1>1, <1>2 DEF PageFields
<1>8. full => past1 = << >> /\ entry.row = NoRow /\ Done(entry)
  OBVIOUS
<1>9. /\ DOMAIN map1 = DOMAIN kept
      /\ \A i \in DOMAIN kept : map1[i] = IF i = id THEN [entry EXCEPT !.row = row] ELSE kept[i]
  OBVIOUS
<1> HIDE DEF map1, past1, kept, full, row, new, others
<1>10. TableMoves(pg, id, new, row)
  BY <1>3, <1>4, <1>6, <1>7, <1>8, <1>9 DEF TableMoves
<1> QED
  BY <1>10 DEF new

-----------------------------------------------------------------------------
(* What a page makes of a message *)

\* mid is the page after the entry under id was changed as the message says, and
\* before the tables are looked after.
Takes(pg, msg, mid, id) ==
  /\ Concerns(msg, id) /\ \A x : Concerns(msg, x) => x = id
  /\ mid.past = pg.past
  /\ DOMAIN mid.orders = DOMAIN pg.orders \cup {id}
  /\ \A i \in DOMAIN pg.orders \ {id} : mid.orders[i] = pg.orders[i]
  /\ mid.orders[id] \in Entry /\ mid.orders[id].row = EntryAt(pg, id).row
  /\ Tells(msg, id) =>
       /\ mid.orders[id].filled = EntryAt(pg, id).filled + msg.response.filled
       /\ mid.orders[id].remaining = msg.response.remaining
       /\ mid.orders[id].status = StatusOf(msg.response.action)
  /\ Ends(msg, id) =>
       /\ id \in DOMAIN pg.orders
       /\ mid.orders[id].filled = EntryAt(pg, id).filled
       /\ mid.orders[id].status = "Canceled"

\* A message changes one entry, or it is about no order the page shows.
HandledAs(pg, msg, new) ==
  \/ /\ new.orders = pg.orders /\ new.past = pg.past
     /\ \A x : Concerns(msg, x) => Ends(msg, x) /\ x \notin DOMAIN pg.orders
  \/ \E mid, id, row : Takes(pg, msg, mid, id) /\ TableMoves(mid, id, new, row)

\* A message changes the entry of an order that is shown as the message says.
LEMMA HeardEntry ==
  ASSUME NEW e \in Entry, NEW msg \in Reports
  PROVE  LET e2 == [Heard(e, msg) EXCEPT !.status = StatusOf(msg.action)]
         IN  /\ e2 \in Entry /\ e2.row = e.row
             /\ e2.filled = e.filled + msg.filled
             /\ e2.remaining = msg.remaining
             /\ e2.status = StatusOf(msg.action)
PROOF
<1>1. msg \in OrderMessage /\ msg.filled \in Nat
  BY DEF Reports
<1>2. Magnitude(msg.filled) = msg.filled
  BY <1>1 DEF Magnitude
<1> DEFINE e2 == [Heard(e, msg) EXCEPT !.status = StatusOf(msg.action)]
<1>3. e2 \in Entry /\ e2.row = e.row
  BY <1>1, EntryHeard
<1>4. /\ e2.filled = e.filled + Magnitude(msg.filled) /\ e2.remaining = msg.remaining
      /\ e2.status = StatusOf(msg.action)
  BY DEF Heard, Entry
<1> QED
  BY <1>2, <1>3, <1>4

\* An order the page does not know has the type of an entry.
LEMMA NoEntryIs == NoEntry \in Entry /\ NoEntry.row = NoRow /\ NoEntry.filled = 0
                   /\ NoEntry.status = "Canceled"
PROOF
  BY DEF NoEntry, Entry, NoRow

\* What a page shows of any order is an entry.
LEMMA EntryAtType ==
  ASSUME NEW pg, GoodPage(pg), NEW x
  PROVE  EntryAt(pg, x) \in Entry
PROOF
  BY NoEntryIs DEF EntryAt, GoodPage, GoodOrders

\* handleOrder, if it does not throw
LEMMA OrderHandled ==
  ASSUME NEW pg, GoodPage(pg), RowsDiffer(pg.past),
         NEW msg \in Mail, msg.kind = "order", ~HandleOrder(pg, msg.response).broken
  PROVE  ~pg.broken /\ HandledAs(pg, msg, HandleOrder(pg, msg.response))
PROOF
<1> DEFINE m     == msg.response
           id    == m.id
           sym   == m.symbol
           known == id \in DOMAIN pg.orders
           heard == Heard(IF known THEN pg.orders[id] ELSE NewEntry(m.remaining), m)
           entry == [heard EXCEPT !.status = StatusOf(m.action)]
           map   == Entered(pg.orders, id, entry)
           paid1 == [pg.paid EXCEPT ![sym] = @ + m.money]
           pos1  == [pg.position EXCEPT ![sym] = @ + m.filled]
           mid   == [pg EXCEPT !.money = pg.money + m.money, !.orders = map,
                               !.paid = paid1, !.position = pos1]
           new   == HandleOrder(pg, m)
<1>1. /\ m \in Reports /\ m.money \in Int /\ id \in OrderIDs /\ m.filled \in Nat
      /\ m.remaining \in Int
  BY DEF Mail, Reports, OrderMessage
<1>2. /\ DOMAIN pg = PageFields /\ pg.money \in Int /\ GoodOrders(pg.orders, pg.rows)
      /\ pg.paid \in [pg.quoted -> Int] /\ pg.position \in [pg.quoted -> Nat]
      /\ pg.rows \in Nat
  BY DEF GoodPage, GoodRest
<1>3. sym \in pg.quoted
  <2> SUFFICES ASSUME sym \notin pg.quoted PROVE FALSE
    OBVIOUS
  <2> DEFINE e2   == Heard(pg.orders[id], m)
             map2 == IF known THEN Entered(pg.orders, id, e2) ELSE pg.orders
  <2>1. new = [[pg EXCEPT !.money = @ + m.money] EXCEPT
                  !.orders = map2, !.broken = TRUE]
    BY DEF HandleOrder
  <2> HIDE DEF map2, m, new
  <2>2. new.broken = TRUE
    BY <1>2, <2>1 DEF PageFields
  <2> QED
    BY <2>2 DEF new, m
<1>4. new = UpdateOrdersTable(mid, id)
  <2>1. new = UpdateOrdersTable(
                [[pg EXCEPT !.money = @ + m.money] EXCEPT
                   !.orders = Entered(@, id, entry),
                   !.paid[sym] = @ + m.money,
                   !.position[sym] = @ + m.filled], id)
    BY <1>3 DEF HandleOrder
  <2>2. [[pg EXCEPT !.money = @ + m.money] EXCEPT
           !.orders = Entered(@, id, entry),
           !.paid[sym] = @ + m.money,
           !.position[sym] = @ + m.filled] = mid
    <3> HIDE DEF entry, m, sym, id
    <3> QED
      BY <1>2 DEF PageFields
  <2> QED
    BY <2>1, <2>2
<1>5. /\ entry \in Entry /\ entry.row =< pg.rows /\ entry.row = EntryAt(pg, id).row
      /\ entry.filled = EntryAt(pg, id).filled + m.filled
      /\ entry.remaining = m.remaining /\ entry.status = StatusOf(m.action)
  <2>1. PICK e : e = IF known THEN pg.orders[id] ELSE NewEntry(m.remaining)
    OBVIOUS
  <2>2. /\ e \in Entry /\ e.row =< pg.rows
        /\ e.row = EntryAt(pg, id).row /\ e.filled = EntryAt(pg, id).filled
    <3>1. CASE known
      BY <1>2, <2>1, <3>1 DEF GoodOrders, EntryAt
    <3>2. CASE ~known
      BY <1>1, <1>2, <2>1, <3>2 DEF NewEntry, Entry, NoRow, EntryAt, NoEntry
    <3> QED
      BY <3>1, <3>2
  <2>3. entry = [Heard(e, m) EXCEPT !.status = StatusOf(m.action)]
    BY <2>1
  <2> HIDE DEF entry, m
  <2> QED
    BY <1>1, <2>2, <2>3, HeardEntry
<1> HIDE DEF entry
<1>6. /\ GoodOrders(map, pg.rows) /\ id \in DOMAIN map /\ map[id] = entry
      /\ DOMAIN map = DOMAIN pg.orders \cup {id}
      /\ \A i \in DOMAIN pg.orders \ {id} : map[i] = pg.orders[i]
  BY <1>1, <1>2, <1>5 DEF GoodOrders, Entered
<1>7. paid1 \in [pg.quoted -> Int] /\ pos1 \in [pg.quoted -> Nat]
  BY <1>1, <1>2, <1>3
<1> HIDE DEF map, paid1, pos1
<1>9. Tells(msg, id) /\ ~Ends(msg, id) /\ \A x : Concerns(msg, x) => x = id
  BY DEF Tells, Ends, Concerns
<1>10. PICK money1 : money1 = pg.money + m.money
  OBVIOUS
<1>11. money1 \in Int
  BY <1>1, <1>2, <1>10
<1> HIDE DEF m, id
<1>8. /\ DOMAIN mid = DOMAIN pg /\ mid.orders = map
      /\ mid.rows = pg.rows /\ mid.past = pg.past
      /\ mid.quoted = pg.quoted /\ mid.paid = paid1 /\ mid.position = pos1
      /\ mid.money = money1 /\ mid.nextID = pg.nextID
      /\ mid.broken = pg.broken
  BY <1>2, <1>10 DEF PageFields
<1> HIDE DEF mid, new
<1>12. GoodPage(mid)
  BY <1>1, <1>2, <1>6, <1>7, <1>8, <1>11 DEF GoodPage, GoodRest
<1>13. PICK row : TableMoves(mid, id, new, row)
  BY <1>4, <1>6, <1>8, <1>12, TableUpdated
<1>14. ~pg.broken
  BY <1>4, <1>6, <1>8, <1>12, UpdateTable DEF SamePage, new, m
<1>15. Takes(pg, msg, mid, id)
  BY <1>5, <1>6, <1>8, <1>9 DEF Takes, m, Concerns
<1> QED
  BY <1>13, <1>14, <1>15 DEF HandledAs, new, m

\* handleCancel
LEMMA CancelHandled ==
  ASSUME NEW pg, GoodPage(pg), RowsDiffer(pg.past),
         NEW msg \in Mail, msg.kind = "cancel", ~HandleCancel(pg, msg.response).broken
  PROVE  ~pg.broken /\ HandledAs(pg, msg, HandleCancel(pg, msg.response))
PROOF
<1> DEFINE id    == msg.response.id
           entry == [pg.orders[id] EXCEPT !.status = "Canceled", !.remaining = 0]
           map   == [pg.orders EXCEPT ![id] = entry]
           mid   == [pg EXCEPT !.orders = map]
           new   == HandleCancel(pg, msg.response)
<1>1. DOMAIN pg = PageFields /\ GoodOrders(pg.orders, pg.rows)
  BY DEF GoodPage, GoodRest
<1>2. \A x : ~Tells(msg, x) /\ (Concerns(msg, x) <=> x = id /\ msg.response.success)
  BY DEF Tells, Ends, Concerns, Mail, CancelMessages
<1>3. CASE id \notin DOMAIN pg.orders \/ ~msg.response.success
  <2>1. new = pg
    BY <1>3 DEF HandleCancel
  <2> QED
    BY <1>2, <1>3, <2>1 DEF HandledAs, Concerns
<1>4. CASE id \in DOMAIN pg.orders /\ msg.response.success
  <2>1. new = UpdateOrdersTable(mid, id)
    <3>1. new = UpdateOrdersTable([pg EXCEPT !.orders[id].status = "Canceled",
                                             !.orders[id].remaining = 0], id)
      BY <1>4 DEF HandleCancel
    <3>2. mid = [pg EXCEPT !.orders[id].status = "Canceled", !.orders[id].remaining = 0]
      BY <1>1, <1>4 DEF PageFields
    <3> QED
      BY <3>1, <3>2
  <2>2. pg.orders[id] \in Entry /\ pg.orders[id].row =< pg.rows
    BY <1>1, <1>4 DEF GoodOrders
  <2>3. /\ entry \in Entry /\ entry.row =< pg.rows /\ entry.status = "Canceled"
        /\ entry.row = pg.orders[id].row /\ entry.filled = pg.orders[id].filled
    <3>1. /\ entry \in Entry /\ entry.status = "Canceled"
          /\ entry.row = pg.orders[id].row
      BY <2>2, EntryCancelled
    <3>2. entry.filled = pg.orders[id].filled
      BY <2>2 DEF Entry
    <3> QED
      BY <2>2, <3>1, <3>2
  <2> HIDE DEF entry
  <2>4. GoodOrders(map, pg.rows) /\ DOMAIN map = DOMAIN pg.orders /\ map[id] = entry
    BY <1>1, <1>4, <2>3 DEF GoodOrders
  <2>5. \A i \in DOMAIN map : i # id => map[i] = pg.orders[i]
    BY <1>4
  <2> HIDE DEF map
  <2>6. GoodPage(mid) /\ SamePage(pg, mid) /\ mid.orders = map
    BY <2>4, OtherOrders
  <2>7. mid.past = pg.past
    BY <1>1 DEF PageFields
  <2> HIDE DEF mid, new
  <2>8. PICK row : TableMoves(mid, id, new, row)
    BY <1>4, <2>1, <2>4, <2>6, <2>7, TableUpdated
  <2>9. ~pg.broken
    BY <1>4, <2>1, <2>4, <2>6, UpdateTable DEF SamePage, new
  <2>10. EntryAt(pg, id) = pg.orders[id] /\ Concerns(msg, id)
    BY <1>2, <1>4 DEF EntryAt
  <2> HIDE DEF id
  <2>11. Takes(pg, msg, mid, id)
    BY <1>2, <1>4, <2>3, <2>4, <2>5, <2>6, <2>7, <2>10 DEF Takes
  <2> QED
    BY <2>8, <2>9, <2>11 DEF HandledAs, new
<1> QED
  BY <1>3, <1>4

\* messageHandler, if it does not throw
LEMMA MessageHandled ==
  ASSUME NEW pg, GoodPage(pg), RowsDiffer(pg.past),
         NEW msg \in Mail, ~Handled(pg, msg).broken
  PROVE  ~pg.broken /\ HandledAs(pg, msg, Handled(pg, msg))
PROOF
<1>0. DOMAIN pg = PageFields
  BY DEF GoodPage, GoodRest
<1>1. CASE msg.kind = "new_user"
  <2>1. Handled(pg, msg) = [pg EXCEPT !.money = msg.money]
    BY <1>1 DEF Handled, HandleNewUser
  <2>2. /\ Handled(pg, msg).broken = pg.broken /\ Handled(pg, msg).orders = pg.orders
        /\ Handled(pg, msg).past = pg.past
    BY <1>0, <2>1 DEF PageFields
  <2>3. \A x : ~Concerns(msg, x)
    BY <1>1 DEF Concerns, Tells, Ends
  <2> QED
    BY <2>2, <2>3 DEF HandledAs
<1>2. CASE msg.kind = "quote"
  <2>1. Handled(pg, msg) = HandleQuote(pg, msg.symbol)
    BY <1>2 DEF Handled
  <2>2. /\ HandleQuote(pg, msg.symbol).broken = pg.broken
        /\ HandleQuote(pg, msg.symbol).orders = pg.orders
        /\ HandleQuote(pg, msg.symbol).past = pg.past
    BY <1>0 DEF PageFields, HandleQuote
  <2>3. \A x : ~Concerns(msg, x)
    BY <1>2 DEF Concerns, Tells, Ends
  <2> QED
    BY <2>1, <2>2, <2>3 DEF HandledAs
<1>3. CASE msg.kind = "order"
  BY <1>3, OrderHandled DEF Handled
<1>4. CASE msg.kind = "cancel"
  BY <1>4, CancelHandled DEF Handled
<1> QED
  BY <1>1, <1>2, <1>3, <1>4 DEF Mail

\* Of the rows of an order none is left over from another one with its ID.
RowsMatch(pg, x) == \A r \in ToSet(pg.past) : r.id = x => Matched(pg, r)

\* What happens to an entry when a message is handled.
LEMMA EntryHandled ==
  ASSUME NEW pg, GoodPage(pg), RowsAreGood(pg), NEW msg, NEW new,
         HandledAs(pg, msg, new), NEW x, RowsMatch(pg, x)
  PROVE  EntryMoves(EntryAt(pg, x), EntryAt(new, x), msg, x)
PROOF
<1>1. CASE /\ new.orders = pg.orders
           /\ \A y : Concerns(msg, y) => Ends(msg, y) /\ y \notin DOMAIN pg.orders
  <2>1. EntryAt(new, x) = EntryAt(pg, x)
    BY <1>1 DEF EntryAt
  <2>2. CASE Concerns(msg, x)
    <3>1. Ends(msg, x) /\ EntryAt(pg, x) = NoEntry
      BY <1>1, <2>2 DEF EntryAt
    <3> QED
      BY <2>1, <3>1, NoEntryIs DEF EntryMoves
  <2>3. CASE ~Concerns(msg, x)
    BY <2>1, <2>3 DEF EntryMoves
  <2> QED
    BY <2>2, <2>3
<1>2. CASE \E mid, id, row : Takes(pg, msg, mid, id) /\ TableMoves(mid, id, new, row)
  <2>1. PICK mid, id, row : Takes(pg, msg, mid, id) /\ TableMoves(mid, id, new, row)
    BY <1>2
  <2>2. /\ Concerns(msg, id) /\ \A y : Concerns(msg, y) => y = id
        /\ mid.past = pg.past
        /\ DOMAIN mid.orders = DOMAIN pg.orders \cup {id}
        /\ \A i \in DOMAIN pg.orders \ {id} : mid.orders[i] = pg.orders[i]
        /\ mid.orders[id] \in Entry /\ mid.orders[id].row = EntryAt(pg, id).row
    BY <2>1 DEF Takes
  <2>3. /\ row \in Nat \ {NoRow}
        /\ \A i \in DOMAIN new.orders :
             /\ i \in DOMAIN mid.orders
             /\ new.orders[i] = IF i = id THEN [mid.orders[id] EXCEPT !.row = row]
                                ELSE mid.orders[i]
        /\ \/ DOMAIN new.orders = DOMAIN mid.orders
           \/ /\ mid.orders[id].row = NoRow /\ pg.past # << >>
              /\ DOMAIN new.orders = DOMAIN mid.orders \ {Head(pg.past).id}
    BY <2>1, <2>2 DEF TableMoves
  <2>4. pg.past # << >> /\ Head(pg.past).id = x => Matched(pg, Head(pg.past))
    <3> SUFFICES ASSUME pg.past # << >>, Head(pg.past).id = x
                 PROVE  Matched(pg, Head(pg.past))
      OBVIOUS
    <3> HIDE DEF PastRow
    <3>1. pg.past \in Seq(PastRow(pg.rows))
      BY DEF GoodPage, GoodRest
    <3>2. ToSet(pg.past) = {Head(pg.past)} \cup ToSet(Tail(pg.past))
      BY <3>1, HeadOrTail
    <3> QED
      BY <3>2 DEF RowsMatch
  <2>5. CASE x = id
    <3>1. x \in DOMAIN new.orders
      <4> SUFFICES ASSUME x \notin DOMAIN new.orders PROVE FALSE
        OBVIOUS
      <4>1. mid.orders[id].row = NoRow /\ Matched(pg, Head(pg.past)) /\ Head(pg.past).id = x
        BY <2>2, <2>3, <2>4, <2>5
      <4> QED
        BY <2>2, <2>5, <4>1 DEF Matched, EntryAt, RowsAreGood
    <3>2. /\ EntryAt(new, x) = [mid.orders[id] EXCEPT !.row = row]
          /\ EntryAt(new, x).filled = mid.orders[id].filled
          /\ EntryAt(new, x).remaining = mid.orders[id].remaining
          /\ EntryAt(new, x).status = mid.orders[id].status
      <4>1. EntryAt(new, x) = [mid.orders[id] EXCEPT !.row = row]
        BY <2>3, <2>5, <3>1 DEF EntryAt
      <4>2. row \in Nat
        BY <2>3
      <4> QED
        BY <2>2, <4>1, <4>2, EntryRow
    <3>3. CASE Tells(msg, id)
      BY <2>1, <2>5, <3>2, <3>3 DEF Takes, EntryMoves
    <3>4. CASE Ends(msg, id)
      <4>1. /\ id \in DOMAIN pg.orders
            /\ mid.orders[id].filled = EntryAt(pg, id).filled
            /\ mid.orders[id].status = "Canceled"
        BY <2>1, <3>4 DEF Takes
      <4>2. EntryAt(pg, x) # NoEntry
        BY <2>5, <4>1, NoEntryIs DEF EntryAt, RowsAreGood
      <4> QED
        BY <2>5, <3>2, <3>4, <4>1, <4>2 DEF EntryMoves
    <3> QED
      BY <2>2, <3>3, <3>4 DEF Concerns
  <2>6. CASE x # id
    <3>0. ~Concerns(msg, x)
      BY <2>2, <2>6
    <3>1. CASE x \in DOMAIN new.orders
      <4>1. EntryAt(new, x) = EntryAt(pg, x)
        BY <2>2, <2>3, <2>6, <3>1 DEF EntryAt
      <4> QED
        BY <3>0, <4>1 DEF EntryMoves
    <3>2. CASE x \notin DOMAIN new.orders
      <4>1. EntryAt(new, x) = NoEntry
        BY <3>2 DEF EntryAt
      <4>2. CASE x \notin DOMAIN pg.orders
        BY <3>0, <4>1, <4>2 DEF EntryMoves, EntryAt
      <4>3. CASE x \in DOMAIN pg.orders
        <5>1. Matched(pg, Head(pg.past)) /\ Head(pg.past).id = x
          BY <2>2, <2>3, <2>4, <3>2, <4>3
        <5>2. Done(EntryAt(pg, x))
          BY <4>3, <5>1 DEF Matched, EntryAt
        <5> QED
          BY <3>0, <4>1, <5>2 DEF EntryMoves
      <4> QED
        BY <4>2, <4>3
    <3> QED
      BY <3>1, <3>2
  <2> QED
    BY <2>5, <2>6
<1> QED
  BY <1>1, <1>2 DEF HandledAs

\* What happens to the table of past orders.
LEMMA PastHandled ==
  ASSUME NEW pg, GoodPage(pg), RowsAreGood(pg), NEW msg, NEW new, HandledAs(pg, msg, new)
  PROVE  /\ RowsAreGood(new)
         /\ \A r \in ToSet(new.past) :
              /\ Matched(new, r) \/ (r \in ToSet(pg.past) /\ ~Matched(pg, r))
              /\ r \in ToSet(pg.past) \/ Concerns(msg, r.id)
PROOF
<1>1. CASE new.orders = pg.orders /\ new.past = pg.past
  BY <1>1 DEF RowsAreGood, Matched
<1>2. CASE \E mid, id, row : Takes(pg, msg, mid, id) /\ TableMoves(mid, id, new, row)
  <2>1. PICK mid, id, row : Takes(pg, msg, mid, id) /\ TableMoves(mid, id, new, row)
    BY <1>2
  <2>2. /\ Concerns(msg, id)
        /\ mid.past = pg.past
        /\ DOMAIN mid.orders = DOMAIN pg.orders \cup {id}
        /\ \A i \in DOMAIN pg.orders \ {id} : mid.orders[i] = pg.orders[i]
        /\ mid.orders[id] \in Entry /\ mid.orders[id].row = EntryAt(pg, id).row
    BY <2>1 DEF Takes
  <2>3. /\ row \in Nat \ {NoRow}
        /\ mid.orders[id].row # NoRow => row = mid.orders[id].row
        /\ \A i \in DOMAIN new.orders :
             /\ i \in DOMAIN mid.orders
             /\ new.orders[i] = IF i = id THEN [mid.orders[id] EXCEPT !.row = row]
                                ELSE mid.orders[i]
        /\ DOMAIN new.orders = DOMAIN mid.orders \/ new.past = << >>
        /\ RowsDiffer(new.past)
        /\ \A r \in ToSet(new.past) :
             \/ r.row = row /\ r.id = id /\ Done(mid.orders[id])
             \/ r \in ToSet(pg.past) /\ r.row # row
    BY <2>1, <2>2 DEF TableMoves
  <2>4. /\ [mid.orders[id] EXCEPT !.row = row].row = row
        /\ [mid.orders[id] EXCEPT !.row = row].status = mid.orders[id].status
    <3>1. row \in Nat
      BY <2>3
    <3> QED
      BY <2>2, <3>1, EntryRow
  <2>5. RowsAreGood(new)
    <3> SUFFICES ASSUME NEW i \in DOMAIN new.orders PROVE new.orders[i].row # NoRow
      BY <2>3 DEF RowsAreGood
    <3>1. CASE i = id
      BY <2>3, <2>4, <3>1
    <3>2. CASE i # id
      BY <2>2, <2>3, <3>2 DEF RowsAreGood
    <3> QED
      BY <3>1, <3>2
  <2>6. ASSUME NEW r \in ToSet(new.past)
        PROVE  /\ Matched(new, r) \/ (r \in ToSet(pg.past) /\ ~Matched(pg, r))
               /\ r \in ToSet(pg.past) \/ Concerns(msg, r.id)
    <3>0. DOMAIN new.orders = DOMAIN mid.orders
      BY <2>3, <2>6 DEF ToSet
    <3>1. CASE r.row = row /\ r.id = id /\ Done(mid.orders[id])
      <4>1. new.orders[id] = [mid.orders[id] EXCEPT !.row = row] /\ id \in DOMAIN new.orders
        BY <2>2, <2>3, <3>0
      <4> QED
        BY <2>2, <2>4, <3>1, <4>1 DEF Matched, Done
    <3>2. CASE r \in ToSet(pg.past) /\ r.row # row
      <4> SUFFICES ASSUME Matched(pg, r) PROVE Matched(new, r)
        BY <3>2
      <4>1. r.id # id
        BY <2>2, <2>3, <3>2 DEF Matched, EntryAt, RowsAreGood
      <4>2. r.id \in DOMAIN new.orders /\ new.orders[r.id] = pg.orders[r.id]
        BY <2>2, <2>3, <3>0, <4>1 DEF Matched
      <4> QED
        BY <4>2 DEF Matched
    <3> QED
      BY <2>3, <3>1, <3>2
  <2> QED
    BY <2>5, <2>6
<1> QED
  BY <1>1, <1>2 DEF HandledAs

\* sendOrder enters an order under the next ID, over what is there.
LEMMA OrderEntered ==
  ASSUME NEW pg, GoodPage(pg), RowsAreGood(pg), pg.nextID <= MaxPageOrders,
         NEW quantity \in Int, NEW new, new = SendOrder(pg, quantity)
  PROVE  /\ RowsAreGood(new) /\ new.broken = pg.broken /\ new.nextID = pg.nextID + 1
         /\ \A x : x # pg.nextID => EntryAt(new, x) = EntryAt(pg, x)
         /\ EntryAt(new, pg.nextID).filled = 0 /\ EntryAt(new, pg.nextID).status = "Pending"
         /\ \A r \in ToSet(new.past) :
              /\ r \in ToSet(pg.past)
              /\ r.id # pg.nextID => (Matched(new, r) <=> Matched(pg, r))
PROOF
<1>1. PICK id : id = pg.nextID
  OBVIOUS
<1>2. PICK fresh : fresh = NewEntry(quantity)
  OBVIOUS
<1>3. PICK map : map = Entered(pg.orders, id, fresh)
  OBVIOUS
<1>4. PICK mid : mid = [pg EXCEPT !.orders = map]
  OBVIOUS
<1>5. PICK upd : upd = UpdateOrdersTable(mid, id)
  OBVIOUS
<1>6. fresh \in Entry /\ fresh.row = NoRow /\ fresh.filled = 0 /\ fresh.status = "Pending"
  BY <1>2 DEF NewEntry, Entry, NoRow
<1>7. id \in OrderIDs /\ DOMAIN pg = PageFields /\ id \in Int
  <2>1. pg.nextID \in 1..(MaxPageOrders + 1) /\ DOMAIN pg = PageFields
    BY DEF GoodPage, GoodRest
  <2>2. MaxPageOrders \in Nat /\ MaxPageOrders <= MaxID /\ MaxID \in Nat
    BY MaxPageOrdersAssumption, MaxIDAssumption
  <2> QED
    BY <1>1, <2>1, <2>2 DEF OrderIDs
<1>8. /\ DOMAIN map = DOMAIN pg.orders \cup {id}
      /\ map[id] = fresh
      /\ \A i \in DOMAIN pg.orders \ {id} : map[i] = pg.orders[i]
  BY <1>3 DEF Entered
<1>9. GoodOrders(map, pg.rows)
  <2>1. pg.rows \in Nat /\ GoodOrders(pg.orders, pg.rows)
    BY DEF GoodPage, GoodRest
  <2>2. DOMAIN map \subseteq OrderIDs
    BY <1>7, <1>8, <2>1 DEF GoodOrders
  <2>3. ASSUME NEW i \in DOMAIN map PROVE map[i] \in Entry /\ map[i].row <= pg.rows
    <3>1. CASE i = id
      BY <1>6, <1>8, <2>1, <3>1 DEF NoRow
    <3>2. CASE i # id
      BY <1>8, <2>1, <3>2 DEF GoodOrders
    <3> QED
      BY <3>1, <3>2
  <2> QED
    BY <2>2, <2>3 DEF GoodOrders
<1>10. GoodPage(mid) /\ mid.orders = map /\ mid.past = pg.past
       /\ mid.broken = pg.broken /\ mid.nextID = pg.nextID
  <2>1. GoodPage(mid) /\ mid.orders = map
    BY <1>4, <1>9, OtherOrders
  <2> QED
    BY <1>4, <1>7, <2>1 DEF PageFields
<1>11. PICK row : TableMoves(mid, id, upd, row)
  <2>1. id \in DOMAIN mid.orders /\ RowsDiffer(mid.past)
    BY <1>8, <1>10 DEF RowsAreGood
  <2> QED
    BY <1>5, <1>10, <2>1, TableUpdated
<1>12. /\ row \in Nat \ {NoRow}
       /\ DOMAIN upd.orders = DOMAIN map
       /\ \A i \in DOMAIN upd.orders :
            upd.orders[i] = IF i = id THEN [fresh EXCEPT !.row = row] ELSE map[i]
       /\ RowsDiffer(upd.past)
       /\ \A r \in ToSet(upd.past) : r \in ToSet(pg.past)
  <2>1. ~Done(map[id]) /\ mid.orders[id] = fresh
    BY <1>6, <1>8, <1>10 DEF Done
  <2> QED
    BY <1>8, <1>10, <1>11, <2>1 DEF TableMoves
<1>13. /\ new.orders = upd.orders /\ new.past = upd.past /\ new.broken = pg.broken
       /\ new.nextID = pg.nextID + 1
  <2>1. SamePage(mid, upd) /\ GoodPage(upd)
    BY <1>5, <1>8, <1>10, UpdateTable
  <2>2. DOMAIN upd = PageFields /\ upd.broken = pg.broken /\ upd.nextID = pg.nextID
    BY <1>10, <2>1 DEF SamePage, GoodPage, GoodRest
  <2>3. new = [upd EXCEPT !.nextID = @ + 1]
    BY <1>1, <1>2, <1>3, <1>4, <1>5 DEF SendOrder
  <2> QED
    BY <2>2, <2>3 DEF PageFields
<1>14. /\ [fresh EXCEPT !.row = row].row = row
       /\ [fresh EXCEPT !.row = row].filled = 0
       /\ [fresh EXCEPT !.row = row].status = "Pending"
  <2>1. row \in Nat
    BY <1>12
  <2> QED
    BY <1>6, <2>1, EntryRow
<1>15. new.orders[id] = [fresh EXCEPT !.row = row] /\ id \in DOMAIN new.orders
  BY <1>8, <1>12, <1>13
<1>16. ASSUME NEW x, x # id
       PROVE  /\ x \in DOMAIN new.orders <=> x \in DOMAIN pg.orders
              /\ x \in DOMAIN pg.orders => new.orders[x] = pg.orders[x]
  BY <1>8, <1>12, <1>13, <1>16
<1>17. RowsAreGood(new)
  <2> SUFFICES ASSUME NEW i \in DOMAIN new.orders PROVE new.orders[i].row # NoRow
    BY <1>12, <1>13 DEF RowsAreGood
  <2>1. CASE i = id
    BY <1>12, <1>14, <1>15, <2>1
  <2>2. CASE i # id
    BY <1>16, <2>2 DEF RowsAreGood
  <2> QED
    BY <2>1, <2>2
<1>18. /\ \A x : x # id => EntryAt(new, x) = EntryAt(pg, x)
       /\ EntryAt(new, id).filled = 0 /\ EntryAt(new, id).status = "Pending"
  BY <1>14, <1>15, <1>16 DEF EntryAt
<1>19. ASSUME NEW r \in ToSet(new.past)
       PROVE  /\ r \in ToSet(pg.past)
              /\ r.id # id => (Matched(new, r) <=> Matched(pg, r))
  BY <1>12, <1>13, <1>16 DEF Matched
<1> QED
  BY <1>1, <1>13, <1>17, <1>18, <1>19

-----------------------------------------------------------------------------
(* What is so of a page and all that waits for it *)

\* The IDs that the page has used up.
UsedUp(pg) == 1..(pg.nextID - 1)

\* One of these, or the ID of an order that was placed.
Known(pg, ids, x) == x \in UsedUp(pg) \/ x \in ids

\* The page pg sent what is in out and w waits for it; ids are those of the
\* orders placed so far, and the page may have lost count of those with the
\* IDs in lost.
Sound(pg, out, w, ids, lost) ==
  /\ \A i \in 1..Len(out) : out[i].kind = "order" => out[i].id \in UsedUp(pg)
  /\ \A r \in ToSet(pg.past) : Known(pg, ids, r.id)
  /\ \A i \in 1..Len(w) : \A x : Concerns(w[i], x) => Known(pg, ids, x)
  /\ \A i \in 1..Len(w) : \A x : ActionIs(w[i], x)
  /\ \A x : x \notin ids => Unfilled(EntryAt(pg, x), w, x)
  /\ RowsAreGood(pg)
  /\ \A r \in ToSet(pg.past) : Matched(pg, r) \/ r.id \in lost
  /\ lost \subseteq ids

\* A message comes to those that wait.
LEMMA SoundGrows ==
  ASSUME NEW pg, NEW out, NEW w \in Seq(Mail), NEW ids, NEW lost,
         Sound(pg, out, w, ids, lost), NEW n \in Nat, NEW m \in Mail,
         \A x : Concerns(m, x) => Known(pg, ids, x) /\ (x \in ids \/ Says(m, x, Failed)),
         \A x : ActionIs(m, x)
  PROVE  Sound(pg, out, Grown(w, n, m), ids, lost)
PROOF
<1> HIDE DEF Mail
<1>1. PICK w2 : w2 = Grown(w, n, m)
  OBVIOUS
<1>2. ASSUME NEW i \in 1..Len(w2)
      PROVE  (i \in 1..Len(w) /\ w2[i] = w[i]) \/ w2[i] = m
  <2>1. IsGrown(w2, w, n, m)
    BY <1>1, GrownIsGrown
  <2> QED
    BY <2>1 DEF IsGrown
<1>3. ASSUME NEW x, x \notin ids PROVE Unfilled(EntryAt(pg, x), w2, x)
  BY <1>2, <1>3 DEF Sound, Unfilled
<1>4. \A i \in 1..Len(w2) : \A x : Concerns(w2[i], x) => Known(pg, ids, x)
  BY <1>2 DEF Sound
<1>5. \A i \in 1..Len(w2) : \A x : ActionIs(w2[i], x)
  BY <1>2 DEF Sound
<1> QED
  BY <1>1, <1>3, <1>4, <1>5 DEF Sound

\* More orders are placed and more are lost; the page reads or sends.
LEMMA SoundMore ==
  ASSUME NEW pg, NEW out, NEW w, NEW ids, NEW lost, Sound(pg, out, w, ids, lost),
         NEW out2, \A i \in 1..Len(out2) : out2[i].kind = "order" => out2[i].id \in UsedUp(pg),
         NEW ids2, ids \subseteq ids2, NEW lost2, lost \subseteq lost2, lost2 \subseteq ids2
  PROVE  Sound(pg, out2, w, ids2, lost2)
PROOF
  BY DEF Sound, Known, UsedUp

\* Nothing waits any more.
LEMMA SoundSilent ==
  ASSUME NEW pg, NEW out, NEW w, NEW ids, NEW lost, Sound(pg, out, w, ids, lost)
  PROVE  Sound(pg, << >>, << >>, ids, lost)
PROOF
<1>1. Len(<< >>) = 0
  OBVIOUS
<1> QED
  BY <1>1 DEF Sound, Unfilled

\* A page that was just loaded, and sent no order.
LEMMA SoundAtFirst ==
  ASSUME NEW out, \A i \in 1..Len(out) : out[i].kind # "order",
         NEW ids, NEW lost, lost \subseteq ids
  PROVE  Sound(NewPage, out, << >>, ids, lost)
PROOF
<1>1. NewPage.past = << >> /\ NewPage.orders = << >>
  BY DEF NewPage
<1>2. Len(<< >>) = 0 /\ DOMAIN << >> = {}
  OBVIOUS
<1>3. ToSet(NewPage.past) = {}
  BY <1>1, <1>2 DEF ToSet
<1>4. RowsAreGood(NewPage)
  BY <1>1, <1>2 DEF RowsAreGood, RowsDiffer
<1>5. ASSUME NEW x PROVE Unfilled(EntryAt(NewPage, x), << >>, x)
  <2>1. EntryAt(NewPage, x) = NoEntry
    BY <1>1, <1>2 DEF EntryAt
  <2> QED
    BY <1>2, <2>1, NoEntryIs DEF Unfilled
<1> QED
  BY <1>2, <1>3, <1>4, <1>5 DEF Sound

\* The page handles what waits first.
LEMMA SoundHandled ==
  ASSUME NEW pg, GoodPage(pg), NEW out, NEW w \in Seq(Mail), w # << >>, NEW ids, NEW lost,
         Sound(pg, out, w, ids, lost), ~Handled(pg, Head(w)).broken
  PROVE  /\ ~pg.broken
         /\ Sound(Handled(pg, Head(w)), out, Tail(w), ids, lost)
         /\ \A x : x \notin lost =>
              EntryMoves(EntryAt(pg, x), EntryAt(Handled(pg, Head(w)), x), Head(w), x)
         /\ \A x : ActionIs(Head(w), x)
PROOF
<1> HIDE DEF Mail
<1>1. PICK m, v : m = Head(w) /\ v = Tail(w)
  OBVIOUS
<1>2. PICK new : new = Handled(pg, m)
  OBVIOUS
<1>3. /\ m \in Mail /\ m = w[1] /\ Len(w) \in Nat \ {0} /\ Len(v) = Len(w) - 1
      /\ \A i \in 1..(Len(w) - 1) : v[i] = w[i + 1]
  BY <1>1, HeadAndTail
<1>4. ASSUME NEW i \in 1..Len(v) PROVE i + 1 \in 1..Len(w) /\ v[i] = w[i + 1]
  BY <1>3
<1>5. 1 \in 1..Len(w)
  BY <1>3
<1>6. RowsAreGood(pg) /\ RowsDiffer(pg.past)
  BY DEF Sound, RowsAreGood
<1>7. ~pg.broken /\ HandledAs(pg, m, new)
  BY <1>1, <1>2, <1>3, <1>6, MessageHandled
<1>8. new.nextID = pg.nextID
  <2>1. WellHandled(pg, m, new)
    BY <1>2, <1>3, PageHandles
  <2> QED
    BY <2>1 DEF WellHandled
<1>9. ASSUME NEW x, x \notin lost
      PROVE  EntryMoves(EntryAt(pg, x), EntryAt(new, x), m, x)
  <2>1. RowsMatch(pg, x)
    BY <1>9 DEF Sound, RowsMatch
  <2> QED
    BY <1>6, <1>7, <2>1, EntryHandled
<1>10. \A x : ActionIs(m, x) /\ (Concerns(m, x) => Known(pg, ids, x))
  BY <1>3, <1>5 DEF Sound
<1>11. /\ RowsAreGood(new)
       /\ \A r \in ToSet(new.past) :
            /\ Matched(new, r) \/ (r \in ToSet(pg.past) /\ ~Matched(pg, r))
            /\ r \in ToSet(pg.past) \/ Concerns(m, r.id)
  BY <1>6, <1>7, PastHandled
<1>12. ASSUME NEW x, x \notin ids
       PROVE  Unfilled(EntryAt(new, x), v, x)
  <2>1. PICK e, e2 : e = EntryAt(pg, x) /\ e2 = EntryAt(new, x)
    OBVIOUS
  <2>2. Unfilled(e, w, x) /\ x \notin lost
    BY <1>12, <2>1 DEF Sound
  <2>3. /\ e.filled = 0 /\ e.status # "Filled"
        /\ Concerns(m, x) => Says(m, x, Failed)
        /\ \A i \in 1..Len(v) : Concerns(v[i], x) => Says(v[i], x, Failed)
    BY <1>3, <1>4, <1>5, <2>2 DEF Unfilled
  <2>4. EntryMoves(e, e2, m, x) /\ ActionIs(m, x)
    BY <1>9, <1>10, <2>1, <2>2
  <2>5. e2.filled = 0 /\ e2.status # "Filled"
    <3>1. CASE Tells(m, x)
      <4>1. m.response.action = Failed /\ m.response.filled = 0 /\ ~Ends(m, x)
        BY <2>3, <2>4, <3>1, TellsOrEnds DEF Concerns, ActionIs
      <4>2. e2.filled = e.filled + 0 /\ e2.status = StatusOf(Failed)
        BY <2>4, <3>1, <4>1 DEF EntryMoves, Concerns
      <4>3. e2.filled = 0
        BY <2>3, <4>2
      <4>4. e2.status = "Canceled"
        BY <4>2, StatusIs
      <4> QED
        BY <4>3, <4>4
    <3>2. CASE Ends(m, x)
      BY <2>3, <3>2, TellsOrEnds DEF Concerns
    <3>3. CASE ~Concerns(m, x)
      BY <2>3, <2>4, <3>3, NoEntryIs DEF EntryMoves, Concerns
    <3> QED
      BY <3>1, <3>2, <3>3 DEF Concerns
  <2> QED
    BY <2>1, <2>3, <2>5 DEF Unfilled
<1>13. ASSUME NEW r \in ToSet(new.past)
       PROVE  Known(new, ids, r.id) /\ (Matched(new, r) \/ r.id \in lost)
  BY <1>8, <1>10, <1>11 DEF Sound, Known, UsedUp
<1>14. ASSUME NEW i \in 1..Len(v), NEW x
       PROVE  ActionIs(v[i], x) /\ (Concerns(v[i], x) => Known(new, ids, x))
  BY <1>4, <1>8 DEF Sound, Known, UsedUp
<1>15. Sound(new, out, v, ids, lost)
  BY <1>8, <1>11, <1>12, <1>13, <1>14 DEF Sound, UsedUp
<1> QED
  BY <1>1, <1>2, <1>7, <1>9, <1>10, <1>15

\* The page uses up an ID and sends nothing.
LEMMA SoundInvalid ==
  ASSUME NEW pg, GoodPage(pg), NEW out, NEW w, NEW ids, NEW lost,
         Sound(pg, out, w, ids, lost)
  PROVE  /\ Sound(SendInvalid(pg), out, w, ids, lost)
         /\ SendInvalid(pg).broken = pg.broken
         /\ \A x : EntryAt(SendInvalid(pg), x) = EntryAt(pg, x)
PROOF
<1>1. PICK new : new = SendInvalid(pg)
  OBVIOUS
<1>2. DOMAIN pg = PageFields /\ pg.nextID \in Int
  BY DEF GoodPage, GoodRest
<1>3. /\ new.nextID = pg.nextID + 1 /\ new.orders = pg.orders /\ new.past = pg.past
      /\ new.broken = pg.broken
  BY <1>1, <1>2 DEF SendInvalid, PageFields
<1>4. UsedUp(pg) \subseteq UsedUp(new)
  BY <1>2, <1>3 DEF UsedUp
<1>5. /\ \A x : EntryAt(new, x) = EntryAt(pg, x)
      /\ \A r : Matched(new, r) <=> Matched(pg, r)
      /\ RowsAreGood(new) <=> RowsAreGood(pg)
  BY <1>3 DEF EntryAt, Matched, RowsAreGood
<1>6. \A x : Known(pg, ids, x) => Known(new, ids, x)
  BY <1>4 DEF Known
<1>7. Sound(new, out, w, ids, lost)
  BY <1>3, <1>4, <1>5, <1>6 DEF Sound
<1> QED
  BY <1>1, <1>3, <1>5, <1>7

\* The page enters an order under its next ID, and sends it or not.  If one was
\* placed under that ID before, the page may lose count of it.
LEMMA SoundOrdered ==
  ASSUME NEW pg, GoodPage(pg), pg.nextID <= MaxPageOrders,
         NEW out, NEW w, NEW ids, NEW lost, Sound(pg, out, w, ids, lost),
         NEW quantity \in Int,
         NEW out2, \A i \in 1..Len(out2) : out2[i].kind = "order" =>
                     out2[i].id \in UsedUp(pg) \/ out2[i].id = pg.nextID,
         NEW lost2, lost \subseteq lost2, lost2 \subseteq ids,
         pg.nextID \in ids => pg.nextID \in lost2
  PROVE  /\ Sound(SendOrder(pg, quantity), out2, w, ids, lost2)
         /\ SendOrder(pg, quantity).nextID = pg.nextID + 1
         /\ \A x : x # pg.nextID => EntryAt(SendOrder(pg, quantity), x) = EntryAt(pg, x)
PROOF
<1>1. PICK new, id : new = SendOrder(pg, quantity) /\ id = pg.nextID
  OBVIOUS
<1>3. id \in Nat \ {0}
  BY <1>1 DEF GoodPage, GoodRest
<1>4. RowsAreGood(pg)
  BY DEF Sound
<1>5. /\ RowsAreGood(new) /\ new.broken = pg.broken /\ new.nextID = id + 1
      /\ \A x : x # id => EntryAt(new, x) = EntryAt(pg, x)
      /\ EntryAt(new, id).filled = 0 /\ EntryAt(new, id).status = "Pending"
      /\ \A r \in ToSet(new.past) :
           /\ r \in ToSet(pg.past)
           /\ r.id # id => (Matched(new, r) <=> Matched(pg, r))
  BY <1>1, <1>4, OrderEntered
<1>6. UsedUp(pg) \subseteq UsedUp(new) /\ id \in UsedUp(new) /\ id \notin UsedUp(pg)
  BY <1>1, <1>3, <1>5 DEF UsedUp
<1>7. \A x : Known(pg, ids, x) => Known(new, ids, x)
  BY <1>6 DEF Known
<1>8. \A i \in 1..Len(out2) : out2[i].kind = "order" => out2[i].id \in UsedUp(new)
  BY <1>1, <1>6
<1>9. ASSUME NEW r \in ToSet(new.past)
      PROVE  Known(new, ids, r.id) /\ (Matched(new, r) \/ r.id \in lost2)
  <2>1. r \in ToSet(pg.past) /\ Known(pg, ids, r.id) /\ (Matched(pg, r) \/ r.id \in lost)
    BY <1>5 DEF Sound
  <2>2. CASE r.id = id
    BY <1>1, <1>6, <1>7, <2>1, <2>2 DEF Known
  <2>3. CASE r.id # id
    BY <1>5, <1>7, <2>1, <2>3
  <2> QED
    BY <2>2, <2>3
<1>10. ASSUME NEW x, x \notin ids PROVE Unfilled(EntryAt(new, x), w, x)
  <2>1. Unfilled(EntryAt(pg, x), w, x)
    BY <1>10 DEF Sound
  <2>2. EntryAt(new, x).filled = 0 /\ EntryAt(new, x).status # "Filled"
    <3>1. CASE x = id
      BY <1>5, <3>1
    <3>2. CASE x # id
      BY <1>5, <2>1, <3>2 DEF Unfilled
    <3> QED
      BY <3>1, <3>2
  <2> QED
    BY <2>1, <2>2 DEF Unfilled
<1>11. Sound(new, out2, w, ids, lost2)
  BY <1>5, <1>7, <1>8, <1>9, <1>10 DEF Sound
<1> QED
  BY <1>1, <1>5, <1>11

-----------------------------------------------------------------------------
(* What waits for a page and what it is about to be sent *)

\* How often a user who is told k times is told r; what a page of the user is
\* sent of the responses in feed.
Times(r, u, k)      == IF r.user = u THEN k ELSE 0
ListsOf(feed, u, k) == [i \in 1..Len(feed) |->
                          [copy \in 1..Times(feed[i], u, k) |-> Packed(feed[i])]]

\* w is the queue with that behind it.
Joins(w, queue, feed, u, k) ==
  \E f : /\ IsJoining(f, ListsOf(feed, u, k), Mail, Len(feed))
         /\ w = Follow(queue, f[Len(feed)])

\* Lists one behind the other, taken together either way.
LEMMA FollowTogether ==
  ASSUME NEW S, NEW a \in Seq(S), NEW b \in Seq(S), NEW c \in Seq(S)
  PROVE  Follow(Follow(a, b), c) = Follow(a, Follow(b, c))
PROOF
  BY ConcatAssociative DEF Follow

\* They are lists of messages.
LEMMA ListsType ==
  ASSUME NEW feed \in Seq(Responses), NEW u, NEW k \in Nat
  PROVE  /\ ListsOf(feed, u, k) \in Seq(Seq(Mail))
         /\ Len(ListsOf(feed, u, k)) = Len(feed)
         /\ \A i \in 1..Len(feed) :
              /\ Packed(feed[i]) \in Mail /\ Times(feed[i], u, k) \in Nat
              /\ ListsOf(feed, u, k)[i] = [copy \in 1..Times(feed[i], u, k) |-> Packed(feed[i])]
PROOF
<1> HIDE DEF Mail, Responses
<1>1. ASSUME NEW i \in 1..Len(feed)
      PROVE  /\ Packed(feed[i]) \in Mail /\ Times(feed[i], u, k) \in Nat
             /\ [copy \in 1..Times(feed[i], u, k) |-> Packed(feed[i])] \in Seq(Mail)
  <2>1. feed[i] \in Responses
    OBVIOUS
  <2>2. Packed(feed[i]) \in Mail
    BY <2>1, PackedType
  <2>3. Times(feed[i], u, k) \in Nat
    BY DEF Times
  <2> QED
    BY <2>2, <2>3
<1>2. ListsOf(feed, u, k) = [i \in 1..Len(feed) |->
                          [copy \in 1..Times(feed[i], u, k) |-> Packed(feed[i])]]
  BY DEF ListsOf
<1>3. \A i \in 1..Len(feed) :
        ListsOf(feed, u, k)[i] = [copy \in 1..Times(feed[i], u, k) |-> Packed(feed[i])]
  BY <1>2
<1>4. \A i \in 1..Len(feed) : ListsOf(feed, u, k)[i] \in Seq(Mail)
  BY <1>1, <1>3
<1>5. DOMAIN ListsOf(feed, u, k) = 1..Len(feed) /\ Len(feed) \in Nat
  BY <1>2
<1>6. ListsOf(feed, u, k) \in [1..Len(feed) -> Seq(Mail)]
  <2>1. ListsOf(feed, u, k) = [i \in 1..Len(feed) |-> ListsOf(feed, u, k)[i]]
    BY <1>2, <1>5
  <2> QED
    BY <1>4, <2>1
<1>7. Len(ListsOf(feed, u, k)) = Len(feed)
  BY <1>5, <1>6
<1> QED
  BY <1>1, <1>3, <1>5, <1>6, <1>7

\* Nothing is about to be sent.
LEMMA JoinsNothing ==
  ASSUME NEW queue \in Seq(Mail), NEW u, NEW k
  PROVE  /\ Joins(queue, queue, << >>, u, k)
         /\ \A w : Joins(w, queue, << >>, u, k) => w = queue
PROOF
<1> HIDE DEF Mail
<1>1. Follow(queue, << >>) = queue
  BY DEF Follow
<1>2. Len(<< >>) = 0
  OBVIOUS
<1>3. IsJoining([i \in 0..0 |-> << >>], ListsOf(<< >>, u, k), Mail, 0)
  BY DEF IsJoining
<1>4. [i \in 0..0 |-> << >>][0] = << >>
  OBVIOUS
<1>5. Joins(queue, queue, << >>, u, k)
  BY <1>1, <1>2, <1>3, <1>4 DEF Joins
<1>6. ASSUME NEW w, Joins(w, queue, << >>, u, k) PROVE w = queue
  BY <1>1, <1>2, <1>6 DEF Joins, IsJoining
<1> QED
  BY <1>5, <1>6

\* One more response.
LEMMA JoinsMore ==
  ASSUME NEW queue \in Seq(Mail), NEW feed \in Seq(Responses), NEW u, NEW k \in Nat,
         NEW w, Joins(w, queue, feed, u, k), NEW r \in Responses
  PROVE  /\ w \in Seq(Mail) /\ Packed(r) \in Mail /\ Times(r, u, k) \in Nat
         /\ Append(feed, r) \in Seq(Responses)
         /\ Joins(Grown(w, Times(r, u, k), Packed(r)), queue, Append(feed, r), u, k)
PROOF
<1> HIDE DEF Mail, Responses
<1>1. PICK n, more : n = Len(feed) /\ more = Append(feed, r)
  OBVIOUS
<1>2. /\ more \in Seq(Responses) /\ Len(more) = n + 1 /\ n \in Nat
      /\ \A i \in 1..n : more[i] = feed[i]
      /\ more[n + 1] = r
  BY <1>1, OneMore
<1>3. PICK lists, lists2 : lists = ListsOf(feed, u, k) /\ lists2 = ListsOf(more, u, k)
  OBVIOUS
<1>4. PICK c : c = [copy \in 1..Times(r, u, k) |-> Packed(r)]
  OBVIOUS
<1>5. /\ Packed(r) \in Mail /\ Times(r, u, k) \in Nat
      /\ \A i \in 1..n : lists2[i] = lists[i]
      /\ lists2[n + 1] = c
  <2>1. \A i \in 1..n : lists[i] = [copy \in 1..Times(feed[i], u, k) |-> Packed(feed[i])]
    <3>1. \A i \in 1..Len(feed) : ListsOf(feed, u, k)[i]
                                  = [copy \in 1..Times(feed[i], u, k) |-> Packed(feed[i])]
      BY DEF ListsOf
    <3> QED
      BY <1>1, <1>3, <3>1
  <2>2. \A i \in 1..(n + 1) :
          lists2[i] = [copy \in 1..Times(more[i], u, k) |-> Packed(more[i])]
    <3>1. \A i \in 1..Len(more) : ListsOf(more, u, k)[i]
                                  = [copy \in 1..Times(more[i], u, k) |-> Packed(more[i])]
      BY DEF ListsOf
    <3> QED
      BY <1>2, <1>3, <3>1
  <2>3. Packed(r) \in Mail
    BY PackedType
  <2>4. Times(r, u, k) \in Nat
    BY DEF Times
  <2>5. n + 1 \in 1..(n + 1) /\ \A i \in 1..n : i \in 1..(n + 1)
    BY <1>2
  <2>6. lists2[n + 1] = c
    BY <1>2, <1>4, <2>2, <2>5
  <2>7. ASSUME NEW i \in 1..n PROVE lists2[i] = lists[i]
    <3>1. more[i] = feed[i]
      BY <1>2
    <3>2. lists2[i] = [copy \in 1..Times(more[i], u, k) |-> Packed(more[i])]
      BY <2>2, <2>5
    <3>3. lists[i] = [copy \in 1..Times(feed[i], u, k) |-> Packed(feed[i])]
      BY <2>1
    <3> QED
      BY <3>1, <3>2, <3>3
  <2> QED
    BY <2>3, <2>4, <2>6, <2>7
<1>6. c \in Seq(Mail)
  BY <1>4, <1>5
<1>7. PICK f : IsJoining(f, lists, Mail, n) /\ w = Follow(queue, f[n])
  BY <1>1, <1>3 DEF Joins
<1>8. /\ f \in [0..n -> Seq(Mail)] /\ f[0] = << >>
      /\ \A i \in 0..(n - 1) : f[i + 1] = Follow(f[i], lists[i + 1])
  BY <1>7 DEF IsJoining
<1>9. f[n] \in Seq(Mail)
  BY <1>2, <1>8
<1>10. w \in Seq(Mail) /\ Follow(f[n], c) \in Seq(Mail)
  <2>1. queue \o f[n] \in Seq(Mail)
    BY <1>9, ConcatProperties
  <2>2. f[n] \o c \in Seq(Mail)
    BY <1>6, <1>9, ConcatProperties
  <2> QED
    BY <1>7, <2>1, <2>2 DEF Follow
<1> DEFINE g == [i \in 0..(n + 1) |-> IF i <= n THEN f[i] ELSE Follow(f[n], c)]
<1>11. g \in [0..(n + 1) -> Seq(Mail)]
  <2>1. \A i \in 0..(n + 1) : i <= n => f[i] \in Seq(Mail)
    BY <1>2, <1>8
  <2> QED
    BY <1>10, <2>1
<1>12. g[0] = << >> /\ g[n + 1] = Follow(f[n], c)
  BY <1>2, <1>8
<1>13. ASSUME NEW i \in 0..(n + 1 - 1) PROVE g[i + 1] = Follow(g[i], lists2[i + 1])
  <2>1. CASE i = n
    <3>1. g[i] = f[n] /\ i + 1 = n + 1
      BY <1>2, <2>1
    <3> HIDE DEF g
    <3> QED
      BY <1>5, <1>12, <3>1
  <2>2. CASE i # n
    <3>1. i \in 0..(n - 1) /\ i + 1 \in 1..n
      BY <1>2, <2>2
    <3>2. g[i] = f[i] /\ g[i + 1] = f[i + 1]
      BY <1>2, <3>1
    <3> HIDE DEF g
    <3> QED
      BY <1>5, <1>8, <3>1, <3>2
  <2> QED
    BY <2>1, <2>2
<1> HIDE DEF g
<1>14. IsJoining(g, lists2, Mail, Len(more))
  BY <1>2, <1>11, <1>12, <1>13 DEF IsJoining
<1>15. Grown(w, Times(r, u, k), Packed(r)) = Follow(w, c)
  BY <1>4 DEF Grown
<1>16. Follow(w, c) = Follow(queue, g[Len(more)])
  BY <1>2, <1>6, <1>7, <1>9, <1>12, FollowTogether
<1> QED
  BY <1>1, <1>2, <1>3, <1>5, <1>10, <1>14, <1>15, <1>16 DEF Joins

\* What all of it is once it was sent.
LEMMA JoinsSent ==
  ASSUME NEW queue \in Seq(Mail), NEW feed \in Seq(Responses), NEW u, NEW k \in Nat,
         NEW w, Joins(w, queue, feed, u, k)
  PROVE  w = queue \o FlattenSeq(ListsOf(feed, u, k)) /\ w \in Seq(Mail)
PROOF
<1> HIDE DEF Mail, Responses
<1>1. ListsOf(feed, u, k) \in Seq(Seq(Mail)) /\ Len(ListsOf(feed, u, k)) = Len(feed)
  BY ListsType
<1>2. PICK f : /\ IsJoining(f, ListsOf(feed, u, k), Mail, Len(feed))
               /\ w = Follow(queue, f[Len(feed)])
  BY DEF Joins
<1>3. FlattenSeq(ListsOf(feed, u, k)) = f[Len(feed)]
  BY <1>1, <1>2, FlattenJoins
<1>4. f[Len(feed)] \in Seq(Mail)
  BY <1>2 DEF IsJoining
<1>5. queue \o f[Len(feed)] \in Seq(Mail)
  BY <1>4, ConcatProperties
<1> QED
  BY <1>2, <1>3, <1>5 DEF Follow

-----------------------------------------------------------------------------
(* What a call has yet to say *)

\* The confirmation for an order of so much filled and left, and what is paid.
NoteOf(order, filled, remaining, paid) ==
  [user |-> order.user, id |-> order.id, symbol |-> order.symbol,
   action |-> ActionOf(filled, remaining), filled |-> filled,
   remaining |-> remaining, money |-> paid,
   side |-> IF paid > 0 THEN Sell ELSE Buy, type |-> order.type]

\* The confirmations of a trade between orders of a list.
AmountOf(list, t)  == (IF list[t.taker].side = Buy THEN 1 ELSE -1) * t.filled * t.price
MakerNote(list, t) == NoteOf(list[t.maker], t.filled, t.makerRemaining, -AmountOf(list, t))
TakerNote(list, t) == NoteOf(list[t.taker], t.filled, t.takerRemaining, AmountOf(list, t))

\* All a call answers if it has these answers and these trades are to be settled.
IsFeed(feed, list, answers, deals) ==
  /\ feed \in Seq(Responses)
  /\ Len(feed) = Len(answers) + 2 * Len(deals)
  /\ \A i \in 1..Len(answers) : feed[i] = answers[i]
  /\ \A i \in 1..Len(deals) :
       /\ feed[Len(answers) + 2 * i - 1] = MakerNote(list, deals[i])
       /\ feed[Len(answers) + 2 * i] = TakerNote(list, deals[i])

\* No call runs.
LEMMA FeedNothing ==
  ASSUME NEW list
  PROVE  /\ IsFeed(<< >>, list, << >>, << >>)
         /\ \A feed : IsFeed(feed, list, << >>, << >>) => feed = << >>
PROOF
<1> HIDE DEF Responses
<1>1. Len(<< >>) = 0 /\ << >> \in Seq(Responses)
  OBVIOUS
<1>2. IsFeed(<< >>, list, << >>, << >>)
  BY <1>1 DEF IsFeed
<1>3. ASSUME NEW feed, IsFeed(feed, list, << >>, << >>) PROVE feed = << >>
  <2>1. feed \in Seq(Responses) /\ Len(feed) = 0
    BY <1>1, <1>3 DEF IsFeed
  <2> QED
    BY <2>1
<1> QED
  BY <1>2, <1>3

\* A call that gives one answer.
LEMMA FeedAnswer ==
  ASSUME NEW list, NEW r \in Responses
  PROVE  IsFeed(Append(<< >>, r), list, <<r>>, << >>)
PROOF
<1> HIDE DEF Responses
<1>1. << >> \in Seq(Responses) /\ Len(<< >>) = 0 /\ Len(<<r>>) = 1
  OBVIOUS
<1>2. /\ Append(<< >>, r) \in Seq(Responses) /\ Len(Append(<< >>, r)) = 1
      /\ Append(<< >>, r)[1] = r
  BY <1>1, OneMore
<1> QED
  BY <1>1, <1>2 DEF IsFeed

\* An order is matched.
LEMMA FeedMatched ==
  ASSUME NEW list, NEW answers \in Seq(Responses), NEW S, NEW deals \in Seq(S), NEW t \in S,
         NEW feed, IsFeed(feed, list, answers, deals),
         MakerNote(list, t) \in Responses, TakerNote(list, t) \in Responses
  PROVE  IsFeed(Append(Append(feed, MakerNote(list, t)), TakerNote(list, t)),
                list, answers, Append(deals, t))
PROOF
<1> HIDE DEF Responses
<1>1. PICK a, b : a = MakerNote(list, t) /\ b = TakerNote(list, t)
  OBVIOUS
<1>2. PICK one, two, more : /\ one = Append(feed, a) /\ two = Append(one, b)
                            /\ more = Append(deals, t)
  OBVIOUS
<1>3. PICK n, d : n = Len(answers) /\ d = Len(deals)
  OBVIOUS
<1>4. n \in Nat /\ d \in Nat
  BY <1>3
<1>5. /\ feed \in Seq(Responses) /\ Len(feed) = n + 2 * d
      /\ \A i \in 1..n : feed[i] = answers[i]
      /\ \A i \in 1..d : /\ feed[n + 2 * i - 1] = MakerNote(list, deals[i])
                         /\ feed[n + 2 * i] = TakerNote(list, deals[i])
  BY <1>3 DEF IsFeed
<1>6. /\ one \in Seq(Responses) /\ Len(one) = n + 2 * d + 1
      /\ \A i \in 1..(n + 2 * d) : one[i] = feed[i]
      /\ one[n + 2 * d + 1] = a
  BY <1>1, <1>2, <1>5, OneMore
<1>7. /\ two \in Seq(Responses) /\ Len(two) = n + 2 * d + 2
      /\ \A i \in 1..(n + 2 * d + 1) : two[i] = one[i]
      /\ two[n + 2 * d + 2] = b
  <2>1. /\ two \in Seq(Responses) /\ Len(two) = Len(one) + 1
        /\ \A i \in 1..Len(one) : two[i] = one[i]
        /\ two[Len(one) + 1] = b
    BY <1>1, <1>2, <1>6, OneMore
  <2> QED
    BY <1>4, <1>6, <2>1
<1>8. /\ Len(more) = d + 1 /\ \A i \in 1..d : more[i] = deals[i]
      /\ more[d + 1] = t
  BY <1>2, <1>3, OneMore
<1>9. ASSUME NEW i \in 1..(n + 2 * d) PROVE two[i] = feed[i]
  <2>1. i \in 1..(n + 2 * d + 1)
    BY <1>4
  <2> QED
    BY <1>6, <1>7, <2>1
<1>10. \A i \in 1..n : two[i] = answers[i]
  BY <1>4, <1>5, <1>9
<1>11. ASSUME NEW i \in 1..(d + 1)
       PROVE  /\ two[n + 2 * i - 1] = MakerNote(list, more[i])
              /\ two[n + 2 * i] = TakerNote(list, more[i])
  <2>1. CASE i = d + 1
    <3>1. n + 2 * i - 1 = n + 2 * d + 1 /\ n + 2 * i = n + 2 * d + 2
          /\ n + 2 * d + 1 \in 1..(n + 2 * d + 1)
      BY <1>4, <2>1
    <3> QED
      BY <1>1, <1>6, <1>7, <1>8, <2>1, <3>1
  <2>2. CASE i # d + 1
    <3>1. i \in 1..d /\ n + 2 * i - 1 \in 1..(n + 2 * d) /\ n + 2 * i \in 1..(n + 2 * d)
      BY <1>4, <2>2
    <3> QED
      BY <1>5, <1>8, <1>9, <3>1
  <2> QED
    BY <2>1, <2>2
<1>12. Len(two) = n + 2 * Len(more)
  BY <1>4, <1>7, <1>8
<1>13. IsFeed(two, list, answers, more)
  BY <1>3, <1>7, <1>8, <1>10, <1>11, <1>12 DEF IsFeed
<1> QED
  BY <1>1, <1>2, <1>13

\* A trade is settled.
LEMMA FeedSettled ==
  ASSUME NEW list, NEW answers \in Seq(Responses), NEW S, NEW deals \in Seq(S), deals # << >>,
         NEW feed, IsFeed(feed, list, answers, deals),
         NEW two \in Seq(Responses),
         two = <<MakerNote(list, Head(deals)), TakerNote(list, Head(deals))>>
  PROVE  IsFeed(feed, list, answers \o two, Tail(deals))
PROOF
<1> HIDE DEF Responses
<1>1. PICK a, b : a = MakerNote(list, Head(deals)) /\ b = TakerNote(list, Head(deals))
  OBVIOUS
<1>2. PICK all, rest : all = answers \o two /\ rest = Tail(deals)
  OBVIOUS
<1>3. PICK n, d : n = Len(answers) /\ d = Len(deals)
  OBVIOUS
<1>4. two = <<a, b>> /\ Len(two) = 2 /\ two[1] = a /\ two[2] = b
  BY <1>1
<1>5. n \in Nat /\ d \in Nat \ {0} /\ Len(rest) = d - 1 /\ Head(deals) = deals[1]
      /\ \A i \in 1..(d - 1) : rest[i] = deals[i + 1]
  BY <1>2, <1>3, HeadAndTail
<1>6. /\ feed \in Seq(Responses) /\ Len(feed) = n + 2 * d
      /\ \A i \in 1..n : feed[i] = answers[i]
      /\ \A i \in 1..d : /\ feed[n + 2 * i - 1] = MakerNote(list, deals[i])
                         /\ feed[n + 2 * i] = TakerNote(list, deals[i])
  BY <1>3 DEF IsFeed
<1>7. /\ Len(all) = n + 2
      /\ \A i \in 1..(n + 2) : all[i] = IF i <= n THEN answers[i] ELSE two[i - n]
  BY <1>2, <1>3, <1>4, ConcatProperties
<1>8. feed[n + 1] = a /\ feed[n + 2] = b
  <2>1. 1 \in 1..d /\ n + 2 * 1 - 1 = n + 1 /\ n + 2 * 1 = n + 2
    BY <1>5
  <2>2. feed[n + 2 * 1 - 1] = MakerNote(list, deals[1]) /\ feed[n + 2 * 1] = TakerNote(list, deals[1])
    BY <1>6, <2>1
  <2> QED
    BY <1>1, <1>5, <2>1, <2>2
<1>9. ASSUME NEW i \in 1..(n + 2) PROVE feed[i] = all[i]
  <2>1. CASE i <= n
    <3>1. i \in 1..n
      BY <1>5, <2>1
    <3>2. feed[i] = answers[i]
      BY <1>6, <3>1
    <3>3. all[i] = answers[i]
      BY <1>7, <2>1
    <3> QED
      BY <3>2, <3>3
  <2>2. CASE i = n + 1
    <3>1. ~(i <= n) /\ i - n = 1
      BY <1>5, <2>2
    <3> QED
      BY <1>4, <1>7, <1>8, <2>2, <3>1
  <2>3. CASE i = n + 2
    <3>1. ~(i <= n) /\ i - n = 2
      BY <1>5, <2>3
    <3> QED
      BY <1>4, <1>7, <1>8, <2>3, <3>1
  <2> QED
    BY <1>5, <2>1, <2>2, <2>3
<1>10. ASSUME NEW i \in 1..(d - 1)
       PROVE  /\ feed[(n + 2) + 2 * i - 1] = MakerNote(list, rest[i])
              /\ feed[(n + 2) + 2 * i] = TakerNote(list, rest[i])
  <2>1. /\ i + 1 \in 1..d
        /\ n + 2 * (i + 1) - 1 = (n + 2) + 2 * i - 1
        /\ n + 2 * (i + 1) = (n + 2) + 2 * i
    BY <1>5
  <2>2. /\ feed[n + 2 * (i + 1) - 1] = MakerNote(list, deals[i + 1])
        /\ feed[n + 2 * (i + 1)] = TakerNote(list, deals[i + 1])
    BY <1>6, <2>1
  <2> QED
    BY <1>5, <2>1, <2>2
<1>11. Len(feed) = Len(all) + 2 * Len(rest)
  BY <1>5, <1>6, <1>7
<1>12. IsFeed(feed, list, all, rest)
  BY <1>5, <1>6, <1>7, <1>9, <1>10, <1>11 DEF IsFeed
<1> QED
  BY <1>2, <1>12

\* When nothing is to be settled, the answers are all.
LEMMA FeedSent ==
  ASSUME NEW list, NEW answers \in Seq(Responses), NEW feed, IsFeed(feed, list, answers, << >>)
  PROVE  feed = answers
PROOF
<1> HIDE DEF Responses
<1>1. Len(<< >>) = 0 /\ Len(answers) \in Nat
  OBVIOUS
<1>2. feed \in Seq(Responses) /\ Len(feed) = Len(answers)
      /\ \A i \in 1..Len(answers) : feed[i] = answers[i]
  BY <1>1 DEF IsFeed
<1> QED
  BY <1>2

\* The fields of a confirmation.
LEMMA NoteFields ==
  ASSUME NEW list, NEW t
  PROVE  /\ MakerNote(list, t).user = list[t.maker].user /\ TakerNote(list, t).user = list[t.taker].user
         /\ MakerNote(list, t).id = list[t.maker].id /\ TakerNote(list, t).id = list[t.taker].id
         /\ MakerNote(list, t).filled = t.filled /\ TakerNote(list, t).filled = t.filled
         /\ MakerNote(list, t).remaining = t.makerRemaining
         /\ TakerNote(list, t).remaining = t.takerRemaining
         /\ MakerNote(list, t).action = ActionOf(t.filled, t.makerRemaining)
         /\ TakerNote(list, t).action = ActionOf(t.filled, t.takerRemaining)
         /\ "success" \notin DOMAIN MakerNote(list, t)
         /\ "success" \notin DOMAIN TakerNote(list, t)
  BY DEF MakerNote, TakerNote, NoteOf

\* A confirmation is a response.
LEMMA NoteType ==
  ASSUME NEW order \in OrderObject, order.user \in Users, NEW filled \in Nat,
         NEW remaining \in Int, NEW paid \in Int
  PROVE  NoteOf(order, filled, remaining, paid) \in Responses
PROOF
<1>1. ActionOf(filled, remaining) \in {Filled, Partly, Rests, Failed}
  BY ActionType
<1>2. /\ order.id \in OrderIDs /\ order.user \in Senders /\ order.symbol \in Symbols
      /\ order.type \in {Market, Limit}
  BY DEF OrderObject
<1>3. (IF paid > 0 THEN Sell ELSE Buy) \in Sides
  BY DEF Sides
<1> HIDE DEF ActionOf
<1>4. NoteOf(order, filled, remaining, paid) \in OrderMessage
  BY <1>1, <1>2, <1>3 DEF NoteOf, OrderMessage
<1>5. NoteOf(order, filled, remaining, paid).filled = filled
      /\ NoteOf(order, filled, remaining, paid).user = order.user
  BY DEF NoteOf
<1> QED
  BY <1>4, <1>5 DEF Responses, Reports

\* The confirmations of a trade are responses.
LEMMA NotesType ==
  ASSUME TypeOK, FillsAreGood, NEW t \in Trade, t.filled \in Nat
  PROVE  MakerNote(placed, t) \in Responses /\ TakerNote(placed, t) \in Responses
PROOF
<1>1. /\ t.maker \in Ids /\ t.taker \in Ids /\ t.price \in Int
      /\ t.makerRemaining \in Int /\ t.takerRemaining \in Int
  BY DEF Trade
<1>2. /\ placed[t.maker] \in OrderObject /\ placed[t.taker] \in OrderObject
      /\ placed[t.maker].user \in Users /\ placed[t.taker].user \in Users
  BY <1>1, ObjectFields DEF FillsAreGood
<1>3. PICK n : n = t.filled * t.price
  OBVIOUS
<1>4. n \in Int
  BY <1>1, <1>3
<1>5. AmountOf(placed, t) \in Int /\ -AmountOf(placed, t) \in Int
  <2>1. 1 * t.filled \in Int /\ (-1) * t.filled \in Int
    OBVIOUS
  <2>2. (1 * t.filled) * t.price \in Int /\ ((-1) * t.filled) * t.price \in Int
    BY <1>1, <2>1
  <2> QED
    BY <2>2 DEF AmountOf
<1> QED
  BY <1>1, <1>2, <1>5, NoteType DEF MakerNote, TakerNote

\* placeOrder makes them when it settles the trade.
LEMMA NotesAre ==
  ASSUME IInv, trades # << >>
  PROVE  Confirmations(Head(trades)) =
           <<MakerNote(placed, Head(trades)), TakerNote(placed, Head(trades))>>
PROOF
<1> PICK t : t = Head(trades)
  OBVIOUS
<1>1. Indexed(t.maker) /\ Indexed(t.taker)
  BY HeadFacts
<1>2. orders[MakerID(t)] = t.maker /\ orders[TakerID(t)] = t.taker
  BY <1>1 DEF Indexed, MakerID, TakerID
<1>3. Sidemult(t) = IF placed[t.taker].side = Buy THEN 1 ELSE -1
  BY DEF Sidemult
<1> HIDE DEF ActionOf
<1> QED
  BY <1>2, <1>3 DEF Confirmations, Confirmation, MakerNote, TakerNote, NoteOf, AmountOf,
     MakerID, TakerID

-----------------------------------------------------------------------------
(* The orders whose state a page shows *)

\* An order rests for all its user is told, or will if it is not matched any
\* further.
WillRest(o) ==
  \/ RestsForItsUser(o)
  \/ o = taker /\ phase = "matching" /\ qty[o] > 0

\* Nothing was told of it yet.
Fresh(o) == o = taker /\ responses = << >> /\ trades = << >>

\* Where an order is in the state of now.
StageOf(o) == IF Fresh(o) THEN "fresh" ELSE IF WillRest(o) THEN "rests" ELSE "over"

\* Page p keeps count of the order.
Tracked(p, o) == o \in HeardOf(p) /\ Registered(p) /\ placed[o].type = Limit

\* The IDs orders came under, those the bot of the user of page p used up,
\* which may have been refused, both, and those of orders page p keeps no count
\* of.
PlacedIDs  == {placed[o].id : o \in Ids}
BotIDs(p)  == {x \in Nat : /\ UserOf[p] \in Bots /\ botID[UserOf[p]] # 0
                           /\ FirstBotID[UserOf[p]] <= x /\ x < botID[UserOf[p]]}
SeenIDs(p) == PlacedIDs \cup BotIDs(p)
LostIDs(p) == {placed[o].id : o \in {i \in Ids : ~Tracked(p, i)}}

\* Every order of the books of now that page p was there to hear of came under
\* an ID that the page used up, or its user's bot.
HeardAreKnown(p) == \A o \in HeardOf(p) : Known(page[p], BotIDs(p), placed[o].id)

\* w is what waits for page p, what it is about to be sent, and what the call
\* that runs will make of the trades it has yet to settle.
IsPending(p, w) ==
  \E feed : /\ IsFeed(feed, placed, responses, trades)
            /\ Joins(w, inbox[p], feed, UserOf[p], ListedTimes(p))

\* Page p, the messages w and the order are in step.
OrderInStep(p, w, o) ==
  InStep(EntryAt(page[p], placed[o].id), w, placed[o].id, ListedTimes(p), StageOf(o),
         placed[o].size, qty[o])

\* The page is in step with every order it keeps count of.
PageInStep(p) ==
  \E w : /\ IsPending(p, w)
         /\ Sound(page[p], outbox[p], w, SeenIDs(p), LostIDs(p))
         /\ \A o \in Ids : Tracked(p, o) => OrderInStep(p, w, o)

\* Securities come and go together, and orders come when they are there.
MarketIsOpen == listed \in {{}, Symbols} /\ (Len(placed) > since => listed = Symbols)

\* When the matching is over, what is left of a limit order rests.
RestIsBooked ==
  phase = "settling" /\ placed[taker].type = Limit =>
    (taker \in book[placed[taker].symbol] <=> qty[taker] > 0)

\* Nothing waits for a page that has no session.
NothingWaits == \A p \in Pages : session[p] = NoSession => inbox[p] = << >>

\* An order that another user's bot took out of its book does not come back.
TakenIsGone == \A o \in takenAway : o # taker /\ o \notin book[placed[o].symbol]

\* A bot counts up from its first ID.
BotsCount == /\ botID \in [Users -> Nat]
             /\ \A u \in Bots : botID[u] # 0 => FirstBotID[u] <= botID[u]

\* What the statements about the exchange and the bots rest on.
Surroundings == MarketIsOpen /\ RestIsBooked /\ NothingWaits /\ TakenIsGone /\ BotsCount

\* The page never failed, and is below the IDs of its user's bot.
InOrder(p) == ~page[p].broken /\ OwnIDs(p)

\* What holds as long as no two orders come under the same ID.
TableInv ==
  /\ Surroundings
  /\ \A p \in Pages : OnlyWindow(p) /\ InOrder(p) => PageInStep(p) /\ HeardAreKnown(p)

\* The securities and the orders of now.
LEMMA MarketStep ==
  ASSUME TInv, MarketIsOpen, TradingNext
  PROVE  MarketIsOpen'
PROOF
<1>0. Len(placed) \in Nat /\ since \in 0..Len(placed)
  BY DEF TInv, TypeOK
<1>1. CASE UNCHANGED <<placed, listed, since>>
  BY <1>1 DEF MarketIsOpen
<1>2. ASSUME NEW user, NEW order, NEW symbol, NEW id, Place(user, order, symbol, id),
             UNCHANGED since
      PROVE  MarketIsOpen'
  <2>1. listed' = listed
    BY <1>2 DEF Place, envVars
  <2>2. CASE symbol \in listed
    <3>1. listed = Symbols
      BY <2>2 DEF MarketIsOpen
    <3> QED
      BY <2>1, <3>1 DEF MarketIsOpen
  <2>3. CASE symbol \notin listed
    BY <1>2, <2>1, <2>3, <1>1 DEF Place, RejectOrder, bookVars
  <2> QED
    BY <2>2, <2>3
<1>3. ASSUME NewServer, UNCHANGED placed PROVE MarketIsOpen'
  BY <1>0, <1>3 DEF NewServer, MarketIsOpen
<1>4. CASE StartMarket
  BY <1>4 DEF StartMarket, Start, MarketIsOpen, bookVars
<1>5. CASE ExchangeStep
  BY <1>1, <1>5 DEF ExchangeStep, CallStep, Match, FinishMatching, Settle, SettleThrows,
     EndPlaceOrder, envVars, bookVars
<1>6. ASSUME NEW u, NEW id, BotCancels(u, id) PROVE MarketIsOpen'
  BY <1>1, <1>6 DEF BotCancels, CancelOrder, envVars
<1> QED
  BY <1>1, <1>2, <1>3, <1>4, <1>5, <1>6, TradingSteps DEF Open, Close,
     PageOrdersNothing, PageOrdersOffline, PageOrders, ServeNewUser, ServeOrder,
     ServeOrderThrows, Receive, OpenBot, BotOrders, Quote, SendResponses,
     exchangeVars, bookVars, envVars

\* What a call has booked when it settles.
LEMMA RestStep ==
  ASSUME TInv, IInv, RestIsBooked, TradingNext
  PROVE  RestIsBooked'
PROOF
<1> SUFFICES ASSUME phase' = "settling", placed'[taker'].type = Limit
             PROVE  taker' \in book'[placed'[taker'].symbol] <=> qty'[taker'] > 0
  BY DEF RestIsBooked
<1>1. CASE UNCHANGED <<placed, taker, book, qty, phase>>
  BY <1>1 DEF RestIsBooked
<1>2. CASE FinishMatching
  <2>1. taker' = taker /\ placed' = placed /\ phase = "matching"
    BY <1>2 DEF FinishMatching
  <2>2. /\ taker \in Ids /\ placed[taker].symbol \in Symbols /\ qty[taker] \in Int
        /\ taker \notin book[placed[taker].symbol]
        /\ book \in [Symbols -> SUBSET Ids]
    BY <2>1, TakerFacts DEF IInv, RestingIsGood, TypeOK
  <2>3. placed[taker].type # Market
    BY <2>1 DEF Limit, Market
  <2> QED
    BY <1>2, <2>1, <2>2, <2>3 DEF FinishMatching
<1>3. ExchangeStep => FinishMatching \/ UNCHANGED <<placed, taker, book, qty, phase>>
  BY DEF ExchangeStep, CallStep, Match, Settle, SettleThrows, EndPlaceOrder, bookVars
<1>4. phase = "settling" \/ ExchangeStep
  BY TradingSteps DEF Open, Close, PageOrdersNothing, PageOrdersOffline, PageOrders,
     ServeNewUser, ServeOrder, ServeOrderThrows, Receive, OpenBot, BotOrders,
     BotCancels, Quote, SendResponses, StartMarket, Start, Place, AcceptOrder,
     RejectOrder, CancelOrder, exchangeVars, Idle
<1>5. phase = "settling" /\ ~ExchangeStep => FALSE
  BY TradingSteps DEF Open, Close, PageOrdersNothing, PageOrdersOffline, PageOrders,
     ServeNewUser, ServeOrder, ServeOrderThrows, Receive, OpenBot, BotOrders,
     BotCancels, Quote, SendResponses, StartMarket, Idle
<1> QED
  BY <1>1, <1>2, <1>3, <1>4, <1>5

\* An order that page p was there to hear of after a step was one before, or has
\* just come in.
LEMMA HeardStays ==
  ASSUME TInv, TradingNext, NEW p \in Pages, NEW o \in HeardOf(p)'
  PROVE  /\ o > since' /\ o > joined'[p].orders
         /\ \/ /\ o \in Ids /\ o \in HeardOf(p) /\ placed'[o] = placed[o]
               /\ ~ServeNewUser(p) /\ since' = since
            \/ o = Len(placed) + 1 /\ Ids' # Ids
PROOF
<1>0. TypeOK /\ ExchangeMove /\ Len(placed) \in Nat /\ since \in 0..Len(placed)
  BY HandlersMove DEF TInv, TypeOK
<1>1. o \in Ids' /\ placed'[o].user = UserOf[p] /\ o > since' /\ o > joined'[p].orders
  BY DEF HeardOf
<1>2. /\ Ids \subseteq Ids' /\ \A i \in Ids : placed'[i] = placed[i]
  BY <1>0, OrdersStay
<1>3. Ids' = Ids \/ Ids' = Ids \cup {Len(placed) + 1}
  <2>1. \/ UNCHANGED placed
        \/ \E user, order, symbol, id : AcceptOrder(user, order, symbol, id)
    BY <1>0 DEF ExchangeMove, exchangeVars, bookVars, Replaced, Cleared, Start, Called,
       CancelOrder, RejectOrder, CallStep, Match, FinishMatching, Settle, SettleThrows,
       EndPlaceOrder
  <2>2. ASSUME NEW user, NEW order, NEW symbol, NEW id, AcceptOrder(user, order, symbol, id)
        PROVE  Ids' = Ids \cup {Len(placed) + 1}
    <3>1. placed \in Seq(OrderObject)
      BY <1>0 DEF TypeOK
    <3>2. placed' = Append(placed, NewOrder(id, user, symbol, order))
      BY <2>2 DEF AcceptOrder
    <3> HIDE DEF OrderObject
    <3>3. Len(placed') = Len(placed) + 1
      BY <3>1, <3>2
    <3> QED
      BY <1>0, <3>3 DEF Ids
  <2> QED
    BY <2>1, <2>2 DEF Ids
<1>4. CASE o \notin Ids
  BY <1>1, <1>3, <1>4
<1>5. CASE o \in Ids
  <2>1. placed'[o] = placed[o] /\ o <= Len(placed)
    BY <1>2, <1>5 DEF Ids
  <2>2. ~(since' = Len(placed))
    BY <1>0, <1>1, <1>5, <2>1 DEF Ids
  <2>3. ~ServeNewUser(p)
    <3> SUFFICES ASSUME ServeNewUser(p) PROVE FALSE
      OBVIOUS
    <3>1. joined'[p].orders = Len(placed)
      BY DEF ServeNewUser, TInv, JoinedIsGood
    <3> QED
      BY <1>0, <1>1, <1>5, <2>1, <3>1 DEF Ids
  <2>4. since' = since /\ joined'[p].orders = joined[p].orders
    <3>1. ~NewServer /\ ~StartMarket
      BY <2>2 DEF NewServer, StartMarket
    <3>2. ASSUME NEW q \in Pages, ServeNewUser(q) PROVE joined'[p] = joined[p]
      <4>1. q # p
        BY <2>3, <3>2
      <4> QED
        BY <3>2, <4>1 DEF ServeNewUser, TInv, JoinedIsGood
    <3>3. ASSUME NEW q \in Pages, ServeOrderThrows(q)
          PROVE  joined'[p].orders = joined[p].orders
      BY <3>3 DEF ServeOrderThrows, TInv, JoinedIsGood
    <3> QED
      BY <3>1, <3>2, <3>3, TradingSteps DEF Open, Close, PageOrdersNothing,
         PageOrdersOffline, PageOrders, ServeNewUser, ServeOrder, ServeOrderThrows,
         Receive, OpenBot, BotOrders, BotCancels, Quote, ExchangeStep, SendResponses
  <2>5. o \in HeardOf(p)
    BY <1>1, <1>5, <2>1, <2>4 DEF HeardOf
  <2> QED
    BY <1>1, <1>5, <2>1, <2>3, <2>4, <2>5
<1> QED
  BY <1>4, <1>5

\* A page that keeps count of an order after a step did so before, or the order
\* has just come in.
LEMMA TrackedStays ==
  ASSUME TInv, TradingNext, NEW p \in Pages, NEW o, Tracked(p, o)'
  PROVE  /\ o > since' /\ o > joined'[p].orders
         /\ \/ /\ o \in Ids /\ Tracked(p, o) /\ placed'[o] = placed[o]
               /\ session'[p] = session[p] /\ ListedTimes(p)' = ListedTimes(p)
               /\ ~ServeNewUser(p) /\ since' = since
            \/ o = Len(placed) + 1 /\ Ids' # Ids
PROOF
<1>1. o \in HeardOf(p)' /\ Registered(p)' /\ placed'[o].type = Limit
  BY DEF Tracked
<1>2. ASSUME ~ServeNewUser(p)
      PROVE  /\ Registered(p) /\ session'[p] = session[p]
             /\ ListedTimes(p)' = ListedTimes(p)
  BY <1>1, <1>2, RegisteredStays DEF TInv
<1> QED
  BY <1>1, <1>2, HeardStays DEF Tracked

\* Empty lists, one behind the other.
LEMMA NothingJoined ==
  ASSUME NEW S, NEW lists \in Seq(Seq(S)), \A i \in 1..Len(lists) : lists[i] = << >>
  PROVE  FlattenSeq(lists) = << >>
PROOF
<1>1. PICK f : f = [i \in 0..Len(lists) |-> << >>]
  OBVIOUS
<1>2. Len(lists) \in Nat /\ << >> \in Seq(S) /\ << >> \o << >> = << >>
  <2>1. Len(lists) \in Nat
    OBVIOUS
  <2>2. << >> \in Seq(S)
    OBVIOUS
  <2>3. << >> \o << >> = << >>
    OBVIOUS
  <2> QED
    BY <2>1, <2>2, <2>3
<1>3. IsJoining(f, lists, S, Len(lists))
  <2>1. f \in [0..Len(lists) -> Seq(S)] /\ f[0] = << >>
    BY <1>1, <1>2
  <2>2. ASSUME NEW i \in 0..(Len(lists) - 1) PROVE f[i + 1] = Follow(f[i], lists[i + 1])
    <3>1. i + 1 \in 1..Len(lists) /\ i \in 0..Len(lists) /\ i + 1 \in 0..Len(lists)
      BY <1>2
    <3>2. lists[i + 1] = << >> /\ f[i] = << >> /\ f[i + 1] = << >>
      BY <1>1, <3>1
    <3> QED
      BY <1>2, <3>2 DEF Follow
  <2> QED
    BY <2>1, <2>2 DEF IsJoining
<1>4. FlattenSeq(lists) = f[Len(lists)]
  BY <1>3, FlattenJoins
<1> QED
  BY <1>1, <1>2, <1>4

\* A response goes to the page as often as its user is told.
LEMMA CopiesAreTimes ==
  ASSUME SessionsAreGood, NEW p \in Pages, NEW r, r.user \in Users
  PROVE  /\ Copies(p, r) = Times(r, UserOf[p], ListedTimes(p))
         /\ session[p] = NoSession => Copies(p, r) = 0
PROOF
<1>0. sessionIDs[UserOf[p]] \in Seq(1..opened) /\ sessionIDs[r.user] \in Seq(1..opened)
      /\ ToSet(sessionIDs[UserOf[p]]) \subseteq 1..opened
  BY SessionOf, ListedAreOpened
<1>1. CASE session[p] = NoSession
  <2>1. session[p] \notin ToSet(sessionIDs[UserOf[p]])
    BY <1>0, <1>1 DEF NoSession
  <2>2. ListedTimes(p) = 0
    BY <1>0, <2>1, PlacesAreFinite DEF ListedTimes
  <2> QED
    BY <1>1, <2>2 DEF Copies, Times
<1>2. CASE session[p] # NoSession
  <2>1. Copies(p, r) = Cardinality(PlacesIn(sessionIDs[r.user], session[p]))
    BY <1>2 DEF Copies, Listings, PlacesIn
  <2>2. r.user # UserOf[p] => session[p] \notin ToSet(sessionIDs[r.user])
    BY <1>2 DEF SessionsAreGood, ListsAreGood
  <2>3. r.user # UserOf[p] => Cardinality(PlacesIn(sessionIDs[r.user], session[p])) = 0
    BY <1>0, <2>2, PlacesAreFinite
  <2> QED
    BY <1>2, <2>1, <2>3 DEF Times, ListedTimes
<1> QED
  BY <1>1, <1>2

\* A registered page is told at least once.
LEMMA ListedSome ==
  ASSUME SessionsAreGood, NEW p \in Pages, Registered(p)
  PROVE  ListedTimes(p) \in Nat \ {0}
PROOF
<1>1. session[p] \in ToSet(sessionIDs[UserOf[p]]) /\ sessionIDs[UserOf[p]] \in Seq(1..opened)
  BY SessionOf, ListedAreOpened DEF SessionsAreGood, ListsAreGood
<1> QED
  BY <1>1, PlacesAreFinite DEF ListedTimes

\* Nothing is sent to a page that has no session.
LEMMA WaitsStep ==
  ASSUME TInv, NothingWaits, TradingNext
  PROVE  NothingWaits'
PROOF
<1> SUFFICES ASSUME NEW p \in Pages, session'[p] = NoSession
             PROVE  inbox'[p] = << >>
  BY DEF NothingWaits
<1>0. /\ SessionsAreGood /\ inbox \in [Pages -> Seq(Mail)] /\ session \in [Pages -> 0..opened]
      /\ responses \in Seq(Responses) /\ opened \in Nat
  BY DEF TInv, MailIsGood, SessionsAreGood, SessionTypes, FillsAreGood
<1>1. CASE Close(p)
  BY <1>0, <1>1 DEF Close
<1>2. CASE ~Close(p)
  <2>1. session[p] = NoSession
    BY <1>0, <1>2, TradingSteps DEF Open, Close, PageOrdersNothing, PageOrdersOffline,
       PageOrders, ServeNewUser, ServeOrder, ServeOrderThrows, Receive, OpenBot,
       BotOrders, BotCancels, Quote, ExchangeStep, SendResponses, StartMarket,
       webVars, NoSession
  <2>2. inbox[p] = << >> /\ outbox[p] = << >>
    BY <1>0, <2>1 DEF NothingWaits, SessionsAreGood, FirstIsNewUser
  <2>3. CASE UNCHANGED inbox
    BY <2>2, <2>3
  <2>4. ASSUME NEW q \in Pages, Close(q) \/ Receive(q) \/ ServeNewUser(q) PROVE inbox'[p] = << >>
    <3>1. q # p
      BY <1>2, <2>2, <2>4 DEF Receive, ServeNewUser
    <3> HIDE DEF Mail
    <3> QED
      BY <1>0, <2>2, <2>4, <3>1 DEF Close, Receive, ServeNewUser
  <2>5. ASSUME NEW symbol \in Symbols, Quote(symbol) PROVE inbox'[p] = << >>
    BY <2>1, <2>2, <2>5 DEF Quote
  <2>6. CASE SendResponses
    <3>1. PICK lists : lists = [i \in 1..Len(responses) |->
                                  [copy \in 1..Copies(p, responses[i]) |-> Packed(responses[i])]]
      OBVIOUS
    <3>2. inbox'[p] = inbox[p] \o FlattenSeq(lists)
      BY <2>6, <3>1 DEF SendResponses
    <3>3. \A i \in 1..Len(responses) : responses[i].user \in Users
      <4>1. \A i \in 1..Len(responses) : responses[i] \in Responses
        <5> HIDE DEF Responses
        <5> QED
          BY <1>0, ElementsInSet
      <4> QED
        BY <4>1 DEF Responses
    <3>4. \A i \in 1..Len(responses) : Copies(p, responses[i]) = 0
      BY <1>0, <2>1, <3>3, CopiesAreTimes
    <3>5. \A i \in 1..Len(responses) : lists[i] = << >>
      BY <3>1, <3>4
    <3>6. Len(responses) \in Nat
      <4> HIDE DEF Responses
      <4> QED
        BY <1>0
    <3>7. lists \in Seq(Seq(Mail)) /\ Len(lists) = Len(responses)
      <4> HIDE DEF Mail
      <4>0. << >> \in Seq(Mail)
        OBVIOUS
      <4>1. \A i \in 1..Len(responses) : lists[i] \in Seq(Mail)
        BY <3>5, <4>0
      <4>2. lists = [i \in 1..Len(responses) |-> lists[i]]
        BY <3>1
      <4>3. lists \in [1..Len(responses) -> Seq(Mail)]
        BY <4>1, <4>2
      <4> QED
        BY <3>6, <4>3
    <3>8. FlattenSeq(lists) = << >>
      <4> HIDE DEF Mail
      <4> QED
        BY <3>5, <3>7, NothingJoined
    <3> QED
      BY <2>2, <3>2, <3>8
  <2> QED
    BY <1>2, <2>3, <2>4, <2>5, <2>6, TradingSteps DEF Open, PageOrdersNothing,
       PageOrdersOffline, PageOrders, ServeOrder, ServeOrderThrows, OpenBot,
       BotOrders, BotCancels, ExchangeStep, StartMarket, webVars
<1> QED
  BY <1>1, <1>2

\* Bots count upwards.
LEMMA BotsStep ==
  ASSUME BotsCount, TradingNext
  PROVE  /\ BotsCount'
         /\ \A p \in Pages : BotIDs(p) \subseteq BotIDs(p)'
PROOF
<1>1. ASSUME NEW u \in Bots, NEW k \in Nat, botID' = [botID EXCEPT ![u] = k],
             botID[u] <= k, FirstBotID[u] <= k
      PROVE  BotsCount' /\ \A p \in Pages : BotIDs(p) \subseteq BotIDs(p)'
  <2>1. /\ u \in Users /\ botID \in [Users -> Nat] /\ botID'[u] = k
        /\ \A v \in Users : botID'[v] = botID[v] \/ v = u
    BY <1>1, BotsAssumption DEF BotsCount
  <2>2. botID' \in [Users -> Nat]
    BY <1>1, <2>1
  <2>3. ASSUME NEW v \in Bots PROVE botID'[v] # 0 => FirstBotID[v] <= botID'[v]
    <3>1. v \in Users
      BY BotsAssumption
    <3> QED
      BY <1>1, <2>1, <3>1 DEF BotsCount
  <2>4. ASSUME NEW p \in Pages, NEW x \in BotIDs(p) PROVE x \in BotIDs(p)'
    <3>1. UserOf[p] \in Users
      BY UserOfAssumption
    <3>2. CASE UserOf[p] = u
      <4>1. /\ x \in Nat /\ u \in Bots /\ FirstBotID[u] <= x /\ x < botID[u] /\ botID[u] \in Nat
        BY <2>1, <3>2, <2>4 DEF BotIDs
      <4>2. x < k /\ k # 0
        BY <1>1, <4>1
      <4> QED
        BY <2>1, <3>2, <4>1, <4>2 DEF BotIDs
    <3>3. CASE UserOf[p] # u
      BY <2>1, <2>4, <3>1, <3>3 DEF BotIDs
    <3> QED
      BY <3>2, <3>3
  <2> QED
    BY <2>2, <2>3, <2>4 DEF BotsCount
<1>2. CASE UNCHANGED botID
  <2>1. BotsCount'
    BY <1>2 DEF BotsCount
  <2>2. \A p \in Pages : BotIDs(p)' = BotIDs(p)
    BY <1>2 DEF BotIDs
  <2> QED
    BY <2>1, <2>2
<1>3. ASSUME NEW u \in Bots, OpenBot(u)
      PROVE  BotsCount' /\ \A p \in Pages : BotIDs(p) \subseteq BotIDs(p)'
  <2>1. botID[u] = 0 /\ botID' = [botID EXCEPT ![u] = FirstBotID[u]]
    BY <1>3 DEF OpenBot
  <2>2. FirstBotID[u] \in Nat
    BY FirstBotIDAssumption
  <2>3. botID[u] <= FirstBotID[u] /\ FirstBotID[u] <= FirstBotID[u]
    BY <2>1, <2>2
  <2> QED
    BY <1>1, <2>1, <2>2, <2>3
<1>4. ASSUME NEW u \in Bots, NEW order \in BotMenu, BotOrders(u, order)
      PROVE  BotsCount' /\ \A p \in Pages : BotIDs(p) \subseteq BotIDs(p)'
  <2>1. botID[u] \in OrderIDs /\ botID' = [botID EXCEPT ![u] = botID[u] + 1]
    BY <1>4 DEF BotOrders
  <2>2. botID[u] \in Nat /\ botID[u] # 0
    BY <2>1, MaxIDAssumption DEF OrderIDs
  <2>3. FirstBotID[u] <= botID[u] /\ FirstBotID[u] \in Nat
    BY <2>2, FirstBotIDAssumption DEF BotsCount
  <2>4. botID[u] + 1 \in Nat /\ botID[u] <= botID[u] + 1 /\ FirstBotID[u] <= botID[u] + 1
    BY <2>2, <2>3
  <2> QED
    BY <1>1, <2>1, <2>4
<1> QED
  BY <1>2, <1>3, <1>4, TradingSteps DEF Open, Close, PageOrdersNothing,
     PageOrdersOffline, PageOrders, ServeNewUser, ServeOrder, ServeOrderThrows, Receive,
     BotCancels, Quote, ExchangeStep, SendResponses, StartMarket

\* An ID that its user's bot used up is not one that the page uses.
LEMMA BotIDsAreAbove ==
  ASSUME BotsCount, NEW p \in Pages, NEW x \in BotIDs(p)
  PROVE  /\ UserOf[p] \in Bots /\ FirstBotID[UserOf[p]] \in Nat /\ x \in Nat
         /\ FirstBotID[UserOf[p]] <= x /\ x < botID[UserOf[p]]
PROOF
  BY FirstBotIDAssumption DEF BotIDs

\* A page does not come to keep count of an order it has lost.
LEMMA LostGrows ==
  ASSUME TInv, BotsCount, TradingNext, NEW p \in Pages
  PROVE  /\ SeenIDs(p) \subseteq SeenIDs(p)'
         /\ LostIDs(p) \subseteq LostIDs(p)' /\ LostIDs(p)' \subseteq SeenIDs(p)'
PROOF
<1>0. /\ TypeOK /\ ExchangeMove /\ Len(placed) \in Nat
  BY HandlersMove DEF TInv, TypeOK
<1>1. /\ Ids \subseteq Ids' /\ \A i \in Ids : placed'[i] = placed[i]
  BY <1>0, OrdersStay
<1>2. SeenIDs(p) \subseteq SeenIDs(p)'
  <2>1. PlacedIDs \subseteq PlacedIDs'
    BY <1>1 DEF PlacedIDs
  <2>2. BotIDs(p) \subseteq BotIDs(p)'
    BY BotsStep
  <2> QED
    BY <2>1, <2>2 DEF SeenIDs
<1>3. LostIDs(p)' \subseteq SeenIDs(p)'
  BY DEF LostIDs, SeenIDs, PlacedIDs
<1>4. ASSUME NEW x \in LostIDs(p) PROVE x \in LostIDs(p)'
  <2>1. PICK o \in Ids : ~Tracked(p, o) /\ x = placed[o].id
    BY DEF LostIDs
  <2>2. ~Tracked(p, o)'
    <3>1. o # Len(placed) + 1
      BY <1>0 DEF Ids
    <3> QED
      BY <2>1, <3>1, TrackedStays
  <2> QED
    BY <1>1, <2>1, <2>2 DEF LostIDs
<1> QED
  BY <1>2, <1>3, <1>4

\* An order it keeps count of is not among them.
LEMMA NotLost ==
  ASSUME UniqueIDs, NEW p \in Pages, NEW o \in Ids, Tracked(p, o)
  PROVE  placed[o].id \notin LostIDs(p)
PROOF
  BY DEF UniqueIDs, LostIDs

\* Between two calls nothing is about to be said.
LEMMA IdleIs ==
  ASSUME TInv, IInv, Idle
  PROVE  /\ responses = << >> /\ trades = << >> /\ taker = NoOrder /\ phase = "idle"
         /\ \A o \in Ids : StageOf(o) = IF RestsForItsUser(o) THEN "rests" ELSE "over"
PROOF
<1>1. responses = << >> /\ trades = << >> /\ taker = NoOrder /\ phase = "idle"
  BY DEF Idle, TInv, HandlersAreGood, IInv, CallIsGood, TypeOK
<1>2. \A o \in Ids : o # taker
  BY <1>1 DEF Ids, NoOrder, TInv, TypeOK
<1> QED
  BY <1>1, <1>2 DEF StageOf, Fresh, WillRest

\* What waits for a page is all that is to come.
LEMMA IdlePending ==
  ASSUME TInv, IInv, Idle, NEW p \in Pages, NEW w, IsPending(p, w)
  PROVE  w = inbox[p] /\ w \in Seq(Mail)
PROOF
<1>1. responses = << >> /\ trades = << >>
  BY IdleIs
<1>2. PICK feed : /\ IsFeed(feed, placed, << >>, << >>)
                  /\ Joins(w, inbox[p], feed, UserOf[p], ListedTimes(p))
  BY <1>1 DEF IsPending
<1>3. feed = << >>
  BY <1>2, FeedNothing
<1>4. inbox[p] \in Seq(Mail)
  BY DEF TInv, MailIsGood
<1> HIDE DEF Mail
<1> QED
  BY <1>2, <1>3, <1>4, JoinsNothing

\* It is so after a step that answers nothing.
LEMMA PendingNothing ==
  ASSUME NEW p \in Pages, NEW w \in Seq(Mail), inbox'[p] = w,
         responses' = << >>, trades' = << >>
  PROVE  IsPending(p, w)'
PROOF
<1> HIDE DEF Mail
<1>1. PICK list : list = placed'
  OBVIOUS
<1>2. PICK k : k = ListedTimes(p)'
  OBVIOUS
<1>3. IsFeed(<< >>, list, << >>, << >>) /\ Joins(w, w, << >>, UserOf[p], k)
  BY FeedNothing, JoinsNothing
<1> QED
  BY <1>1, <1>2, <1>3 DEF IsPending

-----------------------------------------------------------------------------
(* Each step keeps a page in step *)

\* A step, and what is so before it of page p and its orders.
GoesOn(p) ==
  /\ TInv /\ TInv' /\ IInv /\ IInv' /\ TakerIsTold
  /\ Surroundings
  /\ TradingNext
  /\ p \in Pages /\ OnlyWindow(p)
  /\ InOrder(p) => PageInStep(p) /\ HeardAreKnown(p)

\* What the types say of it.
LEMMA PageFacts ==
  ASSUME TInv, NEW p \in Pages
  PROVE  /\ GoodPage(page[p]) /\ inbox[p] \in Seq(Mail) /\ outbox[p] \in Seq(Requests)
         /\ UserOf[p] \in Users /\ ListedTimes(p) \in Nat /\ SessionsAreGood
         /\ \A x : EntryAt(page[p], x) \in Entry
         /\ \A o \in Ids : placed[o].size \in Int /\ qty[o] \in Int
         /\ Len(placed) \in Nat
PROOF
<1>1. GoodPage(page[p]) /\ inbox[p] \in Seq(Mail) /\ SessionsAreGood /\ TypeOK
  BY DEF TInv, PagesAreGood, MailIsGood
<1>2. outbox[p] \in Seq(Requests) /\ UserOf[p] \in Users /\ ListedTimes(p) \in Nat
  BY <1>1, SessionOf, ListedTimesType
<1>3. \A x : EntryAt(page[p], x) \in Entry
  BY <1>1, EntryAtType
<1>4. \A o \in Ids : placed[o].size \in Int /\ qty[o] \in Int
  BY <1>1, ObjectFields DEF OrderObject
<1>5. Len(placed) \in Nat
  BY <1>1 DEF TypeOK
<1> QED
  BY <1>1, <1>2, <1>3, <1>4, <1>5

\* What is so of the page before a step.
LEMMA StepFacts ==
  ASSUME NEW p, GoesOn(p)
  PROVE  /\ p \in Pages /\ TInv /\ IInv /\ UniqueIDs /\ UniqueIDs'
         /\ SeenIDs(p) \subseteq SeenIDs(p)'
         /\ LostIDs(p) \subseteq LostIDs(p)' /\ LostIDs(p)' \subseteq SeenIDs(p)'
         /\ TInv' /\ IInv' /\ TradingNext
         /\ MarketIsOpen /\ RestIsBooked /\ NothingWaits /\ TakenIsGone /\ BotsCount
PROOF
  BY LostGrows DEF GoesOn, Surroundings, IInv, IDsAreGood

\* Between two calls, n messages about no order come to the page and it reads
\* none; the server may read what the page sent.
LEMMA IdleKeeps ==
  ASSUME NEW p, GoesOn(p), Idle, page'[p] = page[p], InOrder(p),
         NEW n \in Nat, NEW m \in Mail, \A x : ~Concerns(m, x),
         inbox'[p] = Grown(inbox[p], n, m),
         \A i \in 1..Len(outbox'[p]) : outbox'[p][i].kind = "order" =>
           \E j \in 1..Len(outbox[p]) : outbox[p][j] = outbox'[p][i],
         UNCHANGED <<placed, qty, takenAway>>, responses' = << >>, trades' = << >>,
         taker' = NoOrder, phase' = "idle", book' = book \/ since' = Len(placed)
  PROVE  PageInStep(p)'
PROOF
<1>0. /\ p \in Pages /\ TInv /\ IInv /\ UniqueIDs'
      /\ SeenIDs(p) \subseteq SeenIDs(p)'
      /\ LostIDs(p) \subseteq LostIDs(p)' /\ LostIDs(p)' \subseteq SeenIDs(p)'
      /\ MarketIsOpen /\ TradingNext
  BY StepFacts
<1>1. PICK w : /\ IsPending(p, w)
               /\ Sound(page[p], outbox[p], w, SeenIDs(p), LostIDs(p))
               /\ \A o \in Ids : Tracked(p, o) => OrderInStep(p, w, o)
  BY DEF GoesOn, PageInStep
<1>2. w = inbox[p] /\ w \in Seq(Mail)
  BY <1>0, <1>1, IdlePending
<1>3. PICK w2 : w2 = Grown(w, n, m)
  OBVIOUS
<1>4. w2 \in Seq(Mail)
  <2> HIDE DEF Mail
  <2> QED
    BY <1>2, <1>3, GrownIs
<1>5. IsPending(p, w2)'
  BY <1>0, <1>2, <1>3, <1>4, PendingNothing
<1>6. Sound(page[p], outbox[p], w2, SeenIDs(p), LostIDs(p))
  <2>1. \A x : ActionIs(m, x)
    BY DEF ActionIs, Concerns
  <2> HIDE DEF Mail
  <2> QED
    BY <1>1, <1>2, <1>3, <2>1, SoundGrows
<1>7. \A i \in 1..Len(outbox'[p]) : outbox'[p][i].kind = "order" =>
        outbox'[p][i].id \in UsedUp(page[p])
  BY <1>1 DEF Sound
<1>8. Sound(page'[p], outbox'[p], w2, SeenIDs(p)', LostIDs(p)')
  BY <1>0, <1>6, <1>7 DEF Sound, Known
<1>9. ASSUME NEW o \in Ids', Tracked(p, o)' PROVE OrderInStep(p, w2, o)'
  <2>1. Ids' = Ids /\ o \in Ids /\ o <= Len(placed)
    BY DEF Ids
  <2>2. /\ o > since' /\ Tracked(p, o) /\ ListedTimes(p)' = ListedTimes(p)
    BY <1>0, <1>9, <2>1, TrackedStays
  <2>3. book' = book
    <3>1. Len(placed) \in Nat
      BY <1>0, PageFacts
    <3> QED
      BY <2>1, <2>2, <3>1 DEF Ids
  <2>4. PICK x : x = placed[o].id
    OBVIOUS
  <2>5. PICK k : k = ListedTimes(p)
    OBVIOUS
  <2>6. StageOf(o) = IF RestsForItsUser(o) THEN "rests" ELSE "over"
    BY <1>0, <2>1, IdleIs
  <2>7. StageOf(o)' = IF RestsForItsUser(o) THEN "rests" ELSE "over"
    BY <2>1, <2>3 DEF StageOf, Fresh, WillRest, RestsForItsUser, Ids, NoOrder
  <2>8. PICK stage : stage = StageOf(o) /\ stage = StageOf(o)'
    BY <2>6, <2>7
  <2>9. InStep(EntryAt(page[p], x), w, x, k, stage, placed[o].size, qty[o])
    BY <1>1, <2>1, <2>2, <2>4, <2>5, <2>8 DEF OrderInStep
  <2>10. /\ EntryAt(page[p], x) \in Entry /\ k \in Nat
         /\ placed[o].size \in Int /\ qty[o] \in Int
    BY <1>0, <2>1, <2>5, PageFacts
  <2>11. InStep(EntryAt(page[p], x), w2, x, k, stage, placed[o].size, qty[o])
    <3> HIDE DEF Mail, Entry
    <3> QED
      BY <1>2, <1>3, <2>9, <2>10, OthersTold
  <2>12. OrderInStep(p, w2, o)' <=>
           InStep(EntryAt(page'[p], placed'[o].id), w2, placed'[o].id, ListedTimes(p)',
                  StageOf(o)', placed'[o].size, qty'[o])
    BY DEF OrderInStep
  <2> QED
    BY <2>2, <2>4, <2>5, <2>8, <2>11, <2>12
<1> QED
  BY <1>5, <1>8, <1>9 DEF PageInStep

\* One message more.
LEMMA GrownOne ==
  ASSUME NEW w \in Seq(Mail), NEW m \in Mail
  PROVE  Append(w, m) = Grown(w, 1, m)
PROOF
<1> HIDE DEF Mail
<1>1. <<m>> = [copy \in 1..1 |-> m]
  OBVIOUS
<1>2. Append(w, m) = w \o <<m>>
  BY AppendIsConcat
<1> QED
  BY <1>1, <1>2 DEF Grown, Follow

\* The steps between two calls that leave the page as it is.
LEMMA IdleStays ==
  ASSUME NEW p, GoesOn(p), InOrder(p), page'[p] = page[p],
         \/ \E q \in Pages : Open(q) \/ ServeNewUser(q) \/ ServeOrderThrows(q)
         \/ \E q \in Pages \ {p} :
              \/ Close(q) \/ PageOrdersNothing(q) \/ Receive(q)
              \/ \E order \in PageMenu : PageOrders(q, order) \/ PageOrdersOffline(q, order)
         \/ \E u \in Bots : OpenBot(u)
         \/ StartMarket
         \/ \E symbol \in Symbols : Quote(symbol)
  PROVE  PageInStep(p)'
PROOF
<1>0. p \in Pages /\ TInv /\ IInv /\ TInv'
  BY StepFacts
<1>1. Idle
  BY DEF Open, ServeNewUser, ServeOrderThrows, Close, PageOrdersNothing, PageOrdersOffline, Receive,
     PageOrders, OpenBot, StartMarket, Quote
<1>2. responses = << >> /\ trades = << >> /\ taker = NoOrder /\ phase = "idle"
  BY <1>0, <1>1, IdleIs
<1>3. /\ UNCHANGED <<placed, qty, takenAway>> /\ responses' = << >> /\ trades' = << >>
      /\ taker' = NoOrder /\ phase' = "idle" /\ (book' = book \/ since' = Len(placed))
  BY <1>2 DEF Open, ServeNewUser, ServeOrderThrows, Close, PageOrdersNothing, PageOrdersOffline,
     Receive, PageOrders, OpenBot, StartMarket, Start, Quote, NewServer, exchangeVars,
     bookVars
<1>4. inbox[p] \in Seq(Mail) /\ outbox[p] \in Seq(Requests) /\ Len(outbox[p]) \in Nat
      /\ inbox \in [Pages -> Seq(Mail)] /\ outbox \in [Pages -> Seq(Requests)]
      /\ inbox'[p] \in Seq(Mail)
  <2>1. inbox[p] \in Seq(Mail) /\ outbox[p] \in Seq(Requests)
    BY <1>0, PageFacts
  <2>2. inbox \in [Pages -> Seq(Mail)] /\ outbox \in [Pages -> Seq(Requests)]
    BY <1>0 DEF TInv, SessionsAreGood, SessionTypes, MailIsGood
  <2>3. inbox'[p] \in Seq(Mail)
    <3>1. Mail' = Mail
      BY DEF Mail, Reports, CancelMessages, OrderMessage, OrderIDs
    <3>2. inbox' \in [Pages -> Seq(Mail)]
      BY <1>0, <3>1 DEF TInv, MailIsGood
    <3> QED
      BY <1>0, <3>2
  <2>4. Len(outbox[p]) \in Nat
    <3> HIDE DEF Requests
    <3> QED
      BY <2>1
  <2> QED
    BY <2>1, <2>2, <2>3, <2>4
\* What the server has not read.
<1>5. ASSUME NEW i \in 1..Len(outbox'[p]), outbox'[p][i].kind = "order"
      PROVE  \E j \in 1..Len(outbox[p]) : outbox[p][j] = outbox'[p][i]
  <2>1. CASE outbox'[p] = outbox[p]
    BY <1>5, <2>1
  <2>2. CASE Open(p)
    <3>1. outbox'[p] = <<[kind |-> "new_user"]>>
      BY <1>0, <1>4, <2>2 DEF Open
    <3>2. Len(outbox'[p]) = 1 /\ outbox'[p][1].kind = "new_user"
      BY <3>1
    <3> QED
      BY <1>5, <3>2
  <2>3. CASE ServeNewUser(p) \/ ServeOrderThrows(p)
    <3>1. outbox[p] # << >> /\ outbox' = [outbox EXCEPT ![p] = Tail(@)]
      BY <2>3 DEF ServeNewUser, ServeOrderThrows
    <3>2. i + 1 \in 1..Len(outbox[p]) /\ outbox'[p][i] = outbox[p][i + 1]
      BY <1>0, <3>1, OutboxRead, PageFacts
    <3> QED
      BY <3>2
  <2>4. ASSUME NEW q \in Pages \ {p}, outbox' = [outbox EXCEPT ![q] = outbox'[q]]
        PROVE  outbox'[p] = outbox[p]
    <3> HIDE DEF Requests
    <3> QED
      BY <1>0, <1>4, <2>4
  <2>5. outbox'[p] = outbox[p] \/ Open(p) \/ ServeNewUser(p) \/ ServeOrderThrows(p)
    <3>1. ASSUME NEW q \in Pages \ {p},
                 \/ Open(q) \/ ServeNewUser(q) \/ ServeOrderThrows(q) \/ Close(q)
                 \/ \E order \in PageMenu : PageOrders(q, order)
          PROVE  outbox'[p] = outbox[p]
      BY <1>0, <1>4, <3>1 DEF Open, ServeNewUser, ServeOrderThrows, Close, PageOrders
    <3>2. ASSUME NEW q \in Pages \ {p},
                 \/ PageOrdersNothing(q) \/ Receive(q)
                 \/ \E order \in PageMenu : PageOrdersOffline(q, order)
          PROVE  outbox'[p] = outbox[p]
      BY <3>2 DEF PageOrdersNothing, PageOrdersOffline, Receive
    <3>3. ASSUME \/ \E u \in Bots : OpenBot(u)
                 \/ StartMarket
                 \/ \E symbol \in Symbols : Quote(symbol)
          PROVE  outbox'[p] = outbox[p]
      BY <3>3 DEF OpenBot, StartMarket, Quote
    <3> QED
      BY <3>1, <3>2, <3>3
  <2> QED
    BY <2>1, <2>2, <2>3, <2>5
\* What waits for the page.
<1>6. \E n \in Nat, m \in Mail : /\ \A x : ~Concerns(m, x)
                                 /\ inbox'[p] = Grown(inbox[p], n, m)
  <2>1. CASE inbox'[p] = inbox[p]
    <3>1. PICK m : m = [kind |-> "new_user", money |-> 0]
      OBVIOUS
    <3>2. m \in Mail /\ \A x : ~Concerns(m, x)
      BY <3>1 DEF Mail, Concerns, Tells, Ends
    <3>3. inbox[p] = Grown(inbox[p], 0, m)
      <4> HIDE DEF Mail
      <4>1. PICK n \in Nat : n = 0
        OBVIOUS
      <4>2. Grown(inbox[p], n, m) = inbox[p]
        <5>1. inbox[p] \in Seq(Mail) /\ m \in Mail
          BY <1>4, <3>2
        <5> QED
          BY <4>1, <5>1, GrownIs
      <4> QED
        BY <4>1, <4>2
    <3> QED
      BY <2>1, <3>2, <3>3
  <2>2. ASSUME NEW m, m.kind = "new_user" \/ m.kind = "quote", m \in Mail,
               inbox'[p] = Append(inbox[p], m)
        PROVE  \E n \in Nat, mm \in Mail : /\ \A x : ~Concerns(mm, x)
                                           /\ inbox'[p] = Grown(inbox[p], n, mm)
    <3>1. \A x : ~Concerns(m, x)
      BY <2>2 DEF Concerns, Tells, Ends
    <3>2. inbox'[p] = Grown(inbox[p], 1, m)
      <4> HIDE DEF Mail
      <4> QED
        BY <1>4, <2>2, GrownOne
    <3> QED
      BY <2>2, <3>1, <3>2
  <2>3. ASSUME ServeNewUser(p) PROVE \E m \in Mail : m.kind = "new_user" /\ inbox'[p] = Append(inbox[p], m)
    <3>1. PICK m : m = [kind |-> "new_user", money |-> money[UserOf[p]]]
      OBVIOUS
    <3>2. money[UserOf[p]] \in Int
      BY <1>0, PageFacts DEF TInv, TypeOK
    <3>3. m \in Mail /\ m.kind = "new_user"
      BY <3>1, <3>2 DEF Mail
    <3>4. inbox'[p] = Append(inbox[p], m)
      <4> HIDE DEF Mail
      <4> QED
        BY <1>0, <1>4, <2>3, <3>1 DEF ServeNewUser
    <3> QED
      BY <3>3, <3>4
  <2>4. ASSUME NEW symbol \in Symbols, Quote(symbol), inbox'[p] # inbox[p]
        PROVE  \E m \in Mail : m.kind = "quote" /\ inbox'[p] = Append(inbox[p], m)
    <3>1. PICK m : m = [kind |-> "quote", symbol |-> symbol]
      OBVIOUS
    <3>2. m \in Mail /\ m.kind = "quote"
      BY <3>1 DEF Mail
    <3>3. inbox'[p] = Append(inbox[p], m)
      <4> HIDE DEF Mail
      <4> QED
        BY <1>0, <2>4, <3>1 DEF Quote
    <3> QED
      BY <3>2, <3>3
  <2>5. \/ inbox'[p] = inbox[p] \/ ServeNewUser(p) \/ \E symbol \in Symbols : Quote(symbol)
    <3> HIDE DEF Mail
    <3>1. ASSUME NEW q \in Pages \ {p}, ServeNewUser(q) \/ Close(q) \/ Receive(q)
          PROVE  inbox'[p] = inbox[p]
      BY <1>0, <1>4, <3>1 DEF ServeNewUser, Close, Receive
    <3>2. ASSUME \/ \E q \in Pages :
                      \/ Open(q) \/ PageOrdersNothing(q) \/ ServeOrderThrows(q)
                      \/ \E order \in PageMenu :
                           PageOrders(q, order) \/ PageOrdersOffline(q, order)
                 \/ \E u \in Bots : OpenBot(u)
                 \/ StartMarket
          PROVE  inbox'[p] = inbox[p]
      BY <3>2 DEF Open, PageOrdersNothing, PageOrdersOffline, PageOrders,
         ServeOrderThrows, OpenBot, StartMarket, webVars
    <3> QED
      BY <3>1, <3>2
  <2> QED
    BY <2>1, <2>2, <2>3, <2>4, <2>5
<1>7. PICK n \in Nat, m \in Mail : /\ \A x : ~Concerns(m, x)
                                   /\ inbox'[p] = Grown(inbox[p], n, m)
  BY <1>6
<1> HIDE DEF Mail
<1> QED
  BY <1>1, <1>3, <1>5, <1>7, IdleKeeps

\* A step that leaves the exchange alone leaves the orders as they are.
LEMMA StageStays ==
  ASSUME NEW o, UNCHANGED <<placed, qty, book, phase, taker, responses, trades, takenAway>>
  PROVE  StageOf(o)' = StageOf(o)
PROOF
  BY DEF StageOf, Fresh, WillRest, RestsForItsUser

\* The page is loaded again when it connects.
LEMMA LoadedAgain ==
  ASSUME NEW p, GoesOn(p), Open(p), page'[p] = NewPage
  PROVE  PageInStep(p)'
PROOF
<1>0. p \in Pages /\ TInv /\ IInv /\ TInv' /\ LostIDs(p)' \subseteq SeenIDs(p)'
  BY StepFacts
<1>1. Idle /\ session[p] = NoSession /\ inbox' = inbox
  BY DEF Open
<1>2. inbox'[p] = << >>
  BY <1>0, <1>1, StepFacts DEF NothingWaits
<1>3. responses' = << >> /\ trades' = << >>
  BY <1>0, <1>1, IdleIs DEF Open
<1>4. IsPending(p, << >>)'
  <2>1. << >> \in Seq(Mail)
    OBVIOUS
  <2> HIDE DEF Mail
  <2> QED
    BY <1>0, <1>2, <1>3, <2>1, PendingNothing
<1>5. Sound(page'[p], outbox'[p], << >>, SeenIDs(p)', LostIDs(p)')
  <2>1. outbox'[p] = <<[kind |-> "new_user"]>>
    BY <1>0 DEF Open, TInv, SessionsAreGood, SessionTypes
  <2>2. \A i \in 1..Len(outbox'[p]) : outbox'[p][i].kind # "order"
    BY <2>1
  <2>3. PICK out, ids, lost : out = outbox'[p] /\ ids = SeenIDs(p)' /\ lost = LostIDs(p)'
    OBVIOUS
  <2>4. Sound(NewPage, out, << >>, ids, lost)
    BY <1>0, <2>2, <2>3, SoundAtFirst
  <2> QED
    BY <2>3, <2>4
<1>6. ASSUME NEW o \in Ids', Tracked(p, o)' PROVE FALSE
  <2>1. o > since' /\ since' = Len(placed) /\ placed' = placed
    BY <1>6 DEF Tracked, HeardOf, Open, NewServer
  <2>2. Len(placed) \in Nat
    BY <1>0, PageFacts
  <2> QED
    BY <2>1, <2>2 DEF Ids
<1> QED
  BY <1>4, <1>5, <1>6 DEF PageInStep

\* The page loses its session.
LEMMA ClosedInStep ==
  ASSUME NEW p, GoesOn(p), Close(p), InOrder(p)
  PROVE  PageInStep(p)'
PROOF
<1>0. /\ p \in Pages /\ TInv /\ IInv /\ TInv'
      /\ SeenIDs(p) \subseteq SeenIDs(p)'
      /\ LostIDs(p) \subseteq LostIDs(p)' /\ LostIDs(p)' \subseteq SeenIDs(p)'
  BY StepFacts
<1>1. /\ Idle /\ inbox'[p] = << >> /\ outbox'[p] = << >> /\ page' = page /\ UNCHANGED exchangeVars
      /\ session'[p] = NoSession
  BY <1>0 DEF Close, TInv, SessionsAreGood, SessionTypes, MailIsGood
<1>2. responses' = << >> /\ trades' = << >>
  BY <1>0, <1>1, IdleIs DEF exchangeVars
<1>3. IsPending(p, << >>)'
  <2>1. << >> \in Seq(Mail)
    OBVIOUS
  <2> HIDE DEF Mail
  <2> QED
    BY <1>0, <1>1, <1>2, <2>1, PendingNothing
<1>4. PICK w : Sound(page[p], outbox[p], w, SeenIDs(p), LostIDs(p))
  BY DEF GoesOn, PageInStep
<1>5. Sound(page[p], << >>, << >>, SeenIDs(p), LostIDs(p))
  BY <1>4, SoundSilent
<1>6. Sound(page'[p], outbox'[p], << >>, SeenIDs(p)', LostIDs(p)')
  BY <1>0, <1>1, <1>5 DEF Sound, Known
<1>7. ~Registered(p)'
  BY <1>0, <1>1 DEF Registered, TInv, SessionsAreGood, SessionTypes, NoSession
<1> QED
  BY <1>3, <1>6, <1>7 DEF PageInStep, Tracked

\* The page uses up an ID.
LEMMA OrderedNothing ==
  ASSUME NEW p, GoesOn(p), PageOrdersNothing(p), InOrder(p)
  PROVE  PageInStep(p)'
PROOF
<1>0. /\ p \in Pages /\ TInv /\ IInv /\ TInv' /\ UniqueIDs' /\ MarketIsOpen /\ TradingNext
      /\ SeenIDs(p) \subseteq SeenIDs(p)'
      /\ LostIDs(p) \subseteq LostIDs(p)' /\ LostIDs(p)' \subseteq SeenIDs(p)'
  BY StepFacts
<1>1. /\ Idle /\ UNCHANGED <<exchangeVars, inbox, outbox, takenAway>>
      /\ page'[p] = SendInvalid(page[p])
  BY <1>0 DEF PageOrdersNothing, TInv, PagesAreGood
<1>2. responses' = << >> /\ trades' = << >>
  BY <1>0, <1>1, IdleIs DEF exchangeVars
<1>3. PICK w : /\ IsPending(p, w)
               /\ Sound(page[p], outbox[p], w, SeenIDs(p), LostIDs(p))
               /\ \A o \in Ids : Tracked(p, o) => OrderInStep(p, w, o)
  BY DEF GoesOn, PageInStep
<1>4. w = inbox[p] /\ w \in Seq(Mail)
  BY <1>0, <1>1, <1>3, IdlePending
<1>5. IsPending(p, w)'
  <2> HIDE DEF Mail
  <2> QED
    BY <1>0, <1>1, <1>2, <1>4, PendingNothing
<1>6. /\ Sound(SendInvalid(page[p]), outbox[p], w, SeenIDs(p), LostIDs(p))
      /\ \A x : EntryAt(SendInvalid(page[p]), x) = EntryAt(page[p], x)
  BY <1>0, <1>3, PageFacts, SoundInvalid
<1>7. Sound(page'[p], outbox'[p], w, SeenIDs(p)', LostIDs(p)')
  BY <1>0, <1>1, <1>6 DEF Sound, Known
<1>8. ASSUME NEW o \in Ids', Tracked(p, o)' PROVE OrderInStep(p, w, o)'
  <2>1. UNCHANGED <<placed, qty, book, phase, taker, responses, trades, takenAway>>
    BY <1>1 DEF exchangeVars, bookVars
  <2>2. o \in Ids /\ Tracked(p, o) /\ ListedTimes(p)' = ListedTimes(p)
    BY <1>0, <1>8, <2>1, TrackedStays DEF Ids
  <2>3. StageOf(o)' = StageOf(o)
    BY <2>1, StageStays
  <2> QED
    BY <1>1, <1>3, <1>6, <2>1, <2>2, <2>3 DEF OrderInStep
<1> QED
  BY <1>5, <1>7, <1>8 DEF PageInStep

\* The page enters an order and sends it, or would if it were connected.
LEMMA OrderedInStep ==
  ASSUME NEW p, GoesOn(p), NEW order \in PageMenu,
         PageOrders(p, order) \/ PageOrdersOffline(p, order), InOrder(p), OwnIDs(p)'
  PROVE  PageInStep(p)'
PROOF
<1>0. /\ p \in Pages /\ TInv /\ IInv /\ TInv' /\ TradingNext /\ BotsCount
      /\ LostIDs(p) \subseteq LostIDs(p)' /\ LostIDs(p)' \subseteq SeenIDs(p)'
  BY StepFacts
<1>1. /\ Idle /\ UNCHANGED <<exchangeVars, inbox, botID, takenAway>>
      /\ page'[p] = SendOrder(page[p], order.size) /\ page[p].nextID <= MaxPageOrders
  BY <1>0 DEF PageOrders, PageOrdersOffline, TInv, PagesAreGood
<1>2. responses' = << >> /\ trades' = << >>
  BY <1>0, <1>1, IdleIs DEF exchangeVars
<1>3. /\ HeardAreKnown(p)
      /\ \E w : /\ IsPending(p, w)
                /\ Sound(page[p], outbox[p], w, SeenIDs(p), LostIDs(p))
                /\ \A o \in Ids : Tracked(p, o) => OrderInStep(p, w, o)
  BY DEF GoesOn, PageInStep
<1>4. PICK w : /\ IsPending(p, w)
               /\ Sound(page[p], outbox[p], w, SeenIDs(p), LostIDs(p))
               /\ \A o \in Ids : Tracked(p, o) => OrderInStep(p, w, o)
  BY <1>3
<1>5. w = inbox[p] /\ w \in Seq(Mail)
  BY <1>0, <1>1, <1>4, IdlePending
<1>6. IsPending(p, w)'
  <2> HIDE DEF Mail
  <2> QED
    BY <1>0, <1>1, <1>2, <1>5, PendingNothing
<1>7. /\ UNCHANGED <<placed, qty, book, phase, taker, responses, trades, takenAway>>
      /\ SeenIDs(p)' = SeenIDs(p)
  BY <1>1 DEF exchangeVars, bookVars, SeenIDs, PlacedIDs, BotIDs, Ids
<1>8. PICK next : next = page[p].nextID
  OBVIOUS
<1>9. next \in Int /\ page'[p].nextID = next + 1
  <2>1. next \in Int
    BY <1>0, <1>8, PageFacts DEF GoodPage, GoodRest
  <2>2. order.size \in Int
    BY MenuAssumption, OrderFields
  <2>3. PICK pg, size : pg = page[p] /\ size = order.size
    OBVIOUS
  <2>4. SendOrder(pg, size).nextID = pg.nextID + 1
    BY <1>0, <1>1, <2>2, <2>3, PageFacts, PageSends
  <2> QED
    BY <1>1, <1>8, <2>1, <2>3, <2>4
\* The orders the page heard of came under other IDs.
<1>10. next \notin BotIDs(p)
  <2> SUFFICES ASSUME next \in BotIDs(p) PROVE FALSE
    OBVIOUS
  <2>1. /\ UserOf[p] \in Bots /\ FirstBotID[UserOf[p]] \in Nat /\ FirstBotID[UserOf[p]] <= next
    BY <1>0, BotIDsAreAbove
  <2>2. next + 1 <= FirstBotID[UserOf[p]]
    BY <1>9, <2>1 DEF OwnIDs
  <2> QED
    BY <1>9, <2>1, <2>2
<1>11. ASSUME NEW o \in Ids, Tracked(p, o)' PROVE Tracked(p, o) /\ placed[o].id # next
                                                 /\ ListedTimes(p)' = ListedTimes(p)
  <2>1. Tracked(p, o) /\ ListedTimes(p)' = ListedTimes(p)
    BY <1>0, <1>7, <1>11, TrackedStays DEF Ids
  <2>2. Known(page[p], BotIDs(p), placed[o].id)
    BY <1>3, <2>1 DEF HeardAreKnown, Tracked
  <2>3. next \notin UsedUp(page[p])
    BY <1>8, <1>9 DEF UsedUp
  <2> QED
    BY <1>10, <2>1, <2>2, <2>3 DEF Known
<1>12. next \in SeenIDs(p) => next \in LostIDs(p)'
  <2> SUFFICES ASSUME next \in SeenIDs(p) PROVE next \in LostIDs(p)'
    OBVIOUS
  <2>1. PICK o \in Ids : placed[o].id = next
    BY <1>10 DEF SeenIDs, PlacedIDs
  <2>2. ~Tracked(p, o)'
    BY <1>11, <2>1
  <2> QED
    BY <1>7, <2>1, <2>2 DEF LostIDs, Ids
\* What the server has not read.
<1>13. \A i \in 1..Len(outbox'[p]) : outbox'[p][i].kind = "order" =>
         outbox'[p][i].id \in UsedUp(page[p]) \/ outbox'[p][i].id = next
  <2>1. CASE PageOrdersOffline(p, order)
    <3>1. outbox'[p] = outbox[p]
      BY <2>1 DEF PageOrdersOffline
    <3> QED
      BY <1>4, <3>1 DEF Sound
  <2>2. CASE PageOrders(p, order)
    <3>1. PICK m \in Requests : m.id = next /\ outbox' = [outbox EXCEPT ![p] = Append(@, m)]
      BY <1>0, <1>8, <2>2, RequestOfPage DEF TInv
    <3>2. outbox[p] \in Seq(Requests) /\ outbox \in [Pages -> Seq(Requests)]
      BY <1>0, PageFacts DEF TInv, SessionsAreGood, SessionTypes
    <3> HIDE DEF Requests
    <3>3. outbox'[p] = Append(outbox[p], m)
      BY <1>0, <3>1, <3>2
    <3>4. /\ Len(outbox'[p]) = Len(outbox[p]) + 1 /\ outbox'[p][Len(outbox[p]) + 1] = m
          /\ Len(outbox[p]) \in Nat
          /\ \A i \in 1..Len(outbox[p]) : outbox'[p][i] = outbox[p][i]
      BY <3>2, <3>3, OneMore
    <3>5. ASSUME NEW i \in 1..Len(outbox'[p]), outbox'[p][i].kind = "order"
          PROVE  outbox'[p][i].id \in UsedUp(page[p]) \/ outbox'[p][i].id = next
      <4>1. CASE i = Len(outbox[p]) + 1
        BY <3>1, <3>4, <4>1
      <4>2. CASE i # Len(outbox[p]) + 1
        <5>1. i \in 1..Len(outbox[p])
          BY <3>4, <4>2
        <5> QED
          BY <1>4, <3>4, <3>5, <5>1 DEF Sound
      <4> QED
        BY <4>1, <4>2
    <3> QED
      BY <3>5
  <2> QED
    BY <2>1, <2>2
<1>14. /\ Sound(page'[p], outbox'[p], w, SeenIDs(p)', LostIDs(p)')
       /\ \A x : x # next => EntryAt(page'[p], x) = EntryAt(page[p], x)
  <2>1. order.size \in Int
    BY MenuAssumption, OrderFields
  <2>2. PICK pg, out, out2, ids, lost, lost2, size :
          /\ size \in Int /\ pg = page[p] /\ out = outbox[p] /\ out2 = outbox'[p]
          /\ ids = SeenIDs(p) /\ lost = LostIDs(p) /\ lost2 = LostIDs(p)' /\ size = order.size
    BY <2>1
  <2>3. /\ GoodPage(pg) /\ Sound(pg, out, w, ids, lost)
        /\ pg.nextID <= MaxPageOrders /\ pg.nextID = next
        /\ lost \subseteq lost2 /\ lost2 \subseteq ids
        /\ pg.nextID \in ids => pg.nextID \in lost2
        /\ \A i \in 1..Len(out2) : out2[i].kind = "order" =>
             out2[i].id \in UsedUp(pg) \/ out2[i].id = pg.nextID
    BY <1>0, <1>1, <1>4, <1>7, <1>8, <1>12, <1>13, <2>2, PageFacts
  <2>4. /\ Sound(SendOrder(pg, size), out2, w, ids, lost2)
        /\ \A x : x # pg.nextID => EntryAt(SendOrder(pg, size), x) = EntryAt(pg, x)
    BY <2>2, <2>3, SoundOrdered
  <2> QED
    BY <1>1, <1>7, <2>2, <2>3, <2>4
<1>15. ASSUME NEW o \in Ids', Tracked(p, o)' PROVE OrderInStep(p, w, o)'
  <2>1. o \in Ids
    BY <1>7 DEF Ids
  <2>2. /\ Tracked(p, o) /\ placed[o].id # next /\ ListedTimes(p)' = ListedTimes(p)
    BY <1>11, <1>15, <2>1
  <2>3. StageOf(o)' = StageOf(o)
    BY <1>7, StageStays
  <2>4. EntryAt(page'[p], placed[o].id) = EntryAt(page[p], placed[o].id)
    BY <1>14, <2>2
  <2> QED
    BY <1>4, <1>7, <2>1, <2>2, <2>3, <2>4 DEF OrderInStep
<1> QED
  BY <1>6, <1>14, <1>15 DEF PageInStep

\* Handlers of messages do not mend a page.
LEMMA HandlersBreak ==
  ASSUME NEW pg, DOMAIN pg = PageFields, NEW msg
  PROVE  /\ pg.broken => HandleOrder(pg, msg).broken
         /\ pg.broken => HandleCancel(pg, msg).broken
PROOF
<1>1. ASSUME NEW pg1, DOMAIN pg1 = PageFields, NEW id
      PROVE  UpdateOrdersTable(pg1, id).broken = pg1.broken
  BY <1>1 DEF UpdateOrdersTable, PageFields
<1>2. pg.broken => HandleOrder(pg, msg).broken
  <2>1. CASE msg.symbol \notin pg.quoted
    BY <2>1 DEF HandleOrder, PageFields
  <2>2. CASE msg.symbol \in pg.quoted
    <3>1. PICK entry :
            entry = Heard(IF msg.id \in DOMAIN pg.orders THEN pg.orders[msg.id]
                          ELSE NewEntry(msg.remaining), msg)
      OBVIOUS
    <3>2. PICK pg2 :
            pg2 = [[pg EXCEPT !.money = @ + msg.money] EXCEPT
                     !.orders = Entered(@, msg.id, [entry EXCEPT !.status = StatusOf(msg.action)]),
                     !.paid[msg.symbol] = @ + msg.money,
                     !.position[msg.symbol] = @ + msg.filled]
      OBVIOUS
    <3>3. DOMAIN pg2 = PageFields /\ pg2.broken = pg.broken
      BY <3>2 DEF PageFields
    <3>4. HandleOrder(pg, msg) = UpdateOrdersTable(pg2, msg.id)
      BY <2>2, <3>1, <3>2 DEF HandleOrder
    <3> QED
      BY <1>1, <3>3, <3>4
  <2> QED
    BY <2>1, <2>2
<1>3. pg.broken => HandleCancel(pg, msg).broken
  <2>1. PICK pg2 :
          /\ pg2 = [pg EXCEPT !.orders[msg.id].status = "Canceled",
                              !.orders[msg.id].remaining = 0]
    OBVIOUS
  <2>2. DOMAIN pg2 = PageFields /\ pg2.broken = pg.broken
    BY <2>1 DEF PageFields
  <2> QED
    BY <1>1, <2>1, <2>2 DEF HandleCancel
<1> QED
  BY <1>2, <1>3

\* A page that is in order after it read a message was so before.
LEMMA ReceivedInOrder ==
  ASSUME TInv, NEW p \in Pages, Receive(p), InOrder(p)'
  PROVE  InOrder(p) /\ page'[p].nextID = page[p].nextID
PROOF
<1>1. page'[p] = Handled(page[p], Head(inbox[p])) /\ inbox[p] # << >>
  BY DEF Receive, TInv, PagesAreGood
<1>2. GoodPage(page[p]) /\ Head(inbox[p]) \in Mail
  <2>1. GoodPage(page[p]) /\ inbox[p] \in Seq(Mail)
    BY PageFacts
  <2> HIDE DEF Mail
  <2> QED
    BY <1>1, <2>1, HeadAndTail
<1>3. ~page'[p].broken
  BY DEF InOrder
<1>4. ASSUME Head(inbox[p]).kind \in {"new_user", "quote"} PROVE ~page[p].broken
  BY <1>1, <1>2, <1>3, <1>4
     DEF Handled, HandleNewUser, HandleQuote, GoodPage, GoodRest, PageFields, Mail
<1>5. ASSUME Head(inbox[p]).kind = "order" PROVE ~page[p].broken
  <2>1. ~HandleOrder(page[p], Head(inbox[p]).response).broken
    BY <1>1, <1>3, <1>5 DEF Handled
  <2> QED
    BY <1>2, <2>1, HandlersBreak DEF GoodPage, GoodRest, PageFields
<1>6. ASSUME Head(inbox[p]).kind = "cancel" PROVE ~page[p].broken
  <2>1. ~HandleCancel(page[p], Head(inbox[p]).response).broken
    BY <1>1, <1>3, <1>6 DEF Handled
  <2> QED
    BY <1>2, <2>1, HandlersBreak DEF GoodPage, GoodRest, PageFields
<1>7. page'[p].nextID = page[p].nextID
  BY <1>1, <1>2, PageHandles DEF WellHandled
<1>8. ~page[p].broken
  BY <1>2, <1>4, <1>5, <1>6 DEF Mail
<1> QED
  BY <1>7, <1>8 DEF InOrder, OwnIDs

\* The page handles what waits first.
LEMMA ReceivedInStep ==
  ASSUME NEW p, GoesOn(p), Receive(p), InOrder(p)'
  PROVE  PageInStep(p)'
PROOF
<1>0. /\ p \in Pages /\ TInv /\ IInv /\ TInv' /\ UniqueIDs /\ UniqueIDs' /\ MarketIsOpen /\ TradingNext
      /\ SeenIDs(p) \subseteq SeenIDs(p)'
      /\ LostIDs(p) \subseteq LostIDs(p)' /\ LostIDs(p)' \subseteq SeenIDs(p)'
  BY StepFacts
<1>1. /\ Idle /\ UNCHANGED <<exchangeVars, outbox, takenAway>> /\ inbox[p] # << >>
      /\ page'[p] = Handled(page[p], Head(inbox[p])) /\ inbox'[p] = Tail(inbox[p])
  BY <1>0 DEF Receive, TInv, PagesAreGood, MailIsGood
<1>2. responses' = << >> /\ trades' = << >>
  BY <1>0, <1>1, IdleIs DEF exchangeVars
<1>3. GoodPage(page[p]) /\ inbox[p] \in Seq(Mail) /\ Head(inbox[p]) \in Mail
      /\ Tail(inbox[p]) \in Seq(Mail)
  <2>1. GoodPage(page[p]) /\ inbox[p] \in Seq(Mail)
    BY <1>0, PageFacts
  <2> HIDE DEF Mail
  <2> QED
    BY <1>1, <2>1, HeadAndTail
<1>4. InOrder(p)
  BY <1>0, ReceivedInOrder
<1>5. PICK w : /\ IsPending(p, w)
               /\ Sound(page[p], outbox[p], w, SeenIDs(p), LostIDs(p))
               /\ \A o \in Ids : Tracked(p, o) => OrderInStep(p, w, o)
  BY <1>4 DEF GoesOn, PageInStep
<1>6. w = inbox[p]
  BY <1>0, <1>1, <1>5, IdlePending
<1>7. PICK v : v = Tail(w)
  OBVIOUS
<1>8. IsPending(p, v)'
  <2> HIDE DEF Mail
  <2> QED
    BY <1>0, <1>1, <1>2, <1>3, <1>6, <1>7, PendingNothing
<1>9. /\ Sound(page'[p], outbox[p], v, SeenIDs(p), LostIDs(p))
      /\ \A x : x \notin LostIDs(p) =>
           EntryMoves(EntryAt(page[p], x), EntryAt(page'[p], x), Head(w), x)
      /\ \A x : ActionIs(Head(w), x)
  <2>1. PICK pg, out, ids, lost :
          /\ pg = page[p] /\ out = outbox[p] /\ ids = SeenIDs(p) /\ lost = LostIDs(p)
    OBVIOUS
  <2>2. /\ GoodPage(pg) /\ w \in Seq(Mail) /\ w # << >> /\ Sound(pg, out, w, ids, lost)
        /\ ~Handled(pg, Head(w)).broken
    BY <1>1, <1>3, <1>5, <1>6, <2>1 DEF InOrder
  <2> HIDE DEF Mail
  <2>3. /\ Sound(Handled(pg, Head(w)), out, Tail(w), ids, lost)
        /\ \A x : x \notin lost =>
             EntryMoves(EntryAt(pg, x), EntryAt(Handled(pg, Head(w)), x), Head(w), x)
        /\ \A x : ActionIs(Head(w), x)
    BY <2>2, SoundHandled
  <2> QED
    BY <1>1, <1>6, <1>7, <2>1, <2>3
<1>10. Sound(page'[p], outbox'[p], v, SeenIDs(p)', LostIDs(p)')
  BY <1>0, <1>1, <1>9 DEF Sound, Known
<1>11. UNCHANGED <<placed, qty, book, phase, taker, responses, trades, takenAway>>
  BY <1>1 DEF exchangeVars, bookVars
<1>12. ASSUME NEW o \in Ids', Tracked(p, o)' PROVE OrderInStep(p, v, o)'
  <2>1. o \in Ids /\ Tracked(p, o) /\ ListedTimes(p)' = ListedTimes(p)
    BY <1>0, <1>11, <1>12, TrackedStays DEF Ids
  <2>2. StageOf(o)' = StageOf(o) /\ StageOf(o) \in {"rests", "over"}
    BY <1>0, <1>1, <1>11, <2>1, StageStays, IdleIs
  <2>3. PICK x, k, stage, size, left :
          /\ x = placed[o].id /\ k = ListedTimes(p) /\ stage = StageOf(o)
          /\ size = placed[o].size /\ left = qty[o]
    OBVIOUS
  <2>4. PICK e, e2 : e = EntryAt(page[p], x) /\ e2 = EntryAt(page'[p], x)
    OBVIOUS
  <2>5. /\ e \in Entry /\ k \in Nat /\ size \in Int /\ left \in Int
        /\ stage \in {"rests", "over"}
    BY <1>0, <2>1, <2>2, <2>3, <2>4, PageFacts
  <2>6. e2 \in Entry
    <3>1. GoodPage(page'[p])
      BY <1>0, <1>1, <1>3, PageHandles DEF WellHandled
    <3>2. PICK pg : pg = page'[p]
      OBVIOUS
    <3>3. EntryAt(pg, x) \in Entry
      BY <3>1, <3>2, EntryAtType
    <3> QED
      BY <2>4, <3>2, <3>3
  <2>7. InStep(e, w, x, k, stage, size, left)
    BY <1>5, <2>1, <2>3, <2>4 DEF OrderInStep
  <2>8. x \notin LostIDs(p)
    BY <1>0, <2>1, <2>3, NotLost
  <2>9. EntryMoves(e, e2, Head(w), x) /\ ActionIs(Head(w), x)
    BY <1>9, <2>4, <2>8
  <2>10. InStep(e2, v, x, k, stage, size, left)
    <3> HIDE DEF Mail, Entry
    <3> QED
      BY <1>1, <1>3, <1>6, <1>7, <2>5, <2>6, <2>7, <2>9, HandledInStep
  <2> QED
    BY <1>11, <2>1, <2>2, <2>3, <2>4, <2>10 DEF OrderInStep
<1> QED
  BY <1>8, <1>10, <1>12 DEF PageInStep

\* The page is left alone, and the server reads at most what it sent.
Untouched(p) ==
  /\ page'[p] = page[p] /\ inbox'[p] = inbox[p]
  /\ \A i \in 1..Len(outbox'[p]) : outbox'[p][i].kind = "order" =>
       \E j \in 1..Len(outbox[p]) : outbox[p][j] = outbox'[p][i]

\* An order comes in.  One of the user came under an ID that the page used up, or
\* under the next of the bot.
LEMMA AcceptedInStep ==
  ASSUME NEW p, GoesOn(p), Idle, InOrder(p), Untouched(p),
         NEW user \in Users, NEW order \in Orders, NEW symbol \in listed, NEW id \in OrderIDs,
         AcceptOrder(user, order, symbol, id), takenAway' = takenAway,
         user = UserOf[p] =>
           \/ id \in UsedUp(page[p])
           \/ UserOf[p] \in Bots /\ id = botID[UserOf[p]]
  PROVE  PageInStep(p)'
PROOF
<1>0. /\ p \in Pages /\ TInv /\ IInv /\ TInv' /\ UniqueIDs' /\ MarketIsOpen /\ TradingNext
      /\ SeenIDs(p) \subseteq SeenIDs(p)'
      /\ LostIDs(p) \subseteq LostIDs(p)' /\ LostIDs(p)' \subseteq SeenIDs(p)'
  BY StepFacts
<1>1. PICK w : /\ IsPending(p, w)
               /\ Sound(page[p], outbox[p], w, SeenIDs(p), LostIDs(p))
               /\ \A o \in Ids : Tracked(p, o) => OrderInStep(p, w, o)
  BY DEF GoesOn, PageInStep
<1>2. w = inbox[p] /\ w \in Seq(Mail)
  BY <1>0, <1>1, IdlePending
<1>3. Accepts(user, order, symbol, id) /\ user # NoUser
  <2>1. user \in Senders /\ user # NoUser /\ TypeOK
    BY <1>0, SendersAreUsers, UsersAssumption DEF TInv
  <2> QED
    BY <2>1, Accepted
<1>4. /\ responses' = << >> /\ trades' = << >> /\ phase' = "matching" /\ taker' = Len(placed) + 1
      /\ book' = book
  BY <1>0, <1>3, IdleIs DEF AcceptOrder
<1>5. IsPending(p, w)'
  <2> HIDE DEF Mail
  <2> QED
    BY <1>0, <1>2, <1>4, PendingNothing DEF Untouched
<1>6. Sound(page'[p], outbox'[p], w, SeenIDs(p)', LostIDs(p)')
  BY <1>0, <1>1 DEF Sound, Known, Untouched
<1>7. ASSUME NEW o \in Ids', Tracked(p, o)', o \in Ids PROVE OrderInStep(p, w, o)'
  <2>1. Len(placed) \in Nat /\ o # Len(placed) + 1
    BY <1>0, <1>7, PageFacts DEF Ids
  <2>2. Tracked(p, o) /\ ListedTimes(p)' = ListedTimes(p)
    BY <1>0, <1>7, <2>1, TrackedStays
  <2>3. placed'[o] = placed[o] /\ qty'[o] = qty[o]
    BY <1>3, <1>7 DEF Accepts
  <2>4. StageOf(o) = IF RestsForItsUser(o) THEN "rests" ELSE "over"
    BY <1>0, <1>7, IdleIs
  <2>5. StageOf(o)' = StageOf(o)
    BY <1>4, <2>1, <2>3, <2>4 DEF StageOf, Fresh, WillRest, RestsForItsUser
  <2> QED
    BY <1>1, <1>7, <2>2, <2>3, <2>5 DEF OrderInStep, Untouched
<1>8. ASSUME NEW o \in Ids', Tracked(p, o)', o \notin Ids PROVE OrderInStep(p, w, o)'
  <2>1. o = Len(placed) + 1
    BY <1>3, <1>8 DEF Accepts
  <2>2. placed'[o] = NewOrder(id, user, symbol, order) /\ qty'[o] = order.size
        /\ placed'[o].id = id /\ placed'[o].size = order.size
    <3>1. placed'[o] = NewOrder(id, user, symbol, order)
      BY <1>3, <2>1 DEF Accepts
    <3>2. qty' = Append(qty, order.size) /\ qty \in Seq(Int) /\ Len(qty) = Len(placed)
      BY <1>0 DEF AcceptOrder, TInv, TypeOK
    <3>3. qty'[o] = order.size
      BY <2>1, <3>2
    <3> QED
      BY <3>1, <3>3 DEF NewOrder
  <2>3. StageOf(o)' = "fresh"
    BY <1>4, <2>1 DEF StageOf, Fresh
  <2>4. id \notin SeenIDs(p)
    <3>1. id \notin PlacedIDs
      <4> SUFFICES ASSUME NEW i \in Ids, placed[i].id = id PROVE FALSE
        BY DEF PlacedIDs
      <4>1. i \in Ids' /\ placed'[i].id = placed'[o].id
        BY <1>3, <2>2 DEF Accepts
      <4>2. i = o
        BY <1>0, <1>8, <4>1 DEF UniqueIDs
      <4> QED
        BY <1>8, <4>2
    <3>2. id \notin BotIDs(p)
      <4> SUFFICES ASSUME id \in BotIDs(p) PROVE FALSE
        OBVIOUS
      <4>1. UserOf[p] \in Bots /\ id \in Nat /\ FirstBotID[UserOf[p]] <= id
            /\ id < botID[UserOf[p]]
        BY <1>0, StepFacts, BotIDsAreAbove
      <4>2. placed'[o].user = UserOf[p]
        BY <1>8 DEF Tracked, HeardOf
      <4>3. user = UserOf[p]
        BY <2>2, <4>2 DEF NewOrder
      <4>4. id \notin UsedUp(page[p])
        <5>1. page[p].nextID <= FirstBotID[UserOf[p]]
          BY <4>1 DEF InOrder, OwnIDs
        <5>2. page[p].nextID \in Nat /\ FirstBotID[UserOf[p]] \in Nat
          BY <1>0, <4>1, PageFacts, FirstBotIDAssumption DEF GoodPage, GoodRest
        <5> QED
          BY <4>1, <5>1, <5>2 DEF UsedUp
      <4>5. id # botID[UserOf[p]]
        <5>1. botID[UserOf[p]] \in Nat
          BY <1>0, StepFacts, UserOfAssumption DEF BotsCount
        <5> QED
          BY <4>1, <5>1
      <4> QED
        BY <4>3, <4>4, <4>5
    <3> QED
      BY <3>1, <3>2 DEF SeenIDs
  <2>5. PICK e : e = EntryAt(page[p], id)
    OBVIOUS
  <2>6. PICK k : k = ListedTimes(p)'
    OBVIOUS
  <2>7. e \in Entry /\ k \in Nat /\ order.size \in Int
    <3>1. e \in Entry
      BY <1>0, <2>5, PageFacts
    <3>2. order.size \in Int
      BY OrderFields
    <3>3. k \in Nat
      <4>1. Registered(p)'
        BY <1>8 DEF Tracked
      <4>2. SessionsAreGood /\ ~ServeNewUser(p)
        BY <1>0, <1>4 DEF TInv, ServeNewUser, exchangeVars, Idle
      <4>3. ListedTimes(p)' = ListedTimes(p)
        BY <1>0, <4>1, <4>2, RegisteredStays
      <4> QED
        BY <1>0, <2>6, <4>3, PageFacts
    <3> QED
      BY <3>1, <3>2, <3>3
  <2>8. Unfilled(e, w, id)
    BY <1>1, <2>4, <2>5 DEF Sound
  <2>9. \A i \in 1..Len(w) : Says(w[i], id, Failed) => FillOf(w[i], id) = 0
    BY <1>1 DEF Sound, ActionIs, Says, FillOf
  <2>10. InStep(e, w, id, k, "fresh", order.size, order.size)
    <3> HIDE DEF Mail, Entry
    <3> QED
      BY <1>2, <2>7, <2>8, <2>9, ComesInStep
  <2> QED
    BY <2>2, <2>3, <2>5, <2>6, <2>10 DEF OrderInStep, Untouched
<1> QED
  BY <1>5, <1>6, <1>7, <1>8 DEF PageInStep

\* The kinds of messages.
LEMMA PackedIs ==
  ASSUME NEW r
  PROVE  /\ "success" \notin DOMAIN r =>
              \A x : (Tells(Packed(r), x) <=> r.id = x) /\ ~Ends(Packed(r), x)
         /\ "success" \in DOMAIN r =>
              \A x : ~Tells(Packed(r), x) /\ (Ends(Packed(r), x) <=> r.id = x /\ r.success)
         /\ Packed(r).response = r
PROOF
  BY DEF Packed, Tells, Ends

\* A call gives one answer.
LEMMA PendingAnswer ==
  ASSUME NEW p \in Pages, NEW queue \in Seq(Mail), inbox'[p] = queue, NEW r \in Responses,
         responses' = <<r>>, trades' = << >>, NEW k \in Nat, ListedTimes(p)' = k
  PROVE  IsPending(p, Grown(queue, Times(r, UserOf[p], k), Packed(r)))'
PROOF
<1>1. PICK list : list = placed'
  OBVIOUS
<1>2. PICK w, u : w = Grown(queue, Times(r, u, k), Packed(r)) /\ u = UserOf[p]
  OBVIOUS
<1>3. << >> \in Seq(Responses) /\ Joins(queue, queue, << >>, u, k)
  <2> HIDE DEF Mail, Responses
  <2> QED
    BY JoinsNothing
<1>4. Joins(w, queue, Append(<< >>, r), u, k)
  <2> HIDE DEF Mail, Responses
  <2> QED
    BY <1>2, <1>3, JoinsMore
<1>5. IsFeed(Append(<< >>, r), list, <<r>>, << >>)
  <2> HIDE DEF Responses
  <2> QED
    BY FeedAnswer
<1> QED
  BY <1>1, <1>2, <1>4, <1>5 DEF IsPending

\* How often a page is told after a step is a number.
LEMMA TimesNext ==
  ASSUME SessionsAreGood', NEW p \in Pages
  PROVE  ListedTimes(p)' \in Nat
PROOF
<1>1. PICK list, s : list = sessionIDs'[UserOf[p]] /\ s = session'[p]
  OBVIOUS
<1>2. list \in Seq(1..opened')
  BY <1>1, UserOfAssumption DEF SessionsAreGood, SessionTypes
<1>3. PICK S : S = 1..opened'
  OBVIOUS
<1>4. Cardinality(PlacesIn(list, s)) \in Nat
  BY <1>2, <1>3, PlacesAreFinite
<1>5. ListedTimes(p)' = Cardinality(PlacesIn(list, s))
  BY <1>1 DEF ListedTimes, PlacesIn
<1> QED
  BY <1>4, <1>5

\* Between two calls, one gives an answer at once.
AnsweredOnce(p, r) ==
  /\ Idle /\ InOrder(p) /\ Untouched(p)
  /\ responses' = <<r>> /\ trades' = << >> /\ taker' = NoOrder /\ UNCHANGED <<placed, qty>>
  /\ \A x : ActionIs(Packed(r), x)
  /\ \A x : Concerns(Packed(r), x) /\ r.user = UserOf[p] =>
       /\ Known(page[p], SeenIDs(p)', x)
       /\ x \in SeenIDs(p)' \/ Says(Packed(r), x, Failed)

\* The answer comes behind what waits for the page, in all its copies.
LEMMA OneAnswer ==
  ASSUME NEW p, GoesOn(p), NEW r, AnsweredOnce(p, r)
  PROVE  \E w, k, w2 :
           /\ w \in Seq(Mail) /\ k \in Nat /\ k = ListedTimes(p)' /\ Packed(r) \in Mail
           /\ Times(r, UserOf[p], k) \in Nat
           /\ w2 = Grown(w, Times(r, UserOf[p], k), Packed(r))
           /\ IsPending(p, w2)'
           /\ Sound(page'[p], outbox'[p], w2, SeenIDs(p)', LostIDs(p)')
           /\ \A o \in Ids : Tracked(p, o) => OrderInStep(p, w, o)
PROOF
<1>0. /\ p \in Pages /\ TInv /\ IInv /\ TInv' /\ UniqueIDs' /\ MarketIsOpen /\ TradingNext
      /\ SeenIDs(p) \subseteq SeenIDs(p)'
      /\ LostIDs(p) \subseteq LostIDs(p)' /\ LostIDs(p)' \subseteq SeenIDs(p)'
  BY StepFacts
<1>1. PICK w : /\ IsPending(p, w)
               /\ Sound(page[p], outbox[p], w, SeenIDs(p), LostIDs(p))
               /\ \A o \in Ids : Tracked(p, o) => OrderInStep(p, w, o)
  BY DEF GoesOn, PageInStep, AnsweredOnce
<1>2. w = inbox[p] /\ w \in Seq(Mail)
  BY <1>0, <1>1, IdlePending DEF AnsweredOnce
<1>3. PICK k : k = ListedTimes(p)'
  OBVIOUS
<1>4. k \in Nat
  BY <1>0, <1>3, TimesNext DEF TInv
<1>5. r \in Responses
  <2>1. Responses' = Responses
    BY DEF Responses, Reports, CancelMessages, OrderMessage, OrderIDs
  <2>2. responses' \in Seq(Responses)
    BY <1>0, <2>1 DEF TInv, FillsAreGood
  <2> HIDE DEF Responses
  <2>3. <<r>> \in Seq(Responses)
    BY <2>2 DEF AnsweredOnce
  <2>4. <<r>>[1] = r /\ 1 \in 1..Len(<<r>>)
    OBVIOUS
  <2> QED
    BY <2>3, <2>4, ElementsInSet
<1>6. PICK n, m, w2 : n = Times(r, UserOf[p], k) /\ m = Packed(r) /\ w2 = Grown(w, n, m)
  OBVIOUS
<1>7. n \in Nat /\ m \in Mail
  BY <1>4, <1>5, <1>6, PackedType DEF Times
<1>8. IsPending(p, w2)'
  <2> HIDE DEF Mail, Responses
  <2> QED
    BY <1>0, <1>2, <1>3, <1>4, <1>5, <1>6, PendingAnswer DEF AnsweredOnce, Untouched
<1>9. PICK ids, lost : ids = SeenIDs(p)' /\ lost = LostIDs(p)'
  OBVIOUS
<1>10. Sound(page[p], outbox[p], w, ids, lost)
  <2>1. \A i \in 1..Len(outbox[p]) : outbox[p][i].kind = "order" =>
          outbox[p][i].id \in UsedUp(page[p])
    BY <1>1 DEF Sound
  <2> QED
    BY <1>0, <1>1, <1>9, <2>1, SoundMore
<1>11. Sound(page[p], outbox[p], w2, ids, lost)
  <2>1. CASE r.user = UserOf[p]
    <3>1. \A x : Concerns(m, x) =>
            Known(page[p], ids, x) /\ (x \in ids \/ Says(m, x, Failed))
      BY <1>6, <1>9, <2>1 DEF AnsweredOnce
    <3>2. \A x : ActionIs(m, x)
      BY <1>6 DEF AnsweredOnce
    <3> HIDE DEF Mail
    <3> QED
      BY <1>2, <1>6, <1>7, <1>10, <3>1, <3>2, SoundGrows
  <2>2. CASE r.user # UserOf[p]
    <3>1. n = 0
      BY <1>6, <2>2 DEF Times
    <3>2. w2 = w
      <4> HIDE DEF Mail
      <4> QED
        BY <1>2, <1>6, <1>7, <3>1, GrownIs
    <3> QED
      BY <1>10, <3>2
  <2> QED
    BY <2>1, <2>2
<1>12. Sound(page'[p], outbox'[p], w2, SeenIDs(p)', LostIDs(p)')
  BY <1>9, <1>11 DEF Sound, AnsweredOnce, Untouched
<1> HIDE DEF Mail
<1> QED
  BY <1>1, <1>2, <1>3, <1>4, <1>6, <1>7, <1>8, <1>12

\* An order is refused.
LEMMA RejectedInStep ==
  ASSUME NEW p, GoesOn(p), Idle, InOrder(p), Untouched(p),
         NEW user \in Users, NEW order \in Orders, NEW symbol \in Symbols \ listed,
         NEW id \in OrderIDs, RejectOrder(user, order, symbol, id),
         user = UserOf[p] => id \in UsedUp(page[p]) \/ id \in SeenIDs(p)'
  PROVE  PageInStep(p)'
PROOF
<1>0. /\ p \in Pages /\ TInv /\ IInv /\ TInv' /\ UniqueIDs' /\ MarketIsOpen /\ TradingNext
  BY StepFacts
<1>1. PICK r : r = FailureMessage(NewOrder(id, user, symbol, order))
  OBVIOUS
<1>2. /\ r.user = user /\ r.id = id /\ r.action = Failed /\ r.filled = 0
      /\ "success" \notin DOMAIN r
  BY <1>1 DEF FailureMessage, NewOrder
<1>3. /\ responses' = <<r>> /\ trades' = << >> /\ taker' = NoOrder /\ UNCHANGED <<placed, qty>>
  BY <1>0, <1>1, IdleIs DEF RejectOrder, bookVars
<1>4. AnsweredOnce(p, r)
  <2>1. PICK m : m = Packed(r)
    OBVIOUS
  <2>2. /\ m.response = r
        /\ \A x : (Tells(m, x) <=> r.id = x) /\ ~Ends(m, x)
    BY <1>2, <2>1, PackedIs
  <2>3. \A x : ActionIs(m, x)
    BY <1>2, <2>2 DEF ActionIs
  <2>4. \A x : Concerns(m, x) /\ r.user = UserOf[p] =>
          Known(page[p], SeenIDs(p)', x) /\ (x \in SeenIDs(p)' \/ Says(m, x, Failed))
    BY <1>2, <2>2 DEF Concerns, Known, Says
  <2> QED
    BY <1>3, <2>1, <2>3, <2>4 DEF AnsweredOnce
<1>5. PICK w2 : /\ IsPending(p, w2)'
                /\ Sound(page'[p], outbox'[p], w2, SeenIDs(p)', LostIDs(p)')
  BY <1>4, OneAnswer
<1>6. ASSUME NEW o \in Ids', Tracked(p, o)' PROVE FALSE
  <2>1. Ids' = Ids /\ o \in Ids
    BY <1>3 DEF Ids
  <2>2. o > since' /\ since' = since
    BY <1>0, <1>6, <2>1, TrackedStays
  <2>3. Len(placed) > since
    <3>1. Len(placed) \in Nat /\ since \in Nat
      BY <1>0 DEF TInv, TypeOK
    <3> QED
      BY <2>1, <2>2, <3>1 DEF Ids
  <2> QED
    BY <1>0, <2>3 DEF MarketIsOpen
<1> QED
  BY <1>5, <1>6 DEF PageInStep

\* An order is cancelled, or there is none to cancel.  It may be another user's.
LEMMA CancelledInStep ==
  ASSUME NEW p, GoesOn(p), Idle, InOrder(p), Untouched(p),
         NEW user \in Users, NEW id \in OrderIDs, CancelOrder(user, id),
         takenAway' = takenAway \cup TakenFrom({o \in Ids : placed[o].user # user})
  PROVE  PageInStep(p)'
PROOF
<1>0. /\ p \in Pages /\ TInv /\ IInv /\ TInv' /\ UniqueIDs' /\ MarketIsOpen /\ TradingNext
      /\ SeenIDs(p) \subseteq SeenIDs(p)'
  BY StepFacts
<1>1. PICK hit \in BOOLEAN : hit <=> id \in DOMAIN orders /\ orders[id] \in book[placed[orders[id]].symbol]
  OBVIOUS
<1>2. id \in DOMAIN orders => orders[id] \in Ids /\ placed[orders[id]].id = id
  BY <1>0, IndexFacts
<1>3. book \in [Symbols -> SUBSET Ids] /\ \A o \in Ids : placed[o].symbol \in Symbols
  BY <1>0, ObjectFields DEF TInv, TypeOK
<1>4. PICK r : r = CancelMessage(user, id, hit)
  OBVIOUS
<1>5. /\ responses' = <<r>> /\ trades' = << >> /\ taker' = NoOrder /\ phase' = "idle"
      /\ UNCHANGED <<placed, qty>> /\ Ids' = Ids
  <2>1. CancelMessage(user, id, orders[id] \in book[placed[orders[id]].symbol]) =
          CancelMessage(user, id, hit) \/ id \notin DOMAIN orders
    BY <1>1 DEF CancelMessage
  <2>2. id \notin DOMAIN orders => CancelMessage(user, id, FALSE) = CancelMessage(user, id, hit)
    BY <1>1 DEF CancelMessage
  <2> QED
    BY <1>0, <1>4, <2>1, <2>2, IdleIs DEF CancelOrder, Ids
\* What is taken out of its book.
<1>6. ASSUME NEW o \in Ids
      PROVE  o \in book'[placed[o].symbol] <=>
               o \in book[placed[o].symbol] /\ ~(hit /\ placed[o].id = id)
  <2>1. CASE id \notin DOMAIN orders
    BY <1>1, <2>1 DEF CancelOrder
  <2>2. CASE id \in DOMAIN orders
    <3>1. PICK c : c = orders[id]
      OBVIOUS
    <3>2. c \in Ids /\ placed[c].id = id /\ placed[c].symbol \in Symbols
      BY <1>2, <1>3, <2>2, <3>1
    <3>3. placed[o].id = id <=> o = c
      BY <1>0, <1>6, <3>2, UniqueFacts
    <3>4. book' = [book EXCEPT ![placed[c].symbol] = @ \ {c}]
      BY <2>2, <3>1 DEF CancelOrder, Withdrawn
    <3>5. hit <=> c \in book[placed[c].symbol]
      BY <1>1, <2>2, <3>1
    <3>6. placed[o].symbol \in Symbols
      BY <1>3, <1>6
    <3> QED
      BY <1>3, <3>2, <3>3, <3>4, <3>5, <3>6
  <2> QED
    BY <2>1, <2>2
\* Who is told so.
<1>7. ASSUME NEW o \in Ids
      PROVE  RestsForItsUser(o)' <=>
               RestsForItsUser(o) /\ ~(hit /\ placed[o].id = id /\ placed[o].user = user)
  <2>1. o \in TakenFrom({i \in Ids : placed[i].user # user}) <=>
          placed[o].user # user /\ o \in book[placed[o].symbol]
            /\ o \notin book'[placed[o].symbol]
    BY <1>7 DEF TakenFrom
  <2>2. hit /\ placed[o].id = id => o \in book[placed[o].symbol]
    <3> SUFFICES ASSUME hit, placed[o].id = id PROVE o \in book[placed[o].symbol]
      OBVIOUS
    <3>1. id \in DOMAIN orders /\ orders[id] \in book[placed[orders[id]].symbol]
      BY <1>1
    <3>2. orders[id] = o
      BY <1>0, <1>2, <1>7, <3>1, UniqueFacts
    <3> QED
      BY <3>1, <3>2
  <2>3. o \in takenAway => o \notin book[placed[o].symbol]
    BY StepFacts DEF TakenIsGone
  <2>4. placed'[o] = placed[o]
    BY <1>5
  <2> QED
    BY <1>6, <1>7, <2>1, <2>2, <2>3, <2>4 DEF RestsForItsUser
<1>8. /\ r.user = user /\ r.id = id /\ r.success = hit /\ "success" \in DOMAIN r
  BY <1>4 DEF CancelMessage
<1>9. PICK m : m = Packed(r)
  OBVIOUS
<1>10. \A x : ~Tells(m, x) /\ (Ends(m, x) <=> id = x /\ hit)
  BY <1>8, <1>9, PackedIs
<1>11. AnsweredOnce(p, r)
  <2>1. \A x : ActionIs(m, x)
    BY <1>10 DEF ActionIs
  <2>2. hit => id \in SeenIDs(p)
    BY <1>1, <1>2 DEF SeenIDs, PlacedIDs
  <2>3. \A x : Concerns(m, x) /\ r.user = UserOf[p] =>
          Known(page[p], SeenIDs(p)', x) /\ (x \in SeenIDs(p)' \/ Says(m, x, Failed))
    BY <1>0, <1>10, <2>2 DEF Concerns, Known
  <2> QED
    BY <1>5, <1>9, <2>1, <2>3 DEF AnsweredOnce
<1>12. PICK w, k, w2 :
         /\ w \in Seq(Mail) /\ k \in Nat /\ k = ListedTimes(p)' /\ m \in Mail
         /\ Times(r, UserOf[p], k) \in Nat
         /\ w2 = Grown(w, Times(r, UserOf[p], k), m)
         /\ IsPending(p, w2)'
         /\ Sound(page'[p], outbox'[p], w2, SeenIDs(p)', LostIDs(p)')
         /\ \A o \in Ids : Tracked(p, o) => OrderInStep(p, w, o)
  <2> HIDE DEF Mail
  <2> QED
    BY <1>9, <1>11, OneAnswer
<1>13. ASSUME NEW o \in Ids', Tracked(p, o)' PROVE OrderInStep(p, w2, o)'
  <2>1. o \in Ids
    BY <1>5, <1>13
  <2>2. Tracked(p, o) /\ ListedTimes(p)' = ListedTimes(p)
    BY <1>0, <1>5, <1>13, <2>1, TrackedStays DEF Ids
  <2>3. placed[o].user = UserOf[p] /\ Registered(p)
    BY <2>2 DEF Tracked, HeardOf
  <2>4. StageOf(o) = IF RestsForItsUser(o) THEN "rests" ELSE "over"
    BY <1>0, <2>1, IdleIs
  <2>5. StageOf(o)' = IF RestsForItsUser(o)' THEN "rests" ELSE "over"
    <3>1. o # NoOrder
      BY <2>1 DEF Ids, NoOrder
    <3> QED
      BY <1>5, <3>1 DEF StageOf, Fresh, WillRest
  <2>6. PICK x, stage, stage2, size, left, e, n :
          /\ x = placed[o].id /\ stage = StageOf(o) /\ stage2 = StageOf(o)'
          /\ size = placed[o].size /\ left = qty[o] /\ e = EntryAt(page[p], x)
          /\ n = Times(r, UserOf[p], k)
    OBVIOUS
  <2>7. e \in Entry /\ size \in Int /\ left \in Int /\ n \in Nat
    BY <1>0, <1>12, <2>1, <2>6, PageFacts
  <2>8. InStep(e, w, x, k, stage, size, left)
    BY <1>12, <2>1, <2>2, <2>6 DEF OrderInStep
  <2>9. OrderInStep(p, w2, o)' <=> InStep(e, w2, x, k, stage2, size, left)
    BY <1>5, <1>12, <2>6, <1>11 DEF OrderInStep, AnsweredOnce, Untouched
  <2>10. CASE ~(hit /\ x = id)
    <3>1. ~Concerns(m, x)
      BY <1>10, <2>10 DEF Concerns
    <3>2. stage2 = stage
      BY <1>7, <2>1, <2>4, <2>5, <2>6, <2>10
    <3>3. InStep(e, Grown(w, n, m), x, k, stage, size, left)
      <4> HIDE DEF Mail, Entry
      <4> QED
        BY <1>12, <2>7, <2>8, <3>1, OthersTold
    <3> QED
      BY <1>12, <2>6, <2>9, <3>2, <3>3
  <2>11. CASE hit /\ x = id /\ user = UserOf[p]
    <3>1. stage = "rests" /\ stage2 = "over"
      <4>1. o \in book[placed[o].symbol]
        <5>1. id \in DOMAIN orders /\ orders[id] \in book[placed[orders[id]].symbol]
          BY <1>1, <2>11
        <5>2. orders[id] = o
          BY <1>0, <1>2, <2>1, <2>6, <2>11, <5>1, UniqueFacts
        <5> QED
          BY <5>1, <5>2
      <4> QED
        BY <1>7, <2>1, <2>3, <2>4, <2>5, <2>6, <2>11, <4>1 DEF RestsForItsUser
    <3>2. n = k /\ k \in Nat \ {0}
      <4>1. ListedTimes(p) \in Nat \ {0}
        BY <1>0, <2>3, ListedSome, PageFacts
      <4> QED
        BY <1>8, <1>12, <2>2, <2>6, <2>11, <4>1 DEF Times
    <3>3. Ends(m, x)
      BY <1>10, <2>11
    <3>4. InStep(e, Grown(w, k, m), x, k, "over", size, left)
      <4> HIDE DEF Mail, Entry
      <4> QED
        BY <1>12, <2>7, <2>8, <3>1, <3>2, <3>3, EndTold
    <3> QED
      BY <1>12, <2>6, <2>9, <3>1, <3>2, <3>4
\* Of another user's cancel the page hears nothing, and shows what it showed.
  <2>12. CASE hit /\ x = id /\ user # UserOf[p]
    <3>1. n = 0
      BY <1>8, <2>6, <2>12 DEF Times
    <3>2. w2 = w
      <4> HIDE DEF Mail
      <4> QED
        BY <1>12, <2>6, <3>1, GrownIs
    <3>3. stage2 = stage
      BY <1>7, <2>1, <2>3, <2>4, <2>5, <2>6, <2>12
    <3> QED
      BY <2>8, <2>9, <3>2, <3>3
  <2> QED
    BY <2>10, <2>11, <2>12
<1> QED
  BY <1>12, <1>13 DEF PageInStep

\* placeOrder goes on: the page is left alone.
LEMMA CallKeeps ==
  ASSUME NEW p, GoesOn(p), ExchangeStep, InOrder(p)
  PROVE  /\ UNCHANGED <<placed, takenAway>> /\ Ids' = Ids /\ ListedTimes(p)' = ListedTimes(p)
         /\ page' = page /\ inbox' = inbox /\ outbox' = outbox
         /\ \A o \in Ids : Tracked(p, o)' =>
              /\ Tracked(p, o) /\ ListedTimes(p) \in Nat \ {0}
              /\ placed[o].user = UserOf[p] /\ placed[o].type = Limit
         /\ \A w : Sound(page[p], outbox[p], w, SeenIDs(p), LostIDs(p)) =>
              Sound(page'[p], outbox'[p], w, SeenIDs(p)', LostIDs(p)')
         /\ \E feed, w : /\ IsFeed(feed, placed, responses, trades)
                         /\ Joins(w, inbox[p], feed, UserOf[p], ListedTimes(p))
                         /\ w \in Seq(Mail)
                         /\ Sound(page[p], outbox[p], w, SeenIDs(p), LostIDs(p))
                         /\ \A o \in Ids : Tracked(p, o) => OrderInStep(p, w, o)
PROOF
<1>0. /\ p \in Pages /\ TInv /\ IInv /\ TInv' /\ UniqueIDs' /\ MarketIsOpen /\ TradingNext
      /\ SeenIDs(p) \subseteq SeenIDs(p)'
      /\ LostIDs(p) \subseteq LostIDs(p)' /\ LostIDs(p)' \subseteq SeenIDs(p)'
  BY StepFacts
<1>1. UNCHANGED <<placed, takenAway>> /\ page' = page /\ inbox' = inbox /\ outbox' = outbox
  BY DEF ExchangeStep, CallStep, Match, FinishMatching, Settle, SettleThrows, EndPlaceOrder,
     bookVars, webVars
<1>2. Ids' = Ids
  BY <1>1 DEF Ids
<1>3. ListedTimes(p)' = ListedTimes(p)
  BY DEF ExchangeStep, clientVars, ListedTimes, PlacesIn
<1>4. ASSUME NEW o \in Ids, Tracked(p, o)'
      PROVE  /\ Tracked(p, o) /\ ListedTimes(p) \in Nat \ {0}
             /\ placed[o].user = UserOf[p] /\ placed[o].type = Limit
  <2>1. Tracked(p, o)
    BY <1>0, <1>2, <1>4, TrackedStays
  <2>2. ListedTimes(p) \in Nat \ {0}
    BY <1>0, <2>1, ListedSome, PageFacts DEF Tracked
  <2> QED
    BY <2>1, <2>2 DEF Tracked, HeardOf
<1>5. \A w : Sound(page[p], outbox[p], w, SeenIDs(p), LostIDs(p)) =>
        Sound(page'[p], outbox'[p], w, SeenIDs(p)', LostIDs(p)')
  BY <1>0, <1>1 DEF Sound, Known
<1>6. PICK w : /\ IsPending(p, w)
               /\ Sound(page[p], outbox[p], w, SeenIDs(p), LostIDs(p))
               /\ \A o \in Ids : Tracked(p, o) => OrderInStep(p, w, o)
  BY DEF GoesOn, PageInStep
<1>7. PICK feed : /\ IsFeed(feed, placed, responses, trades)
                  /\ Joins(w, inbox[p], feed, UserOf[p], ListedTimes(p))
  BY <1>6 DEF IsPending
<1>8. w \in Seq(Mail)
  <2>1. feed \in Seq(Responses) /\ inbox[p] \in Seq(Mail) /\ ListedTimes(p) \in Nat
    BY <1>0, <1>7, PageFacts DEF IsFeed
  <2> HIDE DEF Mail, Responses
  <2> QED
    BY <1>7, <2>1, JoinsSent
<1> QED
  BY <1>1, <1>2, <1>3, <1>4, <1>5, <1>6, <1>7, <1>8

\* The message that goes out with a confirmation or a report.
LEMMA NotePacked ==
  ASSUME NEW r, "success" \notin DOMAIN r,
         r.action \in {Filled, Partly, Rests, Failed},
         r.action = Failed => r.filled = 0
  PROVE  /\ \A x : Concerns(Packed(r), x) <=> r.id = x
         /\ \A x : Tells(Packed(r), x) <=> r.id = x
         /\ \A x : ActionIs(Packed(r), x)
         /\ Packed(r).response = r /\ Packed(r).kind = "order"
PROOF
<1>1. PICK m : m = Packed(r)
  OBVIOUS
<1>2. /\ m.response = r /\ m.kind = "order"
      /\ \A x : (Tells(m, x) <=> r.id = x) /\ ~Ends(m, x)
  BY <1>1, PackedIs DEF Packed
<1>3. \A x : ActionIs(m, x)
  BY <1>2 DEF ActionIs
<1> QED
  BY <1>1, <1>2, <1>3 DEF Concerns

\* What a confirmation tells.
LEMMA NoteTells ==
  ASSUME NEW filled \in Nat, NEW remaining \in Nat, filled > 0 \/ remaining > 0
  PROVE  /\ ActionOf(filled, remaining) \in {Filled, Partly, Rests}
         /\ ActionOf(filled, remaining) # Failed
         /\ filled > 0 => (ActionOf(filled, remaining) = Filled <=> remaining = 0)
         /\ filled > 0 => (ActionOf(filled, remaining) = Partly <=> remaining > 0)
         /\ filled > 0 => ActionOf(filled, remaining) # Rests
PROOF
  BY DEF ActionOf, Filled, Partly, Rests, Failed

\* The matching ends.
LEMMA FinishedInStep ==
  ASSUME NEW p, GoesOn(p), ExchangeStep, FinishMatching, InOrder(p)
  PROVE  PageInStep(p)'
PROOF
<1>0. p \in Pages /\ TInv /\ IInv
  BY StepFacts
<1>1. PICK feed, w :
        /\ IsFeed(feed, placed, responses, trades)
        /\ Joins(w, inbox[p], feed, UserOf[p], ListedTimes(p))
        /\ w \in Seq(Mail)
        /\ Sound(page[p], outbox[p], w, SeenIDs(p), LostIDs(p))
        /\ \A o \in Ids : Tracked(p, o) => OrderInStep(p, w, o)
  BY CallKeeps
<1>2. /\ UNCHANGED <<placed, takenAway>> /\ Ids' = Ids /\ ListedTimes(p)' = ListedTimes(p)
      /\ page' = page /\ inbox' = inbox
  BY CallKeeps
<1>3. /\ responses' = responses /\ trades' = trades /\ taker' = taker /\ phase = "matching"
      /\ phase' = "settling"
  BY DEF FinishMatching
<1>4. IsPending(p, w)'
  BY <1>1, <1>2, <1>3 DEF IsPending
<1>5. Sound(page'[p], outbox'[p], w, SeenIDs(p)', LostIDs(p)')
  BY <1>1, CallKeeps
<1>6. /\ taker \in Ids /\ placed[taker].symbol \in Symbols /\ qty[taker] \in Int
      /\ taker \notin book[placed[taker].symbol]
      /\ book \in [Symbols -> SUBSET Ids] /\ qty \in Seq(Int) /\ Len(qty) = Len(placed)
  BY <1>0, <1>3, TakerFacts DEF IInv, RestingIsGood, TypeOK
<1>7. ASSUME NEW o \in Ids, Tracked(p, o)' PROVE OrderInStep(p, w, o)'
  <2>1. Tracked(p, o) /\ placed[o].type = Limit /\ placed[o].symbol \in Symbols
    BY <1>0, <1>7, CallKeeps, ObjectFields DEF TInv
  <2>2. qty'[o] = qty[o]
    <3>1. placed[taker].type = Market => o # taker
      BY <2>1 DEF Market, Limit
    <3> QED
      BY <1>6, <3>1 DEF FinishMatching, Ids
  <2>3. CASE o # taker
    <3>1. o \in book'[placed[o].symbol] <=> o \in book[placed[o].symbol]
      BY <1>6, <2>1, <2>3 DEF FinishMatching
    <3>2. StageOf(o)' = StageOf(o)
      BY <1>2, <1>3, <2>3, <3>1 DEF StageOf, Fresh, WillRest, RestsForItsUser
    <3> QED
      BY <1>1, <1>2, <2>1, <2>2, <3>2 DEF OrderInStep
  <2>4. CASE o = taker
    <3>1. o \in book'[placed[o].symbol] <=> qty[o] > 0
      BY <1>6, <2>1, <2>4 DEF FinishMatching, Market, Limit
    <3>2. Fresh(o)' = Fresh(o)
      BY <1>3 DEF Fresh
    <3>0. o \notin takenAway
      BY <2>4, StepFacts DEF TakenIsGone
    <3>3. WillRest(o) <=> qty[o] > 0
      BY <1>3, <1>6, <2>4, <3>0 DEF WillRest, RestsForItsUser
    <3>4. WillRest(o)' <=> qty[o] > 0
      BY <1>2, <1>3, <3>0, <3>1 DEF WillRest, RestsForItsUser
    <3>5. StageOf(o)' = StageOf(o)
      BY <3>2, <3>3, <3>4 DEF StageOf
    <3> QED
      BY <1>1, <1>2, <2>1, <2>2, <3>5 DEF OrderInStep
  <2> QED
    BY <2>3, <2>4
<1> QED
  BY <1>2, <1>4, <1>5, <1>7 DEF PageInStep

\* A trade is settled: what is told is what was to be told.
LEMMA SettledInStep ==
  ASSUME NEW p, GoesOn(p), ExchangeStep, Settle, InOrder(p)
  PROVE  PageInStep(p)'
PROOF
<1>0. p \in Pages /\ TInv /\ IInv
  BY StepFacts
<1>1. PICK feed, w :
        /\ IsFeed(feed, placed, responses, trades)
        /\ Joins(w, inbox[p], feed, UserOf[p], ListedTimes(p))
        /\ w \in Seq(Mail)
        /\ Sound(page[p], outbox[p], w, SeenIDs(p), LostIDs(p))
        /\ \A o \in Ids : Tracked(p, o) => OrderInStep(p, w, o)
  BY CallKeeps
<1>2. /\ UNCHANGED <<placed, takenAway>> /\ Ids' = Ids /\ ListedTimes(p)' = ListedTimes(p)
      /\ page' = page /\ inbox' = inbox
  BY CallKeeps
<1>3. /\ trades # << >> /\ responses' = responses \o Confirmations(Head(trades))
      /\ trades' = Tail(trades) /\ UNCHANGED <<qty, book, phase, taker>>
      /\ {MakerID(Head(trades)), TakerID(Head(trades))} \subseteq DOMAIN orders
  BY DEF Settle, bookVars
<1>4. PICK two : two = Confirmations(Head(trades))
  OBVIOUS
<1>5. two = <<MakerNote(placed, Head(trades)), TakerNote(placed, Head(trades))>>
  BY <1>0, <1>3, <1>4, NotesAre
<1>6. responses \in Seq(Responses) /\ trades \in Seq(Trade) /\ two \in Seq(Responses)
  <2>1. responses \in Seq(Responses) /\ trades \in Seq(Trade)
    BY <1>0 DEF TInv, FillsAreGood, TypeOK
  <2>2. Head(trades) \in Trade /\ Head(trades) = trades[1] /\ 1 \in 1..Len(trades)
    <3> HIDE DEF Trade
    <3> QED
      BY <1>3, <2>1, HeadAndTail
  <2>3. Head(trades).filled \in Nat
    BY <1>0, <2>2 DEF TInv, FillsAreGood
  <2> HIDE DEF Responses
  <2> QED
    BY <1>0, <1>3, <1>4, <2>1, <2>2, <2>3, ConfirmationsReport DEF TInv
<1>7. IsFeed(feed, placed, responses \o two, Tail(trades))
  <2> HIDE DEF Responses, Trade
  <2> QED
    BY <1>1, <1>3, <1>5, <1>6, FeedSettled
<1>8. IsPending(p, w)'
  BY <1>1, <1>2, <1>3, <1>4, <1>7 DEF IsPending
<1>9. Sound(page'[p], outbox'[p], w, SeenIDs(p)', LostIDs(p)')
  BY <1>1, CallKeeps
<1>10. ASSUME NEW o \in Ids, Tracked(p, o)' PROVE OrderInStep(p, w, o)'
  <2>1. Tracked(p, o)
    BY <1>10, CallKeeps
  <2>2. responses' # << >>
    <3>1. Len(two) = 2
      BY <1>5
    <3>2. Len(responses) + 2 \in 1..Len(responses \o two)
      <4> HIDE DEF Responses
      <4> QED
        BY <1>6, <3>1, LastOfTwo
    <3> QED
      BY <1>3, <1>4, <3>2
  <2>3. ~Fresh(o) /\ ~Fresh(o)'
    BY <1>3, <2>2 DEF Fresh
  <2>4. WillRest(o)' <=> WillRest(o)
    BY <1>2, <1>3 DEF WillRest, RestsForItsUser
  <2>5. StageOf(o)' = StageOf(o)
    BY <2>3, <2>4 DEF StageOf
  <2> QED
    BY <1>1, <1>2, <1>3, <2>1, <2>5 DEF OrderInStep
<1> QED
  BY <1>2, <1>8, <1>9, <1>10 DEF PageInStep

\* An order is matched.
LEMMA MatchedInStep ==
  ASSUME NEW p, GoesOn(p), ExchangeStep, NEW maker \in Ids, Match(maker), InOrder(p)
  PROVE  PageInStep(p)'
PROOF
<1>0. p \in Pages /\ TInv /\ IInv /\ TypeOK /\ FillsAreGood
  BY StepFacts DEF TInv
<1>1. PICK feed, w :
        /\ IsFeed(feed, placed, responses, trades)
        /\ Joins(w, inbox[p], feed, UserOf[p], ListedTimes(p))
        /\ w \in Seq(Mail)
        /\ Sound(page[p], outbox[p], w, SeenIDs(p), LostIDs(p))
        /\ \A o \in Ids : Tracked(p, o) => OrderInStep(p, w, o)
  BY CallKeeps
<1>2. /\ UNCHANGED <<placed, takenAway>> /\ Ids' = Ids /\ ListedTimes(p)' = ListedTimes(p)
      /\ page' = page /\ inbox' = inbox
  BY CallKeeps
<1>3. /\ phase = "matching" /\ taker \in Ids /\ maker \in book[placed[taker].symbol]
      /\ maker # taker /\ qty[taker] > 0
      /\ UNCHANGED <<phase, taker, responses>>
  BY <1>0, MatchFacts
<1>4. PICK filled \in Int :
        /\ filled = qty[maker] \/ filled = qty[taker]
        /\ filled <= qty[maker] /\ filled <= qty[taker]
        /\ qty' = [qty EXCEPT ![maker] = qty[maker] - filled,
                              ![taker] = qty[taker] - filled]
        /\ book' = IF qty[maker] = filled
                   THEN [book EXCEPT ![placed[taker].symbol] = @ \ {maker}]
                   ELSE book
        /\ trades' = Append(trades, MakeTrade(maker, filled))
  BY <1>0, MatchFacts
<1>5. /\ placed[taker].symbol \in Symbols /\ placed[maker].symbol = placed[taker].symbol
      /\ qty[maker] > 0 /\ qty[maker] \in Int /\ qty[taker] \in Int
      /\ taker \notin book[placed[taker].symbol]
      /\ book \in [Symbols -> SUBSET Ids] /\ qty \in Seq(Int) /\ Len(qty) = Len(placed)
  <2>1. placed[taker].symbol \in Symbols /\ qty[maker] \in Int /\ qty[taker] \in Int
    BY <1>0, <1>3, ObjectFields
  <2>2. \A o \in book[placed[taker].symbol] :
          placed[o].symbol = placed[taker].symbol /\ qty[o] > 0 /\ o # taker
    BY <1>0, <1>3, <2>1 DEF FillsAreGood
  <2> QED
    BY <1>0, <1>3, <2>1, <2>2 DEF TypeOK
<1>6. /\ filled > 0 /\ filled \in Nat
      /\ qty[maker] - filled \in Nat /\ qty[taker] - filled \in Nat
  <2>1. PICK a, b : a = qty[maker] /\ b = qty[taker]
    OBVIOUS
  <2>2. /\ a \in Int /\ b \in Int /\ a > 0 /\ b > 0
        /\ filled = a \/ filled = b
        /\ filled <= a /\ filled <= b
    BY <1>3, <1>4, <1>5, <2>1
  <2>3. filled > 0 /\ filled \in Nat /\ a - filled \in Nat /\ b - filled \in Nat
    BY <2>2
  <2> QED
    BY <2>1, <2>3
<1>7. PICK t : t = MakeTrade(maker, filled)
  OBVIOUS
<1>8. /\ t \in Trade /\ t.maker = maker /\ t.taker = taker /\ t.filled = filled
      /\ t.makerRemaining = qty[maker] - filled /\ t.takerRemaining = qty[taker] - filled
  BY <1>0, <1>3, <1>7, TradeFields DEF MakeTrade
<1>9. PICK mk, tk : mk = MakerNote(placed, t) /\ tk = TakerNote(placed, t)
  OBVIOUS
<1>10. /\ mk \in Responses /\ tk \in Responses
       /\ mk.user = placed[maker].user /\ tk.user = placed[taker].user
       /\ mk.id = placed[maker].id /\ tk.id = placed[taker].id
       /\ mk.filled = filled /\ tk.filled = filled
       /\ mk.remaining = qty[maker] - filled /\ tk.remaining = qty[taker] - filled
       /\ mk.action = ActionOf(filled, qty[maker] - filled)
       /\ tk.action = ActionOf(filled, qty[taker] - filled)
       /\ "success" \notin DOMAIN mk /\ "success" \notin DOMAIN tk
  <2>1. mk \in Responses /\ tk \in Responses
    BY <1>0, <1>6, <1>8, <1>9, NotesType
  <2> QED
    BY <1>8, <1>9, <2>1, NoteFields
<1>11. PICK m1, m2 : m1 = Packed(mk) /\ m2 = Packed(tk)
  OBVIOUS
<1>12. PICK u, k : u = UserOf[p] /\ k = ListedTimes(p)
  OBVIOUS
<1>13. PICK n1, n2 : n1 = Times(mk, u, k) /\ n2 = Times(tk, u, k)
  OBVIOUS
<1>14. PICK w1, w2 : w1 = Grown(w, n1, m1) /\ w2 = Grown(w1, n2, m2)
  OBVIOUS
<1>15. k \in Nat /\ inbox[p] \in Seq(Mail) /\ feed \in Seq(Responses)
  BY <1>0, <1>1, <1>12, PageFacts DEF IsFeed
<1>16. PICK feed1, feed2 : feed1 = Append(feed, mk) /\ feed2 = Append(feed1, tk)
  OBVIOUS
<1>17. /\ m1 \in Mail /\ n1 \in Nat /\ feed1 \in Seq(Responses)
       /\ Joins(w1, inbox[p], feed1, u, k)
  <2> HIDE DEF Mail, Responses
  <2> QED
    BY <1>1, <1>10, <1>11, <1>12, <1>13, <1>14, <1>15, <1>16, JoinsMore
<1>18. /\ w1 \in Seq(Mail) /\ m2 \in Mail /\ n2 \in Nat
       /\ Joins(w2, inbox[p], feed2, u, k)
  <2> HIDE DEF Mail, Responses
  <2> QED
    BY <1>10, <1>11, <1>13, <1>14, <1>15, <1>16, <1>17, JoinsMore
<1>19. IsFeed(feed2, placed, responses, trades')
  <2>1. responses \in Seq(Responses) /\ trades \in Seq(Trade)
    BY <1>0 DEF FillsAreGood, TypeOK
  <2>2. PICK list : list = placed
    OBVIOUS
  <2>3. IsFeed(feed, list, responses, trades) /\ mk = MakerNote(list, t) /\ tk = TakerNote(list, t)
    BY <1>1, <1>9, <2>2
  <2> HIDE DEF Responses, Trade
  <2>4. IsFeed(Append(Append(feed, MakerNote(list, t)), TakerNote(list, t)), list, responses,
               Append(trades, t))
    BY <1>8, <1>10, <2>1, <2>3, FeedMatched
  <2> QED
    BY <1>4, <1>7, <1>16, <2>2, <2>3, <2>4
<1>20. IsPending(p, w2)'
  BY <1>2, <1>3, <1>12, <1>18, <1>19 DEF IsPending
\* What the two messages are about.
<1>21. /\ \A x : (Concerns(m1, x) <=> mk.id = x) /\ (Tells(m1, x) <=> mk.id = x) /\ ActionIs(m1, x)
       /\ \A x : (Concerns(m2, x) <=> tk.id = x) /\ (Tells(m2, x) <=> tk.id = x) /\ ActionIs(m2, x)
       /\ m1.response = mk /\ m2.response = tk /\ m1.kind = "order" /\ m2.kind = "order"
       /\ mk.action # Failed /\ tk.action # Failed
  <2>1. /\ mk.action \in {Filled, Partly, Rests, Failed} /\ mk.action # Failed
        /\ tk.action \in {Filled, Partly, Rests, Failed} /\ tk.action # Failed
    BY <1>6, <1>10, NoteTells
  <2> QED
    BY <1>10, <1>11, <2>1, NotePacked
<1>22. Sound(page'[p], outbox'[p], w2, SeenIDs(p)', LostIDs(p)')
  <2>1. mk.id \in SeenIDs(p) /\ tk.id \in SeenIDs(p)
    BY <1>3, <1>10 DEF SeenIDs, PlacedIDs
  <2>2. /\ \A x : Concerns(m1, x) => Known(page[p], SeenIDs(p), x) /\ (x \in SeenIDs(p) \/ Says(m1, x, Failed))
        /\ \A x : Concerns(m2, x) => Known(page[p], SeenIDs(p), x) /\ (x \in SeenIDs(p) \/ Says(m2, x, Failed))
        /\ \A x : ActionIs(m1, x)
        /\ \A x : ActionIs(m2, x)
    BY <1>21, <2>1 DEF Known
  <2> HIDE DEF Mail
  <2>3. Sound(page[p], outbox[p], w1, SeenIDs(p), LostIDs(p))
    BY <1>1, <1>14, <1>17, <2>2, SoundGrows
  <2>4. Sound(page[p], outbox[p], w2, SeenIDs(p), LostIDs(p))
    BY <1>14, <1>18, <2>2, <2>3, SoundGrows
  <2> QED
    BY <2>4, CallKeeps
<1>23. trades' # << >>
  <2> HIDE DEF Trade
  <2>1. trades \in Seq(Trade)
    BY <1>0 DEF TypeOK
  <2> QED
    BY <1>4, <1>7, <1>8, <2>1, OneMore
<1>24. taker \notin takenAway /\ maker \notin takenAway
  <2>1. \A o \in takenAway : o # taker /\ o \notin book[placed[o].symbol]
    BY StepFacts DEF TakenIsGone
  <2>2. placed[maker].symbol = placed[taker].symbol
    <3>1. placed[taker].symbol \in Symbols
      BY <1>0, <1>3, ObjectFields
    <3> QED
      BY <1>0, <1>3, <3>1 DEF FillsAreGood
  <2> QED
    BY <1>3, <2>1, <2>2
<1>25. ASSUME NEW o \in Ids, Tracked(p, o)' PROVE OrderInStep(p, w2, o)'
  <2>1. /\ Tracked(p, o) /\ ListedTimes(p) \in Nat \ {0} /\ placed[o].user = UserOf[p]
        /\ placed[o].symbol \in Symbols
    BY <1>0, <1>25, CallKeeps, ObjectFields
  <2>2. PICK x, stage, stage2, size, left, left2, e :
          /\ x = placed[o].id /\ stage = StageOf(o) /\ stage2 = StageOf(o)'
          /\ size = placed[o].size /\ left = qty[o] /\ left2 = qty'[o] /\ e = EntryAt(page[p], x)
    OBVIOUS
  <2>3. e \in Entry /\ size \in Int /\ left \in Int
    BY <1>0, <2>2, PageFacts
  <2>4. InStep(e, w, x, k, stage, size, left)
    BY <1>1, <1>12, <2>1, <2>2 DEF OrderInStep
  <2>5. OrderInStep(p, w2, o)' <=> InStep(e, w2, x, k, stage2, size, left2)
    BY <1>2, <1>12, <2>2 DEF OrderInStep
  <2>6. ~Fresh(o)' /\ k \in Nat \ {0}
    BY <1>12, <1>23, <2>1 DEF Fresh
  <2>7. CASE o \notin {maker, taker}
    <3>1. left2 = left
      BY <1>3, <1>4, <1>5, <2>2, <2>7 DEF Ids
    <3>2. stage2 = stage
      <4>1. o \in book'[placed[o].symbol] <=> o \in book[placed[o].symbol]
        BY <1>4, <1>5, <2>1, <2>7
      <4> QED
        BY <1>2, <1>3, <2>2, <2>6, <2>7, <4>1 DEF StageOf, Fresh, WillRest, RestsForItsUser
    <3>3. ~Concerns(m1, x) /\ ~Concerns(m2, x)
      BY <1>0, <1>3, <1>10, <1>21, <2>2, <2>7, UniqueFacts
    <3> HIDE DEF Mail, Entry
    <3>4. InStep(e, w1, x, k, stage, size, left)
      BY <1>1, <1>14, <1>15, <1>17, <2>3, <2>4, <3>3, OthersTold
    <3>5. InStep(e, w2, x, k, stage, size, left)
      BY <1>14, <1>15, <1>18, <2>3, <3>3, <3>4, OthersTold
    <3> QED
      BY <2>5, <3>1, <3>2, <3>5
  <2>8. CASE o = maker
    <3>1. left2 = left - filled /\ left2 \in Nat /\ left = qty[maker]
      BY <1>3, <1>4, <1>5, <1>6, <2>2, <2>8 DEF Ids
    <3>2. stage = "rests"
      BY <1>3, <1>5, <2>2, <2>8 DEF StageOf, Fresh, WillRest, RestsForItsUser
    <3>3. stage2 = IF left2 = 0 THEN "over" ELSE "rests"
      <4>1. maker \in book'[placed[maker].symbol] <=> left2 # 0
        BY <1>3, <1>4, <1>5, <3>1
      <4> QED
        BY <1>2, <1>3, <1>24, <2>2, <2>6, <2>8, <4>1 DEF StageOf, WillRest, RestsForItsUser
    <3>4. n1 = k /\ Tells(m1, x) /\ ~Concerns(m2, x)
      <4>1. tk.id # x
        BY <1>0, <1>3, <1>10, <2>2, <2>8, UniqueFacts
      <4> QED
        BY <1>10, <1>12, <1>13, <1>21, <2>1, <2>2, <2>8, <4>1 DEF Times
    <3>5. mk.action = ActionOf(filled, left2)
      BY <1>10, <3>1
    <3>6. m1.response.action = Filled => stage2 = "over"
      BY <1>6, <1>21, <3>1, <3>3, <3>5, NoteTells
    <3>7. Right(m1, stage2, left2)
      BY <1>6, <1>10, <1>21, <3>1, <3>3, <3>5, NoteTells DEF Right
    <3>8. m1.response.filled = left - left2 /\ m1.response.action # Failed /\ left2 \in Int
      <4>1. left - left2 = filled /\ left2 \in Int
        BY <2>3, <3>1, <1>6
      <4>2. m1.response.filled = filled /\ m1.response.action # Failed
        BY <1>10, <1>21
      <4> QED
        BY <4>1, <4>2
    <3>9. stage # "over" /\ stage2 \in {"rests", "over"}
      BY <3>2, <3>3
    <3> HIDE DEF Mail, Entry
    <3>10. InStep(e, Grown(w, k, m1), x, k, stage2, size, left2)
      BY <1>1, <1>17, <2>3, <2>4, <2>6, <3>4, <3>6, <3>7, <3>8, <3>9, ReportTold
    <3>11. InStep(e, w1, x, k, stage2, size, left2)
      BY <1>14, <3>4, <3>10
    <3>12. InStep(e, w2, x, k, stage2, size, left2)
      BY <1>14, <1>15, <1>18, <2>3, <3>4, <3>8, <3>11, OthersTold
    <3> QED
      BY <2>5, <3>12
  <2>9. CASE o = taker
    <3>1. left2 = left - filled /\ left2 \in Nat /\ left = qty[taker]
      BY <1>3, <1>4, <1>5, <1>6, <2>2, <2>9 DEF Ids
    <3>2. stage # "over"
      BY <1>3, <2>2, <2>9 DEF StageOf, Fresh, WillRest
    <3>3. stage2 = IF left2 = 0 THEN "over" ELSE "rests"
      <4>1. taker \notin book'[placed[taker].symbol]
        BY <1>4, <1>5
      <4>2. qty'[taker] = left2
        BY <2>2, <2>9
      <4> QED
        BY <1>2, <1>3, <1>24, <2>2, <2>6, <2>9, <3>1, <4>1, <4>2
           DEF StageOf, WillRest, RestsForItsUser
    <3>4. n2 = k /\ Tells(m2, x) /\ ~Concerns(m1, x)
      <4>1. mk.id # x
        BY <1>0, <1>3, <1>10, <2>2, <2>9, UniqueFacts
      <4> QED
        BY <1>10, <1>12, <1>13, <1>21, <2>1, <2>2, <2>9, <4>1 DEF Times
    <3>5. tk.action = ActionOf(filled, left2)
      BY <1>10, <3>1
    <3>6. m2.response.action = Filled => stage2 = "over"
      BY <1>6, <1>21, <3>1, <3>3, <3>5, NoteTells
    <3>7. Right(m2, stage2, left2)
      BY <1>6, <1>10, <1>21, <3>1, <3>3, <3>5, NoteTells DEF Right
    <3>8. m2.response.filled = left - left2 /\ m2.response.action # Failed /\ left2 \in Int
      <4>1. left - left2 = filled /\ left2 \in Int
        BY <2>3, <3>1, <1>6
      <4>2. m2.response.filled = filled /\ m2.response.action # Failed
        BY <1>10, <1>21
      <4> QED
        BY <4>1, <4>2
    <3>9. stage2 \in {"rests", "over"}
      BY <3>3
    <3> HIDE DEF Mail, Entry
    <3>10. InStep(e, w1, x, k, stage, size, left)
      BY <1>1, <1>14, <1>15, <1>17, <2>3, <2>4, <3>4, OthersTold
    <3>11. InStep(e, Grown(w1, k, m2), x, k, stage2, size, left2)
      BY <1>18, <2>3, <2>6, <3>2, <3>4, <3>6, <3>7, <3>8, <3>9, <3>10, ReportTold
    <3> QED
      BY <1>14, <2>5, <3>4, <3>11
  <2> QED
    BY <2>7, <2>8, <2>9
<1> QED
  BY <1>2, <1>20, <1>22, <1>25 DEF PageInStep

\* placeOrder returns.
LEMMA EndedInStep ==
  ASSUME NEW p, GoesOn(p), ExchangeStep, EndPlaceOrder, InOrder(p)
  PROVE  PageInStep(p)'
PROOF
<1>0. p \in Pages /\ TInv /\ IInv /\ TypeOK /\ RestIsBooked
  BY StepFacts DEF TInv
<1>1. PICK feed, w :
        /\ IsFeed(feed, placed, responses, trades)
        /\ Joins(w, inbox[p], feed, UserOf[p], ListedTimes(p))
        /\ w \in Seq(Mail)
        /\ Sound(page[p], outbox[p], w, SeenIDs(p), LostIDs(p))
        /\ \A o \in Ids : Tracked(p, o) => OrderInStep(p, w, o)
  BY CallKeeps
<1>2. /\ UNCHANGED <<placed, takenAway>> /\ Ids' = Ids /\ ListedTimes(p)' = ListedTimes(p)
      /\ page' = page /\ inbox' = inbox
  BY CallKeeps
<1>3. /\ phase = "settling" /\ trades = << >> /\ trades' = << >> /\ phase' = "idle"
      /\ taker' = NoOrder /\ UNCHANGED <<qty, book>>
      /\ responses' = IF responses = << >> THEN <<RestingMessage(taker)>> ELSE responses
  BY DEF EndPlaceOrder, bookVars
<1>4. taker \in Ids /\ NoOrder \notin Ids
  BY <1>0, <1>3, TakerFacts, IndexFacts
\* Where the orders are when it has returned.
<1>5. ASSUME NEW o \in Ids
      PROVE  /\ StageOf(o)' = IF RestsForItsUser(o) THEN "rests" ELSE "over"
             /\ o # taker \/ responses # << >> => StageOf(o) = StageOf(o)'
             /\ o = taker /\ responses = << >> => StageOf(o) = "fresh"
  <2>1. StageOf(o)' = IF RestsForItsUser(o) THEN "rests" ELSE "over"
    BY <1>2, <1>3, <1>4, <1>5 DEF StageOf, Fresh, WillRest, RestsForItsUser
  <2>2. o # taker \/ responses # << >> =>
          StageOf(o) = IF RestsForItsUser(o) THEN "rests" ELSE "over"
    BY <1>3 DEF StageOf, Fresh, WillRest
  <2>3. o = taker /\ responses = << >> => StageOf(o) = "fresh"
    BY <1>3 DEF StageOf, Fresh
  <2> QED
    BY <2>1, <2>2, <2>3
<1>6. CASE responses # << >>
  <2>1. IsPending(p, w)'
    BY <1>1, <1>2, <1>3, <1>6 DEF IsPending
  <2>2. Sound(page'[p], outbox'[p], w, SeenIDs(p)', LostIDs(p)')
    BY <1>1, CallKeeps
  <2>3. ASSUME NEW o \in Ids, Tracked(p, o)' PROVE OrderInStep(p, w, o)'
    <3>1. Tracked(p, o)
      BY <2>3, CallKeeps
    <3>2. StageOf(o)' = StageOf(o)
      BY <1>5, <1>6
    <3> QED
      BY <1>1, <1>2, <1>3, <3>1, <3>2 DEF OrderInStep
  <2> QED
    BY <1>2, <2>1, <2>2, <2>3 DEF PageInStep
<1>7. CASE responses = << >>
  <2>1. PICK r, m : r = RestingMessage(taker) /\ m = Packed(r)
    OBVIOUS
  <2>2. /\ r.user = placed[taker].user /\ r.id = placed[taker].id /\ r.action = Rests
        /\ r.filled = 0 /\ r.remaining = qty[taker] /\ "success" \notin DOMAIN r
    BY <2>1 DEF RestingMessage
  <2>3. r \in Responses
    <3>1. Responses' = Responses
      BY DEF Responses, Reports, CancelMessages, OrderMessage, OrderIDs
    <3>2. responses' \in Seq(Responses)
      BY <3>1, StepFacts DEF TInv, FillsAreGood
    <3> HIDE DEF Responses
    <3>3. <<r>> \in Seq(Responses)
      BY <1>3, <1>7, <2>1, <3>2
    <3>4. <<r>>[1] = r /\ 1 \in 1..Len(<<r>>)
      OBVIOUS
    <3> QED
      BY <3>3, <3>4, ElementsInSet
  <2>4. w = inbox[p] /\ inbox[p] \in Seq(Mail) /\ ListedTimes(p) \in Nat
    <3>1. feed = << >>
      BY <1>1, <1>3, <1>7, FeedNothing
    <3>2. inbox[p] \in Seq(Mail) /\ ListedTimes(p) \in Nat
      BY <1>0, PageFacts
    <3> HIDE DEF Mail
    <3> QED
      BY <1>1, <3>1, <3>2, JoinsNothing
  <2>5. PICK k, n, w2 : k = ListedTimes(p) /\ n = Times(r, UserOf[p], k) /\ w2 = Grown(w, n, m)
    OBVIOUS
  <2>6. k \in Nat /\ n \in Nat /\ m \in Mail
    BY <2>1, <2>3, <2>4, <2>5, PackedType DEF Times
  <2>7. IsPending(p, w2)'
    <3> HIDE DEF Mail, Responses
    <3> QED
      BY <1>0, <1>2, <1>3, <1>7, <2>1, <2>3, <2>4, <2>5, <2>6, PendingAnswer
  <2>8. /\ \A x : (Concerns(m, x) <=> r.id = x) /\ (Tells(m, x) <=> r.id = x) /\ ActionIs(m, x)
        /\ m.response = r /\ m.kind = "order"
    <3>1. r.action \in {Filled, Partly, Rests, Failed} /\ r.action # Failed
      BY <2>2 DEF Filled, Partly, Rests, Failed
    <3> QED
      BY <2>1, <2>2, <3>1, NotePacked
  <2>9. Sound(page'[p], outbox'[p], w2, SeenIDs(p)', LostIDs(p)')
    <3>1. r.id \in SeenIDs(p)
      BY <1>4, <2>2 DEF SeenIDs, PlacedIDs
    <3>2. /\ \A x : Concerns(m, x) =>
               Known(page[p], SeenIDs(p), x) /\ (x \in SeenIDs(p) \/ Says(m, x, Failed))
          /\ \A x : ActionIs(m, x)
      BY <2>8, <3>1 DEF Known
    <3> HIDE DEF Mail
    <3>3. Sound(page[p], outbox[p], w2, SeenIDs(p), LostIDs(p))
      BY <1>1, <2>5, <2>6, <3>2, SoundGrows
    <3> QED
      BY <3>3, CallKeeps
  <2>10. ASSUME NEW o \in Ids, Tracked(p, o)' PROVE OrderInStep(p, w2, o)'
    <3>1. /\ Tracked(p, o) /\ ListedTimes(p) \in Nat \ {0} /\ placed[o].user = UserOf[p]
          /\ placed[o].type = Limit
      BY <2>10, CallKeeps
    <3>2. PICK x, stage, stage2, size, left, e :
            /\ x = placed[o].id /\ stage = StageOf(o) /\ stage2 = StageOf(o)'
            /\ size = placed[o].size /\ left = qty[o] /\ e = EntryAt(page[p], x)
      OBVIOUS
    <3>3. e \in Entry /\ size \in Int /\ left \in Int /\ k \in Nat \ {0}
      BY <1>0, <2>5, <3>1, <3>2, PageFacts
    <3>4. InStep(e, w, x, k, stage, size, left)
      BY <1>1, <2>5, <3>1, <3>2 DEF OrderInStep
    <3>5. OrderInStep(p, w2, o)' <=> InStep(e, w2, x, k, stage2, size, left)
      BY <1>2, <1>3, <2>5, <3>2 DEF OrderInStep
    <3>6. CASE o # taker
      <4>1. stage2 = stage
        BY <1>5, <3>2, <3>6
      <4>2. ~Concerns(m, x)
        BY <1>0, <1>4, <2>2, <2>8, <3>2, <3>6, UniqueFacts
      <4> HIDE DEF Mail, Entry
      <4>3. InStep(e, w2, x, k, stage, size, left)
        BY <1>1, <2>5, <2>6, <3>3, <3>4, <4>2, OthersTold
      <4> QED
        BY <3>5, <4>1, <4>3
    <3>7. CASE o = taker
      <4>1. stage = "fresh" /\ stage2 = IF qty[taker] > 0 THEN "rests" ELSE "over"
        <5>1. taker \notin takenAway
          BY StepFacts DEF TakenIsGone
        <5> QED
          BY <1>0, <1>3, <1>4, <1>5, <1>7, <3>1, <3>2, <3>7, <5>1
             DEF RestIsBooked, RestsForItsUser
      <4>2. left = size
        BY <3>4, <4>1 DEF InStep
      <4>3. n = k /\ Tells(m, x)
        BY <2>2, <2>5, <2>8, <3>1, <3>2, <3>7 DEF Times
      <4>4. /\ m.response.filled = left - left /\ m.response.action # Failed
            /\ m.response.action # Filled
        BY <2>2, <2>8, <3>3 DEF Rests, Failed, Filled
      <4>5. size > 0 => Right(m, stage2, left)
        BY <2>2, <2>8, <3>2, <3>7, <4>1, <4>2 DEF Right
      <4>6. stage # "over" /\ stage2 \in {"rests", "over"}
        BY <4>1
      <4> HIDE DEF Mail, Entry
      <4>7. InStep(e, Grown(w, k, m), x, k, stage2, size, left)
        BY <1>1, <2>6, <3>3, <3>4, <4>3, <4>4, <4>5, <4>6, ReportTold
      <4> QED
        BY <2>5, <3>5, <4>3, <4>7
    <3> QED
      BY <3>6, <3>7
  <2> QED
    BY <1>2, <2>7, <2>9, <2>10 DEF PageInStep
<1> QED
  BY <1>6, <1>7

\* The responses are sent: what was to come to the page waits for it now.
LEMMA SentInStep ==
  ASSUME NEW p, GoesOn(p), SendResponses, InOrder(p)
  PROVE  PageInStep(p)'
PROOF
<1>0. /\ p \in Pages /\ TInv /\ IInv /\ UniqueIDs' /\ MarketIsOpen /\ TradingNext
      /\ SeenIDs(p) \subseteq SeenIDs(p)'
      /\ LostIDs(p) \subseteq LostIDs(p)' /\ LostIDs(p)' \subseteq SeenIDs(p)'
  BY StepFacts
<1>1. /\ phase = "idle" /\ responses' = << >>
      /\ UNCHANGED <<placed, qty, book, phase, taker, trades, page, outbox, takenAway>>
  BY DEF SendResponses, bookVars
<1>2. trades = << >> /\ taker = NoOrder
  BY <1>0, <1>1 DEF IInv, CallIsGood, TInv, TypeOK
<1>3. PICK w : /\ IsPending(p, w)
               /\ Sound(page[p], outbox[p], w, SeenIDs(p), LostIDs(p))
               /\ \A o \in Ids : Tracked(p, o) => OrderInStep(p, w, o)
  BY DEF GoesOn, PageInStep
<1>4. PICK u, k : u = UserOf[p] /\ k = ListedTimes(p)
  OBVIOUS
<1>5. k \in Nat /\ inbox[p] \in Seq(Mail) /\ responses \in Seq(Responses) /\ SessionsAreGood
  BY <1>0, <1>4, PageFacts DEF TInv, FillsAreGood
<1>6. Joins(w, inbox[p], responses, u, k)
  <2>1. PICK feed : /\ IsFeed(feed, placed, responses, << >>)
                    /\ Joins(w, inbox[p], feed, u, k)
    BY <1>2, <1>3, <1>4 DEF IsPending
  <2>2. PICK list : list = placed
    OBVIOUS
  <2>3. IsFeed(feed, list, responses, << >>)
    BY <2>1, <2>2
  <2> HIDE DEF Responses, Mail
  <2>4. feed = responses
    BY <1>5, <2>3, FeedSent
  <2> QED
    BY <2>1, <2>4
<1>7. w = inbox[p] \o FlattenSeq(ListsOf(responses, u, k)) /\ w \in Seq(Mail)
  <2> HIDE DEF Responses, Mail
  <2> QED
    BY <1>5, <1>6, JoinsSent
\* Each response goes to the page as often as it is to.
<1>8. inbox'[p] = w
  <2>1. inbox'[p] = inbox[p] \o FlattenSeq([i \in 1..Len(responses) |->
          [copy \in 1..Copies(p, responses[i]) |-> Packed(responses[i])]])
    BY <1>0 DEF SendResponses
  <2>2. ASSUME NEW i \in 1..Len(responses)
        PROVE  Copies(p, responses[i]) = Times(responses[i], u, k)
    <3>1. responses[i] \in Responses
      <4> HIDE DEF Responses
      <4> QED
        BY <1>5, <2>2
    <3>2. responses[i].user \in Users
      BY <3>1 DEF Responses
    <3> QED
      BY <1>0, <1>4, <1>5, <3>2, CopiesAreTimes
  <2>3. [i \in 1..Len(responses) |->
          [copy \in 1..Copies(p, responses[i]) |-> Packed(responses[i])]]
        = ListsOf(responses, u, k)
    BY <2>2 DEF ListsOf
  <2> QED
    BY <1>7, <2>1, <2>3
<1>9. IsPending(p, w)'
  <2>1. trades' = << >>
    BY <1>1, <1>2
  <2> HIDE DEF Mail
  <2> QED
    BY <1>0, <1>1, <1>7, <1>8, <2>1, PendingNothing
<1>10. Sound(page'[p], outbox'[p], w, SeenIDs(p)', LostIDs(p)')
  BY <1>0, <1>1, <1>3 DEF Sound, Known
<1>11. ASSUME NEW o \in Ids', Tracked(p, o)' PROVE OrderInStep(p, w, o)'
  <2>1. o \in Ids /\ Tracked(p, o) /\ ListedTimes(p)' = ListedTimes(p)
    BY <1>0, <1>1, <1>11, TrackedStays DEF Ids
  <2>2. o # NoOrder
    BY <2>1 DEF Ids, NoOrder
  <2>3. StageOf(o)' = StageOf(o)
    BY <1>1, <1>2, <2>2 DEF StageOf, Fresh, WillRest, RestsForItsUser
  <2> QED
    BY <1>1, <1>3, <2>1, <2>3 DEF OrderInStep
<1> QED
  BY <1>9, <1>10, <1>11 DEF PageInStep

\* The server reads an order of a page: the pages are left alone, and page p
\* has used up the ID if it sent the order.
LEMMA ReadOrder ==
  ASSUME NEW p, GoesOn(p), NEW q \in Pages, ServeOrder(q), InOrder(p)
  PROVE  /\ Idle /\ Untouched(p) /\ takenAway' = takenAway
         /\ \E user \in Users, order \in Orders, symbol \in Symbols, id \in OrderIDs :
              /\ Place(user, order, symbol, id)
              /\ user = UserOf[p] => id \in UsedUp(page[p])
PROOF
<1>0. /\ p \in Pages /\ TInv /\ TradingNext /\ SessionsAreGood /\ OnlyWindow(p)
  BY StepFacts DEF GoesOn, TInv
<1>1. /\ Idle /\ outbox[q] # << >> /\ Head(outbox[q]).kind = "order"
      /\ outbox' = [outbox EXCEPT ![q] = Tail(@)]
      /\ UNCHANGED <<opened, session, users, nameOf, sessionIDs, page, inbox>>
      /\ Place(nameOf[session[q]], Head(outbox[q]).order, Head(outbox[q]).symbol,
               Head(outbox[q]).id)
  BY DEF ServeOrder, clientVars, webVars
<1>2. /\ nameOf[session[q]] = UserOf[q]
      /\ Head(outbox[q]).order \in Orders /\ Head(outbox[q]).symbol \in Symbols
      /\ Head(outbox[q]).id \in OrderIDs
  BY <1>0, <1>1, SessionsRead
<1>3. /\ Head(outbox[q]) = outbox[q][1] /\ 1 \in 1..Len(outbox[q])
      /\ \A r \in Pages \ {q} : outbox'[r] = outbox[r]
      /\ \A i \in 1..Len(outbox'[q]) :
           i + 1 \in 1..Len(outbox[q]) /\ outbox'[q][i] = outbox[q][i + 1]
  BY <1>0, <1>1, OutboxRead
<1>4. Untouched(p)
  <2>1. CASE q = p
    BY <1>1, <1>3, <2>1 DEF Untouched
  <2>2. CASE q # p
    BY <1>0, <1>1, <1>3, <2>2 DEF Untouched
  <2> QED
    BY <2>1, <2>2
<1>5. UserOf[q] \in Users
  BY <1>0, SessionOf
<1>6. ASSUME UserOf[q] = UserOf[p] PROVE Head(outbox[q]).id \in UsedUp(page[p])
  <2>1. q = p
    BY <1>0, <1>6 DEF OnlyWindow
  <2>2. \A i \in 1..Len(outbox[p]) : outbox[p][i].kind = "order" =>
          outbox[p][i].id \in UsedUp(page[p])
    BY DEF GoesOn, PageInStep, Sound
  <2> QED
    BY <1>1, <1>3, <2>1, <2>2
<1>7. takenAway' = takenAway
  BY DEF ServeOrder
<1> QED
  BY <1>1, <1>2, <1>4, <1>5, <1>6, <1>7

\* An order of a user reaches the exchange.
LEMMA PlacedInStep ==
  ASSUME NEW p, GoesOn(p), Idle, InOrder(p), Untouched(p),
         NEW user \in Users, NEW order \in Orders, NEW symbol \in Symbols, NEW id \in OrderIDs,
         Place(user, order, symbol, id), takenAway' = takenAway,
         user = UserOf[p] =>
           \/ id \in UsedUp(page[p])
           \/ UserOf[p] \in Bots /\ id = botID[UserOf[p]] /\ id \in BotIDs(p)'
  PROVE  PageInStep(p)'
PROOF
<1>1. CASE symbol \in listed
  <2>1. AcceptOrder(user, order, symbol, id)
    BY <1>1 DEF Place
  <2> QED
    BY <1>1, <2>1, AcceptedInStep
<1>2. CASE symbol \notin listed
  <2>1. RejectOrder(user, order, symbol, id)
    BY <1>2 DEF Place
  <2>2. user = UserOf[p] => id \in UsedUp(page[p]) \/ id \in SeenIDs(p)'
    BY DEF SeenIDs
  <2> QED
    BY <1>2, <2>1, <2>2, RejectedInStep
<1> QED
  BY <1>1, <1>2

\* The ID of a bot's order is used up then.
LEMMA BotIDTaken ==
  ASSUME BotsCount, NEW p \in Pages, UserOf[p] \in Bots, NEW order, BotOrders(UserOf[p], order)
  PROVE  botID[UserOf[p]] \in BotIDs(p)'
PROOF
<1>1. PICK u : u = UserOf[p]
  OBVIOUS
<1>2. /\ u \in Bots /\ u \in Users /\ botID[u] \in OrderIDs
      /\ botID' = [botID EXCEPT ![u] = botID[u] + 1]
  BY <1>1, BotsAssumption DEF BotOrders
<1>3. botID[u] \in Nat /\ botID[u] # 0
  BY <1>2, MaxIDAssumption DEF OrderIDs
<1>4. FirstBotID[u] <= botID[u] /\ FirstBotID[u] \in Nat /\ botID'[u] = botID[u] + 1
  BY <1>2, <1>3, FirstBotIDAssumption DEF BotsCount
<1>5. botID'[u] # 0 /\ botID[u] < botID'[u]
  BY <1>3, <1>4
<1> QED
  BY <1>1, <1>2, <1>3, <1>4, <1>5 DEF BotIDs

\* Bots leave the pages alone.
LEMMA BotsInStep ==
  ASSUME NEW p, GoesOn(p), NEW u \in Bots, InOrder(p),
         (\E order \in BotMenu : BotOrders(u, order)) \/ (\E id \in OrderIDs : BotCancels(u, id))
  PROVE  PageInStep(p)'
PROOF
<1>0. u \in Users /\ p \in Pages
  BY BotsAssumption, StepFacts
<1>1. Idle /\ UNCHANGED <<page, inbox, outbox>>
  BY DEF BotOrders, BotCancels, webVars
<1>2. Untouched(p)
  BY <1>1 DEF Untouched
<1>3. ASSUME NEW order \in BotMenu, BotOrders(u, order) PROVE PageInStep(p)'
  <2>1. botID[u] \in OrderIDs /\ order \in Orders /\ takenAway' = takenAway
    BY <1>3, MenuAssumption DEF BotOrders
  <2>2. PICK symbol \in Symbols : Place(u, order, symbol, botID[u])
    BY <1>3 DEF BotOrders
  <2>3. u = UserOf[p] => UserOf[p] \in Bots /\ botID[u] \in BotIDs(p)'
    BY <1>0, <1>3, BotIDTaken, StepFacts
  <2> QED
    BY <1>0, <1>1, <1>2, <2>1, <2>2, <2>3, PlacedInStep
<1>4. ASSUME NEW id \in OrderIDs, BotCancels(u, id) PROVE PageInStep(p)'
  <2>1. /\ CancelOrder(u, id)
        /\ takenAway' = takenAway \cup TakenFrom({o \in Ids : placed[o].user # u})
    BY <1>4 DEF BotCancels
  <2> QED
    BY <1>0, <1>1, <1>2, <2>1, CancelledInStep
<1> QED
  BY <1>3, <1>4

\* placeOrder goes on.
LEMMA CalledInStep ==
  ASSUME NEW p, GoesOn(p), ExchangeStep, InOrder(p)
  PROVE  PageInStep(p)'
PROOF
<1>1. ~SettleThrows
  BY StepFacts, NothingThrows
<1>2. CallStep
  BY DEF ExchangeStep
<1> QED
  BY <1>1, <1>2, MatchedInStep, FinishedInStep, SettledInStep, EndedInStep DEF CallStep

\* A page that is in order after a step was so before, unless it opens a session;
\* the IDs it used up stay so.
LEMMA InOrderBefore ==
  ASSUME NEW p, GoesOn(p), ~Open(p), InOrder(p)'
  PROVE  InOrder(p) /\ UsedUp(page[p]) \subseteq UsedUp(page'[p])
PROOF
<1>0. /\ p \in Pages /\ TInv /\ TradingNext /\ GoodPage(page[p])
      /\ page[p].nextID \in Nat /\ DOMAIN page[p] = PageFields
  BY StepFacts, PageFacts DEF GoodPage, GoodRest
<1>1. /\ ~page[p].broken
      /\ page'[p].nextID = page[p].nextID \/ page'[p].nextID = page[p].nextID + 1
  <2>0. ~page'[p].broken
    BY DEF InOrder
  <2>1. CASE page'[p] = page[p]
    BY <2>0, <2>1
  <2>2. CASE page[p].nextID <= MaxPageOrders /\ page'[p] = SendInvalid(page[p])
    BY <1>0, <2>0, <2>2, PageSendsNothing DEF SendInvalid, PageFields
  <2>3. ASSUME NEW size \in Int, page[p].nextID <= MaxPageOrders,
               page'[p] = SendOrder(page[p], size)
        PROVE  /\ ~page[p].broken
               /\ page'[p].nextID = page[p].nextID + 1
    <3>1. ASSUME NEW pg, DOMAIN pg = PageFields, NEW id
          PROVE  UpdateOrdersTable(pg, id).broken = pg.broken
      BY <3>1 DEF UpdateOrdersTable, PageFields
    <3>2. ~page[p].broken
      BY <1>0, <2>0, <2>3, <3>1 DEF SendOrder, PageFields
    <3> QED
      BY <1>0, <2>3, <3>2, PageSends
  <2>4. CASE Receive(p)
    BY <1>0, <2>4, ReceivedInOrder DEF InOrder
  <2> QED
    BY <1>0, <2>1, <2>2, <2>3, <2>4, PageMoves
<1>2. OwnIDs(p)
  <2> SUFFICES ASSUME UserOf[p] \in Bots PROVE page[p].nextID <= FirstBotID[UserOf[p]]
    BY DEF OwnIDs
  <2>1. page'[p].nextID <= FirstBotID[UserOf[p]] /\ FirstBotID[UserOf[p]] \in Nat
    BY FirstBotIDAssumption DEF InOrder, OwnIDs
  <2> QED
    BY <1>0, <1>1, <2>1
<1> QED
  BY <1>0, <1>1, <1>2 DEF InOrder, UsedUp

\* Every step keeps a page in step that is in order after it.
LEMMA InStepGoesOn ==
  ASSUME NEW p, GoesOn(p), InOrder(p)'
  PROVE  PageInStep(p)'
PROOF
<1>0. p \in Pages /\ TInv /\ TradingNext /\ GoodPage(page[p])
  BY StepFacts, PageFacts
<1>1. CASE Open(p)
  <2>1. page'[p] = page[p] \/ page'[p] = NewPage
    BY <1>0, <1>1 DEF Open, TInv, PagesAreGood
  <2>2. page'[p] = page[p] => InOrder(p)
    BY DEF InOrder, OwnIDs
  <2> QED
    BY <1>0, <1>1, <2>1, <2>2, IdleStays, LoadedAgain
<1>2. CASE Receive(p)
  BY <1>2, ReceivedInStep
<1>3. ~Open(p) => InOrder(p)
  BY InOrderBefore
<1>4. ASSUME ~Open(p), ~Receive(p), InOrder(p) PROVE PageInStep(p)'
  <2>1. CASE \E q \in Pages : ServeOrder(q)
    <3>1. PICK q \in Pages : ServeOrder(q)
      BY <2>1
    <3>2. /\ Idle /\ Untouched(p) /\ takenAway' = takenAway
          /\ \E user \in Users, order \in Orders, symbol \in Symbols, id \in OrderIDs :
               /\ Place(user, order, symbol, id)
               /\ user = UserOf[p] => id \in UsedUp(page[p])
      BY <1>4, <3>1, ReadOrder
    <3> QED
      BY <1>4, <3>2, PlacedInStep
  <2>2. CASE \E u \in Bots : \/ \E order \in BotMenu : BotOrders(u, order)
                             \/ \E id \in OrderIDs : BotCancels(u, id)
    BY <1>4, <2>2, BotsInStep
  <2>3. CASE ExchangeStep
    BY <1>4, <2>3, CalledInStep
  <2>4. CASE SendResponses
    BY <1>4, <2>4, SentInStep
  <2>5. CASE \/ Close(p) \/ PageOrdersNothing(p)
             \/ \E order \in PageMenu : PageOrders(p, order) \/ PageOrdersOffline(p, order)
    <3>1. OwnIDs(p)'
      BY DEF InOrder
    <3> QED
      BY <1>4, <2>5, <3>1, ClosedInStep, OrderedNothing, OrderedInStep
  <2>6. CASE \/ \E q \in Pages \ {p} : \/ Open(q) \/ Close(q) \/ PageOrdersNothing(q) \/ Receive(q)
                                       \/ \E order \in PageMenu :
                                            PageOrders(q, order) \/ PageOrdersOffline(q, order)
             \/ \E q \in Pages : ServeNewUser(q) \/ ServeOrderThrows(q)
             \/ \E u \in Bots : OpenBot(u)
             \/ StartMarket
             \/ \E symbol \in Symbols : Quote(symbol)
    <3>1. page'[p] = page[p]
      <4>1. ASSUME NEW q \in Pages \ {p},
                   \/ Open(q) \/ Close(q) \/ PageOrdersNothing(q) \/ Receive(q)
                   \/ \E order \in PageMenu : PageOrders(q, order) \/ PageOrdersOffline(q, order)
            PROVE  page'[p] = page[p]
        BY <1>0, <4>1 DEF Open, Close, PageOrdersNothing, PageOrdersOffline, Receive,
           PageOrders, TInv, PagesAreGood
      <4>2. ASSUME \/ \E q \in Pages : ServeNewUser(q) \/ ServeOrderThrows(q)
                   \/ \E u \in Bots : OpenBot(u)
                   \/ StartMarket
                   \/ \E symbol \in Symbols : Quote(symbol)
            PROVE  page'[p] = page[p]
        BY <4>2 DEF ServeNewUser, ServeOrderThrows, OpenBot, StartMarket, Quote, webVars
      <4> QED
        BY <2>6, <4>1, <4>2
    <3> QED
      BY <1>0, <1>4, <2>6, <3>1, IdleStays
  <2> QED
    BY <1>0, <1>4, <2>1, <2>2, <2>3, <2>4, <2>5, <2>6, TradingSteps
<1> QED
  BY <1>1, <1>2, <1>3, <1>4

\* An order that comes in has the ID and the user it was sent with.
LEMMA ComesAs ==
  ASSUME TInv, NEW user \in Users, NEW order \in Orders, NEW symbol \in Symbols,
         NEW id \in OrderIDs, Place(user, order, symbol, id), Ids' # Ids
  PROVE  placed'[Len(placed) + 1].id = id /\ placed'[Len(placed) + 1].user = user
PROOF
<1>1. symbol \in listed /\ AcceptOrder(user, order, symbol, id)
  <2>1. placed' # placed
    BY DEF Ids
  <2>2. CASE symbol \notin listed
    BY <2>1, <2>2 DEF Place, RejectOrder, bookVars
  <2>3. CASE symbol \in listed
    BY <2>3 DEF Place
  <2> QED
    BY <2>2, <2>3
<1>2. user \in Senders /\ user # NoUser /\ TypeOK
  BY SendersAreUsers, UsersAssumption DEF TInv
<1>3. Accepts(user, order, symbol, id)
  BY <1>1, <1>2, Accepted
<1>4. placed'[Len(placed) + 1] = NewOrder(id, user, symbol, order)
  BY <1>3 DEF Accepts
<1> QED
  BY <1>4 DEF NewOrder

\* What a page hears of came under IDs that it or its user's bot used up.
LEMMA HeardStep ==
  ASSUME NEW p, GoesOn(p), InOrder(p)'
  PROVE  HeardAreKnown(p)'
PROOF
<1>0. /\ p \in Pages /\ TInv /\ TradingNext /\ BotsCount
      /\ BotIDs(p) \subseteq BotIDs(p)'
  BY StepFacts, BotsStep
<1>1. SUFFICES ASSUME NEW o \in HeardOf(p)' PROVE Known(page[p], BotIDs(p), placed[o].id)'
  BY DEF HeardAreKnown
<1>2. o > since' /\ o \in Ids' /\ placed'[o].user = UserOf[p]
  BY DEF HeardOf
<1>3. ~Open(p)
  <2> SUFFICES ASSUME Open(p) PROVE FALSE
    OBVIOUS
  <2>1. placed' = placed /\ since' = Len(placed) /\ Len(placed) \in Nat
    BY <1>0 DEF Open, NewServer, TInv, TypeOK
  <2> QED
    BY <1>2, <2>1 DEF Ids
<1>4. InOrder(p) /\ UsedUp(page[p]) \subseteq UsedUp(page'[p]) /\ HeardAreKnown(p)
  BY <1>3, InOrderBefore DEF GoesOn
<1>5. CASE o \in HeardOf(p) /\ placed'[o] = placed[o]
  <2>1. Known(page[p], BotIDs(p), placed[o].id)
    BY <1>4, <1>5 DEF HeardAreKnown
  <2> QED
    BY <1>0, <1>4, <1>5, <2>1 DEF Known
<1>6. CASE o = Len(placed) + 1 /\ Ids' # Ids
  <2>1. ASSUME NEW q \in Pages, ServeOrder(q) PROVE placed'[o].id \in UsedUp(page[p])
    <3>1. PICK user \in Users, order \in Orders, symbol \in Symbols, id \in OrderIDs :
            /\ Place(user, order, symbol, id)
            /\ user = UserOf[p] => id \in UsedUp(page[p])
      BY <1>4, <2>1, ReadOrder
    <3> QED
      BY <1>0, <1>2, <1>6, <3>1, ComesAs
  <2>2. ASSUME NEW u \in Bots, NEW order \in BotMenu, BotOrders(u, order)
        PROVE  placed'[o].id \in BotIDs(p)'
    <3>1. u \in Users /\ botID[u] \in OrderIDs /\ order \in Orders
      BY <2>2, BotsAssumption, MenuAssumption DEF BotOrders
    <3>2. PICK symbol \in Symbols : Place(u, order, symbol, botID[u])
      BY <2>2 DEF BotOrders
    <3>3. placed'[o].id = botID[u] /\ u = UserOf[p]
      BY <1>0, <1>2, <1>6, <3>1, <3>2, ComesAs
    <3> QED
      BY <1>0, <2>2, <3>3, BotIDTaken
  <2>3. \/ \E q \in Pages : ServeOrder(q)
        \/ \E u \in Bots, order \in BotMenu : BotOrders(u, order)
    <3>1. placed' # placed
      BY <1>6 DEF Ids
    <3> QED
      BY <1>0, <3>1, TradingSteps DEF Open, Close, PageOrdersNothing,
         PageOrdersOffline, PageOrders, ServeNewUser, ServeOrderThrows, Receive, OpenBot,
         BotCancels, CancelOrder, Quote, ExchangeStep, CallStep, Match, FinishMatching,
         Settle, SettleThrows, EndPlaceOrder, SendResponses, StartMarket, Start,
         exchangeVars, bookVars
  <2> QED
    BY <1>4, <2>1, <2>2, <2>3 DEF Known
<1> QED
  BY <1>0, <1>5, <1>6, HeardStays

\* A step puts nothing into a book but the order that is handled, and handles no
\* order again.
LEMMA NothingComesBack ==
  ASSUME TypeOK, ExchangeMove, NEW o \in Ids, o # taker
  PROVE  /\ o # taker'
         /\ o \in book'[placed[o].symbol] => o \in book[placed[o].symbol]
PROOF
<1>0. /\ book \in [Symbols -> SUBSET Ids] /\ placed[o].symbol \in Symbols
      /\ Len(placed) \in Nat /\ o \in 1..Len(placed) /\ o # NoOrder /\ o # Len(placed) + 1
  BY ObjectFields DEF TypeOK, Ids, NoOrder
<1>1. CASE UNCHANGED exchangeVars \/ Cleared
  BY <1>1 DEF exchangeVars, bookVars, Cleared
<1>2. CASE Replaced \/ Start
  BY <1>0, <1>2 DEF Replaced, Start
<1>3. ASSUME NEW user, NEW order, NEW symbol, NEW id, Called(user, order, symbol, id)
      PROVE  o # taker' /\ book' = book
  BY <1>0, <1>3 DEF Called, AcceptOrder, RejectOrder, bookVars
<1>4. ASSUME NEW user, NEW id, CancelOrder(user, id)
      PROVE  taker' = taker /\ (o \in book'[placed[o].symbol] => o \in book[placed[o].symbol])
  BY <1>0, <1>4 DEF CancelOrder
<1>5. CASE CallStep
  <2>1. ASSUME NEW maker \in Ids, Match(maker)
        PROVE  taker' = taker /\ (o \in book'[placed[o].symbol] => o \in book[placed[o].symbol])
    <3>1. taker' = taker /\ \E symbol : book' \in {book, [book EXCEPT ![symbol] = @ \ {maker}]}
      BY <2>1 DEF Match
    <3> QED
      BY <1>0, <3>1
  <2>2. ASSUME FinishMatching
        PROVE  taker' = taker /\ (o \in book'[placed[o].symbol] => o \in book[placed[o].symbol])
    BY <1>0, <2>2 DEF FinishMatching
  <2>3. ASSUME Settle \/ SettleThrows \/ EndPlaceOrder
        PROVE  taker' \in {taker, NoOrder} /\ book' = book
    BY <2>3 DEF Settle, SettleThrows, EndPlaceOrder, bookVars
  <2> QED
    BY <1>0, <1>5, <2>1, <2>2, <2>3 DEF CallStep
<1> QED
  BY <1>1, <1>2, <1>3, <1>4, <1>5 DEF ExchangeMove

\* What was taken out of its book stays out of it.
LEMMA GoneStep ==
  ASSUME TInv, IInv, TakenIsGone, TradingNext
  PROVE  TakenIsGone'
PROOF
<1>0. TypeOK /\ ExchangeMove /\ takenAway \subseteq Ids /\ \A o \in Ids : placed'[o] = placed[o]
  BY HandlersMove, OrdersStay DEF TInv
<1>1. ASSUME NEW o \in takenAway PROVE o # taker' /\ o \notin book'[placed'[o].symbol]
  <2>1. o \in Ids /\ o # taker /\ o \notin book[placed[o].symbol]
    BY <1>0, <1>1 DEF TakenIsGone
  <2> QED
    BY <1>0, <2>1, NothingComesBack
<1>2. ASSUME NEW u \in Bots, NEW id \in OrderIDs, BotCancels(u, id),
             NEW o \in TakenFrom({i \in Ids : placed[i].user # u})
      PROVE  o # taker' /\ o \notin book'[placed'[o].symbol]
  <2>1. o \in Ids /\ o \notin book'[placed[o].symbol]
    BY DEF TakenFrom
  <2>2. taker' = NoOrder /\ NoOrder \notin Ids
    BY <1>2, IdleIs, IndexFacts DEF BotCancels, CancelOrder
  <2> QED
    BY <1>0, <2>1, <2>2
<1>3. \/ takenAway' = takenAway
      \/ \E u \in Bots, id \in OrderIDs : BotCancels(u, id)
  BY TradingSteps DEF Open, Close, PageOrdersNothing, PageOrdersOffline, PageOrders,
     ServeNewUser, ServeOrder, ServeOrderThrows, Receive, OpenBot, BotOrders,
     StartMarket, Quote, ExchangeStep, SendResponses
<1>4. CASE takenAway' = takenAway
  BY <1>1, <1>4 DEF TakenIsGone
<1>5. ASSUME NEW u \in Bots, NEW id \in OrderIDs, BotCancels(u, id) PROVE TakenIsGone'
  <2>1. takenAway' = takenAway \cup TakenFrom({i \in Ids : placed[i].user # u})
    BY <1>5 DEF BotCancels
  <2> QED
    BY <1>1, <1>2, <1>5, <2>1 DEF TakenIsGone
<1> QED
  BY <1>3, <1>4, <1>5

\* At first no page was told of anything, and no order was placed.
LEMMA TableStarts ==
  ASSUME TradingInit
  PROVE  TableInv
PROOF
<1>1. /\ placed = << >> /\ responses = << >> /\ trades = << >> /\ phase = "idle"
      /\ listed \in {{}, Symbols} /\ since = 0 /\ takenAway = {}
      /\ botID = [u \in Users |-> 0]
  BY DEF TradingInit, Init
<1>2. /\ \A p \in Pages : /\ page[p] = NewPage /\ outbox[p] = << >> /\ inbox[p] = << >>
  BY DEF TradingInit
<1>3. Ids = {}
  <2>1. Len(<< >>) = 0
    OBVIOUS
  <2> QED
    BY <1>1, <2>1 DEF Ids
<1>4. MarketIsOpen
  <2>1. Len(placed) = 0
    BY <1>1
  <2> QED
    BY <1>1, <2>1 DEF MarketIsOpen
<1>5. RestIsBooked
  BY <1>1 DEF RestIsBooked
<1>6. NothingWaits
  BY <1>2 DEF NothingWaits
<1>7. ASSUME NEW p \in Pages PROVE PageInStep(p)
  <2>1. SeenIDs(p) = {} /\ LostIDs(p) = {}
    <3>1. botID[UserOf[p]] = 0
      BY <1>1, UserOfAssumption
    <3>2. BotIDs(p) = {}
      BY <3>1 DEF BotIDs
    <3> QED
      BY <1>3, <3>2 DEF SeenIDs, PlacedIDs, LostIDs
  <2>2. Sound(page[p], outbox[p], << >>, SeenIDs(p), LostIDs(p))
    <3>1. Len(<< >>) = 0
      OBVIOUS
    <3>2. \A i \in 1..Len(outbox[p]) : outbox[p][i].kind # "order"
      BY <1>2, <3>1
    <3> QED
      BY <1>2, <2>1, <3>2, SoundAtFirst
  <2>3. IsPending(p, << >>)
    <3>1. << >> \in Seq(Mail)
      OBVIOUS
    <3>2. IsFeed(<< >>, placed, responses, trades)
      BY <1>1, FeedNothing
    <3>3. Joins(<< >>, inbox[p], << >>, UserOf[p], ListedTimes(p))
      <4>1. PICK queue, u, k : queue = << >> /\ u = UserOf[p] /\ k = ListedTimes(p)
        OBVIOUS
      <4> HIDE DEF Mail
      <4>2. Joins(queue, queue, << >>, u, k)
        BY <3>1, <4>1, JoinsNothing
      <4> QED
        BY <1>2, <4>1, <4>2
    <3> QED
      BY <3>2, <3>3 DEF IsPending
  <2> QED
    BY <1>3, <2>2, <2>3 DEF PageInStep
<1>8. TakenIsGone
  BY <1>1 DEF TakenIsGone
<1>9. BotsCount
  BY <1>1, BotsAssumption DEF BotsCount
<1>10. \A p \in Pages : HeardAreKnown(p)
  BY <1>3 DEF HeardAreKnown, HeardOf
<1> QED
  BY <1>4, <1>5, <1>6, <1>7, <1>8, <1>9, <1>10 DEF TableInv, Surroundings

\* Every step keeps it.
LEMMA TableStep ==
  ASSUME TInv, TInv', IInv, IInv', TakerIsTold, TableInv, TradingNext
  PROVE  TableInv'
PROOF
<1>1. Surroundings'
  BY MarketStep, RestStep, WaitsStep, GoneStep, BotsStep DEF TableInv, Surroundings
<1>2. ASSUME NEW p \in Pages, OnlyWindow(p)', InOrder(p)'
      PROVE  PageInStep(p)' /\ HeardAreKnown(p)'
  <2>1. OnlyWindow(p)
    BY <1>2 DEF OnlyWindow
  <2>2. GoesOn(p)
    BY <2>1 DEF GoesOn, TableInv
  <2> QED
    BY <1>2, <2>2, InStepGoesOn, HeardStep
<1> QED
  BY <1>1, <1>2 DEF TableInv

\* Nothing of it changes when nothing changes.
LEMMA TableStays ==
  ASSUME TableInv, UNCHANGED tradingVars
  PROVE  TableInv'
PROOF
<1>1. /\ UNCHANGED <<placed, qty, book, listed, phase, taker, trades, responses>>
      /\ UNCHANGED <<nameOf, sessionIDs, page, inbox, session, outbox, joined, since>>
      /\ UNCHANGED <<takenAway, botID>>
  BY DEF tradingVars, exchangeVars, clientVars, webVars, bookVars, envVars
<1>2. Surroundings'
  BY <1>1 DEF TableInv, Surroundings, MarketIsOpen, RestIsBooked, NothingWaits, TakenIsGone,
     BotsCount
<1>3. Ids' = Ids
  BY <1>1 DEF Ids
<1>4. ASSUME NEW p, PageInStep(p) PROVE PageInStep(p)'
  <2>1. PICK w : /\ IsPending(p, w)
                 /\ Sound(page[p], outbox[p], w, SeenIDs(p), LostIDs(p))
                 /\ \A o \in Ids : Tracked(p, o) => OrderInStep(p, w, o)
    BY <1>4 DEF PageInStep
  <2>2. ListedTimes(p)' = ListedTimes(p)
    BY <1>1 DEF ListedTimes
  <2>3. IsPending(p, w)'
    BY <1>1, <2>1, <2>2 DEF IsPending
  <2>4. \A o : Tracked(p, o)' <=> Tracked(p, o)
    BY <1>1, <1>3 DEF Tracked, HeardOf, Registered
  <2>5. SeenIDs(p)' = SeenIDs(p) /\ LostIDs(p)' = LostIDs(p)
    BY <1>1, <1>3, <2>4 DEF SeenIDs, PlacedIDs, LostIDs, BotIDs
  <2>6. \A o : OrderInStep(p, w, o) => OrderInStep(p, w, o)'
    <3>1. \A o : StageOf(o)' = StageOf(o)
      BY <1>1, StageStays
    <3> QED
      BY <1>1, <2>2, <3>1 DEF OrderInStep
  <2> QED
    BY <1>1, <1>3, <2>1, <2>3, <2>4, <2>5, <2>6 DEF PageInStep
<1>5. ASSUME NEW p, HeardAreKnown(p) PROVE HeardAreKnown(p)'
  <2>1. HeardOf(p)' = HeardOf(p) /\ BotIDs(p)' = BotIDs(p)
    BY <1>1, <1>3 DEF HeardOf, BotIDs
  <2> QED
    BY <1>1, <1>5, <2>1 DEF HeardAreKnown
<1> QED
  BY <1>1, <1>2, <1>4, <1>5 DEF TableInv, OnlyWindow, InOrder, OwnIDs

\* The whole invariant holds throughout, as long as no two orders come under
\* the same ID.
TableHolds == AnswerInv /\ (UniqueIDs => TableInv)

LEMMA TableHoldsAlways == TradingSpec => []TableHolds
PROOF
<1>1. TradingInit => TableHolds
  BY TableStarts, AnswersStart DEF TableHolds
<1>2. TableHolds /\ [TradingNext]_tradingVars => TableHolds'
  <2> SUFFICES ASSUME TableHolds, [TradingNext]_tradingVars PROVE TableHolds'
    OBVIOUS
  <2>1. AnswerInv /\ AnswerInv' /\ TInv /\ TInv' /\ TypeOK
    BY AnswersKept DEF TableHolds, AnswerInv, TInv
  <2>2. SUFFICES ASSUME UniqueIDs' PROVE TableInv'
    BY <2>1 DEF TableHolds
  <2>3. UniqueIDs
    BY <2>1, <2>2, HandlersMove, SharedStays DEF TInv
  <2>4. IInv /\ IInv' /\ TakerIsTold /\ TableInv
    BY <2>1, <2>2, <2>3 DEF AnswerInv, TableHolds
  <2>5. CASE TradingNext
    BY <2>1, <2>4, <2>5, TableStep
  <2>6. CASE UNCHANGED tradingVars
    BY <2>4, <2>6, TableStays
  <2> QED
    BY <2>5, <2>6
<1> QED
  BY <1>1, <1>2, PTL DEF TradingSpec

\* When everything is handled, an order that a page heard of is shown as it is.
LEMMA QuietIsInStep ==
  ASSUME TableHolds, NEW p \in Pages, Quiet(p), InOrder(p), DistinctIDs, OnlyWindow(p),
         NEW o \in HeardOf(p), placed[o].type = Limit
  PROVE  LET e == EntryAt(page[p], placed[o].id)
             stage == IF RestsForItsUser(o) THEN "rests" ELSE "over"
         IN  /\ e # NoEntry <=> placed[o].id \in DOMAIN page[p].orders
             /\ e # NoEntry =>
                  e.filled = Cardinality(Listings(session[p], UserOf[p])) * (placed[o].size - qty[o])
             /\ placed[o].size > 0 => EntryIsRight(e, stage, qty[o])
PROOF
<1>0. TInv /\ UniqueIDs /\ IInv /\ TableInv
  BY DEF TableHolds, AnswerInv, DistinctIDs, UniqueIDs
<1>1. /\ Idle /\ Registered(p) /\ outbox[p] = << >> /\ inbox[p] = << >>
      /\ o \in Ids
  BY DEF Quiet, Registered, HeardOf
<1>2. PICK w : /\ IsPending(p, w)
               /\ Sound(page[p], outbox[p], w, SeenIDs(p), LostIDs(p))
               /\ \A i \in Ids : Tracked(p, i) => OrderInStep(p, w, i)
  BY <1>0 DEF TableInv, PageInStep
<1>3. w = << >>
  BY <1>0, <1>1, <1>2, IdlePending
<1>4. Tracked(p, o)
  BY <1>1 DEF Tracked
<1>5. PICK x, e, k, stage, size, left :
        /\ x = placed[o].id /\ e = EntryAt(page[p], x) /\ k = ListedTimes(p)
        /\ stage = StageOf(o) /\ size = placed[o].size /\ left = qty[o]
  OBVIOUS
<1>6. /\ e \in Entry /\ k \in Nat /\ size \in Int /\ left \in Int
  BY <1>0, <1>1, <1>5, PageFacts
<1>7. stage = (IF RestsForItsUser(o) THEN "rests" ELSE "over") /\ stage # "fresh"
  BY <1>0, <1>1, <1>5, IdleIs
<1>8. InStep(e, << >>, x, k, stage, size, left)
  BY <1>1, <1>2, <1>3, <1>4, <1>5 DEF OrderInStep
<1>9. /\ e # NoEntry => e.filled = k * (size - left)
      /\ size > 0 => EntryIsRight(e, stage, left)
  BY <1>6, <1>7, <1>8, InStepAtLast
<1>10. e # NoEntry <=> x \in DOMAIN page[p].orders
  BY <1>2, <1>5 DEF Sound, RowsAreGood, EntryAt, NoEntry
<1>11. k = Cardinality(Listings(session[p], UserOf[p]))
  BY <1>5 DEF ListedTimes, Listings, PlacesIn
<1> QED
  BY <1>5, <1>7, <1>9, <1>10, <1>11

\* A page that has handled all its messages, and is below the IDs of its user's
\* bot, shows an order as live exactly when it rests or another user's bot took
\* it out of the book, with what is left of it: whoever of its user placed or
\* cancelled it, and whatever trades, cancels of others, refused or unread
\* orders, new servers, starts of the market and reconnections there were.
THEOREM TableIsTrue == TradingSpec => []TableTellsWhatRests
PROOF
<1>1. TableHolds => TableTellsWhatRests
  <2> SUFFICES ASSUME TableHolds, NEW p \in Pages, Quiet(p), ~page[p].broken, DistinctIDs,
                      OnlyWindow(p), OwnIDs(p), NEW o \in HeardOf(p),
                      placed[o].type = Limit, placed[o].size > 0
               PROVE  LET known == placed[o].id \in DOMAIN page[p].orders
                      IN /\ RestsForItsUser(o) <=> known /\ Live(Shown(p, o))
                         /\ RestsForItsUser(o) => Shown(p, o).remaining = qty[o]
    BY DEF TableTellsWhatRests
  <2>0. InOrder(p)
    BY DEF InOrder
  <2>1. PICK e, stage :
          /\ e = EntryAt(page[p], placed[o].id)
          /\ stage = IF RestsForItsUser(o) THEN "rests" ELSE "over"
    OBVIOUS
  <2>2. /\ e # NoEntry <=> placed[o].id \in DOMAIN page[p].orders
        /\ EntryIsRight(e, stage, qty[o])
    BY <2>0, <2>1, QuietIsInStep
  <2>3. placed[o].id \in DOMAIN page[p].orders => e = Shown(p, o)
    BY <2>1 DEF EntryAt, Shown
  <2>4. Done(NoEntry)
    BY DEF Done, NoEntry
  <2> QED
    BY <2>1, <2>2, <2>3, <2>4 DEF EntryIsRight, Live
<1> QED
  BY <1>1, TableHoldsAlways, PTL

\* What such a page says was filled of an order was filled of it, once for
\* every time its session is listed for the user.
THEOREM FillsAreCounted == TradingSpec => []FilledOncePerListing
PROOF
<1>1. TableHolds => FilledOncePerListing
  <2> SUFFICES ASSUME TableHolds, NEW p \in Pages, Quiet(p), ~page[p].broken, DistinctIDs,
                      OnlyWindow(p), OwnIDs(p), NEW o \in HeardOf(p),
                      placed[o].type = Limit, placed[o].id \in DOMAIN page[p].orders
               PROVE  Shown(p, o).filled =
                        Cardinality(Listings(session[p], UserOf[p])) * (placed[o].size - qty[o])
    BY DEF FilledOncePerListing
  <2>0. InOrder(p)
    BY DEF InOrder
  <2>1. PICK e : e = EntryAt(page[p], placed[o].id)
    OBVIOUS
  <2>2. e # NoEntry /\ (e # NoEntry =>
          e.filled = Cardinality(Listings(session[p], UserOf[p])) * (placed[o].size - qty[o]))
    BY <2>0, <2>1, QuietIsInStep
  <2>3. e = Shown(p, o)
    BY <2>1 DEF EntryAt, Shown
  <2> QED
    BY <2>2, <2>3
<1> QED
  BY <1>1, TableHoldsAlways, PTL
=============================================================================
