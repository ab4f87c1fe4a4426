--------------------------- MODULE FiguresProofs ---------------------------
(***************************************************************************)
(* The registers whose figures are the end of a walk, for every instance:  *)
(* a sale that goes through the lots, the interest of a hand loan that     *)
(* goes through its repayments, what is owed on a borrowing that goes      *)
(* through its payments, a balance that goes through its months.           *)
(*                                                                         *)
(* Each walk is shown to exist and to end at the figure; what is true at   *)
(* every place of it is then shown by counting its steps.                  *)
(*                                                                         *)
(* Lots: where the loop has come to, all lots so far are used up as long   *)
(* as anything is wanted; the books the loop meets are those of whole      *)
(* lots, which selling and undoing keep.                                   *)
(*                                                                         *)
(* Hand loans: between two repayments the same principal is outstanding    *)
(* every day, so a span earns what its days earn, and the spans meet.      *)
(*                                                                         *)
(* Borrowings: payments of one day may be walked over in any order, so     *)
(* what is owed is a function of the set of payments; a payment more       *)
(* leaves no more owed at its place and, the order between two walks being *)
(* kept by every later payment, no more at the end.  That they are a       *)
(* passbook rests on how payments are saved: an id is made of terms that   *)
(* can be entered, every request but a payment leaves the payments, and a  *)
(* payment is added as what it is, so that one told twice is one.          *)
(*                                                                         *)
(* Deposits: what an account has come to a month later is what it came to  *)
(* with a month's interest and the month's instalment, whichever of the    *)
(* five kinds it is, and closing and maturity only end that.               *)
(***************************************************************************)
EXTENDS Registers, SumTheorems, SequenceTheorems
---------------------------------------------------------------------------
FifoLot == [date : Nat, qty : Nat, remaining : Nat]
\* The lots of the book are whole.
BookKept == book \in Seq(FifoLot)
\* What the loop of allocateFifo carries from lot to lot.
Taking == [outstanding : Nat, taken : [Fifo!Lots -> Nat]]

\* The lots of a book are its places.
LEMMA LotsNumbered ==
  ASSUME BookKept
  PROVE  /\ Len(book) \in Nat
         /\ Fifo!Lots = 1..Len(book)
         /\ IsFiniteSet(Fifo!Lots)
         /\ Cardinality(Fifo!Lots) = Len(book)
         /\ \A l \in Fifo!Lots : book[l] \in FifoLot
<1>1. Len(book) \in Nat /\ DOMAIN book = 1..Len(book)
  BY DEF BookKept
<1>2. Fifo!Lots = 1..Len(book)
  BY <1>1 DEF Fifo!Lots
<1>3. \A l \in Fifo!Lots : book[l] \in FifoLot
  BY <1>2 DEF BookKept
<1>4. \A n \in Nat : IsFiniteSet(1..n) /\ Cardinality(1..n) = n
  BY FS_Interval
<1>5. QED
  BY <1>1, <1>2, <1>3, <1>4

\* Taking from a lot leaves whole numbers.
LEMMA TakeKept ==
  ASSUME BookKept, NEW acc \in Taking, NEW l \in Fifo!Lots
  PROVE  Fifo!Take(acc, l) \in Taking
<1>1. book[l].remaining \in Nat
  BY LotsNumbered DEF FifoLot
<1>2. Fifo!Smaller(book[l].remaining, acc.outstanding) \in Nat
      /\ Fifo!Smaller(book[l].remaining, acc.outstanding) <= acc.outstanding
  BY <1>1 DEF Taking, Fifo!Smaller
<1>3. QED
  BY <1>2 DEF Taking, Fifo!Take

\* The sums of the register are those of the lemmas.
LEMMA SameSum ==
  ASSUME NEW f, NEW D
  PROVE  Fifo!SumFunctionOnSet(f, D) = SumFunctionOnSet(f, D)
  BY DEF Fifo!SumFunctionOnSet, Fifo!FoldFunctionOnSet, Fifo!MapThenFoldSet,
    SumFunctionOnSet, FoldFunctionOnSet, MapThenFoldSet

\* What is available is whole.
LEMMA AvailableWhole ==
  ASSUME BookKept
  PROVE  Fifo!Available \in Nat
<1> DEFINE f == [l \in Fifo!Lots |-> book[l].remaining]
<1>1. IsFiniteSet(DOMAIN f) /\ \A l \in DOMAIN f : f[l] \in Nat
  BY LotsNumbered DEF FifoLot
<1> HIDE DEF f
<1>2. SumFunctionOnSet(f, DOMAIN f) \in Nat
  BY <1>1, SumNat
<1>3. Fifo!Available = SumFunctionOnSet(f, DOMAIN f)
  BY SameSum DEF Fifo!Available, Fifo!SumFunction, f
<1>4. QED
  BY <1>2, <1>3

\* What the loop goes through.
FifoWalk(h, wanted, s) ==
  /\ h[0] = [outstanding |-> wanted, taken |-> Fifo!Nothing]
  /\ \A i \in 1..Len(book) : h[i] = Fifo!Take(h[i - 1], s[i])

\* The loop of allocateFifo is a walk over the lots in order.
LEMMA LoopWalks ==
  ASSUME BookKept, NEW wanted \in Nat \ {0}, Fifo!Available >= wanted,
         Fifo!Ordered \in [1..Len(book) -> Fifo!Lots]
  PROVE  \E h \in [0..Len(book) -> Taking] :
           /\ FifoWalk(h, wanted, Fifo!Ordered)
           /\ Fifo!AllocateFifo(wanted) = Fifo!Ok(h[Len(book)].taken)
<1> DEFINE n == Len(book)
           s == Fifo!Ordered
           base == [outstanding |-> wanted, taken |-> Fifo!Nothing]
           step == [i \in 1..n |-> [acc \in Taking |-> Fifo!Take(acc, s[i])]]
           top == [t \in SUBSET (1..n) |-> Fifo!Max(t)]
           Eqn(f) == f = [t \in SUBSET DOMAIN s |->
                           IF t = {} THEN base
                           ELSE Fifo!Take(f[t \ {Fifo!Max(t)}], s[Fifo!Max(t)])]
           C == CHOOSE f : Eqn(f)
<1>1. n \in Nat /\ base \in Taking
  BY LotsNumbered DEF Taking, Fifo!Nothing
<1>2. step \in [1..n -> [Taking -> Taking]]
  <2>1. ASSUME NEW i \in 1..n, NEW acc \in Taking
        PROVE  Fifo!Take(acc, s[i]) \in Taking
    BY TakeKept
  <2>2. QED
    BY <2>1
<1>3. Greatest(top, n)
  BY <1>1, GreatestPlace DEF Greatest, Fifo!Max
<1>4. DOMAIN s = 1..n
  OBVIOUS
<1>5. Fifo!AllocateFifo(wanted) = Fifo!Ok(C[DOMAIN s].taken)
  <2>1. ~(wanted = 0 \/ Fifo!Available < wanted)
    BY AvailableWhole
  <2>2. QED
    BY <2>1 DEF Fifo!AllocateFifo, Fifo!FoldLeft, Fifo!MapThenFoldSet
<1>6. \E f : Eqn(f)
  <2>1. PICK g \in [SUBSET (1..n) -> Taking] : FoldTable(g, base, n, step, top)
    <3> HIDE DEF n, base, step, top
    <3>1. QED
      BY <1>1, <1>2, <1>3, FoldTableExists
  <2>2. ASSUME NEW t \in SUBSET (1..n)
        PROVE  g[t] = IF t = {} THEN base
                      ELSE Fifo!Take(g[t \ {Fifo!Max(t)}], s[Fifo!Max(t)])
    <3>1. g[t] = IF t = {} THEN base ELSE step[top[t]][g[t \ {top[t]}]]
      BY <2>1 DEF FoldTable
    <3>2. ASSUME t # {}
          PROVE  step[top[t]][g[t \ {top[t]}]] = Fifo!Take(g[t \ {Fifo!Max(t)}], s[Fifo!Max(t)])
      <4>1. top[t] = Fifo!Max(t) /\ top[t] \in 1..n
        BY <1>3, <3>2 DEF Greatest
      <4>2. g[t \ {top[t]}] \in Taking
        BY <2>1
      <4> HIDE DEF top
      <4>3. QED
        BY <4>1, <4>2
    <3> HIDE DEF step, top, base
    <3>3. QED
      BY <3>1, <3>2
  <2>3. g = [t \in SUBSET (1..n) |-> g[t]]
    BY <2>1
  <2> HIDE DEF n, base, s
  <2>4. g = [t \in SUBSET (1..n) |-> IF t = {} THEN base
                                     ELSE Fifo!Take(g[t \ {Fifo!Max(t)}], s[Fifo!Max(t)])]
    BY <2>2, <2>3
  <2>5. Eqn(g)
    BY <1>4, <2>4
  <2>6. QED
    BY <2>5
<1>7. Eqn(C)
  <2> HIDE DEF Eqn
  <2>1. QED
    BY <1>6
<1>8. C[{}] = base /\ C[DOMAIN s] = C[1..n]
  <2>1. {} \in SUBSET DOMAIN s
    OBVIOUS
  <2> HIDE DEF C, base, n, s
  <2>2. QED
    BY <1>4, <1>7, <2>1
<1>9. ASSUME NEW t \in SUBSET (1..n), t # {}, C[t \ {top[t]}] \in Taking
      PROVE  C[t] = step[top[t]][C[t \ {top[t]}]]
  <2>1. C[t] = Fifo!Take(C[t \ {Fifo!Max(t)}], s[Fifo!Max(t)])
    <3> HIDE DEF C, base, n, s
    <3>1. QED
      BY <1>4, <1>7, <1>9
  <2>2. top[t] = Fifo!Max(t) /\ top[t] \in 1..n
    BY <1>3, <1>9 DEF Greatest
  <2> HIDE DEF C, top
  <2>3. QED
    BY <1>9, <2>1, <2>2
<1>10. \E h \in [0..n -> Taking] : Walks(h, base, n, step) /\ h[n] = C[1..n]
  <2>1. C[{}] = base
    BY <1>8
  <2>2. \A t \in SUBSET (1..n) : t # {} /\ C[t \ {top[t]}] \in Taking =>
          C[t] = step[top[t]][C[t \ {top[t]}]]
    <3> HIDE DEF C, base, n, step, top, s
    <3>1. QED
      BY <1>9
  <2> HIDE DEF C, base, n, step, top, s, Eqn
  <2>3. Folds(C, Taking, base, n, step, top)
    BY <2>1, <2>2 DEF Folds
  <2>4. QED
    BY ONLY <1>1, <1>2, <1>3, <2>3, FoldWalks, SMTT(60), ZenonT(60)
<1>11. PICK h \in [0..n -> Taking] : Walks(h, base, n, step) /\ h[n] = C[1..n]
  BY <1>10
<1>12. ASSUME NEW i \in 1..n
      PROVE  h[i] = Fifo!Take(h[i - 1], s[i])
  <2>1. h[i - 1] \in Taking
    BY <1>1, <1>11
  <2>2. h[i] = step[i][h[i - 1]]
    BY <1>11 DEF Walks
  <2>3. QED
    BY <2>1, <2>2
<1> HIDE DEF C
<1>13. FifoWalk(h, wanted, s)
  <2> HIDE DEF s
  <2>1. QED
    BY <1>11, <1>12 DEF FifoWalk, Walks
<1>14. Fifo!AllocateFifo(wanted) = Fifo!Ok(h[Len(book)].taken)
  BY <1>5, <1>8, <1>11
<1>15. QED
  BY <1>11, <1>13, <1>14

\* The register counts as the lemmas do.
LEMMA SameCount == ASSUME NEW S PROVE Fifo!Cardinality(S) = Cardinality(S)
  BY DEF Fifo!Cardinality, Cardinality

\* The lots are gone through oldest first, each once.
LEMMA OrderedIsOrder ==
  ASSUME BookKept
  PROVE  IsOrderOf(Fifo!Ordered, Fifo!Lots, Fifo!Older)
<1>1. \A l \in Fifo!Lots : l \in Nat /\ book[l].date \in Nat
  BY LotsNumbered DEF FifoLot
<1>2. \A l, m \in Fifo!Lots :
        <<l, m>> \in Fifo!Older <=>
          book[l].date < book[m].date \/ (book[l].date = book[m].date /\ l < m)
  BY DEF Fifo!Older
<1>3. \A l, m \in Fifo!Lots : l # m => <<l, m>> \in Fifo!Older \/ <<m, l>> \in Fifo!Older
  BY <1>1, <1>2
<1>4. \A l, m, k \in Fifo!Lots :
        <<l, m>> \in Fifo!Older /\ <<m, k>> \in Fifo!Older => <<l, k>> \in Fifo!Older
  BY <1>1, <1>2
<1>5. IsFiniteSet(Fifo!Lots)
  BY LotsNumbered
<1>6. \E s : IsOrderOf(s, Fifo!Lots, Fifo!Older)
  BY <1>3, <1>4, <1>5, OrderExists
<1> DEFINE Sorted(s) == \A i, j \in DOMAIN s : i < j => <<s[i], s[j]>> \in Fifo!Older
<1>7. ASSUME NEW s
      PROVE  IsOrderOf(s, Fifo!Lots, Fifo!Older) <=> s \in Fifo!SetToSeqs(Fifo!Lots) /\ Sorted(s)
  <2>1. Fifo!SetToSeqs(Fifo!Lots)
          = {f \in [1..Cardinality(Fifo!Lots) -> Fifo!Lots] :
               \A i, j \in 1..Cardinality(Fifo!Lots) : i # j => f[i] # f[j]}
    BY SameCount DEF Fifo!SetToSeqs
  <2>2. QED
    BY <2>1 DEF IsOrderOf
<1>8. Fifo!Ordered = CHOOSE s \in Fifo!SetToSeqs(Fifo!Lots) : Sorted(s)
  BY DEF Fifo!Ordered
<1>9. \E s \in Fifo!SetToSeqs(Fifo!Lots) : Sorted(s)
  BY <1>6, <1>7
<1> HIDE DEF Sorted
<1>10. Fifo!Ordered \in Fifo!SetToSeqs(Fifo!Lots) /\ Sorted(Fifo!Ordered)
  BY <1>8, <1>9
<1>11. QED
  BY <1>7, <1>10

\* After i lots: all of them are used up as long as anything is wanted, and
\* a lot gave something only when those before it gave all they had.
Visited(acc, wanted, s, i) ==
  /\ acc \in Taking
  /\ SumFunctionOnSet(acc.taken, Fifo!Lots) + acc.outstanding = wanted
  /\ \A l \in Fifo!Lots : acc.taken[l] <= book[l].remaining
  /\ \A j \in 1..Len(book) : j > i => acc.taken[s[j]] = 0
  /\ acc.outstanding > 0 => \A j \in 1..Len(book) : j <= i => acc.taken[s[j]] = book[s[j]].remaining
  /\ \A j, k \in 1..Len(book) :
       j < k /\ acc.taken[s[k]] > 0 => acc.taken[s[j]] = book[s[j]].remaining

\* Taking from the next lot keeps what is true so far.
LEMMA VisitLot ==
  ASSUME BookKept, NEW wanted \in Nat, NEW s, IsOrderOf(s, Fifo!Lots, Fifo!Older),
         NEW i \in Nat, i < Len(book), NEW acc, Visited(acc, wanted, s, i)
  PROVE  Visited(Fifo!Take(acc, s[i + 1]), wanted, s, i + 1)
<1> DEFINE n == Len(book)
           l == s[i + 1]
           take == Fifo!Smaller(book[l].remaining, acc.outstanding)
           next == Fifo!Take(acc, l)
<1>1. /\ n \in Nat /\ i + 1 \in 1..n
      /\ \A j \in 1..n : s[j] \in Fifo!Lots /\ book[s[j]].remaining \in Nat
      /\ \A j \in 1..n : j # i + 1 => s[j] # l
  <2>1. n \in Nat /\ Cardinality(Fifo!Lots) = n
    BY LotsNumbered
  <2>2. s \in [1..n -> Fifo!Lots] /\ \A j, k \in 1..n : j # k => s[j] # s[k]
    BY <2>1 DEF IsOrderOf
  <2>3. \A m \in Fifo!Lots : book[m].remaining \in Nat
    BY LotsNumbered DEF FifoLot
  <2> HIDE DEF n
  <2>4. i + 1 \in 1..n
    BY <2>1 DEF n
  <2>5. QED
    BY <2>1, <2>2, <2>3, <2>4
<1>2. /\ acc.outstanding \in Nat
      /\ acc.taken \in [Fifo!Lots -> Nat]
  BY DEF Visited, Taking
<1>3. l \in Fifo!Lots /\ book[l].remaining \in Nat /\ acc.taken[l] = 0
  <2>1. i + 1 > i
    OBVIOUS
  <2>2. QED
    BY <1>1, <2>1 DEF Visited
<1>4. /\ take \in Nat /\ take <= book[l].remaining /\ take <= acc.outstanding
      /\ take < acc.outstanding => take = book[l].remaining
  BY <1>2, <1>3 DEF Fifo!Smaller
<1>5. /\ next.outstanding = acc.outstanding - take
      /\ next.taken = [acc.taken EXCEPT ![l] = take]
      /\ next = [outstanding |-> acc.outstanding - take, taken |-> [acc.taken EXCEPT ![l] = take]]
  BY DEF Fifo!Take
<1> HIDE DEF take, next
<1>6. next.taken \in [Fifo!Lots -> Nat] /\ next.taken[l] = take
      /\ \A m \in Fifo!Lots : m # l => next.taken[m] = acc.taken[m]
  BY <1>2, <1>3, <1>4, <1>5
<1>7. next \in Taking
  <2>1. acc.outstanding - take \in Nat
    BY <1>2, <1>4
  <2>2. QED
    BY <1>5, <1>6, <2>1 DEF Taking
<1>8. SumFunctionOnSet(next.taken, Fifo!Lots) + next.outstanding = wanted
  <2>1. SumFunctionOnSet(next.taken, Fifo!Lots) = SumFunctionOnSet(acc.taken, Fifo!Lots) + take
    <3> DEFINE f == acc.taken
               g == next.taken
    <3>1. IsFiniteSet(Fifo!Lots)
      BY LotsNumbered
    <3>2. \A m \in Fifo!Lots : f[m] \in Int
      BY <1>2
    <3>3. g[l] = f[l] + take /\ take \in Int
      BY <1>3, <1>4, <1>6
    <3>4. \A m \in Fifo!Lots : m # l => g[m] = f[m]
      BY <1>6
    <3> HIDE DEF f, g, l
    <3>5. SumFunctionOnSet(g, Fifo!Lots) = SumFunctionOnSet(f, Fifo!Lots) + take
      BY <1>3, <3>1, <3>2, <3>3, <3>4, SumRaised
    <3>6. QED
      BY <3>5 DEF f, g
  <2>2. SumFunctionOnSet(acc.taken, Fifo!Lots) \in Int
    <3> DEFINE f == acc.taken
    <3>1. IsFiniteSet(Fifo!Lots) /\ \A m \in Fifo!Lots : f[m] \in Int
      BY <1>2, LotsNumbered
    <3> HIDE DEF f
    <3>2. SumFunctionOnSet(f, Fifo!Lots) \in Int
      BY <3>1, SumInt
    <3>3. QED
      BY <3>2 DEF f
  <2>3. SumFunctionOnSet(acc.taken, Fifo!Lots) + acc.outstanding = wanted
    BY DEF Visited
  <2>4. QED
    BY <1>2, <1>4, <1>5, <2>1, <2>2, <2>3
<1>9. \A m \in Fifo!Lots : next.taken[m] <= book[m].remaining
  BY <1>4, <1>6 DEF Visited
<1>10. \A j \in 1..n : j > i + 1 => next.taken[s[j]] = 0
  <2> SUFFICES ASSUME NEW j \in 1..n, j > i + 1
               PROVE  next.taken[s[j]] = 0
    OBVIOUS
  <2>1. j # i + 1 /\ j > i
    OBVIOUS
  <2>2. acc.taken[s[j]] = 0
    BY <2>1 DEF Visited
  <2>3. QED
    BY <1>1, <1>6, <2>1, <2>2
<1>11. ASSUME next.outstanding > 0, NEW j \in 1..n, j <= i + 1
       PROVE  next.taken[s[j]] = book[s[j]].remaining
  <2>1. take < acc.outstanding /\ acc.outstanding > 0
    BY <1>2, <1>4, <1>5, <1>11
  <2>2. CASE j = i + 1
    <3>1. take = book[l].remaining
      BY <1>4, <2>1
    <3>2. QED
      BY <1>6, <2>2, <3>1
  <2>3. CASE j # i + 1
    <3>1. j <= i
      BY <1>11, <2>3
    <3>2. acc.taken[s[j]] = book[s[j]].remaining
      BY <2>1, <3>1 DEF Visited
    <3>3. QED
      BY <1>1, <1>6, <2>3, <3>2
  <2>4. QED
    BY <2>2, <2>3
<1>12. ASSUME NEW j \in 1..n, NEW k \in 1..n, j < k, next.taken[s[k]] > 0
       PROVE  next.taken[s[j]] = book[s[j]].remaining
  <2>1. CASE k = i + 1
    <3>1. acc.outstanding > 0 /\ j <= i /\ j # i + 1
      BY <1>2, <1>4, <1>6, <1>12, <2>1
    <3>2. acc.taken[s[j]] = book[s[j]].remaining
      BY <3>1 DEF Visited
    <3>3. QED
      BY <1>1, <1>6, <3>1, <3>2
  <2>2. CASE k # i + 1
    <3>1. acc.taken[s[k]] = next.taken[s[k]]
      BY <1>1, <1>6, <2>2
    <3>2. ~(k > i)
      <4>1. acc.taken[s[k]] # 0
        BY <1>12, <3>1
      <4>2. QED
        BY <4>1 DEF Visited
    <3>3. j # i + 1
      BY <1>12, <2>2, <3>2
    <3>4. acc.taken[s[j]] = book[s[j]].remaining
      BY <1>12, <3>1 DEF Visited
    <3>5. QED
      BY <1>1, <1>6, <3>3, <3>4
  <2>3. QED
    BY <2>1, <2>2
<1>13. Visited(next, wanted, s, i + 1)
  BY <1>7, <1>8, <1>9, <1>10, <1>11, <1>12 DEF Visited
<1>14. QED
  BY <1>13 DEF next

\* At first nothing is taken.
LEMMA StartLoop ==
  ASSUME BookKept, NEW wanted \in Nat, NEW s, IsOrderOf(s, Fifo!Lots, Fifo!Older)
  PROVE  Visited([outstanding |-> wanted, taken |-> Fifo!Nothing], wanted, s, 0)
<1> DEFINE f == Fifo!Nothing
<1>1. f \in [Fifo!Lots -> Nat] /\ \A l \in Fifo!Lots : f[l] = 0
  BY DEF Fifo!Nothing
<1>2. \A j \in 1..Len(book) : s[j] \in Fifo!Lots
  BY LotsNumbered DEF IsOrderOf
<1> HIDE DEF f
<1>3. SumFunctionOnSet(f, Fifo!Lots) = 0
  BY <1>1, LotsNumbered, SumZero
<1>4. \A l \in Fifo!Lots : f[l] <= book[l].remaining
  BY <1>1, LotsNumbered DEF FifoLot
<1> DEFINE acc == [outstanding |-> wanted, taken |-> f]
<1>5. acc \in Taking /\ acc.taken = f /\ acc.outstanding = wanted
  BY <1>1 DEF Taking
<1> HIDE DEF acc
<1>6. Visited(acc, wanted, s, 0)
  BY <1>1, <1>2, <1>3, <1>4, <1>5 DEF Visited
<1>7. QED
  BY <1>6 DEF acc, f

\* The loop stops at an allocation of all that is wanted.
LEMMA LoopAllocates ==
  ASSUME BookKept, NEW wanted \in Nat \ {0}, Fifo!Available >= wanted
  PROVE  /\ Fifo!AllocateFifo(wanted).ok
         /\ Fifo!AllocateFifo(wanted).taken \in [Fifo!Lots -> Nat]
         /\ Fifo!IsFifo(Fifo!AllocateFifo(wanted).taken, wanted)
<1> DEFINE n == Len(book)
           s == Fifo!Ordered
<1>1. n \in Nat /\ Cardinality(Fifo!Lots) = n /\ IsFiniteSet(Fifo!Lots)
  BY LotsNumbered
<1>2. IsOrderOf(s, Fifo!Lots, Fifo!Older)
  BY OrderedIsOrder
<1>3. /\ s \in [1..n -> Fifo!Lots]
      /\ \A j, k \in 1..n : j < k => <<s[j], s[k]>> \in Fifo!Older
  BY <1>1, <1>2 DEF IsOrderOf
<1>4. PICK h \in [0..n -> Taking] :
        FifoWalk(h, wanted, s) /\ Fifo!AllocateFifo(wanted) = Fifo!Ok(h[n].taken)
  BY <1>3, LoopWalks
<1> HIDE DEF s
<1>5. Visited(h[n], wanted, s, n)
  <2> DEFINE T == {i \in Nat : i <= n => Visited(h[i], wanted, s, i)}
  <2>1. 0 \in T
    <3>1. h[0] = [outstanding |-> wanted, taken |-> Fifo!Nothing]
      BY <1>4 DEF FifoWalk
    <3>2. Visited(h[0], wanted, s, 0)
      BY <1>2, <3>1, StartLoop
    <3>3. QED
      BY <3>2
  <2>2. ASSUME NEW i \in Nat, i \in T
        PROVE  i + 1 \in T
    <3>1. SUFFICES ASSUME i + 1 <= n
                   PROVE  Visited(h[i + 1], wanted, s, i + 1)
      BY <2>2
    <3>2. i < n /\ i + 1 \in 1..n /\ (i + 1) - 1 = i /\ Visited(h[i], wanted, s, i)
      BY <1>1, <2>2, <3>1
    <3>3. h[i + 1] = Fifo!Take(h[i], s[i + 1])
      BY <1>4, <3>2 DEF FifoWalk
    <3>4. QED
      BY <1>2, <3>2, <3>3, VisitLot
  <2> HIDE DEF T
  <2>3. n \in T
    BY <1>1, <2>1, <2>2, Counting
  <2>4. QED
    BY <2>3 DEF T
<1> DEFINE acc == h[n]
           f == acc.taken
           g == [l \in Fifo!Lots |-> book[l].remaining]
<1>6. acc \in Taking /\ f \in [Fifo!Lots -> Nat] /\ acc.outstanding \in Nat
  BY <1>5 DEF Visited, Taking
<1>7. \A l \in Fifo!Lots : \E i \in 1..n : s[i] = l
  BY <1>1, <1>2, OrderHasAll
<1>8. acc.outstanding = 0
  <2> SUFFICES ASSUME acc.outstanding > 0
               PROVE  FALSE
    BY <1>6
  <2>1. \A j \in 1..n : f[s[j]] = book[s[j]].remaining
    BY <1>5 DEF Visited
  <2>2. \A l \in Fifo!Lots : f[l] = g[l]
    BY <1>7, <2>1
  <2>3. DOMAIN g = Fifo!Lots /\ \A l \in Fifo!Lots : g[l] \in Int
    BY LotsNumbered DEF FifoLot
  <2>4. Fifo!Available = SumFunctionOnSet(g, DOMAIN g)
    BY SameSum DEF Fifo!Available, Fifo!SumFunction
  <2>5. SumFunctionOnSet(f, Fifo!Lots) + acc.outstanding = wanted
    BY <1>5 DEF Visited
  <2> HIDE DEF f, g, acc
  <2>6. SumFunctionOnSet(f, Fifo!Lots) = SumFunctionOnSet(g, Fifo!Lots)
    BY <1>1, <2>2, SumSame
  <2>7. SumFunctionOnSet(g, Fifo!Lots) \in Int
    BY <1>1, <2>3, SumInt
  <2>8. Fifo!Available = SumFunctionOnSet(g, Fifo!Lots)
    BY <2>3, <2>4
  <2>9. QED
    BY <1>6, <2>5, <2>6, <2>7, <2>8
<1>9. Fifo!SumFunction(f) = wanted
  <2>1. DOMAIN f = Fifo!Lots
    BY <1>6
  <2>2. SumFunctionOnSet(f, Fifo!Lots) + acc.outstanding = wanted
    BY <1>5 DEF Visited
  <2>3. \A l \in Fifo!Lots : f[l] \in Int
    BY <1>6
  <2> HIDE DEF f, acc
  <2>4. SumFunctionOnSet(f, Fifo!Lots) \in Int
    BY <1>1, <2>3, SumInt
  <2>5. Fifo!SumFunction(f) = SumFunctionOnSet(f, Fifo!Lots)
    BY <2>1, SameSum DEF Fifo!SumFunction
  <2>6. QED
    BY <1>8, <2>2, <2>4, <2>5
<1>10. \A l \in Fifo!Lots : f[l] <= book[l].remaining
  BY <1>5 DEF Visited
<1>11. ASSUME NEW l \in Fifo!Lots, NEW m \in Fifo!Lots, f[l] > 0, book[m].date < book[l].date
       PROVE  f[m] = book[m].remaining
  <2>1. PICK k \in 1..n : s[k] = l
    BY <1>7
  <2>2. PICK j \in 1..n : s[j] = m
    BY <1>7
  <2>3. book[m].date \in Nat /\ book[l].date \in Nat
    BY LotsNumbered DEF FifoLot
  <2>4. j < k
    <3>1. j # k
      BY <1>11, <2>1, <2>2, <2>3
    <3>2. ~(k < j)
      <4> SUFFICES ASSUME k < j PROVE FALSE
        OBVIOUS
      <4>1. <<l, m>> \in Fifo!Older
        BY <1>3, <2>1, <2>2
      <4>2. book[l].date < book[m].date \/ book[l].date = book[m].date
        BY <4>1 DEF Fifo!Older
      <4>3. QED
        BY <1>11, <2>3, <4>2
    <3>3. QED
      BY <3>1, <3>2
  <2>5. QED
    BY <1>5, <1>11, <2>1, <2>2, <2>4 DEF Visited
<1>12. Fifo!IsFifo(f, wanted)
  BY <1>6, <1>9, <1>10, <1>11 DEF Fifo!IsFifo
<1>13. Fifo!AllocateFifo(wanted).ok /\ Fifo!AllocateFifo(wanted).taken = f
  BY <1>4 DEF Fifo!Ok
<1>14. QED
  BY <1>6, <1>12, <1>13

\* So every sale of what is there is first in first out, and no other is allocated.
LEMMA AlwaysFifo ==
  ASSUME BookKept, NEW wanted \in Nat \ {0}
  PROVE  IF Fifo!Available >= wanted
         THEN Fifo!AllocateFifo(wanted).ok /\ Fifo!IsFifo(Fifo!AllocateFifo(wanted).taken, wanted)
         ELSE ~Fifo!AllocateFifo(wanted).ok
<1>1. CASE Fifo!Available >= wanted
  BY <1>1, LoopAllocates
<1>2. CASE ~(Fifo!Available >= wanted)
  <2>1. Fifo!Available < wanted
    BY <1>2, AvailableWhole
  <2>2. QED
    BY <1>2, <2>1 DEF Fifo!AllocateFifo, Fifo!Err
<1>3. QED
  BY <1>1, <1>2
---------------------------------------------------------------------------
\* What the disposals not undone took is counted in whole units.
Takes == UNION {[1..k -> Nat] : k \in Nat}
LotsKept == BookKept /\ sold \in Seq(Takes)

\* A book whose lots are whole one by one is whole.
LEMMA BookOf ==
  ASSUME BookKept, NEW b, b = [l \in Fifo!Lots |-> b[l]], \A l \in Fifo!Lots : b[l] \in FifoLot
  PROVE  b \in Seq(FifoLot)
<1>1. Fifo!Lots = 1..Len(book) /\ Len(book) \in Nat
  BY LotsNumbered
<1>2. b \in [1..Len(book) -> FifoLot]
  BY <1>1
<1>3. QED
  BY <1>1, <1>2, SeqDef

\* A disposal leaves whole lots and is kept as what it took.
LEMMA DisposalKeeps ==
  ASSUME LotsKept, NEW taken \in [Fifo!Lots -> Nat],
         \A l \in Fifo!Lots : taken[l] <= book[l].remaining,
         NEW allocated, allocated.taken = taken, Fifo!Dispose(allocated)
  PROVE  LotsKept'
<1>1. book' = Fifo!Deplete(taken) /\ sold' = Append(sold, taken)
  BY DEF Fifo!Dispose
<1>2. taken \in Takes
  BY LotsNumbered DEF Takes, LotsKept
<1>3. ASSUME NEW l \in Fifo!Lots
      PROVE  [book[l] EXCEPT !.remaining = @ - Fifo!Given(taken, l)] \in FifoLot
  <2>1. book[l] \in FifoLot
    BY LotsNumbered DEF LotsKept
  <2>2. book[l].remaining - Fifo!Given(taken, l) \in Nat
    BY <2>1 DEF Fifo!Given, FifoLot
  <2>3. QED
    BY <2>1, <2>2 DEF FifoLot
<1>4. Fifo!Deplete(taken) \in Seq(FifoLot)
  BY <1>3, BookOf DEF Fifo!Deplete, LotsKept
<1>5. QED
  BY <1>1, <1>2, <1>4 DEF LotsKept, BookKept

\* Undoing the last disposal leaves whole lots.
LEMMA UndoKeeps ==
  ASSUME LotsKept, NEW i \in DOMAIN sold, Fifo!Undo(i)
  PROVE  LotsKept'
<1> DEFINE taken == sold[i]
<1>1. book' = Fifo!Restore(taken) /\ sold' = Fifo!RemoveAt(sold, i)
  BY DEF Fifo!Undo
<1>2. Len(sold) \in Nat /\ i \in 1..Len(sold) /\ \A j \in 1..Len(sold) : sold[j] \in Takes
  BY DEF LotsKept
<1>3. ASSUME NEW l \in Fifo!Lots
      PROVE  [book[l] EXCEPT !.remaining = @ + Fifo!Given(taken, l)] \in FifoLot
  <2>1. book[l] \in FifoLot
    BY LotsNumbered DEF LotsKept
  <2>2. Fifo!Given(taken, l) \in Nat
    BY <1>2 DEF Fifo!Given, Takes
  <2>3. book[l].remaining + Fifo!Given(taken, l) \in Nat
    BY <2>1, <2>2 DEF FifoLot
  <2>4. QED
    BY <2>1, <2>3 DEF FifoLot
<1>4. Fifo!Restore(taken) \in Seq(FifoLot)
  BY <1>3, BookOf DEF Fifo!Restore, LotsKept
<1>5. Fifo!RemoveAt(sold, i) \in Seq(Takes)
  <2>1. i - 1 \in Int /\ i + 1 \in Int /\ Len(sold) \in Int
    BY <1>2
  <2>2. SubSeq(sold, 1, i - 1) \in Seq(Takes)
    <3>1. \A j \in 1..(i - 1) : sold[j] \in Takes
      BY <1>2
    <3>2. QED
      BY <2>1, <3>1, SubSeqProperties
  <2>3. SubSeq(sold, i + 1, Len(sold)) \in Seq(Takes)
    <3>1. \A j \in (i + 1)..Len(sold) : sold[j] \in Takes
      BY <1>2
    <3>2. QED
      BY <2>1, <3>1, SubSeqProperties
  <2>4. QED
    BY <2>2, <2>3, ConcatProperties DEF Fifo!RemoveAt
<1>6. QED
  BY <1>1, <1>4, <1>5 DEF LotsKept, BookKept

\* So does every request.
LEMMA LotsKeptInductive ==
  ASSUME LotsKept, [Fifo!Next]_(Fifo!vars)
  PROVE  LotsKept'
<1>1. ASSUME NEW d \in 1..MaxLotDate, NEW qty \in 0..MaxLotQty, Fifo!Acquire(d, qty)
      PROVE  LotsKept'
  <2>1. [date |-> d, qty |-> qty, remaining |-> qty] \in FifoLot
    BY DEF FifoLot
  <2>2. QED
    BY <1>1, <2>1 DEF LotsKept, BookKept, Fifo!Acquire
<1>2. ASSUME NEW wanted \in Fifo!Qty, Fifo!SellFifo(wanted)
      PROVE  LotsKept'
  <2> DEFINE allocated == Fifo!AllocateFifo(wanted)
  <2>1. Fifo!Dispose(allocated) /\ allocated.ok
    BY <1>2 DEF Fifo!SellFifo, Fifo!Dispose
  <2>2. wanted \in Nat
    BY DEF Fifo!Qty
  <2>3. wanted # 0 /\ Fifo!Available >= wanted
    <3>1. ~(wanted = 0 \/ Fifo!Available < wanted)
      BY <2>1 DEF Fifo!AllocateFifo, Fifo!Err
    <3>2. QED
      BY <2>2, <3>1, AvailableWhole DEF LotsKept
  <2>4. allocated.taken \in [Fifo!Lots -> Nat] /\ Fifo!IsFifo(allocated.taken, wanted)
    BY <2>2, <2>3, LoopAllocates DEF LotsKept
  <2> HIDE DEF allocated
  <2>5. \A l \in Fifo!Lots : allocated.taken[l] <= book[l].remaining
    BY <2>4 DEF Fifo!IsFifo
  <2>6. QED
    BY <2>1, <2>4, <2>5, DisposalKeeps
<1>3. ASSUME NEW l \in 1..MaxLots, NEW wanted \in Fifo!Qty, Fifo!SellSpecific(l, wanted)
      PROVE  LotsKept'
  <2> DEFINE allocated == Fifo!AllocateSpecific(l, wanted)
  <2>1. Fifo!Dispose(allocated) /\ allocated.ok
    BY <1>3 DEF Fifo!SellSpecific, Fifo!Dispose
  <2>2. wanted \in Nat
    BY DEF Fifo!Qty
  <2>3. ~(wanted = 0 \/ l \notin Fifo!Lots \/ book[l].remaining < wanted)
    BY <2>1 DEF Fifo!AllocateSpecific, Fifo!Err
  <2>4. allocated.taken = [Fifo!Nothing EXCEPT ![l] = wanted]
    BY <2>3 DEF Fifo!AllocateSpecific, Fifo!Ok
  <2> HIDE DEF allocated
  <2>5. \A m \in Fifo!Lots : book[m].remaining \in Nat
    BY LotsNumbered DEF LotsKept, FifoLot
  <2>6. /\ allocated.taken \in [Fifo!Lots -> Nat]
        /\ \A m \in Fifo!Lots : allocated.taken[m] <= book[m].remaining
    BY <2>2, <2>3, <2>4, <2>5 DEF Fifo!Nothing
  <2>7. QED
    BY <2>1, <2>6, DisposalKeeps
<1>4. ASSUME NEW i \in DOMAIN sold, Fifo!Undo(i)
      PROVE  LotsKept'
  BY <1>4, UndoKeeps
<1>5. CASE UNCHANGED Fifo!vars
  BY <1>5 DEF Fifo!vars, LotsKept, BookKept
<1>6. QED
  BY <1>1, <1>2, <1>3, <1>4, <1>5 DEF Fifo!Next

\* On another side the lots stand still.
OnLots == side = "lots"
LEMMA LotsSide ==
  /\ RegistersInit => Fifo!Init
  /\ OnLots /\ [RegistersNext]_registervars => OnLots' /\ [Fifo!Next]_(Fifo!vars)
  /\ ~OnLots /\ [RegistersNext]_registervars => (~OnLots)'
<1>1. RegistersInit => Fifo!Init
  BY DEF RegistersInit
<1>2. OnLots /\ [RegistersNext]_registervars => OnLots' /\ [Fifo!Next]_(Fifo!vars)
  BY DEF RegistersNext, registervars, lotvars, Fifo!vars, OnLots
<1>3. ~OnLots /\ [RegistersNext]_registervars => (~OnLots)'
  BY DEF RegistersNext, registervars, OnLots
<1>4. QED
  BY <1>1, <1>2, <1>3

(* The loop of allocateFifo ends with a first-in-first-out allocation of   *)
(* all that is wanted whenever the lots hold enough, and refuses otherwise, *)
(* for every book that acquiring, selling and undoing lead to.             *)
THEOREM DisposalsAreFifo == RegistersSpec => []FifoAllocates
<1> DEFINE inv == OnLots => LotsKept
<1>1. RegistersInit => inv
  <2>1. Fifo!Init => LotsKept
    BY DEF Fifo!Init, LotsKept, BookKept
  <2>2. QED
    BY <2>1, LotsSide
<1>2. inv /\ [RegistersNext]_registervars => inv'
  BY LotsSide, LotsKeptInductive
<1>3. inv => FifoAllocates
  <2>1. ASSUME LotsKept, NEW wanted \in Fifo!Qty \ {0}
        PROVE  LET allocated == Fifo!AllocateFifo(wanted)
               IN IF Fifo!Available >= wanted
                  THEN allocated.ok /\ Fifo!IsFifo(allocated.taken, wanted)
                  ELSE ~allocated.ok
    <3>1. wanted \in Nat \ {0} /\ BookKept
      BY <2>1 DEF Fifo!Qty, LotsKept
    <3>2. QED
      BY <3>1, AlwaysFifo
  <2>2. QED
    BY <2>1 DEF FifoAllocates, Fifo!FifoAllocates, OnLots
<1> HIDE DEF inv
<1>4. QED
  BY <1>1, <1>2, <1>3, PTL DEF RegistersSpec
---------------------------------------------------------------------------
\* What may be borrowed and repaid is counted in whole units and whole days.
DebtsWhole ==
  /\ \A t \in Borrowed : t.start \in Nat /\ t.principal \in Nat /\ t.rate \in Nat
  /\ \A p \in Repaid : p.date \in Nat /\ p.amount \in Nat

\* The figures of the walk over payments, and what accrues on a debt.
WalkState ==
  [owed : Nat, accrued : Nat, cursor : Nat, interest : Nat, repaid : Nat, prepaid : Nat]
Months(w, d) == IF d >= w.cursor THEN (d - w.cursor) \div Owed!Month ELSE 0
Interest(debt, rate) == (debt * rate) \div 2
Growth(months, debt, rate) == months * Interest(debt, rate)
Pay(w, p) == IF p.prepayment THEN Owed!Prepay(w, p.amount) ELSE Owed!PayInstalment(w, p.amount)

\* Interest of whole months is whole.
LEMMA GrowthWhole ==
  ASSUME NEW m \in Nat, NEW o \in Nat, NEW rate \in Nat
  PROVE  Interest(o, rate) \in Nat /\ Growth(m, o, rate) \in Nat
<1>1. o * rate \in Nat
  OBVIOUS
<1>2. Interest(o, rate) \in Nat
  <2> DEFINE x == o * rate
  <2>1. x \in Nat
    BY <1>1
  <2> HIDE DEF x
  <2>2. x \div 2 \in Nat
    BY <2>1
  <2>3. QED
    BY <2>2 DEF Interest, x
<1>3. QED
  BY <1>2 DEF Growth

\* Interest of a months and of b more is that of a + b.
LEMMA GrowthAdds ==
  ASSUME NEW m \in Nat, NEW k \in Nat, NEW o \in Nat, NEW rate \in Nat
  PROVE  Growth(m + k, o, rate) = Growth(m, o, rate) + Growth(k, o, rate)
<1> DEFINE i == Interest(o, rate)
<1>1. i \in Nat
  BY GrowthWhole
<1> HIDE DEF i
<1>2. (m + k) * i = m * i + k * i
  BY <1>1
<1>3. QED
  BY <1>2 DEF Growth, i

\* A greater factor makes no smaller product.
LEMMA ProductGrows ==
  ASSUME NEW m \in Nat, NEW i \in Nat, NEW j \in Nat, i <= j
  PROVE  m * i <= m * j
<1>1. j - i \in Nat /\ m * (j - i) \in Nat
  OBVIOUS
<1>2. m * j = m * i + m * (j - i)
  OBVIOUS
<1>3. m * i \in Nat
  OBVIOUS
<1>4. QED
  BY <1>1, <1>2, <1>3

\* More months, or a greater debt, accrue no less.
LEMMA GrowthGrows ==
  ASSUME NEW m \in Nat, NEW o \in Nat, NEW q \in Nat, o <= q, NEW rate \in Nat
  PROVE  Growth(m, o, rate) <= Growth(m, q, rate)
<1> DEFINE x == o * rate
           y == q * rate
<1>1. x <= y /\ x \in Nat /\ y \in Nat
  <2>1. rate * o <= rate * q /\ rate * o = x /\ rate * q = y
    BY ProductGrows
  <2>2. QED
    BY <2>1
<1>2. Interest(o, rate) <= Interest(q, rate)
  <2> HIDE DEF x, y
  <2>1. x \div 2 <= y \div 2
    BY <1>1
  <2>2. QED
    BY <2>1 DEF Interest, x, y
<1>3. Interest(o, rate) \in Nat /\ Interest(q, rate) \in Nat
  BY GrowthWhole
<1>4. QED
  BY <1>2, <1>3, ProductGrows DEF Growth

\* Months between are whole, and days past the last of them are less than a month.
LEMMA MonthsWhole ==
  ASSUME NEW w \in WalkState, NEW d \in Nat
  PROVE  /\ Months(w, d) \in Nat
         /\ d >= w.cursor => w.cursor + Months(w, d) * 2 \in (d - 1)..d
         /\ d < w.cursor => Months(w, d) = 0
  BY DEF Months, WalkState, Owed!Month

\* What accruing and paying do, figure by figure.
AccruedFrom(v, w, rate, d) ==
  /\ v \in WalkState
  /\ v.accrued = w.accrued + Growth(Months(w, d), w.owed, rate)
  /\ v.cursor = w.cursor + Months(w, d) * 2
  /\ v.owed = w.owed /\ v.interest = w.interest
  /\ v.repaid = w.repaid /\ v.prepaid = w.prepaid
LEMMA Accrues ==
  ASSUME NEW w \in WalkState, NEW rate \in Nat, NEW d \in Nat
  PROVE  AccruedFrom(Owed!AccrueTo(w, rate, d), w, rate, d)
<1> DEFINE v == Owed!AccrueTo(w, rate, d)
           g == Growth(Months(w, d), w.owed, rate)
           c == w.cursor + Months(w, d) * 2
<1>1. v = [w EXCEPT !.accrued = @ + g, !.cursor = c]
  BY DEF Owed!AccrueTo, Growth, Interest, Months, Owed!Month
<1>2. Months(w, d) \in Nat
  BY MonthsWhole
<1>3. w.accrued \in Nat /\ w.owed \in Nat /\ w.cursor \in Nat
  BY DEF WalkState
<1>4. g \in Nat
  BY <1>2, <1>3, GrowthWhole
<1>5. c \in Nat
  BY <1>2, <1>3
<1> HIDE DEF g, c, v
<1>6. w.accrued + g \in Nat
  BY <1>3, <1>4
<1>7. /\ v \in WalkState /\ v.accrued = w.accrued + g /\ v.cursor = c
      /\ v.owed = w.owed /\ v.interest = w.interest
      /\ v.repaid = w.repaid /\ v.prepaid = w.prepaid
  BY <1>1, <1>5, <1>6 DEF WalkState
<1>8. QED
  BY <1>7 DEF g, c, v, AccruedFrom

PaidFrom(v, w, p) ==
  /\ v \in WalkState
  /\ v.cursor = w.cursor
  /\ p.prepayment =>
       /\ v.owed = w.owed - Owed!Smaller(p.amount, w.owed)
       /\ v.repaid = w.repaid + Owed!Smaller(p.amount, w.owed)
       /\ v.prepaid = w.prepaid + Owed!Smaller(p.amount, w.owed)
       /\ v.accrued = w.accrued /\ v.interest = w.interest
  /\ ~p.prepayment =>
       /\ v.accrued = w.accrued - Owed!Smaller(p.amount, w.accrued)
       /\ v.interest = w.interest + Owed!Smaller(p.amount, w.accrued)
       /\ v.owed = w.owed - Owed!Smaller(p.amount - Owed!Smaller(p.amount, w.accrued), w.owed)
       /\ v.repaid = w.repaid + Owed!Smaller(p.amount - Owed!Smaller(p.amount, w.accrued), w.owed)
       /\ v.prepaid = w.prepaid
\* Prepaying takes off the debt, an instalment off the interest first.
LEMMA Pays ==
  ASSUME NEW w \in WalkState, NEW p, p.amount \in Nat
  PROVE  PaidFrom(Pay(w, p), w, p)
<1> DEFINE v == Pay(w, p)
           a == p.amount
           x == Owed!Smaller(a, w.owed)
           i == Owed!Smaller(a, w.accrued)
           y == Owed!Smaller(a - i, w.owed)
<1>1. /\ a \in Nat /\ w.owed \in Nat /\ w.accrued \in Nat /\ w.repaid \in Nat
      /\ w.prepaid \in Nat /\ w.interest \in Nat
  BY DEF WalkState
<1>2. x \in Nat /\ w.owed - x \in Nat /\ w.repaid + x \in Nat /\ w.prepaid + x \in Nat
  BY <1>1 DEF Owed!Smaller
<1>3. i \in Nat /\ w.accrued - i \in Nat /\ w.interest + i \in Nat /\ a - i \in Nat
  BY <1>1 DEF Owed!Smaller
<1> HIDE DEF i
<1>4. y \in Nat /\ w.owed - y \in Nat /\ w.repaid + y \in Nat
  BY <1>1, <1>3 DEF Owed!Smaller
<1>5. p.prepayment => v = [w EXCEPT !.owed = @ - x, !.repaid = @ + x, !.prepaid = @ + x]
  BY DEF Pay, Owed!Prepay
<1>6. ~p.prepayment => v = [w EXCEPT !.accrued = @ - i, !.interest = @ + i,
                                     !.owed = @ - y, !.repaid = @ + y]
  BY DEF Pay, Owed!PayInstalment, i
<1> HIDE DEF x, y, v
<1>7. CASE p.prepayment
  <2>1. /\ v \in WalkState /\ v.cursor = w.cursor
        /\ v.owed = w.owed - x /\ v.repaid = w.repaid + x /\ v.prepaid = w.prepaid + x
        /\ v.accrued = w.accrued /\ v.interest = w.interest
    BY <1>2, <1>5, <1>7 DEF WalkState
  <2>2. QED
    BY <1>7, <2>1 DEF x, a, v, PaidFrom
<1>8. CASE ~p.prepayment
  <2>1. /\ v \in WalkState /\ v.cursor = w.cursor
        /\ v.accrued = w.accrued - i /\ v.interest = w.interest + i
        /\ v.owed = w.owed - y /\ v.repaid = w.repaid + y /\ v.prepaid = w.prepaid
    BY <1>3, <1>4, <1>6, <1>8 DEF WalkState
  <2>2. QED
    BY <1>8, <2>1 DEF i, y, a, v, PaidFrom
<1>9. QED
  BY <1>7, <1>8

\* A payment accrues to its day and then pays.
LEMMA Applies ==
  ASSUME NEW w \in WalkState, NEW p, p.amount \in Nat, p.date \in Nat, NEW rate \in Nat
  PROVE  /\ Owed!Apply(w, p, rate) = Pay(Owed!AccrueTo(w, rate, p.date), p)
         /\ Owed!Apply(w, p, rate) \in WalkState
<1>1. Owed!Apply(w, p, rate) = Pay(Owed!AccrueTo(w, rate, p.date), p)
  BY DEF Owed!Apply, Pay
<1>2. QED
  BY <1>1, Accrues, Pays DEF AccruedFrom, PaidFrom

\* The figures that a payment's place among those of its day might change.
Same(v, w) ==
  v.owed = w.owed /\ v.accrued = w.accrued /\ v.cursor = w.cursor /\ v.interest = w.interest

\* Walks with the same figures have them after one more payment.
LEMMA PayingSame ==
  ASSUME NEW v \in WalkState, NEW w \in WalkState, Same(v, w), NEW p, p.amount \in Nat
  PROVE  Same(Pay(v, p), Pay(w, p))
<1>1. v.owed = w.owed /\ v.accrued = w.accrued /\ v.cursor = w.cursor /\ v.interest = w.interest
  BY DEF Same
<1>2. CASE p.prepayment
  BY <1>1, <1>2, Pays DEF Same, PaidFrom
<1>3. CASE ~p.prepayment
  BY <1>1, <1>3, Pays DEF Same, PaidFrom
<1>4. QED
  BY <1>2, <1>3

\* They have them after a day, too.
LEMMA AccruingSame ==
  ASSUME NEW v \in WalkState, NEW w \in WalkState, Same(v, w), NEW rate \in Nat, NEW d \in Nat
  PROVE  Same(Owed!AccrueTo(v, rate, d), Owed!AccrueTo(w, rate, d))
<1>1. v.owed = w.owed /\ v.accrued = w.accrued /\ v.cursor = w.cursor /\ v.interest = w.interest
  BY DEF Same
<1>2. Months(v, d) = Months(w, d)
  BY <1>1 DEF Months
<1>3. QED
  BY <1>1, <1>2, Accrues DEF Same, AccruedFrom

\* So they have them after one more step.
LEMMA ApplyingSame ==
  ASSUME NEW v \in WalkState, NEW w \in WalkState, Same(v, w),
         NEW p, p.amount \in Nat, p.date \in Nat, NEW rate \in Nat
  PROVE  Same(Owed!Apply(v, p, rate), Owed!Apply(w, p, rate))
<1> DEFINE a == Owed!AccrueTo(v, rate, p.date)
           b == Owed!AccrueTo(w, rate, p.date)
<1>1. a \in WalkState /\ b \in WalkState
  BY Accrues DEF AccruedFrom
<1>2. Same(a, b)
  BY AccruingSame
<1>3. Owed!Apply(v, p, rate) = Pay(a, p) /\ Owed!Apply(w, p, rate) = Pay(b, p)
  BY Applies
<1> HIDE DEF a, b
<1>4. QED
  BY <1>1, <1>2, <1>3, PayingSame

\* Nothing accrues between two payments of one day.
LEMMA AccruedOnce ==
  ASSUME NEW w \in WalkState, NEW p, p.amount \in Nat, p.date \in Nat, NEW rate \in Nat
  PROVE  LET v == Owed!Apply(w, p, rate)
         IN  Same(Owed!AccrueTo(v, rate, p.date), v)
<1> DEFINE a == Owed!AccrueTo(w, rate, p.date)
           v == Pay(a, p)
           b == Owed!AccrueTo(v, rate, p.date)
<1>1. a \in WalkState /\ v \in WalkState /\ v.cursor = a.cursor
      /\ a.cursor = w.cursor + Months(w, p.date) * 2
  <2> DEFINE d == p.date
  <2>0. d \in Nat /\ a = Owed!AccrueTo(w, rate, d)
    OBVIOUS
  <2> HIDE DEF a, d
  <2>3. a \in WalkState /\ a.cursor = w.cursor + Months(w, d) * 2
    BY <2>0, Accrues DEF AccruedFrom
  <2>1. a \in WalkState /\ a.cursor = w.cursor + Months(w, p.date) * 2
    BY <2>3 DEF d
  <2>2. QED
    BY <2>1, Pays DEF PaidFrom
<1>8. Owed!Apply(w, p, rate) = v
  BY Applies
<1> HIDE DEF a, v
<1>2. v.cursor \in (p.date - 1)..p.date \/ v.cursor > p.date
  <2>1. w.cursor \in Nat /\ Months(w, p.date) \in Nat
    BY MonthsWhole DEF WalkState
  <2>2. QED
    BY <1>1, <2>1, MonthsWhole
<1>3. Months(v, p.date) = 0
  <2>1. v.cursor \in Nat
    BY <1>1 DEF WalkState
  <2>2. p.date >= v.cursor => p.date - v.cursor \in {0, 1}
    BY <1>2, <2>1
  <2>3. 0 \div 2 = 0 /\ 1 \div 2 = 0
    OBVIOUS
  <2>4. QED
    BY <2>2, <2>3 DEF Months, Owed!Month
<1>4. v.accrued + Growth(0, v.owed, rate) = v.accrued
  <2>1. v.accrued \in Nat /\ v.owed \in Nat
    BY <1>1 DEF WalkState
  <2>2. Interest(v.owed, rate) \in Nat
    BY <2>1, GrowthWhole
  <2>3. 0 * Interest(v.owed, rate) = 0
    BY <2>2
  <2>4. QED
    BY <2>1, <2>3 DEF Growth
<1>5. v.cursor \in Nat
  BY <1>1 DEF WalkState
<1>6. /\ b.accrued = v.accrued + Growth(Months(v, p.date), v.owed, rate)
      /\ b.cursor = v.cursor + Months(v, p.date) * 2
      /\ b.owed = v.owed /\ b.interest = v.interest
  <2>1. AccruedFrom(b, v, rate, p.date)
    BY <1>1, Accrues
  <2> HIDE DEF b
  <2>2. QED
    BY <2>1 DEF AccruedFrom
<1> HIDE DEF b
<1>7. Same(b, v)
  <2>1. b.accrued = v.accrued + Growth(0, v.owed, rate) /\ b.cursor = v.cursor + 0 * 2
    BY <1>3, <1>6
  <2>2. QED
    BY <1>4, <1>5, <1>6, <2>1 DEF Same
<1>9. QED
  BY <1>7, <1>8 DEF b

\* The debt left by two instalments.
Reduced(debt, a, accrued) == debt - Owed!Smaller(a - Owed!Smaller(a, accrued), debt)
LeftOf(debt, a, accrued) ==
  IF a <= accrued THEN debt ELSE IF a - accrued <= debt THEN debt - (a - accrued) ELSE 0
\* Both ways to say what an instalment leaves agree.
LEMMA InstalmentLeaves ==
  ASSUME NEW debt \in Nat, NEW a \in Nat, NEW accrued \in Nat
  PROVE  /\ Reduced(debt, a, accrued) = LeftOf(debt, a, accrued)
         /\ accrued - Owed!Smaller(a, accrued) = IF a <= accrued THEN accrued - a ELSE 0
         /\ Reduced(debt, a, accrued) \in Nat /\ accrued - Owed!Smaller(a, accrued) \in Nat
  BY DEF Reduced, LeftOf, Owed!Smaller

\* Two instalments leave the same debt in either order.
LEMMA TwoInstalments ==
  ASSUME NEW debt \in Nat, NEW accrued \in Nat, NEW a \in Nat, NEW b \in Nat
  PROVE  Reduced(Reduced(debt, a, accrued), b, accrued - Owed!Smaller(a, accrued))
           = Reduced(Reduced(debt, b, accrued), a, accrued - Owed!Smaller(b, accrued))
<1> DEFINE Floor(x) == IF x <= debt THEN debt - x ELSE 0
           Sum(x, y) == IF x + y <= accrued THEN debt ELSE Floor(x + y - accrued)
<1>1. ASSUME NEW x \in Nat, NEW y \in Nat
      PROVE  Reduced(Reduced(debt, x, accrued), y, accrued - Owed!Smaller(x, accrued)) = Sum(x, y)
  <2> DEFINE d == Reduced(debt, x, accrued)
             i == accrued - Owed!Smaller(x, accrued)
  <2>1. /\ d = LeftOf(debt, x, accrued)
        /\ i = IF x <= accrued THEN accrued - x ELSE 0
        /\ d \in Nat /\ i \in Nat
    BY InstalmentLeaves
  <2> HIDE DEF d, i, Sum, Floor
  <2>2. Reduced(d, y, i) = LeftOf(d, y, i)
    BY <2>1, InstalmentLeaves
  <2>3. Reduced(d, y, i) = Sum(x, y)
    BY <2>1, <2>2 DEF Sum, Floor, LeftOf
  <2>4. QED
    BY <2>3 DEF d, i
<1>2. Sum(a, b) = Sum(b, a)
  OBVIOUS
<1> HIDE DEF Sum
<1>3. QED
  BY <1>1, <1>2

\* Two payments of one day leave the same figures in either order.
LEMMA PayingCommutes ==
  ASSUME NEW w \in WalkState, NEW p, NEW q, p.amount \in Nat, q.amount \in Nat
  PROVE  Same(Pay(Pay(w, p), q), Pay(Pay(w, q), p))
<1> DEFINE wp == Pay(w, p)
           wq == Pay(w, q)
           wpq == Pay(wp, q)
           wqp == Pay(wq, p)
<1>1. w.owed \in Nat /\ w.accrued \in Nat /\ w.interest \in Nat
  BY DEF WalkState
<1>2. wp \in WalkState /\ wq \in WalkState
  BY Pays DEF PaidFrom
<1>3. wpq.cursor = wqp.cursor
  BY <1>2, Pays DEF PaidFrom
<1>4. CASE p.prepayment /\ q.prepayment
  <2>1. /\ wp.owed = w.owed - Owed!Smaller(p.amount, w.owed)
        /\ wq.owed = w.owed - Owed!Smaller(q.amount, w.owed)
        /\ wp.accrued = w.accrued /\ wq.accrued = w.accrued
        /\ wp.interest = w.interest /\ wq.interest = w.interest
    BY <1>4, Pays DEF PaidFrom
  <2>2. /\ wpq.owed = wp.owed - Owed!Smaller(q.amount, wp.owed)
        /\ wqp.owed = wq.owed - Owed!Smaller(p.amount, wq.owed)
        /\ wpq.accrued = wp.accrued /\ wqp.accrued = wq.accrued
        /\ wpq.interest = wp.interest /\ wqp.interest = wq.interest
    BY <1>2, <1>4, Pays DEF PaidFrom
  <2> HIDE DEF wp, wq, wpq, wqp
  <2>3. wpq.owed = wqp.owed
    BY <1>1, <2>1, <2>2 DEF Owed!Smaller
  <2>4. QED
    BY <1>3, <2>1, <2>2, <2>3 DEF Same, wpq, wqp, wp, wq
<1>5. ASSUME NEW r, NEW s, r.amount \in Nat, s.amount \in Nat, r.prepayment, ~s.prepayment
      PROVE  Same(Pay(Pay(w, r), s), Pay(Pay(w, s), r)) /\ Same(Pay(Pay(w, s), r), Pay(Pay(w, r), s))
  <2> DEFINE wr == Pay(w, r)
             ws == Pay(w, s)
             wrs == Pay(wr, s)
             wsr == Pay(ws, r)
  <2>1. wr \in WalkState /\ ws \in WalkState
    BY <1>5, Pays DEF PaidFrom
  <2>2. /\ wr.owed = w.owed - Owed!Smaller(r.amount, w.owed)
        /\ wr.accrued = w.accrued /\ wr.interest = w.interest
        /\ ws.accrued = w.accrued - Owed!Smaller(s.amount, w.accrued)
        /\ ws.interest = w.interest + Owed!Smaller(s.amount, w.accrued)
        /\ ws.owed = w.owed - Owed!Smaller(s.amount - Owed!Smaller(s.amount, w.accrued), w.owed)
    BY <1>5, Pays DEF PaidFrom
  <2>3. /\ wrs.accrued = wr.accrued - Owed!Smaller(s.amount, wr.accrued)
        /\ wrs.interest = wr.interest + Owed!Smaller(s.amount, wr.accrued)
        /\ wrs.owed = wr.owed - Owed!Smaller(s.amount - Owed!Smaller(s.amount, wr.accrued), wr.owed)
        /\ wsr.owed = ws.owed - Owed!Smaller(r.amount, ws.owed)
        /\ wsr.accrued = ws.accrued /\ wsr.interest = ws.interest
    BY <1>5, <2>1, Pays DEF PaidFrom
  <2>4. wrs.cursor = wsr.cursor
    BY <1>5, <2>1, Pays DEF PaidFrom
  <2> HIDE DEF wr, ws, wrs, wsr
  <2>5. wrs.owed = wsr.owed
    BY <1>1, <1>5, <2>2, <2>3 DEF Owed!Smaller
  <2>6. wrs.accrued = wsr.accrued /\ wrs.interest = wsr.interest
    BY <2>2, <2>3
  <2>7. Same(wrs, wsr) /\ Same(wsr, wrs)
    BY <2>4, <2>5, <2>6 DEF Same
  <2>8. QED
    BY <2>7 DEF wr, ws, wrs, wsr
<1>6. CASE ~p.prepayment /\ ~q.prepayment
  <2>1. /\ wp.accrued = w.accrued - Owed!Smaller(p.amount, w.accrued)
        /\ wp.interest = w.interest + Owed!Smaller(p.amount, w.accrued)
        /\ wp.owed = w.owed - Owed!Smaller(p.amount - Owed!Smaller(p.amount, w.accrued), w.owed)
        /\ wq.accrued = w.accrued - Owed!Smaller(q.amount, w.accrued)
        /\ wq.interest = w.interest + Owed!Smaller(q.amount, w.accrued)
        /\ wq.owed = w.owed - Owed!Smaller(q.amount - Owed!Smaller(q.amount, w.accrued), w.owed)
    BY <1>6, Pays DEF PaidFrom
  <2>2. /\ wpq.accrued = wp.accrued - Owed!Smaller(q.amount, wp.accrued)
        /\ wpq.interest = wp.interest + Owed!Smaller(q.amount, wp.accrued)
        /\ wpq.owed = wp.owed - Owed!Smaller(q.amount - Owed!Smaller(q.amount, wp.accrued), wp.owed)
        /\ wqp.accrued = wq.accrued - Owed!Smaller(p.amount, wq.accrued)
        /\ wqp.interest = wq.interest + Owed!Smaller(p.amount, wq.accrued)
        /\ wqp.owed = wq.owed - Owed!Smaller(p.amount - Owed!Smaller(p.amount, wq.accrued), wq.owed)
    BY <1>2, <1>6, Pays DEF PaidFrom
  <2> HIDE DEF wp, wq, wpq, wqp
  <2>3. wpq.accrued = wqp.accrued /\ wpq.interest = wqp.interest
    BY <1>1, <2>1, <2>2 DEF Owed!Smaller
  <2>4. wpq.owed = wqp.owed
    BY <1>1, <2>1, <2>2, TwoInstalments DEF Reduced
  <2>5. Same(wpq, wqp)
    BY <1>3, <2>3, <2>4 DEF Same
  <2>6. QED
    BY <2>5 DEF wpq, wqp, wp, wq
<1>7. QED
  BY <1>4, <1>5, <1>6

\* So do two steps.
LEMMA ApplyingCommutes ==
  ASSUME NEW w \in WalkState, NEW rate \in Nat, NEW p, NEW q, p.amount \in Nat, q.amount \in Nat,
         p.date \in Nat, q.date = p.date
  PROVE  Same(Owed!Apply(Owed!Apply(w, p, rate), q, rate), Owed!Apply(Owed!Apply(w, q, rate), p, rate))
<1> DEFINE a == Owed!AccrueTo(w, rate, p.date)
<1>1. a \in WalkState
  BY Accrues DEF AccruedFrom
<1>2. /\ Owed!Apply(w, p, rate) = Pay(a, p) /\ Owed!Apply(w, q, rate) = Pay(a, q)
      /\ Pay(a, p) \in WalkState /\ Pay(a, q) \in WalkState
  BY <1>1, Applies, Pays DEF PaidFrom
<1>3. /\ Same(Owed!AccrueTo(Pay(a, p), rate, p.date), Pay(a, p))
      /\ Same(Owed!AccrueTo(Pay(a, q), rate, p.date), Pay(a, q))
  BY <1>2, AccruedOnce
<1>4. /\ Owed!AccrueTo(Pay(a, p), rate, p.date) \in WalkState
      /\ Owed!AccrueTo(Pay(a, q), rate, p.date) \in WalkState
  BY <1>2, Accrues DEF AccruedFrom
<1>5. /\ Same(Pay(Owed!AccrueTo(Pay(a, p), rate, p.date), q), Pay(Pay(a, p), q))
      /\ Same(Pay(Owed!AccrueTo(Pay(a, q), rate, p.date), p), Pay(Pay(a, q), p))
  BY <1>2, <1>3, <1>4, PayingSame
<1>6. Same(Pay(Pay(a, p), q), Pay(Pay(a, q), p))
  BY <1>1, PayingCommutes
<1>7. /\ Owed!Apply(Pay(a, p), q, rate) = Pay(Owed!AccrueTo(Pay(a, p), rate, p.date), q)
      /\ Owed!Apply(Pay(a, q), p, rate) = Pay(Owed!AccrueTo(Pay(a, q), rate, p.date), p)
  BY <1>2, Applies
<1> HIDE DEF a
<1>8. QED
  BY <1>2, <1>5, <1>6, <1>7 DEF Same

\* One walk owes no more than another on any day that both come to.
Less(w, v) == w.cursor = v.cursor /\ w.owed <= v.owed /\ w.accrued <= v.accrued
Ahead(k, w, v, rate) ==
  /\ w.cursor = v.cursor + 2 * k
  /\ w.accrued <= v.accrued + Growth(k, v.owed, rate)
Lower(w, v, rate) == w.owed <= v.owed /\ \E k \in Nat : Ahead(k, w, v, rate)

\* No month accrues nothing.
LEMMA GrowthNothing ==
  ASSUME NEW o \in Nat, NEW rate \in Nat
  PROVE  Growth(0, o, rate) = 0
<1>1. Interest(o, rate) \in Nat
  BY GrowthWhole
<1>2. 0 * Interest(o, rate) = 0
  BY <1>1
<1>3. QED
  BY <1>2 DEF Growth

\* What is less is lower.
LEMMA LessLower ==
  ASSUME NEW w \in WalkState, NEW v \in WalkState, NEW rate \in Nat, Less(w, v)
  PROVE  Lower(w, v, rate)
<1>1. /\ w.accrued \in Nat /\ v.accrued \in Nat /\ v.owed \in Nat /\ v.cursor \in Nat
  BY DEF WalkState
<1>2. Growth(0, v.owed, rate) = 0
  BY <1>1, GrowthNothing
<1>3. Ahead(0, w, v, rate)
  BY <1>1, <1>2 DEF Ahead, Less
<1>4. QED
  BY <1>3 DEF Lower, Less

\* A payment leaves one walk no more than the other when it had no more before.
LEMMA PayingLess ==
  ASSUME NEW w \in WalkState, NEW v \in WalkState, Less(w, v), NEW p, p.amount \in Nat
  PROVE  Less(Pay(w, p), Pay(v, p))
<1> DEFINE a == Pay(w, p)
           b == Pay(v, p)
<1>1. w.owed \in Nat /\ w.accrued \in Nat /\ v.owed \in Nat /\ v.accrued \in Nat
  BY DEF WalkState
<1>2. PaidFrom(a, w, p) /\ PaidFrom(b, v, p)
  BY Pays
<1> HIDE DEF a, b
<1>3. a.cursor = b.cursor
  BY <1>2 DEF PaidFrom, Less
<1>0. w.owed <= v.owed /\ w.accrued <= v.accrued
  BY DEF Less
<1>4. ASSUME p.prepayment PROVE Less(a, b)
  <2>1. /\ a.owed = w.owed - Owed!Smaller(p.amount, w.owed) /\ a.accrued = w.accrued
        /\ b.owed = v.owed - Owed!Smaller(p.amount, v.owed) /\ b.accrued = v.accrued
    BY <1>2, <1>4 DEF PaidFrom
  <2>2. QED
    BY <1>0, <1>1, <1>3, <2>1 DEF Less, Owed!Smaller
<1>5. ASSUME ~p.prepayment PROVE Less(a, b)
  <2>1. /\ a.owed = Reduced(w.owed, p.amount, w.accrued)
        /\ a.accrued = w.accrued - Owed!Smaller(p.amount, w.accrued)
        /\ b.owed = Reduced(v.owed, p.amount, v.accrued)
        /\ b.accrued = v.accrued - Owed!Smaller(p.amount, v.accrued)
    BY <1>2, <1>5 DEF PaidFrom, Reduced
  <2>2. a.accrued <= b.accrued
    BY <1>0, <1>1, <2>1 DEF Owed!Smaller
  <2>3. /\ a.owed = LeftOf(w.owed, p.amount, w.accrued)
        /\ b.owed = LeftOf(v.owed, p.amount, v.accrued)
    BY <1>1, <2>1, InstalmentLeaves
  <2>4. a.owed <= b.owed
    BY <1>0, <1>1, <2>3 DEF LeftOf
  <2>5. QED
    BY <1>3, <2>2, <2>4 DEF Less
<1>6. Less(a, b)
  BY <1>4, <1>5
<1>7. QED
  BY <1>6 DEF a, b

\* A payment leaves less than there was, wherever it falls.
LEMMA PaymentLowers ==
  ASSUME NEW w \in WalkState, NEW rate \in Nat, NEW p, p.amount \in Nat, p.date \in Nat
  PROVE  Lower(Owed!Apply(w, p, rate), w, rate)
<1> DEFINE a == Owed!AccrueTo(w, rate, p.date)
           v == Pay(a, p)
           m == Months(w, p.date)
<1>1. AccruedFrom(a, w, rate, p.date) /\ m \in Nat
  BY Accrues, MonthsWhole
<1> HIDE DEF a
<1>2. PaidFrom(v, a, p)
  BY <1>1, Pays DEF AccruedFrom
<1>3. Owed!Apply(w, p, rate) = v
  BY Applies DEF a
<1> HIDE DEF v
<1>4. /\ a.owed \in Nat /\ a.accrued \in Nat /\ w.owed \in Nat /\ w.cursor \in Nat
      /\ a.owed = w.owed /\ a.accrued = w.accrued + Growth(m, w.owed, rate)
      /\ a.cursor = w.cursor + m * 2 /\ v.cursor = a.cursor
  BY <1>1, <1>2 DEF AccruedFrom, PaidFrom, WalkState
<1>5. v.owed <= a.owed /\ v.accrued <= a.accrued
  <2>1. CASE p.prepayment
    <3>1. v.owed = a.owed - Owed!Smaller(p.amount, a.owed) /\ v.accrued = a.accrued
      BY <1>2, <2>1 DEF PaidFrom
    <3>2. QED
      BY <1>4, <3>1 DEF Owed!Smaller
  <2>2. CASE ~p.prepayment
    <3>1. /\ v.owed = Reduced(a.owed, p.amount, a.accrued)
          /\ v.accrued = a.accrued - Owed!Smaller(p.amount, a.accrued)
      BY <1>2, <2>2 DEF PaidFrom, Reduced
    <3>2. v.owed = LeftOf(a.owed, p.amount, a.accrued)
      BY <1>4, <3>1, InstalmentLeaves
    <3>3. QED
      BY <1>4, <3>1, <3>2 DEF Owed!Smaller, LeftOf
  <2>3. QED
    BY <2>1, <2>2
<1> HIDE DEF m
<1>6. Ahead(m, v, w, rate)
  BY <1>1, <1>4, <1>5 DEF Ahead
<1>7. QED
  BY <1>1, <1>3, <1>4, <1>5, <1>6 DEF Lower

\* The same payment made on both leaves the order between them.
LEMMA LowerStays ==
  ASSUME NEW w \in WalkState, NEW v \in WalkState, NEW rate \in Nat, Lower(w, v, rate),
         NEW p, p.amount \in Nat, p.date \in Nat,
         w.cursor = v.cursor \/ w.cursor <= p.date
  PROVE  Lower(Owed!Apply(w, p, rate), Owed!Apply(v, p, rate), rate)
<1>1. PICK k \in Nat : Ahead(k, w, v, rate)
  BY DEF Lower
<1> DEFINE d == p.date
           m == Months(w, d)
           a == Owed!AccrueTo(w, rate, d)
           b == Owed!AccrueTo(v, rate, d)
<1>2. /\ w.owed \in Nat /\ w.accrued \in Nat /\ w.cursor \in Nat
      /\ v.owed \in Nat /\ v.accrued \in Nat /\ v.cursor \in Nat
  BY DEF WalkState
<1>3. m \in Nat
  BY MonthsWhole
<1>4. Months(v, d) = m + k
  <2>1. w.cursor = v.cursor + 2 * k
    BY <1>1 DEF Ahead
  <2>2. CASE w.cursor = v.cursor
    <3>1. k = 0
      BY <1>2, <2>1, <2>2
    <3>2. Months(v, d) = m
      BY <2>2 DEF Months
    <3> HIDE DEF m
    <3>3. QED
      BY <1>3, <3>1, <3>2
  <2>3. CASE w.cursor <= d
    <3>1. d >= w.cursor /\ d >= v.cursor
      BY <1>2, <2>1, <2>3
    <3>2. m = (d - w.cursor) \div 2 /\ Months(v, d) = (d - v.cursor) \div 2
      BY <3>1 DEF Months, Owed!Month
    <3>3. d - v.cursor = (d - w.cursor) + 2 * k /\ d - w.cursor \in Nat
      BY <1>2, <2>1, <3>1
    <3>4. \A x \in Nat : (x + 2 * k) \div 2 = (x \div 2) + k
      OBVIOUS
    <3> HIDE DEF m, d
    <3>5. QED
      BY <3>2, <3>3, <3>4
  <2>4. QED
    BY <2>2, <2>3
<1>5. AccruedFrom(a, w, rate, d) /\ AccruedFrom(b, v, rate, d)
  BY Accrues
<1> HIDE DEF a, b, m
<1>6. Less(a, b)
  <2>1. /\ a.accrued = w.accrued + Growth(m, w.owed, rate)
        /\ a.cursor = w.cursor + m * 2 /\ a.owed = w.owed
    BY <1>5 DEF AccruedFrom, m
  <2>2. /\ b.accrued = v.accrued + Growth(m + k, v.owed, rate)
        /\ b.cursor = v.cursor + (m + k) * 2 /\ b.owed = v.owed
    BY <1>4, <1>5 DEF AccruedFrom
  <2>3. Growth(m + k, v.owed, rate) = Growth(m, v.owed, rate) + Growth(k, v.owed, rate)
    <3> DEFINE o == v.owed
    <3>1. o \in Nat
      BY <1>2
    <3> HIDE DEF o
    <3>2. Growth(m + k, o, rate) = Growth(m, o, rate) + Growth(k, o, rate)
      BY <1>3, <3>1, GrowthAdds
    <3>3. QED
      BY <3>2 DEF o
  <2>4. w.owed <= v.owed
    BY DEF Lower
  <2>5. Growth(m, w.owed, rate) <= Growth(m, v.owed, rate)
    BY <1>2, <1>3, <2>4, GrowthGrows
  <2>6. /\ Growth(m, w.owed, rate) \in Nat /\ Growth(m, v.owed, rate) \in Nat
        /\ Growth(k, v.owed, rate) \in Nat
    BY <1>2, <1>3, GrowthWhole
  <2>7. w.cursor = v.cursor + 2 * k /\ w.accrued <= v.accrued + Growth(k, v.owed, rate)
    BY <1>1 DEF Ahead
  <2>8. a.cursor = b.cursor
    BY <1>2, <1>3, <2>1, <2>2, <2>7
  <2>9. a.accrued <= b.accrued
    BY <1>2, <2>1, <2>2, <2>3, <2>5, <2>6, <2>7
  <2>10. QED
    BY <2>1, <2>2, <2>4, <2>8, <2>9 DEF Less
<1>7. a \in WalkState /\ b \in WalkState
  BY <1>5 DEF AccruedFrom
<1>8. Less(Pay(a, p), Pay(b, p)) /\ Pay(a, p) \in WalkState /\ Pay(b, p) \in WalkState
  BY <1>6, <1>7, PayingLess, Pays DEF PaidFrom
<1>9. Owed!Apply(w, p, rate) = Pay(a, p) /\ Owed!Apply(v, p, rate) = Pay(b, p)
  BY Applies DEF a, b
<1>10. QED
  BY <1>8, <1>9, LessLower

\* The order between two walks is one of the figures.
LEMMA LowerOfSame ==
  ASSUME NEW w, NEW v, NEW rate, Lower(w, v, rate), NEW x, NEW y, Same(x, w), Same(y, v)
  PROVE  Lower(x, y, rate)
  BY DEF Lower, Same, Ahead

\* What the walk over a set of payments may come to.
DayOrder == {q \in Repaid \X Repaid : q[1].date <= q[2].date}
Passes(g, debt, s, n) ==
  /\ g[0] = Owed!Start(debt)
  /\ \A i \in 1..n : g[i] = Owed!Apply(g[i - 1], s[i], debt.rate)
Reaches(debt, S, w) ==
  \E s, g : /\ IsOrderOf(s, S, DayOrder)
            /\ Passes(g, debt, s, Cardinality(S))
            /\ w = g[Cardinality(S)]
DebtWhole(debt) == debt.principal \in Nat /\ debt.rate \in Nat /\ debt.start \in Nat

\* Without payments the walk is at its start.
LEMMA NothingReaches ==
  ASSUME NEW debt, NEW w
  PROVE  Reaches(debt, {}, w) <=> w = Owed!Start(debt)
<1>1. Cardinality({}) = 0 /\ 1..0 = {}
  BY FS_EmptySet
<1>2. ASSUME Reaches(debt, {}, w) PROVE w = Owed!Start(debt)
  <2>1. PICK s, g : Passes(g, debt, s, Cardinality({})) /\ w = g[Cardinality({})]
    BY <1>2 DEF Reaches
  <2>2. g[0] = Owed!Start(debt)
    BY <2>1 DEF Passes
  <2>3. QED
    BY <1>1, <2>1, <2>2
<1>3. Reaches(debt, {}, Owed!Start(debt))
  <2> DEFINE s == [i \in 1..0 |-> i]
             g == [i \in 0..0 |-> Owed!Start(debt)]
  <2>1. IsOrderOf(s, {}, DayOrder)
    BY <1>1 DEF IsOrderOf
  <2>2. Passes(g, debt, s, 0)
    BY <1>1 DEF Passes
  <2>3. g[0] = Owed!Start(debt)
    OBVIOUS
  <2> HIDE DEF s, g
  <2>4. QED
    BY <1>1, <2>1, <2>2, <2>3 DEF Reaches
<1>4. QED
  BY <1>2, <1>3

\* The last payment by day of a set is applied to a walk over the others.
LEMMA LastReaches ==
  ASSUME NEW debt, NEW S, IsFiniteSet(S), S # {}, NEW w, Reaches(debt, S, w)
  PROVE  \E x \in S : \E v :
            /\ Reaches(debt, S \ {x}, v)
            /\ w = Owed!Apply(v, x, debt.rate)
            /\ \A y \in S \ {x} : <<y, x>> \in DayOrder
<1>1. PICK s, g : /\ IsOrderOf(s, S, DayOrder)
                  /\ Passes(g, debt, s, Cardinality(S))
                  /\ w = g[Cardinality(S)]
  BY DEF Reaches
<1> DEFINE n == Cardinality(S)
           x == s[n]
           t == [i \in 1..(n - 1) |-> s[i]]
<1>2. /\ n \in Nat \ {0} /\ x \in S /\ Cardinality(S \ {x}) = n - 1
      /\ IsOrderOf(t, S \ {x}, DayOrder)
      /\ \A y \in S \ {x} : <<y, x>> \in DayOrder
  BY <1>1, OrderFront
<1>3. g[0] = Owed!Start(debt) /\ \A i \in 1..n : g[i] = Owed!Apply(g[i - 1], s[i], debt.rate)
  BY <1>1 DEF Passes
<1>4. \A i \in 1..(n - 1) : t[i] = s[i] /\ i \in 1..n
  BY <1>2
<1>5. w = g[n]
  BY <1>1
<1> HIDE DEF n
<1>6. w = Owed!Apply(g[n - 1], x, debt.rate)
  BY <1>2, <1>3, <1>5
<1> HIDE DEF t, x
<1>7. Passes(g, debt, t, n - 1)
  BY <1>3, <1>4 DEF Passes
<1>8. Reaches(debt, S \ {x}, g[n - 1])
  BY <1>2, <1>7 DEF Reaches
<1>9. QED
  BY <1>2, <1>6, <1>8

\* A payment no earlier than the others may be applied last.
LEMMA NextReaches ==
  ASSUME NEW debt, NEW S, IsFiniteSet(S), NEW v, Reaches(debt, S, v), NEW x, x \notin S,
         \A y \in S : <<y, x>> \in DayOrder
  PROVE  Reaches(debt, S \cup {x}, Owed!Apply(v, x, debt.rate))
<1>1. PICK s, g : /\ IsOrderOf(s, S, DayOrder)
                  /\ Passes(g, debt, s, Cardinality(S))
                  /\ v = g[Cardinality(S)]
  BY DEF Reaches
<1> DEFINE n == Cardinality(S)
           t == [i \in 1..(n + 1) |-> IF i = n + 1 THEN x ELSE s[i]]
           h == [i \in 0..(n + 1) |-> IF i = n + 1 THEN Owed!Apply(v, x, debt.rate) ELSE g[i]]
<1>2. IsOrderOf(t, S \cup {x}, DayOrder)
  BY <1>1, OrderAppend
<1>3. n \in Nat /\ Cardinality(S \cup {x}) = n + 1
  BY FS_CardinalityType, FS_AddElement
<1>4. /\ g[0] = Owed!Start(debt) /\ v = g[n]
      /\ \A i \in 1..n : g[i] = Owed!Apply(g[i - 1], s[i], debt.rate)
  BY <1>1 DEF Passes
<1> HIDE DEF n
<1>5. /\ t[n + 1] = x /\ h[n + 1] = Owed!Apply(v, x, debt.rate)
      /\ h[0] = g[0] /\ h[n] = g[n]
      /\ \A i \in 1..n : t[i] = s[i] /\ h[i] = g[i] /\ h[i - 1] = g[i - 1]
  BY <1>3
<1>6. \A i \in 1..(n + 1) : i = n + 1 \/ i \in 1..n
  BY <1>3
<1>7. (n + 1) - 1 = n
  BY <1>3
<1> HIDE DEF t, h
<1>8. \A i \in 1..(n + 1) : h[i] = Owed!Apply(h[i - 1], t[i], debt.rate)
  <2> SUFFICES ASSUME NEW i \in 1..(n + 1)
               PROVE  h[i] = Owed!Apply(h[i - 1], t[i], debt.rate)
    OBVIOUS
  <2>1. CASE i = n + 1
    <3>1. h[i - 1] = v /\ t[i] = x /\ h[i] = Owed!Apply(v, x, debt.rate)
      BY <1>4, <1>5, <1>7, <2>1
    <3>2. QED
      BY <3>1
  <2>2. CASE i \in 1..n
    BY <1>4, <1>5, <2>2
  <2>3. QED
    BY <1>6, <2>1, <2>2
<1>9. Passes(h, debt, t, n + 1)
  BY <1>4, <1>5, <1>8 DEF Passes
<1>10. QED
  BY <1>2, <1>3, <1>5, <1>9 DEF Reaches

\* The walk starts with whole figures.
LEMMA StartWhole ==
  ASSUME NEW debt, DebtWhole(debt)
  PROVE  Owed!Start(debt) \in WalkState
  BY DEF Owed!Start, WalkState, DebtWhole

\* Wherever it comes to, the figures are whole.
LEMMA ReachedWhole ==
  ASSUME DebtsWhole, NEW debt, DebtWhole(debt), NEW D \in SUBSET Repaid, IsFiniteSet(D)
  PROVE  \A S \in SUBSET D : \A w : Reaches(debt, S, w) =>
           w \in WalkState /\ debt.start <= w.cursor /\ (w.cursor = debt.start \/ \E y \in S : w.cursor <= y.date)
<1> DEFINE ok(S) == \A w : Reaches(debt, S, w) =>
                      w \in WalkState /\ debt.start <= w.cursor /\ (w.cursor = debt.start \/ \E y \in S : w.cursor <= y.date)
           T == {S \in SUBSET D : ok(S)}
<1>1. ASSUME NEW S \in SUBSET D, \A t \in SUBSET S : t # S => t \in T
      PROVE  S \in T
  <2> SUFFICES ASSUME NEW w, Reaches(debt, S, w)
               PROVE  w \in WalkState /\ debt.start <= w.cursor /\ (w.cursor = debt.start \/ \E y \in S : w.cursor <= y.date)
    OBVIOUS
  <2>1. CASE S = {}
    <3>1. w = Owed!Start(debt)
      BY <2>1, NothingReaches
    <3>2. w.cursor = debt.start /\ debt.start \in Nat
      BY <3>1 DEF Owed!Start, DebtWhole
    <3>3. QED
      BY <3>1, <3>2, StartWhole
  <2>2. CASE S # {}
    <3>1. IsFiniteSet(S)
      BY FS_Subset
    <3>x. PICK x \in S : \E v : /\ Reaches(debt, S \ {x}, v) /\ w = Owed!Apply(v, x, debt.rate)
      BY <2>2, <3>1, LastReaches
    <3>2. PICK v : /\ Reaches(debt, S \ {x}, v) /\ w = Owed!Apply(v, x, debt.rate)
      BY <3>x
    <3>3. /\ v \in WalkState /\ debt.start <= v.cursor
          /\ v.cursor = debt.start \/ \E y \in S \ {x} : v.cursor <= y.date
      <4>1. S \ {x} \in T
        BY <1>1
      <4>2. QED
        BY <3>2, <4>1
    <3>4. x.amount \in Nat /\ x.date \in Nat /\ debt.rate \in Nat
      BY DEF DebtsWhole, DebtWhole
    <3> DEFINE a == Owed!AccrueTo(v, debt.rate, x.date)
    <3>5. AccruedFrom(a, v, debt.rate, x.date)
      BY <3>3, <3>4, Accrues
    <3>6. PaidFrom(Pay(a, x), a, x) /\ Owed!Apply(v, x, debt.rate) = Pay(a, x)
      BY <3>3, <3>4, <3>5, Pays, Applies DEF AccruedFrom
    <3> HIDE DEF a
    <3>7. w \in WalkState /\ w.cursor = v.cursor + Months(v, x.date) * 2
      BY <3>2, <3>5, <3>6 DEF AccruedFrom, PaidFrom
    <3>8. w.cursor <= x.date \/ w.cursor = v.cursor
      <4>1. v.cursor \in Nat
        BY <3>3 DEF WalkState
      <4>2. /\ Months(v, x.date) \in Nat
            /\ x.date >= v.cursor => v.cursor + Months(v, x.date) * 2 \in (x.date - 1)..x.date
            /\ x.date < v.cursor => Months(v, x.date) = 0
        BY <3>3, <3>4, MonthsWhole
      <4>3. CASE x.date >= v.cursor
        BY <3>4, <3>7, <4>1, <4>2, <4>3
      <4>4. CASE x.date < v.cursor
        BY <3>7, <4>1, <4>2, <4>4
      <4>5. QED
        BY <3>4, <4>1, <4>3, <4>4
    <3>9. debt.start <= w.cursor
      <4>1. v.cursor \in Nat /\ Months(v, x.date) \in Nat /\ debt.start \in Nat
        BY <3>3, <3>4, MonthsWhole DEF WalkState, DebtWhole
      <4>2. QED
        BY <3>3, <3>7, <4>1
    <3>10. QED
      BY <3>3, <3>7, <3>8, <3>9
  <2>3. QED
    BY <2>1, <2>2
<1> HIDE DEF T, ok
<1>2. \A S \in SUBSET D : S \in T
  BY <1>1, SubsetInduction
<1>3. QED
  BY <1>2 DEF T, ok

\* Every finite set of payments is walked over.
LEMMA SomeReached ==
  ASSUME DebtsWhole, NEW debt, NEW D \in SUBSET Repaid, IsFiniteSet(D)
  PROVE  \A S \in SUBSET D : \E w : Reaches(debt, S, w)
<1> DEFINE ok(S) == \E w : Reaches(debt, S, w)
           T == {S \in SUBSET D : ok(S)}
<1>0. \A x, y, z \in D :
        /\ x # y => <<x, y>> \in DayOrder \/ <<y, x>> \in DayOrder
        /\ <<x, y>> \in DayOrder /\ <<y, z>> \in DayOrder => <<x, z>> \in DayOrder
  BY DEF DebtsWhole, DayOrder
<1>1. ASSUME NEW S \in SUBSET D, \A t \in SUBSET S : t # S => t \in T
      PROVE  S \in T
  <2> SUFFICES ok(S)
    OBVIOUS
  <2>1. CASE S = {}
    BY <2>1, NothingReaches
  <2>2. CASE S # {}
    <3>1. IsFiniteSet(S)
      BY FS_Subset
    <3>2. /\ \A x, y \in S : x # y => <<x, y>> \in DayOrder \/ <<y, x>> \in DayOrder
          /\ \A x, y, z \in S : <<x, y>> \in DayOrder /\ <<y, z>> \in DayOrder => <<x, z>> \in DayOrder
      BY <1>0
    <3>3. PICK x \in S : \A y \in S : y # x => <<y, x>> \in DayOrder
      BY <2>2, <3>1, <3>2, LastExists
    <3>4. S \ {x} \in T
      BY <1>1
    <3>5. PICK v : Reaches(debt, S \ {x}, v)
      BY <3>4
    <3>6. IsFiniteSet(S \ {x}) /\ x \notin S \ {x} /\ (S \ {x}) \cup {x} = S
      BY <3>1, FS_RemoveElement
    <3>7. \A y \in S \ {x} : <<y, x>> \in DayOrder
      BY <3>3
    <3>8. Reaches(debt, (S \ {x}) \cup {x}, Owed!Apply(v, x, debt.rate))
      BY <3>5, <3>6, <3>7, NextReaches
    <3>9. QED
      BY <3>6, <3>8
  <2>3. QED
    BY <2>1, <2>2
<1> HIDE DEF T, ok
<1>2. \A S \in SUBSET D : S \in T
  BY <1>1, SubsetInduction
<1>3. QED
  BY <1>2 DEF T, ok

\* However a set of payments is walked over, the figures are the same.
LEMMA SameReached ==
  ASSUME DebtsWhole, NEW debt, DebtWhole(debt), NEW D \in SUBSET Repaid, IsFiniteSet(D)
  PROVE  \A S \in SUBSET D : \A v, w : Reaches(debt, S, v) /\ Reaches(debt, S, w) => Same(v, w)
<1> DEFINE ok(S) == \A v, w : Reaches(debt, S, v) /\ Reaches(debt, S, w) => Same(v, w)
           T == {S \in SUBSET D : ok(S)}
           rate == debt.rate
<1>1. ASSUME NEW S \in SUBSET D, \A t \in SUBSET S : t # S => t \in T
      PROVE  S \in T
  <2> SUFFICES ASSUME NEW v, NEW w, Reaches(debt, S, v), Reaches(debt, S, w)
               PROVE  Same(v, w)
    OBVIOUS
  <2>1. CASE S = {}
    <3>1. v = Owed!Start(debt) /\ w = Owed!Start(debt)
      BY <2>1, NothingReaches
    <3>2. QED
      BY <3>1 DEF Same
  <2>2. CASE S # {}
    <3>1. IsFiniteSet(S)
      BY FS_Subset
    <3>x. PICK x \in S : \E v0 : /\ Reaches(debt, S \ {x}, v0) /\ v = Owed!Apply(v0, x, rate)
                                 /\ \A z \in S \ {x} : <<z, x>> \in DayOrder
      BY <2>2, <3>1, LastReaches
    <3>2. PICK v0 : /\ Reaches(debt, S \ {x}, v0) /\ v = Owed!Apply(v0, x, rate)
                    /\ \A z \in S \ {x} : <<z, x>> \in DayOrder
      BY <3>x
    <3>y. PICK y \in S : \E w0 : /\ Reaches(debt, S \ {y}, w0) /\ w = Owed!Apply(w0, y, rate)
                                 /\ \A z \in S \ {y} : <<z, y>> \in DayOrder
      BY <2>2, <3>1, LastReaches
    <3>3. PICK w0 : /\ Reaches(debt, S \ {y}, w0) /\ w = Owed!Apply(w0, y, rate)
                    /\ \A z \in S \ {y} : <<z, y>> \in DayOrder
      BY <3>y
    <3>4. S \ {x} \in T /\ S \ {y} \in T
      BY <1>1
    <3>5. /\ x.amount \in Nat /\ x.date \in Nat /\ y.amount \in Nat /\ y.date \in Nat /\ rate \in Nat
      BY DEF DebtsWhole, DebtWhole
    <3>6. v0 \in WalkState /\ w0 \in WalkState
      BY <3>2, <3>3, ReachedWhole
    <3>7. CASE x = y
      <4>1. Same(v0, w0)
        BY <3>2, <3>3, <3>4, <3>7
      <4> HIDE DEF rate
      <4>2. QED
        BY <3>2, <3>3, <3>5, <3>6, <3>7, <4>1, ApplyingSame
    <3>8. CASE x # y
      <4> DEFINE U == S \ {x, y}
      <4>1. PICK u : Reaches(debt, U, u)
        BY SomeReached
      <4>2. /\ IsFiniteSet(U) /\ x \notin U /\ y \notin U
            /\ U \cup {y} = S \ {x} /\ U \cup {x} = S \ {y}
        BY <3>1, <3>8, FS_Subset
      <4>3. \A z \in U : <<z, x>> \in DayOrder /\ <<z, y>> \in DayOrder
        BY <3>2, <3>3
      <4>4. y.date = x.date
        <5>1. <<y, x>> \in DayOrder /\ <<x, y>> \in DayOrder
          BY <3>2, <3>3, <3>8
        <5>2. y.date <= x.date /\ x.date <= y.date
          BY <5>1 DEF DayOrder
        <5>3. QED
          BY <3>5, <5>2
      <4>5. u \in WalkState
        BY <4>1, ReachedWhole
      <4> DEFINE ux == Owed!Apply(u, x, rate)
                 uy == Owed!Apply(u, y, rate)
      <4> HIDE DEF U
      <4>6. Reaches(debt, S \ {y}, ux) /\ Reaches(debt, S \ {x}, uy)
        <5>1. Reaches(debt, U \cup {y}, uy)
          BY <4>1, <4>2, <4>3, NextReaches
        <5>2. Reaches(debt, U \cup {x}, ux)
          BY <4>1, <4>2, <4>3, NextReaches
        <5> HIDE DEF ux, uy
        <5>3. QED
          BY <4>2, <5>1, <5>2
      <4>7. Same(v0, uy) /\ Same(w0, ux)
        BY <3>2, <3>3, <3>4, <4>6
      <4>8. ux \in WalkState /\ uy \in WalkState
        BY <4>6, ReachedWhole
      <4>9. Same(Owed!Apply(uy, x, rate), Owed!Apply(ux, y, rate))
        <5> HIDE DEF rate
        <5>1. QED
          BY <3>5, <4>4, <4>5, ApplyingCommutes
      <4> HIDE DEF ux, uy, rate
      <4>10. Same(v, Owed!Apply(uy, x, rate)) /\ Same(w, Owed!Apply(ux, y, rate))
        BY <3>2, <3>3, <3>5, <3>6, <4>7, <4>8, ApplyingSame
      <4>11. QED
        BY <4>9, <4>10 DEF Same
    <3>9. QED
      BY <3>7, <3>8
  <2>3. QED
    BY <2>1, <2>2
<1> HIDE DEF T, ok
<1>2. \A S \in SUBSET D : S \in T
  BY <1>1, SubsetInduction
<1>3. QED
  BY <1>2 DEF T, ok

\* With a payment more the walk comes to no more.
LEMMA LowerReached ==
  ASSUME DebtsWhole, NEW debt, DebtWhole(debt), NEW D \in SUBSET Repaid, IsFiniteSet(D), NEW p \in D
  PROVE  \A S \in SUBSET D : p \in S =>
           \A w, v : Reaches(debt, S, w) /\ Reaches(debt, S \ {p}, v) => Lower(w, v, debt.rate)
<1> DEFINE rate == debt.rate
           ok(S) == \A w, v : Reaches(debt, S, w) /\ Reaches(debt, S \ {p}, v) => Lower(w, v, rate)
           T == {S \in SUBSET D : p \in S => ok(S)}
<1>1. ASSUME NEW S \in SUBSET D, \A t \in SUBSET S : t # S => t \in T
      PROVE  S \in T
  <2> SUFFICES ASSUME p \in S, NEW w, NEW v, Reaches(debt, S, w), Reaches(debt, S \ {p}, v)
               PROVE  Lower(w, v, rate)
    OBVIOUS
  <2>1. IsFiniteSet(S)
    BY FS_Subset
  <2>x. PICK x \in S : \E w0 : /\ Reaches(debt, S \ {x}, w0) /\ w = Owed!Apply(w0, x, rate)
                               /\ \A z \in S \ {x} : <<z, x>> \in DayOrder
    BY <2>1, LastReaches
  <2>2. PICK w0 : /\ Reaches(debt, S \ {x}, w0) /\ w = Owed!Apply(w0, x, rate)
                  /\ \A z \in S \ {x} : <<z, x>> \in DayOrder
    BY <2>x
  <2>3. x.amount \in Nat /\ x.date \in Nat /\ rate \in Nat
    BY DEF DebtsWhole, DebtWhole
  <2>4. /\ w0 \in WalkState /\ v \in WalkState
        /\ w0.cursor = debt.start \/ \E y \in S \ {x} : w0.cursor <= y.date
    BY <2>2, ReachedWhole
  <2>5. CASE x = p
    <3>1. Same(v, w0)
      BY <2>2, <2>5, SameReached
    <3> HIDE DEF rate
    <3>2. Lower(w, w0, rate)
      BY <2>2, <2>3, <2>4, PaymentLowers
    <3>3. Same(w, w)
      BY DEF Same
    <3>4. QED
      BY <3>1, <3>2, <3>3, LowerOfSame
  <2>6. CASE x # p
    <3> DEFINE R == S \ {x, p}
    <3>1. /\ S \ {x} \in T /\ p \in S \ {x} /\ (S \ {x}) \ {p} = R
          /\ IsFiniteSet(R) /\ x \notin R /\ R \cup {x} = S \ {p}
          /\ R \in SUBSET D /\ S \ {p} \in SUBSET D
      BY <1>1, <2>1, <2>6, FS_Subset
    <3>2. PICK v0 : Reaches(debt, R, v0)
      BY <3>1, SomeReached
    <3> HIDE DEF R
    <3>3. Lower(w0, v0, rate)
      BY <2>2, <3>1, <3>2
    <3>4. v0 \in WalkState /\ debt.start <= v0.cursor
      BY <3>1, <3>2, ReachedWhole
    <3>5. w0.cursor = v0.cursor \/ w0.cursor <= x.date
      <4>1. w0.cursor \in Nat /\ v0.cursor \in Nat /\ debt.start \in Nat
        BY <2>4, <3>4 DEF WalkState, DebtWhole
      <4>2. CASE w0.cursor = debt.start
        <5>1. PICK k \in Nat : w0.cursor = v0.cursor + 2 * k
          BY <3>3 DEF Lower, Ahead
        <5>2. QED
          BY <3>4, <4>1, <4>2, <5>1
      <4>3. ASSUME NEW y \in S \ {x}, w0.cursor <= y.date
            PROVE  w0.cursor <= x.date
        <5>1. <<y, x>> \in DayOrder
          BY <2>2
        <5>2. y.date <= x.date /\ y.date \in Nat
          BY <5>1 DEF DayOrder, DebtsWhole
        <5>3. QED
          BY <2>3, <4>1, <4>3, <5>2
      <4>4. QED
        BY <2>4, <4>2, <4>3
    <3> DEFINE vx == Owed!Apply(v0, x, rate)
    <3>6. Lower(w, vx, rate)
      <4> HIDE DEF rate
      <4>1. QED
        BY <2>2, <2>3, <2>4, <3>3, <3>4, <3>5, LowerStays
    <3>7. Reaches(debt, S \ {p}, vx)
      <4>1. \A z \in R : <<z, x>> \in DayOrder
        BY <2>2 DEF R
      <4>2. Reaches(debt, R \cup {x}, vx)
        BY <3>1, <3>2, <4>1, NextReaches
      <4>3. QED
        BY <3>1, <4>2
    <3>8. Same(v, vx)
      BY <3>1, <3>7, SameReached
    <3>9. Same(w, w)
      BY DEF Same
    <3> HIDE DEF vx, rate
    <3>10. QED
      BY <3>6, <3>8, <3>9, LowerOfSame
  <2>7. QED
    BY <2>5, <2>6
<1> HIDE DEF T, ok
<1>2. \A S \in SUBSET D : S \in T
  BY <1>1, SubsetInduction
<1>3. QED
  BY <1>2 DEF T, ok

\* Where the payments went, of those walked over.
PlacedIn(debt, f, S, w) ==
  /\ w.owed + w.repaid = debt.principal
  /\ w.prepaid <= w.repaid
  /\ w.interest + w.repaid <= SumFunctionOnSet(f, S)
  /\ w.owed > 0 => w.interest + w.repaid = SumFunctionOnSet(f, S)

\* A payment is interest or repays the debt, unless nothing is owed any more.
LEMMA PaymentPlaced ==
  ASSUME NEW a \in WalkState, NEW p, p.amount \in Nat, NEW w, PaidFrom(w, a, p)
  PROVE  /\ w.owed + w.repaid = a.owed + a.repaid
         /\ a.prepaid <= a.repaid => w.prepaid <= w.repaid
         /\ w.interest + w.repaid <= a.interest + a.repaid + p.amount
         /\ w.owed > 0 => a.owed > 0 /\ w.interest + w.repaid = a.interest + a.repaid + p.amount
<1>1. /\ a.owed \in Nat /\ a.accrued \in Nat /\ a.interest \in Nat /\ a.repaid \in Nat
      /\ a.prepaid \in Nat
  BY DEF WalkState
<1>2. CASE p.prepayment
  <2>1. /\ w.owed = a.owed - Owed!Smaller(p.amount, a.owed)
        /\ w.repaid = a.repaid + Owed!Smaller(p.amount, a.owed)
        /\ w.prepaid = a.prepaid + Owed!Smaller(p.amount, a.owed)
        /\ w.interest = a.interest
    BY <1>2 DEF PaidFrom
  <2>2. QED
    BY <1>1, <2>1 DEF Owed!Smaller
<1>3. CASE ~p.prepayment
  <2> DEFINE i == Owed!Smaller(p.amount, a.accrued)
             y == Owed!Smaller(p.amount - i, a.owed)
  <2>1. /\ w.interest = a.interest + i
        /\ w.owed = a.owed - y /\ w.repaid = a.repaid + y /\ w.prepaid = a.prepaid
    BY <1>3 DEF PaidFrom
  <2>2. i \in Nat /\ i <= p.amount
    BY <1>1 DEF Owed!Smaller
  <2> HIDE DEF i
  <2>3. y \in Nat /\ y <= p.amount - i /\ y <= a.owed /\ (y = p.amount - i \/ y = a.owed)
    BY <1>1, <2>2 DEF Owed!Smaller
  <2> HIDE DEF y
  <2>4. QED
    BY <1>1, <2>1, <2>2, <2>3
<1>4. QED
  BY <1>2, <1>3

\* So is all that was paid, as long as anything is owed.
LEMMA AllPlaced ==
  ASSUME DebtsWhole, NEW debt, DebtWhole(debt), NEW D \in SUBSET Repaid, IsFiniteSet(D),
         NEW f, \A p \in D : f[p] = p.amount
  PROVE  \A S \in SUBSET D : \A w : Reaches(debt, S, w) => PlacedIn(debt, f, S, w)
<1> DEFINE ok(S) == \A w : Reaches(debt, S, w) => PlacedIn(debt, f, S, w)
           T == {S \in SUBSET D : ok(S)}
<1>1. ASSUME NEW S \in SUBSET D, \A t \in SUBSET S : t # S => t \in T
      PROVE  S \in T
  <2> SUFFICES ASSUME NEW w, Reaches(debt, S, w)
               PROVE  PlacedIn(debt, f, S, w)
    OBVIOUS
  <2>1. CASE S = {}
    <3>1. w = Owed!Start(debt)
      BY <2>1, NothingReaches
    <3>2. SumFunctionOnSet(f, S) = 0
      BY <2>1, SumEmpty
    <3>3. /\ w.owed = debt.principal /\ w.repaid = 0 /\ w.prepaid = 0 /\ w.interest = 0
          /\ debt.principal \in Nat
      BY <3>1 DEF Owed!Start, DebtWhole
    <3>4. QED
      BY <3>2, <3>3 DEF PlacedIn
  <2>2. CASE S # {}
    <3>1. IsFiniteSet(S) /\ IsFiniteSet(D)
      BY FS_Subset
    <3>x. PICK x \in S : \E v : /\ Reaches(debt, S \ {x}, v)
                                /\ w = Owed!Apply(v, x, debt.rate)
                                /\ \A y \in S \ {x} : <<y, x>> \in DayOrder
      BY <2>2, <3>1, LastReaches
    <3>2. PICK v : /\ Reaches(debt, S \ {x}, v)
                   /\ w = Owed!Apply(v, x, debt.rate)
                   /\ \A y \in S \ {x} : <<y, x>> \in DayOrder
      BY <3>x
    <3>3. v \in WalkState
      BY <3>2, ReachedWhole
    <3>4. S \ {x} \in T
      BY <1>1
    <3>5. PlacedIn(debt, f, S \ {x}, v)
      BY <3>2, <3>4
    <3>6. x.amount \in Nat /\ x.date \in Nat /\ debt.rate \in Nat /\ debt.principal \in Nat
      BY DEF DebtsWhole, DebtWhole
    <3>7. SumFunctionOnSet(f, S) = x.amount + SumFunctionOnSet(f, S \ {x})
      <4>1. \A p \in S : f[p] \in Int
        BY DEF DebtsWhole
      <4>2. SumFunctionOnSet(f, S) = f[x] + SumFunctionOnSet(f, S \ {x})
        BY <3>1, <4>1, SumRemove
      <4>3. QED
        BY <4>2
    <3>8. SumFunctionOnSet(f, S \ {x}) \in Int
      <4>1. IsFiniteSet(S \ {x}) /\ \A p \in S \ {x} : f[p] \in Int
        BY <3>1, FS_Subset DEF DebtsWhole
      <4>2. QED
        BY <4>1, SumInt
    <3> DEFINE a == Owed!AccrueTo(v, debt.rate, x.date)
    <3>9. AccruedFrom(a, v, debt.rate, x.date)
      BY <3>3, <3>6, Accrues
    <3>10. PaidFrom(Pay(a, x), a, x) /\ w = Pay(a, x)
      BY <3>2, <3>3, <3>6, <3>9, Pays, Applies DEF AccruedFrom
    <3> HIDE DEF a
    <3>11. /\ a \in WalkState /\ a.owed = v.owed /\ a.interest = v.interest
           /\ a.repaid = v.repaid /\ a.prepaid = v.prepaid
      BY <3>9 DEF AccruedFrom
    <3>12. /\ w.owed + w.repaid = a.owed + a.repaid
           /\ a.prepaid <= a.repaid => w.prepaid <= w.repaid
           /\ w.interest + w.repaid <= a.interest + a.repaid + x.amount
           /\ w.owed > 0 => a.owed > 0 /\ w.interest + w.repaid = a.interest + a.repaid + x.amount
      BY <3>6, <3>10, <3>11, PaymentPlaced
    <3>13. /\ v.owed \in Nat /\ v.repaid \in Nat /\ v.interest \in Nat
           /\ w.interest \in Nat /\ w.repaid \in Nat
      BY <3>3, <3>10, <3>11 DEF WalkState, PaidFrom
    <3>14. QED
      BY <3>5, <3>6, <3>7, <3>8, <3>11, <3>12, <3>13 DEF PlacedIn
  <2>3. QED
    BY <2>1, <2>2
<1> HIDE DEF T, ok
<1>2. \A S \in SUBSET D : S \in T
  BY <1>1, SubsetInduction
<1>3. QED
  BY <1>2 DEF T, ok

\* The register of borrowings counts as the lemmas do.
LEMMA CountsAgree == ASSUME NEW S PROVE Owed!Cardinality(S) = Cardinality(S)
  BY DEF Owed!Cardinality, Cardinality

\* The orders that Borrowings walks in are orders by day.
LEMMA WalkOrders ==
  ASSUME DebtsWhole, NEW S \in SUBSET Repaid, IsFiniteSet(S), NEW s
  PROVE  s \in Owed!Orders(S) <=> IsOrderOf(s, S, DayOrder)
<1>1. Owed!SetToSeqs(S)
        = {f \in [1..Cardinality(S) -> S] :
             \A i, j \in 1..Cardinality(S) : i # j => f[i] # f[j]}
  BY CountsAgree DEF Owed!SetToSeqs
<1>2. s \in Owed!Orders(S) <=>
        s \in Owed!SetToSeqs(S) /\ \A i, j \in DOMAIN s : i < j => s[i].date <= s[j].date
  BY DEF Owed!Orders
<1>3. ASSUME s \in [1..Cardinality(S) -> S]
      PROVE  \A i, j \in DOMAIN s : <<s[i], s[j]>> \in DayOrder <=> s[i].date <= s[j].date
  BY <1>3 DEF DayOrder
<1>4. QED
  BY <1>1, <1>2, <1>3 DEF IsOrderOf

\* Payments can be walked over by day.
LEMMA OrderToWalk ==
  ASSUME DebtsWhole, NEW S \in SUBSET Repaid, IsFiniteSet(S)
  PROVE  \E s : s \in Owed!Orders(S)
<1>1. \A x, y, z \in S :
        /\ x # y => <<x, y>> \in DayOrder \/ <<y, x>> \in DayOrder
        /\ <<x, y>> \in DayOrder /\ <<y, z>> \in DayOrder => <<x, z>> \in DayOrder
  BY DEF DebtsWhole, DayOrder
<1>2. \A x, y \in S : x # y => <<x, y>> \in DayOrder \/ <<y, x>> \in DayOrder
  BY <1>1
<1>3. \A x, y, z \in S : <<x, y>> \in DayOrder /\ <<y, z>> \in DayOrder => <<x, z>> \in DayOrder
  BY <1>1
<1>4. \E s : IsOrderOf(s, S, DayOrder)
  BY <1>2, <1>3, OrderExists
<1>5. QED
  BY <1>4, WalkOrders

\* The figures of the register are those of a walk over the set of payments.
LEMMA WalkReaches ==
  ASSUME DebtsWhole, NEW debt, DebtWhole(debt), NEW S \in SUBSET Repaid, IsFiniteSet(S),
         NEW s \in Owed!Orders(S)
  PROVE  Reaches(debt, S, Owed!Walk(debt, s))
<1> DEFINE n == Cardinality(S)
           base == Owed!Start(debt)
           step == [i \in 1..n |-> [w \in WalkState |-> Owed!Apply(w, s[i], debt.rate)]]
           top == [t \in SUBSET (1..n) |-> Owed!Max(t)]
           Eqn(f) == f = [t \in SUBSET DOMAIN s |->
                           IF t = {} THEN base
                           ELSE Owed!Apply(f[t \ {Owed!Max(t)}], s[Owed!Max(t)], debt.rate)]
           C == CHOOSE f : Eqn(f)
<1>1. n \in Nat /\ base \in WalkState
  BY FS_CardinalityType, StartWhole
<1>2. IsOrderOf(s, S, DayOrder) /\ s \in [1..n -> S]
  BY WalkOrders DEF IsOrderOf
<1>3. \A i \in 1..n : s[i].amount \in Nat /\ s[i].date \in Nat
  BY <1>2 DEF DebtsWhole
<1>4. step \in [1..n -> [WalkState -> WalkState]]
  <2>1. ASSUME NEW i \in 1..n, NEW w \in WalkState
        PROVE  Owed!Apply(w, s[i], debt.rate) \in WalkState
    BY <1>3, Applies DEF DebtWhole
  <2>2. QED
    BY <2>1
<1>5. Greatest(top, n)
  BY <1>1, GreatestPlace DEF Greatest, Owed!Max
<1>6. DOMAIN s = 1..n
  BY <1>2
<1>7. Owed!Walk(debt, s) = C[DOMAIN s]
  BY DEF Owed!Walk, Owed!FoldLeft, Owed!MapThenFoldSet
<1>8. \E f : Eqn(f)
  <2>1. PICK g \in [SUBSET (1..n) -> WalkState] : FoldTable(g, base, n, step, top)
    <3> HIDE DEF n, base, step, top
    <3>1. QED
      BY <1>1, <1>4, <1>5, FoldTableExists
  <2>2. ASSUME NEW t \in SUBSET (1..n)
        PROVE  g[t] = IF t = {} THEN base
                      ELSE Owed!Apply(g[t \ {Owed!Max(t)}], s[Owed!Max(t)], debt.rate)
    <3>1. g[t] = IF t = {} THEN base ELSE step[top[t]][g[t \ {top[t]}]]
      BY <2>1 DEF FoldTable
    <3>2. ASSUME t # {}
          PROVE  step[top[t]][g[t \ {top[t]}]]
                   = Owed!Apply(g[t \ {Owed!Max(t)}], s[Owed!Max(t)], debt.rate)
      <4>1. top[t] = Owed!Max(t) /\ top[t] \in 1..n
        BY <1>5, <3>2 DEF Greatest
      <4>2. g[t \ {top[t]}] \in WalkState
        BY <2>1
      <4> HIDE DEF top
      <4>3. QED
        BY <4>1, <4>2
    <3> HIDE DEF step, top, base
    <3>3. QED
      BY <3>1, <3>2
  <2>3. g = [t \in SUBSET (1..n) |-> g[t]]
    BY <2>1
  <2> HIDE DEF n, base
  <2>4. g = [t \in SUBSET (1..n) |->
              IF t = {} THEN base
              ELSE Owed!Apply(g[t \ {Owed!Max(t)}], s[Owed!Max(t)], debt.rate)]
    BY <2>2, <2>3
  <2>5. Eqn(g)
    BY <1>6, <2>4
  <2>6. QED
    BY <2>5
<1>9. Eqn(C)
  <2> HIDE DEF Eqn
  <2>1. QED
    BY <1>8
<1>10. C[{}] = base /\ C[DOMAIN s] = C[1..n]
  <2>1. {} \in SUBSET DOMAIN s
    OBVIOUS
  <2> HIDE DEF C, base, n
  <2>2. QED
    BY <1>6, <1>9, <2>1
<1>11. ASSUME NEW t \in SUBSET (1..n), t # {}, C[t \ {top[t]}] \in WalkState
      PROVE  C[t] = step[top[t]][C[t \ {top[t]}]]
  <2>1. C[t] = Owed!Apply(C[t \ {Owed!Max(t)}], s[Owed!Max(t)], debt.rate)
    <3> HIDE DEF C, base, n
    <3>1. QED
      BY <1>6, <1>9, <1>11
  <2>2. top[t] = Owed!Max(t) /\ top[t] \in 1..n
    BY <1>5, <1>11 DEF Greatest
  <2> HIDE DEF C, top
  <2>3. QED
    BY <1>11, <2>1, <2>2
<1>12. \E h \in [0..n -> WalkState] : Walks(h, base, n, step) /\ h[n] = C[1..n]
  <2>1. C[{}] = base
    BY <1>10
  <2> HIDE DEF C, base, n, step, top
  <2>2. \A t \in SUBSET (1..n) : t # {} /\ C[t \ {top[t]}] \in WalkState =>
          C[t] = step[top[t]][C[t \ {top[t]}]]
    BY <1>11
  <2>3. Folds(C, WalkState, base, n, step, top)
    BY <2>1, <2>2 DEF Folds
  <2>4. QED
    BY ONLY <1>1, <1>4, <1>5, <2>3, FoldWalks, SMTT(60), ZenonT(60)
<1>13. PICK h \in [0..n -> WalkState] : Walks(h, base, n, step) /\ h[n] = C[1..n]
  BY <1>12
<1>14. ASSUME NEW i \in 1..n
      PROVE  h[i] = Owed!Apply(h[i - 1], s[i], debt.rate)
  <2>1. h[i - 1] \in WalkState
    BY <1>1, <1>13
  <2>2. h[i] = step[i][h[i - 1]]
    BY <1>13 DEF Walks
  <2>3. QED
    BY <2>1, <2>2
<1> HIDE DEF C
<1>15. Passes(h, debt, s, n)
  BY <1>13, <1>14 DEF Passes, Walks
<1>16. Owed!Walk(debt, s) = h[n]
  BY <1>7, <1>10, <1>13
<1> HIDE DEF n
<1>17. Reaches(debt, S, h[n])
  BY <1>2, <1>15 DEF Reaches, n
<1>18. QED
  BY <1>16, <1>17

LoanFields == {"principal", "rate", "start", "status", "payments"}
\* Loans have their terms for an id, and payments that can be made.
BorrowingsTyped ==
  /\ DOMAIN owed \subseteq Owed!LoanId
  /\ \A id \in DOMAIN owed :
       /\ DOMAIN owed[id] = LoanFields
       /\ owed[id].payments \subseteq Repaid
---------------------------------------------------------------------------
\* What a saved loan does to the register.
LEMMA SavedLoan ==
  ASSUME NEW id, NEW saved, Owed!Put(id, saved)
  PROVE  /\ DOMAIN owed' = DOMAIN owed \cup {id}
         /\ \A i \in DOMAIN owed' : owed'[i] = IF i = id THEN saved ELSE owed[i]
         /\ mode' = mode
  BY DEF Owed!Put

\* Saving a loan under its id keeps them typed.
LEMMA SavingKeepsTyped ==
  ASSUME BorrowingsTyped, NEW id \in Owed!LoanId, NEW saved, Owed!Put(id, saved),
         DOMAIN saved = LoanFields, saved.payments \subseteq Repaid
  PROVE  BorrowingsTyped'
<1>1. DOMAIN owed' \subseteq Owed!LoanId
  <2>1. DOMAIN owed' = DOMAIN owed \cup {id}
    BY SavedLoan
  <2>2. DOMAIN owed \subseteq Owed!LoanId
    BY DEF BorrowingsTyped
  <2>3. QED
    BY <2>1, <2>2
<1>2. ASSUME NEW i \in DOMAIN owed'
      PROVE  DOMAIN owed'[i] = LoanFields /\ owed'[i].payments \subseteq Repaid
  <2>1. i = id \/ i \in DOMAIN owed
    BY SavedLoan
  <2>2. QED
    BY <2>1, SavedLoan DEF BorrowingsTyped
<1>3. QED
  BY <1>1, <1>2 DEF BorrowingsTyped

\* Every request of LiabilityUC does.
LEMMA BorrowingsTypedInductive ==
  ASSUME BorrowingsTyped, [Owed!Next]_(Owed!vars)
  PROVE  BorrowingsTyped'
<1>1. ASSUME NEW t \in Borrowed, Owed!Record(t)
      PROVE  BorrowingsTyped'
  <2>1. <<t.lender, t.start, t.principal>> \in Owed!LoanId
    BY DEF Owed!LoanId
  <2>2. QED
    BY <1>1, <2>1, SavingKeepsTyped DEF Owed!Record, LoanFields
<1>2. ASSUME NEW id \in DOMAIN owed, NEW p \in Repaid, Owed!RecordPayment(id, p)
      PROVE  BorrowingsTyped'
  <2>1. /\ id \in Owed!LoanId
        /\ DOMAIN owed[id] = LoanFields
        /\ owed[id].payments \subseteq Repaid
    BY DEF BorrowingsTyped
  <2>2. /\ DOMAIN [owed[id] EXCEPT !.payments = @ \cup {p}] = LoanFields
        /\ [owed[id] EXCEPT !.payments = @ \cup {p}].payments = owed[id].payments \cup {p}
    BY <2>1 DEF LoanFields
  <2>3. QED
    BY <1>2, <2>1, <2>2, SavingKeepsTyped DEF Owed!RecordPayment
<1>3. ASSUME NEW id \in DOMAIN owed, NEW s, Owed!Put(id, [owed[id] EXCEPT !.status = s])
      PROVE  BorrowingsTyped'
  <2>1. /\ id \in Owed!LoanId
        /\ DOMAIN owed[id] = LoanFields
        /\ owed[id].payments \subseteq Repaid
    BY DEF BorrowingsTyped
  <2>2. /\ DOMAIN [owed[id] EXCEPT !.status = s] = LoanFields
        /\ [owed[id] EXCEPT !.status = s].payments = owed[id].payments
    BY <2>1 DEF LoanFields
  <2>3. QED
    BY <1>3, <2>1, <2>2, SavingKeepsTyped
<1>4. ASSUME NEW id \in DOMAIN owed, Owed!Delete(id)
      PROVE  BorrowingsTyped'
  BY <1>4 DEF Owed!Delete, Owed!Restrict, BorrowingsTyped
<1>5. CASE Owed!Session \/ Owed!NextDay \/ UNCHANGED Owed!vars
  BY <1>5 DEF Owed!Session, Owed!NextDay, Owed!vars, BorrowingsTyped
<1>6. QED
  BY <1>1, <1>2, <1>3, <1>4, <1>5 DEF Owed!Next, Owed!Close, Owed!Reopen
---------------------------------------------------------------------------
\* The payments on the register, as Passbook has them.
PaidOn == [id \in DOMAIN owed |-> owed[id].payments]

\* What a saved loan does to the passbook.
LEMMA SavedPayments ==
  ASSUME NEW id, NEW saved, Owed!Put(id, saved)
  PROVE  /\ PaidOn' = [i \in DOMAIN PaidOn \cup {id} |->
                         IF i = id THEN saved.payments ELSE PaidOn[i]]
         /\ mode' = mode
<1>1. /\ owed' = [i \in DOMAIN owed \cup {id} |-> IF i = id THEN saved ELSE owed[i]]
      /\ mode' = mode
  BY DEF Owed!Put
<1>2. QED
  BY <1>1 DEF PaidOn

\* A loan is opened once: recording it again is refused.
LEMMA RecordOpens ==
  ASSUME NEW t \in Borrowed, Owed!Record(t)
  PROVE  Owed!Book!Open(<<t.lender, t.start, t.principal>>)
<1> DEFINE id == <<t.lender, t.start, t.principal>>
           saved == [principal |-> t.principal, rate |-> t.rate, start |-> t.start,
                    status |-> "ACTIVE", payments |-> {}]
<1>1. Owed!Put(id, saved) /\ id \notin DOMAIN owed
  BY DEF Owed!Record, Owed!Fresh
<1>2. saved.payments = {}
  OBVIOUS
<1> HIDE DEF id, saved
<1>3. PaidOn' = [i \in DOMAIN PaidOn \cup {id} |-> IF i = id THEN {} ELSE PaidOn[i]]
  BY <1>1, <1>2, SavedPayments
<1>4. id \notin DOMAIN PaidOn /\ mode' = mode
  BY <1>1, SavedPayments DEF PaidOn
<1>5. Owed!Book!Open(id)
  BY <1>3, <1>4 DEF PaidOn, Owed!Editing, Owed!Book!Open
<1>6. QED
  BY <1>5 DEF id

\* A payment adds itself to the loan, if it is not there.
LEMMA PaymentPays ==
  ASSUME BorrowingsTyped, NEW id \in DOMAIN owed, NEW p \in Repaid, Owed!RecordPayment(id, p)
  PROVE  Owed!Book!Pay(id)
<1> DEFINE saved == [owed[id] EXCEPT !.payments = @ \cup {p}]
<1>1. Owed!Put(id, saved)
  BY DEF Owed!RecordPayment
<1>2. saved.payments = owed[id].payments \cup {p}
  BY DEF BorrowingsTyped, LoanFields
<1> HIDE DEF saved
<1>3. /\ PaidOn' = [i \in DOMAIN PaidOn \cup {id} |->
                      IF i = id THEN saved.payments ELSE PaidOn[i]]
      /\ mode' = mode
  BY <1>1, SavedPayments
<1>4. id \in DOMAIN PaidOn /\ PaidOn[id] = owed[id].payments
  BY DEF PaidOn
<1>5. PaidOn' = [PaidOn EXCEPT ![id] = @ \cup {p}]
  <2>1. DOMAIN PaidOn \cup {id} = DOMAIN PaidOn
    BY <1>4
  <2>2. PaidOn' = [i \in DOMAIN PaidOn |-> IF i = id THEN saved.payments ELSE PaidOn[i]]
    BY <1>3, <2>1
  <2>3. PaidOn' = [PaidOn EXCEPT ![id] = saved.payments]
    BY <2>2, <1>4
  <2>4. QED
    BY <2>3, <1>2, <1>4
<1>6. QED
  BY <1>3, <1>4, <1>5 DEF PaidOn, Owed!Editing, Owed!Book!Pay

\* Closing and reopening leave the payments.
LEMMA StatusKeeps ==
  ASSUME BorrowingsTyped, NEW id \in DOMAIN owed, NEW s,
         Owed!Put(id, [owed[id] EXCEPT !.status = s])
  PROVE  UNCHANGED Owed!Book!vars
<1> DEFINE saved == [owed[id] EXCEPT !.status = s]
<1>1. saved.payments = owed[id].payments
  BY DEF BorrowingsTyped, LoanFields
<1> HIDE DEF saved
<1>2. /\ PaidOn' = [i \in DOMAIN PaidOn \cup {id} |->
                      IF i = id THEN saved.payments ELSE PaidOn[i]]
      /\ mode' = mode
  BY SavedPayments DEF saved
<1>3. PaidOn' = PaidOn
  BY <1>1, <1>2 DEF PaidOn
<1>4. QED
  BY <1>2, <1>3 DEF PaidOn, Owed!Editing, Owed!Book!vars

\* A deletion removes a loan with its payments, in edit mode.
LEMMA DeletionRemoves ==
  ASSUME NEW id \in DOMAIN owed, Owed!Delete(id)
  PROVE  Owed!Book!Remove(id)
<1>1. Owed!Editing /\ mode' = mode /\ owed' = [i \in DOMAIN owed \ {id} |-> owed[i]]
  BY DEF Owed!Delete, Owed!Restrict
<1>2. PaidOn' = [i \in DOMAIN PaidOn \ {id} |-> PaidOn[i]] /\ id \in DOMAIN PaidOn
  BY <1>1 DEF PaidOn
<1>3. QED
  BY <1>1, <1>2 DEF PaidOn, Owed!Editing, Owed!Book!Remove

\* So every step of the register is one of a passbook.
LEMMA StepsKept ==
  ASSUME BorrowingsTyped, [Owed!Next]_(Owed!vars)
  PROVE  [Owed!Book!Next]_(Owed!Book!vars)
<1>1. ASSUME NEW t \in Borrowed, Owed!Record(t)
      PROVE  Owed!Book!Next
  <2>1. <<t.lender, t.start, t.principal>> \in Owed!LoanId
    BY DEF Owed!LoanId
  <2>2. QED
    BY <1>1, <2>1, RecordOpens DEF Owed!Book!Next
<1>2. ASSUME NEW id \in DOMAIN owed, NEW p \in Repaid, Owed!RecordPayment(id, p)
      PROVE  Owed!Book!Next
  BY <1>2, PaymentPays DEF Owed!Book!Next, BorrowingsTyped
<1>3. ASSUME NEW id \in DOMAIN owed, Owed!Close(id) \/ Owed!Reopen(id)
      PROVE  UNCHANGED Owed!Book!vars
  BY <1>3, StatusKeeps DEF Owed!Close, Owed!Reopen
<1>4. ASSUME NEW id \in DOMAIN owed, Owed!Delete(id)
      PROVE  Owed!Book!Next
  BY <1>4, DeletionRemoves DEF Owed!Book!Next, BorrowingsTyped
<1>5. CASE Owed!Session
  BY <1>5 DEF Owed!Session, Owed!Editing, Owed!Book!Next, Owed!Book!Protect
<1>6. CASE Owed!NextDay \/ UNCHANGED Owed!vars
  <2>1. owed' = owed /\ mode' = mode
    BY <1>6 DEF Owed!NextDay, Owed!vars
  <2>2. QED
    BY <2>1 DEF Owed!Editing, Owed!Book!vars
<1>7. QED
  BY <1>1, <1>2, <1>3, <1>4, <1>5, <1>6 DEF Owed!Next

(* LiabilityUC keeps a passbook in which a loan is opened once: a payment  *)
(* told twice is one payment, and recording, paying, closing or reopening  *)
(* never takes one away.                                                   *)
THEOREM BorrowingsArePassbooks == Owed!Spec => Owed!BorrowingsKept
<1>1. Owed!Init => BorrowingsTyped
  BY DEF Owed!Init, BorrowingsTyped
<1>2. BorrowingsTyped /\ [Owed!Next]_(Owed!vars) => BorrowingsTyped'
  BY BorrowingsTypedInductive
<1>3. Owed!Init => Owed!Book!Init
  BY DEF Owed!Init, Owed!Editing, Owed!Book!Init
<1>4. BorrowingsTyped /\ [Owed!Next]_(Owed!vars) => [Owed!Book!Next]_(Owed!Book!vars)
  BY StepsKept
<1>5. QED
  BY <1>1, <1>2, <1>3, <1>4, PTL DEF Owed!Spec, Owed!BorrowingsKept, Owed!Book!Spec

\* The loans are finitely many, each whole and with finitely many payments.
DebtsCounted ==
  /\ BorrowingsTyped
  /\ IsFiniteSet(DOMAIN owed)
  /\ \A id \in DOMAIN owed : DebtWhole(owed[id]) /\ IsFiniteSet(owed[id].payments)

\* Saving a whole loan leaves them so.
LEMMA SavingKeepsCounted ==
  ASSUME DebtsCounted, BorrowingsTyped', NEW id, NEW saved, Owed!Put(id, saved),
         DebtWhole(saved), IsFiniteSet(saved.payments)
  PROVE  DebtsCounted'
<1>1. IsFiniteSet(DOMAIN owed')
  <2>1. DOMAIN owed' = DOMAIN owed \cup {id}
    BY SavedLoan
  <2>2. IsFiniteSet(DOMAIN owed)
    BY DEF DebtsCounted
  <2>3. IsFiniteSet(DOMAIN owed \cup {id})
    BY <2>2, FS_AddElement
  <2>4. QED
    BY <2>1, <2>3
<1>2. ASSUME NEW i \in DOMAIN owed'
      PROVE  DebtWhole(owed'[i]) /\ IsFiniteSet(owed'[i].payments)
  <2>1. owed'[i] = saved \/ (i \in DOMAIN owed /\ owed'[i] = owed[i])
    BY SavedLoan
  <2>2. QED
    BY <2>1 DEF DebtsCounted
<1>3. QED
  BY <1>1, <1>2 DEF DebtsCounted, DebtWhole

\* Every request of LiabilityUC does so.
LEMMA DebtsCountedInductive ==
  ASSUME DebtsWhole, DebtsCounted, [Owed!Next]_(Owed!vars)
  PROVE  DebtsCounted'
<1>0. BorrowingsTyped'
  BY BorrowingsTypedInductive DEF DebtsCounted
<1>1. ASSUME NEW t \in Borrowed, Owed!Record(t)
      PROVE  DebtsCounted'
  <2> DEFINE saved == [principal |-> t.principal, rate |-> t.rate, start |-> t.start,
                       status |-> "ACTIVE", payments |-> {}]
  <2>1. Owed!Put(<<t.lender, t.start, t.principal>>, saved)
    BY <1>1 DEF Owed!Record
  <2>2. DebtWhole(saved) /\ saved.payments = {}
    BY DEF DebtWhole, DebtsWhole
  <2> HIDE DEF saved
  <2>3. IsFiniteSet(saved.payments)
    BY <2>2, FS_EmptySet
  <2>4. QED
    BY <1>0, <2>1, <2>2, <2>3, SavingKeepsCounted
<1>2. ASSUME NEW id \in DOMAIN owed, NEW p \in Repaid, Owed!RecordPayment(id, p)
      PROVE  DebtsCounted'
  <2> DEFINE saved == [owed[id] EXCEPT !.payments = @ \cup {p}]
  <2>1. Owed!Put(id, saved)
    BY <1>2 DEF Owed!RecordPayment
  <2>2. DOMAIN owed[id] = LoanFields /\ DebtWhole(owed[id]) /\ IsFiniteSet(owed[id].payments)
    BY DEF DebtsCounted, BorrowingsTyped
  <2>3. DebtWhole(saved) /\ saved.payments = owed[id].payments \cup {p}
    BY <2>2 DEF DebtWhole, LoanFields
  <2> HIDE DEF saved
  <2>4. IsFiniteSet(saved.payments)
    BY <2>2, <2>3, FS_AddElement
  <2>5. QED
    BY <1>0, <2>1, <2>3, <2>4, SavingKeepsCounted
<1>3. ASSUME NEW id \in DOMAIN owed, NEW s, Owed!Put(id, [owed[id] EXCEPT !.status = s])
      PROVE  DebtsCounted'
  <2> DEFINE saved == [owed[id] EXCEPT !.status = s]
  <2>1. DOMAIN owed[id] = LoanFields /\ DebtWhole(owed[id]) /\ IsFiniteSet(owed[id].payments)
    BY DEF DebtsCounted, BorrowingsTyped
  <2>2. DebtWhole(saved) /\ saved.payments = owed[id].payments
    BY <2>1 DEF DebtWhole, LoanFields
  <2>3. Owed!Put(id, saved)
    BY <1>3
  <2> HIDE DEF saved
  <2>4. QED
    BY <1>0, <2>1, <2>2, <2>3, SavingKeepsCounted
<1>4. ASSUME NEW id \in DOMAIN owed, Owed!Delete(id)
      PROVE  DebtsCounted'
  <2>1. owed' = [i \in DOMAIN owed \ {id} |-> owed[i]]
    BY <1>4 DEF Owed!Delete, Owed!Restrict
  <2>2. IsFiniteSet(DOMAIN owed')
    BY <2>1, FS_RemoveElement DEF DebtsCounted
  <2>3. \A i \in DOMAIN owed' : i \in DOMAIN owed /\ owed'[i] = owed[i]
    BY <2>1
  <2>4. QED
    BY <1>0, <2>2, <2>3 DEF DebtsCounted, DebtWhole
<1>5. CASE owed' = owed
  BY <1>0, <1>5 DEF DebtsCounted, DebtWhole
<1>6. QED
  BY <1>1, <1>2, <1>3, <1>4, <1>5 DEF Owed!Next, Owed!Close, Owed!Reopen, Owed!Session,
    Owed!NextDay, Owed!vars
---------------------------------------------------------------------------
\* A debt of the register, whose walk goes over the payments due.
LEMMA DuePayments ==
  ASSUME DebtsCounted, NEW id \in DOMAIN owed, NEW d
  PROVE  /\ DebtWhole(owed[id])
         /\ Owed!Due(owed[id], d) \in SUBSET Repaid
         /\ IsFiniteSet(Owed!Due(owed[id], d))
<1>1. /\ owed[id].payments \subseteq Repaid
      /\ IsFiniteSet(owed[id].payments) /\ DebtWhole(owed[id])
  BY DEF DebtsCounted, BorrowingsTyped
<1>2. Owed!Due(owed[id], d) \subseteq owed[id].payments
  BY DEF Owed!Due
<1>3. QED
  BY <1>1, <1>2, FS_Subset

\* The progress of a loan on a day is where the walk over its due payments is.
LEMMA ProgressReaches ==
  ASSUME DebtsWhole, NEW debt, DebtWhole(debt), NEW d,
         Owed!Due(debt, d) \in SUBSET Repaid, IsFiniteSet(Owed!Due(debt, d))
  PROVE  Reaches(debt, Owed!Due(debt, d), Owed!Progress(debt, d))
<1> DEFINE s == CHOOSE s \in Owed!Orders(Owed!Due(debt, d)) : TRUE
<1>1. s \in Owed!Orders(Owed!Due(debt, d))
  BY OrderToWalk
<1>2. Owed!Progress(debt, d) = Owed!Walk(debt, s)
  BY DEF Owed!Progress
<1> HIDE DEF s
<1>3. QED
  BY <1>1, <1>2, WalkReaches

\* What was paid in is the sum of the payments due.
LEMMA PaidInIsSum ==
  ASSUME NEW debt
  PROVE  Owed!PaidIn(debt)
           = SumFunctionOnSet([p \in Owed!Due(debt, today) |-> p.amount], Owed!Due(debt, today))
<1> DEFINE D == Owed!Due(debt, today)
           f == [p \in D |-> p.amount]
           Table(h) == h = [s \in SUBSET D |->
             IF s = {} THEN 0 ELSE FirstOf(s).amount + h[s \ {FirstOf(s)}]]
           Known(h) == h = [s \in SUBSET D |->
             IF s = {} THEN 0 ELSE f[FirstOf(s)] + h[s \ {FirstOf(s)}]]
<1>1. ASSUME NEW h PROVE Table(h) <=> Known(h)
  BY FirstOfIn
<1>2. Owed!PaidIn(debt) = (CHOOSE h : Table(h))[D]
  BY DEF Owed!PaidIn, Owed!MapThenSumSet, Owed!MapThenFoldSet, FirstOf
<1>3. SumFunctionOnSet(f, D) = (CHOOSE h : Known(h))[D]
  BY DEF SumFunctionOnSet, FoldFunctionOnSet, MapThenFoldSet, FirstOf
<1> HIDE DEF Table, Known
<1>4. (CHOOSE h : Table(h)) = (CHOOSE h : Known(h))
  BY <1>1
<1>5. QED
  BY <1>2, <1>3, <1>4

\* First figure: what was paid is interest or repaid debt.
LEMMA MoneyIsPlaced ==
  ASSUME DebtsWhole, DebtsCounted
  PROVE  Owed!MoneyPlaced
<1> SUFFICES ASSUME NEW id \in DOMAIN owed
             PROVE  LET debt == owed[id]
                        ends == {Owed!Walk(debt, s) : s \in Owed!Orders(Owed!Due(debt, today))}
                    IN  /\ \A w \in ends : Owed!Placed(debt, w)
                        /\ \A v, w \in ends : v.owed = w.owed /\ v.interest = w.interest
  BY DEF Owed!MoneyPlaced
<1> DEFINE debt == owed[id]
           D == Owed!Due(debt, today)
           f == [p \in D |-> p.amount]
<1>1. DebtWhole(debt) /\ D \in SUBSET Repaid /\ IsFiniteSet(D)
  BY DuePayments
<1>2. Owed!PaidIn(debt) = SumFunctionOnSet(f, D) /\ \A p \in D : f[p] = p.amount
  BY PaidInIsSum
<1> HIDE DEF debt, D, f
<1>3. ASSUME NEW s \in Owed!Orders(D)
      PROVE  Reaches(debt, D, Owed!Walk(debt, s))
  BY <1>1, WalkReaches
<1>4. ASSUME NEW s \in Owed!Orders(D)
      PROVE  Owed!Placed(debt, Owed!Walk(debt, s))
  <2>1. D \in SUBSET D
    OBVIOUS
  <2>2. PlacedIn(debt, f, D, Owed!Walk(debt, s))
    BY <1>1, <1>2, <1>3, <2>1, AllPlaced
  <2>3. QED
    BY <1>2, <2>2 DEF PlacedIn, Owed!Placed
<1>5. ASSUME NEW s \in Owed!Orders(D), NEW t \in Owed!Orders(D)
      PROVE  /\ Owed!Walk(debt, s).owed = Owed!Walk(debt, t).owed
             /\ Owed!Walk(debt, s).interest = Owed!Walk(debt, t).interest
  <2>1. D \in SUBSET D
    OBVIOUS
  <2>2. Same(Owed!Walk(debt, s), Owed!Walk(debt, t))
    BY <1>1, <1>3, <2>1, SameReached
  <2>3. QED
    BY <2>2 DEF Same
<1>6. QED
  BY <1>4, <1>5 DEF debt, D

\* Only the terms and the payments matter to the walk.
LEMMA SameTerms ==
  ASSUME NEW debt, NEW other, other.principal = debt.principal, other.rate = debt.rate,
         other.start = debt.start, NEW S, NEW w, Reaches(other, S, w)
  PROVE  Reaches(debt, S, w)
<1>1. Owed!Start(other) = Owed!Start(debt)
  BY DEF Owed!Start
<1>2. QED
  BY <1>1 DEF Reaches, Passes

\* Second figure: no payment raises what is owed on any day.
LEMMA PaymentsLower ==
  ASSUME DebtsWhole, DebtsCounted
  PROVE  Owed!PayingLowersDebt
<1> SUFFICES ASSUME NEW id \in DOMAIN owed, NEW p \in owed[id].payments, NEW d \in 0..LastDebtDay
             PROVE  Owed!Outstanding(owed[id], d) <= Owed!Outstanding(Owed!Without(owed[id], p), d)
  BY DEF Owed!PayingLowersDebt
<1> DEFINE debt == owed[id]
           other == Owed!Without(debt, p)
           D == Owed!Due(debt, d)
           E == Owed!Due(other, d)
<1>1. DebtWhole(debt) /\ D \in SUBSET Repaid /\ IsFiniteSet(D)
  BY DuePayments
<1>2. /\ other.principal = debt.principal /\ other.rate = debt.rate /\ other.start = debt.start
      /\ other.status = debt.status /\ other.payments = debt.payments \ {p}
  BY DEF Owed!Without, DebtsCounted, BorrowingsTyped, LoanFields
<1>3. E = D \ {p}
  BY <1>2 DEF Owed!Due
<1> HIDE DEF other
<1>4. DebtWhole(other)
  BY <1>1, <1>2 DEF DebtWhole
<1>5. E \in SUBSET Repaid /\ IsFiniteSet(E) /\ E \in SUBSET D
  BY <1>1, <1>3, FS_Subset
<1> DEFINE w == Owed!Progress(debt, d)
           v == Owed!Progress(other, d)
<1>6. Reaches(debt, D, w)
  BY <1>1, ProgressReaches
<1>7. Reaches(debt, E, v)
  <2>1. Reaches(other, E, v)
    BY <1>4, <1>5, ProgressReaches
  <2>2. QED
    BY <1>2, <2>1, SameTerms
<1> HIDE DEF w, v, E, D, debt
<1>8. w.owed <= v.owed
  <2>1. w \in WalkState /\ v \in WalkState
    BY <1>1, <1>5, <1>6, <1>7, ReachedWhole
  <2>2. CASE p \in D
    <3>1. D \in SUBSET D
      OBVIOUS
    <3>2. Reaches(debt, D \ {p}, v)
      BY <1>3, <1>7
    <3>3. Lower(w, v, debt.rate)
      BY <1>1, <1>6, <2>2, <3>1, <3>2, LowerReached
    <3>4. QED
      BY <3>3 DEF Lower
  <2>3. CASE p \notin D
    <3>1. D \ {p} = D /\ D \in SUBSET D
      BY <2>3
    <3>2. Reaches(debt, D, v)
      BY <1>3, <1>7, <3>1
    <3>3. Same(w, v)
      BY <1>1, <1>6, <3>1, <3>2, SameReached
    <3>4. QED
      BY <2>1, <3>3 DEF Same, WalkState
  <2>4. QED
    BY <2>2, <2>3
<1>9. Owed!Outstanding(debt, d) <= Owed!Outstanding(other, d)
  BY <1>2, <1>8 DEF Owed!Outstanding, w, v
<1>10. QED
  BY <1>9 DEF debt, other

\* What is owed on each loan, and the loans of some lenders.
Debts == [id \in DOMAIN owed |-> Owed!Outstanding(owed[id], today)]
Lent(lenders) == {id \in DOMAIN owed : id[1] \in lenders}

\* What is owed on a loan is a number.
LEMMA DebtsInt ==
  ASSUME DebtsWhole, DebtsCounted, NEW id \in DOMAIN owed
  PROVE  Debts[id] \in Int
<1> DEFINE debt == owed[id]
           D == Owed!Due(debt, today)
           w == Owed!Progress(debt, today)
<1>1. DebtWhole(debt) /\ D \in SUBSET Repaid /\ IsFiniteSet(D)
  BY DuePayments
<1> HIDE DEF debt, D, w
<1>2. Reaches(debt, D, w)
  BY <1>1, ProgressReaches DEF D, w
<1>3. w \in WalkState
  BY <1>1, <1>2, ReachedWhole
<1>4. w.owed \in Int
  BY <1>3 DEF WalkState
<1>5. Debts[id] = IF debt.status = "CLOSED" THEN 0 ELSE w.owed
  BY DEF Debts, Owed!Outstanding, debt, w
<1>6. QED
  BY <1>4, <1>5

\* The total of some lenders is the sum over their loans.
LEMMA TotalIsSumOfDebts ==
  ASSUME NEW lenders
  PROVE  Owed!TotalOutstanding(lenders) = SumFunctionOnSet(Debts, Lent(lenders))
<1> DEFINE D == Lent(lenders)
           Table(h) == h = [s \in SUBSET D |->
             IF s = {} THEN 0 ELSE Owed!Outstanding(owed[FirstOf(s)], today) + h[s \ {FirstOf(s)}]]
           Known(h) == h = [s \in SUBSET D |->
             IF s = {} THEN 0 ELSE Debts[FirstOf(s)] + h[s \ {FirstOf(s)}]]
<1>1. ASSUME NEW h PROVE Table(h) <=> Known(h)
  <2>1. \A s \in SUBSET D : s # {} => Owed!Outstanding(owed[FirstOf(s)], today) = Debts[FirstOf(s)]
    BY FirstOfIn DEF Debts, Lent
  <2>2. QED
    BY <2>1
<1>2. Owed!TotalOutstanding(lenders) = (CHOOSE h : Table(h))[D]
  BY DEF Owed!TotalOutstanding, Owed!MapThenSumSet, Owed!MapThenFoldSet, FirstOf, Lent
<1>3. SumFunctionOnSet(Debts, D) = (CHOOSE h : Known(h))[D]
  BY DEF SumFunctionOnSet, FoldFunctionOnSet, MapThenFoldSet, FirstOf
<1> HIDE DEF Table, Known
<1>4. (CHOOSE h : Table(h)) = (CHOOSE h : Known(h))
  BY <1>1
<1>5. QED
  BY <1>2, <1>3, <1>4

\* The liabilities of the net worth are the sum over all loans.
LEMMA LiabilityIsSumOfDebts ==
  Owed!MapThenSumSet(LAMBDA id : Owed!Liability(owed[id], today), DOMAIN owed)
    = SumFunctionOnSet(Debts, DOMAIN owed)
<1> DEFINE D == DOMAIN owed
           Table(h) == h = [s \in SUBSET D |->
             IF s = {} THEN 0 ELSE Owed!Liability(owed[FirstOf(s)], today) + h[s \ {FirstOf(s)}]]
           Known(h) == h = [s \in SUBSET D |->
             IF s = {} THEN 0 ELSE Debts[FirstOf(s)] + h[s \ {FirstOf(s)}]]
<1>1. ASSUME NEW h PROVE Table(h) <=> Known(h)
  <2>1. \A s \in SUBSET D : s # {} => Owed!Liability(owed[FirstOf(s)], today) = Debts[FirstOf(s)]
    BY FirstOfIn DEF Debts, Owed!Liability, Owed!Outstanding
  <2>2. QED
    BY <2>1
<1>2. Owed!MapThenSumSet(LAMBDA id : Owed!Liability(owed[id], today), D) = (CHOOSE h : Table(h))[D]
  BY DEF Owed!MapThenSumSet, Owed!MapThenFoldSet, FirstOf
<1>3. SumFunctionOnSet(Debts, D) = (CHOOSE h : Known(h))[D]
  BY DEF SumFunctionOnSet, FoldFunctionOnSet, MapThenFoldSet, FirstOf
<1> HIDE DEF Table, Known
<1>4. (CHOOSE h : Table(h)) = (CHOOSE h : Known(h))
  BY <1>1
<1>5. QED
  BY <1>2, <1>3, <1>4

\* The totals of the lenders, one by one, add up to the sum over all loans.
LEMMA LendersAddUp ==
  ASSUME DebtsWhole, DebtsCounted
  PROVE  Owed!MapThenSumSet(LAMBDA l : Owed!TotalOutstanding({l}), Owed!Lenders)
           = SumFunctionOnSet(Debts, DOMAIN owed)
<1> DEFINE D == DOMAIN owed
           key == [id \in D |-> id[1]]
           K == Owed!Lenders
           g == [l \in K |-> Owed!TotalOutstanding({l})]
           Table(h) == h = [s \in SUBSET K |->
             IF s = {} THEN 0 ELSE Owed!TotalOutstanding({FirstOf(s)}) + h[s \ {FirstOf(s)}]]
           Known(h) == h = [s \in SUBSET K |->
             IF s = {} THEN 0 ELSE g[FirstOf(s)] + h[s \ {FirstOf(s)}]]
           total == Owed!MapThenSumSet(LAMBDA l : Owed!TotalOutstanding({l}), K)
<1>1. total = SumFunctionOnSet(g, K)
  <2>1. ASSUME NEW h PROVE Table(h) <=> Known(h)
    BY FirstOfIn
  <2>2. total = (CHOOSE h : Table(h))[K]
    BY DEF Owed!MapThenSumSet, Owed!MapThenFoldSet, FirstOf
  <2>3. SumFunctionOnSet(g, K) = (CHOOSE h : Known(h))[K]
    BY DEF SumFunctionOnSet, FoldFunctionOnSet, MapThenFoldSet, FirstOf
  <2> HIDE DEF Table, Known, total, K, g
  <2>4. (CHOOSE h : Table(h)) = (CHOOSE h : Known(h))
    BY <2>1
  <2>5. QED
    BY <2>2, <2>3, <2>4
<1>2. IsFiniteSet(K) /\ \A id \in D : key[id] \in K
  <2>1. {key[id] : id \in D} = K
    BY DEF Owed!Lenders
  <2>2. IsFiniteSet(D) /\ DOMAIN key = D
    BY DEF DebtsCounted
  <2>3. \A id \in D : key[id] \in K
    BY <2>1
  <2> HIDE DEF key, K, D
  <2>4. IsFiniteSet({key[id] : id \in D})
    BY <2>2, FiniteKeys
  <2>5. QED
    BY <2>1, <2>3, <2>4
<1>3. ASSUME NEW l \in K
      PROVE  g[l] = SumFunctionOnSet(Debts, Under(D, key, l))
  <2>1. Lent({l}) = Under(D, key, l)
    BY DEF Lent, Under
  <2>2. g[l] = SumFunctionOnSet(Debts, Lent({l}))
    BY TotalIsSumOfDebts
  <2>3. QED
    BY <2>1, <2>2, Zenon
<1>4. IsFiniteSet(D) /\ \A id \in D : Debts[id] \in Int
  BY DebtsInt DEF DebtsCounted
<1> HIDE DEF key, K, g, D
<1>5. SumFunctionOnSet(g, K) = SumFunctionOnSet(Debts, D)
  BY <1>2, <1>3, <1>4, SumByKey
<1> HIDE DEF total
<1>6. total = SumFunctionOnSet(Debts, D)
  BY <1>1, <1>5
<1>7. QED
  BY <1>6 DEF total, K, D

\* Third figure: net worth takes off what the borrowings owe.
LEMMA NetWorthTakesDebts ==
  ASSUME DebtsWhole, DebtsCounted
  PROVE  Owed!NetWorthAgrees
<1>1. Lent(Owed!Lenders) = DOMAIN owed
  BY DEF Lent, Owed!Lenders
<1>2. Owed!TotalOutstanding(Owed!Lenders) = SumFunctionOnSet(Debts, Lent(Owed!Lenders))
  BY TotalIsSumOfDebts
<1>3. Owed!TotalOutstanding(Owed!Lenders) = SumFunctionOnSet(Debts, DOMAIN owed)
  BY <1>1, <1>2, Zenon
<1>4. QED
  BY <1>3, LiabilityIsSumOfDebts, LendersAddUp DEF Owed!NetWorthAgrees
---------------------------------------------------------------------------
OnBorrowings == side = "borrowings"
\* On another side the borrowings stand still.
LEMMA BorrowingsSide ==
  /\ RegistersInit => Owed!Init
  /\ OnBorrowings /\ [RegistersNext]_registervars => OnBorrowings' /\ [Owed!Next]_(Owed!vars)
  /\ ~OnBorrowings /\ [RegistersNext]_registervars => (~OnBorrowings)' /\ UNCHANGED owedvars
<1>1. RegistersInit => Owed!Init
  BY DEF RegistersInit
<1>2. OnBorrowings /\ [RegistersNext]_registervars => OnBorrowings' /\ [Owed!Next]_(Owed!vars)
  BY DEF RegistersNext, registervars, Owed!vars, vars, owedvars, OnBorrowings
<1>3. ~OnBorrowings /\ [RegistersNext]_registervars => (~OnBorrowings)' /\ UNCHANGED owedvars
  BY DEF RegistersNext, registervars, OnBorrowings
<1>4. QED
  BY <1>1, <1>2, <1>3

(* Every rupee paid went to interest or to the debt, no payment leaves     *)
(* more owed than there would be without it, and net worth and the         *)
(* register agree under every filter on lenders, for any loans and         *)
(* payments in any order of entry.                                         *)
THEOREM DebtsAlwaysAddUp == DebtsWhole /\ RegistersSpec => []DebtsAddUp
<1> DEFINE inv == OnBorrowings => DebtsCounted
<1>1. RegistersInit => inv
  <2>1. Owed!Init => DebtsCounted
    BY FS_EmptySet DEF Owed!Init, DebtsCounted, BorrowingsTyped
  <2>2. QED
    BY <2>1, BorrowingsSide
<1>2. ASSUME DebtsWhole
      PROVE  inv /\ [RegistersNext]_registervars => inv'
  BY <1>2, BorrowingsSide, DebtsCountedInductive
<1>3. ASSUME DebtsWhole
      PROVE  inv => DebtsAddUp
  BY <1>3, MoneyIsPlaced, PaymentsLower, NetWorthTakesDebts DEF DebtsAddUp, Owed!DebtsAddUp, OnBorrowings
<1> HIDE DEF inv
<1>4. ASSUME DebtsWhole
      PROVE  RegistersSpec => []DebtsAddUp
  BY <1>1, <1>2, <1>3, <1>4, PTL DEF RegistersSpec
<1>5. QED
  BY <1>4
---------------------------------------------------------------------------
\* The table of a power.
Powers(f, b, n) == f = [m \in 0..n |-> IF m = 0 THEN 1 ELSE f[m - 1] * b]
\* A power is the last entry of its table.
LEMMA PowersTable ==
  ASSUME NEW b \in Nat, NEW n \in Nat
  PROVE  \E f : Powers(f, b, n) /\ Deposits!Power(b, n) = f[n]
<1> DEFINE step == [i \in 1..n |-> [x \in Nat |-> x * b]]
<1>1. step \in [1..n -> [Nat -> Nat]]
  <2>1. \A x \in Nat : x * b \in Nat
    OBVIOUS
  <2>2. QED
    BY <2>1
<1>2. \E f : Powers(f, b, n)
  <2>1. PICK g \in [0..n -> Nat] : Walks(g, 1, n, step)
    <3> HIDE DEF step
    <3>1. QED
      BY <1>1, WalkExists
  <2>2. ASSUME NEW m \in 0..n
        PROVE  g[m] = IF m = 0 THEN 1 ELSE g[m - 1] * b
    <3>1. CASE m = 0
      BY <2>1, <3>1 DEF Walks
    <3>2. CASE m # 0
      <4>1. m \in 1..n /\ m - 1 \in 0..n
        BY <3>2
      <4>2. g[m] = step[m][g[m - 1]] /\ g[m - 1] \in Nat
        BY <2>1, <4>1 DEF Walks
      <4>3. QED
        BY <3>2, <4>1, <4>2
    <3>3. QED
      BY <3>1, <3>2
  <2>3. g = [m \in 0..n |-> IF m = 0 THEN 1 ELSE g[m - 1] * b]
    BY <2>1, <2>2
  <2>4. Powers(g, b, n)
    BY <2>3 DEF Powers
  <2>5. QED
    BY <2>4
<1>3. Deposits!Power(b, n) = (CHOOSE f : Powers(f, b, n))[n]
  BY DEF Deposits!Power, Powers
<1>4. Powers(CHOOSE f : Powers(f, b, n), b, n)
  BY <1>2
<1>5. QED
  BY <1>3, <1>4

\* Each entry of it is the one before times the base.
LEMMA PowersGrow ==
  ASSUME NEW b \in Nat, NEW n \in Nat, NEW f, Powers(f, b, n)
  PROVE  /\ f[0] = 1
         /\ \A i \in 1..n : f[i] = f[i - 1] * b
         /\ \A i \in 0..n : f[i] \in Nat
<1>1. f = [m \in 0..n |-> IF m = 0 THEN 1 ELSE f[m - 1] * b]
  BY DEF Powers
<1>2. \A m \in 0..n : f[m] = IF m = 0 THEN 1 ELSE f[m - 1] * b
  BY <1>1
<1>3. f[0] = 1
  BY <1>2
<1>4. \A i \in 1..n : f[i] = f[i - 1] * b
  BY <1>2
<1>5. Stays(f, Nat, n)
  <2>1. \A i \in 1..n : f[i - 1] \in Nat => f[i] \in Nat
    BY <1>4
  <2>2. QED
    BY <1>3, <2>1 DEF Stays
<1>7. \A i \in 0..n : f[i] \in Nat
  BY <1>5, StaysIn
<1>8. QED
  BY <1>3, <1>4, <1>7

\* So a power is raised by one more factor.
LEMMA PowerRaised ==
  ASSUME NEW b \in Nat, NEW n \in Nat
  PROVE  /\ Deposits!Power(b, 0) = 1
         /\ Deposits!Power(b, n) \in Nat
         /\ Deposits!Power(b, n + 1) = Deposits!Power(b, n) * b
<1>1. Deposits!Power(b, 0) = 1
  BY PowersTable, PowersGrow
<1>2. PICK f : Powers(f, b, n) /\ Deposits!Power(b, n) = f[n]
  BY PowersTable
<1>3. n + 1 \in Nat
  OBVIOUS
<1>4. PICK g : Powers(g, b, n + 1) /\ Deposits!Power(b, n + 1) = g[n + 1]
  BY <1>3, PowersTable
<1>5. /\ f[0] = 1 /\ \A i \in 1..n : f[i] = f[i - 1] * b
      /\ f[n] \in Nat
  BY <1>2, PowersGrow
<1>6. g[0] = 1 /\ \A i \in 1..(n + 1) : g[i] = g[i - 1] * b
  BY <1>3, <1>4, PowersGrow
<1>7. \A i \in 1..n : g[i] = g[i - 1] * b
  BY <1>6
<1>8. \A i \in 0..n : f[i] = g[i]
  <2>1. \A i \in 1..n : f[i - 1] = g[i - 1] => f[i] = g[i]
    BY <1>5, <1>7
  <2>2. QED
    BY <1>5, <1>6, <2>1, StepsAgree
<1>9. g[n + 1] = g[n] * b
  BY <1>6
<1>10. f[n] = g[n]
  BY <1>8
<1>11. QED
  BY <1>1, <1>2, <1>4, <1>5, <1>9, <1>10
---------------------------------------------------------------------------
\* The table of a provident fund.
Balance(f, a, n) == f = [m \in 0..n |-> IF m = 0 THEN a.opening ELSE (f[m - 1] + a.monthly) * (1 + a.rate)]
Funded(a) == a.opening \in Nat /\ a.monthly \in Nat /\ a.rate \in Nat
\* The balance of a fund is the last entry of its table.
LEMMA BalanceTable ==
  ASSUME NEW a, Funded(a), NEW n \in Nat
  PROVE  \E f : Balance(f, a, n) /\ Deposits!Projected(a, n) = f[n]
<1> DEFINE step == [i \in 1..n |-> [x \in Nat |-> (x + a.monthly) * (1 + a.rate)]]
<1>1. step \in [1..n -> [Nat -> Nat]]
  <2>1. \A x \in Nat : x + a.monthly \in Nat /\ 1 + a.rate \in Nat
    BY DEF Funded
  <2>2. \A x, y \in Nat : x * y \in Nat
    OBVIOUS
  <2>3. \A x \in Nat : (x + a.monthly) * (1 + a.rate) \in Nat
    BY <2>1, <2>2
  <2>4. QED
    BY <2>3
<1>2. \E f : Balance(f, a, n)
  <2>1. PICK g \in [0..n -> Nat] : Walks(g, a.opening, n, step)
    <3>1. a.opening \in Nat
      BY DEF Funded
    <3> HIDE DEF step
    <3>2. QED
      BY <1>1, <3>1, WalkExists
  <2>2. ASSUME NEW m \in 0..n
        PROVE  g[m] = IF m = 0 THEN a.opening ELSE (g[m - 1] + a.monthly) * (1 + a.rate)
    <3>1. CASE m = 0
      BY <2>1, <3>1 DEF Walks
    <3>2. CASE m # 0
      <4>1. m \in 1..n /\ m - 1 \in 0..n
        BY <3>2
      <4>2. g[m] = step[m][g[m - 1]] /\ g[m - 1] \in Nat
        BY <2>1, <4>1 DEF Walks
      <4>3. QED
        BY <3>2, <4>1, <4>2
    <3>3. QED
      BY <3>1, <3>2
  <2>3. g = [m \in 0..n |-> IF m = 0 THEN a.opening ELSE (g[m - 1] + a.monthly) * (1 + a.rate)]
    BY <2>1, <2>2
  <2>4. Balance(g, a, n)
    BY <2>3 DEF Balance
  <2>5. QED
    BY <2>4
<1>3. Deposits!Projected(a, n) = (CHOOSE f : Balance(f, a, n))[n]
  BY DEF Deposits!Projected, Balance
<1>4. Balance(CHOOSE f : Balance(f, a, n), a, n)
  BY <1>2
<1>5. QED
  BY <1>3, <1>4

\* A month's contribution and interest.
Credit(a, x) == (x + a.monthly) * (1 + a.rate)
\* They leave a whole balance.
LEMMA CreditWhole ==
  ASSUME NEW a, Funded(a), NEW x \in Nat
  PROVE  Credit(a, x) \in Nat
<1>1. x + a.monthly \in Nat /\ 1 + a.rate \in Nat
  BY DEF Funded
<1>2. QED
  BY <1>1 DEF Credit

\* Each entry of the table is the one before with its month credited.
LEMMA BalanceGrows ==
  ASSUME NEW a, Funded(a), NEW n \in Nat, NEW f, Balance(f, a, n)
  PROVE  /\ f[0] = a.opening
         /\ \A i \in 1..n : f[i] = Credit(a, f[i - 1])
         /\ \A i \in 0..n : f[i] \in Nat
<1>1. f = [m \in 0..n |-> IF m = 0 THEN a.opening ELSE Credit(a, f[m - 1])]
  BY DEF Balance, Credit
<1>2. \A m \in 0..n : f[m] = IF m = 0 THEN a.opening ELSE Credit(a, f[m - 1])
  BY <1>1
<1>3. f[0] = a.opening /\ a.opening \in Nat
  BY <1>2 DEF Funded
<1>4. \A i \in 1..n : f[i] = Credit(a, f[i - 1])
  BY <1>2
<1>5. Stays(f, Nat, n)
  <2>1. \A i \in 1..n : f[i - 1] \in Nat => f[i] \in Nat
    BY <1>4, CreditWhole
  <2>2. QED
    BY <1>3, <2>1 DEF Stays
<1>7. \A i \in 0..n : f[i] \in Nat
  BY <1>5, StaysIn
<1>8. QED
  BY <1>3, <1>4, <1>7

\* So the balance a month later is the balance with the month credited.
LEMMA ProjectedGrows ==
  ASSUME NEW a, Funded(a), NEW n \in Nat
  PROVE  /\ Deposits!Projected(a, 0) = a.opening
         /\ Deposits!Projected(a, n) \in Nat
         /\ Deposits!Projected(a, n + 1) = Credit(a, Deposits!Projected(a, n))
<1>1. Deposits!Projected(a, 0) = a.opening
  BY BalanceTable, BalanceGrows
<1>2. PICK f : Balance(f, a, n) /\ Deposits!Projected(a, n) = f[n]
  BY BalanceTable
<1>3. n + 1 \in Nat
  OBVIOUS
<1>4. PICK g : Balance(g, a, n + 1) /\ Deposits!Projected(a, n + 1) = g[n + 1]
  BY <1>3, BalanceTable
<1>5. /\ f[0] = a.opening /\ \A i \in 1..n : f[i] = Credit(a, f[i - 1])
      /\ f[n] \in Nat
  BY <1>2, BalanceGrows
<1>6. g[0] = a.opening /\ \A i \in 1..(n + 1) : g[i] = Credit(a, g[i - 1])
  BY <1>3, <1>4, BalanceGrows
<1>7. \A i \in 1..n : g[i] = Credit(a, g[i - 1])
  BY <1>6
<1>8. \A i \in 0..n : f[i] = g[i]
  <2>1. \A i \in 1..n : f[i - 1] = g[i - 1] => f[i] = g[i]
    BY <1>5, <1>7
  <2>2. QED
    BY <1>5, <1>6, <2>1, StepsAgree
<1>9. g[n + 1] = Credit(a, g[(n + 1) - 1]) /\ (n + 1) - 1 = n
  BY <1>6
<1>10. f[n] = g[n]
  BY <1>8
<1>11. QED
  BY <1>1, <1>2, <1>4, <1>5, <1>9, <1>10

AccountFields ==
  {"label", "kind", "opening", "opened", "rate", "monthly", "maturity", "certificate", "closed"}
AccountKinds ==
  {"TERM_DEPOSIT", "RECURRING_DEPOSIT", "PROVIDENT_FUND", "GRATUITY", "STATED_BALANCE"}
\* An account counted in whole units and whole months.
AccountWhole(a) ==
  /\ DOMAIN a = AccountFields /\ a.kind \in AccountKinds
  /\ a.opening \in Nat /\ a.opened \in Nat /\ a.monthly \in Nat
  /\ a.rate \in Nat \cup {None} /\ a.maturity \in Nat \cup {None}
  /\ a.certificate \in Nat \cup {None} /\ a.closed \in Nat \cup {None}
\* What an amount comes to, compounded from one month to another.
Lump(p, rate, from, to) == Deposits!Compounded(p, rate, from, to)

\* It starts as the amount, is whole, and a month later has grown by the rate.
LEMMA LumpGrows ==
  ASSUME NEW p \in Nat, NEW rate \in Nat, NEW from \in Nat, NEW to \in Nat
  PROVE  /\ Lump(p, rate, from, to) \in Nat
         /\ to <= from => Lump(p, rate, from, to) = p
         /\ to >= from => Lump(p, rate, from, to + 1) = Lump(p, rate, from, to) * (1 + rate)
<1> DEFINE n == Deposits!MonthsBetween(from, to)
           P == Deposits!Power(1 + rate, n)
<1>1. n \in Nat /\ 1 + rate \in Nat
  BY DEF Deposits!MonthsBetween
<1>2. P \in Nat /\ Lump(p, rate, from, to) = p * P
  BY <1>1, PowerRaised DEF Lump, Deposits!Compounded
<1>3. Lump(p, rate, from, to) \in Nat
  <2> HIDE DEF P
  <2>1. p * P \in Nat
    BY <1>2
  <2>2. QED
    BY <1>2, <2>1
<1>4. ASSUME to <= from
      PROVE  Lump(p, rate, from, to) = p
  <2>1. n = 0
    BY <1>4 DEF Deposits!MonthsBetween
  <2>2. P = 1
    <3>1. Deposits!Power(1 + rate, 0) = 1
      BY <1>1, PowerRaised
    <3> HIDE DEF n
    <3>2. QED
      BY <2>1, <3>1
  <2>3. QED
    BY <1>2, <2>2
<1>5. ASSUME to >= from
      PROVE  Lump(p, rate, from, to + 1) = Lump(p, rate, from, to) * (1 + rate)
  <2>1. Deposits!MonthsBetween(from, to + 1) = n + 1
    BY <1>5 DEF Deposits!MonthsBetween
  <2>2. Lump(p, rate, from, to + 1) = p * Deposits!Power(1 + rate, n + 1)
    BY <2>1, Zenon DEF Lump, Deposits!Compounded
  <2>3. Deposits!Power(1 + rate, n + 1) = P * (1 + rate)
    <3> HIDE DEF n
    <3>1. QED
      BY <1>1, PowerRaised
  <2> HIDE DEF P
  <2>4. p * (P * (1 + rate)) = (p * P) * (1 + rate)
    BY <1>1, <1>2
  <2>5. QED
    BY <1>2, <2>2, <2>3, <2>4
<1>6. QED
  BY <1>3, <1>4, <1>5
\* The three facts, one by one.
Raised(p, rate, from, to) == Lump(p, rate, from, to + 1) = Lump(p, rate, from, to) * (1 + rate)
LEMMA LumpWhole ==
  ASSUME NEW p \in Nat, NEW rate \in Nat, NEW from \in Nat, NEW to \in Nat
  PROVE  Lump(p, rate, from, to) \in Nat
BY LumpGrows
LEMMA LumpFirst ==
  ASSUME NEW p \in Nat, NEW rate \in Nat, NEW from \in Nat, NEW to \in Nat, to <= from
  PROVE  Lump(p, rate, from, to) = p
BY LumpGrows
LEMMA LumpNext ==
  ASSUME NEW p \in Nat, NEW rate \in Nat, NEW from \in Nat, NEW to \in Nat, to >= from
  PROVE  Raised(p, rate, from, to)
BY LumpGrows DEF Raised
---------------------------------------------------------------------------
\* What the instalments up to month e come to, each from its own month.
Count(a, e) == IF e < a.opened THEN 0 ELSE e - a.opened + 1
Each(a, e) == [i \in 0..(Count(a, e) - 1) |-> Lump(a.monthly, a.rate, a.opened + i, e)]
Saved(a, e) == SumFunctionOnSet(Each(a, e), 0..(Count(a, e) - 1))

\* At the month it is opened an account has its first instalment, a month later one more.
LEMMA SavedUp ==
  ASSUME NEW a, NEW until
  PROVE  Deposits!Grown(a, until) = Saved(a, Deposits!AccrualEnd(a, until))
<1> DEFINE e == Deposits!AccrualEnd(a, until)
           D == 0..(Count(a, e) - 1)
           f == Each(a, e)
           Table(h) == h = [s \in SUBSET D |->
             IF s = {} THEN 0
             ELSE Deposits!Compounded(a.monthly, a.rate, a.opened + FirstOf(s), e) + h[s \ {FirstOf(s)}]]
           Known(h) == h = [s \in SUBSET D |->
             IF s = {} THEN 0 ELSE f[FirstOf(s)] + h[s \ {FirstOf(s)}]]
<1>0. Deposits!Instalments(a, until) = Count(a, e)
  BY DEF Deposits!Instalments, Count
<1>1. ASSUME NEW h PROVE Table(h) <=> Known(h)
  <2>1. \A i \in D : f[i] = Deposits!Compounded(a.monthly, a.rate, a.opened + i, e)
    BY DEF Each, Lump
  <2> HIDE DEF D, f, e
  <2>2. \A s \in SUBSET D : s # {} =>
          f[FirstOf(s)] = Deposits!Compounded(a.monthly, a.rate, a.opened + FirstOf(s), e)
    BY <2>1, FirstOfIn
  <2>3. QED
    BY <2>2
<1>2. Deposits!Grown(a, until) = (CHOOSE h : Table(h))[D]
  BY <1>0, Zenon DEF Deposits!Grown, Deposits!MapThenSumSet, Deposits!MapThenFoldSet, FirstOf
<1>3. SumFunctionOnSet(f, D) = (CHOOSE h : Known(h))[D]
  BY DEF SumFunctionOnSet, FoldFunctionOnSet, MapThenFoldSet, FirstOf
<1> HIDE DEF Table, Known
<1>4. (CHOOSE h : Table(h)) = (CHOOSE h : Known(h))
  BY <1>1
<1>5. Saved(a, e) = SumFunctionOnSet(f, D)
  BY DEF Saved
<1>6. QED
  BY <1>2, <1>3, <1>4, <1>5

\* Instalments come to whole amounts, and so does their sum.
LEMMA EachWhole ==
  ASSUME NEW a, Funded(a), a.opened \in Nat, NEW e \in Nat
  PROVE  /\ Count(a, e) \in Nat /\ IsFiniteSet(0..(Count(a, e) - 1))
         /\ \A i \in 0..(Count(a, e) - 1) : Each(a, e)[i] \in Nat
         /\ Saved(a, e) \in Nat
<1>1. Count(a, e) \in Nat
  BY DEF Count
<1>2. IsFiniteSet(0..(Count(a, e) - 1))
  BY <1>1, FS_Interval
<1>3. \A i \in 0..(Count(a, e) - 1) : Each(a, e)[i] \in Nat
  <2>1. ASSUME NEW i \in 0..(Count(a, e) - 1)
        PROVE  Each(a, e)[i] \in Nat
    <3>1. i \in Nat /\ a.opened + i \in Nat
      BY <1>1
    <3>2. Each(a, e)[i] = Lump(a.monthly, a.rate, a.opened + i, e)
      BY DEF Each
    <3>3. a.monthly \in Nat /\ a.rate \in Nat
      BY DEF Funded
    <3>4. Lump(a.monthly, a.rate, a.opened + i, e) \in Nat
      BY <3>1, <3>3, LumpWhole
    <3>5. QED
      BY <3>2, <3>4
  <2>2. QED
    BY <2>1
<1> DEFINE D == 0..(Count(a, e) - 1)
           f == Each(a, e)
<1> HIDE DEF D, f
<1>4. SumFunctionOnSet(f, D) \in Nat
  BY <1>2, <1>3, SumNat DEF f, D
<1>5. QED
  BY <1>1, <1>2, <1>3, <1>4 DEF f, D, Saved

\* A month later they have all grown by the rate, and the month's own is new.
LEMMA SavedGrows ==
  ASSUME NEW a, Funded(a), a.opened \in Nat, NEW e \in Nat
  PROVE  /\ e < a.opened => Saved(a, e) = 0
         /\ e = a.opened => Saved(a, e) = a.monthly
         /\ e >= a.opened => Saved(a, e + 1) = Saved(a, e) * (1 + a.rate) + a.monthly
<1>1. ASSUME e < a.opened
      PROVE  Saved(a, e) = 0
  <2>1. 0..(Count(a, e) - 1) = {}
    BY <1>1 DEF Count
  <2>2. SumFunctionOnSet(Each(a, e), 0..(Count(a, e) - 1)) = SumFunctionOnSet(Each(a, e), {})
    BY <2>1, Zenon
  <2>3. QED
    BY <2>2, SumEmpty DEF Saved
<1>2. ASSUME NEW x \in Nat, x >= a.opened
      PROVE  Saved(a, x) = a.monthly + SumFunctionOnSet(Each(a, x), 0..(x - a.opened - 1))
  <2> DEFINE n == x - a.opened
             D == 0..(Count(a, x) - 1)
             f == Each(a, x)
  <2>1. n \in Nat /\ Count(a, x) - 1 = n /\ D = 0..n
    BY <1>2 DEF Count
  <2>2. IsFiniteSet(D) /\ (\A i \in D : f[i] \in Nat)
    BY EachWhole
  <2>3. f[n] = a.monthly
    <3>1. n \in D /\ a.opened + n = x
      BY <1>2, <2>1
    <3>2. f[n] = Lump(a.monthly, a.rate, a.opened + n, x)
      BY <3>1 DEF Each
    <3>3. Lump(a.monthly, a.rate, x, x) = a.monthly
      <4>1. a.monthly \in Nat /\ a.rate \in Nat /\ x <= x
        BY DEF Funded
      <4>2. QED
        BY <4>1, LumpFirst
    <3> HIDE DEF n
    <3>4. QED
      BY <3>1, <3>2, <3>3
  <2>4. n \in D /\ D \ {n} = 0..(n - 1)
    BY <2>1
  <2> HIDE DEF D, f, n
  <2>5. \A i \in D : f[i] \in Int
    BY <2>2
  <2>6. SumFunctionOnSet(f, D) = f[n] + SumFunctionOnSet(f, D \ {n})
    BY <2>2, <2>4, <2>5, SumRemove
  <2>7. SumFunctionOnSet(f, D \ {n}) = SumFunctionOnSet(f, 0..(n - 1))
    BY <2>4, Zenon
  <2>8. Saved(a, x) = a.monthly + SumFunctionOnSet(f, 0..(n - 1))
    BY <2>3, <2>6, <2>7 DEF Saved, f, D
  <2>9. QED
    BY <2>8 DEF f, n
<1>3. ASSUME e = a.opened
      PROVE  Saved(a, e) = a.monthly
  <2>1. 0..(e - a.opened - 1) = {} /\ e >= a.opened
    BY <1>3
  <2>2. SumFunctionOnSet(Each(a, e), 0..(e - a.opened - 1)) = SumFunctionOnSet(Each(a, e), {})
    BY <2>1, Zenon
  <2>3. Saved(a, e) = a.monthly + 0
    BY <1>2, <2>1, <2>2, SumEmpty
  <2>4. a.monthly \in Nat
    BY DEF Funded
  <2>5. QED
    BY <2>3, <2>4
<1>4. ASSUME e >= a.opened
      PROVE  Saved(a, e + 1) = Saved(a, e) * (1 + a.rate) + a.monthly
  <2> DEFINE D == 0..(e - a.opened)
             f == Each(a, e)
             g == Each(a, e + 1)
             c == 1 + a.rate
  <2>1. /\ Count(a, e) - 1 = e - a.opened /\ 0..(Count(a, e) - 1) = D
        /\ (e + 1) - a.opened - 1 = e - a.opened /\ e + 1 \in Nat /\ e + 1 >= a.opened
        /\ Count(a, e + 1) - 1 = (e - a.opened) + 1
        /\ c \in Int
    BY <1>4 DEF Count, Funded
  <2>2. IsFiniteSet(D) /\ \A i \in D : f[i] \in Nat
    BY <2>1, EachWhole
  <2>3. ASSUME NEW i \in D
        PROVE  g[i] = f[i] * c
    <3>1. i \in Nat /\ a.opened + i \in Nat /\ e >= a.opened + i /\ i \in 0..(Count(a, e + 1) - 1)
          /\ i \in 0..(Count(a, e) - 1)
      BY <1>4, <2>1
    <3>2. f[i] = Lump(a.monthly, a.rate, a.opened + i, e)
          /\ g[i] = Lump(a.monthly, a.rate, a.opened + i, e + 1)
      BY <3>1 DEF Each
    <3>3. a.monthly \in Nat /\ a.rate \in Nat
      BY DEF Funded
    <3> HIDE DEF D, f, g, c
    <3>4. Raised(a.monthly, a.rate, a.opened + i, e)
      BY <3>1, <3>3, LumpNext
    <3>5. QED
      BY <3>2, <3>4 DEF Raised, c
  <2>4. SumFunctionOnSet(f, 0..(Count(a, e) - 1)) = SumFunctionOnSet(f, D)
    BY <2>1, Zenon
  <2>5. Saved(a, e) = SumFunctionOnSet(f, D)
    BY <2>4 DEF Saved
  <2>6. Saved(a, e + 1) = a.monthly + SumFunctionOnSet(g, 0..((e + 1) - a.opened - 1))
    BY <1>2, <2>1
  <2>7. SumFunctionOnSet(g, 0..((e + 1) - a.opened - 1)) = SumFunctionOnSet(g, D)
    BY <2>1, Zenon
  <2> HIDE DEF D, f, g, c
  <2>8. \A i \in D : f[i] \in Int
    BY <2>2
  <2>9. SumFunctionOnSet(g, D) = SumFunctionOnSet(f, D) * c
    BY <2>1, <2>2, <2>3, <2>8, SumScaled
  <2>10. Saved(a, e) \in Nat /\ a.monthly \in Nat
    BY EachWhole DEF Funded
  <2>11. Saved(a, e) * c \in Int
    BY <2>1, <2>10
  <2>12. Saved(a, e + 1) = Saved(a, e) * c + a.monthly
    BY <2>5, <2>6, <2>7, <2>9, <2>10, <2>11
  <2>13. QED
    BY <2>12 DEF c
<1>5. QED
  BY <1>1, <1>3, <1>4

\* What an account has come to, and what was put into it, by month e.
Elapsed(a, e) == Deposits!MonthsBetween(a.opened, e)
Entitled(a, e) ==
  LET years == Elapsed(a, e) \div ServiceYear
  IN  IF years < Vesting THEN 0 ELSE a.monthly * years
PaidTo(a, e) ==
  CASE a.kind = "TERM_DEPOSIT" -> a.opening
    [] a.kind = "RECURRING_DEPOSIT" -> a.opening + Count(a, e) * a.monthly
    [] a.kind = "PROVIDENT_FUND" -> a.opening + Elapsed(a, e) * a.monthly
    [] a.kind = "GRATUITY" -> Entitled(a, e)
    [] a.kind = "STATED_BALANCE" -> a.opening
ComesTo(a, e) ==
  CASE a.kind = "TERM_DEPOSIT" ->
         IF a.rate = None THEN a.opening ELSE Lump(a.opening, a.rate, a.opened, e)
    [] a.kind = "RECURRING_DEPOSIT" ->
         IF a.rate = None THEN PaidTo(a, e) ELSE Saved(a, e) + Lump(a.opening, a.rate, a.opened, e)
    [] a.kind = "PROVIDENT_FUND" ->
         IF a.rate = None THEN PaidTo(a, e) ELSE Deposits!Projected(a, Elapsed(a, e))
    [] a.kind = "GRATUITY" -> Entitled(a, e)
    [] a.kind = "STATED_BALANCE" -> a.opening
NextComesTo(a, e) == Deposits!NextWorth(a, ComesTo(a, e))
Earns(a, e) == ComesTo(a, e) - PaidTo(a, e)

(* Month by month: what the account comes to at first, before it is opened *)
(* and a month later.                                                      *)
Compounds(a, e) ==
  /\ ComesTo(a, e) \in Nat /\ PaidTo(a, e) \in Nat
  /\ e <= a.opened => ComesTo(a, e) = PaidTo(a, e)
  /\ a.kind # "GRATUITY" =>
       /\ e = a.opened => ComesTo(a, e) = Deposits!FirstWorth(a)
       /\ e >= a.opened => ComesTo(a, e + 1) = NextComesTo(a, e)
  /\ e >= a.opened => Earns(a, e) <= Earns(a, e + 1)

\* Interest on an amount is not negative.
LEMMA WithInterest ==
  ASSUME NEW x \in Nat, NEW rate \in Nat
  PROVE  x * (1 + rate) \in Nat /\ x <= x * (1 + rate)
<1>1. x * rate \in Nat
  OBVIOUS
<1>2. x * (1 + rate) = x + x * rate
  OBVIOUS
<1>3. QED
  BY <1>1, <1>2

\* A term deposit does.
LEMMA TermCompounds ==
  ASSUME NEW a, AccountWhole(a), NEW e \in Nat, a.kind = "TERM_DEPOSIT"
  PROVE  Compounds(a, e)
<1>0. /\ a.opening \in Nat /\ a.opened \in Nat
      /\ a.rate # None => a.rate \in Nat
      /\ \A x : PaidTo(a, x) = a.opening
  BY DEF AccountWhole, PaidTo
<1>1. CASE a.rate = None
  <2>1. \A x : ComesTo(a, x) = a.opening
    BY <1>1 DEF ComesTo
  <2>2. Deposits!FirstWorth(a) = a.opening
    BY DEF Deposits!FirstWorth
  <2>3. NextComesTo(a, e) = a.opening
    <3>1. NextComesTo(a, e) = a.opening * (1 + 0)
      BY <1>1, <2>1 DEF NextComesTo, Deposits!NextWorth, Deposits!Rate
    <3>2. QED
      BY <1>0, <3>1
  <2>4. Earns(a, e) = 0 /\ Earns(a, e + 1) = 0
    BY <1>0, <2>1 DEF Earns
  <2>5. QED
    BY <1>0, <2>1, <2>2, <2>3, <2>4 DEF Compounds
<1>2. CASE a.rate # None
  <2> DEFINE v == Lump(a.opening, a.rate, a.opened, e)
             w == Lump(a.opening, a.rate, a.opened, e + 1)
  <2>1. ComesTo(a, e) = v /\ ComesTo(a, e + 1) = w
    BY <1>2 DEF ComesTo
  <2>2. v \in Nat
    BY <1>0, <1>2, LumpWhole
  <2>3. e <= a.opened => v = a.opening
    BY <1>0, <1>2, LumpFirst
  <2>4. Deposits!FirstWorth(a) = a.opening
    BY DEF Deposits!FirstWorth
  <2>5. e >= a.opened => w = v * (1 + a.rate)
    BY <1>0, <1>2, LumpNext DEF Raised
  <2> HIDE DEF v, w
  <2>6. NextComesTo(a, e) = v * (1 + a.rate)
    BY <1>2, <2>1 DEF NextComesTo, Deposits!NextWorth, Deposits!Rate
  <2>7. v <= v * (1 + a.rate) /\ v * (1 + a.rate) \in Nat
    BY <1>0, <1>2, <2>2, WithInterest
  <2>8. e >= a.opened => Earns(a, e) <= Earns(a, e + 1)
    BY <1>0, <2>1, <2>2, <2>5, <2>7 DEF Earns
  <2>9. QED
    BY <1>0, <2>1, <2>2, <2>3, <2>4, <2>5, <2>6, <2>8 DEF Compounds
<1>3. QED
  BY <1>1, <1>2

\* So does a balance that is stated, at no rate.
LEMMA StatedCompounds ==
  ASSUME NEW a, AccountWhole(a), NEW e \in Nat, a.kind = "STATED_BALANCE"
  PROVE  Compounds(a, e)
<1>1. a.opening \in Nat /\ \A x : PaidTo(a, x) = a.opening /\ ComesTo(a, x) = a.opening
  BY DEF AccountWhole, PaidTo, ComesTo
<1>2. Deposits!FirstWorth(a) = a.opening /\ NextComesTo(a, e) = a.opening
  BY <1>1 DEF Deposits!FirstWorth, NextComesTo, Deposits!NextWorth
<1>3. QED
  BY <1>1, <1>2 DEF Compounds, Earns

\* One instalment more.
LEMMA OneMore ==
  ASSUME NEW c \in Nat, NEW m \in Nat
  PROVE  c * m \in Nat /\ (c + 1) * m = c * m + m /\ 0 * m = 0 /\ 1 * m = m
<1>1. c * m \in Nat
  OBVIOUS
<1>2. (c + 1) * m = c * m + m
  OBVIOUS
<1>3. QED
  BY <1>1, <1>2

\* One month's interest on two amounts, and the contribution of the month.
LEMMA BothGrow ==
  ASSUME NEW x \in Nat, NEW y \in Nat, NEW rate \in Nat, NEW m \in Nat
  PROVE  (x * (1 + rate) + m) + y * (1 + rate) = (x + y) * (1 + rate) + m
<1>1. (x + y) * (1 + rate) = x * (1 + rate) + y * (1 + rate)
  OBVIOUS
<1>2. x * (1 + rate) \in Nat /\ y * (1 + rate) \in Nat
  BY WithInterest
<1>3. QED
  BY <1>1, <1>2

\* So does a recurring deposit.
LEMMA RecurringCompounds ==
  ASSUME NEW a, AccountWhole(a), NEW e \in Nat, a.kind = "RECURRING_DEPOSIT"
  PROVE  Compounds(a, e)
<1> DEFINE c == Count(a, e)
           P == PaidTo(a, e)
           m == a.monthly
<1>0. /\ a.opening \in Nat /\ a.opened \in Nat /\ a.monthly \in Nat
      /\ a.rate # None => a.rate \in Nat
      /\ \A x : PaidTo(a, x) = a.opening + Count(a, x) * a.monthly
  BY DEF AccountWhole, PaidTo
<1>1. /\ c \in Nat
      /\ e >= a.opened => Count(a, e + 1) = c + 1
      /\ e = a.opened => c = 1
      /\ e < a.opened => c = 0
  BY <1>0 DEF Count
<1>2. /\ c * m \in Nat
      /\ (c + 1) * m = c * m + m
      /\ 0 * m = 0 /\ 1 * m = m
  BY <1>0, <1>1, OneMore
<1>3. P = a.opening + c * m /\ PaidTo(a, e + 1) = a.opening + Count(a, e + 1) * m
  BY <1>0
<1>4. Deposits!FirstWorth(a) = a.opening + m
  BY DEF Deposits!FirstWorth
<1> HIDE DEF c, P, m
<1>5. /\ P \in Nat
      /\ e >= a.opened => PaidTo(a, e + 1) = P + m
      /\ e = a.opened => P = a.opening + m
      /\ e < a.opened => P = a.opening
  <2>1. P \in Nat
    BY <1>0, <1>2, <1>3
  <2>2. ASSUME e >= a.opened PROVE PaidTo(a, e + 1) = P + m
    <3>1. PaidTo(a, e + 1) = a.opening + (c + 1) * m
      BY <1>1, <1>3, <2>2
    <3>2. m \in Nat
      BY <1>0 DEF m
    <3>3. QED
      BY <1>0, <1>2, <1>3, <3>1, <3>2
  <2>3. ASSUME e = a.opened PROVE P = a.opening + m
    BY <1>1, <1>2, <1>3, <2>3
  <2>4. ASSUME e < a.opened PROVE P = a.opening
    BY <1>0, <1>1, <1>2, <1>3, <2>4
  <2>5. QED
    BY <2>1, <2>2, <2>3, <2>4
<1>6. CASE a.rate = None
  <2>1. \A x : ComesTo(a, x) = PaidTo(a, x)
    BY <1>6 DEF ComesTo
  <2>2. NextComesTo(a, e) = P + m
    <3>1. NextComesTo(a, e) = P * (1 + 0) + m
      BY <1>6, <2>1 DEF NextComesTo, Deposits!NextWorth, Deposits!Rate, P, m
    <3>2. QED
      BY <1>5, <3>1
  <2>3. ComesTo(a, e) = P /\ PaidTo(a, e) = P /\ ComesTo(a, e + 1) = PaidTo(a, e + 1)
    BY <2>1 DEF P
  <2>4. e >= a.opened => Earns(a, e) <= Earns(a, e + 1)
    <3>1. m \in Nat
      BY <1>0 DEF m
    <3>2. QED
      BY <1>5, <2>3, <3>1 DEF Earns
  <2>5. QED
    BY <1>4, <1>5, <2>2, <2>3, <2>4 DEF Compounds
<1>7. CASE a.rate # None
  <2> DEFINE s == Saved(a, e)
             v == Lump(a.opening, a.rate, a.opened, e)
             w == Lump(a.opening, a.rate, a.opened, e + 1)
             t == Saved(a, e + 1)
             b == a.rate
  <2>1. ComesTo(a, e) = s + v /\ ComesTo(a, e + 1) = t + w
    BY <1>7 DEF ComesTo
  <2>2. Funded(a) /\ b \in Nat /\ m \in Nat
    BY <1>0, <1>7 DEF Funded, m
  <2>3. s \in Nat
    BY <1>0, <2>2, EachWhole
  <2>4. v \in Nat
    BY <1>0, <1>7, LumpWhole
  <2>5. e <= a.opened => v = a.opening
    BY <1>0, <1>7, LumpFirst
  <2>6. e >= a.opened => w = v * (1 + b)
    BY <1>0, <1>7, LumpNext DEF Raised
  <2>7. e < a.opened => s = 0
    BY <1>0, <2>2, SavedGrows
  <2>8. e = a.opened => s = m
    BY <1>0, <2>2, SavedGrows DEF m
  <2>9. e >= a.opened => t = s * (1 + b) + m
    BY <1>0, <2>2, SavedGrows DEF m
  <2>10. NextComesTo(a, e) = (s + v) * (1 + b) + m
    BY <1>7, <2>1 DEF NextComesTo, Deposits!NextWorth, Deposits!Rate, m
  <2> HIDE DEF s, v, w, t, b
  <2>11. (s * (1 + b) + m) + v * (1 + b) = (s + v) * (1 + b) + m
    BY <2>2, <2>3, <2>4, BothGrow
  <2> DEFINE raised == (s + v) * (1 + b)
  <2>12. s + v <= raised /\ raised \in Nat
    <3>1. s + v \in Nat
      BY <2>3, <2>4
    <3> HIDE DEF raised
    <3>2. QED
      BY <2>2, <3>1, WithInterest DEF raised
  <2>13. e >= a.opened => t + w = raised + m
    BY <2>6, <2>9, <2>11
  <2>14. NextComesTo(a, e) = raised + m
    BY <2>10
  <2> HIDE DEF raised
  <2>15. e >= a.opened => Earns(a, e) <= Earns(a, e + 1)
    <3>1. PaidTo(a, e) = P
      BY DEF P
    <3>2. QED
      BY <1>5, <2>1, <2>2, <2>3, <2>4, <2>12, <2>13, <3>1 DEF Earns
  <2>16. e >= a.opened => ComesTo(a, e + 1) = NextComesTo(a, e)
    BY <2>1, <2>13, <2>14
  <2>17. e <= a.opened => s + v = P
    <3>1. a.opening \in Nat /\ a.opened \in Nat
      BY <1>0
    <3>2. e <= a.opened => e < a.opened \/ e = a.opened
      BY <3>1
    <3>3. QED
      BY <1>5, <2>2, <2>5, <2>7, <2>8, <3>1, <3>2
  <2>18. e = a.opened => s + v = Deposits!FirstWorth(a)
    BY <1>0, <1>4, <1>5, <2>17
  <2>19. PaidTo(a, e) = P /\ s + v \in Nat
    BY <2>3, <2>4 DEF P
  <2>20. QED
    BY <1>5, <2>1, <2>15, <2>16, <2>17, <2>18, <2>19 DEF Compounds
<1>8. QED
  BY <1>6, <1>7

\* A year of service has months.
ServiceWhole == ServiceYear \in Nat \ {0}

\* So does a provident fund.
LEMMA ProvidentCompounds ==
  ASSUME NEW a, AccountWhole(a), NEW e \in Nat, a.kind = "PROVIDENT_FUND"
  PROVE  Compounds(a, e)
<1> DEFINE c == Elapsed(a, e)
           P == PaidTo(a, e)
           m == a.monthly
<1>0. /\ a.opening \in Nat /\ a.opened \in Nat /\ a.monthly \in Nat
      /\ a.rate # None => a.rate \in Nat
      /\ \A x : PaidTo(a, x) = a.opening + Elapsed(a, x) * a.monthly
  BY DEF AccountWhole, PaidTo
<1>1. /\ c \in Nat
      /\ e >= a.opened => Elapsed(a, e + 1) = c + 1
      /\ e <= a.opened => c = 0
  <2>1. \A x : Elapsed(a, x) = IF x > a.opened THEN x - a.opened ELSE 0
    BY DEF Elapsed, Deposits!MonthsBetween
  <2>2. a.opened \in Nat /\ e + 1 \in Nat
    BY <1>0
  <2>3. c \in Nat /\ (e <= a.opened => c = 0)
    BY <2>1, <2>2
  <2>4. e >= a.opened => Elapsed(a, e + 1) = c + 1
    BY <2>1, <2>2
  <2>5. QED
    BY <2>3, <2>4
<1>2. /\ c * m \in Nat
      /\ (c + 1) * m = c * m + m
      /\ 0 * m = 0
  BY <1>0, <1>1, OneMore
<1>3. P = a.opening + c * m /\ PaidTo(a, e + 1) = a.opening + Elapsed(a, e + 1) * m
  BY <1>0
<1>4. Deposits!FirstWorth(a) = a.opening
  BY DEF Deposits!FirstWorth
<1>5. m \in Nat
  BY <1>0
<1> HIDE DEF c, P, m
<1>6. /\ P \in Nat
      /\ e >= a.opened => PaidTo(a, e + 1) = P + m
      /\ e <= a.opened => P = a.opening
  <2>1. P \in Nat
    BY <1>0, <1>2, <1>3
  <2>2. ASSUME e >= a.opened PROVE PaidTo(a, e + 1) = P + m
    <3>1. PaidTo(a, e + 1) = a.opening + (c + 1) * m
      BY <1>1, <1>3, <2>2
    <3>2. QED
      BY <1>0, <1>2, <1>3, <1>5, <3>1
  <2>3. ASSUME e <= a.opened PROVE P = a.opening
    BY <1>0, <1>1, <1>2, <1>3, <2>3
  <2>4. QED
    BY <2>1, <2>2, <2>3
<1>7. CASE a.rate = None
  <2>1. \A x : ComesTo(a, x) = PaidTo(a, x)
    BY <1>7 DEF ComesTo
  <2>2. NextComesTo(a, e) = P + m
    <3>1. NextComesTo(a, e) = (P + m) * (1 + 0)
      BY <1>7, <2>1 DEF NextComesTo, Deposits!NextWorth, Deposits!Rate, P, m
    <3>2. QED
      BY <1>5, <1>6, <3>1
  <2>3. ComesTo(a, e) = P /\ PaidTo(a, e) = P /\ ComesTo(a, e + 1) = PaidTo(a, e + 1)
    BY <2>1 DEF P
  <2>4. e >= a.opened => Earns(a, e) <= Earns(a, e + 1)
    BY <1>5, <1>6, <2>3 DEF Earns
  <2>5. e = a.opened => P = a.opening
    BY <1>0, <1>6
  <2>6. QED
    BY <1>4, <1>6, <2>2, <2>3, <2>4, <2>5 DEF Compounds
<1>8. CASE a.rate # None
  <2> DEFINE s == Deposits!Projected(a, c)
             t == ComesTo(a, e + 1)
  <2>1. ComesTo(a, e) = s /\ t = Deposits!Projected(a, Elapsed(a, e + 1))
    BY <1>8 DEF ComesTo, c
  <2>2. Funded(a) /\ a.rate \in Nat
    BY <1>0, <1>8 DEF Funded
  <2>3. s \in Nat /\ Deposits!Projected(a, 0) = a.opening
    BY <1>1, <2>2, ProjectedGrows
  <2>4. e >= a.opened => t = Credit(a, s)
    BY <1>1, <2>1, <2>2, ProjectedGrows
  <2>5. e <= a.opened => s = a.opening
    <3>1. e <= a.opened => s = Deposits!Projected(a, 0)
      BY <1>1
    <3>2. QED
      BY <2>3, <3>1
  <2> HIDE DEF s, t
  <2>6. NextComesTo(a, e) = Credit(a, s)
    BY <1>8, <2>1 DEF NextComesTo, Deposits!NextWorth, Deposits!Rate, Credit
  <2>7. s + m <= Credit(a, s) /\ Credit(a, s) \in Nat
    <3>1. s + m \in Nat
      BY <1>5, <2>3
    <3>2. (s + m) * (1 + a.rate) \in Nat /\ s + m <= (s + m) * (1 + a.rate)
      BY <2>2, <3>1, WithInterest
    <3>3. QED
      BY <3>2 DEF Credit, m
  <2>8. e >= a.opened => Earns(a, e) <= Earns(a, e + 1)
    <3>1. Earns(a, e) = s - P /\ Earns(a, e + 1) = t - PaidTo(a, e + 1)
      BY <2>1 DEF Earns, P, t
    <3>2. QED
      BY <1>5, <1>6, <2>3, <2>4, <2>7, <3>1
  <2>9. PaidTo(a, e) = P /\ ComesTo(a, e + 1) = t
    BY DEF P, t
  <2>10. e = a.opened => e <= a.opened
    BY <1>0
  <2>11. QED
    BY <1>4, <1>6, <2>1, <2>3, <2>4, <2>5, <2>6, <2>8, <2>9, <2>10 DEF Compounds
<1>9. QED
  BY <1>7, <1>8

\* A gratuity never falls.
LEMMA GratuityCompounds ==
  ASSUME ServiceWhole, NEW a, AccountWhole(a), NEW e \in Nat, a.kind = "GRATUITY"
  PROVE  Compounds(a, e)
<1>1. a.monthly \in Nat /\ a.opened \in Nat
  BY DEF AccountWhole
<1>2. ASSUME NEW x \in Nat
      PROVE  ComesTo(a, x) = Entitled(a, x) /\ PaidTo(a, x) = Entitled(a, x) /\ Entitled(a, x) \in Nat
  <2> DEFINE n == Elapsed(a, x) \div ServiceYear
  <2>1. n \in Nat
    <3>1. Elapsed(a, x) \in Nat
      BY <1>1 DEF Elapsed, Deposits!MonthsBetween
    <3>2. QED
      BY <3>1 DEF ServiceWhole
  <2> HIDE DEF n
  <2>2. a.monthly * n \in Nat
    BY <1>1, <2>1
  <2>3. Entitled(a, x) \in Nat
    BY <2>2 DEF Entitled, n
  <2>4. QED
    BY <2>3 DEF ComesTo, PaidTo
<1>3. e + 1 \in Nat
  OBVIOUS
<1>4. Earns(a, e) = 0 /\ Earns(a, e + 1) = 0
  BY <1>2, <1>3 DEF Earns
<1>5. QED
  BY <1>2, <1>4 DEF Compounds

\* So every account does.
LEMMA AlwaysCompounds ==
  ASSUME ServiceWhole, NEW a, AccountWhole(a), NEW e \in Nat
  PROVE  Compounds(a, e)
<1>1. a.kind \in AccountKinds
  BY DEF AccountWhole
<1>2. QED
  BY <1>1, TermCompounds, RecurringCompounds, ProvidentCompounds, GratuityCompounds,
    StatedCompounds DEF AccountKinds

\* The interest of an account never falls, from any month to any later one.
LEMMA InterestGrows ==
  ASSUME ServiceWhole, NEW a, AccountWhole(a), NEW i \in Nat, NEW j \in Nat, i <= j
  PROVE  Earns(a, i) \in Int /\ Earns(a, j) \in Int /\ Earns(a, i) <= Earns(a, j)
<1> DEFINE f == [e \in Nat |-> Earns(a, e)]
<1>1. ASSUME NEW e \in Nat
      PROVE  f[e] = Earns(a, e) /\ f[e] \in Int
  <2>1. Compounds(a, e)
    BY AlwaysCompounds
  <2>2. QED
    BY <2>1 DEF Compounds, Earns
<1>2. ASSUME NEW e \in Nat
      PROVE  f[e] <= f[e + 1]
  <2>0. e + 1 \in Nat /\ a.opened \in Nat
    BY DEF AccountWhole
  <2>1. Compounds(a, e) /\ Compounds(a, e + 1)
    BY <2>0, AlwaysCompounds
  <2>2. CASE e >= a.opened
    BY <2>0, <2>1, <2>2 DEF Compounds
  <2>3. CASE e < a.opened
    <3>1. e <= a.opened /\ e + 1 <= a.opened
      BY <2>0, <2>3
    <3>2. Earns(a, e) = 0 /\ Earns(a, e + 1) = 0
      BY <2>1, <3>1 DEF Compounds, Earns
    <3>3. QED
      BY <2>0, <3>2
  <2>4. QED
    BY <2>0, <2>2, <2>3
<1> HIDE DEF f
<1>3. f[i] <= f[j]
  <2>1. (\A e \in Nat : f[e] \in Int) /\ (\A e \in Nat : f[e] <= f[e + 1])
    BY <1>1, <1>2
  <2>2. QED
    BY <2>1, NeverFalls
<1>4. QED
  BY <1>1, <1>3

\* A figure of an account that is not closed, and of one that is.
Ends(a, x) == Deposits!AccrualEnd(a, x)
Closed(a, x) == Deposits!Past(a.closed, x)
Matured(a, x) == Deposits!Past(a.maturity, x)
Certified(a, x) == a.kind = "TERM_DEPOSIT" /\ Matured(a, x) /\ a.certificate # None
WorthAt(a, x) == Deposits!View(a, x).value
AccruedAt(a, x) == Deposits!View(a, x).interest

\* A closed account shows its closing figures.
LEMMA ClosedView ==
  ASSUME NEW a, NEW x, Closed(a, x)
  PROVE  WorthAt(a, x) = 0
BY DEF Closed, WorthAt, Deposits!View, Deposits!Figure

\* Any other shows what it has come to where accrual ends.
LEMMA OpenView ==
  ASSUME NEW a, AccountWhole(a), NEW x, ~Closed(a, x)
  PROVE  /\ WorthAt(a, x) = IF Certified(a, x) THEN a.certificate ELSE ComesTo(a, Ends(a, x))
         /\ AccruedAt(a, x) = WorthAt(a, x) - PaidTo(a, Ends(a, x))
<1> DEFINE e == Ends(a, x)
           v == IF Certified(a, x) THEN a.certificate ELSE ComesTo(a, e)
           p == PaidTo(a, e)
<1>1. \A y, z : Deposits!Figure(y, z).value = y /\ Deposits!Figure(y, z).interest = y - z
  BY DEF Deposits!Figure
<1>2. Deposits!View(a, x) = Deposits!Figure(v, p)
  <2>1. CASE a.kind = "TERM_DEPOSIT"
    <3>1. Deposits!View(a, x) = Deposits!TermDeposit(a, x)
      BY <2>1 DEF Deposits!View, Closed
    <3>2. p = a.opening /\ ComesTo(a, e) = IF a.rate = None THEN a.opening ELSE Lump(a.opening, a.rate, a.opened, e)
      BY <2>1 DEF PaidTo, ComesTo
    <3>3. v = IF Matured(a, x) /\ a.certificate # None THEN a.certificate
              ELSE IF a.rate = None THEN a.opening ELSE Lump(a.opening, a.rate, a.opened, e)
      BY <2>1, <3>2 DEF Certified
    <3> HIDE DEF v, p
    <3>4. QED
      BY <3>1, <3>2, <3>3 DEF Deposits!TermDeposit, Matured, Lump, Ends
  <2>2. CASE a.kind = "RECURRING_DEPOSIT"
    <3>1. Deposits!View(a, x) = Deposits!RecurringDeposit(a, x)
      BY <2>2 DEF Deposits!View, Closed
    <3>2. Deposits!Instalments(a, x) = Count(a, e)
      BY DEF Deposits!Instalments, Count, Ends
    <3>3. Deposits!Grown(a, x) = Saved(a, e)
      BY SavedUp DEF Ends
    <3>4. p = a.opening + Count(a, e) * a.monthly
      BY <2>2 DEF PaidTo
    <3>5. v = IF a.rate = None THEN p ELSE Saved(a, e) + Lump(a.opening, a.rate, a.opened, e)
      BY <2>2 DEF ComesTo, Certified
    <3>6. Deposits!RecurringDeposit(a, x) = Deposits!Figure(
            IF a.rate = None THEN a.opening + Count(a, e) * a.monthly
            ELSE Saved(a, e) + Lump(a.opening, a.rate, a.opened, e),
            a.opening + Count(a, e) * a.monthly)
      BY <3>2, <3>3 DEF Deposits!RecurringDeposit, Lump, Ends
    <3> HIDE DEF v, p, e
    <3>7. QED
      BY <3>1, <3>4, <3>5, <3>6
  <2>3. CASE a.kind = "PROVIDENT_FUND"
    <3>1. Deposits!View(a, x) = Deposits!ProvidentFund(a, x)
      BY <2>3 DEF Deposits!View, Closed
    <3>2. p = a.opening + Elapsed(a, e) * a.monthly
      BY <2>3 DEF PaidTo
    <3>3. v = IF a.rate = None THEN p ELSE Deposits!Projected(a, Elapsed(a, e))
      BY <2>3 DEF ComesTo, Certified
    <3>4. Deposits!ProvidentFund(a, x) = Deposits!Figure(
            IF a.rate = None THEN a.opening + Elapsed(a, e) * a.monthly
            ELSE Deposits!Projected(a, Elapsed(a, e)),
            a.opening + Elapsed(a, e) * a.monthly)
      BY DEF Deposits!ProvidentFund, Elapsed, Ends
    <3> HIDE DEF v, p, e
    <3>5. QED
      BY <3>1, <3>2, <3>3, <3>4
  <2>4. CASE a.kind = "GRATUITY"
    <3>1. Deposits!View(a, x) = Deposits!Gratuity(a, x)
      BY <2>4 DEF Deposits!View, Closed
    <3>2. Deposits!Gratuity(a, x) = Deposits!Figure(Entitled(a, e), Entitled(a, e))
      BY DEF Deposits!Gratuity, Entitled, Elapsed, Ends
    <3>3. v = Entitled(a, e) /\ p = Entitled(a, e)
      BY <2>4 DEF ComesTo, PaidTo, Certified
    <3> HIDE DEF v, p, e
    <3>4. QED
      BY <3>1, <3>2, <3>3
  <2>5. CASE a.kind = "STATED_BALANCE"
    <3>1. Deposits!View(a, x) = Deposits!Figure(a.opening, a.opening)
      BY <2>5 DEF Deposits!View, Closed
    <3>2. v = a.opening /\ p = a.opening
      BY <2>5 DEF ComesTo, PaidTo, Certified
    <3> HIDE DEF v, p, e
    <3>3. QED
      BY <3>1, <3>2
  <2>6. a.kind \in AccountKinds
    BY DEF AccountWhole
  <2>7. QED
    BY <2>1, <2>2, <2>3, <2>4, <2>5, <2>6 DEF AccountKinds
<1>3. WorthAt(a, x) = v /\ AccruedAt(a, x) = v - p
  <2> HIDE DEF v, p
  <2>1. QED
    BY <1>1, <1>2 DEF WorthAt, AccruedAt
<1>4. QED
  BY <1>3 DEF v, p, e

\* Where accrual ends: never later for an earlier date, and at the date
\* itself as long as nothing has ended it.
LEMMA AccrualEnds ==
  ASSUME NEW a, AccountWhole(a), NEW x \in Nat
  PROVE  /\ Ends(a, x) \in Nat /\ Ends(a, x) <= x
         /\ \A y \in Nat : x <= y => Ends(a, x) <= Ends(a, y)
         /\ ~Closed(a, x) =>
              Ends(a, x) = IF a.maturity # None /\ a.maturity < x THEN a.maturity ELSE x
  BY DEF AccountWhole, Ends, Closed, Deposits!AccrualEnd, Deposits!Earlier, Deposits!Past

\* What can be entered of balances is counted in whole units and months; a year of
\* service has months.
DepositsWhole ==
  /\ ServiceWhole
  /\ LastDepositMonth \in Nat
  /\ Restatements \subseteq Nat
  /\ ClosingDates \subseteq Nat
  /\ \A e \in OpenedAccounts : AccountWhole(e)

\* What has no past yet is worth what was put into it.
LEMMA FirstMonth ==
  ASSUME ServiceWhole, NEW a, AccountWhole(a), a.kind # "GRATUITY",
         ~Deposits!Settled(a, a.opened)
  PROVE  WorthAt(a, a.opened) = Deposits!FirstWorth(a)
<1> DEFINE x == a.opened
<1>1. x \in Nat /\ ~Closed(a, x) /\ ~Matured(a, x)
  BY DEF Deposits!Settled, Closed, Matured, AccountWhole
<1>2. Ends(a, x) = x
  <2>1. a.maturity # None /\ a.maturity < x => Matured(a, x)
    BY <1>1 DEF Matured, Deposits!Past, AccountWhole
  <2> HIDE DEF x
  <2>2. QED
    BY <1>1, <2>1, AccrualEnds
<1>3. WorthAt(a, x) = ComesTo(a, x)
  BY <1>1, <1>2, OpenView DEF Certified
<1>4. Compounds(a, x)
  BY <1>1, AlwaysCompounds
<1>5. QED
  BY <1>1, <1>3, <1>4 DEF Compounds

\* Before accrual ends, a month adds its interest and its instalment.
LEMMA OneMonth ==
  ASSUME ServiceWhole, NEW a, AccountWhole(a), a.kind # "GRATUITY", NEW m \in Nat, a.opened <= m,
         ~Deposits!Settled(a, m), ~Closed(a, m + 1), Matured(a, m + 1) => a.certificate = None
  PROVE  WorthAt(a, m + 1) = Deposits!NextWorth(a, WorthAt(a, m))
<1>1. m + 1 \in Nat /\ ~Closed(a, m) /\ ~Matured(a, m)
  BY DEF Deposits!Settled, Closed, Matured
<1>2. a.maturity # None => a.maturity \in Nat /\ a.maturity > m
  BY <1>1 DEF Matured, Deposits!Past, AccountWhole
<1>3. Ends(a, m) = m
  BY <1>1, <1>2, AccrualEnds
<1>4. Ends(a, m + 1) = m + 1
  <2>1. ~(a.maturity # None /\ a.maturity < m + 1)
    BY <1>2
  <2>2. QED
    BY <1>1, <2>1, AccrualEnds
<1>5. WorthAt(a, m) = ComesTo(a, m)
  BY <1>1, <1>3, OpenView DEF Certified
<1>6. WorthAt(a, m + 1) = ComesTo(a, m + 1)
  BY <1>4, OpenView DEF Certified
<1>7. Compounds(a, m) /\ m >= a.opened
  BY AlwaysCompounds DEF AccountWhole
<1>8. QED
  BY <1>5, <1>6, <1>7 DEF Compounds, NextComesTo

\* Once accrual has ended the worth stays, up to the certificate.
LEMMA OnceSettled ==
  ASSUME NEW a, AccountWhole(a), NEW m \in Nat, Deposits!Settled(a, m),
         Closed(a, m + 1) => Closed(a, m)
  PROVE  WorthAt(a, m + 1) = WorthAt(a, m)
<1>0. m + 1 \in Nat
  OBVIOUS
<1>1. CASE Closed(a, m)
  <2>1. Closed(a, m + 1)
    BY <1>0, <1>1 DEF Closed, Deposits!Past, AccountWhole
  <2>2. QED
    BY <1>1, <2>1, ClosedView
<1>2. CASE ~Closed(a, m)
  <2>1. ~Closed(a, m + 1) /\ Matured(a, m)
    BY <1>2 DEF Deposits!Settled, Closed, Matured
  <2>2. a.maturity # None /\ a.maturity \in Nat /\ a.maturity <= m
    BY <2>1 DEF Matured, Deposits!Past, AccountWhole
  <2>3. Matured(a, m + 1)
    BY <1>0, <2>2 DEF Matured, Deposits!Past
  <2>4. Ends(a, m) = a.maturity
    BY <1>2, <2>2, AccrualEnds
  <2>5. Ends(a, m + 1) = a.maturity
    <3>1. a.maturity < m + 1
      BY <2>2
    <3>2. QED
      BY <1>0, <2>1, <2>2, <3>1, AccrualEnds
  <2>6. Certified(a, m) <=> Certified(a, m + 1)
    BY <2>1, <2>3 DEF Certified
  <2>7. WorthAt(a, m) = IF Certified(a, m) THEN a.certificate ELSE ComesTo(a, a.maturity)
    BY <1>2, <2>4, OpenView
  <2>8. WorthAt(a, m + 1) = IF Certified(a, m + 1) THEN a.certificate ELSE ComesTo(a, a.maturity)
    BY <2>1, <2>5, OpenView
  <2>9. QED
    BY <2>6, <2>7, <2>8
<1>3. QED
  BY <1>1, <1>2

\* So an account grows month by month.
LEMMA AccountGrows ==
  ASSUME DepositsWhole, NEW a, AccountWhole(a), a.kind # "GRATUITY"
  PROVE  Deposits!Grows(a)
<1>1. ServiceWhole /\ LastDepositMonth \in Nat /\ a.opened \in Nat
  BY DEF DepositsWhole, AccountWhole
<1>2. ~Deposits!Settled(a, a.opened) => Deposits!View(a, a.opened).value = Deposits!FirstWorth(a)
  BY <1>1, FirstMonth DEF WorthAt
<1>3. ASSUME NEW m \in a.opened..LastDepositMonth
      PROVE  /\ ~Deposits!Settled(a, m) /\ ~Closed(a, m + 1)
                  /\ (Matured(a, m + 1) => a.certificate = None) =>
                  WorthAt(a, m + 1) = Deposits!NextWorth(a, WorthAt(a, m))
             /\ Deposits!Settled(a, m) /\ ~(Closed(a, m + 1) /\ ~Closed(a, m)) =>
                  WorthAt(a, m + 1) = WorthAt(a, m)
  <2>1. m \in Nat /\ a.opened <= m
    BY <1>1
  <2>2. QED
    BY <1>1, <2>1, OneMonth, OnceSettled
<1>4. QED
  BY <1>2, <1>3 DEF Deposits!Grows, Closed, Matured, WorthAt
---------------------------------------------------------------------------
\* What is left of an account but for its certificate and its closing.
Unended(a) == [a EXCEPT !.certificate = None, !.closed = None]

\* A certificate pays no less than nothing beyond what was put in.
LEMMA CertificatePays ==
  ASSUME DepositsWhole, NEW a, AccountWhole(a), a.kind = "TERM_DEPOSIT", a.certificate # None,
         Deposits!PaysAccrued(a), NEW x \in Nat, x <= LastDepositMonth
  PROVE  ComesTo(a, Ends(a, x)) <= a.certificate
<1> DEFINE b == Unended(a)
           lastDay == LastDepositMonth
<1>1. /\ b.kind = a.kind /\ b.opening = a.opening /\ b.opened = a.opened /\ b.monthly = a.monthly
      /\ b.rate = a.rate /\ b.maturity = a.maturity /\ b.certificate = None /\ b.closed = None
      /\ DOMAIN b = AccountFields
  BY DEF Unended, AccountWhole, AccountFields
<1>2. a.certificate >= Deposits!View(b, lastDay).value
  BY DEF Deposits!PaysAccrued, Unended
<1> HIDE DEF b, lastDay
<1>3. AccountWhole(b)
  BY <1>1 DEF AccountWhole
<1>4. lastDay \in Nat /\ x <= lastDay /\ ServiceWhole
  BY DEF lastDay, DepositsWhole
<1>5. ~Closed(b, lastDay) /\ ~Certified(b, lastDay)
  BY <1>1 DEF Closed, Deposits!Past, Certified
<1>6. WorthAt(b, lastDay) = ComesTo(b, Ends(b, lastDay))
  BY <1>3, <1>5, OpenView
<1> DEFINE e == Ends(b, lastDay)
           d == Ends(a, x)
<1>7. d \in Nat /\ e \in Nat /\ d <= e
  <2>1. e = IF a.maturity # None /\ a.maturity < lastDay THEN a.maturity ELSE lastDay
    BY <1>1, <1>3, <1>4, <1>5, AccrualEnds
  <2>2. d \in Nat /\ d <= x
    BY AccrualEnds
  <2>3. a.maturity # None => d <= a.maturity /\ a.maturity \in Nat
    BY DEF Ends, AccountWhole, Deposits!AccrualEnd, Deposits!Earlier
  <2> HIDE DEF d, e
  <2>4. QED
    BY <1>4, <2>1, <2>2, <2>3
<1> HIDE DEF d, e
<1>8. ComesTo(b, e) = ComesTo(a, e)
  BY <1>1 DEF ComesTo
<1>9. Earns(a, d) <= Earns(a, e)
  BY <1>4, <1>7, InterestGrows
<1>10. /\ ComesTo(a, d) \in Nat /\ ComesTo(a, e) \in Nat
       /\ PaidTo(a, d) = a.opening /\ PaidTo(a, e) = a.opening /\ a.opening \in Nat
  <2>1. Compounds(a, d) /\ Compounds(a, e)
    BY <1>4, <1>7, AlwaysCompounds
  <2>2. QED
    BY <2>1 DEF Compounds, PaidTo, AccountWhole
<1>11. a.certificate \in Nat
  BY DEF AccountWhole
<1>12. ComesTo(a, d) <= ComesTo(a, e)
  BY <1>9, <1>10 DEF Earns
<1>13. a.certificate >= ComesTo(a, e)
  BY <1>2, <1>6, <1>8 DEF WorthAt, e
<1>14. QED
  BY <1>10, <1>11, <1>12, <1>13 DEF d

\* The interest of an account that is open never falls, certificate or not.
LEMMA AccruedGrows ==
  ASSUME DepositsWhole, NEW a, AccountWhole(a), Deposits!PaysAccrued(a),
         NEW x \in 0..LastDepositMonth, NEW y \in 0..LastDepositMonth, x <= y, ~Closed(a, y)
  PROVE  AccruedAt(a, x) \in Int /\ AccruedAt(a, y) \in Int /\ AccruedAt(a, x) <= AccruedAt(a, y)
<1>0. x \in Nat /\ y \in Nat /\ x <= LastDepositMonth /\ y <= LastDepositMonth /\ ServiceWhole
  BY DEF DepositsWhole
<1>1. ~Closed(a, x)
  BY <1>0 DEF Closed, Deposits!Past, AccountWhole
<1> DEFINE d == Ends(a, x)
           e == Ends(a, y)
<1>2. d \in Nat /\ e \in Nat /\ d <= e
  BY <1>0, AccrualEnds
<1>3. AccruedAt(a, x) = (IF Certified(a, x) THEN a.certificate ELSE ComesTo(a, d)) - PaidTo(a, d)
  BY <1>1, OpenView
<1>4. AccruedAt(a, y) = (IF Certified(a, y) THEN a.certificate ELSE ComesTo(a, e)) - PaidTo(a, e)
  BY OpenView
<1> HIDE DEF d, e
<1>5. Earns(a, d) <= Earns(a, e)
  BY <1>0, <1>2, InterestGrows
<1>6. /\ ComesTo(a, d) \in Nat /\ ComesTo(a, e) \in Nat
      /\ PaidTo(a, d) \in Nat /\ PaidTo(a, e) \in Nat
  <2>1. Compounds(a, d) /\ Compounds(a, e)
    BY <1>0, <1>2, AlwaysCompounds
  <2>2. QED
    BY <2>1 DEF Compounds
<1>7. CASE ~Certified(a, y)
  <2>1. ~Certified(a, x)
    BY <1>0, <1>7 DEF Certified, Matured, Deposits!Past, AccountWhole
  <2>2. QED
    BY <1>3, <1>4, <1>5, <1>6, <1>7, <2>1 DEF Earns
<1>8. CASE Certified(a, y)
  <2>1. a.kind = "TERM_DEPOSIT" /\ a.certificate # None /\ a.certificate \in Nat
    BY <1>8 DEF Certified, AccountWhole
  <2>2. PaidTo(a, d) = a.opening /\ PaidTo(a, e) = a.opening /\ a.opening \in Nat
    BY <2>1 DEF PaidTo, AccountWhole
  <2>3. ComesTo(a, d) <= a.certificate
    BY <1>0, <2>1, CertificatePays DEF d
  <2>4. QED
    BY <1>3, <1>4, <1>6, <1>8, <2>1, <2>2, <2>3
<1>9. QED
  BY <1>7, <1>8

\* A gain from one figure to a later and greater one is their difference.
LEMMA MaxOfGain ==
  ASSUME NEW i \in Int, NEW j \in Int, i <= j
  PROVE  Deposits!Max({0, j - i}) = j - i
<1> DEFINE S == {0, j - i}
<1>1. /\ j - i \in S /\ j - i \in Int
      /\ \A y \in S : j - i >= y
      /\ \A y \in S : y \in Int
  OBVIOUS
<1>2. \E x \in S : \A y \in S : x >= y
  BY <1>1
<1>3. Deposits!Max(S) \in S /\ \A y \in S : Deposits!Max(S) >= y
  <2> HIDE DEF S
  <2>1. QED
    BY <1>2 DEF Deposits!Max
<1>4. QED
  BY <1>1, <1>3

\* So the interest of two windows that meet is that of both.
LEMMA AccountWindows ==
  ASSUME DepositsWhole, NEW a, AccountWhole(a)
  PROVE  Deposits!WindowsMeet(a)
<1> SUFFICES ASSUME NEW from \in 0..LastDepositMonth, NEW mid \in 0..LastDepositMonth,
                    NEW to \in 0..LastDepositMonth,
                    from <= mid, mid <= to, ~Closed(a, to), Deposits!PaysAccrued(a)
             PROVE  Deposits!InterestBetween(a, from, mid) + Deposits!InterestBetween(a, mid, to)
                      = Deposits!InterestBetween(a, from, to)
  BY DEF Deposits!WindowsMeet, Closed
<1>1. from <= to /\ ~Closed(a, mid)
  <2>1. from \in Nat /\ mid \in Nat /\ to \in Nat
    BY DEF DepositsWhole
  <2>2. QED
    BY <2>1 DEF Closed, Deposits!Past, AccountWhole
<1> DEFINE i == AccruedAt(a, from)
           j == AccruedAt(a, mid)
           k == AccruedAt(a, to)
<1>2. i \in Int /\ j \in Int /\ k \in Int /\ i <= j /\ j <= k
  BY <1>1, AccruedGrows
<1>3. /\ Deposits!InterestBetween(a, from, mid) = Deposits!Max({0, j - i})
      /\ Deposits!InterestBetween(a, mid, to) = Deposits!Max({0, k - j})
      /\ Deposits!InterestBetween(a, from, to) = Deposits!Max({0, k - i})
  BY DEF Deposits!InterestBetween, AccruedAt
<1> HIDE DEF i, j, k
<1>4. /\ Deposits!Max({0, j - i}) = j - i
      /\ Deposits!Max({0, k - j}) = k - j
      /\ Deposits!Max({0, k - i}) = k - i
  <2>1. i <= k
    BY <1>2
  <2>2. QED
    BY <1>2, <2>1, MaxOfGain
<1>5. QED
  BY <1>2, <1>3, <1>4

AccountsWhole == \A id \in DOMAIN accounts : AccountWhole(accounts[id])

\* Saving a whole account under its id keeps all whole.
LEMMA SavingKeepsAccounts ==
  ASSUME AccountsWhole, NEW id, NEW account, AccountWhole(account), Deposits!Save(id, account)
  PROVE  AccountsWhole'
<1>1. accounts' = [i \in DOMAIN accounts \cup {id} |-> IF i = id THEN account ELSE accounts[i]]
  BY DEF Deposits!Save
<1>2. ASSUME NEW i \in DOMAIN accounts'
      PROVE  AccountWhole(accounts'[i])
  <2>1. accounts'[i] = account \/ (i \in DOMAIN accounts /\ accounts'[i] = accounts[i])
    BY <1>1
  <2>2. QED
    BY <2>1 DEF AccountsWhole
<1>3. QED
  BY <1>2 DEF AccountsWhole, AccountWhole

\* Every request of the balances does.
LEMMA AccountsWholeInductive ==
  ASSUME DepositsWhole, AccountsWhole, [Deposits!BalancesNext]_(Deposits!balancevars)
  PROVE  AccountsWhole'
<1>1. ASSUME NEW e \in OpenedAccounts, Deposits!Record(e)
      PROVE  AccountsWhole'
  <2>1. Deposits!Save(Deposits!AssetId(e), e) /\ AccountWhole(e)
    BY <1>1 DEF Deposits!Record, DepositsWhole
  <2>2. QED
    BY <2>1, SavingKeepsAccounts
<1>2. ASSUME NEW id \in DOMAIN accounts, NEW amount \in Restatements,
             NEW on \in 0..LastDepositMonth, Deposits!Restate(id, amount, on)
      PROVE  AccountsWhole'
  <2> DEFINE account == [accounts[id] EXCEPT !.opening = amount, !.opened = on]
  <2>1. Deposits!Save(id, account)
    BY <1>2 DEF Deposits!Restate
  <2>2. amount \in Nat /\ on \in Nat /\ AccountWhole(accounts[id])
    BY DEF DepositsWhole, AccountsWhole
  <2>3. AccountWhole(account)
    BY <2>2 DEF AccountWhole, AccountFields
  <2> HIDE DEF account
  <2>4. QED
    BY <2>1, <2>3, SavingKeepsAccounts
<1>3. ASSUME NEW id \in DOMAIN accounts, NEW on \in ClosingDates, Deposits!Close(id, on)
      PROVE  AccountsWhole'
  <2> DEFINE account == [accounts[id] EXCEPT !.closed = on]
  <2>1. Deposits!Save(id, account)
    BY <1>3 DEF Deposits!Close
  <2>2. on \in Nat /\ AccountWhole(accounts[id])
    BY DEF DepositsWhole, AccountsWhole
  <2>3. AccountWhole(account)
    BY <2>2 DEF AccountWhole, AccountFields
  <2> HIDE DEF account
  <2>4. QED
    BY <2>1, <2>3, SavingKeepsAccounts
<1>4. ASSUME NEW id \in DOMAIN accounts, Deposits!Delete(id)
      PROVE  AccountsWhole'
  <2>1. accounts' = [i \in DOMAIN accounts \ {id} |-> accounts[i]]
    BY <1>4 DEF Deposits!Delete, Deposits!Restrict
  <2>2. \A i \in DOMAIN accounts' : i \in DOMAIN accounts /\ accounts'[i] = accounts[i]
    BY <2>1
  <2>3. QED
    BY <2>2 DEF AccountsWhole, AccountWhole
<1>5. CASE accounts' = accounts
  BY <1>5 DEF AccountsWhole, AccountWhole
<1>6. QED
  BY <1>1, <1>2, <1>3, <1>4, <1>5 DEF Deposits!BalancesNext, Deposits!Session,
    Deposits!NextMonth, Deposits!balancevars

\* On another side the balances stand still.
OnDeposits == side = "deposits"
LEMMA DepositsSide ==
  /\ RegistersInit => Deposits!BalancesInit
  /\ OnDeposits /\ [RegistersNext]_registervars =>
       OnDeposits' /\ [Deposits!BalancesNext]_(Deposits!balancevars)
  /\ ~OnDeposits /\ [RegistersNext]_registervars => (~OnDeposits)'
<1>1. RegistersInit => Deposits!BalancesInit
  BY DEF RegistersInit
<1>2. OnDeposits /\ [RegistersNext]_registervars =>
        OnDeposits' /\ [Deposits!BalancesNext]_(Deposits!balancevars)
  BY DEF RegistersNext, registervars, Deposits!balancevars, vars, depositvars, OnDeposits
<1>3. ~OnDeposits /\ [RegistersNext]_registervars => (~OnDeposits)'
  BY DEF RegistersNext, registervars, OnDeposits
<1>4. QED
  BY <1>1, <1>2, <1>3

(* An account entered, restated and closed at any date grows month by      *)
(* month, and the interest of two windows that meet is that of both.       *)
THEOREM AccountsGrow == DepositsWhole /\ RegistersSpec => []BalancesGrow
<1> DEFINE inv == OnDeposits => AccountsWhole
<1>1. RegistersInit => inv
  BY DepositsSide DEF Deposits!BalancesInit, AccountsWhole
<1>2. ASSUME DepositsWhole
      PROVE  inv /\ [RegistersNext]_registervars => inv'
  BY <1>2, DepositsSide, AccountsWholeInductive
<1>3. ASSUME DepositsWhole
      PROVE  inv => BalancesGrow
  <2> SUFFICES ASSUME inv, OnDeposits
               PROVE  Deposits!BalancesGrow
    BY DEF BalancesGrow, OnDeposits
  <2>1. ASSUME NEW id \in DOMAIN accounts
        PROVE  /\ accounts[id].kind # "GRATUITY" => Deposits!Grows(accounts[id])
               /\ Deposits!WindowsMeet(accounts[id])
    BY <1>3, AccountGrows, AccountWindows DEF AccountsWhole
  <2>2. QED
    BY <2>1 DEF Deposits!BalancesGrow
<1> HIDE DEF inv
<1>4. ASSUME DepositsWhole
      PROVE  RegistersSpec => []BalancesGrow
  BY <1>1, <1>2, <1>3, <1>4, PTL DEF RegistersSpec
<1>5. QED
  BY <1>4
---------------------------------------------------------------------------
LoanFigureFields == {"principal", "start", "closed", "repaid", "interest"}
RepaidEntry == [date : Nat, principal : Nat]
\* A hand loan whose amounts and days are whole.
LoanKept ==
  /\ DOMAIN loan = LoanFigureFields /\ asOf \in Nat
  /\ loan.principal \in Nat /\ loan.start \in Nat
  /\ loan.repaid \in Seq(RepaidEntry)
\* Its repayments by place, ordered by day and then as entered.
Places == DOMAIN loan.repaid
ByDay == {p \in Places \X Places : Figures!Before(p[1], p[2])}

\* Places are finitely many, and what is repaid there is whole.
LEMMA PlacesNumbered ==
  ASSUME LoanKept
  PROVE  /\ Places = 1..Len(loan.repaid) /\ Len(loan.repaid) \in Nat /\ IsFiniteSet(Places)
         /\ \A i \in Places : i \in Nat /\ loan.repaid[i].date \in Nat /\ loan.repaid[i].principal \in Nat
<1>1. loan.repaid \in Seq(RepaidEntry)
  BY DEF LoanKept
<1>2. Places = 1..Len(loan.repaid) /\ Len(loan.repaid) \in Nat
  BY <1>1 DEF Places
<1>3. IsFiniteSet(1..Len(loan.repaid))
  BY <1>2, FS_Interval
<1>4. \A i \in Places : i \in Nat /\ loan.repaid[i] \in RepaidEntry
  BY <1>1, <1>2
<1>5. QED
  BY <1>2, <1>3, <1>4 DEF RepaidEntry

\* So are those due on a day.
LEMMA DuePlaces ==
  ASSUME LoanKept, NEW d
  PROVE  Figures!Due(d) \in SUBSET Places /\ IsFiniteSet(Figures!Due(d))
<1>1. Figures!Due(d) \in SUBSET Places
  BY DEF Figures!Due, Places
<1>2. QED
  BY <1>1, PlacesNumbered, FS_Subset

\* The figures of loans count as the lemmas do.
LEMMA CountedAlike == ASSUME NEW S PROVE Figures!Cardinality(S) = Cardinality(S)
  BY DEF Figures!Cardinality, Cardinality

\* The repayments are gone through by day.
LEMMA ByDateIsOrder ==
  ASSUME LoanKept, NEW S \in SUBSET Places
  PROVE  IsOrderOf(Figures!ByDate(S), S, ByDay)
<1>1. \A i \in S : i \in Nat /\ loan.repaid[i].date \in Nat
  BY PlacesNumbered
<1>2. \A i, j \in S :
        <<i, j>> \in ByDay <=>
          loan.repaid[i].date < loan.repaid[j].date
            \/ (loan.repaid[i].date = loan.repaid[j].date /\ i < j)
  BY DEF ByDay, Figures!Before
<1>3. \A i, j \in S : i # j => <<i, j>> \in ByDay \/ <<j, i>> \in ByDay
  BY <1>1, <1>2
<1>4. \A i, j, k \in S : <<i, j>> \in ByDay /\ <<j, k>> \in ByDay => <<i, k>> \in ByDay
  BY <1>1, <1>2
<1>5. IsFiniteSet(S)
  BY PlacesNumbered, FS_Subset
<1>6. \E s : IsOrderOf(s, S, ByDay)
  BY <1>3, <1>4, <1>5, OrderExists
<1> DEFINE Sorted(s) == \A m, n \in DOMAIN s : m < n => Figures!Before(s[m], s[n])
<1>7. ASSUME NEW s
      PROVE  IsOrderOf(s, S, ByDay) <=> s \in Figures!SetToSeqs(S) /\ Sorted(s)
  <2>1. Figures!SetToSeqs(S)
          = {f \in [1..Cardinality(S) -> S] :
               \A i, j \in 1..Cardinality(S) : i # j => f[i] # f[j]}
    BY CountedAlike DEF Figures!SetToSeqs
  <2>2. ASSUME s \in [1..Cardinality(S) -> S]
        PROVE  \A m, n \in DOMAIN s : <<s[m], s[n]>> \in ByDay <=> Figures!Before(s[m], s[n])
    BY <2>2 DEF ByDay
  <2>3. QED
    BY <2>1, <2>2 DEF IsOrderOf
<1>8. Figures!ByDate(S) = CHOOSE s \in Figures!SetToSeqs(S) : Sorted(s)
  BY DEF Figures!ByDate
<1>9. \E s \in Figures!SetToSeqs(S) : Sorted(s)
  BY <1>6, <1>7
<1> HIDE DEF Sorted
<1>10. Figures!ByDate(S) \in Figures!SetToSeqs(S) /\ Sorted(Figures!ByDate(S))
  BY <1>8, <1>9
<1>11. QED
  BY <1>7, <1>10
---------------------------------------------------------------------------
\* What the loop over repayments carries.
Spanning == [interest : Nat, principal : Nat, from : Nat]
\* A span leaves whole numbers.
LEMMA SpanKept ==
  ASSUME LoanKept, NEW acc \in Spanning, NEW i \in Places
  PROVE  Figures!Span(acc, i) \in Spanning
<1> DEFINE t == Figures!Larger(0, loan.repaid[i].date - acc.from)
<1>1. loan.repaid[i].date \in Nat /\ loan.repaid[i].principal \in Nat
  BY PlacesNumbered
<1>2. acc.interest \in Nat /\ acc.principal \in Nat /\ acc.from \in Nat
  BY DEF Spanning
<1>3. t \in Nat
  BY <1>1, <1>2 DEF Figures!Larger
<1> HIDE DEF t
<1>4. acc.principal * t \in Nat
  BY <1>2, <1>3
<1>5. Figures!Earned(acc.from, loan.repaid[i].date, acc.principal) \in Nat
  BY <1>4 DEF Figures!Earned, t
<1>6. Figures!Larger(0, acc.principal - loan.repaid[i].principal) \in Nat
  BY <1>1, <1>2 DEF Figures!Larger
<1>7. acc.interest + Figures!Earned(acc.from, loan.repaid[i].date, acc.principal) \in Nat
  BY <1>2, <1>5
<1>8. QED
  BY <1>1, <1>6, <1>7 DEF Figures!Span, Spanning

SpanWalk(h, base, s, n) == h[0] = base /\ \A i \in 1..n : h[i] = Figures!Span(h[i - 1], s[i])
\* The loop over the repayments due is a walk.
LEMMA SpansWalk ==
  ASSUME LoanKept, NEW S \in SUBSET Places, NEW base \in Spanning,
         NEW n, n = Cardinality(S), NEW s, s = Figures!ByDate(S)
  PROVE  \E h \in [0..n -> Spanning] :
           SpanWalk(h, base, s, n) /\ Figures!FoldLeft(Figures!Span, base, s) = h[n]
<1> DEFINE step == [i \in 1..n |-> [acc \in Spanning |-> Figures!Span(acc, s[i])]]
           top == [t \in SUBSET (1..n) |-> Figures!Max(t)]
           Eqn(f) == f = [t \in SUBSET DOMAIN s |->
                           IF t = {} THEN base
                           ELSE Figures!Span(f[t \ {Figures!Max(t)}], s[Figures!Max(t)])]
           C == CHOOSE f : Eqn(f)
<1>0. IsFiniteSet(S)
  BY PlacesNumbered, FS_Subset
<1>1. n \in Nat
  BY <1>0, FS_CardinalityType
<1>2. s \in [1..n -> S]
  BY ByDateIsOrder DEF IsOrderOf
<1>3. step \in [1..n -> [Spanning -> Spanning]]
  <2>1. ASSUME NEW i \in 1..n, NEW acc \in Spanning
        PROVE  Figures!Span(acc, s[i]) \in Spanning
    <3>1. s[i] \in Places
      BY <1>2
    <3>2. QED
      BY <3>1, SpanKept
  <2>2. QED
    BY <2>1
<1>4. Greatest(top, n)
  BY <1>1, GreatestPlace DEF Greatest, Figures!Max
<1>5. DOMAIN s = 1..n
  BY <1>2
<1>6. Figures!FoldLeft(Figures!Span, base, s) = C[DOMAIN s]
  BY DEF Figures!FoldLeft, Figures!MapThenFoldSet
<1>7. \E f : Eqn(f)
  <2>1. PICK g \in [SUBSET (1..n) -> Spanning] : FoldTable(g, base, n, step, top)
    <3> HIDE DEF step, top
    <3>1. base \in Spanning /\ n \in Nat
      BY <1>1
    <3>2. QED
      BY <1>3, <1>4, <3>1, FoldTableExists, Zenon
  <2>2. ASSUME NEW t \in SUBSET (1..n)
        PROVE  g[t] = IF t = {} THEN base
                      ELSE Figures!Span(g[t \ {Figures!Max(t)}], s[Figures!Max(t)])
    <3>1. g[t] = IF t = {} THEN base ELSE step[top[t]][g[t \ {top[t]}]]
      BY <2>1 DEF FoldTable
    <3>2. ASSUME t # {}
          PROVE  step[top[t]][g[t \ {top[t]}]] = Figures!Span(g[t \ {Figures!Max(t)}], s[Figures!Max(t)])
      <4>1. top[t] = Figures!Max(t) /\ top[t] \in 1..n
        BY <1>4, <3>2 DEF Greatest
      <4>2. g[t \ {top[t]}] \in Spanning
        BY <2>1
      <4> HIDE DEF top
      <4>3. QED
        BY <4>1, <4>2
    <3> HIDE DEF step, top
    <3>3. QED
      BY <3>1, <3>2
  <2>3. g = [t \in SUBSET (1..n) |-> g[t]]
    BY <2>1
  <2>4. g = [t \in SUBSET (1..n) |-> IF t = {} THEN base
                                     ELSE Figures!Span(g[t \ {Figures!Max(t)}], s[Figures!Max(t)])]
    BY <2>2, <2>3
  <2>5. Eqn(g)
    BY <1>5, <2>4
  <2>6. QED
    BY <2>5
<1>8. Eqn(C)
  <2> HIDE DEF Eqn
  <2>1. QED
    BY <1>7
<1>9. C[{}] = base /\ C[DOMAIN s] = C[1..n]
  <2>1. {} \in SUBSET DOMAIN s
    OBVIOUS
  <2> HIDE DEF C
  <2>2. QED
    BY <1>5, <1>8, <2>1
<1>10. ASSUME NEW t \in SUBSET (1..n), t # {}, C[t \ {top[t]}] \in Spanning
       PROVE  C[t] = step[top[t]][C[t \ {top[t]}]]
  <2>1. C[t] = Figures!Span(C[t \ {Figures!Max(t)}], s[Figures!Max(t)])
    <3> HIDE DEF C
    <3>1. QED
      BY <1>5, <1>8, <1>10
  <2>2. top[t] = Figures!Max(t) /\ top[t] \in 1..n
    BY <1>4, <1>10 DEF Greatest
  <2> HIDE DEF C, top
  <2>3. QED
    BY <1>10, <2>1, <2>2
<1>11. \E h \in [0..n -> Spanning] : Walks(h, base, n, step) /\ h[n] = C[1..n]
  <2>1. C[{}] = base
    BY <1>9
  <2> HIDE DEF C, step, top
  <2>2. \A t \in SUBSET (1..n) : t # {} /\ C[t \ {top[t]}] \in Spanning =>
          C[t] = step[top[t]][C[t \ {top[t]}]]
    BY <1>10
  <2>3. Folds(C, Spanning, base, n, step, top)
    BY <2>1, <2>2 DEF Folds
  <2>4. QED
    BY ONLY <1>1, <1>3, <1>4, <2>3, FoldWalks, SMTT(60), ZenonT(60)
<1>12. PICK h \in [0..n -> Spanning] : Walks(h, base, n, step) /\ h[n] = C[1..n]
  BY <1>11
<1>13. ASSUME NEW i \in 1..n
       PROVE  h[i] = Figures!Span(h[i - 1], s[i])
  <2>1. h[i - 1] \in Spanning
    BY <1>1, <1>12
  <2>2. h[i] = step[i][h[i - 1]]
    BY <1>12 DEF Walks
  <2>3. QED
    BY <2>1, <2>2
<1> HIDE DEF C
<1>14. SpanWalk(h, base, s, n)
  BY <1>12, <1>13 DEF SpanWalk, Walks
<1>15. QED
  BY <1>6, <1>9, <1>12, <1>14

\* What was repaid, what is left of the principal, and what was so on each day.
Principals == [i \in Places |-> loan.repaid[i].principal]
Unpaid == [d \in Nat |-> Figures!Outstanding(d)]
RepaidBy(S) == SumFunctionOnSet(Principals, S)
Left(S) == Figures!Larger(0, loan.principal - RepaidBy(S))

\* What is outstanding is the principal less what is due by the day.
LEMMA OutstandingIsLeft ==
  ASSUME NEW d
  PROVE  Figures!Outstanding(d) = Left(Figures!Due(d))
<1> DEFINE D == Figures!Due(d)
           Table(h) == h = [s \in SUBSET D |->
             IF s = {} THEN 0 ELSE loan.repaid[FirstOf(s)].principal + h[s \ {FirstOf(s)}]]
           Known(h) == h = [s \in SUBSET D |->
             IF s = {} THEN 0 ELSE Principals[FirstOf(s)] + h[s \ {FirstOf(s)}]]
           sum == Figures!MapThenSumSet(LAMBDA i : loan.repaid[i].principal, D)
<1>1. ASSUME NEW h PROVE Table(h) <=> Known(h)
  <2>1. \A s \in SUBSET D : s # {} => loan.repaid[FirstOf(s)].principal = Principals[FirstOf(s)]
    BY FirstOfIn DEF Principals, Places, Figures!Due
  <2>2. QED
    BY <2>1
<1>2. sum = (CHOOSE h : Table(h))[D]
  BY DEF Figures!MapThenSumSet, Figures!MapThenFoldSet, FirstOf
<1>3. RepaidBy(D) = (CHOOSE h : Known(h))[D]
  BY DEF RepaidBy, SumFunctionOnSet, FoldFunctionOnSet, MapThenFoldSet, FirstOf
<1>4. Figures!Outstanding(d) = Figures!Larger(0, loan.principal - sum)
  BY DEF Figures!Outstanding
<1> HIDE DEF Table, Known, sum, D
<1>5. (CHOOSE h : Table(h)) = (CHOOSE h : Known(h))
  BY <1>1
<1>6. sum = RepaidBy(D)
  BY <1>2, <1>3, <1>5
<1>7. QED
  BY <1>4, <1>6 DEF Left, D

\* The reference figure is the sum over the days.
LEMMA PeriodsAreSum ==
  ASSUME LoanKept
  PROVE  Figures!PeriodByPeriod = SumFunctionOnSet(Unpaid, loan.start..(asOf - 1))
<1> DEFINE D == loan.start..(asOf - 1)
           Table(h) == h = [s \in SUBSET D |->
             IF s = {} THEN 0 ELSE Figures!Outstanding(FirstOf(s)) + h[s \ {FirstOf(s)}]]
           Known(h) == h = [s \in SUBSET D |->
             IF s = {} THEN 0 ELSE Unpaid[FirstOf(s)] + h[s \ {FirstOf(s)}]]
<1>1. ASSUME NEW h PROVE Table(h) <=> Known(h)
  <2>1. \A d \in D : Unpaid[d] = Figures!Outstanding(d)
    BY DEF Unpaid, LoanKept
  <2>2. \A s \in SUBSET D : s # {} => FirstOf(s) \in D
    BY FirstOfIn
  <2> HIDE DEF D
  <2>3. \A s \in SUBSET D : s # {} => Figures!Outstanding(FirstOf(s)) = Unpaid[FirstOf(s)]
    BY <2>1, <2>2
  <2>4. QED
    BY <2>3
<1>2. Figures!PeriodByPeriod = (CHOOSE h : Table(h))[D]
  BY DEF Figures!PeriodByPeriod, Figures!MapThenSumSet, Figures!MapThenFoldSet, FirstOf
<1>3. SumFunctionOnSet(Unpaid, D) = (CHOOSE h : Known(h))[D]
  BY DEF SumFunctionOnSet, FoldFunctionOnSet, MapThenFoldSet, FirstOf
<1> HIDE DEF Table, Known
<1>4. (CHOOSE h : Table(h)) = (CHOOSE h : Known(h))
  BY <1>1
<1>5. QED
  BY <1>2, <1>3, <1>4

\* Repayments are whole, and taking one more off what is left.
LEMMA LeftAfter ==
  ASSUME LoanKept, NEW S \in SUBSET Places
  PROVE  /\ RepaidBy(S) \in Nat /\ Left(S) \in Nat
         /\ \A i \in Places \ S :
              Left(S \cup {i}) = Figures!Larger(0, Left(S) - loan.repaid[i].principal)
<1>1. IsFiniteSet(S) /\ \A i \in Places : Principals[i] = loan.repaid[i].principal /\ Principals[i] \in Nat
  BY PlacesNumbered, FS_Subset DEF Principals
<1>2. RepaidBy(S) \in Nat
  <2>1. \A i \in S : Principals[i] \in Nat
    BY <1>1
  <2>2. QED
    BY <1>1, <2>1, SumNat DEF RepaidBy
<1>3. loan.principal \in Nat
  BY DEF LoanKept
<1>4. Left(S) \in Nat
  BY <1>2, <1>3 DEF Left, Figures!Larger
<1>5. ASSUME NEW i \in Places \ S
      PROVE  Left(S \cup {i}) = Figures!Larger(0, Left(S) - loan.repaid[i].principal)
  <2>1. \A j \in S \cup {i} : Principals[j] \in Int
    BY <1>1
  <2>2. RepaidBy(S \cup {i}) = Principals[i] + RepaidBy(S)
    BY <1>1, <2>1, SumAdd DEF RepaidBy
  <2>3. Principals[i] = loan.repaid[i].principal /\ loan.repaid[i].principal \in Nat
    BY <1>1
  <2>4. QED
    BY <1>2, <1>3, <2>2, <2>3 DEF Left, Figures!Larger
<1>6. QED
  BY <1>2, <1>4, <1>5

\* Between two repayments the same repayments are due on every day.
LEMMA StillDue ==
  ASSUME LoanKept, NEW S \in SUBSET Figures!Due(asOf), NEW from \in Nat, NEW to \in Nat,
         to <= asOf, \A i \in S : loan.repaid[i].date <= from,
         \A i \in Figures!Due(asOf) \ S : loan.repaid[i].date >= to,
         NEW d \in from..(to - 1)
  PROVE  Figures!Due(d) = S
<1>1. \A i \in Places : loan.repaid[i].date \in Nat
  BY PlacesNumbered
<1>2. asOf \in Nat /\ d \in Nat /\ from <= d /\ d < to
  BY DEF LoanKept
<1>3. ASSUME NEW i \in S PROVE i \in Figures!Due(d)
  BY <1>1, <1>2 DEF Figures!Due, Places
<1>4. ASSUME NEW i \in Figures!Due(d) PROVE i \in S
  BY <1>1, <1>2 DEF Figures!Due, Places
<1>5. QED
  BY <1>3, <1>4

\* What is outstanding is whole.
LEMMA UnpaidWhole ==
  ASSUME LoanKept, NEW d \in Nat
  PROVE  Unpaid[d] \in Nat
<1>1. Figures!Due(d) \in SUBSET Places
  BY DuePlaces
<1>2. Left(Figures!Due(d)) \in Nat
  BY <1>1, LeftAfter
<1>3. QED
  BY <1>2, OutstandingIsLeft DEF Unpaid

\* So the interest of a span is what its days' outstanding principal earned.
LEMMA SpanEarns ==
  ASSUME LoanKept, NEW S \in SUBSET Figures!Due(asOf), NEW from \in Nat, NEW to \in Nat,
         loan.start <= from, from <= to,
         to <= asOf, \A i \in S : loan.repaid[i].date <= from,
         \A i \in Figures!Due(asOf) \ S : loan.repaid[i].date >= to
  PROVE  SumFunctionOnSet(Unpaid, loan.start..(to - 1))
           = SumFunctionOnSet(Unpaid, loan.start..(from - 1)) + Figures!Earned(from, to, Left(S))
<1> DEFINE A == loan.start..(from - 1)
           B == from..(to - 1)
           c == Left(S)
<1>1. c \in Nat
  BY DuePlaces, LeftAfter
<1>2. loan.start \in Nat
  BY DEF LoanKept
<1>3. \A d \in B : Unpaid[d] = c
  <2>1. ASSUME NEW d \in B PROVE Unpaid[d] = c
    <3>1. Figures!Due(d) = S
      BY StillDue
    <3>2. d \in Nat
      OBVIOUS
    <3>3. Unpaid[d] = Left(Figures!Due(d))
      BY <3>2, OutstandingIsLeft DEF Unpaid
    <3>4. QED
      BY <3>1, <3>3, Zenon
  <2>2. QED
    BY <2>1
<1>4. SumFunctionOnSet(Unpaid, B) = c * (to - from)
  <2> HIDE DEF c
  <2>1. QED
    BY <1>1, <1>3, SumFlat
<1>5. IsFiniteSet(A) /\ IsFiniteSet(B) /\ A \cap B = {} /\ A \cup B = loan.start..(to - 1)
  <2>1. IsFiniteSet(A) /\ IsFiniteSet(B)
    <3>1. loan.start \in Int /\ from \in Int /\ from - 1 \in Int /\ to - 1 \in Int
      BY <1>2
    <3>2. QED
      BY <3>1, FS_Interval
  <2>2. A \cap B = {} /\ A \cup B = loan.start..(to - 1)
    BY <1>2
  <2>3. QED
    BY <2>1, <2>2
<1>6. \A d \in A \cup B : Unpaid[d] \in Int
  <2>1. \A d \in A \cup B : d \in Nat
    BY <1>2
  <2> HIDE DEF A, B
  <2>2. QED
    BY <2>1, UnpaidWhole
<1>7. Figures!Earned(from, to, c) = c * (to - from)
  <2>1. Figures!Larger(0, to - from) = to - from
    BY DEF Figures!Larger
  <2>2. QED
    BY <2>1 DEF Figures!Earned
<1> HIDE DEF A, B, c
<1>8. SumFunctionOnSet(Unpaid, A \cup B) = SumFunctionOnSet(Unpaid, A) + SumFunctionOnSet(Unpaid, B)
  BY <1>5, <1>6, SumUnion
<1>9. SumFunctionOnSet(Unpaid, loan.start..(to - 1)) = SumFunctionOnSet(Unpaid, A \cup B)
  BY <1>5, Zenon
<1>10. QED
  BY <1>4, <1>7, <1>8, <1>9 DEF A, c
---------------------------------------------------------------------------
(* Where the loop over the repayments due has come to after j of them:     *)
(* they are off the principal, the others fall no earlier, and every day   *)
(* so far has earned on what was outstanding.                              *)
TakenOff(s, j) == {s[m] : m \in 1..j}
Reached(acc, s, j) ==
  /\ acc \in Spanning /\ loan.start <= acc.from /\ acc.from <= asOf
  /\ acc.principal = Left(TakenOff(s, j))
  /\ \A i \in TakenOff(s, j) : loan.repaid[i].date <= acc.from
  /\ \A i \in Figures!Due(asOf) \ TakenOff(s, j) : loan.repaid[i].date >= acc.from
  /\ acc.interest = SumFunctionOnSet(Unpaid, loan.start..(acc.from - 1))

\* The next repayment in order keeps that so.
LEMMA NextSpan ==
  ASSUME LoanKept, Figures!RepaidSinceStart,
         NEW s, IsOrderOf(s, Figures!Due(asOf), ByDay),
         NEW j \in Nat, j < Cardinality(Figures!Due(asOf)),
         NEW acc, Reached(acc, s, j)
  PROVE  Reached(Figures!Span(acc, s[j + 1]), s, j + 1)
<1> DEFINE D == Figures!Due(asOf)
           n == Cardinality(D)
           S == TakenOff(s, j)
           x == s[j + 1]
           to == loan.repaid[x].date
           next == Figures!Span(acc, x)
<1>0. D \in SUBSET Places /\ IsFiniteSet(D) /\ n \in Nat
  BY DuePlaces, FS_CardinalityType
<1>1. /\ s \in [1..n -> D]
      /\ \A k, m \in 1..n : k # m => s[k] # s[m]
      /\ \A k, m \in 1..n : k < m => <<s[k], s[m]>> \in ByDay
  BY DEF IsOrderOf
<1>2. j + 1 \in 1..n /\ (\A m \in 1..j : m \in 1..n /\ m < j + 1)
  BY <1>0
<1>3. x \in D /\ x \in Places /\ to \in Nat /\ to <= asOf /\ loan.start <= to
  <2>1. x \in D /\ x \in Places
    BY <1>0, <1>1, <1>2
  <2>2. to \in Nat
    BY <2>1, PlacesNumbered
  <2>3. to <= asOf
    BY <2>1 DEF Figures!Due
  <2>4. loan.start <= to
    BY <2>1, <2>2 DEF Figures!RepaidSinceStart, Places, LoanKept
  <2>5. QED
    BY <2>1, <2>2, <2>3, <2>4
<1>4. S \in SUBSET D /\ x \notin S /\ TakenOff(s, j + 1) = S \cup {x}
  <2>1. S \in SUBSET D
    BY <1>1, <1>2 DEF TakenOff
  <2>2. x \notin S
    BY <1>1, <1>2 DEF TakenOff
  <2>3. TakenOff(s, j + 1) = S \cup {x}
    <3>1. \A m : m \in 1..(j + 1) <=> m \in 1..j \/ m = j + 1
      OBVIOUS
    <3>2. QED
      BY <3>1 DEF TakenOff
  <2>4. QED
    BY <2>1, <2>2, <2>3
<1>5. \A i \in S : loan.repaid[i].date <= to
  <2>1. ASSUME NEW m \in 1..j PROVE loan.repaid[s[m]].date <= to
    <3>1. <<s[m], x>> \in ByDay
      BY <1>1, <1>2
    <3>2. Figures!Before(s[m], x)
      BY <3>1 DEF ByDay
    <3>3. s[m] \in Places
      BY <1>0, <1>1, <1>2
    <3>4. loan.repaid[s[m]].date \in Nat
      BY <3>3, PlacesNumbered
    <3>5. QED
      BY <1>3, <3>2, <3>4 DEF Figures!Before
  <2>2. QED
    BY <2>1 DEF TakenOff
<1>6. \A i \in D \ S : loan.repaid[i].date >= to
  <2>1. ASSUME NEW i \in D \ S PROVE loan.repaid[i].date >= to
    <3>1. PICK k \in 1..n : s[k] = i
      BY <1>0, OrderHasAll
    <3>2. k \notin 1..j
      BY <2>1, <3>1 DEF TakenOff
    <3>3. k = j + 1 \/ j + 1 < k
      BY <1>0, <3>2
    <3>4. CASE k = j + 1
      BY <1>3, <3>1, <3>4
    <3>5. CASE j + 1 < k
      <4>1. <<x, i>> \in ByDay
        BY <1>1, <1>2, <3>1, <3>5
      <4>2. Figures!Before(x, i)
        BY <4>1 DEF ByDay
      <4>3. loan.repaid[i].date \in Nat
        BY <1>0, <2>1, PlacesNumbered
      <4>4. QED
        BY <1>3, <4>2, <4>3 DEF Figures!Before
    <3>6. QED
      BY <3>3, <3>4, <3>5
  <2>2. QED
    BY <2>1
<1>7. acc \in Spanning /\ acc.from \in Nat /\ acc.principal = Left(S) /\ acc.from <= to
  BY <1>3, <1>4 DEF Reached, Spanning
<1>8. /\ next.interest = acc.interest + Figures!Earned(acc.from, to, acc.principal)
      /\ next.principal = Figures!Larger(0, acc.principal - loan.repaid[x].principal)
      /\ next.from = to
  BY DEF Figures!Span
<1>9. next \in Spanning
  BY <1>3, <1>7, SpanKept
<1>10. next.principal = Left(S \cup {x})
  <2>1. S \in SUBSET Places /\ x \in Places \ S
    BY <1>0, <1>3, <1>4
  <2>2. Left(S \cup {x}) = Figures!Larger(0, Left(S) - loan.repaid[x].principal)
    BY <2>1, LeftAfter
  <2>3. QED
    BY <1>7, <1>8, <2>2
<1>11. next.interest = SumFunctionOnSet(Unpaid, loan.start..(to - 1))
  <2>1. \A i \in S : loan.repaid[i].date <= acc.from
    BY DEF Reached
  <2>2. acc.interest = SumFunctionOnSet(Unpaid, loan.start..(acc.from - 1)) /\ loan.start <= acc.from
    BY DEF Reached
  <2> HIDE DEF S, to, next
  <2>3. SumFunctionOnSet(Unpaid, loan.start..(to - 1))
          = SumFunctionOnSet(Unpaid, loan.start..(acc.from - 1)) + Figures!Earned(acc.from, to, Left(S))
    BY <1>3, <1>4, <1>6, <1>7, <2>1, <2>2, SpanEarns
  <2>4. QED
    BY <1>7, <1>8, <2>2, <2>3
<1> HIDE DEF S, to, next
<1>12. \A i \in S \cup {x} : loan.repaid[i].date <= to
  BY <1>3, <1>5 DEF to
<1>13. \A i \in D \ (S \cup {x}) : loan.repaid[i].date >= to
  BY <1>6
<1>14. Reached(next, s, j + 1)
  <2> HIDE DEF D, x
  <2>1. TakenOff(s, j + 1) = S \cup {x}
    BY <1>4
  <2>2. next \in Spanning /\ loan.start <= next.from /\ next.from <= asOf
    BY <1>3, <1>8, <1>9
  <2>3. next.principal = Left(TakenOff(s, j + 1))
    BY <1>10, <2>1
  <2>4. next.interest = SumFunctionOnSet(Unpaid, loan.start..(next.from - 1))
    BY <1>8, <1>11
  <2>5. QED
    BY <1>8, <1>12, <1>13, <2>1, <2>2, <2>3, <2>4 DEF Reached, D
<1>15. QED
  BY <1>14 DEF next

Made == [interest |-> 0, principal |-> loan.principal, from |-> loan.start]
\* Before the first repayment it is so.
LEMMA FirstSpan ==
  ASSUME LoanKept, Figures!RepaidSinceStart, loan.start <= asOf, NEW s
  PROVE  Reached(Made, s, 0)
<1>1. TakenOff(s, 0) = {}
  BY DEF TakenOff
<1>2. loan.principal \in Nat /\ loan.start \in Nat /\ Made \in Spanning
  BY DEF LoanKept, Spanning, Made
<1>3. Left({}) = loan.principal
  <2>1. RepaidBy({}) = 0
    BY SumEmpty DEF RepaidBy
  <2>2. QED
    BY <1>2, <2>1 DEF Left, Figures!Larger
<1>4. SumFunctionOnSet(Unpaid, loan.start..(loan.start - 1)) = 0
  <2>1. loan.start..(loan.start - 1) = {}
    BY <1>2
  <2>2. QED
    BY <2>1, SumEmpty
<1>5. \A i \in Figures!Due(asOf) : loan.repaid[i].date >= loan.start
  BY DEF Figures!Due, Figures!RepaidSinceStart
<1>6. Made.interest = 0 /\ Made.principal = loan.principal /\ Made.from = loan.start
  BY DEF Made
<1>7. Made.principal = Left(TakenOff(s, 0))
  BY <1>1, <1>3, <1>6
<1>8. \A i \in Figures!Due(asOf) \ TakenOff(s, 0) : loan.repaid[i].date >= Made.from
  BY <1>5, <1>6
<1>9. Made.interest = SumFunctionOnSet(Unpaid, loan.start..(Made.from - 1))
  BY <1>4, <1>6
<1>10. loan.start <= Made.from /\ Made.from <= asOf
  BY <1>2, <1>6
<1>11. \A i \in TakenOff(s, 0) : loan.repaid[i].date <= Made.from
  BY <1>1
<1>12. QED
  BY <1>2, <1>7, <1>8, <1>9, <1>10, <1>11 DEF Reached

\* So the loop ends at what the days have earned together.
LEMMA InterestDeclines ==
  ASSUME LoanKept, Figures!RepaidSinceStart
  PROVE  Figures!Accrued(asOf) = Figures!PeriodByPeriod
<1> DEFINE D == Figures!Due(asOf)
           n == Cardinality(D)
           s == Figures!ByDate(D)
<1>1. D \in SUBSET Places /\ IsFiniteSet(D) /\ n \in Nat
  BY DuePlaces, FS_CardinalityType
<1>2. IsOrderOf(s, D, ByDay)
  BY <1>1, ByDateIsOrder
<1>3. loan.start \in Nat /\ asOf \in Nat /\ Made \in Spanning
  BY DEF LoanKept, Spanning, Made
<1>4. Figures!PeriodByPeriod = SumFunctionOnSet(Unpaid, loan.start..(asOf - 1))
  BY PeriodsAreSum
<1>5. CASE asOf <= loan.start
  <2>1. Figures!Accrued(asOf) = 0
    BY <1>5 DEF Figures!Accrued
  <2>2. loan.start..(asOf - 1) = {}
    BY <1>3, <1>5
  <2>3. SumFunctionOnSet(Unpaid, loan.start..(asOf - 1)) = 0
    BY <2>2, SumEmpty
  <2>4. QED
    BY <1>4, <2>1, <2>3
<1>6. CASE ~(asOf <= loan.start)
  <2>0. loan.start <= asOf
    BY <1>3, <1>6
  <2>1. PICK h \in [0..n -> Spanning] :
          SpanWalk(h, Made, s, n) /\ Figures!FoldLeft(Figures!Span, Made, s) = h[n]
    BY <1>1, <1>3, SpansWalk
  <2> DEFINE acc == h[n]
  <2>2. Figures!Accrued(asOf) = acc.interest + Figures!Earned(acc.from, asOf, acc.principal)
    <3> HIDE DEF s
    <3>1. QED
      BY <1>6, <2>1 DEF Figures!Accrued, Made, s
  <2> HIDE DEF s
  <2>3. Reached(acc, s, n)
    <3> DEFINE T == {j \in Nat : j <= n => Reached(h[j], s, j)}
    <3>1. 0 \in T
      BY <2>0, <2>1, FirstSpan DEF SpanWalk
    <3>2. ASSUME NEW j \in Nat, j \in T
          PROVE  j + 1 \in T
      <4>1. SUFFICES ASSUME j + 1 <= n
                     PROVE  Reached(h[j + 1], s, j + 1)
        BY <3>2
      <4>2. j < n /\ j + 1 \in 1..n /\ (j + 1) - 1 = j /\ Reached(h[j], s, j)
        BY <1>1, <3>2, <4>1
      <4>3. h[j + 1] = Figures!Span(h[j], s[j + 1])
        BY <2>1, <4>2 DEF SpanWalk
      <4>4. QED
        BY <1>2, <4>2, <4>3, NextSpan
    <3> HIDE DEF T
    <3>3. n \in T
      BY <1>1, <3>1, <3>2, Counting
    <3>4. QED
      BY <3>3 DEF T
  <2>4. TakenOff(s, n) = D
    <3>1. s \in [1..n -> D]
      BY <1>2 DEF IsOrderOf
    <3>2. \A x \in D : \E i \in 1..n : s[i] = x
      BY <1>1, <1>2, OrderHasAll
    <3>3. QED
      BY <3>1, <3>2 DEF TakenOff
  <2> HIDE DEF D, n, acc
  <2>5. /\ acc.from \in Nat /\ loan.start <= acc.from /\ acc.from <= asOf
        /\ acc.principal = Left(D) /\ (\A i \in D : loan.repaid[i].date <= acc.from)
        /\ acc.interest = SumFunctionOnSet(Unpaid, loan.start..(acc.from - 1))
    BY <2>3, <2>4 DEF Reached, Spanning
  <2>6. SumFunctionOnSet(Unpaid, loan.start..(asOf - 1))
          = SumFunctionOnSet(Unpaid, loan.start..(acc.from - 1))
            + Figures!Earned(acc.from, asOf, Left(D))
    BY <1>3, <2>5, SpanEarns DEF D
  <2>7. QED
    BY <1>4, <2>2, <2>5, <2>6
<1>7. QED
  BY <1>5, <1>6
---------------------------------------------------------------------------
\* What can be entered of a loan is whole.
LEMMA RepaymentsWhole ==
  /\ Figures!Date \in SUBSET Nat /\ Figures!Amount \in SUBSET Nat
  /\ Figures!Repayment \in SUBSET RepaidEntry
BY DEF Figures!Date, Figures!Amount, Figures!Repayment, RepaidEntry

\* Every request keeps a loan whole.
LEMMA LoanKeptInductive ==
  ASSUME LoanKept, [Figures!Next]_(Figures!vars)
  PROVE  LoanKept'
<1>1. ASSUME NEW r \in Figures!Repayment, Figures!RecordPrincipalRepayment(r)
      PROVE  LoanKept'
  <2>1. r \in RepaidEntry
    BY RepaymentsWhole
  <2>2. loan' = [loan EXCEPT !.repaid = Append(loan.repaid, r)] /\ asOf' = asOf
    BY <1>1 DEF Figures!RecordPrincipalRepayment
  <2>3. Append(loan.repaid, r) \in Seq(RepaidEntry)
    BY <2>1 DEF LoanKept
  <2>4. QED
    BY <2>2, <2>3 DEF LoanKept, LoanFigureFields
<1>2. ASSUME NEW d \in Figures!Date, Figures!EditLoanDate(d)
      PROVE  LoanKept'
  <2>1. d \in Nat
    BY RepaymentsWhole
  <2>2. loan' = [loan EXCEPT !.start = d] /\ asOf' = asOf
    BY <1>2 DEF Figures!EditLoanDate
  <2>3. QED
    BY <2>1, <2>2 DEF LoanKept, LoanFigureFields
<1>3. CASE Figures!NextDay
  BY <1>3 DEF Figures!NextDay, LoanKept
<1>4. ASSUME NEW amount \in Figures!Amount, Figures!RecordInterestPayment(amount)
      PROVE  LoanKept'
  BY <1>4 DEF Figures!RecordInterestPayment, LoanKept, LoanFigureFields
<1>5. ASSUME NEW d \in Figures!Date, Figures!Close(d)
      PROVE  LoanKept'
  BY <1>5 DEF Figures!Close, LoanKept, LoanFigureFields
<1>6. CASE Figures!Reopen
  BY <1>6 DEF Figures!Reopen, LoanKept, LoanFigureFields
<1>7. CASE UNCHANGED Figures!vars
  BY <1>7 DEF Figures!vars, LoanKept
<1>8. QED
  BY <1>1, <1>2, <1>3, <1>4, <1>5, <1>6, <1>7 DEF Figures!Next

OnFigures == side = "figures"
\* On another side the loan stands still.
LEMMA FiguresSide ==
  /\ RegistersInit => Figures!Init
  /\ OnFigures /\ [RegistersNext]_registervars => OnFigures' /\ [Figures!Next]_(Figures!vars)
  /\ ~OnFigures /\ [RegistersNext]_registervars => (~OnFigures)'
<1>1. RegistersInit => Figures!Init
  BY DEF RegistersInit
<1>2. OnFigures /\ [RegistersNext]_registervars => OnFigures' /\ [Figures!Next]_(Figures!vars)
  BY DEF RegistersNext, registervars, figurevars, Figures!vars, OnFigures
<1>3. ~OnFigures /\ [RegistersNext]_registervars => (~OnFigures)'
  BY DEF RegistersNext, registervars, OnFigures
<1>4. QED
  BY <1>1, <1>2, <1>3

(* The spans between repayments add up to what each period's outstanding   *)
(* principal earned, for repayments since the loan's start, in whatever    *)
(* order they were entered and however the loan's date was edited.         *)
THEOREM InterestOnDecliningBalance == RegistersSpec => []DecliningBalance
<1> DEFINE inv == OnFigures => LoanKept
<1>1. RegistersInit => inv
  <2>1. Figures!Init => LoanKept
    <3> SUFFICES ASSUME Figures!Init PROVE LoanKept
      OBVIOUS
    <3>1. /\ loan \in [principal : Figures!Amount, start : Figures!Date, closed : {None},
                      repaid : {<<>>}, interest : {0}]
          /\ asOf = 1
      BY DEF Figures!Init
    <3>2. loan.principal \in Nat /\ loan.start \in Nat /\ loan.repaid = <<>>
      BY <3>1, RepaymentsWhole
    <3>3. DOMAIN loan = LoanFigureFields
      BY <3>1 DEF LoanFigureFields
    <3>4. QED
      BY <3>1, <3>2, <3>3 DEF LoanKept
  <2>2. QED
    BY <2>1, FiguresSide
<1>2. inv /\ [RegistersNext]_registervars => inv'
  BY FiguresSide, LoanKeptInductive
<1>3. inv => DecliningBalance
  BY InterestDeclines DEF DecliningBalance, Figures!DecliningBalance, OnFigures
<1> HIDE DEF inv
<1>4. QED
  BY <1>1, <1>2, <1>3, PTL DEF RegistersSpec
=============================================================================
