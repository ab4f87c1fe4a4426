---------------------------- MODULE LedgerProofs ----------------------------
(***************************************************************************)
(* What Ledger promises for all statements, typed trades and bounds: its   *)
(* types (no lot is ever sold below zero), no lot above what it acquired,  *)
(* no disposal of a lot that is not on the book, and no unit sold twice,   *)
(* so that any disposal can be undone.                                     *)
(*                                                                         *)
(* The invariant relates the stored ledger to the projection in memory:    *)
(* the projection never loses a stored lot, its disposals name its own     *)
(* lots, and between the two transactions the stored lots are the          *)
(* projected ones.  That is what makes a crash between them safe for the   *)
(* theorems below, though it loses disposals (see torn).                   *)
(*                                                                         *)
(* Reimporting: a row of a file on record is settled, which is that the    *)
(* ledger has its key, or that applying it would find its own lot at least *)
(* as large as it says and with what it states, or its own disposal.  Lots *)
(* only grow and disposals only come while files stay on record, so what   *)
(* is settled stays so, and a row settled that is not recognised changes   *)
(* nothing.  That needs Provenance (a place in a source is one row's) and  *)
(* HoldingsAgree: a holdings export that states less left of a tranche     *)
(* than an earlier one did would be put back by reimporting the earlier.   *)
(*                                                                         *)
(* Trades: account statements report one trade with one key, which the     *)
(* ledger keeps from the first that was imported, so that the next is      *)
(* recognised; a typed trade is told again by its token.                   *)
(*                                                                         *)
(* A stock plan: every disposal took what its row sold out of the tranche  *)
(* the row names, and no lot is larger than a full statement of it says.   *)
(* So what is not on record yet still fits, no sale falls back on the      *)
(* oldest lots, and once all sales are in, what was not sold is what the   *)
(* holdings export states.  A torn import breaks the first of these.       *)
(*                                                                         *)
(* Fills: the token of a typed purchase counts the lots of its key, and    *)
(* lots keep their keys, so a fill on the book was counted by the next.    *)
(***************************************************************************)
EXTENDS Ledger, SumTheorems, TLAPS

\* No lot of the book holds more than it acquired.
Within(book) == \A l \in LotId : book[l] # None => book[l].remaining <= book[l].qty

\* The disposals in x take units from lots of the book only.
Names(x, book) ==
  \A e \in ExitId : x[e] # None => \A l \in LotId : x[e].alloc[l] > 0 => book[l] # None

\* Every lot of the first book is in the second.
Keeps(book, later) == \A l \in LotId : book[l] # None => later[l] # None

LedgerInv ==
  /\ TypeOK
  /\ Within(lots) /\ Within(job.lots)
  /\ Names(exits, lots)
  /\ Names(job.sales, job.lots)
  /\ Projecting => Keeps(lots, job.lots)
  /\ job.phase = "exits" => lots = job.lots
---------------------------------------------------------------------------
\* Every row, of a file or typed, is what the parsers let through.
LEMMA RowTypes ==
  ASSUME NEW r \in Row
  PROVE  /\ r.date \in Nat /\ r.price \in Nat /\ r.qty \in Nat \ {0}
         /\ r.padded \in BOOLEAN /\ r.partial \in BOOLEAN
         /\ r.stated \in Nat \cup {None}
         /\ r.tranche \in LotId \cup {None}
         /\ r.order \in {s.order : s \in Row} /\ r.trade \in {s.trade : s \in Row}
<1>1. CASE r \in FileRows
  BY <1>1, RowsWellFormed
<1>2. CASE r \in TypedRows
  <2>1. PICK t \in Typed, n \in 0..MaxFills : r = TokenRow(t, n)
    BY <1>2 DEF TypedRows
  <2>2. QED
    BY <2>1, RowsWellFormed DEF TokenRow
<1>3. QED
  BY <1>1, <1>2 DEF Row

LEMMA NoLotIsNone == None \notin Lot /\ None \notin Exit /\ None \notin DOMAIN Files /\ None \notin Nat
BY LedgerConstants

\* The lot a row opens.
LEMMA LotOfType ==
  ASSUME NEW r \in Row
  PROVE  LotOf(r) \in Lot /\ LotOf(r).remaining = LotOf(r).qty
BY RowTypes DEF LotOf, Lot

LEMMA MergedType ==
  ASSUME NEW r \in Row, NEW held \in Lot, held.remaining <= held.qty
  PROVE  Merged(r, held) \in Lot /\ Merged(r, held).remaining <= Merged(r, held).qty
<1> DEFINE size == IF r.partial THEN held.qty ELSE Larger(held.qty, r.qty)
<1> DEFINE grown == [LotOf(r) EXCEPT !.qty = size,
                                     !.remaining = held.remaining + (size - held.qty),
                                     !.stated = None]
<1>1. held.qty \in Nat /\ held.remaining \in Nat /\ size \in Nat /\ size >= held.qty
  BY RowTypes DEF Lot, Larger
<1>2. grown \in Lot /\ grown.remaining <= grown.qty
  <2>1. held.remaining + (size - held.qty) \in Nat
    BY <1>1
  <2>2. held.remaining + (size - held.qty) <= size
    BY <1>1
  <2> HIDE DEF size
  <2>3. QED
    BY <1>1, <2>1, <2>2, LotOfType DEF Lot
<1>3. PICK lot \in Lot : /\ lot.remaining <= lot.qty
                         /\ lot = IF size > held.qty THEN grown ELSE held
  BY <1>2
<1>4. Merged(r, held) = IF r.stated = None THEN lot ELSE [lot EXCEPT !.stated = r.stated]
  BY <1>3 DEF Merged
<1>5. QED
  BY <1>3, <1>4, RowTypes DEF Lot

LEMMA Enlarged ==
  ASSUME NEW held \in Lot, held.remaining <= held.qty, NEW n \in Nat
  PROVE  LET lot == [held EXCEPT !.qty = @ + n, !.remaining = @ + n]
         IN lot \in Lot /\ lot.remaining <= lot.qty
<1>1. held.qty + n \in Nat /\ held.remaining + n \in Nat /\ held.remaining + n <= held.qty + n
  BY DEF Lot
<1>2. [held EXCEPT !.qty = held.qty + n, !.remaining = held.remaining + n] \in Lot
  BY <1>1 DEF Lot
<1>3. QED
  BY <1>1, <1>2 DEF Lot

\* Enlarging a tranche keeps the book a book, with the same lots.
LEMMA GrownBook ==
  ASSUME NEW book \in Book, Within(book), NEW r \in Row
  PROVE  /\ Grown(book, r) \in Book /\ Within(Grown(book, r))
         /\ \A l \in LotId : Grown(book, r)[l] # None <=> book[l] # None
<1>1. CASE Shortfall(book, r) = 0
  BY <1>1 DEF Grown
<1>2. CASE Shortfall(book, r) # 0
  <2> DEFINE t == r.tranche
  <2>1. t \in LotId /\ book[t] # None
    BY <1>2, RowTypes DEF Shortfall
  <2>2. book[t] \in Lot /\ book[t].remaining <= book[t].qty
    BY <2>1 DEF Book, Within
  <2> DEFINE n == Shortfall(book, r)
             lot == [book[t] EXCEPT !.qty = @ + n, !.remaining = @ + n]
  <2>3. n \in Nat
    BY <2>1, <2>2, RowTypes DEF Shortfall, Lot
  <2> HIDE DEF n
  <2>4. lot \in Lot /\ lot.remaining <= lot.qty
    BY <2>2, <2>3, Enlarged
  <2>5. Grown(book, r) = [book EXCEPT ![t] = lot]
    BY <1>2, <2>1 DEF Grown, n, Book
  <2> HIDE DEF lot, t
  <2>6. QED
    BY <2>1, <2>4, <2>5, NoLotIsNone DEF Book, Within
<1>3. QED
  BY <1>1, <1>2

\* An allocation takes from lots of the book no more than they hold.
LEMMA AllocationFits ==
  ASSUME NEW book \in Book, NEW r \in Row, NEW a \in Allocations(book, r)
  PROVE  /\ DOMAIN a \subseteq LotId
         /\ \A l \in DOMAIN a : book[l] # None /\ a[l] \in Nat /\ a[l] <= book[l].remaining
<1>1. CASE Covers(book, r)
  <2>1. a = [l \in {r.tranche} |-> r.qty]
    BY <1>1 DEF Allocations
  <2>2. QED
    BY <1>1, <2>1, RowTypes DEF Covers
<1>2. CASE ~Covers(book, r)
  <2>1. a \in FifoAllocations(book, r.qty)
    BY <1>2 DEF Allocations
  <2>2. PICK S \in SUBSET Open(book) : a \in [S -> 1..r.qty]
    BY <2>1 DEF FifoAllocations, Takes
  <2>3. \A l \in DOMAIN a : a[l] <= book[l].remaining
    BY <2>1 DEF FifoAllocations
  <2>4. QED
    BY <2>2, <2>3, RowTypes DEF Open, Held
<1>3. QED
  BY <1>1, <1>2

LEMMA DepletedBook ==
  ASSUME NEW book \in Book, Within(book), NEW r \in Row, NEW a \in Allocations(book, r)
  PROVE  /\ Depleted(book, a) \in Book /\ Within(Depleted(book, a))
         /\ \A l \in LotId : Depleted(book, a)[l] # None <=> book[l] # None
<1> DEFINE new == Depleted(book, a)
<1>1. ASSUME NEW l \in LotId
      PROVE  /\ new[l] \in Lot \cup {None}
             /\ new[l] # None <=> book[l] # None
             /\ new[l] # None => new[l].remaining <= new[l].qty
  <2>1. CASE l \in DOMAIN a
    <3>1. book[l] \in Lot /\ a[l] \in Nat /\ a[l] <= book[l].remaining
      BY <2>1, AllocationFits DEF Book
    <3>2. book[l].remaining <= book[l].qty
      BY <3>1, NoLotIsNone DEF Within
    <3>3. new[l] = [book[l] EXCEPT !.remaining = @ - a[l]]
      BY <2>1 DEF Depleted
    <3>4. new[l] \in Lot /\ new[l].remaining <= new[l].qty
      BY <3>1, <3>2, <3>3 DEF Lot
    <3>5. QED
      BY <3>1, <3>4, NoLotIsNone
  <2>2. CASE l \notin DOMAIN a
    BY <2>2 DEF Depleted, Book, Within
  <2>3. QED
    BY <2>1, <2>2
<1>2. new = [l \in LotId |-> new[l]]
  BY DEF Depleted
<1> HIDE DEF new
<1>3. QED
  BY <1>1, <1>2 DEF Book, Within, new

LEMMA ExitOfType ==
  ASSUME NEW book \in Book, NEW r \in Row, NEW a \in Allocations(book, r),
         NEW first \in LotId, IsOldest(book, a, first)
  PROVE  /\ ExitOf(r, book, a, first) \in Exit
         /\ \A l \in LotId : ExitOf(r, book, a, first).alloc[l] > 0 => book[l] # None
<1>1. book[first] \in Lot
  BY AllocationFits DEF IsOldest, Book
<1>2. book[first].date \in Nat /\ book[first].price \in Nat
  BY <1>1 DEF Lot
<1>3. [l \in LotId |-> IF l \in DOMAIN a THEN a[l] ELSE 0] \in [LotId -> Nat]
  BY AllocationFits
<1>4. Covers(book, r) \in BOOLEAN
  BY DEF Covers
<1>5. ExitOf(r, book, a, first) \in Exit
  BY <1>2, <1>3, <1>4, RowTypes DEF ExitOf, Exit
<1>6. \A l \in LotId : ExitOf(r, book, a, first).alloc[l] > 0 => book[l] # None
  BY AllocationFits DEF ExitOf
<1>7. QED
  BY <1>5, <1>6
---------------------------------------------------------------------------
LEMMA RestingType ==
  /\ Resting \in [phase : {"idle", "project", "exits"}, file : DOMAIN Files \cup {None},
                  fresh : SUBSET Row, lots : Book, sales : [ExitId -> Exit \cup {None}],
                  whole : SUBSET LotId, rejected : SUBSET Row]
  /\ Within(Resting.lots) /\ Names(Resting.sales, Resting.lots)
BY DEF Resting, NoSales, Book, Within, Names

LEMMA InitEstablishes == Init => LedgerInv
<1> SUFFICES ASSUME Init PROVE LedgerInv
  OBVIOUS
<1>1. TypeOK
  <2>1. lots \in Book /\ exits \in [ExitId -> Exit \cup {None}]
    BY DEF Init, Book, NoSales
  <2>2. crashes \in 0..MaxCrashes
    BY LedgerConstants DEF Init
  <2>3. QED
    BY <2>1, <2>2, RestingType DEF Init, TypeOK
<1>2. Within(lots) /\ Names(exits, lots)
  BY DEF Init, Within, Names, NoSales
<1>3. QED
  BY <1>1, <1>2, RestingType DEF LedgerInv, Init, Projecting, Resting

(* A step that ends the job: only the stored ledger is left to look at.    *)
LEMMA Rests ==
  ASSUME TypeOK', job' = Resting, Within(lots)', Names(exits, lots)'
  PROVE  LedgerInv'
BY RestingType DEF LedgerInv, Projecting, Resting

LEMMA BeginPreserves ==
  ASSUME LedgerInv, NEW file \in DOMAIN Files \cup {None}, NEW rows \in SUBSET Row,
         Begin(file, rows), UNCHANGED <<lots, exits, imported, torn, crashes>>
  PROVE  LedgerInv'
<1> DEFINE whole == {l \in Held(lots) : lots[l].stated # None}
<1>1. job' = [Resting EXCEPT !.phase = "project", !.file = file, !.fresh = rows, !.lots = lots,
                             !.whole = whole]
  BY DEF Begin
<1>2. whole \in SUBSET LotId
  BY DEF Held
<1> HIDE DEF whole
<1>3. TypeOK'
  BY <1>1, <1>2, RestingType DEF LedgerInv, TypeOK
<1>4. job'.lots = lots /\ job'.sales = NoSales /\ job'.phase = "project"
  BY <1>1 DEF Resting
<1>5. Names(NoSales, lots) /\ Keeps(lots, lots)
  BY DEF Names, Keeps, NoSales
<1>6. QED
  BY <1>3, <1>4, <1>5 DEF LedgerInv, Within, Names, Keeps, Projecting

(* A step of the projection: the stored ledger is left alone.              *)
LEMMA ProjectPreserves ==
  ASSUME LedgerInv, Projecting, Unchanged, TypeOK', Projecting',
         Within(job'.lots), Names(job'.sales, job'.lots), Keeps(job.lots, job'.lots)
  PROVE  LedgerInv'
<1>1. Keeps(lots, job'.lots)
  BY DEF LedgerInv, Keeps
<1>2. Within(lots') /\ Names(exits', lots')
  BY DEF LedgerInv, Unchanged, Within, Names
<1>3. lots' = lots
  BY DEF Unchanged
<1>4. QED
  BY <1>1, <1>2, <1>3 DEF LedgerInv, Within, Names, Keeps, Projecting

(* Lot l of the projection becomes the given one.                          *)
LEMMA SetLot ==
  ASSUME LedgerInv, Projecting, Unchanged, NEW l \in LotId, NEW lot \in Lot,
         lot.remaining <= lot.qty, NEW rows \in SUBSET Row, NEW whole \in SUBSET LotId,
         job' = [job EXCEPT !.fresh = rows, !.whole = whole, !.lots[l] = lot]
  PROVE  LedgerInv'
<1> USE DEF LedgerInv
<1>1. TypeOK' /\ job'.phase = "project" /\ job'.sales = job.sales
  BY DEF TypeOK, Book, Unchanged, Projecting
<1>2. job'.lots = [job.lots EXCEPT ![l] = lot] /\ job.lots \in Book
  BY DEF TypeOK
<1>3. Within(job'.lots) /\ Keeps(job.lots, job'.lots)
  BY <1>2, NoLotIsNone DEF Within, Keeps, Book
<1>4. Names(job'.sales, job'.lots)
  BY <1>1, <1>3 DEF Names, Keeps
<1>5. QED
  BY <1>1, <1>3, <1>4, ProjectPreserves DEF Projecting

LEMMA OpenLotPreserves == ASSUME LedgerInv, NEW r \in Row, OpenLot(r) PROVE LedgerInv'
<1>1. LotIdOf(r) \in LotId
  BY DEF OpenLot, Turn, LotId
<1>2. job.fresh \ {r} \in SUBSET Row /\ WholeAfter(r) \in SUBSET LotId
  BY <1>1 DEF LedgerInv, TypeOK, WholeAfter
<1>3. LotOf(r) \in Lot /\ LotOf(r).remaining <= LotOf(r).qty
  <2>1. LotOf(r) \in Lot /\ LotOf(r).remaining = LotOf(r).qty
    BY LotOfType
  <2>2. QED
    BY <2>1 DEF Lot
<1>4. QED
  BY <1>1, <1>2, <1>3, SetLot DEF OpenLot, Turn, SetLotOf

LEMMA MergeLotPreserves == ASSUME LedgerInv, NEW r \in Row, MergeLot(r) PROVE LedgerInv'
<1> DEFINE held == job.lots[LotIdOf(r)]
<1>1. LotIdOf(r) \in LotId
  BY DEF MergeLot, Turn, LotId
<1>2. job.fresh \ {r} \in SUBSET Row /\ WholeAfter(r) \in SUBSET LotId
  BY <1>1 DEF LedgerInv, TypeOK, WholeAfter
<1>3. held \in Lot /\ held.remaining <= held.qty
  BY <1>1 DEF LedgerInv, TypeOK, MergeLot, Within, Book
<1>4. Merged(r, held) \in Lot /\ Merged(r, held).remaining <= Merged(r, held).qty
  BY <1>3, MergedType
<1>5. QED
  BY <1>1, <1>2, <1>4, SetLot DEF MergeLot, Turn, SetLotOf

LEMMA SellPreserves == ASSUME LedgerInv, NEW r \in Row, Sell(r) PROVE LedgerInv'
<1> DEFINE book == Grown(job.lots, r)
<1>1. PICK a \in Allocations(book, r), first \in LotId :
        /\ IsOldest(book, a, first)
        /\ job' = [job EXCEPT !.fresh = @ \ {r}, !.lots = Depleted(book, a),
                              !.sales[ExitIdOf(r)] = ExitOf(r, book, a, first)]
  BY DEF Sell
<1>2. Projecting /\ Unchanged /\ ExitIdOf(r) \in ExitId
  BY DEF Sell, Turn, ExitId
<1>3. job.lots \in Book /\ Within(job.lots)
  BY DEF LedgerInv, TypeOK
<1>4. /\ book \in Book /\ Within(book)
      /\ \A l \in LotId : book[l] # None <=> job.lots[l] # None
  BY <1>3, GrownBook
<1> HIDE DEF book
<1>5. /\ Depleted(book, a) \in Book /\ Within(Depleted(book, a))
      /\ \A l \in LotId : Depleted(book, a)[l] # None <=> book[l] # None
  BY <1>4, DepletedBook
<1>6. /\ ExitOf(r, book, a, first) \in Exit
      /\ \A l \in LotId : ExitOf(r, book, a, first).alloc[l] > 0 => book[l] # None
  BY <1>1, <1>4, ExitOfType
<1>7. TypeOK'
  BY <1>1, <1>2, <1>5, <1>6 DEF LedgerInv, TypeOK, Unchanged
<1>8. /\ job'.lots = Depleted(book, a) /\ job'.phase = job.phase
      /\ job'.sales = [job.sales EXCEPT ![ExitIdOf(r)] = ExitOf(r, book, a, first)]
      /\ job.sales \in [ExitId -> Exit \cup {None}]
  BY <1>1 DEF LedgerInv, TypeOK
<1>9. Within(job'.lots) /\ Keeps(job.lots, job'.lots)
  BY <1>4, <1>5, <1>8 DEF Keeps
<1>10. Names(job'.sales, job'.lots)
  <2> SUFFICES ASSUME NEW e \in ExitId, job'.sales[e] # None,
                      NEW l \in LotId, job'.sales[e].alloc[l] > 0
               PROVE  job'.lots[l] # None
    BY DEF Names
  <2>1. CASE e = ExitIdOf(r)
    BY <2>1, <1>2, <1>5, <1>6, <1>8
  <2>2. CASE e # ExitIdOf(r)
    BY <2>2, <1>8, <1>9 DEF LedgerInv, Names, Keeps
  <2>3. QED
    BY <2>1, <2>2
<1>11. QED
  BY <1>2, <1>7, <1>8, <1>9, <1>10, ProjectPreserves DEF Projecting

(* A row that is skipped or reported changes neither lots nor disposals.   *)
LEMMA NoSalePreserves ==
  ASSUME LedgerInv, NEW r \in Row, SkipSeen(r) \/ RejectSale(r)
  PROVE  LedgerInv'
<1>1. Projecting /\ Unchanged
  BY DEF SkipSeen, RejectSale, Turn
<1>2. \/ job' = [job EXCEPT !.fresh = @ \ {r}]
      \/ job' = [job EXCEPT !.fresh = @ \ {r}, !.rejected = @ \cup {r}]
  BY DEF SkipSeen, RejectSale
<1>3. TypeOK' /\ job'.phase = job.phase /\ job'.lots = job.lots /\ job'.sales = job.sales
  <2>1. CASE job' = [job EXCEPT !.fresh = @ \ {r}]
    BY <1>1, <2>1 DEF LedgerInv, TypeOK, Unchanged
  <2>2. CASE job' = [job EXCEPT !.fresh = @ \ {r}, !.rejected = @ \cup {r}]
    BY <1>1, <2>2 DEF LedgerInv, TypeOK, Unchanged
  <2>3. QED
    BY <1>2, <2>1, <2>2
<1>4. Keeps(job.lots, job'.lots)
  BY <1>3 DEF Keeps
<1>5. QED
  BY <1>1, <1>3, <1>4, ProjectPreserves DEF LedgerInv, Projecting
---------------------------------------------------------------------------
LEMMA SaveLotsPreserves == ASSUME LedgerInv, SaveLots PROVE LedgerInv'
<1> USE DEF LedgerInv, SaveLots
<1>1. /\ Projecting /\ lots' = job.lots /\ exits' = exits
      /\ job'.phase = "exits" /\ job'.lots = job.lots /\ job'.sales = job.sales
  BY DEF Projected, TypeOK
<1>2. TypeOK'
  BY DEF TypeOK
<1>3. Names(exits, job.lots)
  BY <1>1 DEF Names, Keeps
<1>4. QED
  BY <1>1, <1>2, <1>3 DEF Within, Names, Projecting

LEMMA SaveExitsPreserves == ASSUME LedgerInv, SaveExits PROVE LedgerInv'
<1>1. /\ lots' = lots /\ job' = Resting /\ lots = job.lots
      /\ exits' = [e \in ExitId |-> IF exits[e] = None THEN job.sales[e] ELSE exits[e]]
  BY DEF SaveExits, LedgerInv
<1>2. TypeOK'
  <2>1. exits' \in [ExitId -> Exit \cup {None}]
    BY <1>1 DEF LedgerInv, TypeOK
  <2>2. imported' \subseteq DOMAIN Files
    BY DEF LedgerInv, TypeOK, SaveExits
  <2>3. QED
    BY <1>1, <2>1, <2>2, RestingType DEF LedgerInv, TypeOK, SaveExits
<1>3. Names(exits', lots)
  BY <1>1 DEF LedgerInv, Names
<1>4. QED
  BY <1>1, <1>2, <1>3, Rests DEF LedgerInv, Within, Names

LEMMA CrashPreserves == ASSUME LedgerInv, Crash PROVE LedgerInv'
<1>1. TypeOK'
  BY RestingType, LedgerConstants DEF LedgerInv, TypeOK, Crash
<1>2. QED
  BY <1>1, Rests DEF LedgerInv, Crash, Within, Names

LEMMA DeleteHoldingPreserves == ASSUME LedgerInv, DeleteHolding PROVE LedgerInv'
<1> USE DEF LedgerInv, DeleteHolding
<1>1. /\ lots' = [l \in LotId |-> None] /\ exits' = NoSales
      /\ job' = job /\ job.phase = "idle"
  BY DEF Idle, ExitsCascade
<1>2. TypeOK'
  BY <1>1 DEF TypeOK, Book, NoSales
<1>3. Within(lots)' /\ Names(exits, lots)'
  BY <1>1 DEF Within, Names, NoSales
<1>4. QED
  BY <1>1, <1>2, <1>3 DEF Projecting, Within, Names

LEMMA DeleteExitPreserves ==
  ASSUME LedgerInv, NEW e \in ExitId, DeleteExit(e)
  PROVE  LedgerInv'
<1> DEFINE x == exits[e]
<1>1. /\ x \in Exit /\ Restorable(x) /\ lots \in Book
      /\ job' = job /\ job.phase = "idle"
      /\ lots' = PutBack(x) /\ exits' = [exits EXCEPT ![e] = None]
  BY DEF DeleteExit, LedgerInv, TypeOK, Idle
<1> HIDE DEF x
<1>2. ASSUME NEW l \in LotId
      PROVE  /\ PutBack(x)[l] \in Lot \cup {None}
             /\ PutBack(x)[l] # None <=> lots[l] # None
             /\ PutBack(x)[l] # None => PutBack(x)[l].remaining <= PutBack(x)[l].qty
  <2>1. x.alloc[l] \in Nat
    BY <1>1 DEF Exit
  <2>2. CASE x.alloc[l] > 0
    <3>1. lots[l] \in Lot /\ lots[l].remaining + x.alloc[l] <= lots[l].qty
      BY <1>1, <2>2 DEF Restorable, Book
    <3>2. PutBack(x)[l] = [lots[l] EXCEPT !.remaining = @ + x.alloc[l]]
      BY <2>2 DEF PutBack
    <3>3. PutBack(x)[l] \in Lot /\ PutBack(x)[l].remaining <= PutBack(x)[l].qty
      BY <2>1, <3>1, <3>2 DEF Lot
    <3>4. QED
      BY <3>1, <3>3, NoLotIsNone
  <2>3. CASE ~(x.alloc[l] > 0)
    BY <1>1, <2>3 DEF PutBack, LedgerInv, Within, Book
  <2>4. QED
    BY <2>2, <2>3
<1>3. PutBack(x) \in Book
  <2>1. PutBack(x) = [l \in LotId |-> PutBack(x)[l]]
    BY DEF PutBack
  <2>2. QED
    BY <1>2, <2>1 DEF Book
<1>4. TypeOK'
  BY <1>1, <1>3 DEF LedgerInv, TypeOK, DeleteExit
<1>5. Within(lots)' /\ Names(exits, lots)'
  BY <1>1, <1>2 DEF LedgerInv, TypeOK, Within, Names
<1>6. QED
  BY <1>1, <1>4, <1>5 DEF LedgerInv, Projecting, Within, Names
---------------------------------------------------------------------------
LEMMA Inductive == LedgerInv /\ [Next]_vars => LedgerInv'
<1> SUFFICES ASSUME LedgerInv, [Next]_vars PROVE LedgerInv'
  OBVIOUS
<1>1. CASE \E f \in DOMAIN Files : StartImport(f)
  <2>1. PICK f \in DOMAIN Files : StartImport(f)
    BY <1>1
  <2>2. Fresh(Files[f]) \in SUBSET Row
    BY DEF Fresh, Row, FileRows
  <2>3. QED
    BY <2>1, <2>2, BeginPreserves DEF StartImport
<1>2. CASE \E t \in Typed, confirmed \in BOOLEAN : StartTrade(t, confirmed)
  <2>1. PICK t \in Typed, confirmed \in BOOLEAN : StartTrade(t, confirmed)
    BY <1>2
  <2>2. {TypedRow(t)} \in SUBSET Row
    BY <2>1 DEF StartTrade, Row
  <2>3. QED
    BY <2>1, <2>2, BeginPreserves DEF StartTrade
<1>3. CASE \E r \in job.fresh : Project(r)
  <2>1. PICK r \in Row : Project(r)
    BY <1>3 DEF LedgerInv, TypeOK
  <2>2. QED
    BY <2>1, OpenLotPreserves, MergeLotPreserves, SellPreserves, NoSalePreserves DEF Project
<1>4. CASE SaveLots \/ SaveExits \/ Crash
  BY <1>4, SaveLotsPreserves, SaveExitsPreserves, CrashPreserves
<1>5. CASE (\E e \in ExitId : DeleteExit(e)) \/ DeleteHolding
  BY <1>5, DeleteExitPreserves, DeleteHoldingPreserves
<1>6. CASE UNCHANGED vars
  BY <1>6 DEF vars, LedgerInv, TypeOK, Within, Names, Keeps, Projecting
<1>7. QED
  BY <1>1, <1>2, <1>3, <1>4, <1>5, <1>6 DEF Next

THEOREM LedgerInvariant == Spec => []LedgerInv
BY InitEstablishes, Inductive, PTL DEF Spec

(* Every lot and disposal keeps its type: in particular no lot is ever     *)
(* sold below zero, by the projection or on disk.                          *)
THEOREM LedgerTypes == Spec => []TypeOK
<1>1. LedgerInv => TypeOK
  BY DEF LedgerInv
<1>2. QED
  BY <1>1, LedgerInvariant, PTL

(* No lot holds more than it acquired, for any statements and any order of *)
(* importing, selling and undoing.                                         *)
THEOREM LotsNeverOverfull == Spec => []WithinLots
<1>1. LedgerInv => WithinLots
  BY DEF LedgerInv, Within, WithinLots, Held
<1>2. QED
  BY <1>1, LedgerInvariant, PTL

(* A stored disposal names stored lots, also after a crash.                *)
THEOREM DisposalsHaveLots == Spec => []DisposalsNameLots
<1>1. LedgerInv => DisposalsNameLots
  BY DEF LedgerInv, Names, DisposalsNameLots, Recorded
<1>2. QED
  BY <1>1, LedgerInvariant, PTL
---------------------------------------------------------------------------
(***************************************************************************)
(* No unit is sold twice.  What a lot has given up is what the disposals   *)
(* took from it: while a projection runs this holds of the lots in memory  *)
(* and of the stored disposals together with the new ones, and the stored  *)
(* halves keep it of each other until the lots are written.                *)
(***************************************************************************)
Taken(x, l) == SumFunction([e \in Recorded(x) |-> x[e].alloc[l]])
Used(lot) == lot.qty - lot.remaining
Disposals == [ExitId -> Exit \cup {None}]

\* The stored disposals with the new ones, as SaveExits would leave them.
Together(x, new) == [e \in ExitId |-> IF x[e] = None THEN new[e] ELSE x[e]]

Covered(book, x) == \A l \in LotId : book[l] # None => Taken(x, l) <= Used(book[l])
Exact(book, x) == \A l \in LotId : book[l] # None => Taken(x, l) = Used(book[l])

SalesInv ==
  /\ job.phase = "idle" => job = Resting
  /\ IsFiniteSet(Recorded(exits)) /\ IsFiniteSet(Recorded(job.sales))
  /\ \A e \in ExitId : exits[e] # None => job.sales[e] = None
  /\ Covered(lots, exits)
  /\ Covered(job.lots, Together(exits, job.sales))
  /\ ~torn => /\ job.phase # "exits" => Exact(lots, exits)
              /\ Exact(job.lots, Together(exits, job.sales))
---------------------------------------------------------------------------
LEMMA TakenIsSum ==
  ASSUME NEW x, NEW l
  PROVE  Taken(x, l) = SumFunctionOnSet([e \in Recorded(x) |-> x[e].alloc[l]], Recorded(x))
BY DEF Taken, SumFunction

LEMMA AllocIsNat ==
  ASSUME NEW x \in Disposals, NEW e \in Recorded(x), NEW l \in LotId
  PROVE  x[e].alloc[l] \in Nat
BY DEF Disposals, Recorded, Exit

LEMMA TakenIsNat ==
  ASSUME NEW x \in Disposals, IsFiniteSet(Recorded(x)), NEW l \in LotId
  PROVE  Taken(x, l) \in Nat
<1> DEFINE f == [e \in Recorded(x) |-> x[e].alloc[l]]
<1>1. \A e \in Recorded(x) : f[e] \in Nat
  BY AllocIsNat
<1>2. Taken(x, l) = SumFunctionOnSet(f, Recorded(x))
  BY TakenIsSum
<1> HIDE DEF f
<1>3. QED
  BY <1>1, <1>2, SumNat

LEMMA NothingTaken ==
  ASSUME NEW x \in Disposals, IsFiniteSet(Recorded(x)), NEW l \in LotId,
         \A e \in Recorded(x) : x[e].alloc[l] = 0
  PROVE  Taken(x, l) = 0
<1> DEFINE f == [e \in Recorded(x) |-> x[e].alloc[l]]
<1>1. \A e \in Recorded(x) : f[e] = 0
  OBVIOUS
<1>2. Taken(x, l) = SumFunctionOnSet(f, Recorded(x))
  BY TakenIsSum
<1> HIDE DEF f
<1>3. QED
  BY <1>1, <1>2, SumZero

\* A disposal more, or one less.
LEMMA OneDisposal ==
  ASSUME NEW x \in Disposals, NEW y \in Disposals, NEW e \in ExitId, x[e] = None, y[e] # None,
         \A i \in ExitId \ {e} : y[i] = x[i],
         IsFiniteSet(Recorded(x)) \/ IsFiniteSet(Recorded(y))
  PROVE  /\ Recorded(y) = Recorded(x) \cup {e}
         /\ IsFiniteSet(Recorded(x)) /\ IsFiniteSet(Recorded(y))
         /\ \A l \in LotId : Taken(y, l) = Taken(x, l) + y[e].alloc[l]
<1>1. y[e] \in Exit
  BY DEF Disposals
<1>2. Recorded(y) = Recorded(x) \cup {e} /\ e \notin Recorded(x)
  BY DEF Recorded
<1>3. IsFiniteSet(Recorded(x)) /\ IsFiniteSet(Recorded(y))
  <2>1. IsFiniteSet(Recorded(x)) => IsFiniteSet(Recorded(y))
    BY <1>2, FS_AddElement
  <2>2. IsFiniteSet(Recorded(y)) => IsFiniteSet(Recorded(x))
    BY <1>2, FS_Subset
  <2>3. QED
    BY <2>1, <2>2
<1>4. ASSUME NEW l \in LotId PROVE Taken(y, l) = Taken(x, l) + y[e].alloc[l]
  <2> DEFINE f == [i \in Recorded(x) |-> x[i].alloc[l]]
             g == [i \in Recorded(y) |-> y[i].alloc[l]]
  <2>1. \A i \in Recorded(x) : f[i] = g[i] /\ f[i] \in Nat
    <3>1. ASSUME NEW i \in Recorded(x) PROVE f[i] = g[i] /\ f[i] \in Nat
      <4>1. i # e /\ i \in Recorded(y) /\ i \in ExitId
        BY <1>2 DEF Recorded
      <4>2. y[i] = x[i]
        BY <4>1
      <4>3. QED
        BY <4>1, <4>2, AllocIsNat
    <3>2. QED
      BY <3>1
  <2>2. e \in Recorded(y) /\ g[e] = y[e].alloc[l] /\ y[e].alloc[l] \in Nat
    BY <1>1, <1>2 DEF Exit
  <2>3. Taken(x, l) = SumFunctionOnSet(f, Recorded(x)) /\ Taken(y, l) = SumFunctionOnSet(g, Recorded(y))
    BY TakenIsSum
  <2> HIDE DEF f, g
  <2>4. \A i \in Recorded(x) \cup {e} : g[i] \in Int
    BY <2>1, <2>2
  <2>5. SumFunctionOnSet(g, Recorded(x) \cup {e}) = g[e] + SumFunctionOnSet(g, Recorded(x))
    BY <1>2, <1>3, <2>4, SumAdd
  <2>6. SumFunctionOnSet(f, Recorded(x)) = SumFunctionOnSet(g, Recorded(x))
    BY <1>3, <2>1, SumSame
  <2>7. SumFunctionOnSet(g, Recorded(x) \cup {e}) = SumFunctionOnSet(g, Recorded(y))
    BY <1>2, Zenon
  <2>8. Taken(x, l) \in Nat
    BY <1>3, TakenIsNat
  <2>9. QED
    BY <2>2, <2>3, <2>5, <2>6, <2>7, <2>8
<1>5. QED
  BY <1>2, <1>3, <1>4

\* The new disposals only add to what the stored ones took.
LEMMA TogetherTakes ==
  ASSUME NEW x \in Disposals, NEW new \in Disposals, IsFiniteSet(Recorded(x)), IsFiniteSet(Recorded(new)),
         \A e \in ExitId : x[e] # None => new[e] = None
  PROVE  /\ Together(x, new) \in Disposals
         /\ Recorded(Together(x, new)) = Recorded(x) \cup Recorded(new)
         /\ IsFiniteSet(Recorded(Together(x, new)))
         /\ \A l \in LotId : Taken(x, l) <= Taken(Together(x, new), l)
<1> DEFINE y == Together(x, new)
<1>1. /\ y \in Disposals
      /\ Recorded(y) = Recorded(x) \cup Recorded(new) /\ Recorded(x) \cap Recorded(new) = {}
      /\ \A e \in Recorded(x) : y[e] = x[e]
  BY DEF Disposals, Together, Recorded
<1>2. IsFiniteSet(Recorded(y))
  BY <1>1, FS_Union
<1>3. ASSUME NEW l \in LotId PROVE Taken(x, l) <= Taken(y, l)
  <2> DEFINE f == [i \in Recorded(x) |-> x[i].alloc[l]]
             g == [i \in Recorded(y) |-> y[i].alloc[l]]
  <2>1. \A i \in Recorded(x) : f[i] = g[i]
    BY <1>1
  <2>2. \A i \in Recorded(y) : g[i] \in Nat
    BY <1>1, AllocIsNat
  <2>3. Taken(x, l) = SumFunctionOnSet(f, Recorded(x)) /\ Taken(y, l) = SumFunctionOnSet(g, Recorded(y))
    BY TakenIsSum
  <2> HIDE DEF f, g, y
  <2>4. \A i \in Recorded(x) \cup Recorded(new) : g[i] \in Nat
    BY <1>1, <2>2
  <2>5. SumFunctionOnSet(g, Recorded(x) \cup Recorded(new))
          = SumFunctionOnSet(g, Recorded(x)) + SumFunctionOnSet(g, Recorded(new))
    BY <1>1, <2>4, SumUnion
  <2>6. SumFunctionOnSet(f, Recorded(x)) = SumFunctionOnSet(g, Recorded(x))
    BY <2>1, SumSame
  <2>7. SumFunctionOnSet(g, Recorded(x) \cup Recorded(new)) = SumFunctionOnSet(g, Recorded(y))
    BY <1>1, Zenon
  <2>8. SumFunctionOnSet(g, Recorded(x)) \in Nat /\ SumFunctionOnSet(g, Recorded(new)) \in Nat
    BY <2>4, SumNat
  <2>9. QED
    BY <2>3, <2>5, <2>6, <2>7, <2>8
<1>4. QED
  BY <1>1, <1>2, <1>3
---------------------------------------------------------------------------
\* What a step of the projection does to the units a lot has given up.
LEMMA UsedMerged ==
  ASSUME NEW r \in Row, NEW held \in Lot
  PROVE  Used(Merged(r, held)) = Used(held)
<1> DEFINE size == IF r.partial THEN held.qty ELSE Larger(held.qty, r.qty)
           grown == [LotOf(r) EXCEPT !.qty = size,
                                     !.remaining = held.remaining + (size - held.qty),
                                     !.stated = None]
           lot == IF size > held.qty THEN grown ELSE held
<1>1. held.qty \in Nat /\ held.remaining \in Nat /\ size \in Nat
  BY RowTypes DEF Lot, Larger
<1> HIDE DEF size
<1>2. grown.qty = size /\ grown.remaining = held.remaining + (size - held.qty)
  BY DEF LotOf
<1> HIDE DEF grown
<1>3. Used(lot) = Used(held)
  BY <1>1, <1>2 DEF Used
<1>4. Merged(r, held) = IF r.stated = None THEN lot ELSE [lot EXCEPT !.stated = r.stated]
  BY DEF Merged, grown, size
<1> HIDE DEF lot
<1>5. Used([lot EXCEPT !.stated = r.stated]) = Used(lot)
  BY DEF Used
<1>6. QED
  BY <1>3, <1>4, <1>5

LEMMA UsedGrown ==
  ASSUME NEW book \in Book, NEW r \in Row, NEW l \in LotId, book[l] # None, Within(book)
  PROVE  Used(Grown(book, r)[l]) = Used(book[l])
<1> DEFINE n == Shortfall(book, r)
<1>1. CASE n = 0 \/ l # r.tranche
  BY <1>1 DEF Grown, Book
<1>2. CASE n # 0 /\ l = r.tranche
  <2>1. book[l] \in Lot
    BY DEF Book
  <2>2. n \in Nat
    BY <1>2, <2>1, RowTypes DEF Shortfall, Lot
  <2>3. Grown(book, r)[l] = [book[l] EXCEPT !.qty = @ + n, !.remaining = @ + n]
    BY <1>2 DEF Grown, Book
  <2> HIDE DEF n
  <2>4. QED
    BY <2>1, <2>2, <2>3 DEF Used, Lot
<1>3. QED
  BY <1>1, <1>2

LEMMA UsedDepleted ==
  ASSUME NEW book \in Book, NEW r \in Row, NEW a \in Allocations(book, r),
         NEW l \in LotId, book[l] # None
  PROVE  Used(Depleted(book, a)[l]) = Used(book[l]) + (IF l \in DOMAIN a THEN a[l] ELSE 0)
<1>1. book[l] \in Lot
  BY DEF Book
<1>2. CASE l \in DOMAIN a
  <2>1. a[l] \in Nat /\ Depleted(book, a)[l] = [book[l] EXCEPT !.remaining = @ - a[l]]
    BY <1>2, AllocationFits DEF Depleted
  <2>2. QED
    BY <1>1, <1>2, <2>1 DEF Used, Lot
<1>3. CASE l \notin DOMAIN a
  BY <1>1, <1>3 DEF Depleted, Used, Lot
<1>4. QED
  BY <1>2, <1>3

\* From book b and disposals x to c and y, a lot gives up what the disposals
\* take more of it; a new lot has given up nothing.
Moves(b, x, c, y) ==
  \A l \in LotId :
    c[l] # None =>
      \/ b[l] # None /\ Used(c[l]) - Used(b[l]) = Taken(y, l) - Taken(x, l)
      \/ b[l] = None /\ Used(c[l]) = 0 /\ Taken(y, l) = 0

LEMMA MovesKeep ==
  ASSUME NEW b \in Book, NEW c \in Book, NEW x \in Disposals, NEW y \in Disposals,
         IsFiniteSet(Recorded(x)), IsFiniteSet(Recorded(y)), Moves(b, x, c, y)
  PROVE  (Covered(b, x) => Covered(c, y)) /\ (Exact(b, x) => Exact(c, y))
<1>1. \A l \in LotId : Taken(x, l) \in Nat /\ Taken(y, l) \in Nat
  BY TakenIsNat
<1>2. \A l \in LotId : (b[l] # None => Used(b[l]) \in Int) /\ (c[l] # None => Used(c[l]) \in Int)
  BY DEF Book, Used, Lot
<1>3. ASSUME Covered(b, x) PROVE Covered(c, y)
  <2> SUFFICES ASSUME NEW l \in LotId, c[l] # None PROVE Taken(y, l) <= Used(c[l])
    BY DEF Covered
  <2>1. QED
    BY <1>1, <1>2, <1>3 DEF Moves, Covered
<1>4. ASSUME Exact(b, x) PROVE Exact(c, y)
  <2> SUFFICES ASSUME NEW l \in LotId, c[l] # None PROVE Taken(y, l) = Used(c[l])
    BY DEF Exact
  <2>1. QED
    BY <1>1, <1>2, <1>4 DEF Moves, Exact
<1>5. QED
  BY <1>3, <1>4
---------------------------------------------------------------------------
LEMMA SalesTypes ==
  ASSUME LedgerInv
  PROVE  /\ lots \in Book /\ job.lots \in Book
         /\ exits \in Disposals /\ job.sales \in Disposals
BY DEF LedgerInv, TypeOK, Disposals

(* A projecting step: the new disposals stay new, and what lots give up    *)
(* and disposals take stay in step.                                        *)
LEMMA ProjectKeepsSales ==
  ASSUME LedgerInv, SalesInv, Projecting, Unchanged, Projecting',
         job'.lots \in Book, job'.sales \in Disposals, IsFiniteSet(Recorded(job'.sales)),
         \A e \in ExitId : exits[e] # None => job'.sales[e] = None,
         Moves(job.lots, Together(exits, job.sales), job'.lots, Together(exits, job'.sales))
  PROVE  SalesInv'
<1>1. lots' = lots /\ exits' = exits /\ torn' = torn
  BY DEF Unchanged
<1>2. /\ Together(exits, job.sales) \in Disposals /\ IsFiniteSet(Recorded(Together(exits, job.sales)))
      /\ Together(exits, job'.sales) \in Disposals /\ IsFiniteSet(Recorded(Together(exits, job'.sales)))
  BY SalesTypes, TogetherTakes DEF SalesInv
<1>3. /\ Covered(job.lots, Together(exits, job.sales)) => Covered(job'.lots, Together(exits, job'.sales))
      /\ Exact(job.lots, Together(exits, job.sales)) => Exact(job'.lots, Together(exits, job'.sales))
  BY <1>2, SalesTypes, MovesKeep
<1>4. Covered(lots, exits)' /\ (Exact(lots, exits) => Exact(lots, exits)')
  BY <1>1 DEF SalesInv, Covered, Exact, Taken, Recorded
<1>5. Covered(job.lots, Together(exits, job.sales))'
  BY <1>1, <1>3 DEF SalesInv
<1>6. Exact(job.lots, Together(exits, job.sales)) => Exact(job.lots, Together(exits, job.sales))'
  BY <1>1, <1>3
<1>7. IsFiniteSet(Recorded(exits))' /\ IsFiniteSet(Recorded(job.sales))'
  BY <1>1 DEF SalesInv
<1>8. QED
  BY <1>1, <1>4, <1>5, <1>6, <1>7 DEF SalesInv, Projecting

\* No new disposal: only one lot changes.
LEMMA SetLotKeepsSales ==
  ASSUME LedgerInv, SalesInv, LedgerInv', Projecting, Unchanged, NEW l \in LotId, NEW lot \in Lot,
         NEW rows, NEW whole,
         job' = [job EXCEPT !.fresh = rows, !.whole = whole, !.lots[l] = lot],
         IF job.lots[l] = None THEN Used(lot) = 0 ELSE Used(lot) = Used(job.lots[l])
  PROVE  SalesInv'
<1> DEFINE x == Together(exits, job.sales)
<1>1. /\ job'.phase = "project" /\ job'.sales = job.sales /\ job'.lots = [job.lots EXCEPT ![l] = lot]
      /\ job'.lots \in Book
  BY DEF LedgerInv, TypeOK, Projecting, Book
<1>2. x \in Disposals /\ IsFiniteSet(Recorded(x)) /\ Recorded(x) = Recorded(exits) \cup Recorded(job.sales)
  BY SalesTypes, TogetherTakes DEF SalesInv
<1>3. \A m \in LotId : job.lots[m] # None => Used(job.lots[m]) \in Int
  BY SalesTypes DEF Book, Used, Lot
<1>4. \A m \in LotId : Taken(x, m) \in Nat
  BY <1>2, TakenIsNat
<1>5. ASSUME job.lots[l] = None PROVE Taken(x, l) = 0
  <2>1. Names(exits, job.lots) /\ Names(job.sales, job.lots)
    BY DEF LedgerInv, Names, Keeps
  <2>2. \A e \in Recorded(x) : x[e].alloc[l] \in Nat /\ ~(x[e].alloc[l] > 0)
    BY <1>2, <1>5, <2>1, AllocIsNat DEF Names, Together, Recorded
  <2>3. \A e \in Recorded(x) : x[e].alloc[l] = 0
    BY <2>2
  <2> HIDE DEF x
  <2>4. QED
    BY <1>2, <2>3, NothingTaken
<1>6. Moves(job.lots, x, job'.lots, x)
  <2> SUFFICES ASSUME NEW m \in LotId, job'.lots[m] # None
               PROVE  \/ job.lots[m] # None /\ Used(job'.lots[m]) - Used(job.lots[m]) = Taken(x, m) - Taken(x, m)
                      \/ job.lots[m] = None /\ Used(job'.lots[m]) = 0 /\ Taken(x, m) = 0
    BY DEF Moves
  <2> HIDE DEF x
  <2>1. CASE m = l
    BY <1>1, <1>3, <1>4, <1>5, <2>1, SalesTypes DEF Book
  <2>2. CASE m # l
    BY <1>1, <1>3, <1>4, <2>2, SalesTypes DEF Book
  <2>3. QED
    BY <2>1, <2>2
<1>7. Moves(job.lots, Together(exits, job.sales), job'.lots, Together(exits, job'.sales))
  BY <1>1, <1>6
<1>8. QED
  BY <1>1, <1>7, SalesTypes, ProjectKeepsSales DEF SalesInv, Projecting

LEMMA OpenLotKeepsSales ==
  ASSUME LedgerInv, SalesInv, LedgerInv', NEW r \in Row, OpenLot(r)
  PROVE  SalesInv'
<1>1. LotIdOf(r) \in LotId
  BY DEF OpenLot, Turn, LotId
<1>2. LotOf(r) \in Lot /\ Used(LotOf(r)) = 0
  BY LotOfType DEF Used, Lot
<1>3. QED
  BY <1>1, <1>2, SetLotKeepsSales DEF OpenLot, Turn, SetLotOf

LEMMA MergeLotKeepsSales ==
  ASSUME LedgerInv, SalesInv, LedgerInv', NEW r \in Row, MergeLot(r)
  PROVE  SalesInv'
<1> DEFINE held == job.lots[LotIdOf(r)]
<1>1. LotIdOf(r) \in LotId
  BY DEF MergeLot, Turn, LotId
<1>2. held \in Lot /\ held.remaining <= held.qty /\ held # None
  BY <1>1 DEF LedgerInv, TypeOK, MergeLot, Within, Book
<1>3. Merged(r, held) \in Lot /\ Used(Merged(r, held)) = Used(held)
  BY <1>2, MergedType, UsedMerged
<1>4. job' = [job EXCEPT !.fresh = @ \ {r}, !.whole = WholeAfter(r), !.lots[LotIdOf(r)] = Merged(r, held)]
      /\ Projecting /\ Unchanged
  BY DEF MergeLot, Turn, SetLotOf
<1>5. QED
  BY <1>1, <1>2, <1>3, <1>4, SetLotKeepsSales

LEMMA SellKeepsSales ==
  ASSUME LedgerInv, SalesInv, LedgerInv', NEW r \in Row, Sell(r)
  PROVE  SalesInv'
<1> DEFINE book == Grown(job.lots, r)
           e == ExitIdOf(r)
           x == Together(exits, job.sales)
           y == Together(exits, job'.sales)
<1>1. PICK a \in Allocations(book, r), first \in LotId :
        /\ IsOldest(book, a, first)
        /\ job' = [job EXCEPT !.fresh = @ \ {r}, !.lots = Depleted(book, a),
                              !.sales[e] = ExitOf(r, book, a, first)]
  BY DEF Sell
<1> DEFINE d == ExitOf(r, book, a, first)
<1>2. Projecting /\ Unchanged /\ e \in ExitId /\ ~Seen(r)
  BY DEF Sell, Turn, ExitId
<1>3. /\ book \in Book /\ Within(book)
      /\ \A l \in LotId : book[l] # None <=> job.lots[l] # None
  BY GrownBook DEF LedgerInv, TypeOK
<1>4. \A l \in LotId : job.lots[l] # None => Used(book[l]) = Used(job.lots[l])
  BY UsedGrown, SalesTypes DEF LedgerInv
<1>5. \A l \in LotId : d.alloc[l] = IF l \in DOMAIN a THEN a[l] ELSE 0
  BY DEF ExitOf
<1> HIDE DEF book
<1>6. d \in Exit /\ d # None
  BY <1>1, <1>3, ExitOfType, NoLotIsNone
<1>7. \A l \in LotId : Depleted(book, a)[l] # None <=> book[l] # None
  BY <1>3, DepletedBook
<1>8. \A l \in LotId : book[l] # None => Used(Depleted(book, a)[l]) = Used(book[l]) + d.alloc[l]
  BY <1>3, <1>5, UsedDepleted
<1> HIDE DEF d
<1>9. /\ job'.phase = "project" /\ job'.lots = Depleted(book, a) /\ job'.sales = [job.sales EXCEPT ![e] = d]
      /\ job'.lots \in Book /\ job'.sales \in Disposals
  <2>1. job'.sales = [job.sales EXCEPT ![e] = d]
    BY <1>1 DEF LedgerInv, TypeOK, d
  <2>2. job'.lots \in Book /\ job'.sales \in Disposals
    BY DEF LedgerInv, TypeOK, Disposals
  <2>3. QED
    BY <1>1, <1>2, <2>1, <2>2 DEF LedgerInv, TypeOK, Projecting
<1>10. job.sales[e] = None /\ exits[e] = None
  BY <1>2 DEF Seen
<1> HIDE DEF e
<1>11. IsFiniteSet(Recorded(job'.sales)) /\ \A i \in ExitId : exits[i] # None => job'.sales[i] = None
  <2>1. job'.sales[e] = d /\ \A i \in ExitId \ {e} : job'.sales[i] = job.sales[i]
    BY <1>2, <1>9, SalesTypes DEF Disposals
  <2>2. IsFiniteSet(Recorded(job'.sales))
    BY <1>2, <1>6, <1>9, <1>10, <2>1, SalesTypes, OneDisposal DEF SalesInv
  <2>3. QED
    BY <1>10, <2>1, <2>2 DEF SalesInv
<1>12. x \in Disposals /\ IsFiniteSet(Recorded(x)) /\ y \in Disposals
  BY <1>9, <1>11, SalesTypes, TogetherTakes DEF SalesInv
<1>13. x[e] = None /\ y[e] = d /\ \A i \in ExitId \ {e} : y[i] = x[i]
  BY <1>2, <1>9, <1>10, SalesTypes DEF Together, Disposals
<1>14. \A l \in LotId : Taken(y, l) = Taken(x, l) + d.alloc[l]
  <2> HIDE DEF x, y
  <2>1. QED
    BY <1>2, <1>6, <1>12, <1>13, OneDisposal
<1>15. \A l \in LotId : Taken(x, l) \in Nat /\ d.alloc[l] \in Nat
  BY <1>6, <1>12, TakenIsNat DEF Exit
<1> HIDE DEF x, y
<1>16. Moves(job.lots, x, job'.lots, y)
  <2> SUFFICES ASSUME NEW l \in LotId, job'.lots[l] # None
               PROVE  job.lots[l] # None /\ Used(job'.lots[l]) - Used(job.lots[l]) = Taken(y, l) - Taken(x, l)
    BY DEF Moves
  <2>1. book[l] # None /\ job.lots[l] # None
    BY <1>3, <1>7, <1>9
  <2>2. Used(job.lots[l]) \in Int
    BY <2>1, SalesTypes DEF Book, Used, Lot
  <2>3. Used(job'.lots[l]) = Used(job.lots[l]) + d.alloc[l]
    BY <1>4, <1>8, <1>9, <2>1
  <2>4. QED
    BY <1>14, <1>15, <2>1, <2>2, <2>3
<1>17. QED
  BY <1>2, <1>9, <1>11, <1>16, ProjectKeepsSales DEF Projecting, x, y

LEMMA NoSaleKeepsSales ==
  ASSUME LedgerInv, SalesInv, NEW r \in Row, SkipSeen(r) \/ RejectSale(r)
  PROVE  SalesInv'
<1>1. Projecting /\ Unchanged
  BY DEF SkipSeen, RejectSale, Turn
<1>2. job'.phase = job.phase /\ job'.lots = job.lots /\ job'.sales = job.sales
  BY DEF SkipSeen, RejectSale, LedgerInv, TypeOK
<1>3. lots' = lots /\ exits' = exits /\ torn' = torn
  BY <1>1 DEF Unchanged
<1>4. QED
  BY <1>1, <1>2, <1>3 DEF SalesInv, Projecting, Covered, Exact, Taken, Recorded, Together
---------------------------------------------------------------------------
LEMMA RestingSales ==
  /\ IsFiniteSet(Recorded(Resting.sales))
  /\ \A e \in ExitId : Resting.sales[e] = None
  /\ \A x : Covered(Resting.lots, x) /\ Exact(Resting.lots, x)
  /\ Resting.phase = "idle"
<1>1. Recorded(Resting.sales) = {}
  BY DEF Recorded, Resting, NoSales
<1>2. QED
  BY <1>1, FS_EmptySet DEF Covered, Exact, Resting, NoSales

LEMMA NoneTakes ==
  ASSUME NEW x \in Disposals, NEW y \in Disposals, \A e \in ExitId : y[e] = None
  PROVE  Together(x, y) = x
BY DEF Together, Disposals

LEMMA SalesInitially == Init => SalesInv
<1> SUFFICES ASSUME Init PROVE SalesInv
  OBVIOUS
<1>1. job = Resting /\ exits = NoSales /\ \A l \in LotId : lots[l] = None
  BY DEF Init
<1>2. Recorded(exits) = {}
  BY <1>1 DEF Recorded, NoSales
<1>3. QED
  BY <1>1, <1>2, RestingSales, FS_EmptySet DEF SalesInv, Covered, Exact, NoSales

LEMMA BeginKeepsSales ==
  ASSUME LedgerInv, SalesInv, Idle, NEW file, NEW rows, Begin(file, rows),
         UNCHANGED <<lots, exits, imported, torn, crashes>>
  PROVE  SalesInv'
<1>1. job'.phase = "project" /\ job'.lots = lots /\ job'.sales = NoSales
  BY DEF Begin, Resting
<1>2. Recorded(NoSales) = {} /\ NoSales \in Disposals /\ \A e \in ExitId : NoSales[e] = None
  BY DEF Recorded, NoSales, Disposals
<1>3. Together(exits, NoSales) = exits
  BY <1>2, SalesTypes, NoneTakes
<1>4. job.phase # "exits"
  BY DEF Idle
<1>5. lots' = lots /\ exits' = exits /\ torn' = torn
  OBVIOUS
<1>6. IsFiniteSet(Recorded(job'.sales)) /\ Together(exits', job'.sales) = exits
  BY <1>1, <1>2, <1>3, <1>5, FS_EmptySet
<1>7. Covered(lots', exits') /\ Covered(job'.lots, exits)
  BY <1>1, <1>5 DEF SalesInv
<1>8. ~torn => Exact(lots', exits') /\ Exact(job'.lots, exits)
  BY <1>1, <1>4, <1>5 DEF SalesInv
<1>9. QED
  BY <1>1, <1>2, <1>5, <1>6, <1>7, <1>8 DEF SalesInv

LEMMA SaveLotsKeepsSales ==
  ASSUME LedgerInv, SalesInv, SaveLots
  PROVE  SalesInv'
<1>1. /\ lots' = job.lots /\ exits' = exits /\ torn' = torn
      /\ job'.phase = "exits" /\ job'.lots = job.lots /\ job'.sales = job.sales
  BY DEF SaveLots, LedgerInv, TypeOK
<1> DEFINE x == Together(exits, job.sales)
<1>2. x \in Disposals /\ IsFiniteSet(Recorded(x)) /\ \A l \in LotId : Taken(exits, l) <= Taken(x, l)
  BY SalesTypes, TogetherTakes DEF SalesInv
<1>3. \A l \in LotId : Taken(exits, l) \in Nat /\ Taken(x, l) \in Nat
  BY <1>2, SalesTypes, TakenIsNat DEF SalesInv
<1>4. \A l \in LotId : job.lots[l] # None => Used(job.lots[l]) \in Int
  BY SalesTypes DEF Book, Used, Lot
<1>5. Covered(job.lots, x)
  BY DEF SalesInv
<1> HIDE DEF x
<1>6. Covered(job.lots, exits)
  BY <1>2, <1>3, <1>4, <1>5 DEF Covered
<1>7. Together(exits', job'.sales) = x
  BY <1>1 DEF x
<1>8. ~torn => Exact(job.lots, x)
  BY DEF SalesInv, x
<1>9. IsFiniteSet(Recorded(exits')) /\ IsFiniteSet(Recorded(job'.sales))
      /\ \A e \in ExitId : exits'[e] # None => job'.sales[e] = None
  BY <1>1 DEF SalesInv
<1>10. QED
  BY <1>1, <1>5, <1>6, <1>7, <1>8, <1>9 DEF SalesInv

LEMMA SaveExitsKeepsSales ==
  ASSUME LedgerInv, SalesInv, SaveExits
  PROVE  SalesInv'
<1> DEFINE x == Together(exits, job.sales)
<1>1. /\ lots' = lots /\ exits' = x /\ torn' = torn /\ job' = Resting
      /\ lots = job.lots /\ job.phase = "exits"
  BY DEF SaveExits, LedgerInv, Together
<1>2. x \in Disposals /\ IsFiniteSet(Recorded(x))
  BY SalesTypes, TogetherTakes DEF SalesInv
<1>3. Covered(lots, x) /\ (~torn => Exact(lots, x))
  BY <1>1 DEF SalesInv
<1> HIDE DEF x
<1>4. Covered(lots', exits') /\ (~torn' => Exact(lots', exits')) /\ IsFiniteSet(Recorded(exits'))
  BY <1>1, <1>2, <1>3
<1>5. QED
  BY <1>1, <1>4, RestingSales DEF SalesInv

LEMMA CrashKeepsSales ==
  ASSUME LedgerInv, SalesInv, Crash
  PROVE  SalesInv'
<1>1. /\ lots' = lots /\ exits' = exits /\ job' = Resting
      /\ torn' = (torn \/ (job.phase = "exits" /\ Recorded(job.sales) # {}))
  BY DEF Crash
<1>2. ASSUME ~torn' PROVE Exact(lots, exits)
  <2>1. CASE job.phase = "exits"
    <3>1. lots = job.lots /\ \A e \in ExitId : job.sales[e] = None
      BY <1>1, <1>2, <2>1 DEF LedgerInv, Recorded
    <3>2. Together(exits, job.sales) = exits
      BY <3>1, SalesTypes, NoneTakes
    <3>3. Exact(job.lots, Together(exits, job.sales))
      BY <1>1, <1>2 DEF SalesInv
    <3>4. QED
      BY <3>1, <3>2, <3>3
  <2>2. CASE job.phase # "exits"
    BY <1>1, <1>2, <2>2 DEF SalesInv
  <2>3. QED
    BY <2>1, <2>2
<1>3. Covered(lots', exits') /\ (~torn' => Exact(lots', exits')) /\ IsFiniteSet(Recorded(exits'))
  BY <1>1, <1>2 DEF SalesInv
<1>4. QED
  BY <1>1, <1>3, RestingSales DEF SalesInv

\* Idle, the job holds nothing: only the stored ledger is looked at.
LEMMA StoredSales ==
  ASSUME IsFiniteSet(Recorded(exits')), Covered(lots', exits'), ~torn' => Exact(lots', exits'),
         job' = job, job = Resting
  PROVE  SalesInv'
BY RestingSales DEF SalesInv

LEMMA DeleteExitKeepsSales ==
  ASSUME LedgerInv, SalesInv, NEW e \in ExitId, DeleteExit(e)
  PROVE  SalesInv'
<1> DEFINE x == exits[e]
<1>1. /\ job' = job /\ job = Resting /\ job.phase = "idle" /\ torn' = torn
      /\ lots' = PutBack(x) /\ exits' = [exits EXCEPT ![e] = None]
      /\ x # None /\ Restorable(x) /\ lots \in Book
  BY DEF DeleteExit, Idle, SalesInv, LedgerInv, TypeOK
<1>2. x \in Exit /\ exits' \in Disposals
  BY <1>1, SalesTypes DEF Disposals
<1>3. exits'[e] = None /\ \A i \in ExitId \ {e} : exits[i] = exits'[i]
  BY <1>1, SalesTypes DEF Disposals
<1>4. /\ IsFiniteSet(Recorded(exits'))
      /\ \A l \in LotId : Taken(exits, l) = Taken(exits', l) + x.alloc[l]
  <2> DEFINE old == exits
             new == exits'
  <2>1. /\ old \in Disposals /\ new \in Disposals /\ old[e] # None /\ new[e] = None
        /\ \A i \in ExitId \ {e} : old[i] = new[i]
        /\ IsFiniteSet(Recorded(old))
    BY <1>1, <1>2, <1>3, SalesTypes DEF SalesInv
  <2> HIDE DEF old, new
  <2>2. IsFiniteSet(Recorded(new)) /\ \A l \in LotId : Taken(old, l) = Taken(new, l) + old[e].alloc[l]
    BY <2>1, OneDisposal
  <2>3. QED
    BY <2>2 DEF old, new
<1> HIDE DEF x
<1>5. \A l \in LotId : Taken(exits', l) \in Nat /\ x.alloc[l] \in Nat
  BY <1>2, <1>4, TakenIsNat DEF Exit
<1>6. ASSUME NEW l \in LotId, lots'[l] # None
      PROVE  lots[l] # None /\ Used(lots[l]) \in Int /\ Used(lots'[l]) = Used(lots[l]) - x.alloc[l]
  <2>1. lots[l] \in Lot /\ lots[l] # None
    BY <1>1, <1>6, NoLotIsNone DEF PutBack, Book, Restorable
  <2>2. CASE x.alloc[l] > 0
    BY <1>1, <1>5, <2>1, <2>2 DEF PutBack, Used, Lot
  <2>3. CASE ~(x.alloc[l] > 0)
    BY <1>1, <1>5, <2>1, <2>3 DEF PutBack, Used, Lot
  <2>4. QED
    BY <2>1, <2>2, <2>3 DEF Used, Lot
<1>7. Covered(lots', exits')
  BY <1>4, <1>5, <1>6 DEF SalesInv, Covered
<1>8. ASSUME ~torn' PROVE Exact(lots', exits')
  <2>1. Exact(lots, exits)
    BY <1>1, <1>8 DEF SalesInv
  <2>2. QED
    BY <1>4, <1>5, <1>6, <2>1 DEF Exact
<1>9. QED
  BY <1>1, <1>4, <1>7, <1>8, StoredSales

LEMMA DeleteHoldingKeepsSales ==
  ASSUME LedgerInv, SalesInv, DeleteHolding
  PROVE  SalesInv'
<1>1. job' = job /\ job = Resting /\ exits' = NoSales /\ \A l \in LotId : lots'[l] = None
  BY DEF DeleteHolding, Idle, SalesInv, ExitsCascade
<1>2. Recorded(exits') = {}
  BY <1>1 DEF Recorded, NoSales
<1>3. Covered(lots', exits') /\ Exact(lots', exits')
  BY <1>1 DEF Covered, Exact
<1>4. QED
  BY <1>1, <1>2, <1>3, StoredSales, FS_EmptySet

LEMMA SalesInductive == LedgerInv /\ SalesInv /\ [Next]_vars => SalesInv'
<1> SUFFICES ASSUME LedgerInv, SalesInv, [Next]_vars PROVE SalesInv'
  OBVIOUS
<1>1. LedgerInv'
  BY Inductive
<1>2. CASE \E f \in DOMAIN Files : StartImport(f)
  BY <1>2, BeginKeepsSales DEF StartImport
<1>3. CASE \E t \in Typed, confirmed \in BOOLEAN : StartTrade(t, confirmed)
  BY <1>3, BeginKeepsSales DEF StartTrade
<1>4. CASE \E r \in job.fresh : Project(r)
  <2>1. PICK r \in Row : Project(r)
    BY <1>4 DEF LedgerInv, TypeOK
  <2>2. QED
    BY <1>1, <2>1, OpenLotKeepsSales, MergeLotKeepsSales, SellKeepsSales, NoSaleKeepsSales DEF Project
<1>5. CASE SaveLots \/ SaveExits \/ Crash
  BY <1>5, SaveLotsKeepsSales, SaveExitsKeepsSales, CrashKeepsSales
<1>6. CASE (\E e \in ExitId : DeleteExit(e)) \/ DeleteHolding
  BY <1>6, DeleteExitKeepsSales, DeleteHoldingKeepsSales
<1>7. CASE UNCHANGED vars
  <2>1. lots' = lots /\ exits' = exits /\ job' = job /\ torn' = torn
    BY <1>7 DEF vars
  <2>2. QED
    BY <2>1 DEF SalesInv, Covered, Exact, Taken, Recorded, Together
<1>8. QED
  BY <1>2, <1>3, <1>4, <1>5, <1>6, <1>7 DEF Next

LEMMA SalesInvariant == Spec => []SalesInv
BY LedgerInvariant, SalesInitially, SalesInductive, PTL DEF Spec

(* No unit is sold twice.  For any statements, trades typed and disposals  *)
(* undone, in any order and across crashes, a lot has always given up at   *)
(* least what the stored disposals took from it, and at rest, unless a     *)
(* crash lost disposals, exactly that.                                     *)
THEOREM NoUnitSoldTwice == Spec => []SalesAccounted
<1>1. ASSUME LedgerInv, SalesInv PROVE SalesAccounted
  <2> SUFFICES ASSUME NEW l \in LotId, lots[l] # None
               PROVE  /\ lots[l].remaining + SoldFrom(l) <= lots[l].qty
                      /\ Idle /\ ~torn => lots[l].remaining + SoldFrom(l) = lots[l].qty
    BY DEF SalesAccounted, Held
  <2>1. SoldFrom(l) = Taken(exits, l)
    BY DEF SoldFrom, Taken
  <2>2. lots[l].remaining \in Nat /\ lots[l].qty \in Nat /\ Taken(exits, l) \in Nat
    BY <1>1, SalesTypes, TakenIsNat DEF Book, Lot, SalesInv
  <2>3. Taken(exits, l) <= lots[l].qty - lots[l].remaining
    BY <1>1 DEF SalesInv, Covered, Used
  <2>4. Idle /\ ~torn => Taken(exits, l) = lots[l].qty - lots[l].remaining
    BY <1>1 DEF SalesInv, Exact, Used, Idle
  <2>5. QED
    BY <2>1, <2>2, <2>3, <2>4
<1>2. QED
  BY <1>1, SalesInvariant, LedgerInvariant, PTL

\* A disposal is one of those that took from the lot.
LEMMA OneOfTheTaken ==
  ASSUME NEW x \in Disposals, IsFiniteSet(Recorded(x)), NEW e \in Recorded(x), NEW l \in LotId
  PROVE  x[e].alloc[l] <= Taken(x, l)
<1> DEFINE f == [i \in Recorded(x) |-> x[i].alloc[l]]
<1>1. \A i \in Recorded(x) : f[i] \in Nat
  BY AllocIsNat
<1>2. f[e] = x[e].alloc[l] /\ Taken(x, l) = SumFunctionOnSet(f, Recorded(x))
  BY TakenIsSum
<1> HIDE DEF f
<1>3. SumFunctionOnSet(f, Recorded(x)) = f[e] + SumFunctionOnSet(f, Recorded(x) \ {e})
  BY <1>1, SumRemove
<1>4. SumFunctionOnSet(f, Recorded(x) \ {e}) \in Nat
  BY <1>1, FS_Subset, SumNat
<1>5. f[e] \in Nat
  BY <1>1
<1>6. QED
  BY <1>2, <1>3, <1>4, <1>5

(* restoreAllocations never has a reason to refuse: every disposal on      *)
(* record can be undone, also one of an import a crash cut in two.         *)
EveryExitRestorable == \A e \in Recorded(exits) : Restorable(exits[e])
THEOREM UndoNeverRefused == Spec => []EveryExitRestorable
<1>1. ASSUME LedgerInv, SalesInv PROVE EveryExitRestorable
  <2> SUFFICES ASSUME NEW e \in Recorded(exits), NEW l \in LotId, exits[e].alloc[l] > 0
               PROVE  lots[l] # None /\ lots[l].remaining + exits[e].alloc[l] <= lots[l].qty
    BY DEF EveryExitRestorable, Restorable
  <2>1. lots[l] # None
    BY <1>1 DEF LedgerInv, Names, Recorded
  <2>2. lots[l].remaining \in Nat /\ lots[l].qty \in Nat
    BY <1>1, <2>1, SalesTypes DEF Book, Lot
  <2>3. exits[e].alloc[l] \in Nat /\ Taken(exits, l) \in Nat /\ exits[e].alloc[l] <= Taken(exits, l)
    BY <1>1, SalesTypes, AllocIsNat, TakenIsNat, OneOfTheTaken DEF SalesInv
  <2>4. Taken(exits, l) <= lots[l].qty - lots[l].remaining
    BY <1>1, <2>1 DEF SalesInv, Covered, Used
  <2>5. QED
    BY <2>1, <2>2, <2>3, <2>4
<1>2. QED
  BY <1>1, SalesInvariant, LedgerInvariant, PTL
---------------------------------------------------------------------------
\* A row's place in its source.
PlaceOf(r) == <<r.src, r.row>>

(* What a reimport counts on.  A place is one row's, and no tranche goes   *)
(* by the name of a place.                                                 *)
Provenance ==
  /\ \A r, s \in Row : r.kind = s.kind /\ PlaceOf(r) = PlaceOf(s) => r = s
  /\ \A r, s \in Row : r.tranche # PlaceOf(s)
(* A slice does not state what is left of its tranche, all full statements *)
(* of one state the same, and one that states it is not spelled like a     *)
(* slice.                                                                  *)
HoldingsAgree ==
  \A r, s \in FileRows :
    r.kind = "BUY" /\ s.kind = "BUY" /\ r.tranche = s.tranche /\ r.tranche # None =>
      /\ r.partial => r.stated = None
      /\ ~r.partial /\ ~s.partial => r.stated = s.stated
      /\ r.partial /\ s.stated # None => r.date # s.date \/ r.price # s.price
---------------------------------------------------------------------------
\* The keys of a lot and of a disposal, and of a disposal's slice.
LotKey(lot) == <<"BUY", lot.date, lot.qty, FALSE, lot.price, lot.tranche>>
ExitKey(x) ==
  <<"SELL", x.date, x.qty, x.padded, x.price, IF x.specific THEN TrancheOf(x) ELSE None>>
SliceKey(x) == <<"BUY", x.slice[1], x.qty, x.padded, x.slice[2], TrancheOf(x)>>
Hides(key, r) == key = NaturalKey(r) \/ key = LooseKey(r)

\* A lot was opened by a row, and is at least as large.
OpenedBy(lot, r) ==
  /\ lot.date = r.date /\ lot.price = r.price /\ lot.tranche = r.tranche /\ lot.trade = r.trade
  /\ lot.qty >= r.qty
  /\ r.tranche = None => lot.qty = r.qty
  /\ r.stated # None => lot.stated = r.stated
Opens(l, r) == r.kind = "BUY" /\ LotIdOf(r) = l
FromRows(b) ==
  \A l \in LotId : b[l] # None => \E r \in Row : Opens(l, r) /\ OpenedBy(b[l], r)

\* From lot to later: an untranched lot keeps its key, no lot shrinks, and what
\* a row stated of it stays so.
Outgrows(l, lot, later) ==
  /\ later.tranche = lot.tranche /\ later.qty >= lot.qty
  /\ lot.tranche = None => LotKey(later) = LotKey(lot)
  /\ \A r \in Row : Opens(l, r) /\ r.stated # None /\ lot.stated = r.stated =>
                      later.stated = r.stated
Extends(b, c) ==
  \A l \in LotId : b[l] # None => c[l] # None /\ Outgrows(l, b[l], c[l])

\* Row r is on book b with disposals x: its key is, or it would change nothing.
LotHides(b, r) == \E l \in LotId : b[l] # None /\ b[l].tranche = None /\ Hides(LotKey(b[l]), r)
ExitHides(x, r) ==
  \E e \in ExitId :
    /\ x[e] # None
    /\ Hides(ExitKey(x[e]), r)
         \/ (x[e].specific /\ x[e].order # None /\ Hides(SliceKey(x[e]), r))
Absorbs(lot, r) ==
  /\ lot # None
  /\ r.partial \/ lot.qty >= r.qty
  /\ r.stated # None => lot.stated = r.stated
Settled(r, b, x) ==
  \/ LotHides(b, r) \/ ExitHides(x, r)
  \/ r.kind = "BUY" /\ Absorbs(b[LotIdOf(r)], r)
  \/ r.kind = "SELL" /\ x[ExitIdOf(r)] # None

\* The first row of its key in its file.
Leads(r, f) ==
  r \in Files[f] /\ ~\E s \in Files[f] : s.row < r.row /\ NaturalKey(s) = NaturalKey(r)

ImportInv ==
  /\ FromRows(lots) /\ FromRows(job.lots)
  /\ Projecting => Extends(lots, job.lots)
  /\ job.phase = "exits" => job.fresh = {}
  /\ \A f \in imported : \A r \in Row : Leads(r, f) => Settled(r, lots, exits)
  /\ job.file # None =>
       \A r \in Row : Leads(r, job.file) =>
         r \in job.fresh \cup job.rejected \/ Settled(r, job.lots, Together(exits, job.sales))
  /\ Projecting /\ job.file \in imported =>
       /\ job.lots = lots /\ job.sales = NoSales
       /\ \A r \in job.fresh : /\ Leads(r, job.file)
                               /\ NaturalKey(r) \notin LedgerKeys /\ LooseKey(r) \notin LedgerKeys
---------------------------------------------------------------------------
\* A typed row names no tranche.
LEMMA TranchesFromFiles == ASSUME NEW r \in Row, r.tranche # None PROVE r \in FileRows
<1>1. r \notin TypedRows
  BY DEF TypedRows, TokenRow
<1>2. QED
  BY <1>1 DEF Row

\* Rows that open one lot name one tranche; without one they are one row.
LEMMA SameLot ==
  ASSUME Provenance, NEW l, NEW r \in Row, NEW s \in Row, Opens(l, r), Opens(l, s)
  PROVE  r.tranche = s.tranche /\ (r.tranche = None => r = s)
<1>1. LotIdOf(r) = LotIdOf(s) /\ r.kind = s.kind
  BY DEF Opens
<1>2. CASE r.tranche # None /\ s.tranche # None
  BY <1>1, <1>2 DEF LotIdOf
<1>3. CASE r.tranche # None /\ s.tranche = None
  <2>1. r.tranche = PlaceOf(s)
    BY <1>1, <1>3 DEF LotIdOf, PlaceOf
  <2>2. QED
    BY <2>1 DEF Provenance
<1>4. CASE r.tranche = None /\ s.tranche # None
  <2>1. s.tranche = PlaceOf(r)
    BY <1>1, <1>4 DEF LotIdOf, PlaceOf
  <2>2. QED
    BY <2>1 DEF Provenance
<1>5. CASE r.tranche = None /\ s.tranche = None
  <2>1. PlaceOf(r) = PlaceOf(s)
    BY <1>1, <1>5 DEF LotIdOf, PlaceOf
  <2>2. QED
    BY <1>1, <1>5, <2>1 DEF Provenance
<1>6. QED
  BY <1>2, <1>3, <1>4, <1>5

\* Two rows that state what is left of one lot state the same, and a row that
\* states it is no slice.
LEMMA StatedOnce ==
  ASSUME Provenance, HoldingsAgree, NEW l, NEW r \in Row, NEW s \in Row, Opens(l, r), Opens(l, s),
         r.stated # None
  PROVE  /\ r.tranche # None => ~r.partial
         /\ s.stated # None \/ ~s.partial => r.stated = s.stated
<1>1. r.tranche = s.tranche /\ (r.tranche = None => r = s)
  BY SameLot
<1>2. r.kind = "BUY" /\ s.kind = "BUY"
  BY DEF Opens
<1>3. CASE r.tranche = None
  BY <1>1, <1>3
<1>4. CASE r.tranche # None
  <2>1. r \in FileRows /\ s \in FileRows
    BY <1>1, <1>4, TranchesFromFiles
  <2>2. ~r.partial
    BY <1>2, <1>4, <2>1 DEF HoldingsAgree
  <2>3. s.stated # None => ~s.partial
    BY <1>1, <1>2, <1>4, <2>1 DEF HoldingsAgree
  <2>4. ~s.partial => r.stated = s.stated
    BY <1>1, <1>2, <1>4, <2>1, <2>2 DEF HoldingsAgree
  <2>5. QED
    BY <2>2, <2>3, <2>4
<1>5. QED
  BY <1>3, <1>4
---------------------------------------------------------------------------
(* What merging a row into a lot does to the fields that keys are made of. *)
Sized(r, held) == r.partial \/ held.qty >= r.qty
\* A row no larger than the lot leaves its size; a full statement states what is left.
LEMMA MergedSmaller ==
  ASSUME NEW r \in Row, NEW held \in Lot, Sized(r, held)
  PROVE  LET m == Merged(r, held)
         IN  /\ m.date = held.date /\ m.price = held.price /\ m.qty = held.qty
             /\ m.tranche = held.tranche /\ m.trade = held.trade
             /\ m.stated = IF r.stated = None THEN held.stated ELSE r.stated
<1> DEFINE size == IF r.partial THEN held.qty ELSE Larger(held.qty, r.qty)
<1>1. ~(size > held.qty)
  BY RowTypes DEF Sized, Larger, Lot
<1>2. Merged(r, held) = IF r.stated = None THEN held ELSE [held EXCEPT !.stated = r.stated]
  BY <1>1 DEF Merged
<1>3. QED
  BY <1>2 DEF Lot

\* A larger one enlarges it by the difference.
LEMMA MergedLarger ==
  ASSUME NEW r \in Row, NEW held \in Lot, ~Sized(r, held)
  PROVE  LET m == Merged(r, held)
         IN  /\ m.date = r.date /\ m.price = r.price /\ m.qty = r.qty
             /\ m.tranche = r.tranche /\ m.trade = r.trade /\ m.stated = r.stated
<1> DEFINE size == IF r.partial THEN held.qty ELSE Larger(held.qty, r.qty)
           grown == [LotOf(r) EXCEPT !.qty = size,
                                     !.remaining = held.remaining + (size - held.qty),
                                     !.stated = None]
<1>1. ~r.partial /\ size = r.qty /\ size > held.qty
  BY RowTypes DEF Sized, Larger, Lot
<1>2. Merged(r, held) = IF r.stated = None THEN grown ELSE [grown EXCEPT !.stated = r.stated]
  BY <1>1 DEF Merged
<1>3. /\ grown.date = r.date /\ grown.price = r.price /\ grown.qty = size
      /\ grown.tranche = r.tranche /\ grown.trade = r.trade /\ grown.stated = None
      /\ DOMAIN grown = DOMAIN LotOf(r) /\ "stated" \in DOMAIN LotOf(r)
  BY DEF LotOf
<1> HIDE DEF grown, size
<1>4. QED
  BY <1>1, <1>2, <1>3 DEF LotOf

(* A merged lot was opened by one of its rows, extends what was held and   *)
(* absorbs the row.                                                        *)
LEMMA MergedFollows ==
  ASSUME Provenance, HoldingsAgree, NEW l, NEW r \in Row, NEW s \in Row, NEW held \in Lot,
         held.remaining <= held.qty, Opens(l, r), Opens(l, s), OpenedBy(held, s)
  PROVE  /\ OpenedBy(Merged(r, held), s) \/ OpenedBy(Merged(r, held), r)
         /\ Outgrows(l, held, Merged(r, held))
         /\ Absorbs(Merged(r, held), r)
         /\ r.tranche = None => Merged(r, held).trade = held.trade
<1> DEFINE m == Merged(r, held)
<1>1. r.tranche = s.tranche /\ (r.tranche = None => r = s)
  BY SameLot
<1>2. m \in Lot /\ m # None
  BY MergedType, NoLotIsNone
<1>3. /\ held.date = s.date /\ held.price = s.price /\ held.tranche = s.tranche
      /\ held.trade = s.trade /\ held.qty >= s.qty /\ (s.tranche = None => held.qty = s.qty)
      /\ (s.stated # None => held.stated = s.stated)
  BY DEF OpenedBy
<1>4. held.qty \in Nat /\ r.qty \in Nat /\ s.qty \in Nat
  BY RowTypes DEF Lot
<1>5. ASSUME NEW t \in Row, Opens(l, t), t.stated # None
      PROVE  /\ r.stated # None => r.stated = t.stated
             /\ ~r.partial => r.stated = t.stated
  BY <1>5, StatedOnce
<1>6. CASE Sized(r, held)
  <2>1. /\ m.date = held.date /\ m.price = held.price /\ m.qty = held.qty
        /\ m.tranche = held.tranche /\ m.trade = held.trade
        /\ m.stated = IF r.stated = None THEN held.stated ELSE r.stated
    BY <1>6, MergedSmaller
  <2> HIDE DEF m
  <2>2. s.stated # None => m.stated = s.stated
    BY <1>3, <1>5, <2>1
  <2>3. OpenedBy(m, s)
    BY <1>3, <2>1, <2>2 DEF OpenedBy
  <2>4. \A t \in Row : Opens(l, t) /\ t.stated # None /\ held.stated = t.stated => m.stated = t.stated
    BY <1>5, <2>1
  <2>5. LotKey(m) = LotKey(held)
    BY <2>1 DEF LotKey
  <2>6. Outgrows(l, held, m)
    BY <1>4, <2>1, <2>4, <2>5 DEF Outgrows
  <2>7. Absorbs(m, r)
    BY <1>2, <1>6, <2>1 DEF Absorbs, Sized
  <2>8. QED
    BY <2>1, <2>3, <2>6, <2>7 DEF m
<1>7. CASE ~Sized(r, held)
  <2>1. /\ m.date = r.date /\ m.price = r.price /\ m.qty = r.qty
        /\ m.tranche = r.tranche /\ m.trade = r.trade /\ m.stated = r.stated
    BY <1>7, MergedLarger
  <2>2. ~r.partial /\ held.qty < r.qty
    BY <1>4, <1>7 DEF Sized
  <2>3. r.tranche # None
    BY <1>1, <1>3, <1>4, <2>2
  <2> HIDE DEF m
  <2>4. OpenedBy(m, r)
    BY <1>4, <2>1, <2>3 DEF OpenedBy
  <2>5. \A t \in Row : Opens(l, t) /\ t.stated # None /\ held.stated = t.stated => m.stated = t.stated
    BY <1>5, <2>1, <2>2
  <2>6. Outgrows(l, held, m)
    BY <1>1, <1>3, <1>4, <2>1, <2>2, <2>3, <2>5 DEF Outgrows
  <2>7. Absorbs(m, r)
    BY <1>2, <1>4, <2>1 DEF Absorbs
  <2>8. QED
    BY <2>3, <2>4, <2>6, <2>7 DEF m
<1>8. QED
  BY <1>6, <1>7

\* Two books that differ in what remains of their lots only.
Alike(lot, later) ==
  /\ later.date = lot.date /\ later.price = lot.price /\ later.qty = lot.qty
  /\ later.tranche = lot.tranche /\ later.stated = lot.stated /\ later.trade = lot.trade
SameBut(b, c) == \A l \in LotId : (b[l] = None <=> c[l] = None) /\ (b[l] # None => Alike(b[l], c[l]))

\* A book that differs so was opened by the same rows and extends the other.
LEMMA AlikeFollows ==
  ASSUME NEW b \in Book, NEW c, SameBut(b, c)
  PROVE  Extends(b, c) /\ (FromRows(b) => FromRows(c))
<1>1. ASSUME NEW l \in LotId, b[l] # None PROVE Outgrows(l, b[l], c[l])
  <2>1. Alike(b[l], c[l])
    BY <1>1 DEF SameBut
  <2>2. b[l] \in Lot
    BY <1>1 DEF Book
  <2>3. b[l].qty \in Nat
    BY <2>2 DEF Lot
  <2>4. QED
    BY <2>1, <2>3 DEF Outgrows, Alike, LotKey
<1>2. Extends(b, c)
  BY <1>1 DEF Extends, SameBut
<1>3. ASSUME FromRows(b), NEW l \in LotId, c[l] # None
      PROVE  \E r \in Row : Opens(l, r) /\ OpenedBy(c[l], r)
  <2>1. b[l] # None /\ Alike(b[l], c[l])
    BY <1>3 DEF SameBut
  <2>2. PICK r \in Row : Opens(l, r) /\ OpenedBy(b[l], r)
    BY <1>3, <2>1 DEF FromRows
  <2>3. OpenedBy(c[l], r)
    BY <2>1, <2>2 DEF OpenedBy, Alike
  <2>4. QED
    BY <2>2, <2>3
<1>4. QED
  BY <1>2, <1>3 DEF FromRows

\* Selling changes only what remains.
LEMMA DepletedAlike ==
  ASSUME NEW book \in Book, NEW r \in Row, NEW a \in Allocations(book, r)
  PROVE  SameBut(book, Depleted(book, a))
<1> DEFINE new == Depleted(book, a)
<1>1. ASSUME NEW l \in LotId
      PROVE  (book[l] = None <=> new[l] = None) /\ (book[l] # None => Alike(book[l], new[l]))
  <2>1. CASE l \in DOMAIN a
    <3>1. book[l] # None /\ book[l] \in Lot /\ a[l] \in Nat /\ a[l] <= book[l].remaining
      BY <2>1, AllocationFits DEF Book
    <3>2. new[l] = [book[l] EXCEPT !.remaining = book[l].remaining - a[l]]
      BY <2>1 DEF Depleted
    <3>3. book[l].remaining - a[l] \in Nat
      BY <3>1 DEF Lot
    <3>4. new[l] \in Lot /\ Alike(book[l], new[l])
      BY <3>1, <3>2, <3>3 DEF Lot, Alike
    <3>5. QED
      BY <3>1, <3>4, NoLotIsNone
  <2>2. CASE l \notin DOMAIN a
    BY <2>2 DEF Depleted, Alike
  <2>3. QED
    BY <2>1, <2>2
<1>2. QED
  BY <1>1 DEF SameBut

\* So does undoing a sale.
LEMMA PutBackAlike ==
  ASSUME lots \in Book, NEW x \in Exit, Restorable(x)
  PROVE  SameBut(lots, PutBack(x))
<1> DEFINE new == PutBack(x)
<1>1. ASSUME NEW l \in LotId
      PROVE  (lots[l] = None <=> new[l] = None) /\ (lots[l] # None => Alike(lots[l], new[l]))
  <2>0. x.alloc[l] \in Nat
    BY DEF Exit
  <2>1. CASE x.alloc[l] > 0
    <3>1. lots[l] # None /\ lots[l] \in Lot
      BY <2>1 DEF Restorable, Book
    <3>2. new[l] = [lots[l] EXCEPT !.remaining = lots[l].remaining + x.alloc[l]]
      BY <2>1 DEF PutBack
    <3>3. lots[l].remaining + x.alloc[l] \in Nat
      BY <2>0, <3>1 DEF Lot
    <3>4. new[l] \in Lot /\ Alike(lots[l], new[l])
      BY <3>1, <3>2, <3>3 DEF Lot, Alike
    <3>5. QED
      BY <3>1, <3>4, NoLotIsNone
  <2>2. CASE ~(x.alloc[l] > 0)
    BY <2>2 DEF PutBack, Alike
  <2>3. QED
    BY <2>1, <2>2
<1>2. QED
  BY <1>1 DEF SameBut

\* Only a tranche is enlarged.
LEMMA GrownFollows ==
  ASSUME Provenance, NEW book \in Book, Within(book), FromRows(book), NEW r \in Row
  PROVE  FromRows(Grown(book, r)) /\ Extends(book, Grown(book, r))
<1>1. CASE Shortfall(book, r) = 0
  <2>1. Grown(book, r) = book
    BY <1>1 DEF Grown
  <2>2. SameBut(book, book)
    BY DEF SameBut, Alike
  <2>3. QED
    BY <2>1, <2>2, AlikeFollows
<1>2. CASE Shortfall(book, r) # 0
  <2> DEFINE t == r.tranche
             n == Shortfall(book, r)
             new == Grown(book, r)
  <2>1. t # None /\ t \in LotId /\ book[t] # None
    BY <1>2, RowTypes DEF Shortfall
  <2>2. book[t] \in Lot /\ book[t].remaining <= book[t].qty
    BY <2>1 DEF Book, Within
  <2>3. n \in Nat
    BY <2>1, <2>2, RowTypes DEF Shortfall, Lot
  <2> HIDE DEF n
  <2>4. new = [book EXCEPT ![t] = [book[t] EXCEPT !.qty = book[t].qty + n,
                                                  !.remaining = book[t].remaining + n]]
    BY <1>2, <2>1 DEF Grown, n, Book
  <2>5. /\ \A l \in LotId : l # t => new[l] = book[l]
        /\ new[t] = [book[t] EXCEPT !.qty = book[t].qty + n, !.remaining = book[t].remaining + n]
    BY <2>1, <2>4 DEF Book
  <2> HIDE DEF new
  <2>6. /\ new[t].date = book[t].date /\ new[t].price = book[t].price
        /\ new[t].tranche = book[t].tranche /\ new[t].stated = book[t].stated
        /\ new[t].trade = book[t].trade /\ new[t].qty = book[t].qty + n /\ new[t] # None
    <3>1. new[t] \in Lot
      BY <2>2, <2>3, <2>5, Enlarged
    <3>2. QED
      BY <2>2, <2>5, <3>1, NoLotIsNone DEF Lot
  <2>7. PICK s \in Row : Opens(t, s) /\ OpenedBy(book[t], s)
    BY <2>1 DEF FromRows
  <2>8. s.tranche = t /\ book[t].tranche = t
    <3>1. t # PlaceOf(s)
      BY DEF Provenance
    <3>2. QED
      BY <2>7, <3>1 DEF Opens, LotIdOf, PlaceOf, OpenedBy
  <2>9. book[t].qty \in Nat /\ s.qty \in Nat
    BY <2>2, RowTypes DEF Lot
  <2>10. Outgrows(t, book[t], new[t])
    BY <2>1, <2>3, <2>6, <2>8, <2>9 DEF Outgrows
  <2>11. OpenedBy(new[t], s)
    BY <2>1, <2>3, <2>6, <2>7, <2>8, <2>9 DEF OpenedBy
  <2>12. SameBut(book, book) /\ Extends(book, book)
    BY AlikeFollows DEF SameBut, Alike
  <2> HIDE DEF t
  <2>13. Extends(book, new)
    <3>1. ASSUME NEW l \in LotId, book[l] # None
          PROVE  new[l] # None /\ Outgrows(l, book[l], new[l])
      <4>1. CASE l = t
        BY <2>6, <2>10, <4>1
      <4>2. CASE l # t
        BY <2>5, <2>12, <3>1, <4>2 DEF Extends
      <4>3. QED
        BY <4>1, <4>2
    <3>2. QED
      BY <3>1 DEF Extends
  <2>14. FromRows(new)
    <3>1. ASSUME NEW l \in LotId, new[l] # None
          PROVE  \E q \in Row : Opens(l, q) /\ OpenedBy(new[l], q)
      <4>1. CASE l = t
        BY <2>7, <2>11, <4>1
      <4>2. CASE l # t
        BY <2>5, <3>1, <4>2 DEF FromRows
      <4>3. QED
        BY <4>1, <4>2
    <3>2. QED
      BY <3>1 DEF FromRows
  <2>15. QED
    BY <2>13, <2>14 DEF new
<1>3. QED
  BY <1>1, <1>2

\* A book extends itself.
LEMMA ExtendsItself == ASSUME NEW b \in Book PROVE Extends(b, b)
BY AlikeFollows DEF SameBut, Alike

\* Extending is transitive.
LEMMA ExtendsOn ==
  ASSUME NEW b \in Book, NEW c \in Book, NEW d \in Book, Extends(b, c), Extends(c, d)
  PROVE  Extends(b, d)
<1>1. ASSUME NEW l \in LotId, b[l] # None
      PROVE  d[l] # None /\ Outgrows(l, b[l], d[l])
  <2>1. c[l] # None /\ Outgrows(l, b[l], c[l])
    BY <1>1 DEF Extends
  <2>2. d[l] # None /\ Outgrows(l, c[l], d[l])
    BY <2>1 DEF Extends
  <2>3. b[l].qty \in Nat /\ c[l].qty \in Nat /\ d[l].qty \in Nat
    BY <1>1, <2>1, <2>2 DEF Book, Lot
  <2>4. QED
    BY <2>1, <2>2, <2>3 DEF Outgrows
<1>2. QED
  BY <1>1 DEF Extends

\* One lot replaced.
LEMMA OneLot ==
  ASSUME NEW b \in Book, FromRows(b), NEW l \in LotId, NEW lot \in Lot,
         NEW r \in Row, Opens(l, r), OpenedBy(lot, r), b[l] # None => Outgrows(l, b[l], lot)
  PROVE  FromRows([b EXCEPT ![l] = lot]) /\ Extends(b, [b EXCEPT ![l] = lot])
<1> DEFINE c == [b EXCEPT ![l] = lot]
<1>1. c[l] = lot /\ \A m \in LotId : m # l => c[m] = b[m]
  BY DEF Book
<1>2. lot # None /\ Extends(b, b)
  BY NoLotIsNone, ExtendsItself
<1> HIDE DEF c
<1>3. FromRows(c)
  <2>1. ASSUME NEW m \in LotId, c[m] # None
        PROVE  \E q \in Row : Opens(m, q) /\ OpenedBy(c[m], q)
    <3>1. CASE m = l
      BY <1>1, <3>1
    <3>2. CASE m # l
      BY <1>1, <2>1, <3>2 DEF FromRows
    <3>3. QED
      BY <3>1, <3>2
  <2>2. QED
    BY <2>1 DEF FromRows
<1>4. Extends(b, c)
  <2>1. ASSUME NEW m \in LotId, b[m] # None
        PROVE  c[m] # None /\ Outgrows(m, b[m], c[m])
    <3>1. CASE m = l
      BY <1>1, <1>2, <2>1, <3>1
    <3>2. CASE m # l
      BY <1>1, <1>2, <2>1, <3>2 DEF Extends
    <3>3. QED
      BY <3>1, <3>2
  <2>2. QED
    BY <2>1 DEF Extends
<1>5. QED
  BY <1>3, <1>4 DEF c
---------------------------------------------------------------------------
\* Every disposal of x is in y.
Adds(x, y) == \A e \in ExitId : x[e] # None => y[e] = x[e]

(* What is settled stays so while lots grow and disposals are added.       *)
LEMMA SettledStays ==
  ASSUME NEW r \in Row, NEW b \in Book, NEW c \in Book, NEW x, NEW y,
         Settled(r, b, x), Extends(b, c), Adds(x, y)
  PROVE  Settled(r, c, y)
<1>1. CASE LotHides(b, r)
  <2>1. PICK l \in LotId : b[l] # None /\ b[l].tranche = None /\ Hides(LotKey(b[l]), r)
    BY <1>1 DEF LotHides
  <2>2. c[l] # None /\ c[l].tranche = None /\ LotKey(c[l]) = LotKey(b[l])
    BY <2>1 DEF Extends, Outgrows
  <2>3. QED
    BY <2>1, <2>2 DEF Settled, LotHides, Hides
<1>2. CASE ExitHides(x, r)
  BY <1>2 DEF Settled, ExitHides, Adds
<1>3. CASE r.kind = "BUY" /\ Absorbs(b[LotIdOf(r)], r)
  <2> DEFINE l == LotIdOf(r)
  <2>1. l \in LotId /\ Opens(l, r)
    BY <1>3 DEF LotId, Opens
  <2>2. b[l] # None /\ c[l] # None /\ Outgrows(l, b[l], c[l])
    BY <1>3, <2>1 DEF Absorbs, Extends
  <2>3. b[l].qty \in Nat /\ c[l].qty \in Nat /\ r.qty \in Nat
    BY <2>1, <2>2, RowTypes DEF Book, Lot
  <2> HIDE DEF l
  <2>4. Absorbs(c[l], r)
    BY <1>3, <2>1, <2>2, <2>3 DEF Absorbs, Outgrows, l
  <2>5. QED
    BY <1>3, <2>4 DEF Settled, l
<1>4. CASE r.kind = "SELL" /\ x[ExitIdOf(r)] # None
  <2>1. ExitIdOf(r) \in ExitId
    BY <1>4 DEF ExitId
  <2>2. QED
    BY <1>4, <2>1 DEF Settled, Adds
<1>5. QED
  BY <1>1, <1>2, <1>3, <1>4 DEF Settled

(* A row whose key the ledger has is settled.                              *)
LEMMA KeyedSettled ==
  ASSUME Provenance, HoldingsAgree, TypeOK, FromRows(lots), NEW r \in Row,
         NaturalKey(r) \in LedgerKeys \/ LooseKey(r) \in LedgerKeys
  PROVE  Settled(r, lots, exits)
<1>1. PICK key \in LedgerKeys : Hides(key, r)
  BY DEF Hides
<1>2. ASSUME NEW e \in Recorded(exits), key = KeyOfExit(e) PROVE Settled(r, lots, exits)
  BY <1>1, <1>2 DEF Settled, ExitHides, KeyOfExit, ExitKey, Recorded
<1>3. ASSUME NEW e \in Recorded(exits), exits[e].specific, exits[e].order # None, key = KeyOfSlice(e)
      PROVE  Settled(r, lots, exits)
  BY <1>1, <1>3 DEF Settled, ExitHides, KeyOfSlice, SliceKey, Recorded
<1>4. ASSUME NEW l \in Held(lots), key = KeyOfLot(l) PROVE Settled(r, lots, exits)
  <2>1. l \in LotId /\ lots[l] # None /\ Hides(LotKey(lots[l]), r)
    BY <1>1, <1>4 DEF Held, KeyOfLot, LotKey
  <2>2. CASE lots[l].tranche = None
    BY <2>1, <2>2 DEF Settled, LotHides
  <2>3. CASE lots[l].tranche # None
    <3>1. LotKey(lots[l]) = NaturalKey(r)
      BY <2>1, <2>3 DEF Hides, LotKey, LooseKey
    <3>2. /\ r.kind = "BUY" /\ r.date = lots[l].date /\ r.qty = lots[l].qty
          /\ r.price = lots[l].price /\ r.tranche = lots[l].tranche
      BY <3>1 DEF LotKey, NaturalKey
    <3>3. PICK s \in Row : Opens(l, s) /\ OpenedBy(lots[l], s)
      BY <2>1 DEF FromRows
    <3>4. /\ s.kind = "BUY" /\ s.tranche = r.tranche /\ s.date = r.date /\ s.price = r.price
          /\ l = r.tranche /\ LotIdOf(r) = l
      BY <2>3, <3>2, <3>3 DEF Opens, OpenedBy, LotIdOf
    <3>5. r \in FileRows /\ s \in FileRows
      BY <2>3, <3>2, <3>4, TranchesFromFiles
    <3>6. r.stated # None => lots[l].stated = r.stated
      <4>1. r.stated # None => ~r.partial
        BY <2>3, <3>2, <3>5 DEF HoldingsAgree
      <4>2. r.stated # None => ~s.partial
        BY <2>3, <3>2, <3>4, <3>5, RowTypes DEF HoldingsAgree
      <4>3. ~r.partial /\ ~s.partial => r.stated = s.stated
        BY <2>3, <3>2, <3>4, <3>5 DEF HoldingsAgree
      <4>4. QED
        BY <3>3, <4>1, <4>2, <4>3 DEF OpenedBy
    <3>7. lots[l].qty >= r.qty
      BY <3>2, RowTypes
    <3>8. QED
      BY <2>1, <3>2, <3>4, <3>6, <3>7 DEF Settled, Absorbs
  <2>4. QED
    BY <2>2, <2>3
<1>5. QED
  BY <1>1, <1>2, <1>3, <1>4 DEF LedgerKeys

(* A settled row that is not keyed is one that changes nothing.            *)
LEMMA SettledUnkeyed ==
  ASSUME NEW r \in Row, Settled(r, lots, exits),
         NaturalKey(r) \notin LedgerKeys, LooseKey(r) \notin LedgerKeys
  PROVE  \/ r.kind = "BUY" /\ Absorbs(lots[LotIdOf(r)], r)
         \/ r.kind = "SELL" /\ exits[ExitIdOf(r)] # None
<1>1. \A key \in LedgerKeys : ~Hides(key, r)
  BY DEF Hides
<1>2. ~LotHides(lots, r)
  <2>1. ASSUME NEW l \in LotId, lots[l] # None PROVE ~Hides(LotKey(lots[l]), r)
    <3>1. KeyOfLot(l) \in LedgerKeys /\ KeyOfLot(l) = LotKey(lots[l])
      BY <2>1 DEF LedgerKeys, Held, KeyOfLot, LotKey
    <3>2. QED
      BY <1>1, <3>1
  <2>2. QED
    BY <2>1 DEF LotHides
<1>3. ~ExitHides(exits, r)
  <2>1. ASSUME NEW e \in ExitId, exits[e] # None PROVE ~Hides(ExitKey(exits[e]), r)
    <3>1. KeyOfExit(e) \in LedgerKeys /\ KeyOfExit(e) = ExitKey(exits[e])
      BY <2>1 DEF LedgerKeys, Recorded, KeyOfExit, ExitKey
    <3>2. QED
      BY <1>1, <3>1
  <2>2. ASSUME NEW e \in ExitId, exits[e] # None, exits[e].specific, exits[e].order # None
        PROVE  ~Hides(SliceKey(exits[e]), r)
    <3>1. KeyOfSlice(e) \in LedgerKeys /\ KeyOfSlice(e) = SliceKey(exits[e])
      BY <2>2 DEF LedgerKeys, Recorded, KeyOfSlice, SliceKey
    <3>2. QED
      BY <1>1, <3>1
  <2>3. QED
    BY <2>1, <2>2 DEF ExitHides
<1>4. QED
  BY <1>2, <1>3 DEF Settled

\* The rows of file f are settled, those of the import under way are settled or to come.
OnLedger(f) == \A r \in Row : Leads(r, f) => Settled(r, lots, exits)
Handled ==
  job.file # None =>
    \A r \in Row : Leads(r, job.file) =>
      r \in job.fresh \cup job.rejected \/ Settled(r, job.lots, Together(exits, job.sales))
\* An import of a file on record has nothing new.
Idles ==
  Projecting /\ job.file \in imported =>
    /\ job.lots = lots /\ job.sales = NoSales
    /\ \A r \in job.fresh : /\ Leads(r, job.file)
                            /\ NaturalKey(r) \notin LedgerKeys /\ LooseKey(r) \notin LedgerKeys

\* The invariant, part by part.
LEMMA ImportParts ==
  ImportInv <=>
    /\ FromRows(lots) /\ FromRows(job.lots)
    /\ Projecting => Extends(lots, job.lots)
    /\ job.phase = "exits" => job.fresh = {}
    /\ \A f \in imported : OnLedger(f)
    /\ Handled /\ Idles
BY DEF ImportInv, OnLedger, Handled, Idles

\* An empty book has lots of rows.
LEMMA NoBook == FromRows([l \in LotId |-> None])
BY DEF FromRows

\* The keys of the ledger depend on the stored lots and disposals only.
LEMMA SameKeys ==
  ASSUME UNCHANGED <<lots, exits>>
  PROVE  LedgerKeys' = LedgerKeys
BY DEF LedgerKeys, Held, Recorded, KeyOfLot, KeyOfExit, KeyOfSlice, TrancheOf

\* Nothing is being done.
LEMMA RestKeepsImport ==
  ASSUME job' = Resting, FromRows(lots'), \A f \in imported' : OnLedger(f)'
  PROVE  ImportInv'
<1>1. job'.phase = "idle" /\ job'.file = None /\ FromRows(job'.lots)
  BY NoBook DEF Resting
<1>2. ~Projecting'
  BY <1>1 DEF Projecting
<1>3. QED
  BY <1>1, <1>2 DEF ImportInv, OnLedger

\* At first nothing is imported.
LEMMA ImportInitially == Init => ImportInv
<1> SUFFICES ASSUME Init PROVE ImportInv
  OBVIOUS
<1>1. job.phase = "idle" /\ job.file = None /\ FromRows(job.lots) /\ FromRows(lots) /\ imported = {}
  BY NoBook DEF Init, Resting
<1>2. QED
  BY <1>1 DEF ImportInv, Projecting

\* A job that begins with the rows not recognised.
LEMMA BeginKeepsImport ==
  ASSUME LedgerInv, ImportInv, NEW file, NEW rows, Begin(file, rows),
         UNCHANGED <<lots, exits, imported, torn, crashes>>,
         file # None =>
           /\ \A r \in Row : Leads(r, file) => r \in rows \/ Settled(r, lots, exits)
           /\ \A r \in rows : Leads(r, file) /\ NaturalKey(r) \notin LedgerKeys
                                             /\ LooseKey(r) \notin LedgerKeys,
         file = None => file \notin imported
  PROVE  ImportInv'
<1>1. /\ job'.phase = "project" /\ job'.file = file /\ job'.fresh = rows /\ job'.lots = lots
      /\ job'.sales = NoSales
  BY DEF Begin, Resting
<1>2. lots \in Book /\ FromRows(lots)
  BY DEF LedgerInv, TypeOK, ImportInv
<1>3. Extends(lots, lots)
  BY <1>2, ExtendsItself
<1>4. exits \in [ExitId -> Exit \cup {None}]
  BY DEF LedgerInv, TypeOK
<1>5. Together(exits, NoSales) = exits
  BY <1>4 DEF Together, NoSales
<1>6. Handled'
  BY <1>1, <1>5 DEF Handled, Leads, Together
<1>7. Idles'
  BY <1>1, SameKeys DEF Idles, Leads
<1>8. \A f \in imported' : OnLedger(f)'
  BY ImportParts DEF OnLedger
<1>9. QED
  BY <1>1, <1>2, <1>3, <1>6, <1>7, <1>8 DEF ImportInv, OnLedger, Handled, Idles

\* An import does: the rows left out are settled.
LEMMA ImportBegins ==
  ASSUME Provenance, HoldingsAgree, LedgerInv, ImportInv, NEW f \in DOMAIN Files, StartImport(f)
  PROVE  ImportInv'
<1> DEFINE rows == Fresh(Files[f])
<1>1. ASSUME NEW r \in Row, Leads(r, f) PROVE r \in rows \/ Settled(r, lots, exits)
  <2>1. CASE NaturalKey(r) \in LedgerKeys \/ LooseKey(r) \in LedgerKeys
    BY <2>1, KeyedSettled DEF LedgerInv, ImportInv
  <2>2. CASE ~(NaturalKey(r) \in LedgerKeys \/ LooseKey(r) \in LedgerKeys)
    BY <1>1, <2>2 DEF Leads, Fresh
  <2>3. QED
    BY <2>1, <2>2
<1>2. ASSUME NEW r \in rows
      PROVE  Leads(r, f) /\ NaturalKey(r) \notin LedgerKeys /\ LooseKey(r) \notin LedgerKeys
  BY DEF Leads, Fresh
<1>3. f # None
  BY NoLotIsNone
<1>4. Begin(f, rows) /\ UNCHANGED <<lots, exits, imported, torn, crashes>>
  BY DEF StartImport
<1> HIDE DEF rows
<1>5. QED
  BY <1>1, <1>2, <1>3, <1>4, BeginKeepsImport

\* So does a typed trade.
LEMMA TradeBegins ==
  ASSUME LedgerInv, ImportInv, NEW t, NEW confirmed, StartTrade(t, confirmed)
  PROVE  ImportInv'
<1>1. Begin(None, {TypedRow(t)}) /\ UNCHANGED <<lots, exits, imported, torn, crashes>>
  BY DEF StartTrade
<1>2. None \notin imported
  BY NoLotIsNone DEF LedgerInv, TypeOK
<1>3. QED
  BY <1>1, <1>2, BeginKeepsImport, Zenon
---------------------------------------------------------------------------
(* A row is applied to the book in memory.                                 *)
LEMMA ProjectKeepsImport ==
  ASSUME LedgerInv, LedgerInv', ImportInv, Projecting, Unchanged, NEW r \in job.fresh,
         job'.phase = "project", job'.file = job.file, job'.fresh = job.fresh \ {r},
         job.rejected \subseteq job'.rejected,
         FromRows(job'.lots), Extends(job.lots, job'.lots),
         Adds(Together(exits, job.sales), Together(exits, job'.sales)),
         r \in job'.rejected \/ Settled(r, job'.lots, Together(exits, job'.sales)),
         job.file \in imported => job'.lots = job.lots /\ job'.sales = job.sales
  PROVE  ImportInv'
<1>0. lots' = lots /\ exits' = exits /\ imported' = imported
  BY DEF Unchanged
<1>1. lots \in Book /\ job.lots \in Book /\ job'.lots \in Book
  BY DEF LedgerInv, TypeOK
<1>2. FromRows(lots') /\ Extends(lots', job'.lots)
  BY <1>0, <1>1, ExtendsOn DEF ImportInv
<1>3. \A f \in imported' : OnLedger(f)'
  BY <1>0, ImportParts DEF OnLedger
<1>4. Handled'
  <2> SUFFICES ASSUME job.file # None, NEW q \in Row, Leads(q, job.file)
               PROVE  q \in job'.fresh \cup job'.rejected
                        \/ Settled(q, job'.lots, Together(exits, job'.sales))
    BY <1>0 DEF Handled, Leads, Together
  <2>1. q \in job.fresh \cup job.rejected \/ Settled(q, job.lots, Together(exits, job.sales))
    BY ImportParts DEF Handled
  <2>2. CASE q \in job.fresh \cup job.rejected
    BY <2>2
  <2>3. CASE Settled(q, job.lots, Together(exits, job.sales))
    BY <1>1, <2>3, SettledStays
  <2>4. QED
    BY <2>1, <2>2, <2>3
<1>5. Idles'
  BY <1>0, SameKeys, ImportParts DEF Idles, Leads
<1>6. QED
  BY <1>2, <1>3, <1>4, <1>5 DEF ImportInv, OnLedger, Handled, Idles

\* What the job under way is made of.
LEMMA JobTypes ==
  ASSUME LedgerInv
  PROVE  /\ DOMAIN job = {"phase", "file", "fresh", "lots", "sales", "whole", "rejected"}
         /\ job.lots \in Book /\ job.sales \in Disposals /\ exits \in Disposals /\ lots \in Book
         /\ job.fresh \in SUBSET Row
BY DEF LedgerInv, TypeOK, Disposals

\* A row of a file imported already is absorbed.
LEMMA IdlesAbsorb ==
  ASSUME LedgerInv, ImportInv, Projecting, job.file \in imported, NEW r \in job.fresh
  PROVE  /\ job.lots = lots
         /\ \/ r.kind = "BUY" /\ Absorbs(lots[LotIdOf(r)], r)
            \/ r.kind = "SELL" /\ exits[ExitIdOf(r)] # None
<1>1. /\ job.lots = lots /\ Leads(r, job.file)
      /\ NaturalKey(r) \notin LedgerKeys /\ LooseKey(r) \notin LedgerKeys
  BY DEF ImportInv
<1>2. r \in Row
  BY JobTypes
<1>3. Settled(r, lots, exits)
  BY <1>1, <1>2 DEF ImportInv
<1>4. QED
  BY <1>1, <1>2, <1>3, SettledUnkeyed

\* Merging an absorbed row changes nothing.
LEMMA MergedAbsorbed ==
  ASSUME NEW r \in Row, NEW held \in Lot, Absorbs(held, r)
  PROVE  Merged(r, held) = held
<1> DEFINE size == IF r.partial THEN held.qty ELSE Larger(held.qty, r.qty)
<1>1. ~(size > held.qty)
  BY RowTypes DEF Absorbs, Larger, Lot
<1>2. Merged(r, held) = IF r.stated = None THEN held ELSE [held EXCEPT !.stated = r.stated]
  BY <1>1 DEF Merged
<1>3. r.stated # None => [held EXCEPT !.stated = r.stated] = held
  BY DEF Absorbs, Lot
<1>4. QED
  BY <1>2, <1>3

\* The lot of a purchase row is set.
LEMMA SetLotKeepsImport ==
  ASSUME LedgerInv, LedgerInv', ImportInv, Projecting, Unchanged, NEW r \in job.fresh,
         r.kind = "BUY", NEW lot \in Lot, SetLotOf(r, lot),
         FromRows([job.lots EXCEPT ![LotIdOf(r)] = lot]),
         Extends(job.lots, [job.lots EXCEPT ![LotIdOf(r)] = lot]),
         Absorbs(lot, r), job.file \in imported => lot = job.lots[LotIdOf(r)]
  PROVE  ImportInv'
<1> DEFINE l == LotIdOf(r)
<1>1. r \in Row /\ l \in LotId
  BY JobTypes DEF LotId
<1>2. /\ job'.phase = job.phase /\ job'.file = job.file /\ job'.fresh = job.fresh \ {r}
      /\ job'.rejected = job.rejected /\ job'.sales = job.sales
      /\ job'.lots = [job.lots EXCEPT ![l] = lot]
  BY JobTypes DEF SetLotOf
<1>3. job.lots \in Book /\ job'.lots[l] = lot
  BY <1>1, <1>2, JobTypes DEF Book
<1>4. Settled(r, job'.lots, Together(exits, job'.sales))
  BY <1>3 DEF Settled
<1>5. job.file \in imported => job'.lots = job.lots
  BY <1>1, <1>2, <1>3 DEF Book
<1>6. Adds(Together(exits, job.sales), Together(exits, job'.sales))
  BY <1>2 DEF Adds
<1> HIDE DEF l
<1>7. FromRows(job'.lots) /\ Extends(job.lots, job'.lots)
  BY <1>2 DEF l
<1>8. job'.phase = "project" /\ job.rejected \subseteq job'.rejected
  BY <1>2 DEF Projecting
<1>9. QED
  BY <1>2, <1>4, <1>5, <1>6, <1>7, <1>8, ProjectKeepsImport

\* A purchase that opens a lot settles its row.
LEMMA OpenLotKeepsImport ==
  ASSUME LedgerInv, LedgerInv', ImportInv, NEW r \in job.fresh, OpenLot(r)
  PROVE  ImportInv'
<1> DEFINE l == LotIdOf(r)
<1>1. /\ Projecting /\ Unchanged /\ r.kind = "BUY" /\ job.lots[l] = None
      /\ SetLotOf(r, LotOf(r)) /\ r \in Row /\ job.lots \in Book /\ FromRows(job.lots)
  BY JobTypes DEF OpenLot, Turn, ImportInv
<1>2. l \in LotId /\ Opens(l, r)
  BY <1>1 DEF LotId, Opens
<1>3. LotOf(r) \in Lot /\ LotOf(r) # None
  BY <1>1, LotOfType, NoLotIsNone
<1>4. OpenedBy(LotOf(r), r) /\ Absorbs(LotOf(r), r)
  BY <1>1, <1>3, RowTypes DEF OpenedBy, Absorbs, LotOf
<1> HIDE DEF l
<1>5. FromRows([job.lots EXCEPT ![l] = LotOf(r)]) /\ Extends(job.lots, [job.lots EXCEPT ![l] = LotOf(r)])
  BY <1>1, <1>2, <1>3, <1>4, OneLot
<1>6. job.file \notin imported
  <2> SUFFICES ASSUME job.file \in imported PROVE FALSE
    OBVIOUS
  <2>1. job.lots = lots /\ Absorbs(lots[l], r)
    BY <1>1, IdlesAbsorb DEF l
  <2>2. QED
    BY <1>1, <2>1 DEF Absorbs
<1>7. QED
  BY <1>1, <1>3, <1>4, <1>5, <1>6, SetLotKeepsImport DEF l

\* So does one that finds its lot.
LEMMA MergeLotKeepsImport ==
  ASSUME Provenance, HoldingsAgree, LedgerInv, LedgerInv', ImportInv, NEW r \in job.fresh, MergeLot(r)
  PROVE  ImportInv'
<1> DEFINE l == LotIdOf(r)
           held == job.lots[l]
           m == Merged(r, held)
<1>1. /\ Projecting /\ Unchanged /\ r.kind = "BUY" /\ held # None
      /\ SetLotOf(r, m) /\ r \in Row /\ job.lots \in Book /\ FromRows(job.lots)
  BY JobTypes DEF MergeLot, Turn, ImportInv
<1>2. l \in LotId /\ Opens(l, r)
  BY <1>1 DEF LotId, Opens
<1>3. held \in Lot /\ held.remaining <= held.qty
  BY <1>1, <1>2 DEF Book, LedgerInv, Within
<1>4. PICK s \in Row : Opens(l, s) /\ OpenedBy(held, s)
  BY <1>1, <1>2 DEF FromRows
<1> HIDE DEF l
<1>5. m \in Lot
  BY <1>1, <1>3, MergedType
<1>6. /\ OpenedBy(m, s) \/ OpenedBy(m, r)
      /\ Outgrows(l, held, m) /\ Absorbs(m, r)
  BY <1>1, <1>2, <1>3, <1>4, MergedFollows
<1>7. job.file \in imported => m = held
  <2> SUFFICES ASSUME job.file \in imported PROVE m = held
    OBVIOUS
  <2>1. job.lots = lots /\ Absorbs(held, r)
    BY <1>1, IdlesAbsorb DEF l
  <2>2. QED
    BY <1>1, <1>3, <2>1, MergedAbsorbed
<1>8. FromRows([job.lots EXCEPT ![l] = m]) /\ Extends(job.lots, [job.lots EXCEPT ![l] = m])
  <2> HIDE DEF m
  <2>1. CASE OpenedBy(m, s)
    BY <1>1, <1>2, <1>4, <1>5, <1>6, <2>1, OneLot
  <2>2. CASE OpenedBy(m, r)
    BY <1>1, <1>2, <1>5, <1>6, <2>2, OneLot
  <2>3. QED
    BY <1>6, <2>1, <2>2
<1> HIDE DEF m, held
<1>9. QED
  BY <1>1, <1>5, <1>6, <1>7, <1>8, SetLotKeepsImport DEF l, held

\* A sale settles its row by its disposal.
LEMMA SellKeepsImport ==
  ASSUME Provenance, LedgerInv, LedgerInv', ImportInv, NEW r \in job.fresh, Sell(r)
  PROVE  ImportInv'
<1> DEFINE book == Grown(job.lots, r)
           e == ExitIdOf(r)
<1>1. PICK a \in Allocations(book, r), first \in LotId :
        /\ IsOldest(book, a, first)
        /\ job' = [job EXCEPT !.fresh = @ \ {r}, !.lots = Depleted(book, a),
                              !.sales[e] = ExitOf(r, book, a, first)]
  BY DEF Sell
<1>2. Projecting /\ Unchanged /\ r.kind = "SELL" /\ r \in Row /\ ~Seen(r)
  BY JobTypes DEF Sell, Turn
<1>3. e \in ExitId
  BY <1>2 DEF ExitId
<1>4. job.lots \in Book /\ Within(job.lots) /\ FromRows(job.lots)
  BY DEF LedgerInv, TypeOK, ImportInv
<1>5. book \in Book /\ Within(book) /\ FromRows(book) /\ Extends(job.lots, book)
  BY <1>2, <1>4, GrownBook, GrownFollows
<1> HIDE DEF book
<1>6. SameBut(book, Depleted(book, a)) /\ Depleted(book, a) \in Book
  BY <1>2, <1>5, DepletedAlike, DepletedBook
<1>7. FromRows(Depleted(book, a)) /\ Extends(book, Depleted(book, a))
  BY <1>5, <1>6, AlikeFollows
<1>8. Extends(job.lots, Depleted(book, a))
  BY <1>4, <1>5, <1>6, <1>7, ExtendsOn
<1>9. ExitOf(r, book, a, first) \in Exit /\ ExitOf(r, book, a, first) # None
  BY <1>1, <1>2, <1>5, ExitOfType, NoLotIsNone
<1> DEFINE x == ExitOf(r, book, a, first)
<1> HIDE DEF x, e
<1>10. /\ job'.phase = job.phase /\ job'.file = job.file /\ job'.fresh = job.fresh \ {r}
       /\ job'.rejected = job.rejected /\ job'.lots = Depleted(book, a)
       /\ job'.sales = [job.sales EXCEPT ![e] = x]
  BY <1>1, JobTypes DEF x
<1>11. exits[e] = None /\ job.sales[e] = None /\ job'.sales[e] = x /\ x # None
  BY <1>2, <1>3, <1>9, <1>10, JobTypes DEF Seen, Disposals, e, x
<1>12. Adds(Together(exits, job.sales), Together(exits, job'.sales))
  BY <1>3, <1>10, <1>11, JobTypes DEF Adds, Together, Disposals
<1>13. Settled(r, job'.lots, Together(exits, job'.sales))
  BY <1>2, <1>3, <1>11 DEF Settled, Together, e
<1>14. job.file \notin imported
  <2> SUFFICES ASSUME job.file \in imported PROVE FALSE
    OBVIOUS
  <2>1. exits[e] # None
    BY <1>2, IdlesAbsorb DEF e
  <2>2. QED
    BY <1>11, <2>1
<1>15. job'.phase = "project" /\ FromRows(job'.lots) /\ Extends(job.lots, job'.lots)
         /\ job.rejected \subseteq job'.rejected
  BY <1>2, <1>7, <1>8, <1>10 DEF Projecting
<1>16. QED
  BY <1>2, <1>10, <1>12, <1>13, <1>14, <1>15, ProjectKeepsImport

\* A sale that is on record is settled, one that finds too little is rejected.
LEMMA NoSaleKeepsImport ==
  ASSUME LedgerInv, LedgerInv', ImportInv, NEW r \in job.fresh, SkipSeen(r) \/ RejectSale(r)
  PROVE  ImportInv'
<1>1. Projecting /\ Unchanged /\ r.kind = "SELL" /\ r \in Row
  BY JobTypes DEF SkipSeen, RejectSale, Turn
<1>2. /\ job'.phase = job.phase /\ job'.file = job.file /\ job'.fresh = job.fresh \ {r}
      /\ job.rejected \subseteq job'.rejected /\ job'.lots = job.lots /\ job'.sales = job.sales
  BY JobTypes DEF SkipSeen, RejectSale
<1>3. r \in job'.rejected \/ Settled(r, job'.lots, Together(exits, job'.sales))
  <2>1. CASE RejectSale(r)
    BY <2>1, JobTypes DEF RejectSale
  <2>2. CASE SkipSeen(r)
    <3>1. exits[ExitIdOf(r)] # None \/ job.sales[ExitIdOf(r)] # None
      BY <2>2 DEF SkipSeen, Seen
    <3>2. ExitIdOf(r) \in ExitId
      BY <1>1 DEF ExitId
    <3>3. Together(exits, job'.sales)[ExitIdOf(r)] # None
      BY <1>2, <3>1, <3>2 DEF Together
    <3>4. QED
      BY <1>1, <3>3 DEF Settled
  <2>3. QED
    BY <2>1, <2>2
<1>4. FromRows(job'.lots) /\ Extends(job.lots, job'.lots)
  BY <1>2, JobTypes, ExtendsItself DEF ImportInv
<1>5. Adds(Together(exits, job.sales), Together(exits, job'.sales)) /\ job'.phase = "project"
  BY <1>1, <1>2 DEF Adds, Projecting
<1>6. QED
  BY <1>1, <1>2, <1>3, <1>4, <1>5, ProjectKeepsImport
---------------------------------------------------------------------------
\* Saving the lots settles what the projection has.
LEMMA SaveLotsKeepsImport ==
  ASSUME LedgerInv, LedgerInv', ImportInv, SaveLots
  PROVE  ImportInv'
<1>1. /\ job'.phase = "exits" /\ job'.file = job.file /\ job'.fresh = {} /\ job.fresh = {}
      /\ job'.rejected = job.rejected /\ job'.lots = job.lots /\ job'.sales = job.sales
      /\ lots' = job.lots /\ exits' = exits /\ imported' = imported /\ Projecting
  BY JobTypes DEF SaveLots, Projected
<1>2. FromRows(lots') /\ FromRows(job'.lots) /\ Extends(lots, lots')
  BY <1>1 DEF ImportInv
<1>3. ASSUME NEW f \in imported PROVE OnLedger(f)'
  <2> SUFFICES ASSUME NEW r \in Row, Leads(r, f) PROVE Settled(r, lots', exits)
    BY <1>1 DEF OnLedger, Leads
  <2>1. Settled(r, lots, exits)
    BY ImportParts DEF OnLedger
  <2>2. lots \in Book /\ lots' \in Book
    BY DEF LedgerInv, TypeOK
  <2>3. Adds(exits, exits)
    BY DEF Adds
  <2>4. QED
    BY <1>2, <2>1, <2>2, <2>3, SettledStays
<1>4. Handled'
  BY <1>1, ImportParts DEF Handled, Leads, Together
<1>5. ~Projecting'
  BY <1>1 DEF Projecting
<1>6. QED
  BY <1>1, <1>2, <1>3, <1>4, <1>5 DEF ImportInv, OnLedger, Handled

\* Saving the disposals puts the file on record.
LEMMA SaveExitsKeepsImport ==
  ASSUME LedgerInv, ImportInv, SaveExits
  PROVE  ImportInv'
<1>1. /\ job' = Resting /\ lots' = lots /\ lots = job.lots /\ job.fresh = {} /\ FromRows(lots)
      /\ exits' = Together(exits, job.sales)
  BY DEF SaveExits, Together, LedgerInv, ImportInv
<1>2. ASSUME NEW f \in imported' PROVE OnLedger(f)'
  <2> SUFFICES ASSUME NEW r \in Row, Leads(r, f) PROVE Settled(r, lots, exits')
    BY <1>1 DEF OnLedger, Leads
  <2>1. CASE f \in imported
    <3>1. Settled(r, lots, exits)
      BY <2>1, ImportParts DEF OnLedger
    <3>2. lots \in Book /\ Extends(lots, lots)
      BY JobTypes, ExtendsItself
    <3>3. Adds(exits, exits')
      BY <1>1 DEF Adds, Together
    <3>4. QED
      BY <3>1, <3>2, <3>3, SettledStays
  <2>2. CASE f \notin imported
    <3>1. f = job.file /\ job.file # None /\ job.rejected = {}
      BY <2>2 DEF SaveExits
    <3>2. QED
      BY <1>1, <3>1, ImportParts DEF Handled
  <2>3. QED
    BY <2>1, <2>2
<1>3. FromRows(lots')
  BY <1>1
<1>4. QED
  BY <1>1, <1>2, <1>3, RestKeepsImport

\* A crash loses the job and puts nothing on record.
LEMMA CrashKeepsImport ==
  ASSUME ImportInv, Crash
  PROVE  ImportInv'
<1>1. job' = Resting /\ lots' = lots /\ exits' = exits /\ imported' = imported
  BY DEF Crash
<1>2. \A f \in imported' : OnLedger(f)'
  BY <1>1, ImportParts DEF OnLedger, Leads
<1>3. QED
  BY <1>1, <1>2, RestKeepsImport DEF ImportInv

\* Deleting anything takes the files off the record.
LEMMA DeletionKeepsImport ==
  ASSUME LedgerInv, SalesInv, ImportInv, (\E e \in ExitId : DeleteExit(e)) \/ DeleteHolding
  PROVE  ImportInv'
<1>1. imported' = {} /\ job' = Resting
  BY DEF DeleteExit, DeleteHolding, Idle, SalesInv
<1>2. FromRows(lots')
  <2>1. ASSUME NEW e \in ExitId, DeleteExit(e) PROVE FromRows(lots')
    <3>1. exits[e] \in Exit /\ Restorable(exits[e]) /\ lots' = PutBack(exits[e]) /\ lots \in Book
      BY <2>1, JobTypes DEF DeleteExit, Disposals
    <3>2. QED
      BY <3>1, PutBackAlike, AlikeFollows DEF ImportInv
  <2>2. ASSUME DeleteHolding PROVE FromRows(lots')
    BY <2>2, NoBook DEF DeleteHolding
  <2>3. QED
    BY <2>1, <2>2
<1>3. QED
  BY <1>1, <1>2, RestKeepsImport

\* So every step keeps the invariant.
LEMMA ImportInductive ==
  ASSUME Provenance, HoldingsAgree, LedgerInv, LedgerInv', SalesInv, ImportInv, [Next]_vars
  PROVE  ImportInv'
<1>1. CASE \E f \in DOMAIN Files : StartImport(f)
  BY <1>1, ImportBegins
<1>2. CASE \E t \in Typed, confirmed \in BOOLEAN : StartTrade(t, confirmed)
  BY <1>2, TradeBegins
<1>3. CASE \E r \in job.fresh : Project(r)
  BY <1>3, OpenLotKeepsImport, MergeLotKeepsImport, SellKeepsImport, NoSaleKeepsImport DEF Project
<1>4. CASE SaveLots \/ SaveExits \/ Crash
  BY <1>4, SaveLotsKeepsImport, SaveExitsKeepsImport, CrashKeepsImport
<1>5. CASE (\E e \in ExitId : DeleteExit(e)) \/ DeleteHolding
  BY <1>5, DeletionKeepsImport
<1>6. CASE UNCHANGED vars
  <2>1. /\ lots' = lots /\ exits' = exits /\ job' = job /\ imported' = imported
    BY <1>6 DEF vars
  <2>2. \A f : OnLedger(f)' <=> OnLedger(f)
    BY <2>1 DEF OnLedger, Leads
  <2>3. (Handled' <=> Handled) /\ (Projecting' <=> Projecting)
    BY <2>1 DEF Handled, Leads, Together, Projecting
  <2>4. Idles' <=> Idles
    BY <2>1, <2>3, SameKeys DEF Idles, Leads
  <2>5. QED
    BY <2>1, <2>2, <2>3, <2>4, ImportParts DEF ImportInv, OnLedger, Handled, Idles
<1>7. QED
  BY <1>1, <1>2, <1>3, <1>4, <1>5, <1>6 DEF Next

\* It holds whatever is imported, typed in and deleted, in any order.
LEMMA ImportInvariant == Provenance /\ HoldingsAgree /\ Spec => []ImportInv
<1>1. ASSUME Provenance, HoldingsAgree
      PROVE  Spec => []ImportInv
  <2>1. LedgerInv /\ LedgerInv' /\ SalesInv /\ ImportInv /\ [Next]_vars => ImportInv'
    BY <1>1, ImportInductive
  <2>2. QED
    BY <2>1, ImportInitially, LedgerInvariant, SalesInvariant, PTL DEF Spec
<1>2. QED
  BY <1>1

(* Whatever was imported, typed, sold or cut short since, and however the  *)
(* statements overlap, importing one again changes nothing: a row of it is *)
(* either recognised, or it finds its own lot at least as large as it says *)
(* and with what it states, or its own disposal.                           *)
THEOREM ReimportsChangeNothing == Provenance /\ HoldingsAgree /\ Spec => []ReimportChangesNothing
<1>1. ImportInv => ReimportChangesNothing
  BY DEF ImportInv, ReimportChangesNothing, Projected, Recorded, NoSales
<1>2. QED
  BY <1>1, ImportInvariant, PTL
---------------------------------------------------------------------------
(* Statements of an account that names no tranches: a trade has one key    *)
(* wherever it is reported, unpadded if it is reported twice, and a file   *)
(* numbers its rows.                                                       *)
AccountStatements ==
  /\ \A r \in FileRows : r.tranche = None
  /\ \A r, s \in FileRows :
       r.kind = s.kind /\ r.trade = s.trade /\ r # s =>
         NaturalKey(r) = NaturalKey(s) /\ (r.kind = "BUY" => ~r.padded)
  /\ \A f \in DOMAIN Files : \A r, s \in Files[f] : r.kind = s.kind /\ r.row = s.row => r = s
  /\ \A r \in FileRows, s \in TypedRows : r.trade # s.trade

\* A disposal is that of a sell row.
ExitsFromRows(x) ==
  \A e \in ExitId : x[e] # None =>
    \E r \in Row : /\ r.kind = "SELL" /\ ExitIdOf(r) = e
                   /\ ExitKey(x[e]) = NaturalKey(r) /\ x[e].trade = r.trade
\* No two lots are of one trade.
OneLotEach(b) ==
  \A l, m \in LotId : b[l] # None /\ b[m] # None /\ b[l].trade = b[m].trade => l = m
\* No two disposals are of one trade.
OneExitEach(x) ==
  \A d, e \in ExitId : x[d] # None /\ x[e] # None /\ x[d].trade = x[e].trade => d = e
\* A lot of a trade of the rows is at its row.
LotsApart(b, rows) ==
  \A r \in rows : r.kind = "BUY" =>
    \A l \in LotId : b[l] # None /\ b[l].trade = r.trade => l = LotIdOf(r)
\* So is a disposal.
ExitsApart(x, rows) ==
  \A r \in rows : r.kind = "SELL" =>
    \A e \in ExitId : x[e] # None /\ x[e].trade = r.trade => e = ExitIdOf(r)
\* Stored and in memory a trade is once, and the rows to come are of other trades.
TradesInv ==
  /\ ExitsFromRows(Together(exits, job.sales))
  /\ OneLotEach(lots) /\ OneLotEach(job.lots)
  /\ OneExitEach(Together(exits, job.sales))
  /\ Projecting => /\ LotsApart(job.lots, job.fresh)
                   /\ ExitsApart(Together(exits, job.sales), job.fresh)
                   /\ \A r, s \in job.fresh : r.kind = s.kind /\ r.trade = s.trade => r = s
---------------------------------------------------------------------------
\* Without tranches every lot and disposal is at the place of its row.
LEMMA NoTranches ==
  ASSUME AccountStatements
  PROVE  HoldingsAgree /\ \A r \in Row : r.tranche = None
<1>1. \A r \in FileRows : r.tranche = None
  BY DEF AccountStatements
<1>2. \A r \in Row : r.tranche = None
  BY <1>1, TranchesFromFiles
<1>3. HoldingsAgree
  BY <1>1 DEF HoldingsAgree
<1>4. QED
  BY <1>2, <1>3

\* A typed trade's token is its own.
LEMMA SameTrade ==
  ASSUME AccountStatements, NEW r \in Row, NEW s \in Row, r.kind = s.kind, r.trade = s.trade, r # s
  PROVE  NaturalKey(r) = NaturalKey(s) /\ (r.kind = "BUY" => ~r.padded /\ ~s.padded)
<1>1. CASE r \in FileRows /\ s \in FileRows
  BY <1>1 DEF AccountStatements
<1>2. CASE r \in FileRows /\ s \in TypedRows
  BY <1>2 DEF AccountStatements
<1>3. CASE r \in TypedRows /\ s \in FileRows
  BY <1>3 DEF AccountStatements
<1>4. CASE r \in TypedRows /\ s \in TypedRows
  <2>1. PICK t \in Typed, n \in 0..MaxFills : r = TokenRow(t, n)
    BY <1>4 DEF TypedRows
  <2>2. PICK u \in Typed, k \in 0..MaxFills : s = TokenRow(u, k)
    BY <1>4 DEF TypedRows
  <2>3. <<t, n>> = <<u, k>>
    BY <2>1, <2>2 DEF TokenRow, Token
  <2>4. QED
    BY <2>1, <2>2, <2>3
<1>5. QED
  BY <1>1, <1>2, <1>3, <1>4 DEF Row

\* A lot is its row's, with its row's key but for the padding.
LEMMA RowOfLot ==
  ASSUME AccountStatements, NEW b, FromRows(b), NEW l \in LotId, b[l] # None
  PROVE  \E r \in Row : /\ Opens(l, r) /\ b[l].trade = r.trade
                        /\ ~r.padded => LotKey(b[l]) = NaturalKey(r)
<1>1. PICK r \in Row : Opens(l, r) /\ OpenedBy(b[l], r)
  BY DEF FromRows
<1>2. r.tranche = None /\ r.padded \in BOOLEAN
  BY NoTranches, RowTypes
<1>3. b[l].trade = r.trade /\ b[l].qty = r.qty /\ b[l].date = r.date /\ b[l].price = r.price
        /\ b[l].tranche = r.tranche /\ r.kind = "BUY"
  BY <1>1, <1>2 DEF OpenedBy, Opens
<1>4. ~r.padded => LotKey(b[l]) = NaturalKey(r)
  BY <1>2, <1>3 DEF LotKey, NaturalKey
<1>5. QED
  BY <1>1, <1>3, <1>4

\* Lots that keep their trades.
SameTrades(b, c) ==
  \A l \in LotId : (b[l] = None <=> c[l] = None) /\ (b[l] # None => c[l].trade = b[l].trade)
LEMMA SameTradesKeep ==
  ASSUME NEW b, NEW c, SameTrades(b, c), NEW rows, NEW fewer \in SUBSET rows
  PROVE  /\ OneLotEach(b) => OneLotEach(c)
         /\ LotsApart(b, rows) => LotsApart(c, fewer)
<1>1. OneLotEach(b) => OneLotEach(c)
  BY DEF SameTrades, OneLotEach
<1>2. LotsApart(b, rows) => LotsApart(c, fewer)
  BY DEF SameTrades, LotsApart
<1>3. QED
  BY <1>1, <1>2

\* Lots that are alike are of the same trades.
LEMMA AlikeTrades == ASSUME NEW b, NEW c, SameBut(b, c) PROVE SameTrades(b, c)
BY DEF SameBut, SameTrades, Alike

\* An empty book has nothing twice.
LEMMA NoLots == OneLotEach([l \in LotId |-> None])
BY DEF OneLotEach
\* Nor has no disposal.
LEMMA NoExits == ExitsFromRows(NoSales) /\ OneExitEach(NoSales)
BY DEF ExitsFromRows, OneExitEach, NoSales

\* The stored disposals with none are the stored ones.
LEMMA TogetherNothing == ASSUME exits \in Disposals PROVE Together(exits, NoSales) = exits
BY DEF Together, NoSales, Disposals

\* With no job, only the stored ledger counts.
LEMMA RestKeepsTrades ==
  ASSUME job' = Resting, exits' \in Disposals, OneLotEach(lots'), ExitsFromRows(exits'), OneExitEach(exits')
  PROVE  TradesInv'
<1>1. job'.phase = "idle" /\ OneLotEach(job'.lots) /\ job'.sales = NoSales
  BY NoLots DEF Resting
<1>2. Together(exits', job'.sales) = exits'
  BY <1>1 DEF Together, NoSales, Disposals
<1>3. ~Projecting'
  BY <1>1 DEF Projecting
<1>4. Together(exits, job.sales)' = exits'
  BY <1>2 DEF Together
<1>5. QED
  BY <1>1, <1>3, <1>4 DEF TradesInv, ExitsFromRows, OneExitEach

\* At first there is no trade.
LEMMA TradesInitially == Init => TradesInv
<1> SUFFICES ASSUME Init PROVE TradesInv
  OBVIOUS
<1>1. job.phase = "idle" /\ OneLotEach(job.lots) /\ OneLotEach(lots) /\ job.sales = NoSales
  BY NoLots DEF Init, Resting
<1>2. Together(exits, job.sales) = NoSales
  BY <1>1 DEF Init, Together, NoSales
<1>3. ~Projecting
  BY <1>1 DEF Projecting
<1>4. QED
  BY <1>1, <1>2, <1>3, NoExits DEF TradesInv

\* A job that begins with rows of trades not on record.
LEMMA BeginKeepsTrades ==
  ASSUME LedgerInv, SalesInv, TradesInv, Idle, NEW file, NEW rows, Begin(file, rows),
         UNCHANGED <<lots, exits, imported, torn, crashes>>,
         LotsApart(lots, rows), ExitsApart(exits, rows),
         \A r, s \in rows : r.kind = s.kind /\ r.trade = s.trade => r = s
  PROVE  TradesInv'
<1>1. /\ job'.phase = "project" /\ job'.fresh = rows /\ job'.lots = lots /\ job'.sales = NoSales
      /\ lots' = lots /\ exits' = exits
  BY DEF Begin, Resting
<1>2. job.sales = NoSales
  BY DEF SalesInv, Idle, Resting
<1>3. Together(exits, job.sales) = exits /\ Together(exits, job.sales)' = exits
  BY <1>1, <1>2, JobTypes, TogetherNothing DEF Together
<1>4. QED
  BY <1>1, <1>3 DEF TradesInv

\* An import does: a trade on record is recognised by its key.
LEMMA ImportKeepsTrades ==
  ASSUME AccountStatements, LedgerInv, SalesInv, ImportInv, TradesInv,
         NEW f \in DOMAIN Files, StartImport(f)
  PROVE  TradesInv'
<1> DEFINE rows == Fresh(Files[f])
<1>1. rows \in SUBSET Row /\ rows \in SUBSET Files[f]
  BY DEF Fresh, Row, FileRows
<1>2. LotsApart(lots, rows)
  <2> SUFFICES ASSUME NEW r \in rows, r.kind = "BUY", NEW l \in LotId, lots[l] # None,
                      lots[l].trade = r.trade, l # LotIdOf(r)
               PROVE  FALSE
    BY DEF LotsApart
  <2>1. PICK s \in Row : /\ Opens(l, s) /\ lots[l].trade = s.trade
                         /\ ~s.padded => LotKey(lots[l]) = NaturalKey(s)
    BY RowOfLot DEF ImportInv
  <2>2. s.kind = "BUY" /\ s # r /\ r \in Row
    BY <1>1, <2>1 DEF Opens
  <2>3. NaturalKey(r) = NaturalKey(s) /\ ~s.padded
    BY <2>1, <2>2, SameTrade
  <2>4. KeyOfLot(l) = NaturalKey(r) /\ KeyOfLot(l) \in LedgerKeys
    BY <2>1, <2>3 DEF KeyOfLot, LotKey, LedgerKeys, Held
  <2>5. QED
    BY <2>4 DEF Fresh
<1>3. ExitsApart(exits, rows)
  <2> SUFFICES ASSUME NEW r \in rows, r.kind = "SELL", NEW e \in ExitId, exits[e] # None,
                      exits[e].trade = r.trade, e # ExitIdOf(r)
               PROVE  FALSE
    BY DEF ExitsApart
  <2>1. PICK s \in Row : /\ s.kind = "SELL" /\ ExitIdOf(s) = e
                         /\ ExitKey(exits[e]) = NaturalKey(s) /\ exits[e].trade = s.trade
    BY DEF TradesInv, ExitsFromRows, Together
  <2>2. NaturalKey(r) = NaturalKey(s)
    BY <1>1, <2>1, SameTrade
  <2>3. KeyOfExit(e) = NaturalKey(r) /\ KeyOfExit(e) \in LedgerKeys
    BY <2>1, <2>2 DEF KeyOfExit, ExitKey, LedgerKeys, Recorded
  <2>4. QED
    BY <2>3 DEF Fresh
<1>4. ASSUME NEW r \in rows, NEW s \in rows, r.kind = s.kind, r.trade = s.trade
      PROVE  r = s
  <2> SUFFICES ASSUME r # s PROVE FALSE
    OBVIOUS
  <2>1. NaturalKey(r) = NaturalKey(s)
    BY <1>1, <1>4, SameTrade
  <2>2. r.row # s.row
    BY <1>1, <1>4 DEF AccountStatements
  <2>3. r.row \in Nat /\ s.row \in Nat
    BY <1>1, RowsWellFormed DEF FileRows
  <2>4. ~(r.row < s.row) /\ ~(s.row < r.row)
    BY <1>1, <2>1 DEF Fresh
  <2>5. QED
    BY <2>2, <2>3, <2>4
<1>5. Begin(f, rows) /\ UNCHANGED <<lots, exits, imported, torn, crashes>> /\ Idle
  BY DEF StartImport
<1> HIDE DEF rows
<1>6. QED
  BY <1>2, <1>3, <1>4, <1>5, BeginKeepsTrades

\* So does a typed trade, whose token is its own.
LEMMA TradeKeepsTrades ==
  ASSUME AccountStatements, LedgerInv, SalesInv, ImportInv, TradesInv,
         NEW t \in Typed, NEW confirmed, StartTrade(t, confirmed)
  PROVE  TradesInv'
<1> DEFINE r == TypedRow(t)
<1>1. r \in TypedRows /\ r \in Row
  BY DEF StartTrade, Row
<1>2. ASSUME NEW s \in Row, s.kind = r.kind, s.trade = r.trade
      PROVE  s = r
  <2>1. CASE s \in FileRows
    BY <1>1, <1>2, <2>1 DEF AccountStatements
  <2>2. CASE s \in TypedRows
    <3>1. PICK u \in Typed, k \in 0..MaxFills : s = TokenRow(u, k)
      BY <2>2 DEF TypedRows
    <3>2. <<u, k>> = <<t, Occurrences(t)>>
      BY <1>2, <3>1 DEF TypedRow, TokenRow, Token
    <3>3. QED
      BY <3>1, <3>2 DEF TypedRow
  <2>3. QED
    BY <2>1, <2>2 DEF Row
<1> HIDE DEF r
<1>3. LotsApart(lots, {r})
  <2> SUFFICES ASSUME r.kind = "BUY", NEW l \in LotId, lots[l] # None, lots[l].trade = r.trade
               PROVE  l = LotIdOf(r)
    BY DEF LotsApart
  <2>1. PICK s \in Row : Opens(l, s) /\ lots[l].trade = s.trade
    BY RowOfLot DEF ImportInv
  <2>2. QED
    BY <1>2, <2>1 DEF Opens
<1>4. ExitsApart(exits, {r})
  <2> SUFFICES ASSUME r.kind = "SELL", NEW e \in ExitId, exits[e] # None, exits[e].trade = r.trade
               PROVE  e = ExitIdOf(r)
    BY DEF ExitsApart
  <2>1. PICK s \in Row : s.kind = "SELL" /\ ExitIdOf(s) = e /\ exits[e].trade = s.trade
    BY DEF TradesInv, ExitsFromRows, Together
  <2>2. QED
    BY <1>2, <2>1
<1>5. Begin(None, {r}) /\ UNCHANGED <<lots, exits, imported, torn, crashes>> /\ Idle
  BY DEF StartTrade, r
<1>6. \A q, s \in {r} : q.kind = s.kind /\ q.trade = s.trade => q = s
  OBVIOUS
<1>7. QED
  BY <1>3, <1>4, <1>5, <1>6, BeginKeepsTrades

\* A row is applied to the book in memory.
LEMMA ProjectKeepsTrades ==
  ASSUME TradesInv, Projecting, Unchanged, NEW r \in job.fresh, job'.fresh = job.fresh \ {r},
         ExitsFromRows(Together(exits, job'.sales)), OneExitEach(Together(exits, job'.sales)),
         ExitsApart(Together(exits, job'.sales), job'.fresh),
         OneLotEach(job'.lots), LotsApart(job'.lots, job'.fresh)
  PROVE  TradesInv'
<1>1. lots' = lots /\ exits' = exits
  BY DEF Unchanged
<1>2. Together(exits, job.sales)' = Together(exits, job'.sales)
  BY <1>1 DEF Together
<1>3. OneLotEach(lots)
  BY DEF TradesInv
<1>4. \A q, s \in job'.fresh : q.kind = s.kind /\ q.trade = s.trade => q = s
  BY DEF TradesInv
<1>5. QED
  BY <1>1, <1>2, <1>3, <1>4 DEF TradesInv

\* A row that leaves the disposals alone.
LEMMA SameSales ==
  ASSUME TradesInv, Projecting, Unchanged, NEW r \in job.fresh, job'.fresh = job.fresh \ {r},
         job'.sales = job.sales, OneLotEach(job'.lots), LotsApart(job'.lots, job'.fresh)
  PROVE  TradesInv'
<1>1. ExitsApart(Together(exits, job'.sales), job'.fresh)
  BY DEF TradesInv, ExitsApart
<1>2. ExitsFromRows(Together(exits, job'.sales)) /\ OneExitEach(Together(exits, job'.sales))
  BY DEF TradesInv
<1>3. QED
  BY <1>1, <1>2, ProjectKeepsTrades

\* A purchase opens a lot of a trade that no lot has.
LEMMA OpenLotKeepsTrades ==
  ASSUME LedgerInv, TradesInv, NEW r \in job.fresh, OpenLot(r)
  PROVE  TradesInv'
<1> DEFINE l == LotIdOf(r)
           lot == LotOf(r)
<1>1. /\ Projecting /\ Unchanged /\ r.kind = "BUY" /\ job.lots[l] = None
      /\ SetLotOf(r, lot) /\ job.lots \in Book /\ r \in Row
  BY JobTypes DEF OpenLot, Turn
<1>2. l \in LotId /\ lot.trade = r.trade
  BY <1>1 DEF LotId, LotOf
<1> HIDE DEF lot
<1>3. /\ job'.fresh = job.fresh \ {r} /\ job'.sales = job.sales
      /\ job'.lots = [job.lots EXCEPT ![l] = lot]
  BY <1>1, JobTypes DEF SetLotOf
<1> HIDE DEF l
<1>4. job'.lots[l] = lot /\ \A m \in LotId : m # l => job'.lots[m] = job.lots[m]
  BY <1>1, <1>2, <1>3 DEF Book
<1>5. \A m \in LotId : job.lots[m] # None => job.lots[m].trade # r.trade
  BY <1>1 DEF TradesInv, LotsApart, l
<1>6. OneLotEach(job.lots) /\ LotsApart(job.lots, job.fresh)
  BY <1>1 DEF TradesInv
<1>7. OneLotEach(job'.lots)
  BY <1>2, <1>4, <1>5, <1>6 DEF OneLotEach
<1>8. LotsApart(job'.lots, job'.fresh)
  <2> SUFFICES ASSUME NEW q \in job.fresh, q # r, q.kind = "BUY", NEW m \in LotId,
                      job'.lots[m] # None, job'.lots[m].trade = q.trade
               PROVE  m = LotIdOf(q)
    BY <1>3 DEF LotsApart
  <2>1. q.trade # r.trade
    BY <1>1 DEF TradesInv
  <2>2. m # l
    BY <1>2, <1>4, <2>1
  <2>3. QED
    BY <1>4, <1>6, <2>2 DEF LotsApart
<1>9. QED
  BY <1>1, <1>3, <1>7, <1>8, SameSales

\* Or finds its own.
LEMMA MergeLotKeepsTrades ==
  ASSUME AccountStatements, Provenance, LedgerInv, ImportInv, TradesInv, NEW r \in job.fresh, MergeLot(r)
  PROVE  TradesInv'
<1> DEFINE l == LotIdOf(r)
           held == job.lots[l]
           m == Merged(r, held)
<1>1. /\ Projecting /\ Unchanged /\ r.kind = "BUY" /\ held # None /\ FromRows(job.lots)
      /\ SetLotOf(r, m) /\ job.lots \in Book /\ r \in Row
  BY JobTypes DEF MergeLot, Turn, ImportInv
<1>2. l \in LotId /\ Opens(l, r)
  BY <1>1 DEF LotId, Opens
<1>3. held \in Lot /\ held.remaining <= held.qty
  BY <1>1, <1>2 DEF Book, LedgerInv, Within
<1>4. PICK s \in Row : Opens(l, s) /\ OpenedBy(held, s)
  BY <1>1, <1>2 DEF FromRows
<1> HIDE DEF l
<1>5. m \in Lot /\ m # None /\ m.trade = held.trade
  <2>1. m \in Lot /\ m # None
    BY <1>1, <1>3, MergedType, NoLotIsNone
  <2>2. r.tranche = None /\ HoldingsAgree
    BY <1>1, NoTranches
  <2>3. m.trade = held.trade
    BY <1>1, <1>2, <1>3, <1>4, <2>2, MergedFollows
  <2>4. QED
    BY <2>1, <2>3
<1> HIDE DEF m
<1>6. /\ job'.fresh = job.fresh \ {r} /\ job'.sales = job.sales
      /\ job'.lots = [job.lots EXCEPT ![l] = m]
  BY <1>1, JobTypes DEF SetLotOf, l
<1>7. SameTrades(job.lots, job'.lots)
  BY <1>1, <1>2, <1>5, <1>6 DEF SameTrades, Book
<1>8. OneLotEach(job'.lots) /\ LotsApart(job'.lots, job'.fresh)
  BY <1>1, <1>6, <1>7, SameTradesKeep DEF TradesInv
<1>9. QED
  BY <1>1, <1>6, <1>8, SameSales

\* A sale adds a disposal of a trade that none has.
LEMMA SellKeepsTrades ==
  ASSUME AccountStatements, LedgerInv, TradesInv, NEW r \in job.fresh, Sell(r)
  PROVE  TradesInv'
<1> DEFINE book == Grown(job.lots, r)
           e == ExitIdOf(r)
<1>1. PICK a \in Allocations(book, r), first \in LotId :
        /\ IsOldest(book, a, first)
        /\ job' = [job EXCEPT !.fresh = @ \ {r}, !.lots = Depleted(book, a),
                              !.sales[e] = ExitOf(r, book, a, first)]
  BY DEF Sell
<1>2. Projecting /\ Unchanged /\ r.kind = "SELL" /\ r \in Row /\ ~Seen(r)
  BY JobTypes DEF Sell, Turn
<1>3. e \in ExitId /\ r.tranche = None
  BY <1>2, NoTranches DEF ExitId
<1>4. book = job.lots /\ book \in Book /\ Within(book)
  BY <1>3 DEF Grown, Shortfall, LedgerInv, TypeOK
<1> HIDE DEF book
<1> DEFINE x == ExitOf(r, book, a, first)
<1>5. x \in Exit /\ x # None
  BY <1>1, <1>2, <1>4, ExitOfType, NoLotIsNone
<1>6. x.trade = r.trade /\ ExitKey(x) = NaturalKey(r)
  BY <1>2, <1>3 DEF ExitOf, ExitKey, NaturalKey, Covers
<1> HIDE DEF x, e
<1>7. /\ job'.fresh = job.fresh \ {r} /\ job'.lots = Depleted(book, a)
      /\ job'.sales = [job.sales EXCEPT ![e] = x]
  BY <1>1, JobTypes DEF x
<1>8. exits[e] = None /\ job.sales[e] = None
  BY <1>2 DEF Seen, e
<1> DEFINE old == Together(exits, job.sales)
           new == Together(exits, job'.sales)
<1>9. old[e] = None /\ new[e] = x /\ \A d \in ExitId : d # e => new[d] = old[d]
  BY <1>3, <1>7, <1>8, JobTypes DEF Together, Disposals
<1>10. ExitsFromRows(old) /\ OneExitEach(old) /\ ExitsApart(old, job.fresh)
  BY <1>2 DEF TradesInv
<1> HIDE DEF old, new
<1>11. ExitsFromRows(new)
  <2> SUFFICES ASSUME NEW d \in ExitId, new[d] # None
               PROVE  \E q \in Row : /\ q.kind = "SELL" /\ ExitIdOf(q) = d
                                     /\ ExitKey(new[d]) = NaturalKey(q) /\ new[d].trade = q.trade
    BY DEF ExitsFromRows
  <2>1. CASE d = e
    BY <1>2, <1>6, <1>9, <2>1 DEF e
  <2>2. CASE d # e
    BY <1>9, <1>10, <2>2 DEF ExitsFromRows
  <2>3. QED
    BY <2>1, <2>2
<1>12. \A d \in ExitId : old[d] # None => old[d].trade # r.trade
  BY <1>2, <1>9, <1>10 DEF ExitsApart, e
<1>13. OneExitEach(new)
  BY <1>3, <1>6, <1>9, <1>10, <1>12 DEF OneExitEach
<1>14. ExitsApart(new, job'.fresh)
  <2> SUFFICES ASSUME NEW q \in job.fresh, q # r, q.kind = "SELL", NEW d \in ExitId,
                      new[d] # None, new[d].trade = q.trade
               PROVE  d = ExitIdOf(q)
    BY <1>7 DEF ExitsApart
  <2>1. q.trade # r.trade
    BY <1>2 DEF TradesInv
  <2>2. d # e
    BY <1>6, <1>9, <2>1
  <2>3. QED
    BY <1>9, <1>10, <2>2 DEF ExitsApart
<1>15. SameTrades(job.lots, job'.lots)
  BY <1>2, <1>4, <1>7, DepletedAlike, AlikeTrades
<1>16. OneLotEach(job'.lots) /\ LotsApart(job'.lots, job'.fresh)
  BY <1>2, <1>7, <1>15, SameTradesKeep DEF TradesInv
<1>17. QED
  BY <1>2, <1>7, <1>11, <1>13, <1>14, <1>16, ProjectKeepsTrades DEF new

\* Or changes nothing.
LEMMA NoSaleKeepsTrades ==
  ASSUME LedgerInv, TradesInv, NEW r \in job.fresh, SkipSeen(r) \/ RejectSale(r)
  PROVE  TradesInv'
<1>1. Projecting /\ Unchanged
  BY DEF SkipSeen, RejectSale, Turn
<1>2. job'.fresh = job.fresh \ {r} /\ job'.lots = job.lots /\ job'.sales = job.sales
  BY JobTypes DEF SkipSeen, RejectSale
<1>3. OneLotEach(job'.lots) /\ LotsApart(job'.lots, job'.fresh)
  BY <1>1, <1>2 DEF TradesInv, LotsApart
<1>4. QED
  BY <1>1, <1>2, <1>3, SameSales
---------------------------------------------------------------------------
\* Saving stores what was projected.
LEMMA SavingKeepsTrades ==
  ASSUME LedgerInv, LedgerInv', TradesInv, SaveLots \/ SaveExits
  PROVE  TradesInv'
<1>1. CASE SaveLots
  <2>1. /\ job'.phase = "exits" /\ job'.lots = job.lots /\ job'.sales = job.sales
        /\ lots' = job.lots /\ exits' = exits
    BY <1>1, JobTypes DEF SaveLots
  <2>2. ~Projecting'
    BY <2>1 DEF Projecting
  <2>3. Together(exits, job.sales)' = Together(exits, job.sales)
    BY <2>1 DEF Together
  <2>4. QED
    BY <2>1, <2>2, <2>3 DEF TradesInv
<1>2. CASE SaveExits
  <2>1. job' = Resting /\ lots' = lots /\ exits' = Together(exits, job.sales)
    BY <1>2 DEF SaveExits, Together
  <2>2. exits' \in Disposals
    BY DEF LedgerInv, TypeOK, Disposals
  <2>3. QED
    BY <2>1, <2>2, RestKeepsTrades DEF TradesInv
<1>3. QED
  BY <1>1, <1>2

\* The stored disposals are among those with the new ones.
LEMMA StoredTrades ==
  ASSUME TradesInv
  PROVE  ExitsFromRows(exits) /\ OneExitEach(exits)
<1>1. \A e \in ExitId : exits[e] # None => Together(exits, job.sales)[e] = exits[e]
  BY DEF Together
<1>2. QED
  BY <1>1 DEF TradesInv, ExitsFromRows, OneExitEach

\* A crash and deletions leave fewer.
LEMMA OthersKeepTrades ==
  ASSUME LedgerInv, LedgerInv', SalesInv, TradesInv,
         Crash \/ (\E e \in ExitId : DeleteExit(e)) \/ DeleteHolding
  PROVE  TradesInv'
<1>0. exits' \in Disposals /\ OneLotEach(lots) /\ ExitsFromRows(exits) /\ OneExitEach(exits)
  BY StoredTrades DEF LedgerInv, TypeOK, Disposals, TradesInv
<1>1. CASE Crash
  <2>1. job' = Resting /\ lots' = lots /\ exits' = exits
    BY <1>1 DEF Crash
  <2>2. QED
    BY <1>0, <2>1, RestKeepsTrades
<1>2. ASSUME NEW e \in ExitId, DeleteExit(e) PROVE TradesInv'
  <2>1. /\ job' = Resting /\ exits' = [exits EXCEPT ![e] = None] /\ exits \in Disposals
        /\ exits[e] \in Exit /\ Restorable(exits[e]) /\ lots' = PutBack(exits[e]) /\ lots \in Book
    BY <1>2, JobTypes DEF DeleteExit, Disposals, SalesInv, Idle
  <2>2. ExitsFromRows(exits') /\ OneExitEach(exits')
    <3>1. \A d \in ExitId : exits'[d] # None => exits'[d] = exits[d]
      BY <2>1 DEF Disposals
    <3>2. QED
      BY <1>0, <3>1 DEF ExitsFromRows, OneExitEach
  <2>3. SameTrades(lots, lots')
    BY <2>1, PutBackAlike, AlikeTrades
  <2>4. OneLotEach(lots')
    BY <1>0, <2>3, SameTradesKeep
  <2>5. QED
    BY <1>0, <2>1, <2>2, <2>4, RestKeepsTrades
<1>3. CASE DeleteHolding
  <2>1. job' = Resting /\ lots' = [l \in LotId |-> None] /\ exits' = NoSales
    BY <1>3 DEF DeleteHolding, SalesInv, Idle, ExitsCascade
  <2>2. QED
    BY <1>0, <2>1, NoLots, NoExits, RestKeepsTrades
<1>4. QED
  BY <1>1, <1>2, <1>3

\* So every step keeps trades once.
LEMMA TradesInductive ==
  ASSUME AccountStatements, Provenance, LedgerInv, LedgerInv', SalesInv, ImportInv, TradesInv, [Next]_vars
  PROVE  TradesInv'
<1>1. CASE \E f \in DOMAIN Files : StartImport(f)
  BY <1>1, ImportKeepsTrades
<1>2. CASE \E t \in Typed, confirmed \in BOOLEAN : StartTrade(t, confirmed)
  BY <1>2, TradeKeepsTrades
<1>3. CASE \E r \in job.fresh : Project(r)
  BY <1>3, OpenLotKeepsTrades, MergeLotKeepsTrades, SellKeepsTrades, NoSaleKeepsTrades DEF Project
<1>4. CASE SaveLots \/ SaveExits
  BY <1>4, SavingKeepsTrades
<1>5. CASE Crash \/ (\E e \in ExitId : DeleteExit(e)) \/ DeleteHolding
  BY <1>5, OthersKeepTrades
<1>6. CASE UNCHANGED vars
  BY <1>6 DEF vars, TradesInv, Together, Projecting
<1>7. QED
  BY <1>1, <1>2, <1>3, <1>4, <1>5, <1>6 DEF Next

(* A trade that any number of overlapping statements report is one lot, or *)
(* one disposal, and so is a trade typed in, across crashes and deletions. *)
THEOREM EveryTradeOnce == Provenance /\ AccountStatements /\ Spec => []NoTradeTwice
<1>1. TradesInv => NoTradeTwice
  BY StoredTrades DEF TradesInv, NoTradeTwice, OneLotEach, OneExitEach, Held, Recorded
<1>2. ASSUME Provenance, AccountStatements
      PROVE  Spec => []NoTradeTwice
  <2>1. Spec => []ImportInv
    BY <1>2, NoTranches, ImportInvariant
  <2>2. LedgerInv /\ LedgerInv' /\ SalesInv /\ ImportInv /\ TradesInv /\ [Next]_vars => TradesInv'
    BY <1>2, TradesInductive
  <2>3. QED
    BY <1>1, <2>1, <2>2, TradesInitially, LedgerInvariant, SalesInvariant, PTL DEF Spec
<1>3. QED
  BY <1>2
---------------------------------------------------------------------------
(* The disposals out of a tranche that the statements name, and the units  *)
(* of each; a full statement of a tranche.                                 *)
SoldOf(t) == {e \in ExitId : e[2] = t}
UnitsSold == [e \in ExitId |-> e[4]]
States(r, t) == r.kind = "BUY" /\ ~r.partial /\ r.tranche = t

(* Statements of a stock plan: every row names its tranche, and a sale its *)
(* order; sales of one key are of one order; a file that reports a sale    *)
(* reports the slice it was made of first; a holdings export states what   *)
(* is left of a tranche, the same size as any other, no slice is larger,   *)
(* and what is not left was sold by the disposals the statements name.     *)
PlanStatements ==
  /\ Typed = {}
  /\ \A r \in FileRows : r.tranche # None /\ (r.kind = "SELL" => r.order # None)
  /\ \A r, s \in FileRows :
       r.kind = "SELL" /\ s.kind = "SELL" /\ NaturalKey(r) = NaturalKey(s) => r.order = s.order
  /\ \A f \in DOMAIN Files : \A r \in Files[f] :
       r.kind = "SELL" => \E s \in Files[f] : s.kind = "BUY" /\ s.tranche = r.tranche /\ Before(s, r)
  /\ \A r \in FileRows : r.kind = "BUY" /\ ~r.partial =>
       /\ r.stated # None
       /\ \A s \in FileRows : s.kind = "BUY" /\ s.tranche = r.tranche =>
            s.qty <= r.qty /\ (~s.partial => s.qty = r.qty)
       /\ IsFiniteSet(SoldOf(r.tranche))
       /\ r.qty = r.stated + SumFunctionOnSet(UnitsSold, SoldOf(r.tranche))

\* A lot is no larger than a full statement of it says, and as large and with
\* as much left once one has been applied.
SizedAsStated(b) ==
  \A l \in LotId : b[l] # None =>
    /\ \A r \in FileRows : States(r, l) =>
         b[l].qty <= r.qty /\ (b[l].stated # None => b[l].qty = r.qty /\ b[l].stated = r.stated)
    /\ b[l].stated # None => \E r \in FileRows : States(r, l)
\* A disposal took what its row sold, from the tranche its row named.
TakenAsNamed(x) ==
  \A e \in ExitId : x[e] # None =>
    /\ x[e].specific
    /\ x[e].alloc = [l \in LotId |-> IF l = e[2] THEN e[4] ELSE 0]
    /\ \E r \in FileRows : /\ r.kind = "SELL" /\ ExitIdOf(r) = e
                           /\ ExitKey(x[e]) = NaturalKey(r) /\ x[e].trade = r.trade

StatedLots(b) == {l \in Held(b) : b[l].stated # None}

PlanInv ==
  /\ Projecting => /\ job.file # None /\ job.fresh \subseteq Files[job.file]
                   /\ job.whole = StatedLots(job.lots)
  /\ ~torn => /\ SizedAsStated(lots) /\ SizedAsStated(job.lots) /\ job.rejected = {}
              /\ TakenAsNamed(exits) /\ TakenAsNamed(job.sales)
---------------------------------------------------------------------------
\* A row of a stock plan.
LEMMA PlanRows ==
  ASSUME PlanStatements, NEW r \in Row
  PROVE  /\ r \in FileRows /\ r.tranche # None /\ r.tranche \in LotId /\ LotIdOf(r) = r.tranche
         /\ r.kind = "SELL" => ExitIdOf(r) = <<r.order, r.tranche, r.date, r.qty>>
<1>1. r \in FileRows
  BY DEF PlanStatements, Row, TypedRows
<1>2. r.tranche # None /\ (r.kind = "SELL" => r.order # None)
  BY <1>1 DEF PlanStatements
<1>3. QED
  BY <1>1, <1>2, RowTypes DEF LotIdOf, ExitIdOf

\* A disposal of a stock plan says what was sold out of which tranche.
LEMMA PlanExits ==
  ASSUME PlanStatements, NEW e \in ExitId
  PROVE  e[2] \in LotId /\ e[2] # None /\ e[4] \in Nat /\ e[4] > 0
<1>1. PICK r \in Row : r.kind = "SELL" /\ e = ExitIdOf(r)
  BY DEF ExitId
<1>2. e = <<r.order, r.tranche, r.date, r.qty>>
  BY <1>1, PlanRows
<1>3. r.tranche \in LotId /\ r.tranche # None
  BY PlanRows
<1>4. r.qty \in Nat /\ r.qty > 0
  BY RowTypes
<1>5. QED
  BY <1>2, <1>3, <1>4

\* Among the rows of one key in a file there is a first.
LEMMA SomeLeads ==
  ASSUME NEW f \in DOMAIN Files, NEW r \in Files[f]
  PROVE  \E q \in Row : Leads(q, f) /\ NaturalKey(q) = NaturalKey(r) /\ q.row <= r.row
<1> DEFINE T == {n \in Nat : \A s \in Files[f] : s.row <= n =>
                   \E q \in Row : Leads(q, f) /\ NaturalKey(q) = NaturalKey(s) /\ q.row <= s.row}
<1>0. \A s \in Files[f] : s \in Row /\ s.row \in Nat
  BY RowsWellFormed DEF Row, FileRows
<1>1. 0 \in T
  <2> SUFFICES ASSUME NEW s \in Files[f], s.row <= 0
               PROVE  \E q \in Row : Leads(q, f) /\ NaturalKey(q) = NaturalKey(s) /\ q.row <= s.row
    OBVIOUS
  <2>1. \A q \in Files[f] : ~(q.row < s.row)
    BY <1>0
  <2>2. Leads(s, f) /\ s.row <= s.row
    BY <1>0, <2>1 DEF Leads
  <2>3. QED
    BY <1>0, <2>2
<1>2. ASSUME NEW k \in Nat, k \in T PROVE k + 1 \in T
  <2> SUFFICES ASSUME NEW s \in Files[f], s.row <= k + 1
               PROVE  \E q \in Row : Leads(q, f) /\ NaturalKey(q) = NaturalKey(s) /\ q.row <= s.row
    OBVIOUS
  <2>1. CASE Leads(s, f)
    <3>1. s.row <= s.row
      BY <1>0
    <3>2. QED
      BY <1>0, <2>1, <3>1
  <2>2. CASE ~Leads(s, f)
    <3>1. PICK t \in Files[f] : t.row < s.row /\ NaturalKey(t) = NaturalKey(s)
      BY <2>2 DEF Leads
    <3>2. t.row <= k /\ t.row \in Nat /\ s.row \in Nat
      BY <1>0, <3>1
    <3>3. PICK q \in Row : Leads(q, f) /\ NaturalKey(q) = NaturalKey(t) /\ q.row <= t.row
      BY <1>2, <3>2
    <3>4. q.row \in Nat
      BY <1>0, <3>3 DEF Leads
    <3>5. q.row <= s.row
      BY <3>1, <3>2, <3>3, <3>4
    <3>6. QED
      BY <3>1, <3>3, <3>5
  <2>3. QED
    BY <2>1, <2>2
<1> HIDE DEF T
<1>3. \A k \in Nat : k \in T
  BY <1>1, <1>2, Counting
<1>4. r.row \in Nat /\ r.row <= r.row
  BY <1>0
<1>5. QED
  BY <1>3, <1>4 DEF T
---------------------------------------------------------------------------
\* What the disposals took from a lot is what was sold out of its tranche.
LEMMA TakenIsSold ==
  ASSUME PlanStatements, NEW x \in Disposals, IsFiniteSet(Recorded(x)), TakenAsNamed(x), NEW l \in LotId
  PROVE  Taken(x, l) = SumFunctionOnSet(UnitsSold, Recorded(x) \cap SoldOf(l))
<1> DEFINE f == [e \in Recorded(x) |-> x[e].alloc[l]]
           D == Recorded(x)
           A == Recorded(x) \cap SoldOf(l)
<1>1. ASSUME NEW e \in D PROVE e \in ExitId /\ f[e] = IF e \in A THEN e[4] ELSE 0
  <2>1. e \in ExitId /\ x[e] # None
    BY DEF Recorded
  <2>2. x[e].alloc = [m \in LotId |-> IF m = e[2] THEN e[4] ELSE 0]
    BY <2>1 DEF TakenAsNamed
  <2>3. e \in A <=> l = e[2]
    BY <2>1 DEF SoldOf
  <2>4. f[e] = x[e].alloc[l]
    OBVIOUS
  <2> HIDE DEF f, A
  <2>5. QED
    BY <2>1, <2>2, <2>3, <2>4
<1>2. \A e \in D : f[e] \in Int
  BY <1>1, PlanExits
<1>3. \A e \in A : f[e] = UnitsSold[e]
  BY <1>1 DEF UnitsSold
<1>4. \A e \in D \ A : f[e] = 0
  BY <1>1
<1>5. Taken(x, l) = SumFunctionOnSet(f, D)
  BY TakenIsSum
<1>6. A \in SUBSET D /\ IsFiniteSet(A)
  BY FS_Subset
<1> HIDE DEF f, A, D
<1>7. SumFunctionOnSet(f, D) = SumFunctionOnSet(f, A)
  BY <1>2, <1>4, <1>6, SumSupport DEF D
<1>8. SumFunctionOnSet(f, A) = SumFunctionOnSet(UnitsSold, A)
  BY <1>3, <1>6, SumSame
<1>9. QED
  BY <1>5, <1>7, <1>8 DEF A, D

\* A disposal not on record leaves its units in the lot.
LEMMA RoomToSell ==
  ASSUME PlanStatements, NEW x \in Disposals, IsFiniteSet(Recorded(x)), TakenAsNamed(x), NEW l \in LotId,
         IsFiniteSet(SoldOf(l)), NEW e \in SoldOf(l), x[e] = None
  PROVE  Taken(x, l) + e[4] <= SumFunctionOnSet(UnitsSold, SoldOf(l))
<1> DEFINE f == UnitsSold
           A == Recorded(x) \cap SoldOf(l)
           B == SoldOf(l) \ A
           C == B \ {e}
<1>1. \A i \in SoldOf(l) : f[i] \in Nat
  BY PlanExits DEF UnitsSold, SoldOf
<1>2. e \in B /\ f[e] = e[4]
  BY DEF UnitsSold, SoldOf, Recorded
<1>3. /\ IsFiniteSet(A) /\ IsFiniteSet(B) /\ IsFiniteSet(C) /\ A \cap B = {} /\ A \cup B = SoldOf(l)
      /\ C \subseteq SoldOf(l)
  BY FS_Subset
<1>4. Taken(x, l) = SumFunctionOnSet(f, A)
  BY TakenIsSold
<1> HIDE DEF f, A, B, C
<1>5. \A i \in A \cup B : f[i] \in Int
  BY <1>1, <1>3
<1>6. SumFunctionOnSet(f, A \cup B) = SumFunctionOnSet(f, A) + SumFunctionOnSet(f, B)
  BY <1>3, <1>5, SumUnion
<1>7. SumFunctionOnSet(f, B) = f[e] + SumFunctionOnSet(f, B \ {e})
  BY <1>2, <1>3, <1>5, SumRemove
<1>8. SumFunctionOnSet(f, C) \in Nat /\ SumFunctionOnSet(f, A) \in Nat /\ f[e] \in Nat
  BY <1>1, <1>2, <1>3, SumNat DEF B
<1>9. SumFunctionOnSet(f, B \ {e}) = SumFunctionOnSet(f, C)
  BY DEF C
<1>10. SumFunctionOnSet(f, A \cup B) = SumFunctionOnSet(f, SoldOf(l))
  BY <1>3, Zenon
<1>11. QED
  BY <1>2, <1>4, <1>6, <1>7, <1>8, <1>9, <1>10 DEF f

\* All on record, all its sales are taken.
LEMMA AllSold ==
  ASSUME PlanStatements, NEW x \in Disposals, IsFiniteSet(Recorded(x)), TakenAsNamed(x), NEW l \in LotId,
         SoldOf(l) \subseteq Recorded(x)
  PROVE  Taken(x, l) = SumFunctionOnSet(UnitsSold, SoldOf(l))
<1>1. Recorded(x) \cap SoldOf(l) = SoldOf(l)
  OBVIOUS
<1>2. SumFunctionOnSet(UnitsSold, Recorded(x) \cap SoldOf(l)) = SumFunctionOnSet(UnitsSold, SoldOf(l))
  BY <1>1, Zenon
<1>3. QED
  BY <1>2, TakenIsSold
---------------------------------------------------------------------------
\* A lot a row of the plan opens or is merged into is as large as stated.
LEMMA LotAsStated ==
  ASSUME PlanStatements, HoldingsAgree, NEW r \in Row, r.kind = "BUY", NEW q \in FileRows,
         States(q, r.tranche)
  PROVE  /\ r.qty <= q.qty /\ q.stated # None
         /\ ~r.partial => r.qty = q.qty /\ r.stated = q.stated
<1>1. r \in FileRows /\ r.tranche # None
  BY PlanRows
<1>2. q.kind = "BUY" /\ ~q.partial /\ q.tranche = r.tranche
  BY DEF States
<1>3. r.qty <= q.qty /\ (~r.partial => r.qty = q.qty) /\ q.stated # None
  BY <1>1, <1>2 DEF PlanStatements
<1>4. ~r.partial => r.stated = q.stated
  BY <1>1, <1>2 DEF HoldingsAgree
<1>5. QED
  BY <1>3, <1>4

\* A slice states nothing of what is left, a full statement does.
LEMMA WholeIfStated ==
  ASSUME PlanStatements, HoldingsAgree, NEW r \in Row, r.kind = "BUY"
  PROVE  r.partial <=> r.stated = None
<1>1. r \in FileRows /\ r.tranche # None
  BY PlanRows
<1>2. r.partial => r.stated = None
  BY <1>1 DEF HoldingsAgree
<1>3. ~r.partial => r.stated # None
  BY <1>1 DEF PlanStatements
<1>4. QED
  BY <1>2, <1>3, RowTypes

\* Whether a lot of tranche t is sized as stated.
FitsStatements(lot, t) ==
  /\ \A r \in FileRows : States(r, t) =>
       lot.qty <= r.qty /\ (lot.stated # None => lot.qty = r.qty /\ lot.stated = r.stated)
  /\ lot.stated # None => \E r \in FileRows : States(r, t)
LEMMA SizedEach == ASSUME NEW b PROVE SizedAsStated(b) <=> \A l \in LotId : b[l] # None => FitsStatements(b[l], l)
BY DEF SizedAsStated, FitsStatements

\* An opened lot fits.
LEMMA OpenedFits ==
  ASSUME PlanStatements, HoldingsAgree, NEW r \in Row, r.kind = "BUY"
  PROVE  FitsStatements(LotOf(r), r.tranche) /\ (LotOf(r).stated # None <=> ~r.partial)
<1>1. LotOf(r).qty = r.qty /\ LotOf(r).stated = r.stated
  BY DEF LotOf
<1>2. r.partial <=> r.stated = None
  BY WholeIfStated
<1>3. \A q \in FileRows : States(q, r.tranche) => r.qty <= q.qty /\ (~r.partial => r.qty = q.qty /\ r.stated = q.stated)
  BY LotAsStated
<1>4. r \in FileRows /\ (~r.partial => States(r, r.tranche))
  BY PlanRows DEF States
<1>5. QED
  BY <1>1, <1>2, <1>3, <1>4 DEF FitsStatements

\* So does a merged one.
LEMMA MergedFits ==
  ASSUME PlanStatements, HoldingsAgree, NEW r \in Row, r.kind = "BUY", NEW held \in Lot,
         FitsStatements(held, r.tranche)
  PROVE  FitsStatements(Merged(r, held), r.tranche)
<1> DEFINE m == Merged(r, held)
<1>1. r.partial <=> r.stated = None
  BY WholeIfStated
<1>2. \A q \in FileRows : States(q, r.tranche) => r.qty <= q.qty /\ (~r.partial => r.qty = q.qty /\ r.stated = q.stated)
  BY LotAsStated
<1>3. r \in FileRows /\ (~r.partial => States(r, r.tranche)) /\ r.qty \in Nat /\ held.qty \in Nat
  BY PlanRows, RowTypes DEF States, Lot
<1>4. CASE r.partial
  <2>1. m.qty = held.qty /\ m.stated = held.stated
    BY <1>1, <1>4, MergedSmaller DEF Sized
  <2> HIDE DEF m
  <2>2. FitsStatements(m, r.tranche)
    BY <2>1 DEF FitsStatements
  <2>3. QED
    BY <2>2 DEF m
<1>5. CASE ~r.partial
  <2>1. held.qty <= r.qty
    BY <1>3, <1>5 DEF FitsStatements
  <2>2. m.qty = r.qty /\ m.stated = r.stated
    <3>1. CASE Sized(r, held)
      <4>1. m.qty = held.qty /\ m.stated = r.stated
        BY <1>1, <1>5, <3>1, MergedSmaller
      <4>2. held.qty = r.qty
        BY <1>3, <1>5, <2>1, <3>1 DEF Sized
      <4>3. QED
        BY <4>1, <4>2
    <3>2. CASE ~Sized(r, held)
      BY <3>2, MergedLarger
    <3>3. QED
      BY <3>1, <3>2
  <2> HIDE DEF m
  <2>3. FitsStatements(m, r.tranche)
    BY <1>2, <1>3, <1>5, <2>2 DEF FitsStatements
  <2>4. QED
    BY <2>3 DEF m
<1>6. QED
  BY <1>4, <1>5

\* Merging leaves a lot stated that was, or that the row states.
LEMMA MergedStated ==
  ASSUME PlanStatements, HoldingsAgree, NEW r \in Row, r.kind = "BUY", NEW held \in Lot
  PROVE  Merged(r, held).stated # None <=> held.stated # None \/ ~r.partial
<1>1. r.partial <=> r.stated = None
  BY WholeIfStated
<1>2. CASE Sized(r, held)
  BY <1>1, <1>2, MergedSmaller
<1>3. CASE ~Sized(r, held)
  BY <1>1, <1>3, MergedLarger DEF Sized
<1>4. QED
  BY <1>2, <1>3
---------------------------------------------------------------------------
\* The tranche of a disposal is the one its row named.
LEMMA TrancheTaken ==
  ASSUME PlanStatements, NEW x, TakenAsNamed(x), NEW e \in ExitId, x[e] # None
  PROVE  TrancheOf(x[e]) = e[2] /\ x[e].alloc[e[2]] > 0
<1>1. x[e].alloc = [l \in LotId |-> IF l = e[2] THEN e[4] ELSE 0]
  BY DEF TakenAsNamed
<1>2. e[2] \in LotId /\ e[4] \in Nat /\ e[4] > 0
  BY PlanExits
<1>3. \A l \in LotId : x[e].alloc[l] > 0 <=> l = e[2]
  BY <1>1, <1>2
<1>4. TrancheOf(x[e]) = e[2]
  BY <1>2, <1>3 DEF TrancheOf
<1>5. QED
  BY <1>2, <1>3, <1>4

\* No key of a lot hides a row of a stock plan.
LEMMA NoLotHides ==
  ASSUME PlanStatements, NEW b, FromRows(b), NEW r
  PROVE  ~LotHides(b, r)
<1> SUFFICES ASSUME NEW l \in LotId, b[l] # None, b[l].tranche = None PROVE FALSE
  BY DEF LotHides
<1>1. PICK s \in Row : Opens(l, s) /\ OpenedBy(b[l], s)
  BY DEF FromRows
<1>2. QED
  BY <1>1, PlanRows DEF OpenedBy

\* A disposal hides the row it was made of, and the slice of its tranche.
LEMMA ExitHidesPlan ==
  ASSUME PlanStatements, NEW x, TakenAsNamed(x), NEW r \in Row, ExitHides(x, r)
  PROVE  \E e \in ExitId : /\ x[e] # None
                           /\ r.kind = "SELL" => e = ExitIdOf(r)
                           /\ r.kind = "BUY" => e[2] = r.tranche
<1>1. PICK e \in ExitId :
        /\ x[e] # None
        /\ Hides(ExitKey(x[e]), r) \/ Hides(SliceKey(x[e]), r)
  BY DEF ExitHides
<1>2. x[e].specific /\ TrancheOf(x[e]) = e[2] /\ e[2] # None
  BY <1>1, TrancheTaken, PlanExits DEF TakenAsNamed
<1>3. PICK s \in FileRows : s.kind = "SELL" /\ ExitIdOf(s) = e /\ ExitKey(x[e]) = NaturalKey(s)
  BY <1>1 DEF TakenAsNamed
<1>4. s \in Row /\ r \in FileRows
  BY PlanRows DEF Row
<1>5. CASE Hides(ExitKey(x[e]), r)
  <2>1. NaturalKey(s) = NaturalKey(r)
    <3>1. s.tranche # None
      BY <1>4, PlanRows
    <3>2. NaturalKey(s) # LooseKey(r)
      BY <3>1 DEF NaturalKey, LooseKey
    <3>3. QED
      BY <1>3, <1>5, <3>2 DEF Hides
  <2>2. r.kind = "SELL" /\ s.date = r.date /\ s.qty = r.qty /\ s.tranche = r.tranche
    BY <1>3, <2>1 DEF NaturalKey
  <2>3. s.order = r.order
    BY <1>3, <1>4, <2>1, <2>2 DEF PlanStatements
  <2>4. ExitIdOf(s) = ExitIdOf(r)
    BY <1>3, <1>4, <2>2, <2>3, PlanRows
  <2>5. QED
    BY <1>1, <1>3, <2>2, <2>4
<1>6. CASE Hides(SliceKey(x[e]), r)
  <2>1. SliceKey(x[e]) # LooseKey(r)
    BY <1>2 DEF SliceKey, LooseKey
  <2>2. r.kind = "BUY" /\ r.tranche = e[2]
    BY <1>2, <1>6, <2>1 DEF Hides, SliceKey, NaturalKey
  <2>3. QED
    BY <1>1, <2>2
<1>7. QED
  BY <1>1, <1>5, <1>6

\* Both halves as named, so are they together.
LEMMA TogetherAsNamed ==
  ASSUME NEW x, NEW y, TakenAsNamed(x), TakenAsNamed(y)
  PROVE  TakenAsNamed(Together(x, y))
<1>1. \A e \in ExitId : Together(x, y)[e] = x[e] \/ Together(x, y)[e] = y[e]
  BY DEF Together
<1>2. QED
  BY <1>1 DEF TakenAsNamed

(* A sale's turn comes after its slice's: the tranche is on the book.      *)
LEMMA SliceFirst ==
  ASSUME PlanStatements, LedgerInv, ImportInv, PlanInv, ~torn, NEW r \in job.fresh, Turn(r, "SELL")
  PROVE  job.lots[r.tranche] # None
<1> DEFINE f == job.file
           x == Together(exits, job.sales)
<1>1. /\ Projecting /\ IsNext(r) /\ r.kind = "SELL" /\ f # None /\ r \in Files[f] /\ r \in Row
  BY JobTypes DEF Turn, PlanInv
<1>2. f \in DOMAIN Files
  BY <1>1 DEF LedgerInv, TypeOK
<1>3. PICK s \in Files[f] : s.kind = "BUY" /\ s.tranche = r.tranche /\ Before(s, r)
  BY <1>1, <1>2 DEF PlanStatements
<1>4. PICK q \in Row : Leads(q, f) /\ NaturalKey(q) = NaturalKey(s) /\ q.row <= s.row
  BY <1>2, SomeLeads
<1>5. q.kind = "BUY" /\ q.date = s.date /\ q.tranche = r.tranche
  BY <1>3, <1>4 DEF NaturalKey
<1>6. /\ r.date \in Nat /\ s.date \in Nat /\ r.row \in Nat /\ s.row \in Nat /\ q.row \in Nat
  BY <1>1, <1>2, <1>3, <1>4, RowsWellFormed DEF FileRows, Leads
<1>7. ~Before(r, q)
  BY <1>1, <1>3, <1>4, <1>5, <1>6 DEF Before
<1>8. q \notin job.fresh
  BY <1>1, <1>5, <1>7 DEF IsNext
<1>9. q \notin job.rejected
  BY DEF PlanInv
<1>10. Settled(q, job.lots, x)
  BY <1>1, <1>4, <1>8, <1>9, ImportParts DEF Handled
<1>11. TakenAsNamed(x)
  BY TogetherAsNamed DEF PlanInv
<1>12. CASE ExitHides(x, q)
  <2>1. PICK e \in ExitId : x[e] # None /\ e[2] = r.tranche
    BY <1>5, <1>11, <1>12, ExitHidesPlan
  <2>2. x[e].alloc[e[2]] > 0 /\ e[2] \in LotId
    BY <1>11, <2>1, TrancheTaken, PlanExits
  <2>3. Names(exits, job.lots) /\ Names(job.sales, job.lots)
    BY <1>1 DEF LedgerInv, Names, Keeps
  <2>4. x[e] = exits[e] \/ x[e] = job.sales[e]
    BY DEF Together
  <2>5. CASE x[e] = exits[e]
    BY <2>1, <2>2, <2>3, <2>5 DEF Names
  <2>6. CASE x[e] = job.sales[e]
    BY <2>1, <2>2, <2>3, <2>6 DEF Names
  <2>7. QED
    BY <2>4, <2>5, <2>6
<1>13. CASE Absorbs(job.lots[LotIdOf(q)], q)
  <2>1. LotIdOf(q) = r.tranche
    BY <1>5, PlanRows
  <2>2. QED
    BY <1>13, <2>1 DEF Absorbs
<1>14. ~LotHides(job.lots, q)
  BY NoLotHides DEF ImportInv
<1>15. QED
  BY <1>5, <1>10, <1>12, <1>13, <1>14 DEF Settled
---------------------------------------------------------------------------
\* Books that differ in what remains are sized alike.
LEMMA AlikeSized ==
  ASSUME NEW b, NEW c, SameBut(b, c)
  PROVE  (SizedAsStated(b) => SizedAsStated(c)) /\ StatedLots(c) = StatedLots(b)
<1>1. \A l \in LotId : c[l] # None => b[l] # None /\ c[l].qty = b[l].qty /\ c[l].stated = b[l].stated
  BY DEF SameBut, Alike
<1>2. \A l \in LotId : b[l] # None => c[l] # None
  BY DEF SameBut
<1>3. \A l \in LotId : c[l] # None => (FitsStatements(b[l], l) <=> FitsStatements(c[l], l))
  BY <1>1 DEF FitsStatements
<1>4. StatedLots(c) = StatedLots(b)
  BY <1>1, <1>2 DEF StatedLots, Held
<1>5. QED
  BY <1>1, <1>3, <1>4, SizedEach

\* Enlarging a tranche states nothing.
LEMMA GrownStated ==
  ASSUME NEW book \in Book, Within(book), NEW r \in Row
  PROVE  StatedLots(Grown(book, r)) = StatedLots(book)
<1>1. \A l \in LotId : Grown(book, r)[l] # None <=> book[l] # None
  BY GrownBook
<1>2. ASSUME NEW l \in LotId, book[l] # None PROVE Grown(book, r)[l].stated = book[l].stated
  <2>1. CASE Shortfall(book, r) = 0 \/ l # r.tranche
    BY <2>1 DEF Grown, Book
  <2>2. CASE Shortfall(book, r) # 0 /\ l = r.tranche
    <3>1. Grown(book, r)[l] = [book[l] EXCEPT !.qty = @ + Shortfall(book, r), !.remaining = @ + Shortfall(book, r)]
      BY <2>2 DEF Grown, Book
    <3>2. QED
      BY <1>2, <3>1 DEF Book, Lot
  <2>3. QED
    BY <2>1, <2>2
<1>3. QED
  BY <1>1, <1>2 DEF StatedLots, Held

\* What the full statements of a tranche leave room for.
LEMMA RoomInTranche ==
  ASSUME PlanStatements, NEW x \in Disposals, IsFiniteSet(Recorded(x)), TakenAsNamed(x),
         NEW r \in Row, r.kind = "SELL", x[ExitIdOf(r)] = None,
         NEW q \in FileRows, States(q, r.tranche)
  PROVE  /\ Taken(x, r.tranche) + r.qty + q.stated <= q.qty
         /\ q.stated \in Nat /\ q.qty \in Nat
<1> DEFINE t == r.tranche
           e == ExitIdOf(r)
           total == SumFunctionOnSet(UnitsSold, SoldOf(t))
<1>1. e \in ExitId /\ e = <<r.order, t, r.date, r.qty>> /\ t \in LotId
  BY PlanRows DEF ExitId
<1>2. e[2] = t /\ e[4] = r.qty /\ e \in SoldOf(t)
  BY <1>1 DEF SoldOf
<1>3. q.kind = "BUY" /\ ~q.partial /\ q.tranche = t
  BY DEF States
<1>4. IsFiniteSet(SoldOf(t)) /\ q.qty = q.stated + total /\ q.stated # None
  BY <1>3 DEF PlanStatements
<1>5. q.stated \in Nat /\ q.qty \in Nat
  BY <1>4, RowsWellFormed
<1> HIDE DEF e
<1>6. Taken(x, t) + e[4] <= total
  BY <1>1, <1>2, <1>4, RoomToSell DEF e
<1>7. Taken(x, t) \in Nat /\ r.qty \in Nat
  BY <1>1, TakenIsNat, RowTypes
<1>8. total \in Int
  <2>1. \A i \in SoldOf(t) : UnitsSold[i] \in Int
    BY PlanExits DEF SoldOf, UnitsSold
  <2>2. QED
    BY <1>4, <2>1, SumInt
<1> HIDE DEF total, t
<1>9. QED
  BY <1>2, <1>4, <1>5, <1>6, <1>7, <1>8 DEF t

(* A sale always finds its tranche large enough: one known from its slices *)
(* is enlarged, and stays as small as any full statement of it; one known  *)
(* whole holds what the disposals not on record will take.                 *)
LEMMA SaleCovered ==
  ASSUME PlanStatements, HoldingsAgree, LedgerInv, SalesInv, ImportInv, PlanInv, ~torn,
         NEW r \in job.fresh, Turn(r, "SELL"), ~Seen(r)
  PROVE  Covers(Grown(job.lots, r), r) /\ SizedAsStated(Grown(job.lots, r))
<1> DEFINE t == r.tranche
           x == Together(exits, job.sales)
           b == job.lots
           n == Shortfall(b, r)
<1>1. r \in Row /\ r.kind = "SELL" /\ Projecting
  BY JobTypes DEF Turn
<1>2. t \in LotId /\ t # None /\ b[t] # None /\ b \in Book /\ Within(b)
  BY <1>1, PlanRows, SliceFirst DEF LedgerInv, TypeOK
<1>3. /\ x \in Disposals /\ IsFiniteSet(Recorded(x)) /\ TakenAsNamed(x)
  BY SalesTypes, TogetherTakes, TogetherAsNamed DEF SalesInv, PlanInv
<1>4. x[ExitIdOf(r)] = None
  <2>1. ExitIdOf(r) \in ExitId
    BY <1>1 DEF ExitId
  <2>2. QED
    BY <2>1 DEF Seen, Together
<1>5. Taken(x, t) = Used(b[t]) /\ Taken(x, t) \in Nat
  BY <1>2, <1>3, TakenIsNat DEF SalesInv, Exact
<1>6. b[t].qty \in Nat /\ b[t].remaining \in Nat /\ r.qty \in Nat
  BY <1>1, <1>2, RowTypes DEF Book, Lot
<1>7. ASSUME NEW q \in FileRows, States(q, t)
      PROVE  Used(b[t]) + r.qty + q.stated <= q.qty /\ q.stated \in Nat /\ q.qty \in Nat
  BY <1>1, <1>3, <1>4, <1>5, <1>7, RoomInTranche
<1>8. SizedAsStated(b) /\ FitsStatements(b[t], t)
  BY <1>2, SizedEach DEF PlanInv
<1>9. t \in job.whole <=> b[t].stated # None
  BY <1>1, <1>2 DEF PlanInv, StatedLots, Held
<1>10. CASE n = 0
  <2>1. Grown(b, r) = b
    BY <1>10 DEF Grown
  <2>2. b[t].remaining >= r.qty
    <3>1. CASE b[t].stated # None
      <4>1. PICK q \in FileRows : States(q, t) /\ b[t].qty = q.qty
        BY <1>8, <3>1 DEF FitsStatements
      <4>2. Used(b[t]) + r.qty + q.stated <= q.qty /\ q.stated \in Nat /\ q.qty \in Nat
        BY <1>7, <4>1
      <4>3. QED
        BY <1>6, <4>1, <4>2 DEF Used
    <3>2. CASE b[t].stated = None
      BY <1>2, <1>6, <1>9, <1>10, <3>2 DEF Shortfall
    <3>3. QED
      BY <3>1, <3>2
  <2>3. QED
    BY <1>2, <1>8, <2>1, <2>2 DEF Covers
<1>11. CASE n # 0
  <2>1. /\ t \notin job.whole /\ r.qty > b[t].remaining /\ n = r.qty - b[t].remaining
    BY <1>11 DEF Shortfall
  <2>2. b[t].stated = None /\ n \in Nat
    BY <1>6, <1>9, <2>1
  <2> DEFINE c == Grown(b, r)
  <2>3. c = [b EXCEPT ![t] = [b[t] EXCEPT !.qty = b[t].qty + n, !.remaining = b[t].remaining + n]]
    BY <1>2, <1>11 DEF Grown, Book
  <2> HIDE DEF n
  <2>4. /\ \A l \in LotId : l # t => c[l] = b[l]
        /\ c[t] = [b[t] EXCEPT !.qty = b[t].qty + n, !.remaining = b[t].remaining + n]
    BY <1>2, <2>3 DEF Book
  <2>5. c[t].qty = b[t].qty + n /\ c[t].remaining = b[t].remaining + n /\ c[t].stated = b[t].stated
    BY <1>2, <2>4 DEF Book, Lot
  <2>6. c[t] # None
    BY <1>1, <1>2, GrownBook
  <2> HIDE DEF c
  <2>7. c[t].remaining >= r.qty
    BY <1>6, <2>1, <2>2, <2>5
  <2>8. \A q \in FileRows : States(q, t) => c[t].qty <= q.qty
    <3>1. ASSUME NEW q \in FileRows, States(q, t) PROVE c[t].qty <= q.qty
      <4>1. Used(b[t]) + r.qty + q.stated <= q.qty /\ q.stated \in Nat /\ q.qty \in Nat
        BY <1>7, <3>1
      <4>2. QED
        BY <1>6, <2>1, <2>2, <2>5, <4>1 DEF Used
    <3>2. QED
      BY <3>1
  <2>9. FitsStatements(c[t], t)
    BY <2>2, <2>5, <2>8 DEF FitsStatements
  <2>10. \A l \in LotId : c[l] # None => FitsStatements(c[l], l)
    <3>1. ASSUME NEW l \in LotId, c[l] # None PROVE FitsStatements(c[l], l)
      <4>1. CASE l = t
        BY <2>9, <4>1
      <4>2. CASE l # t
        BY <1>8, <2>4, <3>1, <4>2, SizedEach
      <4>3. QED
        BY <4>1, <4>2
    <3>2. QED
      BY <3>1
  <2>11. SizedAsStated(c)
    BY <2>10, SizedEach
  <2>12. Covers(c, r)
    BY <1>2, <2>6, <2>7 DEF Covers
  <2>13. QED
    BY <2>11, <2>12 DEF c
<1>12. QED
  BY <1>10, <1>11

\* A disposal made of a row that its tranche covers took what the row sold.
LEMMA ExitAsNamed ==
  ASSUME PlanStatements, NEW book \in Book, NEW r \in Row, r.kind = "SELL", Covers(book, r),
         NEW a \in Allocations(book, r), NEW first
  PROVE  LET x == ExitOf(r, book, a, first)
             e == ExitIdOf(r)
         IN  /\ x.specific
             /\ x.alloc = [l \in LotId |-> IF l = e[2] THEN e[4] ELSE 0]
             /\ ExitKey(x) = NaturalKey(r) /\ x.trade = r.trade
<1> DEFINE x == ExitOf(r, book, a, first)
           e == ExitIdOf(r)
           t == r.tranche
<1>1. e = <<r.order, t, r.date, r.qty>> /\ t \in LotId
  BY PlanRows
<1>2. e[2] = t /\ e[4] = r.qty
  BY <1>1
<1>3. a = [l \in {t} |-> r.qty]
  BY DEF Allocations
<1>4. /\ x.specific /\ x.date = r.date /\ x.qty = r.qty /\ x.padded = r.padded /\ x.price = r.price
      /\ x.trade = r.trade
  BY DEF ExitOf
<1>5. x.alloc = [l \in LotId |-> IF l \in DOMAIN a THEN a[l] ELSE 0]
  BY DEF ExitOf
<1>6. x.alloc = [l \in LotId |-> IF l = t THEN r.qty ELSE 0]
  BY <1>3, <1>5
<1>7. r.qty \in Nat /\ r.qty > 0
  BY RowTypes
<1> HIDE DEF x, e
<1>8. \A l \in LotId : x.alloc[l] > 0 <=> l = t
  BY <1>6, <1>7
<1> HIDE DEF t
<1>9. TrancheOf(x) = t
  BY <1>1, <1>8 DEF TrancheOf
<1>10. ExitKey(x) = NaturalKey(r)
  BY <1>4, <1>9 DEF ExitKey, NaturalKey, t
<1>11. x.alloc = [l \in LotId |-> IF l = e[2] THEN e[4] ELSE 0]
  BY <1>2, <1>6
<1>12. QED
  BY <1>4, <1>10, <1>11 DEF x, e
---------------------------------------------------------------------------
\* Nothing is being done.
LEMMA RestKeepsPlan ==
  ASSUME job' = Resting, ~torn' => SizedAsStated(lots') /\ TakenAsNamed(exits')
  PROVE  PlanInv'
<1>1. SizedAsStated(Resting.lots) /\ TakenAsNamed(Resting.sales) /\ Resting.rejected = {} /\ Resting.phase = "idle"
  BY DEF SizedAsStated, TakenAsNamed, Resting, NoSales
<1>2. ~Projecting' /\ job'.rejected = {} /\ SizedAsStated(job'.lots) /\ TakenAsNamed(job'.sales)
  BY <1>1 DEF Projecting
<1>3. QED
  BY <1>2 DEF PlanInv

\* At first there is nothing to state or to sell.
LEMMA PlanInitially == Init => PlanInv
<1> SUFFICES ASSUME Init PROVE PlanInv
  OBVIOUS
<1>1. /\ job.phase = "idle" /\ job.rejected = {} /\ job.lots = lots /\ job.sales = exits
      /\ lots = [l \in LotId |-> None] /\ exits = NoSales
  BY DEF Init, Resting
<1>2. SizedAsStated(lots) /\ TakenAsNamed(exits)
  BY <1>1 DEF SizedAsStated, TakenAsNamed, NoSales
<1>3. QED
  BY <1>1, <1>2 DEF PlanInv, Projecting

\* An import begins with rows of its file and the lots as stored.
LEMMA ImportKeepsPlan ==
  ASSUME PlanInv, NEW f \in DOMAIN Files, StartImport(f)
  PROVE  PlanInv'
<1>1. /\ job'.phase = "project" /\ job'.file = f /\ job'.fresh = Fresh(Files[f]) /\ job'.lots = lots
      /\ job'.whole = StatedLots(lots) /\ job'.sales = NoSales /\ job'.rejected = {}
      /\ lots' = lots /\ exits' = exits /\ torn' = torn
  BY DEF StartImport, Begin, Resting, StatedLots
<1>2. f # None
  BY NoLotIsNone
<1>3. job'.fresh \subseteq Files[job'.file]
  BY <1>1 DEF Fresh
<1>4. TakenAsNamed(NoSales)
  BY DEF TakenAsNamed, NoSales
<1>5. QED
  BY <1>1, <1>2, <1>3, <1>4 DEF PlanInv

\* A row is applied to the book in memory.
LEMMA ProjectKeepsPlan ==
  ASSUME PlanInv, Projecting, Unchanged,
         job'.file = job.file, job'.fresh \subseteq job.fresh, job'.whole = StatedLots(job'.lots),
         ~torn => SizedAsStated(job'.lots) /\ TakenAsNamed(job'.sales) /\ job'.rejected = {}
  PROVE  PlanInv'
<1>1. lots' = lots /\ exits' = exits /\ torn' = torn
  BY DEF Unchanged
<1>2. QED
  BY <1>1 DEF PlanInv

\* The lot of a purchase row is set.
LEMMA SetLotKeepsPlan ==
  ASSUME PlanStatements, LedgerInv, PlanInv, Projecting, Unchanged, NEW r \in job.fresh, r.kind = "BUY",
         NEW lot \in Lot, SetLotOf(r, lot),
         lot.stated # None <=> r.tranche \in job.whole \/ ~r.partial,
         ~torn => FitsStatements(lot, r.tranche)
  PROVE  PlanInv'
<1> DEFINE l == r.tranche
<1>1. r \in Row /\ l \in LotId /\ LotIdOf(r) = l
  BY JobTypes, PlanRows
<1>2. /\ job'.file = job.file /\ job'.fresh = job.fresh \ {r} /\ job'.rejected = job.rejected
      /\ job'.sales = job.sales /\ job'.whole = WholeAfter(r)
      /\ job'.lots = [job.lots EXCEPT ![l] = lot]
  BY <1>1, JobTypes DEF SetLotOf
<1>3. lot # None /\ job.lots \in Book
  BY NoLotIsNone, JobTypes
<1> HIDE DEF l
<1>4. job'.lots[l] = lot /\ \A m \in LotId : m # l => job'.lots[m] = job.lots[m]
  BY <1>1, <1>2, <1>3 DEF Book
<1>5. job'.whole = StatedLots(job'.lots)
  <2>1. job.whole = StatedLots(job.lots)
    BY DEF PlanInv
  <2>2. ASSUME NEW m \in LotId PROVE m \in job'.whole <=> m \in StatedLots(job'.lots)
    <3>1. CASE m = l
      BY <1>1, <1>2, <1>3, <1>4, <3>1 DEF WholeAfter, StatedLots, Held, l
    <3>2. CASE m # l
      BY <1>1, <1>2, <1>4, <2>1, <3>2 DEF WholeAfter, StatedLots, Held
    <3>3. QED
      BY <3>1, <3>2
  <2>3. job'.whole \subseteq LotId /\ StatedLots(job'.lots) \subseteq LotId
    BY <1>1, <1>2, <2>1 DEF WholeAfter, StatedLots, Held
  <2>4. QED
    BY <2>2, <2>3
<1>6. ~torn => SizedAsStated(job'.lots)
  <2> SUFFICES ASSUME ~torn, NEW m \in LotId, job'.lots[m] # None
               PROVE  FitsStatements(job'.lots[m], m)
    BY SizedEach
  <2>1. CASE m = l
    BY <1>4, <2>1 DEF l
  <2>2. CASE m # l
    BY <1>4, <2>2, SizedEach DEF PlanInv
  <2>3. QED
    BY <2>1, <2>2
<1>7. QED
  BY <1>2, <1>5, <1>6, ProjectKeepsPlan DEF PlanInv

\* A purchase opens a lot of the size its row says.
LEMMA OpenLotKeepsPlan ==
  ASSUME PlanStatements, HoldingsAgree, LedgerInv, PlanInv, NEW r \in job.fresh, OpenLot(r)
  PROVE  PlanInv'
<1>1. /\ Projecting /\ Unchanged /\ r.kind = "BUY" /\ r \in Row /\ SetLotOf(r, LotOf(r))
      /\ job.lots[LotIdOf(r)] = None
  BY JobTypes DEF OpenLot, Turn
<1>2. LotOf(r) \in Lot
  BY <1>1, LotOfType
<1>3. r.tranche \notin job.whole
  BY <1>1, PlanRows DEF PlanInv, StatedLots, Held
<1>4. FitsStatements(LotOf(r), r.tranche) /\ (LotOf(r).stated # None <=> ~r.partial)
  BY <1>1, OpenedFits
<1>5. QED
  BY <1>1, <1>2, <1>3, <1>4, SetLotKeepsPlan

\* Merging brings it to the size stated.
LEMMA MergeLotKeepsPlan ==
  ASSUME PlanStatements, HoldingsAgree, LedgerInv, PlanInv, NEW r \in job.fresh, MergeLot(r)
  PROVE  PlanInv'
<1> DEFINE held == job.lots[r.tranche]
<1>1. /\ Projecting /\ Unchanged /\ r.kind = "BUY" /\ r \in Row
      /\ LotIdOf(r) = r.tranche /\ r.tranche \in LotId /\ held # None /\ SetLotOf(r, Merged(r, held))
  BY JobTypes, PlanRows DEF MergeLot, Turn
<1>2. held \in Lot /\ held.remaining <= held.qty
  BY <1>1, JobTypes DEF Book, LedgerInv, Within
<1>3. Merged(r, held) \in Lot
  BY <1>1, <1>2, MergedType
<1>4. Merged(r, held).stated # None <=> held.stated # None \/ ~r.partial
  BY <1>1, <1>2, MergedStated
<1>5. r.tranche \in job.whole <=> held.stated # None
  BY <1>1 DEF PlanInv, StatedLots, Held
<1>6. ~torn => FitsStatements(held, r.tranche)
  BY <1>1, SizedEach DEF PlanInv
<1> HIDE DEF held
<1>7. ~torn => FitsStatements(Merged(r, held), r.tranche)
  BY <1>1, <1>2, <1>6, MergedFits
<1>8. QED
  BY <1>1, <1>3, <1>4, <1>5, <1>7, SetLotKeepsPlan

\* A sale takes what its row names.
LEMMA SellKeepsPlan ==
  ASSUME PlanStatements, HoldingsAgree, LedgerInv, SalesInv, ImportInv, PlanInv, NEW r \in job.fresh, Sell(r)
  PROVE  PlanInv'
<1> DEFINE book == Grown(job.lots, r)
           e == ExitIdOf(r)
<1>1. PICK a \in Allocations(book, r), first \in LotId :
        /\ IsOldest(book, a, first)
        /\ job' = [job EXCEPT !.fresh = @ \ {r}, !.lots = Depleted(book, a),
                              !.sales[e] = ExitOf(r, book, a, first)]
  BY DEF Sell
<1> DEFINE d == ExitOf(r, book, a, first)
<1>2. Projecting /\ Unchanged /\ r.kind = "SELL" /\ r \in Row /\ Turn(r, "SELL") /\ ~Seen(r)
  BY JobTypes DEF Sell, Turn
<1>3. e \in ExitId /\ r \in FileRows
  BY <1>2, PlanRows DEF ExitId
<1>4. job.lots \in Book /\ Within(job.lots) /\ book \in Book /\ StatedLots(book) = StatedLots(job.lots)
  BY <1>2, GrownBook, GrownStated DEF LedgerInv, TypeOK
<1>5. ~torn => Covers(book, r) /\ SizedAsStated(book)
  BY <1>2, SaleCovered
<1> HIDE DEF book
<1>6. SameBut(book, Depleted(book, a))
  BY <1>2, <1>4, DepletedAlike
<1>7. StatedLots(Depleted(book, a)) = StatedLots(book) /\ (~torn => SizedAsStated(Depleted(book, a)))
  BY <1>5, <1>6, AlikeSized
<1>8. ~torn => /\ d.specific /\ d.alloc = [l \in LotId |-> IF l = e[2] THEN e[4] ELSE 0]
               /\ ExitKey(d) = NaturalKey(r) /\ d.trade = r.trade
  BY <1>2, <1>4, <1>5, ExitAsNamed
<1> HIDE DEF d
<1>9. /\ job'.file = job.file /\ job'.fresh = job.fresh \ {r} /\ job'.rejected = job.rejected
      /\ job'.whole = job.whole /\ job'.lots = Depleted(book, a)
      /\ job'.sales = [job.sales EXCEPT ![e] = d]
  BY <1>1, JobTypes DEF d
<1>10. ~torn => TakenAsNamed(job'.sales)
  <2> SUFFICES ASSUME ~torn, NEW i \in ExitId, job'.sales[i] # None
               PROVE  /\ job'.sales[i].specific
                      /\ job'.sales[i].alloc = [l \in LotId |-> IF l = i[2] THEN i[4] ELSE 0]
                      /\ \E q \in FileRows :
                           /\ q.kind = "SELL" /\ ExitIdOf(q) = i
                           /\ ExitKey(job'.sales[i]) = NaturalKey(q) /\ job'.sales[i].trade = q.trade
    BY DEF TakenAsNamed
  <2>1. CASE i = e
    <3>1. job'.sales[i] = d
      BY <1>3, <1>9, <2>1, JobTypes DEF Disposals
    <3>2. ExitIdOf(r) = i
      BY <2>1
    <3> HIDE DEF e
    <3>3. QED
      BY <1>2, <1>3, <1>8, <2>1, <3>1, <3>2
  <2>2. CASE i # e
    <3>1. job'.sales[i] = job.sales[i]
      BY <1>9, <2>2, JobTypes DEF Disposals
    <3>2. QED
      BY <3>1 DEF PlanInv, TakenAsNamed
  <2>3. QED
    BY <2>1, <2>2
<1>11. job'.whole = StatedLots(job'.lots)
  BY <1>2, <1>4, <1>7, <1>9 DEF PlanInv
<1>12. ~torn => SizedAsStated(job'.lots)
  BY <1>7, <1>9
<1>13. ~torn => job'.rejected = {}
  BY <1>9 DEF PlanInv
<1>14. job'.fresh \subseteq job.fresh /\ job'.file = job.file
  BY <1>9
<1>15. QED
  BY <1>2, <1>10, <1>11, <1>12, <1>13, <1>14, ProjectKeepsPlan

\* No sale is rejected.
LEMMA NoneRejected ==
  ASSUME PlanStatements, HoldingsAgree, LedgerInv, SalesInv, ImportInv, PlanInv, NEW r \in job.fresh, RejectSale(r)
  PROVE  torn
<1> SUFFICES ASSUME ~torn PROVE FALSE
  OBVIOUS
<1>1. Turn(r, "SELL") /\ r \in Row
  BY JobTypes DEF RejectSale
<1>2. r.tranche \in LotId /\ r.kind = "SELL"
  BY <1>1, PlanRows DEF Turn
<1>3. job.lots[r.tranche] # None
  BY <1>1, SliceFirst
<1>4. Held(job.lots) # {}
  BY <1>2, <1>3 DEF Held
<1>5. ~Seen(r) /\ Allocations(Grown(job.lots, r), r) = {}
  BY <1>4 DEF RejectSale
<1>6. Covers(Grown(job.lots, r), r)
  BY <1>1, <1>5, SaleCovered
<1>7. QED
  BY <1>5, <1>6 DEF Allocations

\* Skipping or rejecting a sale changes nothing else.
LEMMA NoSaleKeepsPlan ==
  ASSUME PlanStatements, HoldingsAgree, LedgerInv, SalesInv, ImportInv, PlanInv,
         NEW r \in job.fresh, SkipSeen(r) \/ RejectSale(r)
  PROVE  PlanInv'
<1>1. Projecting /\ Unchanged
  BY DEF SkipSeen, RejectSale, Turn
<1>2. /\ job'.file = job.file /\ job'.fresh = job.fresh \ {r} /\ job'.lots = job.lots
      /\ job'.sales = job.sales /\ job'.whole = job.whole
      /\ SkipSeen(r) => job'.rejected = job.rejected
  BY JobTypes DEF SkipSeen, RejectSale
<1>3. ~torn => job'.rejected = {}
  BY <1>2, NoneRejected DEF PlanInv
<1>4. job'.whole = StatedLots(job'.lots)
  BY <1>1, <1>2 DEF PlanInv
<1>5. ~torn => SizedAsStated(job'.lots) /\ TakenAsNamed(job'.sales)
  BY <1>2 DEF PlanInv
<1>6. QED
  BY <1>1, <1>2, <1>3, <1>4, <1>5, ProjectKeepsPlan

\* The rest of the steps store what was projected, drop it, or undo it.
LEMMA OthersKeepPlan ==
  ASSUME LedgerInv, SalesInv, PlanInv,
         SaveLots \/ SaveExits \/ Crash \/ (\E e \in ExitId : DeleteExit(e)) \/ DeleteHolding
  PROVE  PlanInv'
<1>1. CASE SaveLots
  <2>1. /\ job'.phase = "exits" /\ job'.rejected = job.rejected /\ job'.lots = job.lots
        /\ job'.sales = job.sales /\ lots' = job.lots /\ exits' = exits /\ torn' = torn
    BY <1>1, JobTypes DEF SaveLots
  <2>2. ~Projecting'
    BY <2>1 DEF Projecting
  <2>3. QED
    BY <2>1, <2>2 DEF PlanInv
<1>2. CASE SaveExits
  <2>1. job' = Resting /\ lots' = lots /\ exits' = Together(exits, job.sales) /\ torn' = torn
    BY <1>2 DEF SaveExits, Together
  <2>2. ~torn => TakenAsNamed(Together(exits, job.sales))
    BY TogetherAsNamed DEF PlanInv
  <2>3. ~torn' => SizedAsStated(lots') /\ TakenAsNamed(exits')
    BY <2>1, <2>2 DEF PlanInv
  <2>4. QED
    BY <2>1, <2>3, RestKeepsPlan
<1>3. CASE Crash
  <2>1. job' = Resting /\ lots' = lots /\ exits' = exits /\ (~torn' => ~torn)
    BY <1>3 DEF Crash
  <2>2. QED
    BY <2>1, RestKeepsPlan DEF PlanInv
<1>4. CASE \E e \in ExitId : DeleteExit(e)
  <2>1. PICK e \in ExitId : DeleteExit(e)
    BY <1>4
  <2>2. /\ job' = Resting /\ torn' = torn /\ lots' = PutBack(exits[e]) /\ exits' = [exits EXCEPT ![e] = None]
        /\ exits[e] # None /\ Restorable(exits[e])
    BY <2>1 DEF DeleteExit, Idle, SalesInv
  <2>3. exits \in Disposals /\ exits[e] \in Exit /\ lots \in Book
    BY <2>2, JobTypes DEF Disposals
  <2>4. SameBut(lots, lots')
    BY <2>2, <2>3, PutBackAlike
  <2>5. SizedAsStated(lots) => SizedAsStated(lots')
    BY <2>4, AlikeSized
  <2>6. \A i \in ExitId : exits'[i] # None => exits'[i] = exits[i]
    BY <2>2, <2>3 DEF Disposals
  <2>7. TakenAsNamed(exits) => TakenAsNamed(exits')
    BY <2>6 DEF TakenAsNamed
  <2>8. QED
    BY <2>2, <2>5, <2>7, RestKeepsPlan DEF PlanInv
<1>5. CASE DeleteHolding
  <2>1. job' = Resting /\ lots' = [l \in LotId |-> None] /\ exits' = NoSales
    BY <1>5 DEF DeleteHolding, Idle, SalesInv, ExitsCascade
  <2>2. SizedAsStated(lots') /\ TakenAsNamed(exits')
    BY <2>1 DEF SizedAsStated, TakenAsNamed, NoSales
  <2>3. QED
    BY <2>1, <2>2, RestKeepsPlan
<1>6. QED
  BY <1>1, <1>2, <1>3, <1>4, <1>5

\* So every step keeps the invariant.
LEMMA PlanInductive ==
  ASSUME PlanStatements, HoldingsAgree, LedgerInv, SalesInv, ImportInv, PlanInv, [Next]_vars
  PROVE  PlanInv'
<1>1. CASE \E f \in DOMAIN Files : StartImport(f)
  BY <1>1, ImportKeepsPlan
<1>2. CASE \E t \in Typed, confirmed \in BOOLEAN : StartTrade(t, confirmed)
  BY <1>2 DEF PlanStatements
<1>3. CASE \E r \in job.fresh : Project(r)
  BY <1>3, OpenLotKeepsPlan, MergeLotKeepsPlan, SellKeepsPlan, NoSaleKeepsPlan DEF Project
<1>4. CASE SaveLots \/ SaveExits \/ Crash \/ (\E e \in ExitId : DeleteExit(e)) \/ DeleteHolding
  BY <1>4, OthersKeepPlan
<1>5. CASE UNCHANGED vars
  BY <1>5 DEF vars, PlanInv, Projecting
<1>6. QED
  BY <1>1, <1>2, <1>3, <1>4, <1>5 DEF Next

\* Every disposal the statements name is on record once all are imported.
LEMMA EverySaleOnRecord ==
  ASSUME PlanStatements, ImportInv, PlanInv, ~torn, imported = DOMAIN Files, NEW e \in ExitId
  PROVE  exits[e] # None
<1>1. PICK r \in Row : r.kind = "SELL" /\ e = ExitIdOf(r)
  BY DEF ExitId
<1>2. PICK f \in DOMAIN Files : r \in Files[f]
  BY PlanRows DEF FileRows
<1>3. PICK q \in Row : Leads(q, f) /\ NaturalKey(q) = NaturalKey(r)
  BY <1>2, SomeLeads
<1>4. q.kind = "SELL" /\ q.date = r.date /\ q.qty = r.qty /\ q.tranche = r.tranche
  BY <1>1, <1>3 DEF NaturalKey
<1>5. q \in FileRows /\ r \in FileRows
  BY PlanRows
<1>6. q.order = r.order
  BY <1>1, <1>3, <1>4, <1>5 DEF PlanStatements
<1>7. ExitIdOf(q) = e
  BY <1>1, <1>4, <1>6, PlanRows
<1>8. Settled(q, lots, exits)
  BY <1>3 DEF ImportInv
<1>9. ~LotHides(lots, q)
  BY NoLotHides DEF ImportInv
<1>10. CASE ExitHides(exits, q)
  BY <1>4, <1>7, <1>10, ExitHidesPlan DEF PlanInv
<1>11. QED
  BY <1>4, <1>7, <1>8, <1>9, <1>10 DEF Settled

\* All in, what is not left of a tranche is what was sold out of it.
LEMMA AllInAgrees ==
  ASSUME PlanStatements, LedgerInv, SalesInv, ImportInv, PlanInv
  PROVE  AgreesWithBroker
<1> SUFFICES ASSUME imported = DOMAIN Files, Idle, ~torn, NEW l \in Held(lots), lots[l].stated # None
             PROVE  lots[l].remaining = lots[l].stated
  BY DEF AgreesWithBroker
<1> DEFINE total == SumFunctionOnSet(UnitsSold, SoldOf(l))
<1>1. l \in LotId /\ lots[l] # None /\ lots[l] \in Lot
  BY JobTypes DEF Held, Book
<1>2. PICK q \in FileRows : States(q, l) /\ lots[l].qty = q.qty /\ lots[l].stated = q.stated
  BY <1>1, SizedEach DEF PlanInv, FitsStatements
<1>3. q.qty = q.stated + total /\ q.stated # None /\ IsFiniteSet(SoldOf(l))
  BY <1>2 DEF PlanStatements, States
<1>4. SoldOf(l) \subseteq Recorded(exits)
  BY EverySaleOnRecord DEF SoldOf, Recorded
<1>5. exits \in Disposals /\ IsFiniteSet(Recorded(exits)) /\ TakenAsNamed(exits)
  BY JobTypes DEF SalesInv, PlanInv
<1>6. Taken(exits, l) = total
  BY <1>1, <1>4, <1>5, AllSold
<1>7. Taken(exits, l) = Used(lots[l])
  BY <1>1 DEF SalesInv, Exact, Idle
<1>8. q.stated \in Nat /\ Taken(exits, l) \in Nat
  BY <1>1, <1>2, <1>3, <1>5, TakenIsNat, RowsWellFormed
<1> HIDE DEF total
<1>9. QED
  BY <1>1, <1>2, <1>3, <1>6, <1>7, <1>8 DEF Used, Lot

(* Once all statements of a stock plan are in, each tranche a holdings     *)
(* export stated holds what the export says is left of it: in any order,   *)
(* with exports that overlap or come twice, slices and sales before or     *)
(* after the holdings, disposals undone and imported again, and imports    *)
(* cut short between rows.                                                 *)
THEOREM RemainderAsStated ==
  Provenance /\ HoldingsAgree /\ PlanStatements /\ Spec => []AgreesWithBroker
<1>1. ASSUME Provenance, HoldingsAgree, PlanStatements
      PROVE  Spec => []AgreesWithBroker
  <2>1. Spec => []ImportInv
    BY <1>1, ImportInvariant
  <2>2. LedgerInv /\ SalesInv /\ ImportInv /\ PlanInv /\ [Next]_vars => PlanInv'
    BY <1>1, PlanInductive
  <2>3. LedgerInv /\ SalesInv /\ ImportInv /\ PlanInv => AgreesWithBroker
    BY <1>1, AllInAgrees
  <2>4. QED
    BY <2>1, <2>2, <2>3, PlanInitially, LedgerInvariant, SalesInvariant, PTL DEF Spec
<1>2. QED
  BY <1>1
---------------------------------------------------------------------------
(* The rows that state one tranche are of one vest, those of one disposal  *)
(* of one sale.                                                            *)
PlanTrades ==
  \A r, s \in FileRows : r.kind = s.kind =>
    /\ r.kind = "BUY" /\ r.tranche = s.tranche => r.trade = s.trade
    /\ r.kind = "SELL" /\ ExitIdOf(r) = ExitIdOf(s) => r.trade = s.trade

\* A lot on the book is of the vest its rows state.
LEMMA LotPlaced ==
  ASSUME PlanStatements, PlanTrades, NEW b, FromRows(b), NEW r \in FileRows, r.kind = "BUY",
         b[r.tranche] # None
  PROVE  \E l \in Held(b) : b[l].trade = r.trade
<1>1. r \in Row
  BY DEF Row
<1>2. r.tranche \in LotId
  BY <1>1, PlanRows
<1>3. PICK s \in Row : Opens(r.tranche, s) /\ OpenedBy(b[r.tranche], s)
  BY <1>2 DEF FromRows
<1>4. s \in FileRows /\ s.kind = "BUY" /\ s.tranche = r.tranche
  BY <1>3, PlanRows DEF Opens
<1>5. b[r.tranche].trade = r.trade
  BY <1>3, <1>4 DEF OpenedBy, PlanTrades
<1>6. QED
  BY <1>2, <1>5 DEF Held

\* A disposal on record is of the sale its rows state.
LEMMA SalePlaced ==
  ASSUME PlanTrades, NEW x, TakenAsNamed(x), NEW r \in FileRows, r.kind = "SELL",
         x[ExitIdOf(r)] # None
  PROVE  \E e \in ExitId : x[e] # None /\ x[e].trade = r.trade
<1>1. ExitIdOf(r) \in ExitId
  BY DEF ExitId, Row
<1>2. PICK s \in FileRows : s.kind = "SELL" /\ ExitIdOf(s) = ExitIdOf(r) /\ x[ExitIdOf(r)].trade = s.trade
  BY <1>1 DEF TakenAsNamed
<1>3. QED
  BY <1>1, <1>2 DEF PlanTrades

\* Saving the disposals is all that can finish an import.
LEMMA OnlySaving ==
  ASSUME LedgerInv, Next, Finishing
  PROVE  SaveExits
<1>1. ~Idle /\ ~Projecting
  BY DEF Finishing, Idle, Projecting
<1>2. ~Crash
  BY DEF Crash, Finishing, LedgerInv, TypeOK
<1>3. QED
  BY <1>1, <1>2 DEF Next, StartImport, StartTrade, Project, OpenLot, MergeLot, Sell, SkipSeen, RejectSale,
                    Turn, SaveLots, Projected, DeleteExit, DeleteHolding

\* Every row of the import is placed.
LEMMA AllPlaced ==
  ASSUME PlanStatements, PlanTrades, LedgerInv, ImportInv, PlanInv, SaveExits, ~torn,
         job.file # None, NEW r \in Files[job.file]
  PROVE  Placed(r)
<1> DEFINE x == Together(exits, job.sales)
<1>1. job.phase = "exits" /\ job.fresh = {} /\ job.rejected = {} /\ job.lots = lots
      /\ TakenAsNamed(x) /\ Names(x, lots)
  <2>1. Names(exits, lots) /\ Names(job.sales, lots)
    BY DEF SaveExits, LedgerInv
  <2>2. Names(x, lots)
    BY <2>1 DEF Names, Together
  <2>3. QED
    BY <2>2, TogetherAsNamed DEF SaveExits, LedgerInv, ImportInv, PlanInv
<1>2. exits' = x
  BY DEF SaveExits, Together
<1>3. job.file \in DOMAIN Files
  BY DEF LedgerInv, TypeOK
<1>4. PICK q \in Row : Leads(q, job.file) /\ NaturalKey(q) = NaturalKey(r)
  BY <1>3, SomeLeads
<1>5. Settled(q, lots, x) /\ ~LotHides(lots, q)
  BY <1>1, <1>4, NoLotHides DEF ImportInv
<1>6. /\ r \in FileRows /\ q \in FileRows /\ r \in Row /\ q.kind = r.kind /\ q.tranche = r.tranche
      /\ q.date = r.date /\ q.qty = r.qty
  BY <1>3, <1>4, PlanRows DEF NaturalKey, FileRows, Row
<1> HIDE DEF x
<1>7. CASE r.kind = "BUY"
  <2>1. lots[r.tranche] # None
    <3>1. CASE ExitHides(x, q)
      <4>1. PICK e \in ExitId : x[e] # None /\ e[2] = r.tranche
        BY <1>1, <1>6, <1>7, <3>1, ExitHidesPlan
      <4>2. x[e].alloc[e[2]] > 0 /\ e[2] \in LotId
        BY <1>1, <4>1, TrancheTaken, PlanExits
      <4>3. QED
        BY <1>1, <4>1, <4>2 DEF Names
    <3>2. CASE Absorbs(lots[LotIdOf(q)], q)
      BY <1>6, <3>2, PlanRows DEF Absorbs
    <3>3. QED
      BY <1>5, <1>6, <1>7, <3>1, <3>2 DEF Settled
  <2>2. FromRows(lots)
    BY DEF ImportInv
  <2>3. \E l \in Held(lots) : lots[l].trade = r.trade
    BY <1>6, <1>7, <2>1, <2>2, LotPlaced
  <2>4. QED
    BY <1>7, <2>3 DEF Placed
<1>8. CASE r.kind = "SELL"
  <2>1. ExitIdOf(q) = ExitIdOf(r)
    <3>1. q.order = r.order
      BY <1>4, <1>6, <1>8 DEF PlanStatements
    <3>2. QED
      BY <1>6, <1>8, <3>1, PlanRows
  <2>2. x[ExitIdOf(r)] # None
    <3>1. CASE ExitHides(x, q)
      BY <1>1, <1>6, <1>8, <2>1, <3>1, ExitHidesPlan
    <3>2. QED
      BY <1>5, <1>6, <1>8, <2>1, <3>1 DEF Settled
  <2>3. \E e \in ExitId : x[e] # None /\ x[e].trade = r.trade
    BY <1>1, <1>6, <1>8, <2>2, SalePlaced
  <2>4. QED
    BY <1>2, <1>8, <2>3 DEF Placed
<1>9. r.kind \in {"BUY", "SELL"}
  BY <1>6, RowsWellFormed
<1>10. QED
  BY <1>7, <1>8, <1>9

(* When an import of a stock plan's statements is done, every row of the   *)
(* file is on the ledger: its vest has a lot, its sale a disposal; none is *)
(* dropped as a duplicate of another's and none is rejected.               *)
THEOREM EveryRowPlaced ==
  Provenance /\ HoldingsAgree /\ PlanStatements /\ PlanTrades /\ Spec => NothingAbsorbed
<1>1. ASSUME Provenance, HoldingsAgree, PlanStatements, PlanTrades
      PROVE  Spec => NothingAbsorbed
  <2>1. Spec => []ImportInv
    BY <1>1, ImportInvariant
  <2>2. LedgerInv /\ SalesInv /\ ImportInv /\ PlanInv /\ [Next]_vars => PlanInv'
    BY <1>1, PlanInductive
  <2>3. LedgerInv /\ SalesInv /\ ImportInv /\ PlanInv /\ [Next]_vars =>
          [Finishing /\ job.file # None /\ ~torn =>
             \A r \in Files[job.file] : Placed(r) \/ r \in job.rejected]_vars
    BY <1>1, OnlySaving, AllPlaced
  <2>4. QED
    BY <2>1, <2>2, <2>3, PlanInitially, LedgerInvariant, SalesInvariant, PTL DEF Spec, NothingAbsorbed
<1>2. QED
  BY <1>1
---------------------------------------------------------------------------
\* The tokens of typed trades stand for no file.
TokensApart == \A r \in FileRows, s \in TypedRows : r.src # s.src

(* The purchases a user types in, the lot of one, the lots of its key.     *)
(* A fill has a lot only while at least as many lots have its key as its   *)
(* token counted, and itself.                                              *)
TypedBuys == {t \in Typed : t.kind = "BUY"}
FillOf(t, n) == <<Token(t, n), 1>>
LotsLike(b, t) == {l \in Held(b) : LotKey(b[l]) = NaturalKey(TokenRow(t, 0))}
Counted(b) ==
  /\ IsFiniteSet(Held(b))
  /\ \A t \in TypedBuys, n \in 0..MaxFills : b[FillOf(t, n)] # None => n < Cardinality(LotsLike(b, t))

FillsInv ==
  /\ Counted(lots) /\ Counted(job.lots)
  /\ Projecting =>
       \/ job.fresh \subseteq FileRows
       \/ \E t \in Typed, n \in 0..MaxFills :
            /\ job.fresh = {TokenRow(t, n)}
            /\ t.kind = "BUY" => n = Cardinality(LotsLike(job.lots, t))
---------------------------------------------------------------------------
\* The row of a fill, and its lot.
LEMMA FillRow ==
  ASSUME NEW t \in Typed, NEW n \in 0..MaxFills
  PROVE  /\ TokenRow(t, n) \in TypedRows /\ TokenRow(t, n) \in Row
         /\ PlaceOf(TokenRow(t, n)) = FillOf(t, n) /\ LotIdOf(TokenRow(t, n)) = FillOf(t, n)
         /\ TokenRow(t, n).kind = t.kind /\ TokenRow(t, n).src = <<t, n>>
         /\ t.kind = "BUY" => FillOf(t, n) \in LotId
<1>1. TokenRow(t, n) \in TypedRows
  BY DEF TypedRows
<1>2. TokenRow(t, n) \in Row
  BY <1>1 DEF Row
<1>3. /\ TokenRow(t, n).kind = t.kind /\ TokenRow(t, n).src = <<t, n>> /\ TokenRow(t, n).row = 1
      /\ TokenRow(t, n).tranche = None
  BY DEF TokenRow, Token
<1>4. PlaceOf(TokenRow(t, n)) = FillOf(t, n) /\ LotIdOf(TokenRow(t, n)) = FillOf(t, n)
  BY <1>3 DEF PlaceOf, LotIdOf, FillOf, Token
<1>5. t.kind = "BUY" => LotIdOf(TokenRow(t, n)) \in LotId
  BY <1>2, <1>3 DEF LotId
<1>6. QED
  BY <1>1, <1>2, <1>3, <1>4, <1>5

\* No row of a file opens it.
LEMMA FillsApart ==
  ASSUME Provenance, TokensApart, NEW r \in FileRows, NEW t \in TypedBuys, NEW n \in 0..MaxFills
  PROVE  LotIdOf(r) # FillOf(t, n)
<1> DEFINE s == TokenRow(t, n)
<1>1. t \in Typed /\ r \in Row
  BY DEF TypedBuys, Row
<1>2. s \in TypedRows /\ s \in Row /\ PlaceOf(s) = FillOf(t, n)
  BY <1>1, FillRow
<1> HIDE DEF s
<1>3. r.src # s.src /\ r.tranche # PlaceOf(s)
  BY <1>1, <1>2 DEF TokensApart, Provenance
<1>4. PlaceOf(r) # PlaceOf(s)
  BY <1>3 DEF PlaceOf
<1>5. QED
  BY <1>2, <1>3, <1>4 DEF LotIdOf, PlaceOf

\* Lots that keep their keys stay alike.
LEMMA LikeStay ==
  ASSUME NEW b \in Book, NEW c \in Book, Extends(b, c), NEW t
  PROVE  LotsLike(b, t) \subseteq LotsLike(c, t)
<1> SUFFICES ASSUME NEW l \in LotsLike(b, t) PROVE l \in LotsLike(c, t)
  OBVIOUS
<1>1. l \in LotId /\ b[l] # None /\ LotKey(b[l]) = NaturalKey(TokenRow(t, 0))
  BY DEF LotsLike, Held
<1>2. b[l].tranche = None
  BY <1>1 DEF LotKey, NaturalKey, TokenRow
<1>3. c[l] # None /\ LotKey(c[l]) = LotKey(b[l])
  BY <1>1, <1>2 DEF Extends, Outgrows
<1>4. QED
  BY <1>1, <1>3 DEF LotsLike, Held

\* Lots alike are counted.
LEMMA LikeCount ==
  ASSUME NEW b, IsFiniteSet(Held(b)), NEW t
  PROVE  IsFiniteSet(LotsLike(b, t)) /\ Cardinality(LotsLike(b, t)) \in Nat
<1>1. LotsLike(b, t) \subseteq Held(b)
  BY DEF LotsLike
<1>2. QED
  BY <1>1, FS_Subset, FS_CardinalityType

\* The count is kept by what opens no fill that is not counted.
LEMMA CountedStays ==
  ASSUME NEW b \in Book, NEW c \in Book, Counted(b), Extends(b, c), IsFiniteSet(Held(c)),
         \A t \in TypedBuys, n \in 0..MaxFills :
           c[FillOf(t, n)] # None => b[FillOf(t, n)] # None \/ n < Cardinality(LotsLike(c, t))
  PROVE  Counted(c)
<1> SUFFICES ASSUME NEW t \in TypedBuys, NEW n \in 0..MaxFills, c[FillOf(t, n)] # None,
                    b[FillOf(t, n)] # None
             PROVE  n < Cardinality(LotsLike(c, t))
  BY DEF Counted
<1>1. n < Cardinality(LotsLike(b, t)) /\ IsFiniteSet(Held(b))
  BY DEF Counted
<1>2. LotsLike(b, t) \subseteq LotsLike(c, t)
  BY LikeStay
<1>3. IsFiniteSet(LotsLike(c, t)) /\ Cardinality(LotsLike(c, t)) \in Nat /\ Cardinality(LotsLike(b, t)) \in Nat
  BY <1>1, LikeCount
<1>4. Cardinality(LotsLike(b, t)) <= Cardinality(LotsLike(c, t))
  BY <1>2, <1>3, FS_Subset
<1>5. n \in Nat
  BY LedgerConstants
<1>6. QED
  BY <1>1, <1>3, <1>4, <1>5

\* An empty book has no fills.
LEMMA NoneCounted == Counted([l \in LotId |-> None])
<1> DEFINE b == [l \in LotId |-> None]
<1>1. Held(b) = {}
  BY DEF Held
<1>2. ASSUME NEW t \in TypedBuys, NEW n \in 0..MaxFills PROVE b[FillOf(t, n)] = None
  BY FillRow DEF TypedBuys
<1>3. IsFiniteSet(Held(b))
  BY <1>1, FS_EmptySet
<1> HIDE DEF b
<1>4. Counted(b)
  BY <1>2, <1>3 DEF Counted
<1>5. QED
  BY <1>4 DEF b

\* A book with the same lots in which only what remains differs.
LEMMA SameCounted ==
  ASSUME NEW b \in Book, NEW c \in Book, SameBut(b, c), Counted(b)
  PROVE  Counted(c)
<1>1. Extends(b, c)
  BY AlikeFollows
<1>2. Held(c) = Held(b)
  BY DEF SameBut, Held
<1>3. IsFiniteSet(Held(c))
  BY <1>2 DEF Counted
<1>4. ASSUME NEW t \in TypedBuys, NEW n \in 0..MaxFills, c[FillOf(t, n)] # None
      PROVE  b[FillOf(t, n)] # None
  BY <1>4, FillRow DEF SameBut, TypedBuys
<1>5. QED
  BY <1>1, <1>3, <1>4, CountedStays
---------------------------------------------------------------------------
\* The lot a fill is about to open is not there.
LEMMA FillOpens ==
  ASSUME FillsInv, TokensApart, Projecting, NEW r \in job.fresh, r \notin FileRows
  PROVE  \E t \in Typed, n \in 0..MaxFills :
           /\ r = TokenRow(t, n) /\ job.fresh = {r}
           /\ t.kind = "BUY" => /\ job.lots[FillOf(t, n)] = None
                                /\ n = Cardinality(LotsLike(job.lots, t))
<1>1. PICK t \in Typed, n \in 0..MaxFills :
        /\ job.fresh = {TokenRow(t, n)}
        /\ t.kind = "BUY" => n = Cardinality(LotsLike(job.lots, t))
  BY DEF FillsInv
<1>2. ASSUME t.kind = "BUY" PROVE job.lots[FillOf(t, n)] = None
  <2>1. ~(n < Cardinality(LotsLike(job.lots, t)))
    BY <1>1, <1>2, LedgerConstants
  <2>2. QED
    BY <1>2, <2>1 DEF FillsInv, Counted, TypedBuys
<1>3. QED
  BY <1>1, <1>2

\* Setting the lot of a row of a file.
LEMMA SetLotCounted ==
  ASSUME NEW b \in Book, Counted(b), NEW l \in LotId, NEW lot \in Lot,
         Extends(b, [b EXCEPT ![l] = lot]),
         \A t \in TypedBuys, n \in 0..MaxFills :
           l = FillOf(t, n) /\ b[l] = None => n < Cardinality(LotsLike([b EXCEPT ![l] = lot], t))
  PROVE  Counted([b EXCEPT ![l] = lot])
<1> DEFINE c == [b EXCEPT ![l] = lot]
<1>1. c \in Book /\ c[l] = lot /\ \A m \in LotId : m # l => c[m] = b[m]
  BY DEF Book
<1> HIDE DEF c
<1>2. Held(c) \subseteq Held(b) \cup {l}
  BY <1>1 DEF Held
<1>3. IsFiniteSet(Held(b) \cup {l})
  BY FS_AddElement DEF Counted
<1>4. IsFiniteSet(Held(c))
  BY <1>2, <1>3, FS_Subset
<1>5. ASSUME NEW t \in TypedBuys, NEW n \in 0..MaxFills, c[FillOf(t, n)] # None
      PROVE  b[FillOf(t, n)] # None \/ n < Cardinality(LotsLike(c, t))
  <2>1. FillOf(t, n) \in LotId
    BY FillRow DEF TypedBuys
  <2>2. QED
    BY <1>1, <1>5, <2>1 DEF c
<1>6. Extends(b, c)
  BY DEF c
<1>7. Counted(c)
  BY <1>1, <1>4, <1>5, <1>6, CountedStays
<1>8. QED
  BY <1>7 DEF c

\* A row is applied to the book in memory.
LEMMA ProjectKeepsFills ==
  ASSUME FillsInv, TokensApart, Projecting, Unchanged, NEW r \in job.fresh,
         job'.fresh = job.fresh \ {r}, Counted(job'.lots)
  PROVE  FillsInv'
<1>1. lots' = lots
  BY DEF Unchanged
<1>2. job'.fresh \subseteq FileRows
  BY FillOpens DEF FillsInv
<1>3. QED
  BY <1>1, <1>2 DEF FillsInv, Counted, Held, LotsLike

\* A purchase opens its lot: of a fill, one more of its key.
LEMMA OpenLotKeepsFills ==
  ASSUME Provenance, TokensApart, LedgerInv, FillsInv, NEW r \in job.fresh, OpenLot(r)
  PROVE  FillsInv'
<1> DEFINE l == LotIdOf(r)
           b == job.lots
           c == [job.lots EXCEPT ![LotIdOf(r)] = LotOf(r)]
<1>1. /\ Projecting /\ Unchanged /\ r.kind = "BUY" /\ b[l] = None
      /\ SetLotOf(r, LotOf(r)) /\ r \in Row /\ b \in Book /\ Counted(b)
  BY JobTypes DEF OpenLot, Turn, FillsInv
<1>2. l \in LotId /\ LotOf(r) \in Lot
  BY <1>1, LotOfType DEF LotId
<1>3. job'.fresh = job.fresh \ {r} /\ job'.lots = c
  BY JobTypes, <1>1 DEF SetLotOf
<1>4. /\ c \in Book /\ c[l] = LotOf(r) /\ LotOf(r) # None /\ \A m \in LotId : m # l => c[m] = b[m]
  BY <1>1, <1>2, NoLotIsNone DEF Book
<1> HIDE DEF l, b, c
<1>5. Extends(b, c)
  <2>1. Extends(b, b)
    BY <1>1, ExtendsItself
  <2>2. QED
    BY <1>1, <1>4, <2>1 DEF Extends
<1>6. ASSUME NEW t \in TypedBuys, NEW n \in 0..MaxFills, l = FillOf(t, n)
      PROVE  n < Cardinality(LotsLike(c, t))
  <2>1. r \notin FileRows
    BY <1>6, FillsApart DEF l
  <2>2. PICK u \in Typed, m \in 0..MaxFills :
          r = TokenRow(u, m) /\ (u.kind = "BUY" => m = Cardinality(LotsLike(job.lots, u)))
    BY <1>1, <2>1, FillOpens
  <2>3. u.kind = "BUY" /\ l = FillOf(u, m)
    BY <1>1, <2>2, FillRow DEF l
  <2>4. t = u /\ n = m
    BY <1>6, <2>3 DEF FillOf, Token
  <2>5. n = Cardinality(LotsLike(b, t)) /\ r = TokenRow(t, n)
    BY <2>2, <2>3, <2>4 DEF b
  <2>6. LotKey(LotOf(r)) = NaturalKey(TokenRow(t, 0))
    <3>1. /\ r.date = t.date /\ r.price = t.price /\ r.qty = t.qty /\ r.tranche = None
          /\ t.kind = "BUY"
      BY <2>3, <2>4, <2>5 DEF TokenRow
    <3>2. LotKey(LotOf(r)) = <<"BUY", r.date, r.qty, FALSE, r.price, r.tranche>>
      BY DEF LotKey, LotOf
    <3>3. NaturalKey(TokenRow(t, 0)) = <<t.kind, t.date, t.qty, FALSE, t.price, None>>
      BY DEF NaturalKey, TokenRow
    <3>4. QED
      BY <3>1, <3>2, <3>3
  <2>7. l \in LotsLike(c, t) /\ l \notin LotsLike(b, t)
    BY <1>1, <1>2, <1>4, <2>6 DEF LotsLike, Held
  <2>8. LotsLike(b, t) \cup {l} \subseteq LotsLike(c, t)
    BY <1>1, <1>4, <1>5, <2>7, LikeStay
  <2>9. Held(c) \subseteq Held(b) \cup {l}
    BY <1>4 DEF Held
  <2>10. IsFiniteSet(Held(b)) /\ IsFiniteSet(Held(b) \cup {l})
    BY <1>1, FS_AddElement DEF Counted
  <2>11. IsFiniteSet(Held(c))
    BY <2>9, <2>10, FS_Subset
  <2>12. /\ IsFiniteSet(LotsLike(c, t)) /\ Cardinality(LotsLike(c, t)) \in Nat
         /\ IsFiniteSet(LotsLike(b, t)) /\ Cardinality(LotsLike(b, t)) \in Nat
    BY <2>10, <2>11, LikeCount
  <2>13. Cardinality(LotsLike(b, t) \cup {l}) = Cardinality(LotsLike(b, t)) + 1
    BY <2>7, <2>12, FS_AddElement
  <2>14. Cardinality(LotsLike(b, t) \cup {l}) <= Cardinality(LotsLike(c, t))
    BY <2>8, <2>12, FS_Subset
  <2>15. QED
    BY <2>5, <2>12, <2>13, <2>14
<1>7. Counted(c)
  BY <1>1, <1>2, <1>5, <1>6, SetLotCounted DEF c, b, l
<1>8. QED
  BY <1>1, <1>3, <1>7, ProjectKeepsFills

\* Merging into a lot opens none.
LEMMA MergeLotKeepsFills ==
  ASSUME Provenance, HoldingsAgree, TokensApart, LedgerInv, ImportInv, FillsInv,
         NEW r \in job.fresh, MergeLot(r)
  PROVE  FillsInv'
<1> DEFINE l == LotIdOf(r)
           held == job.lots[l]
           m == Merged(r, held)
           c == [job.lots EXCEPT ![l] = m]
<1>1. /\ Projecting /\ Unchanged /\ r.kind = "BUY" /\ held # None
      /\ SetLotOf(r, m) /\ r \in Row /\ job.lots \in Book /\ FromRows(job.lots) /\ Counted(job.lots)
  BY JobTypes DEF MergeLot, Turn, ImportInv, FillsInv
<1>2. l \in LotId /\ Opens(l, r)
  BY <1>1 DEF LotId, Opens
<1>3. held \in Lot /\ held.remaining <= held.qty
  BY <1>1, <1>2 DEF Book, LedgerInv, Within
<1>4. PICK s \in Row : Opens(l, s) /\ OpenedBy(held, s)
  BY <1>1, <1>2 DEF FromRows
<1>5. job'.fresh = job.fresh \ {r} /\ job'.lots = c
  BY JobTypes, <1>1 DEF SetLotOf
<1> HIDE DEF l
<1>6. m \in Lot /\ m # None
  BY <1>1, <1>3, MergedType, NoLotIsNone
<1>7. Outgrows(l, held, m)
  BY <1>1, <1>2, <1>3, <1>4, MergedFollows
<1> HIDE DEF m
<1>8. Extends(job.lots, job.lots)
  BY <1>1, ExtendsItself
<1>9. Extends(job.lots, c)
  <2>1. c[l] = m /\ \A i \in LotId : i # l => c[i] = job.lots[i]
    BY <1>1, <1>2 DEF Book
  <2> HIDE DEF c
  <2>2. QED
    BY <1>1, <1>6, <1>7, <1>8, <2>1 DEF Extends
<1>10. Counted(c)
  BY <1>1, <1>2, <1>6, <1>9, SetLotCounted
<1>11. QED
  BY <1>1, <1>5, <1>10, ProjectKeepsFills

\* A sale opens none.
LEMMA SellKeepsFills ==
  ASSUME Provenance, TokensApart, LedgerInv, ImportInv, FillsInv, NEW r \in job.fresh, Sell(r)
  PROVE  FillsInv'
<1> DEFINE book == Grown(job.lots, r)
           e == ExitIdOf(r)
<1>1. PICK a \in Allocations(book, r), first \in LotId :
        job' = [job EXCEPT !.fresh = @ \ {r}, !.lots = Depleted(book, a),
                           !.sales[e] = ExitOf(r, book, a, first)]
  BY DEF Sell
<1>2. Projecting /\ Unchanged /\ r.kind = "SELL" /\ r \in Row
  BY JobTypes DEF Sell, Turn
<1>3. job.lots \in Book /\ Within(job.lots) /\ FromRows(job.lots) /\ Counted(job.lots)
  BY DEF LedgerInv, TypeOK, ImportInv, FillsInv
<1>4. /\ book \in Book /\ Within(book) /\ Extends(job.lots, book)
      /\ \A l \in LotId : book[l] # None <=> job.lots[l] # None
  BY <1>2, <1>3, GrownBook, GrownFollows
<1> HIDE DEF book
<1>5. Held(book) = Held(job.lots)
  BY <1>4 DEF Held
<1>6. IsFiniteSet(Held(book))
  BY <1>3, <1>5 DEF Counted
<1>7. ASSUME NEW t \in TypedBuys, NEW n \in 0..MaxFills, book[FillOf(t, n)] # None
      PROVE  job.lots[FillOf(t, n)] # None
  BY <1>4, <1>7, FillRow DEF TypedBuys
<1>8. Counted(book)
  BY <1>3, <1>4, <1>6, <1>7, CountedStays
<1>9. SameBut(book, Depleted(book, a)) /\ Depleted(book, a) \in Book
  BY <1>2, <1>4, DepletedAlike, DepletedBook
<1>10. Counted(Depleted(book, a))
  BY <1>4, <1>8, <1>9, SameCounted
<1>11. job'.fresh = job.fresh \ {r} /\ job'.lots = Depleted(book, a)
  BY <1>1, JobTypes
<1>12. QED
  BY <1>2, <1>10, <1>11, ProjectKeepsFills

\* Nor does one that is skipped or rejected.
LEMMA NoSaleKeepsFills ==
  ASSUME TokensApart, LedgerInv, FillsInv, NEW r \in job.fresh, SkipSeen(r) \/ RejectSale(r)
  PROVE  FillsInv'
<1>1. Projecting /\ Unchanged /\ job'.fresh = job.fresh \ {r} /\ job'.lots = job.lots
  BY JobTypes DEF SkipSeen, RejectSale, Turn
<1>2. Counted(job'.lots)
  BY <1>1 DEF FillsInv
<1>3. QED
  BY <1>1, <1>2, ProjectKeepsFills

\* A typed trade counts what the ledger holds of its key.
LEMMA TradeKeepsFills ==
  ASSUME LedgerInv, FillsInv, NEW t \in Typed, NEW confirmed, StartTrade(t, confirmed)
  PROVE  FillsInv'
<1> DEFINE n == Occurrences(t)
<1>1. /\ job'.fresh = {TokenRow(t, n)} /\ job'.lots = lots /\ lots' = lots
      /\ TokenRow(t, n) \in TypedRows
  BY DEF StartTrade, Begin, TypedRow, Resting
<1> HIDE DEF n
<1>2. PICK u \in Typed, k \in 0..MaxFills : TokenRow(t, n) = TokenRow(u, k)
  BY <1>1 DEF TypedRows
<1>3. n \in 0..MaxFills
  <2>1. TokenRow(t, n).src = TokenRow(u, k).src
    BY <1>2
  <2>2. <<t, n>> = <<u, k>>
    BY <2>1 DEF TokenRow, Token
  <2>3. QED
    BY <2>2
<1>4. ASSUME t.kind = "BUY" PROVE n = Cardinality(LotsLike(lots, t))
  <2> DEFINE key == NaturalKey(TokenRow(t, 0))
  <2>1. \A e \in Recorded(exits) : KeyOfExit(e) # key
    BY <1>4 DEF KeyOfExit, NaturalKey, TokenRow
  <2>2. {e \in Recorded(exits) : KeyOfExit(e) = key} = {}
    BY <2>1
  <2>3. {l \in Held(lots) : KeyOfLot(l) = key} = LotsLike(lots, t)
    BY DEF LotsLike, KeyOfLot, LotKey
  <2>4. n = Cardinality({l \in Held(lots) : KeyOfLot(l) = key})
              + Cardinality({e \in Recorded(exits) : KeyOfExit(e) = key})
    BY DEF n, Occurrences
  <2> HIDE DEF key
  <2>5. n = Cardinality(LotsLike(lots, t)) + 0
    BY <2>2, <2>3, <2>4, FS_EmptySet
  <2>6. Cardinality(LotsLike(lots, t)) \in Nat
    BY LikeCount DEF FillsInv, Counted
  <2>7. QED
    BY <2>5, <2>6
<1>5. Counted(lots)' /\ Counted(job'.lots)
  BY <1>1 DEF FillsInv, Counted, Held, LotsLike
<1>6. n = Cardinality(LotsLike(job'.lots, t)) \/ t.kind # "BUY"
  BY <1>1, <1>4
<1>7. QED
  BY <1>1, <1>3, <1>5, <1>6 DEF FillsInv, Counted, Held, LotsLike

\* The rest begin an import, store what was projected, drop it, or undo it.
LEMMA OthersKeepFills ==
  ASSUME LedgerInv, SalesInv, FillsInv,
         \/ \E f \in DOMAIN Files : StartImport(f)
         \/ SaveLots \/ SaveExits \/ Crash \/ (\E e \in ExitId : DeleteExit(e)) \/ DeleteHolding
  PROVE  FillsInv'
<1>0. ASSUME job' = Resting, Counted(lots') PROVE FillsInv'
  <2>1. job'.phase = "idle" /\ job'.lots = [l \in LotId |-> None]
    BY <1>0 DEF Resting
  <2>2. ~Projecting' /\ Counted(job'.lots)
    BY <2>1, NoneCounted DEF Projecting
  <2>3. QED
    BY <1>0, <2>2 DEF FillsInv, Counted, Held, LotsLike
<1>1. CASE \E f \in DOMAIN Files : StartImport(f)
  <2>1. PICK f \in DOMAIN Files : StartImport(f)
    BY <1>1
  <2>2. job'.fresh \subseteq FileRows /\ job'.lots = lots /\ lots' = lots
    BY <2>1 DEF StartImport, Begin, Resting, Fresh, FileRows
  <2>3. QED
    BY <2>2 DEF FillsInv, Counted, Held, LotsLike
<1>2. CASE SaveLots
  <2>1. job'.phase = "exits" /\ job'.lots = job.lots /\ lots' = job.lots
    BY <1>2, JobTypes DEF SaveLots
  <2>2. ~Projecting'
    BY <2>1 DEF Projecting
  <2>3. QED
    BY <2>1, <2>2 DEF FillsInv, Counted, Held, LotsLike
<1>3. CASE SaveExits \/ Crash
  <2>1. job' = Resting /\ lots' = lots
    BY <1>3 DEF SaveExits, Crash
  <2>2. Counted(lots')
    BY <2>1 DEF FillsInv
  <2>3. QED
    BY <1>0, <2>1, <2>2
<1>4. CASE \E e \in ExitId : DeleteExit(e)
  <2>1. PICK e \in ExitId : DeleteExit(e)
    BY <1>4
  <2>2. job' = Resting /\ lots' = PutBack(exits[e]) /\ exits[e] # None /\ Restorable(exits[e])
    BY <2>1 DEF DeleteExit, Idle, SalesInv
  <2>3. exits[e] \in Exit /\ lots \in Book /\ lots' \in Book
    BY <1>4, <2>2, JobTypes, DeleteExitPreserves DEF Disposals, LedgerInv, TypeOK
  <2>4. SameBut(lots, lots')
    BY <2>2, <2>3, PutBackAlike
  <2>5. Counted(lots')
    BY <2>3, <2>4, SameCounted DEF FillsInv
  <2>6. QED
    BY <1>0, <2>2, <2>5
<1>5. CASE DeleteHolding
  <2>1. job' = Resting /\ lots' = [l \in LotId |-> None]
    BY <1>5 DEF DeleteHolding, Idle, SalesInv
  <2>2. QED
    BY <1>0, <2>1, NoneCounted
<1>6. QED
  BY <1>1, <1>2, <1>3, <1>4, <1>5

\* So every step keeps the count.
LEMMA FillsInductive ==
  ASSUME Provenance, HoldingsAgree, TokensApart, LedgerInv, SalesInv, ImportInv, FillsInv, [Next]_vars
  PROVE  FillsInv'
<1>1. CASE \E t \in Typed, confirmed \in BOOLEAN : StartTrade(t, confirmed)
  BY <1>1, TradeKeepsFills
<1>2. CASE \E r \in job.fresh : Project(r)
  BY <1>2, OpenLotKeepsFills, MergeLotKeepsFills, SellKeepsFills, NoSaleKeepsFills DEF Project
<1>3. CASE \/ \E f \in DOMAIN Files : StartImport(f)
           \/ SaveLots \/ SaveExits \/ Crash \/ (\E e \in ExitId : DeleteExit(e)) \/ DeleteHolding
  BY <1>3, OthersKeepFills
<1>4. CASE UNCHANGED vars
  BY <1>4 DEF vars, FillsInv, Counted, Held, LotsLike, Projecting
<1>5. QED
  BY <1>1, <1>2, <1>3, <1>4 DEF Next

\* At first there are no lots.
LEMMA FillsInitially == Init => FillsInv
<1> SUFFICES ASSUME Init PROVE FillsInv
  OBVIOUS
<1>1. job.phase = "idle" /\ job.lots = [l \in LotId |-> None] /\ lots = [l \in LotId |-> None]
  BY DEF Init, Resting
<1>2. QED
  BY <1>1, NoneCounted DEF FillsInv, Projecting

\* A typed purchase leaves the job by opening its lot.
LEMMA FillCounts ==
  ASSUME TokensApart, LedgerInv, FillsInv, Next, NEW r \in TypedRows, r.kind = "BUY"
  PROVE  Counts(r)
<1> SUFFICES ASSUME r \in job.fresh, r \notin job'.fresh, Projecting, crashes' = crashes
             PROVE  job'.lots # job.lots
  BY DEF Counts
<1>1. r \notin FileRows
  BY DEF TokensApart
<1>2. PICK t \in Typed, n \in 0..MaxFills :
        /\ r = TokenRow(t, n) /\ job.fresh = {r}
        /\ t.kind = "BUY" => job.lots[FillOf(t, n)] = None
  BY <1>1, FillOpens
<1>3. t.kind = "BUY" /\ LotIdOf(r) = FillOf(t, n) /\ FillOf(t, n) \in LotId /\ r \in Row
  BY <1>2, FillRow
<1>4. job.lots[LotIdOf(r)] = None
  BY <1>2, <1>3
<1>5. ~Idle /\ ~Projected /\ job.phase # "exits"
  BY DEF Idle, Projecting, Projected
<1>6. ~Crash
  BY DEF Crash, LedgerInv, TypeOK
<1>7. \E q \in job.fresh : Project(q)
  BY <1>5, <1>6 DEF Next, StartImport, StartTrade, SaveLots, SaveExits, DeleteExit, DeleteHolding
<1>8. Project(r)
  BY <1>2, <1>7
<1>9. OpenLot(r)
  BY <1>4, <1>8 DEF Project, MergeLot, Sell, SkipSeen, RejectSale, Turn
<1>10. job'.lots = [job.lots EXCEPT ![LotIdOf(r)] = LotOf(r)] /\ job.lots \in Book
  BY <1>9, JobTypes DEF OpenLot, SetLotOf
<1>11. LotOf(r) # None
  BY <1>3, LotOfType, NoLotIsNone
<1>12. job'.lots[LotIdOf(r)] = LotOf(r)
  BY <1>3, <1>10 DEF Book
<1>13. QED
  BY <1>4, <1>11, <1>12

(* A purchase typed in again and confirmed to be another fill is a lot of  *)
(* its own, whatever was imported, sold, undone or deleted in between.     *)
THEOREM EveryFillIsALot ==
  Provenance /\ HoldingsAgree /\ TokensApart /\ Spec => EveryPurchaseCounts
<1>1. ASSUME Provenance, HoldingsAgree, TokensApart
      PROVE  Spec => EveryPurchaseCounts
  <2>1. Spec => []ImportInv
    BY <1>1, ImportInvariant
  <2>2. LedgerInv /\ SalesInv /\ ImportInv /\ FillsInv /\ [Next]_vars => FillsInv'
    BY <1>1, FillsInductive
  <2>3. LedgerInv /\ FillsInv /\ [Next]_vars =>
          [\A r \in TypedRows : r.kind = "BUY" => Counts(r)]_vars
    BY <1>1, FillCounts
  <2>4. QED
    BY <2>1, <2>2, <2>3, FillsInitially, LedgerInvariant, SalesInvariant, PTL DEF Spec, EveryPurchaseCounts
<1>2. QED
  BY <1>1
=============================================================================
