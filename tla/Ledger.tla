------------------------------- MODULE Ledger -------------------------------
(***************************************************************************)
(* The lots and disposals of one holding: statement imports, trades typed  *)
(* by hand, and the deletion of a disposal or of the whole holding.        *)
(*                                                                         *)
(* An import (ImportStatementUC.execute) and a typed trade                 *)
(* (TradeUC.record) end in the same projection: projectToLedger applies    *)
(* the rows, oldest first, to a copy of the ledger in memory, then the     *)
(* lots are written in one transaction and the disposals in another.       *)
(* Nothing else runs in between, but the process may die between any two   *)
(* of these steps.  The vault is unlocked and in edit mode throughout:     *)
(* see VaultSession for when it is.                                        *)
(*                                                                         *)
(* Abstractions: one holding, so an asset is present when it has a lot;    *)
(* one acquisition kind, BUY; quantities are natural numbers, and padded   *)
(* says that a file spells one with trailing zeros, which the ledger       *)
(* drops; a tranche stands for equityLotId(award, date); dates are         *)
(* numbers; prices are compared only; dividends and fees are left out.     *)
(***************************************************************************)
EXTENDS Naturals, FiniteSets, FiniteSetsExt, Functions

CONSTANTS
  Files,       \* Files[f]: the rows of statement f
  Typed,       \* trades a user types in
  MaxFills,    \* bound on the fills of one typed trade
  MaxCrashes,  \* bound on crashes
  None         \* absent

FileRows == UNION {Files[f] : f \in DOMAIN Files}

(* TradeUC.record: a typed trade is a row of its own.  The token that      *)
(* stands for its file is made of its natural key (here the trade) and the *)
(* number of times the ledger holds that key.                              *)
Token(t, n) == <<t, n>>
TokenRow(t, n) ==
  [kind |-> t.kind, date |-> t.date, qty |-> t.qty, price |-> t.price, padded |-> FALSE,
   tranche |-> None, order |-> None, partial |-> FALSE, stated |-> None,
   src |-> Token(t, n), row |-> 1, trade |-> Token(t, n)]
TypedRows == {TokenRow(t, n) : t \in Typed, n \in 0..MaxFills}
Row == FileRows \cup TypedRows

(* The row's identity for the lot it opens and the disposal it makes:      *)
(* grant and tranche, with the order, when the source names them, else     *)
(* its place in its file.                                                  *)
LotIdOf(r) == IF r.tranche # None THEN r.tranche ELSE <<r.src, r.row>>
ExitIdOf(r) ==
  IF r.tranche # None /\ r.order # None
  THEN <<r.order, r.tranche, r.date, r.qty>>
  ELSE <<r.src, r.row>>

LotId == {LotIdOf(r) : r \in {x \in Row : x.kind = "BUY"}}
ExitId == {ExitIdOf(r) : r \in {x \in Row : x.kind = "SELL"}}

Lot == [date : Nat, price : Nat, qty : Nat, remaining : Nat, tranche : LotId \cup {None},
        stated : Nat \cup {None}, trade : {r.trade : r \in Row}]
Exit == [date : Nat, price : Nat, qty : Nat, padded : BOOLEAN,
         order : {r.order : r \in Row}, specific : BOOLEAN, alloc : [LotId -> Nat],
         slice : Nat \X Nat, trade : {r.trade : r \in Row}]

ASSUME LedgerConstants ==
  /\ MaxFills \in Nat
  /\ MaxCrashes \in Nat
  /\ None \notin Lot \cup Exit \cup DOMAIN Files \cup Nat

\* What the parsers and the trade form let through.
ASSUME RowsWellFormed ==
  /\ \A r \in FileRows \cup Typed :
       r.kind \in {"BUY", "SELL"} /\ r.date \in Nat /\ r.price \in Nat /\ r.qty \in Nat \ {0}
  /\ \A r \in FileRows :
       /\ r.row \in Nat /\ r.padded \in BOOLEAN /\ r.partial \in BOOLEAN
       /\ r.stated \in Nat \cup {None}
       \* A file that names the tranche of a sale names it on a purchase, too.
       /\ r.tranche \in LotId \cup {None}

VARIABLES
  lots,      \* lots[l]: the stored lot, or None
  exits,     \* exits[e]: the stored disposal, or None
  job,       \* the import or trade being carried out, in memory
  imported,  \* files imported since the last deletion, nothing rejected
  torn,      \* a crash has separated a batch's lots from its disposals
  crashes

vars == <<lots, exits, job, imported, torn, crashes>>
---------------------------------------------------------------------------
Held(book) == {l \in LotId : book[l] # None}
Open(book) == {l \in Held(book) : book[l].remaining > 0}
Recorded(x) == {e \in ExitId : x[e] # None}

(* job.fresh are the rows not applied yet; job.lots the lots and job.sales *)
(* the new disposals so far; job.whole the lots some source stated whole   *)
(* (authoritativeLots); job.rejected the rows reported as unapplied.       *)
NoSales == [e \in ExitId |-> None]
Resting == [phase |-> "idle", file |-> None, fresh |-> {}, lots |-> [l \in LotId |-> None],
            sales |-> NoSales, whole |-> {}, rejected |-> {}]
Idle == job.phase = "idle"
Projecting == job.phase = "project"
Projected == Projecting /\ job.fresh = {}

Book == [LotId -> Lot \cup {None}]
TypeOK ==
  /\ lots \in Book
  /\ exits \in [ExitId -> Exit \cup {None}]
  /\ job \in [phase : {"idle", "project", "exits"}, file : DOMAIN Files \cup {None},
              fresh : SUBSET Row, lots : Book, sales : [ExitId -> Exit \cup {None}],
              whole : SUBSET LotId, rejected : SUBSET Row]
  /\ imported \subseteq DOMAIN Files
  /\ torn \in BOOLEAN
  /\ crashes \in 0..MaxCrashes
---------------------------------------------------------------------------
(* Duplicate detection: naturalKey, and looseKey for a record whose source *)
(* named no tranche.                                                       *)
\* Fault: the tranche is left out of the key.
KeyWithoutTranche(r) == <<r.kind, r.date, r.qty, r.padded, r.price, None>>
NaturalKey(r) == <<r.kind, r.date, r.qty, r.padded, r.price, r.tranche>>
LooseKey(r) == <<r.kind, r.date, r.qty, r.padded, r.price, None>>

\* Fault: what is left of the lot instead of what was bought.
KeyOfRemainder(l) ==
  <<"BUY", lots[l].date, lots[l].remaining, FALSE, lots[l].price, lots[l].tranche>>
KeyOfLot(l) == <<"BUY", lots[l].date, lots[l].qty, FALSE, lots[l].price, lots[l].tranche>>
TrancheOf(x) == CHOOSE l \in LotId : x.alloc[l] > 0
KeyOfExit(e) ==
  LET x == exits[e]
  IN <<"SELL", x.date, x.qty, x.padded, x.price,
       IF x.specific THEN TrancheOf(x) ELSE None>>
(* The acquisition half of a row that stated a sale out of a tranche.      *)
KeyOfSlice(e) ==
  LET x == exits[e]
  IN <<"BUY", x.slice[1], x.qty, x.padded, x.slice[2], TrancheOf(x)>>

LedgerKeys ==
  {KeyOfLot(l) : l \in Held(lots)}
    \cup {KeyOfExit(e) : e \in Recorded(exits)}
    \cup {KeyOfSlice(e) : e \in {x \in Recorded(exits) : exits[x].specific /\ exits[x].order # None}}

(* partition: within the file only the full key counts, and the first row  *)
(* of equal ones is kept.                                                  *)
Fresh(rows) ==
  {r \in rows :
     /\ NaturalKey(r) \notin LedgerKeys
     /\ LooseKey(r) \notin LedgerKeys
     /\ ~\E s \in rows : s.row < r.row /\ NaturalKey(s) = NaturalKey(r)}

Begin(file, rows) ==
  job' = [Resting EXCEPT !.phase = "project", !.file = file, !.fresh = rows, !.lots = lots,
                         !.whole = {l \in Held(lots) : lots[l].stated # None}]

StartImport(f) ==
  /\ Idle
  /\ Begin(f, Fresh(Files[f]))
  /\ UNCHANGED <<lots, exits, imported, torn, crashes>>

\* How many lots, or disposals, the ledger holds that look like this trade.
Occurrences(t) ==
  LET key == NaturalKey(TokenRow(t, 0))
  IN Cardinality({l \in Held(lots) : KeyOfLot(l) = key})
       + Cardinality({e \in Recorded(exits) : KeyOfExit(e) = key})

\* Fault: the token is made of the key alone.
SameTokenEachTime(t) == TokenRow(t, 0)
TypedRow(t) == TokenRow(t, Occurrences(t))
(* A trade that is on the ledger is refused unless the user confirms it is *)
(* another fill.                                                           *)
StartTrade(t, confirmed) ==
  /\ Idle
  /\ Occurrences(t) > 0 => confirmed
  /\ TypedRow(t) \in TypedRows   \* MaxFills: bounds the fills of one trade
  /\ Begin(None, {TypedRow(t)})
  /\ UNCHANGED <<lots, exits, imported, torn, crashes>>
---------------------------------------------------------------------------
(* projectToLedger, one row at a time.                                     *)
Before(r, s) ==
  \/ r.date < s.date
  \/ r.date = s.date /\ r.row < s.row
  \/ r.date = s.date /\ r.row = s.row /\ r.kind = "BUY" /\ s.kind = "SELL"
IsNext(r) == r \in job.fresh /\ \A s \in job.fresh \ {r} : Before(r, s)
Turn(r, kind) == Projecting /\ IsNext(r) /\ r.kind = kind
Unchanged == UNCHANGED <<lots, exits, imported, torn, crashes>>

LotOf(r) == [date |-> r.date, price |-> r.price, qty |-> r.qty, remaining |-> r.qty,
             tranche |-> r.tranche, stated |-> r.stated, trade |-> r.trade]

\* Only a slice of a tranche, the purchase half of a sale, is not whole.
WholeAfter(r) == IF r.partial THEN job.whole ELSE job.whole \cup {LotIdOf(r)}
SetLotOf(r, lot) ==
  job' = [job EXCEPT !.fresh = @ \ {r}, !.whole = WholeAfter(r), !.lots[LotIdOf(r)] = lot]

OpenLot(r) ==
  /\ Turn(r, "BUY")
  /\ job.lots[LotIdOf(r)] = None
  /\ SetLotOf(r, LotOf(r))
  /\ Unchanged

Larger(m, n) == IF m > n THEN m ELSE n
\* Faults: slices are summed; the remainder restarts from the full size, or
\* grows by it.
SlicesSummed(r, held) ==
  [held EXCEPT !.qty = @ + r.qty, !.remaining = @ + r.qty,
               !.stated = IF r.stated # None THEN r.stated ELSE @]
RemainderRestarts(r, held) ==
  IF r.partial THEN held ELSE [LotOf(r) EXCEPT !.qty = Larger(held.qty, r.qty)]
RemainderGrowsWhole(r, held) ==
  IF r.partial \/ r.qty <= held.qty THEN held
  ELSE [LotOf(r) EXCEPT !.remaining = held.remaining + r.qty]
(* The lot is there: a full statement of it sets its size if that is the   *)
(* larger, what was consumed stays consumed, a partial one adds nothing.   *)
Merged(r, held) ==
  LET size == IF r.partial THEN held.qty ELSE Larger(held.qty, r.qty)
      lot == IF size > held.qty
             THEN [LotOf(r) EXCEPT !.qty = size,
                                   !.remaining = held.remaining + (size - held.qty),
                                   !.stated = None]
             ELSE held
  IN IF r.stated = None THEN lot ELSE [lot EXCEPT !.stated = r.stated]

MergeLot(r) ==
  /\ Turn(r, "BUY")
  /\ job.lots[LotIdOf(r)] # None
  /\ SetLotOf(r, Merged(r, job.lots[LotIdOf(r)]))
  /\ Unchanged
---------------------------------------------------------------------------
(* A tranche known only from its sales is enlarged to cover the next one;  *)
(* one that is known whole is not.                                         *)
Shortfall(book, r) ==
  IF r.tranche # None /\ book[r.tranche] # None /\ r.tranche \notin job.whole
       /\ r.qty > book[r.tranche].remaining
  THEN r.qty - book[r.tranche].remaining
  ELSE 0
\* Fault: a tranche known only from its sales is not enlarged.
NotGrown(book, r) == book
Grown(book, r) ==
  IF Shortfall(book, r) = 0 THEN book
  ELSE [book EXCEPT ![r.tranche].qty = @ + Shortfall(book, r),
                    ![r.tranche].remaining = @ + Shortfall(book, r)]

\* Fault: the named lot is not asked whether it holds enough.
Named(book, r) == r.tranche # None /\ book[r.tranche] # None
Covers(book, r) ==
  r.tranche # None /\ book[r.tranche] # None /\ book[r.tranche].remaining >= r.qty

Older(book, l, m) == book[l].date < book[m].date
Takes(book, qty) == UNION {[S -> 1..qty] : S \in SUBSET Open(book)}
(* allocateFifo: the whole quantity, from the oldest open lots, each but   *)
(* the last in full.  Between two lots of one day the lot id decides in    *)
(* the code, either does here.                                             *)
FifoAllocations(book, qty) ==
  {a \in Takes(book, qty) :
     /\ SumFunction(a) = qty
     /\ \A l \in DOMAIN a :
          /\ a[l] <= book[l].remaining
          /\ \A m \in Open(book) :
               Older(book, m, l) => m \in DOMAIN a /\ a[m] = book[m].remaining}
(* allocateSpecific when the source named a lot that covers the sale.      *)
Allocations(book, r) ==
  IF Covers(book, r) THEN {[l \in {r.tranche} |-> r.qty]} ELSE FifoAllocations(book, r.qty)

Depleted(book, a) ==
  [l \in LotId |-> IF l \in DOMAIN a THEN [book[l] EXCEPT !.remaining = @ - a[l]] ELSE book[l]]
IsOldest(book, a, l) == l \in DOMAIN a /\ \A m \in DOMAIN a : ~Older(book, m, l)
ExitOf(r, book, a, first) ==
  [date |-> r.date, price |-> r.price, qty |-> r.qty, padded |-> r.padded, order |-> r.order,
   specific |-> Covers(book, r),
   alloc |-> [l \in LotId |-> IF l \in DOMAIN a THEN a[l] ELSE 0],
   slice |-> <<book[first].date, book[first].price>>, trade |-> r.trade]

Seen(r) == exits[ExitIdOf(r)] # None \/ job.sales[ExitIdOf(r)] # None

Sell(r) ==
  LET book == Grown(job.lots, r)
  IN /\ Turn(r, "SELL")
     /\ Held(job.lots) # {}
     /\ ~Seen(r)
     /\ \E a \in Allocations(book, r) : \E first \in {l \in LotId : IsOldest(book, a, l)} :
          job' = [job EXCEPT !.fresh = @ \ {r},
                             !.lots = Depleted(book, a),
                             !.sales[ExitIdOf(r)] = ExitOf(r, book, a, first)]
     /\ Unchanged

SkipSeen(r) ==
  /\ Turn(r, "SELL")
  /\ Held(job.lots) # {}
  /\ Seen(r)
  /\ job' = [job EXCEPT !.fresh = @ \ {r}]
  /\ Unchanged

(* Nothing to sell from, or not enough of it: reported as unapplied.       *)
RejectSale(r) ==
  /\ Turn(r, "SELL")
  /\ \/ Held(job.lots) = {}
     \/ ~Seen(r) /\ Allocations(Grown(job.lots, r), r) = {}
  /\ job' = [job EXCEPT !.fresh = @ \ {r}, !.rejected = @ \cup {r}]
  /\ Unchanged

Project(r) == OpenLot(r) \/ MergeLot(r) \/ Sell(r) \/ SkipSeen(r) \/ RejectSale(r)
---------------------------------------------------------------------------
(* AssetRepository.saveAll replaces every lot by the projected ones.       *)
SaveLots ==
  /\ Projected
  /\ lots' = job.lots
  /\ job' = [job EXCEPT !.phase = "exits"]
  /\ UNCHANGED <<exits, imported, torn, crashes>>

(* ExitRepository.saveAll, ON CONFLICT(txn_id) DO NOTHING.                 *)
SaveExits ==
  /\ job.phase = "exits"
  /\ exits' = [e \in ExitId |-> IF exits[e] = None THEN job.sales[e] ELSE exits[e]]
  /\ imported' = IF job.file # None /\ job.rejected = {} THEN imported \cup {job.file}
                 ELSE imported
  /\ job' = Resting
  /\ UNCHANGED <<lots, torn, crashes>>

(* The process dies: what the projection held in memory is gone.           *)
Crash ==
  /\ ~Idle
  /\ crashes < MaxCrashes
  /\ crashes' = crashes + 1
  /\ torn' = (torn \/ (job.phase = "exits" /\ Recorded(job.sales) # {}))
  /\ job' = Resting
  /\ UNCHANGED <<lots, exits, imported>>
---------------------------------------------------------------------------
(* restoreAllocations: refused when a lot is gone, or would end up with    *)
(* more than it ever acquired.                                             *)
Restorable(x) ==
  \A l \in LotId :
    x.alloc[l] > 0 => lots[l] # None /\ lots[l].remaining + x.alloc[l] <= lots[l].qty
PutBack(x) ==
  [l \in LotId |-> IF x.alloc[l] > 0
                   THEN [lots[l] EXCEPT !.remaining = @ + x.alloc[l]] ELSE lots[l]]

(* LedgerUC.deleteExit: both halves in one transaction.                    *)
DeleteExit(e) ==
  /\ Idle
  /\ exits[e] # None
  /\ Restorable(exits[e])
  /\ lots' = PutBack(exits[e])
  /\ exits' = [exits EXCEPT ![e] = None]
  /\ imported' = {}
  /\ UNCHANGED <<job, torn, crashes>>

\* Fault: the disposals outlive the holding.
ExitsOutlive == exits
ExitsCascade == NoSales
(* LedgerUC.deleteAsset: lots and disposals go with the holding.           *)
DeleteHolding ==
  /\ Idle
  /\ Held(lots) # {}
  /\ lots' = [l \in LotId |-> None]
  /\ exits' = ExitsCascade
  /\ imported' = {}
  /\ torn' = FALSE
  /\ UNCHANGED <<job, crashes>>
---------------------------------------------------------------------------
Init ==
  /\ lots = [l \in LotId |-> None]
  /\ exits = NoSales
  /\ job = Resting
  /\ imported = {}
  /\ torn = FALSE
  /\ crashes = 0

Next ==
  \/ \E f \in DOMAIN Files : StartImport(f)
  \/ \E t \in Typed, confirmed \in BOOLEAN : StartTrade(t, confirmed)
  \/ \E r \in job.fresh : Project(r)
  \/ SaveLots \/ SaveExits
  \/ \E e \in ExitId : DeleteExit(e)
  \/ DeleteHolding
  \/ Crash

Spec == Init /\ [][Next]_vars
---------------------------------------------------------------------------
SoldFrom(l) == SumFunction([e \in Recorded(exits) |-> exits[e].alloc[l]])

(* No lot ever holds more than it acquired, whatever mixture of slices,    *)
(* holdings, sales and undone sales made it (lots.ts, restoreAllocations). *)
WithinLots == \A l \in Held(lots) : lots[l].remaining <= lots[l].qty

(* What is missing from a lot is what the stored disposals took from it,   *)
(* and never less, not even after a crash cut an import in two: no unit is *)
(* sold twice, so undoing a disposal is never refused.                     *)
SalesAccounted ==
  \A l \in Held(lots) :
    /\ lots[l].remaining + SoldFrom(l) <= lots[l].qty
    /\ Idle /\ ~torn => lots[l].remaining + SoldFrom(l) = lots[l].qty

(* A disposal only names lots that are on the book: deleteExit finds them, *)
(* deleteAsset leaves none behind.                                         *)
DisposalsNameLots ==
  \A e \in Recorded(exits) : \A l \in LotId : exits[e].alloc[l] > 0 => lots[l] # None

(* A trade that two overlapping exports both report is one lot, or one     *)
(* disposal (duplicates.ts: "the same trade appearing at a different row   *)
(* of a different file is still the same trade"), unless the purchases of  *)
(* both are padded: a row's key has the quantity as spelled, a lot's not.  *)
NoTradeTwice ==
  /\ \A l, m \in Held(lots) : lots[l].trade = lots[m].trade => l = m
  /\ \A d, e \in Recorded(exits) : exits[d].trade = exits[e].trade => d = e

Finishing == job.phase = "exits" /\ crashes' = crashes
Placed(r) ==
  IF r.kind = "BUY" THEN \E l \in Held(lots) : lots[l].trade = r.trade
  ELSE \E e \in ExitId : exits'[e] # None /\ exits'[e].trade = r.trade
(* Every row of a finished import is on the ledger or reported as          *)
(* unapplied (ledger.ts: "Nothing is silently absorbed").  After a torn    *)
(* import a sale may have to be taken oldest first, and its key, which     *)
(* then names no tranche, hides the other sales of the same order.         *)
NothingAbsorbed ==
  [][Finishing /\ job.file # None /\ ~torn =>
       \A r \in Files[job.file] : Placed(r) \/ r \in job.rejected]_vars

(* Importing a file again changes nothing, whatever was imported, typed or *)
(* sold since (ledger.ts: "re-importing the same file merges").            *)
ReimportChangesNothing ==
  Projected /\ job.file \in imported => job.lots = lots /\ Recorded(job.sales) = {}

(* Once every statement is in, in any order and with any of them repeated  *)
(* or undone and imported again, each tranche holds what the broker says   *)
(* is left of it.                                                          *)
AgreesWithBroker ==
  imported = DOMAIN Files /\ Idle /\ ~torn =>
    \A l \in Held(lots) : lots[l].stated # None => lots[l].remaining = lots[l].stated

Counts(r) ==
  r \in job.fresh /\ r \notin job'.fresh /\ Projecting /\ crashes' = crashes =>
    r \in job'.rejected \/ job'.lots # job.lots
(* A purchase typed in a second time and confirmed is a second lot.        *)
EveryPurchaseCounts == [][\A r \in TypedRows : r.kind = "BUY" => Counts(r)]_vars
---------------------------------------------------------------------------
(* Stated by a comment of the code, and not so:                            *)

(* use-cases.ts, TradeUC.record: "a confirmed second fill gets its own".   *)
EveryFillCounts == [][\A r \in TypedRows : Counts(r)]_vars
=============================================================================
