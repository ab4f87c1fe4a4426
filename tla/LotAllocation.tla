--------------------------- MODULE LotAllocation ---------------------------
(***************************************************************************)
(* The allocator of core-domain/src/lots.ts: which lots a disposal         *)
(* consumes, oldest first or the one the source names, and how an undone   *)
(* disposal gives the units back.  Ledger uses only what a fifo allocation *)
(* must satisfy; here is the loop that computes it, with what the ledger   *)
(* relies on checked for every book reached by acquiring, selling and      *)
(* undoing in any order.                                                   *)
(*                                                                         *)
(* A lot is its number: the order of the lot ids.  Quantities are natural  *)
(* numbers; that a text is a number is left out.                           *)
(***************************************************************************)
EXTENDS Naturals, FiniteSets, Sequences, SequencesExt, Functions

CONSTANTS MaxLots, MaxQty, MaxDate, MaxExits   \* bounds on the books enumerated

Lot == [date : 1..MaxDate, qty : 1..MaxQty, remaining : 0..MaxQty]
Qty == 0..(MaxLots * MaxQty)

VARIABLES
  book,   \* the lots, by lot id
  exits   \* the allocations of the disposals not undone, oldest first

vars == <<book, exits>>
---------------------------------------------------------------------------
Err == [ok |-> FALSE, taken |-> <<>>]
Ok(taken) == [ok |-> TRUE, taken |-> taken]
Lots == DOMAIN book
Nothing == [l \in Lots |-> 0]
Available == SumFunction([l \in Lots |-> book[l].remaining])

\* Fault: in the order of the ids, as the lots are stored.
StoredOrder == [l \in Lots |-> l]
(* Oldest first, the lot id for lots of one day.                           *)
Older == {p \in Lots \X Lots :
            \/ book[p[1]].date < book[p[2]].date
            \/ book[p[1]].date = book[p[2]].date /\ p[1] < p[2]}
Ordered == CHOOSE s \in SetToSeqs(Lots) : \A i, j \in DOMAIN s : i < j => <<s[i], s[j]>> \in Older

Smaller(m, n) == IF m < n THEN m ELSE n
(* The loop of allocateFifo: each lot gives what it has of what is still   *)
(* wanted.                                                                 *)
Take(acc, l) ==
  LET take == Smaller(book[l].remaining, acc.outstanding)
  IN [outstanding |-> acc.outstanding - take, taken |-> [acc.taken EXCEPT ![l] = take]]

AllocateFifo(wanted) ==
  IF wanted = 0 \/ Available < wanted THEN Err
  ELSE Ok(FoldLeft(Take, [outstanding |-> wanted, taken |-> Nothing], Ordered).taken)

(* allocateSpecific: the named lot covers all of it, or nothing happens.   *)
AllocateSpecific(l, wanted) ==
  IF wanted = 0 \/ l \notin Lots \/ book[l].remaining < wanted THEN Err
  ELSE Ok([Nothing EXCEPT ![l] = wanted])

Given(taken, l) == IF l \in DOMAIN taken THEN taken[l] ELSE 0
Deplete(taken) == [l \in Lots |-> [book[l] EXCEPT !.remaining = @ - Given(taken, l)]]

(* restoreAllocations: refused for a lot that would exceed what it         *)
(* acquired.                                                               *)
Restores(taken) ==
  /\ DOMAIN taken \subseteq Lots
  /\ \A l \in DOMAIN taken : book[l].remaining + taken[l] <= book[l].qty

Restore(taken) == [l \in Lots |-> [book[l] EXCEPT !.remaining = @ + Given(taken, l)]]
---------------------------------------------------------------------------
Init == book = <<>> /\ exits = <<>>

(* recordAcquisition, for a quantity greater than zero.                    *)
Acquire(date, qty) ==
  /\ Len(book) < MaxLots
  /\ qty > 0
  /\ book' = Append(book, [date |-> date, qty |-> qty, remaining |-> qty])
  /\ UNCHANGED exits

Dispose(allocated) ==
  /\ Len(exits) < MaxExits
  /\ allocated.ok
  /\ book' = Deplete(allocated.taken)
  /\ exits' = Append(exits, allocated.taken)
SellFifo(wanted) == Dispose(AllocateFifo(wanted))
SellSpecific(l, wanted) == Dispose(AllocateSpecific(l, wanted))

Undo(i) ==
  /\ Restores(exits[i])
  /\ book' = Restore(exits[i])
  /\ exits' = RemoveAt(exits, i)

Next ==
  \/ \E date \in 1..MaxDate, qty \in 0..MaxQty : Acquire(date, qty)
  \/ \E wanted \in Qty : SellFifo(wanted)
  \/ \E l \in 1..MaxLots, wanted \in Qty : SellSpecific(l, wanted)
  \/ \E i \in DOMAIN exits : Undo(i)

Spec == Init /\ [][Next]_vars
---------------------------------------------------------------------------
(* What a fifo allocation is: all that is wanted, no more from a lot than  *)
(* it has, and from a lot only when every older lot is used up.            *)
IsFifo(taken, wanted) ==
  /\ DOMAIN taken = Lots
  /\ SumFunction(taken) = wanted
  /\ \A l \in Lots : taken[l] <= book[l].remaining
  /\ \A l, m \in Lots :
       taken[l] > 0 /\ book[m].date < book[l].date => taken[m] = book[m].remaining

(* The loop finds such an allocation whenever the book holds enough, and   *)
(* refuses otherwise: it never fills a disposal in part (allocateFifo).    *)
FifoAllocates ==
  \A wanted \in Qty \ {0} :
    LET allocated == AllocateFifo(wanted)
    IN IF Available >= wanted THEN allocated.ok /\ IsFifo(allocated.taken, wanted)
       ELSE ~allocated.ok
=============================================================================
