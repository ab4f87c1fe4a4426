----------------------------- MODULE Snapshots -----------------------------
(***************************************************************************)
(* Frozen snapshots: CompliancePolicy (which statutory freeze points are   *)
(* due), GenerateSnapshotUC (the scheduler, and snapshots of a chosen      *)
(* date), SnapshotRepository (write once) and DeltaEngine (what moved      *)
(* between two sides).                                                     *)
(*                                                                         *)
(* Abstractions: an instant is the day it ends, in India; a holding is its *)
(* native value, and a foreign one is worth that at one rate of exchange;  *)
(* what is owed is one sum in rupees; nothing is rounded to a paisa; the   *)
(* content hash of a snapshot is its whole content.  What is valued is the *)
(* ledger of the moment, at the rates of the day it is valued for.         *)
(***************************************************************************)
EXTENDS Integers, FiniteSets, FiniteSetsExt, Functions

CONSTANTS
  Boundaries,   \* the statutory freeze points: the scope and the day
  Domestic,     \* the domestic holdings
  Foreign,      \* the foreign holdings
  Quotes,       \* the native values a holding takes: holding and value
  FxOn,         \* the rate of exchange of each day
  Liabilities,  \* the sums that may be owed
  Chosen,       \* the days a snapshot is asked for by date
  Unrated,      \* the days whose rate of exchange is missing at first
  LastDay,      \* bound on the clock
  None          \* no run yet

VARIABLES
  day,          \* the day it is
  holdings,     \* the holdings of the ledger and their native values
  liabilities,  \* what is owed on the borrowings
  rated,        \* the days whose rate of exchange is on file
  snapshots,    \* the frozen snapshots by id
  last,         \* the last successful run of the scheduler
  covered,      \* the day its first successful run looked back to
  open          \* the vault is unlocked

snapvars == <<day, holdings, liabilities, rated, snapshots, last, covered, open>>
---------------------------------------------------------------------------
(* What a ledger is worth, and the part of it a scope covers.              *)
RateOf(a, asOf) == IF a \in Foreign THEN FxOn[asOf] ELSE 1
Valued(asOf) == open /\ (DOMAIN holdings \cap Foreign # {} => asOf \in rated)
Valuation(asOf) == [a \in DOMAIN holdings |-> [native |-> holdings[a], rate |-> RateOf(a, asOf)]]
Market(p) == p.native * p.rate
Gross(positions) == MapThenSumSet(LAMBDA a : Market(positions[a]), DOMAIN positions)
InScope(scope) == CASE scope = "DOMESTIC" -> Domestic [] scope = "FOREIGN" -> Foreign
                    [] scope = "ALL" -> Domestic \cup Foreign
\* The positions are those of the scope; the totals are of everything.
Content(scope, asOf, created) ==
  [scope |-> scope, asOf |-> asOf, createdAt |-> created,
   positions |-> Restrict(Valuation(asOf), DOMAIN holdings \cap InScope(scope)),
   worth |-> Gross(Valuation(asOf)) - liabilities, owed |-> liabilities]

PersistImmutable(id, content) ==
  [i \in DOMAIN snapshots \cup {id} |->
     IF i \in DOMAIN snapshots THEN snapshots[i] ELSE content]

(* The freeze points crossed in (since, now] and not frozen yet.           *)
Id(b) == <<b.scope, b.at>>
\* Fault: a boundary that falls on the instant of the run waits for the next.
DueBefore(since) ==
  {b \in Boundaries : since < b.at /\ b.at < day /\ Id(b) \notin DOMAIN snapshots}
DueSnapshots(since) ==
  {b \in Boundaries : since < b.at /\ b.at <= day /\ Id(b) \notin DOMAIN snapshots}
\* The default window is a day, in the offset of the clock.  The route that
\* passes a Z instead has none: defaultSince throws, and it is no step.
DefaultSince == day - 1
\* Builds stop at the first freeze point that cannot be valued.
Buildable(due) == {b \in due : \A c \in due : c.at <= b.at => Valued(c.at)}
Frozen(built) ==
  [id \in DOMAIN snapshots \cup {Id(b) : b \in built} |->
     IF id \in DOMAIN snapshots THEN snapshots[id] ELSE Content(id[1], id[2], day)]

(* What moved between two sides: a row for every holding of either, none   *)
(* for what is owed.                                                       *)
NoPosition == [native |-> 0, rate |-> 1]
At(positions, a) == IF a \in DOMAIN positions THEN positions[a] ELSE NoPosition
Delta(before, after, a) ==
  [value |-> Market(At(after, a)) - Market(At(before, a)),
   bucket |-> CASE a \notin DOMAIN before -> "NEW"
                [] a \notin DOMAIN after -> "LIQUIDATED"
                [] OTHER -> "HELD",
   priceEffect |-> (At(after, a).native - At(before, a).native) * At(before, a).rate,
   currencyEffect |-> At(after, a).native * (At(after, a).rate - At(before, a).rate)]
\* Fault: only what is still held is compared.
CompareHeld(before, after) == [a \in DOMAIN after |-> Delta(before, after, a)]
Compare(before, after) ==
  [a \in DOMAIN before \cup DOMAIN after |-> Delta(before, after, a)]
---------------------------------------------------------------------------
(* A run of the scheduler.  The caller passes the last success, if any, or *)
(* nothing; a crash leaves the snapshots already built.                    *)
RunScheduler(since, crash) ==
  LET from == IF since # None THEN since ELSE DefaultSince
      due == DueSnapshots(from)
      built == IF crash THEN {b \in Buildable(due) : b.at < day} ELSE Buildable(due)
  IN  /\ open
      /\ snapshots' = Frozen(built)
      /\ IF built = due /\ ~crash
         THEN /\ last' = day
              /\ covered' = IF last = None \/ since # last THEN from ELSE covered
         ELSE UNCHANGED <<last, covered>>
      /\ open' = ~crash
      /\ UNCHANGED <<day, holdings, liabilities, rated>>

\* A snapshot of a day that has ended; freezing it again is refused.
Custom(asOf) ==
  /\ asOf <= day /\ Valued(asOf)
  /\ snapshots' = PersistImmutable(<<"ALL", asOf>>, Content("ALL", asOf, day))
  /\ UNCHANGED <<day, holdings, liabilities, rated, last, covered, open>>

\* The ledger, the market and the rates move on.
Hold(a, w) ==
  /\ holdings' = [x \in DOMAIN holdings \cup {a} |-> IF x = a THEN w ELSE holdings[x]]
  /\ UNCHANGED <<day, liabilities, rated, snapshots, last, covered, open>>
Liquidate(a) ==
  /\ holdings' = Restrict(holdings, DOMAIN holdings \ {a})
  /\ UNCHANGED <<day, liabilities, rated, snapshots, last, covered, open>>
Owe(d) ==
  /\ liabilities' = d
  /\ UNCHANGED <<day, holdings, rated, snapshots, last, covered, open>>
RateFiled(d) ==
  /\ rated' = rated \cup {d}
  /\ UNCHANGED <<day, holdings, liabilities, snapshots, last, covered, open>>
Unlock(b) ==
  /\ open' = b
  /\ UNCHANGED <<day, holdings, liabilities, rated, snapshots, last, covered>>
NextDay ==
  /\ day < LastDay /\ day' = day + 1
  /\ UNCHANGED <<holdings, liabilities, rated, snapshots, last, covered, open>>

SnapInit ==
  /\ day = 1 /\ holdings = <<>> /\ liabilities = 0
  /\ rated = 1..LastDay \ Unrated /\ snapshots = <<>>
  /\ last = None /\ covered = None /\ open = FALSE
SnapNext ==
  \/ \E since \in {last, None}, crash \in BOOLEAN : RunScheduler(since, crash)
  \/ \E d \in Chosen : Custom(d)
  \/ \E p \in Quotes : Hold(p[1], p[2])
  \/ \E a \in Domestic \cup Foreign : Liquidate(a)
  \/ \E d \in Liabilities : Owe(d)
  \/ \E d \in Unrated : RateFiled(d)
  \/ \E b \in BOOLEAN : Unlock(b)
  \/ NextDay
---------------------------------------------------------------------------
(* Nothing falls between two runs.  Every freeze point between the first   *)
(* day a caller's runs looked back to and its last success is frozen,      *)
(* whatever runs failed for a missing rate or crashed in between.          *)
CaughtUp ==
  last # None =>
    \A b \in Boundaries : covered < b.at /\ b.at <= last => Id(b) \in DOMAIN snapshots

(* A comparison accounts for all that moved.  Whether two snapshots of     *)
(* everything are compared or one and the live ledger, the rows add up to  *)
(* the change of net worth but for the change of what is owed, of which    *)
(* there is no row, and the row of a foreign holding on both sides is the  *)
(* price's effect and the currency's.                                      *)
Live ==
  [positions |-> Valuation(day),
   worth |-> Gross(Valuation(day)) - liabilities, owed |-> liabilities]
Compared ==
  {live \in {Live} : Valued(day)}
    \cup {snapshots[id] : id \in {i \in DOMAIN snapshots : i[1] = "ALL"}}
DeltasExplain ==
  \A before, after \in Compared :
    LET rows == Compare(before.positions, after.positions)
    IN  /\ MapThenSumSet(LAMBDA a : rows[a].value, DOMAIN rows)
             = (after.worth - before.worth) + (after.owed - before.owed)
        /\ \A a \in DOMAIN rows \cap Foreign :
             rows[a].bucket = "HELD" =>
               rows[a].priceEffect + rows[a].currencyEffect = rows[a].value
=============================================================================
