----------------------------- MODULE MC_Ledger -----------------------------
(***************************************************************************)
(* Instances of Ledger: a stock plan, a broker account, two mutual-fund    *)
(* statements.  The broker account is a second ledger beside the first; a  *)
(* behaviour works on one of the two, its side, so that their states add   *)
(* up instead of multiplying.                                              *)
(***************************************************************************)
EXTENDS Ledger

CONSTANT Sides   \* the ledgers a run works on
CONSTANTS sep, dec, o1, o2, gl1, gl2, holdings, apr, jul, other, cams, t1, t2, t3, t4, t5

Plain(kind, date, qty, price, src, row, trade) ==
  [kind |-> kind, date |-> date, qty |-> qty, price |-> price, padded |-> FALSE,
   tranche |-> None, order |-> None, partial |-> FALSE, stated |-> None,
   src |-> src, row |-> row, trade |-> trade]
Padded(r) == [r EXCEPT !.padded = TRUE]

(* A row of a gains and losses export: the slice of the vest, and its sale. *)
GainsLosses(tranche, vested, cost, sold, qty, order, src, row, trade) ==
  {[Plain("BUY", vested, qty, cost, src, row, tranche)
      EXCEPT !.tranche = tranche, !.order = order, !.partial = TRUE],
   [Plain("SELL", sold, qty, 9, src, row, trade)
      EXCEPT !.tranche = tranche, !.order = order]}
Holding(tranche, vested, cost, qty, left, src, row) ==
  {[Plain("BUY", vested, qty, cost, src, row, tranche)
      EXCEPT !.tranche = tranche, !.stated = left]}

(* One order sells the same quantity out of two vests on one day, and is   *)
(* split in two rows for one of them; the exports overlap; the holdings    *)
(* export rounds the price differently.                                    *)
MCPlanFiles ==
  [f \in {gl1, gl2, holdings} |->
     CASE f = gl1 -> GainsLosses(sep, 1, 3, 5, 1, o1, gl1, 1, t1)
                       \cup GainsLosses(dec, 2, 3, 5, 1, o1, gl1, 2, t2)
                       \cup GainsLosses(sep, 1, 3, 5, 2, o1, gl1, 3, t3)
       [] f = gl2 -> GainsLosses(dec, 2, 3, 5, 1, o1, gl2, 1, t2)
                       \cup GainsLosses(sep, 1, 3, 6, 1, o2, gl2, 2, t4)
       [] f = holdings -> Holding(sep, 1, 4, 5, 1, holdings, 1)
                            \cup Holding(dec, 2, 4, 3, 2, holdings, 2)]

(* Two exports of one account that overlap in a purchase and the sale that *)
(* took part of it, and one of another broker, which pads its quantities.  *)
MCAccountFiles ==
  [f \in {apr, jul, other} |->
     CASE f = apr -> {Plain("BUY", 1, 2, 3, apr, 1, t1), Plain("SELL", 3, 1, 5, apr, 2, t3)}
       [] f = jul -> {Plain("BUY", 1, 2, 3, jul, 1, t1), Plain("SELL", 3, 1, 5, jul, 2, t3)}
       [] f = other -> {Padded(Plain("BUY", 3, 1, 3, other, 1, t5))}]
MCNone == {}
MCTyped == {[kind |-> "BUY", date |-> 2, qty |-> 2, price |-> 4],
            [kind |-> "SELL", date |-> 4, qty |-> 1, price |-> 6]}

VARIABLES brokerLots, brokerExits, brokerJob, brokerImported, brokerTorn, brokerCrashes, side
brokervars ==
  <<brokerLots, brokerExits, brokerJob, brokerImported, brokerTorn, brokerCrashes>>
Broker == INSTANCE Ledger WITH
            Files <- MCAccountFiles, Typed <- MCTyped, MaxFills <- 1, MaxCrashes <- 1,
            lots <- brokerLots, exits <- brokerExits, job <- brokerJob,
            imported <- brokerImported, torn <- brokerTorn, crashes <- brokerCrashes

LedgersInit == side \in Sides /\ Init /\ Broker!Init
LedgersNext ==
  /\ UNCHANGED side
  /\ IF side = "own" THEN Next ELSE UNCHANGED vars
  /\ IF side = "broker" THEN Broker!Next ELSE UNCHANGED brokervars
LedgersSpec == LedgersInit /\ [][LedgersNext]_<<side, vars, brokervars>>

(* A trade two exports of the account report is one lot or one disposal.   *)
BrokerTradesOnce == side = "broker" => Broker!NoTradeTwice
(* A purchase typed in twice and confirmed is a second lot.                *)
BrokerPurchasesCount == Broker!EveryPurchaseCounts

(* Two statements of a mutual fund: the CAMS parser gives every statement  *)
(* the same provenance.                                                    *)
MCCamsFiles ==
  [f \in {apr, jul} |->
     IF f = apr THEN {Plain("BUY", 1, 2, 3, cams, 1, t1), Plain("SELL", 3, 1, 5, cams, 2, t2)}
     ELSE {Plain("BUY", 4, 2, 4, cams, 1, t3), Plain("SELL", 5, 1, 6, cams, 2, t4)}]
=============================================================================
