------------------------------ MODULE TaxYear ------------------------------
(***************************************************************************)
(* Advance tax of a financial year: the figures of the tax engine (slabs,  *)
(* capital gains, surcharge with its relief, instalments) and the books    *)
(* they are read from - the income profile, the receipts on holdings, the  *)
(* sales, the payments and the inclusions - with the requests that change  *)
(* them.  A request is one SQLite transaction.                             *)
(*                                                                         *)
(* Abstractions: amounts are whole rupees of a small world and nothing is  *)
(* rounded to the paisa; a date is the year and the slot of it, slot q up  *)
(* to quarter q's due date and 5 after the last one; a sale carries its    *)
(* gain in rupees.  Rates are in tenths, so a tax is in tenths of a rupee, *)
(* with surcharge in hundredths, and cess is in hundredths; a quarter's    *)
(* cumulative share is in twentieths.                                      *)
(***************************************************************************)
EXTENDS Integers, FiniteSets, FiniteSetsExt, Functions, SequencesExt

CONSTANTS
  Years,        \* the financial years
  Receivable,   \* the receipts entered: year, amount, whether in a foreign currency
  Accruals,     \* loans, deposits and chits: kind, and by year the cumulative
                \* figure before it and at its end
  Saleable,     \* the sales: year, slot, class, months held, gain, sell-to-cover
  Payable,      \* the payments entered: year, quarter, day, amount
  Profiles,     \* the profiles: salary, exempt, deductions, other, withheld
  Rules,        \* the rule set of the years
  Stances,      \* the sets of inclusions chosen
  MaxReceipts,  \* bound on the receipts stored, and on the counter
  None          \* no profile, no ceiling

Quarters == 1..4
Share == <<3, 9, 15, 20>>
Zero == [salary |-> 0, exempt |-> 0, deductions |-> 0, other |-> 0, withheld |-> 0]

VARIABLES
  profile,      \* the income profile, of whatever year it is entered for
  receipts,     \* the stored receipts by event id
  counter,      \* the event ids given since the process started
  exits,        \* the disposals of the ledger
  payments,     \* the payments recorded
  inclusions,   \* what the taxpayer has switched on
  books         \* the vault: locked, unlocked, or editing

taxvars == <<profile, receipts, counter, exits, payments, inclusions, books>>
---------------------------------------------------------------------------
NotBelow(a, b) == IF a >= b THEN a ELSE b
AtMost(a, b) == IF a <= b THEN a ELSE b

(* Other sources: what is typed, what accrued, what was received.          *)
Positions == {"loan", "chit"}
During(a, y) == NotBelow(0, a.closing[y] - a.opening[y])
Accrued(y) ==
  MapThenSumSet(LAMBDA a : During(a, y),
                {a \in Accruals : /\ a.kind # "pf"
                                  /\ a.kind \in Positions => a.kind \in inclusions})
Received(y) == {id \in DOMAIN receipts : receipts[id].year = y}
\* A receipt in a foreign currency cannot be summed: the figure throws.
Computable(y) == \A id \in Received(y) : ~receipts[id].foreign
Derived(y) == Accrued(y) + MapThenSumSet(LAMBDA id : receipts[id].amount, Received(y))

ProfileFor == IF profile = None THEN Zero ELSE profile
Effective(y) == [ProfileFor EXCEPT !.other = @ + Derived(y)]

(* Slabs: each band taxes its slice.                                       *)
Taxable(income, regime) ==
  LET gross == income.salary + income.other
  IN  NotBelow(0, gross - income.exempt - Rules.standard[regime]
                  - (IF regime = "OLD" THEN income.deductions ELSE 0))
Ceiling(slabs, i, total) ==
  IF i = 0 THEN 0 ELSE IF slabs[i].upTo = None THEN total ELSE AtMost(total, slabs[i].upTo)
SlabTax(amount, regime) ==
  LET slabs == Rules.slabs[regime]
      Slice(i) == Ceiling(slabs, i, amount) - Ceiling(slabs, i - 1, amount)
  IN  MapThenSumSet(LAMBDA i : Slice(i) * slabs[i].rate, DOMAIN slabs)

(* Capital gains: the head of a sale, and the sums of the heads.           *)
Kind(s) ==
  CASE s.class = "CRYPTO" -> "VDA_GAIN"
    [] s.class \in Rules.alwaysSlab -> "SLAB"
    [] OTHER -> IF s.months <= Rules.months[s.class] THEN "STCG" ELSE "LTCG"
Charged(sales) == {s \in sales : s.cover => "cover" \in inclusions}
GainsOf(sales, kind) ==
  MapThenSumSet(LAMBDA s : s.gain, {s \in Charged(sales) : Kind(s) = kind})
TaxableLtcg(sales) ==
  LET gain == GainsOf(sales, "LTCG")
  IN  NotBelow(0, gain - AtMost(NotBelow(0, gain), Rules.exemption))
GainsTax(sales) ==
  TaxableLtcg(sales) * Rules.ltcg + GainsOf(sales, "STCG") * Rules.stcg
  + GainsOf(sales, "VDA_GAIN") * Rules.vda

(* Surcharge: the highest band exceeded, capped on gains, less the relief  *)
(* that caps what the excess over the threshold costs.                     *)
BandsOf(total) == {b \in Rules.bands : total > b.above}
BandOf(total) == CHOOSE b \in BandsOf(total) : \A c \in BandsOf(total) : c.above <= b.above
Headline(base, gains, band) ==
  base * band.rate + gains * AtMost(band.rate, Rules.cap)
Relief(base, gains, excess, surcharge) ==
  LET ceiling == 10 * NotBelow(0, base - excess * Rules.top) + 100 * excess
      payable == 10 * (base + gains) + surcharge
  IN  IF payable > ceiling THEN AtMost(surcharge, payable - ceiling) ELSE 0
\* Fault: the cliff without its relief.
SurchargeNoRelief(base, gains, total) ==
  IF BandsOf(total) = {} THEN 0 ELSE Headline(base, gains, BandOf(total))
Surcharge(base, gains, total) ==
  IF BandsOf(total) = {} THEN 0
  ELSE LET band == BandOf(total)
           headline == Headline(base, gains, band)
       IN  headline - Relief(base, gains, total - band.above, headline)

(* The instalment of a quarter: only sales made by its due date count,     *)
(* and every payment of the year is credited.                              *)
SoldBy(y, q) == {s \in exits : s.year = y /\ s.slot <= q}
TotalIncome(income, sales) == Taxable(income, "NEW") + GainsOf(sales, "STCG")
BaseTax(income) == SlabTax(Taxable(income, "NEW"), "NEW")
BeforeCess(income, sales) ==
  LET base == BaseTax(income)
      gains == GainsTax(sales)
  IN  10 * (base + gains) + Surcharge(base, gains, TotalIncome(income, sales))
Liability(y, q) == BeforeCess(Effective(y), SoldBy(y, q)) * (100 + Rules.cess)
\* What a rupee is in the unit of Required.
Scale == 200000
Required(y, q) == Liability(y, q) * Share[q]
\* Fault: a quarter credits its own payments only.
CreditedOwn(y, q) == {p \in payments : p.year = y /\ p.quarter = q}
Credited(y, q) == {p \in payments : p.year = y}
Paid(y, q) == MapThenSumSet(LAMBDA p : p.amount, Credited(y, q))
Outstanding(y, q) == Required(y, q) - Scale * (ProfileFor.withheld + Paid(y, q))
\* Rounded half up to the unit of payment.
Net(y, q) ==
  LET due == NotBelow(0, Outstanding(y, q))
  IN  ((2 * due + Scale * Rules.unit) \div (2 * Scale * Rules.unit)) * Rules.unit
---------------------------------------------------------------------------
Open == books # "locked"
Editing == books = "editing"

(* A receipt on a holding.  Its id comes from the process's counter, and   *)
(* an id already stored, whatever the holding, makes the insert throw.     *)
NextId == counter + 1
Receive(r) ==
  /\ Open /\ NextId <= MaxReceipts
  /\ counter' = NextId
  /\ receipts' = IF NextId \in DOMAIN receipts THEN receipts
                 ELSE [id \in DOMAIN receipts \cup {NextId} |->
                         IF id = NextId THEN r ELSE receipts[id]]
  /\ UNCHANGED <<profile, exits, payments, inclusions, books>>

\* A sale reaches the ledger, and is removed from it.
Sell(s) ==
  /\ Open /\ exits' = exits \cup {s}
  /\ UNCHANGED <<profile, receipts, counter, payments, inclusions, books>>
Undo(s) ==
  /\ Editing /\ exits' = exits \ {s}
  /\ UNCHANGED <<profile, receipts, counter, payments, inclusions, books>>

\* A payment is its content: the id spells year, quarter, day and amount.
Pay(p) ==
  /\ Open /\ payments' = payments \cup {p}
  /\ UNCHANGED <<profile, receipts, counter, exits, inclusions, books>>
Unpay(p) ==
  /\ Editing /\ payments' = payments \ {p}
  /\ UNCHANGED <<profile, receipts, counter, exits, inclusions, books>>

\* The first profile is an addition; replacing it is an edit.
SaveProfile(p) ==
  /\ Open
  /\ profile # None => Editing
  /\ profile' = p
  /\ UNCHANGED <<receipts, counter, exits, payments, inclusions, books>>

\* Every change of the inclusions is an edit.
Include(positions) ==
  /\ Editing /\ inclusions' = positions
  /\ UNCHANGED <<profile, receipts, counter, exits, payments, books>>

Session(b) ==
  /\ b = "editing" => Open
  /\ books' = b
  /\ UNCHANGED <<profile, receipts, counter, exits, payments, inclusions>>
\* The process starts again: the counter does too, and the vault is locked.
Restart ==
  /\ counter' = 0 /\ books' = "locked"
  /\ UNCHANGED <<profile, receipts, exits, payments, inclusions>>

TaxInit ==
  /\ profile = None /\ receipts = <<>> /\ counter = 0 /\ exits = {} /\ payments = {}
  /\ inclusions = {} /\ books = "locked"
TaxNext ==
  \/ \E r \in Receivable : Receive(r)
  \/ \E s \in Saleable : Sell(s) \/ Undo(s)
  \/ \E p \in Payable : Pay(p) \/ Unpay(p)
  \/ \E p \in Profiles : SaveProfile(p)
  \/ \E i \in Stances : Include(i)
  \/ \E b \in {"locked", "unlocked", "editing"} : Session(b)
  \/ Restart
---------------------------------------------------------------------------
\* What a step adds to the receipts of a year.
Fresh == DOMAIN receipts' \ DOMAIN receipts
FreshIn(y) == MapThenSumSet(LAMBDA id : receipts'[id].amount,
                            {id \in Fresh : receipts'[id].year = y})

(* The cost of a receipt.  A receipt moves the tax of its own year only,   *)
(* by at most its amount, and lowers it only by entering a higher band of  *)
(* surcharge (the relief there forgets the lower band's): no threshold     *)
(* makes a rupee more cost more than a rupee.  A year whose gains are a    *)
(* loss is left out, its negative tax counting against the ceiling.        *)
ReceiptCost ==
  Fresh # {} =>
    \A y \in {z \in Years : Computable(z)'}, q \in Quarters :
      \A before \in {Effective(y)}, after \in {Effective(y)'}, sales \in {SoldBy(y, q)} :
        GainsTax(sales) >= 0 =>
          LET rise == BeforeCess(after, sales) - BeforeCess(before, sales)
          IN  /\ rise <= 100 * FreshIn(y)
              /\ \/ rise >= 0
                 \/ BandsOf(TotalIncome(after, sales)) # BandsOf(TotalIncome(before, sales))
ReceiptMovesTax == [][ReceiptCost]_taxvars

(* Paying what is asked settles the year so far.  Whichever quarters were  *)
(* skipped, part paid or overpaid, a payment of the instalment demanded    *)
(* brings all that was withheld and paid to within half a payment unit of  *)
(* what the quarter requires - unless it equals a payment already          *)
(* recorded, which absorbs it.                                             *)
InAll(y) == MapThenSumSet(LAMBDA p : p.amount, {p \in payments : p.year = y})
PayingSettles ==
  [][\A p \in payments' \ payments :
       p.amount = Net(p.year, p.quarter) =>
         LET settled == Scale * (ProfileFor.withheld + InAll(p.year)')
             apart == 2 * (settled - Required(p.year, p.quarter))
         IN  apart \in -(Scale * Rules.unit)..(Scale * Rules.unit)]_taxvars

(* Every receipt accepted by IncomeUC.record is stored: a receipt is an    *)
(* addition, ungated and refused only for its own form.                    *)
ReceiptsKept == [][counter' > counter => NextId \in Fresh]_taxvars
=============================================================================
