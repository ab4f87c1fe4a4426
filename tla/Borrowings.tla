----------------------------- MODULE Borrowings -----------------------------
(***************************************************************************)
(* Money borrowed: LiabilityUC of use-cases.ts, the register of            *)
(* borrowed-book.ts and the walk over the payments of amortisation.ts.  A  *)
(* request is one SQLite transaction.                                      *)
(*                                                                         *)
(* Abstractions: dates are counted in half months, Month of them to a      *)
(* month (a due day after the 28th, which addMonths clamps, is not         *)
(* modelled); the rate is RateHalves halves a month, and amounts are       *)
(* chosen so that the halves stay whole, which leaves the rounding of a    *)
(* figure to paise out; the contractual schedule, which no balance reads,  *)
(* the mode and notes of a payment and the loan's kind are left out.       *)
(***************************************************************************)
EXTENDS Naturals, FiniteSets, FiniteSetsExt, Functions, SequencesExt

CONSTANTS
  Borrowed,     \* the loans entered: lender, start, principal, rate
  Payments,     \* the payments entered: date, amount, prepayment or not
  MaxPayments,  \* bound on the payments of a loan
  LastDay       \* bound on the clock

Month == 2
LoanId == {<<t.lender, t.start, t.principal>> : t \in Borrowed}

VARIABLES
  loans,  \* the loans by id: principal, rate, start, status, payments
  mode,   \* the vault: locked, unlocked, or unlocked in edit mode
  today

vars == <<loans, mode, today>>
---------------------------------------------------------------------------
Unlocked == mode # "locked"
Editing == mode = "editing"
Smaller(m, n) == IF m <= n THEN m ELSE n

(* The walk over the payments: what is owed, the interest accrued on it    *)
(* and not yet paid, and where each payment went.                          *)
Start(loan) ==
  [owed |-> loan.principal, accrued |-> 0, cursor |-> loan.start,
   interest |-> 0, repaid |-> 0, prepaid |-> 0]

\* Interest of the whole months up to the date, on what is owed.
AccrueTo(w, rate, date) ==
  LET months == IF date >= w.cursor THEN (date - w.cursor) \div Month ELSE 0
  IN  [w EXCEPT !.accrued = @ + months * ((w.owed * rate) \div 2),
                !.cursor = @ + months * Month]

Prepay(w, amount) ==
  LET applied == Smaller(amount, w.owed)
  IN  [w EXCEPT !.owed = @ - applied, !.repaid = @ + applied, !.prepaid = @ + applied]

\* An instalment services the interest first.
PayInstalment(w, amount) ==
  LET toInterest == Smaller(amount, w.accrued)
      toPrincipal == Smaller(amount - toInterest, w.owed)
  IN  [w EXCEPT !.accrued = @ - toInterest, !.interest = @ + toInterest,
                !.owed = @ - toPrincipal, !.repaid = @ + toPrincipal]

\* Fault: the debt before the interest.
ApplyPrincipalFirst(w, p, rate) ==
  LET at == AccrueTo(w, rate, p.date)
      toPrincipal == Smaller(p.amount, at.owed)
  IN  IF p.prepayment THEN Prepay(at, p.amount)
      ELSE [at EXCEPT !.owed = @ - toPrincipal, !.repaid = @ + toPrincipal,
                      !.interest = @ + p.amount - toPrincipal, !.accrued = 0]
Apply(w, p, rate) ==
  LET at == AccrueTo(w, rate, p.date)
  IN  IF p.prepayment THEN Prepay(at, p.amount) ELSE PayInstalment(at, p.amount)

Due(loan, asOf) == {p \in loan.payments : p.date <= asOf}
\* By date; the order of payments of one day is the table's.
Orders(payments) ==
  {s \in SetToSeqs(payments) : \A i, j \in DOMAIN s : i < j => s[i].date <= s[j].date}
Walk(loan, s) == FoldLeft(LAMBDA w, p : Apply(w, p, loan.rate), Start(loan), s)
Progress(loan, asOf) == Walk(loan, CHOOSE s \in Orders(Due(loan, asOf)) : TRUE)

(* The two figures of what is owed: the register's, and net worth's, which *)
(* goes to the walk without the register.  A closed loan owes nothing.     *)
Outstanding(loan, asOf) ==
  IF loan.status = "CLOSED" THEN 0 ELSE Progress(loan, asOf).owed
Liability(loan, asOf) ==
  IF loan.status = "CLOSED" THEN 0 ELSE Progress(loan, asOf).owed

TotalOutstanding(lenders) ==
  MapThenSumSet(LAMBDA id : Outstanding(loans[id], today),
                {id \in DOMAIN loans : id[1] \in lenders})
---------------------------------------------------------------------------
Put(id, loan) ==
  /\ loans' = [i \in DOMAIN loans \cup {id} |-> IF i = id THEN loan ELSE loans[i]]
  /\ UNCHANGED <<mode, today>>

\* The id is made of the terms, and a loan with them already there refuses.
Fresh(id) == id \notin DOMAIN loans
Record(t) ==
  LET id == <<t.lender, t.start, t.principal>>
  IN  /\ Unlocked
      /\ t.principal > 0
      /\ Fresh(id)
      /\ Put(id, [principal |-> t.principal, rate |-> t.rate, start |-> t.start,
                  status |-> "ACTIVE", payments |-> {}])

RecordPayment(id, p) ==
  /\ Unlocked
  /\ p.amount > 0
  /\ Cardinality(loans[id].payments \cup {p}) <= MaxPayments
  /\ Put(id, [loans[id] EXCEPT !.payments = @ \cup {p}])

Close(id) == Editing /\ Put(id, [loans[id] EXCEPT !.status = "CLOSED"])
Reopen(id) == Editing /\ Put(id, [loans[id] EXCEPT !.status = "ACTIVE"])

Delete(id) ==
  /\ Editing
  /\ loans' = Restrict(loans, DOMAIN loans \ {id})
  /\ UNCHANGED <<mode, today>>

Session ==
  /\ mode' \in {"locked", "unlocked", "editing"} \ {mode}
  /\ UNCHANGED <<loans, today>>

NextDay ==
  /\ today < LastDay
  /\ today' = today + 1
  /\ UNCHANGED <<loans, mode>>

Init == loans = [id \in {} |-> id] /\ mode = "locked" /\ today = 0

Next ==
  \/ \E t \in Borrowed : Record(t)
  \/ \E id \in DOMAIN loans :
       \/ \E p \in Payments : RecordPayment(id, p)
       \/ Close(id)
       \/ Reopen(id)
       \/ Delete(id)
  \/ Session
  \/ NextDay

Spec == Init /\ [][Next]_vars
---------------------------------------------------------------------------
(* Every rupee paid on a loan went to interest or to the debt, until the   *)
(* debt was gone, and no figure hangs on the order in which payments of    *)
(* one day are read back.                                                  *)
PaidIn(loan) == MapThenSumSet(LAMBDA p : p.amount, Due(loan, today))
Placed(loan, w) ==
  /\ w.owed + w.repaid = loan.principal
  /\ w.prepaid <= w.repaid
  /\ w.interest + w.repaid <= PaidIn(loan)
  /\ w.owed > 0 => w.interest + w.repaid = PaidIn(loan)
MoneyPlaced ==
  \A id \in DOMAIN loans :
    LET loan == loans[id]
        ends == {Walk(loan, s) : s \in Orders(Due(loan, today))}
    IN  /\ \A w \in ends : Placed(loan, w)
        /\ \A v, w \in ends : v.owed = w.owed /\ v.interest = w.interest

(* No payment leaves more owed than there would be without it, on any day. *)
Without(loan, p) == [loan EXCEPT !.payments = @ \ {p}]
PayingLowersDebt ==
  \A id \in DOMAIN loans : \A p \in loans[id].payments, d \in 0..LastDay :
    Outstanding(loans[id], d) <= Outstanding(Without(loans[id], p), d)

(* What net worth takes off for the loans is what the register says is     *)
(* owed, under every filter on lenders.                                    *)
Lenders == {id[1] : id \in DOMAIN loans}
NetWorthAgrees ==
  LET owed == MapThenSumSet(LAMBDA id : Liability(loans[id], today), DOMAIN loans)
  IN  /\ TotalOutstanding(Lenders) = owed
      /\ MapThenSumSet(LAMBDA l : TotalOutstanding({l}), Lenders) = owed
DebtsAddUp == MoneyPlaced /\ PayingLowersDebt /\ NetWorthAgrees

(* The register is a passbook whose loans are opened once.                 *)
Book == INSTANCE Passbook WITH
          Accounts <- LoanId,
          Reopens <- FALSE,
          paid <- [id \in DOMAIN loans |-> loans[id].payments],
          editing <- Editing
BorrowingsKept == Book!Spec
=============================================================================
