---------------------------- MODULE LoanFigures ----------------------------
(***************************************************************************)
(* What a hand loan is worth: the interest and principal of accruals.ts,   *)
(* the register's view of a loan (loan-book.ts) and the value net worth    *)
(* gives it (valuation.ts), as payments, closings and edits of the loan    *)
(* date arrive in any order and with any date.                             *)
(*                                                                         *)
(* Time is counted in periods of the 30/360 year, and a unit of principal  *)
(* earns one unit of interest in each, so no figure is rounded.            *)
(***************************************************************************)
EXTENDS Integers, Sequences, SequencesExt, FiniteSetsExt

CONSTANTS MaxDate, MaxAmount, MaxPayments, None

Date == 1..MaxDate
Amount == 1..MaxAmount
Repayment == [date : Date, principal : Amount]

VARIABLES
  loan,  \* the terms, repayments in the order entered, interest received
  asOf   \* the day the figures are for

vars == <<loan, asOf>>
---------------------------------------------------------------------------
Larger(m, n) == IF m > n THEN m ELSE n
Due(day) == {i \in DOMAIN loan.repaid : loan.repaid[i].date <= day}
\* Fault: in the order the lender entered them.
AsEntered(due) ==
  CHOOSE s \in SetToSeqs(due) : \A m, n \in DOMAIN s : m < n => s[m] < s[n]
\* By date; the sort keeps repayments of one day in the order entered.
Before(i, j) ==
  \/ loan.repaid[i].date < loan.repaid[j].date
  \/ loan.repaid[i].date = loan.repaid[j].date /\ i < j
ByDate(due) ==
  CHOOSE s \in SetToSeqs(due) : \A m, n \in DOMAIN s : m < n => Before(s[m], s[n])

Outstanding(day) ==
  Larger(0, loan.principal - MapThenSumSet(LAMBDA i : loan.repaid[i].principal, Due(day)))

(* accrue: a span that runs backwards earns nothing.                       *)
Earned(from, to, principal) == principal * Larger(0, to - from)

(* handLoanAccruedInterest: a repayment ends one span and starts another.  *)
Span(acc, i) ==
  [interest |-> acc.interest + Earned(acc.from, loan.repaid[i].date, acc.principal),
   principal |-> Larger(0, acc.principal - loan.repaid[i].principal),
   from |-> loan.repaid[i].date]
Accrued(day) ==
  LET last == FoldLeft(Span, [interest |-> 0, principal |-> loan.principal, from |-> loan.start],
                       ByDate(Due(day)))
  IN IF day <= loan.start THEN 0
     ELSE last.interest + Earned(last.from, day, last.principal)

(* viewOf: a closed loan stops at its closing date, principal and all.     *)
AccrualDate(day) == IF loan.closed # None /\ loan.closed < day THEN loan.closed ELSE day
StatusOf(outstanding) ==
  IF outstanding = 0 THEN "REPAID" ELSE IF loan.repaid # <<>> THEN "PARTIALLY_REPAID" ELSE "ACTIVE"
View(day) ==
  LET outstanding == Outstanding(AccrualDate(day))
  IN [outstanding |-> outstanding,
      balance |-> Larger(0, Accrued(AccrualDate(day)) - loan.interest),
      status |-> StatusOf(outstanding)]

(* handLoanValuer: the principal outstanding and the interest unpaid.      *)
Worth(day) == Outstanding(day) + Larger(0, Accrued(day) - loan.interest)
---------------------------------------------------------------------------
RecordPrincipalRepayment(r) ==
  /\ Len(loan.repaid) < MaxPayments
  /\ loan' = [loan EXCEPT !.repaid = Append(@, r)]
  /\ UNCHANGED asOf

RecordInterestPayment(amount) ==
  /\ loan.interest + amount <= MaxAmount
  /\ loan' = [loan EXCEPT !.interest = @ + amount]
  /\ UNCHANGED asOf

Close(date) == loan' = [loan EXCEPT !.closed = date] /\ UNCHANGED asOf
Reopen == loan' = [loan EXCEPT !.closed = None] /\ UNCHANGED asOf
EditLoanDate(date) == loan' = [loan EXCEPT !.start = date] /\ UNCHANGED asOf
NextDay == asOf <= MaxDate /\ asOf' = asOf + 1 /\ UNCHANGED loan

Init ==
  /\ loan \in [principal : Amount, start : Date, closed : {None}, repaid : {<<>>}, interest : {0}]
  /\ asOf = 1

Next ==
  \/ \E r \in Repayment : RecordPrincipalRepayment(r)
  \/ \E amount \in Amount : RecordInterestPayment(amount)
  \/ \E date \in Date : Close(date) \/ EditLoanDate(date)
  \/ Reopen
  \/ NextDay

Spec == Init /\ [][Next]_vars
---------------------------------------------------------------------------
RepaidSinceStart == \A i \in DOMAIN loan.repaid : loan.repaid[i].date >= loan.start

(* The header of loan-book.ts: interest accrues on the declining balance.  *)
(* For a loan repaid after it was made, the interest is what each period's *)
(* outstanding principal earned.                                           *)
PeriodByPeriod == MapThenSumSet(Outstanding, loan.start..(asOf - 1))
DecliningBalance == RepaidSinceStart => Accrued(asOf) = PeriodByPeriod

Owed == View(asOf).outstanding + View(asOf).balance

(* money-input.spec.ts: the register and net worth must not disagree about *)
(* the same money.                                                         *)
ScreensAgree == Worth(asOf) = Owed
=============================================================================
