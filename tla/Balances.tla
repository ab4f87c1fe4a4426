------------------------------ MODULE Balances ------------------------------
(***************************************************************************)
(* Deposits, provident funds, gratuity and stated balances: BalanceUC, the *)
(* entry of an account (balance-entry.ts) and what it is worth on a date   *)
(* (balance-account.ts over accruals.ts).                                  *)
(*                                                                         *)
(* Abstractions: a date is a month, the compounding period is a month and  *)
(* a rate the interest on one rupee in it, so that no figure is rounded;   *)
(* the two monthly contributions to a provident fund are one; the          *)
(* institution and the class are part of the label; the entitlement of a   *)
(* year of service is one month's wage.  A request is one transaction; a   *)
(* refused one changes nothing and is no step.                             *)
(***************************************************************************)
EXTENDS Integers, FiniteSets, FiniteSetsExt, Functions

CONSTANTS
  Entries,      \* the accounts entered
  Restatements, \* the figures restated
  ClosingDates, \* the closing dates given
  Year,         \* the months of a year of service
  Vesting,      \* the years of service that entitle to gratuity
  LastMonth,    \* bound on the clock
  MaxAccounts,  \* bound on the accounts of a book
  None          \* no rate, no maturity, no certificate, not closed

VARIABLES
  accounts,   \* the balance accounts by id
  mode,       \* the vault: locked, unlocked, or unlocked in edit mode
  month       \* today's month

balancevars == <<accounts, mode, month>>
---------------------------------------------------------------------------
Unlocked == mode # "locked"
Editing == mode = "editing"

Earlier(date, limit) == IF limit # None /\ limit < date THEN limit ELSE date
Past(limit, asOf) == limit # None /\ asOf >= limit
MonthsBetween(from, to) == IF to > from THEN to - from ELSE 0

(* Accrual stops at maturity and at the closing.                           *)
AccrualEnd(a, asOf) == Earlier(Earlier(asOf, a.maturity), a.closed)
Figure(value, contributed) ==
  [value |-> value, contributed |-> contributed, interest |-> value - contributed]

(* depositAccruedValue: compound interest on a lump sum.                   *)
Power(base, n) ==
  LET power[m \in 0..n] == IF m = 0 THEN 1 ELSE power[m - 1] * base IN power[n]
Compounded(principal, rate, from, to) ==
  principal * Power(1 + rate, MonthsBetween(from, to))

\* The certificate wins once the deposit has matured; no rate, no growth.
TermDeposit(a, asOf) ==
  Figure(IF Past(a.maturity, asOf) /\ a.certificate # None THEN a.certificate
         ELSE IF a.rate = None THEN a.opening
         ELSE Compounded(a.opening, a.rate, a.opened, AccrualEnd(a, asOf)),
         a.opening)

(* Instalments count from the opening month; each compounds from its own.  *)
Instalments(a, asOf) ==
  IF AccrualEnd(a, asOf) < a.opened THEN 0 ELSE AccrualEnd(a, asOf) - a.opened + 1
\* Fault: the last instalment earns what the first one earned.
AllFromOpening(a, asOf) ==
  Instalments(a, asOf) * Compounded(a.monthly, a.rate, a.opened, AccrualEnd(a, asOf))
Grown(a, asOf) ==
  MapThenSumSet(LAMBDA i : Compounded(a.monthly, a.rate, a.opened + i, AccrualEnd(a, asOf)),
                0..(Instalments(a, asOf) - 1))
RecurringDeposit(a, asOf) ==
  LET contributed == a.opening + Instalments(a, asOf) * a.monthly
  IN  Figure(IF a.rate = None THEN contributed
             ELSE Grown(a, asOf) + Compounded(a.opening, a.rate, a.opened, AccrualEnd(a, asOf)),
             contributed)

(* epfProjection: every month the contribution, then interest on both.     *)
Projected(a, months) ==
  LET balance[m \in 0..months] ==
        IF m = 0 THEN a.opening ELSE (balance[m - 1] + a.monthly) * (1 + a.rate)
  IN  balance[months]
ProvidentFund(a, asOf) ==
  LET elapsed == MonthsBetween(a.opened, AccrualEnd(a, asOf))
      contributed == a.opening + elapsed * a.monthly
  IN  Figure(IF a.rate = None THEN contributed ELSE Projected(a, elapsed), contributed)

Gratuity(a, asOf) ==
  LET years == MonthsBetween(a.opened, AccrualEnd(a, asOf)) \div Year
      entitlement == IF years < Vesting THEN 0 ELSE a.monthly * years
  IN  Figure(entitlement, entitlement)

\* Once closed it is worth nothing here: the proceeds are cash elsewhere.
View(a, asOf) ==
  IF Past(a.closed, asOf) THEN Figure(0, 0)
  ELSE CASE a.kind = "TERM_DEPOSIT" -> TermDeposit(a, asOf)
         [] a.kind = "RECURRING_DEPOSIT" -> RecurringDeposit(a, asOf)
         [] a.kind = "PROVIDENT_FUND" -> ProvidentFund(a, asOf)
         [] a.kind = "GRATUITY" -> Gratuity(a, asOf)
         [] a.kind = "STATED_BALANCE" -> Figure(a.opening, a.opening)

(* Interest accrued during a window: what has accrued by its end, less what *)
(* had by its start, never less than nothing.                              *)
InterestBetween(a, from, to) ==
  Max({0, View(a, to).interest - View(a, from).interest})
---------------------------------------------------------------------------
(* An id is made of what the account is and of the date it was entered     *)
(* with; a restatement moves the date and leaves the id.                   *)
AssetId(e) == <<e.label, e.opened>>
Valid(e) == e.kind = "RECURRING_DEPOSIT" => e.monthly > 0
Save(id, account) ==
  /\ accounts' = [i \in DOMAIN accounts \cup {id} |-> IF i = id THEN account ELSE accounts[i]]
  /\ UNCHANGED <<mode, month>>

\* Adding is free, replacing takes edit mode.
Record(e) ==
  /\ Unlocked /\ Valid(e)
  /\ AssetId(e) \in DOMAIN accounts => Editing
  /\ Cardinality(DOMAIN accounts \cup {AssetId(e)}) <= MaxAccounts
  /\ Save(AssetId(e), e)

\* The figure and the date it is true of move together.
Restate(id, amount, on) ==
  /\ Editing
  /\ Save(id, [accounts[id] EXCEPT !.opening = amount, !.opened = on])

Close(id, on) ==
  /\ Editing
  /\ Save(id, [accounts[id] EXCEPT !.closed = on])

Delete(id) ==
  /\ Editing
  /\ accounts' = Restrict(accounts, DOMAIN accounts \ {id})
  /\ UNCHANGED <<mode, month>>

Session ==
  /\ mode' \in {"locked", "unlocked", "editing"} \ {mode}
  /\ UNCHANGED <<accounts, month>>

NextMonth ==
  /\ month < LastMonth /\ month' = month + 1
  /\ UNCHANGED <<accounts, mode>>

BalancesInit == accounts = <<>> /\ mode = "locked" /\ month = 0
BalancesNext ==
  \/ \E e \in Entries : Record(e)
  \/ \E id \in DOMAIN accounts :
       \/ \E amount \in Restatements, on \in 0..LastMonth : Restate(id, amount, on)
       \/ \E on \in ClosingDates : Close(id, on)
       \/ Delete(id)
  \/ Session
  \/ NextMonth
---------------------------------------------------------------------------
(* What an account is worth, told month by month.  It starts at the figure *)
(* entered (a recurring deposit with its first instalment); until maturity *)
(* each month adds a month's interest on the month before and, in its turn, *)
(* the contribution; afterwards nothing but a certificate moves it.        *)
Rate(a) == IF a.rate = None THEN 0 ELSE a.rate
FirstWorth(a) == IF a.kind = "RECURRING_DEPOSIT" THEN a.opening + a.monthly ELSE a.opening
NextWorth(a, worth) ==
  CASE a.kind = "TERM_DEPOSIT" -> worth * (1 + Rate(a))
    [] a.kind = "RECURRING_DEPOSIT" -> worth * (1 + Rate(a)) + a.monthly
    [] a.kind = "PROVIDENT_FUND" -> (worth + a.monthly) * (1 + Rate(a))
    [] a.kind = "STATED_BALANCE" -> worth
Settled(a, m) == Past(a.maturity, m) \/ Past(a.closed, m)
Grows(a) ==
  /\ ~Settled(a, a.opened) => View(a, a.opened).value = FirstWorth(a)
  /\ \A m \in a.opened..LastMonth :
       /\ ~Settled(a, m) /\ ~Past(a.closed, m + 1) /\ (Past(a.maturity, m + 1) => a.certificate = None) =>
            View(a, m + 1).value = NextWorth(a, View(a, m).value)
       /\ Settled(a, m) /\ ~(Past(a.closed, m + 1) /\ ~Past(a.closed, m)) =>
            View(a, m + 1).value = View(a, m).value

(* The interest of two years that meet is the interest of both, so no      *)
(* interest is taxed twice or never; unless the account was closed, or its *)
(* certificate paid less than had accrued.                                 *)
PaysAccrued(a) ==
  LET left == View([a EXCEPT !.certificate = None, !.closed = None], LastMonth).value
  IN  a.certificate = None \/ a.certificate >= left
WindowsMeet(a) ==
  \A from, mid, to \in 0..LastMonth :
    from <= mid /\ mid <= to /\ ~Past(a.closed, to) /\ PaysAccrued(a) =>
      InterestBetween(a, from, mid) + InterestBetween(a, mid, to) = InterestBetween(a, from, to)

(* Every account entered, restated and closed grows so.                    *)
BalancesGrow ==
  \A id \in DOMAIN accounts :
    /\ accounts[id].kind # "GRATUITY" => Grows(accounts[id])
    /\ WindowsMeet(accounts[id])

(* balance-accounts.spec.ts: valued on the restatement date an account is  *)
(* exactly the stated figure, unless it is closed or has matured.          *)
RestatedAsStated ==
  [][\A id \in DOMAIN accounts, amount \in Restatements, on \in 0..LastMonth :
       accounts[id].kind # "GRATUITY" /\ ~Settled(accounts[id], on)
         /\ Restate(id, amount, on) =>
       View(accounts'[id], on).value = amount]_balancevars
=============================================================================
