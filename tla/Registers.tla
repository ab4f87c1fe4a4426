----------------------------- MODULE Registers -----------------------------
(***************************************************************************)
(* The registers of one vault: Chits, Borrowings, Balances, TaxYear,       *)
(* Snapshots, Rates, Disclosure, LotAllocation, LoanFigures, and HandLoans *)
(* where it may crash between two transactions.  They share no state but   *)
(* the session (mode), and a behaviour works on one of them, its side, so  *)
(* that their states add up instead of multiplying.                        *)
(***************************************************************************)
EXTENDS HandLoans

\* What each register is given; see its module.
CONSTANTS
  Sides,           \* the registers a behaviour may work on
  OpenedChits, ChitEdits, Emis, Draws, Tables, Labels, MaxEmis, LastChitMonth,
  Borrowed, Repaid, MaxRepaid, LastDebtDay,
  OpenedAccounts, Restatements, ClosingDates, ServiceYear, Vesting, LastDepositMonth, MaxAccounts,
  Years, Receivable, Accruals, Saleable, Payable, Profiles, Rules, Stances, MaxReceipts,
  Boundaries, DomesticAssets, ForeignAssets, Quotes, FxOn, Liabilities, Chosen, Unrated, LastDay,
  Archives, TypedRates, RateSales, Plausible, MonthDays, Lookback, Comparable, MaxMove,
  Disclosed, Trades, Published, Stated, Observed, TypedDates, YearStart, YearEnd, Closure, Dollar,
  MaxLots, MaxLotQty, MaxLotDate, MaxSales,
  MaxLoanDate, MaxLoanAmount, MaxLoanPayments

VARIABLES
  chits, schedules, month,
  owed, today,
  accounts, date,
  profile, receipts, counter, exits, payments, inclusions, books,
  day, holdings, liabilities, rated, snapshots, last, covered, open,
  rates, vests, disposals,
  sheet, prices, marks, trades, details, frozen,
  book, sold,
  loan, asOf,
  side

Funds == INSTANCE Chits WITH Openings <- OpenedChits, LastMonth <- LastChitMonth, now <- month
Owed == INSTANCE Borrowings WITH
          Payments <- Repaid, MaxPayments <- MaxRepaid, LastDay <- LastDebtDay, loans <- owed
Deposits == INSTANCE Balances WITH
              Entries <- OpenedAccounts, Year <- ServiceYear, LastMonth <- LastDepositMonth,
              month <- date
Tax == INSTANCE TaxYear
Frozen == INSTANCE Snapshots WITH Domestic <- DomesticAssets, Foreign <- ForeignAssets
Itbr == INSTANCE Rates WITH
          Typed <- TypedRates, Sales <- RateSales, lots <- vests, exits <- disposals
Abroad == INSTANCE Disclosure WITH
            Holdings <- Disclosed, Dates <- TypedDates, Rate <- Dollar, rates <- sheet
Fifo == INSTANCE LotAllocation WITH
          MaxQty <- MaxLotQty, MaxDate <- MaxLotDate, MaxExits <- MaxSales, exits <- sold
Figures == INSTANCE LoanFigures WITH
             MaxDate <- MaxLoanDate, MaxAmount <- MaxLoanAmount, MaxPayments <- MaxLoanPayments

chitvars == <<chits, schedules, month>>
owedvars == <<owed, today>>
depositvars == <<accounts, date>>
taxvars == <<profile, receipts, counter, exits, payments, inclusions, books>>
snapvars == <<day, holdings, liabilities, rated, snapshots, last, covered, open>>
ratevars == <<rates, vests, disposals>>
disclosurevars == <<sheet, prices, marks, trades, details, frozen>>
lotvars == <<book, sold>>
figurevars == <<loan, asOf>>
lentvars == <<loans, trail, todo, now, crashes>>
registervars ==
  <<side, vars, chitvars, owedvars, depositvars, taxvars, snapvars, ratevars, disclosurevars,
    lotvars, figurevars>>

\* The terms of the loan whose figures are shown vary on that side only.
RegistersInit ==
  /\ side \in Sides
  /\ Init /\ Funds!Init /\ Owed!Init /\ Deposits!BalancesInit /\ Tax!TaxInit
  /\ Frozen!SnapInit /\ Itbr!RatesInit /\ Abroad!DisclosureInit /\ Fifo!Init /\ Figures!Init
  /\ side # "figures" => loan.principal = 1 /\ loan.start = 1
RegistersNext ==
  /\ UNCHANGED side
  /\ side \notin {"chits", "borrowings", "deposits", "rates", "disclosure", "loans"}
       => UNCHANGED mode
  /\ IF side = "chits" THEN Funds!Next ELSE UNCHANGED chitvars
  /\ IF side = "borrowings" THEN Owed!Next ELSE UNCHANGED owedvars
  /\ IF side = "deposits" THEN Deposits!BalancesNext ELSE UNCHANGED depositvars
  /\ IF side = "tax" THEN Tax!TaxNext ELSE UNCHANGED taxvars
  /\ IF side = "snapshots" THEN Frozen!SnapNext ELSE UNCHANGED snapvars
  /\ IF side = "rates" THEN Itbr!RatesNext ELSE UNCHANGED ratevars
  /\ IF side = "disclosure" THEN Abroad!DisclosureNext ELSE UNCHANGED disclosurevars
  /\ IF side = "lots" THEN Fifo!Next ELSE UNCHANGED lotvars
  /\ IF side = "figures" THEN Figures!Next ELSE UNCHANGED figurevars
  /\ IF side = "loans" THEN Next ELSE UNCHANGED lentvars
RegistersSpec == RegistersInit /\ [][RegistersNext]_registervars
---------------------------------------------------------------------------
(* Chits keep their types, and status and draw are one story.              *)
ChitsTypeOK == side = "chits" => Funds!ChitsTypeOK
(* Net worth and the register agree on the chits, under every filter.      *)
ChitsWorth == side = "chits" => Funds!ChitsWorth
(* What a chit would pay out never changes behind its back.                *)
PayoutStable == Funds!PayoutStable
(* Every rupee paid on a borrowing went to interest or to the debt, no     *)
(* payment leaves more owed than there would be without it, and net worth  *)
(* and the register agree on the debts.                                    *)
DebtsAddUp == side = "borrowings" => Owed!DebtsAddUp
(* A deposit grows month by month as its terms say, whatever was restated. *)
BalancesGrow == side = "deposits" => Deposits!BalancesGrow
(* Valued on the restatement date, an account is exactly the stated figure. *)
RestatedAsStated == Deposits!RestatedAsStated
(* Both registers of instalments are passbooks: chits empty when opened    *)
(* again, borrowings are opened once.                                      *)
PassbooksKept == Funds!ChitsKept /\ Owed!BorrowingsKept

(* A receipt costs no more than it is, and no other year's tax moves.      *)
ReceiptMovesTax == Tax!ReceiptMovesTax
(* Paying the instalment demanded settles the year so far.                 *)
PayingSettles == Tax!PayingSettles
(* Every receipt accepted is stored.                                       *)
ReceiptsKept == Tax!ReceiptsKept

(* No freeze point falls between two runs of the scheduler.                *)
CaughtUp == side = "snapshots" => Frozen!CaughtUp
(* A comparison accounts for all that moved.                               *)
DeltasExplain == side = "snapshots" => Frozen!DeltasExplain
(* A reported gain can be defended years later.                            *)
GainsDefensible == side = "rates" => Itbr!GainsDefensible
(* A disclosure that is generated does not understate.                     *)
PeakReached == side = "disclosure" => Abroad!PeakReached
(* What readiness calls ready is generated.                                *)
ReadyGenerates == side = "disclosure" => Abroad!ReadyGenerates
(* The loop of allocateFifo computes a first-in-first-out allocation.      *)
FifoAllocates == side = "lots" => Fifo!FifoAllocates
(* Interest is what each period's outstanding principal earned.            *)
DecliningBalance == side = "figures" => Figures!DecliningBalance
(* The register and net worth agree on what a hand loan is worth.          *)
ScreensAgree == side = "figures" => Figures!ScreensAgree
=============================================================================
