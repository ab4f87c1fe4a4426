SPECIFICATION RegistersSpec
CONSTANTS
  None = None
  Shriram = Shriram
  Margadarsi = Margadarsi
  Plan = Plan
  Entered <- MCEntered
  Edits <- MCLoanEdits
  Payments <- MCPaid
  MaxSame = 1
  MaxTime = 1
  MaxCrashes = 1
  SharedInstants = TRUE
  OpenedChits <- MCOpenings
  ChitEdits <- MCEdits
  Emis <- MCEmis
  Draws <- MCDraws
  Tables <- MCTables
  Labels = {Plan}
  MaxEmis = 2
  LastChitMonth = 2
  Borrowed <- MCBorrowed
  Repaid <- MCPayments
  MaxRepaid = 3
  LastDebtDay = 6
  OpenedAccounts <- MCAccounts
  Restatements = {0, 5}
  ClosingDates = {1, 3}
  ServiceYear = 2
  Vesting = 1
  LastDepositMonth = 4
  MaxAccounts = 1
  Years = {1, 2}
  Receivable <- MCReceivable
  Accruals <- MCAccruals
  Saleable <- MCSales
  Payable <- MCChallans
  Profiles <- MCProfiles
  Rules <- MCRules
  Stances <- MCStances
  MaxReceipts = 2
  Boundaries <- MCBoundaries
  DomesticAssets = {"fund"}
  ForeignAssets = {"stock"}
  Quotes <- MCQuotes
  FxOn <- MCRates
  Liabilities = {3}
  Chosen = {1}
  Unrated = {2}
  LastDay = 3
  Archives <- MCArchives
  TypedRates <- MCTyped
  RateSales <- MCRateSales
  Plausible <- MCPlausible
  MonthDays = 3
  Lookback = 2
  Comparable = 2
  MaxMove = 25
  Disclosed = {"stock"}
  Trades <- MCTrades
  Published <- MCPublished
  Stated <- MCStated
  Observed <- MCObserved
  TypedDates <- MCTypedDates
  YearStart = 2
  YearEnd = 5
  Closure = 2
  Dollar = "usd"
  MaxLots = 3
  MaxLotQty = 2
  MaxLotDate = 2
  MaxSales = 2
  MaxLoanDate = 4
  MaxLoanAmount = 3
  MaxLoanPayments = 2
  Sides = {"deposits"}
PROPERTIES
  RestatedAsStated
CHECK_DEADLOCK FALSE
