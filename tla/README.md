# VantagePoint, specified

VantagePoint is a local-first portfolio tracker with Indian income tax: one
encrypted SQLite vault, a Fastify API and a React client on one machine. This
directory models what keeps state in it (who may change the vault, what an
import does to the ledger, what a crash leaves behind, what a screen shows when
an answer is late) and the algorithms its figures come from. TLC checks the
models on small instances, TLAPS proves the central properties for all of them.
Every action stands for a handler or one step of it; `PROJECT.json` names the
source lines of every definition.

## The system

All code is TypeScript on one Node event loop, with a *synchronous* database
driver. A handler therefore runs to its end without another in between, except
where it waits for the key-derivation worker (`Vault.unlock`,
`Vault.verifyPassphrase`). What is hard is what happens around those two waits,
between two SQLite transactions of one handler when the process dies, between a
browser and a server that lose each other's messages, and over long sequences
of legal requests.

| component | state | operations | what makes it correct | modelled in |
| --- | --- | --- | --- | --- |
| vault session (`persistence/vault.ts`, `crypto.ts`) | the `OpenState` object, handle, key, session number; `vault.db`, its log and its salt | open, unlock, verify, lock | the open key is the file's; every wait ends | `VaultSession` |
| edit mode (`app-services/edit-mode.ts`) | a flag and the session that granted it | enable, disable, ask | granted only by the passphrase of the session it is used in | `VaultSession` |
| backup (`backup.ts`, `backup-uc.ts`) | archives, the superseded copy | create, restore | complete archives that open; a restore yields the archive | `VaultSession` |
| caches (`use-cases.ts`) | income profile | set, load, clear | equal to the vault's rows while it is unlocked | `VaultSession` |
| ledger (`ingestion/ledger.ts`, `duplicates.ts`, `lots.ts`) | lots and disposals | import, trade, undo a disposal, delete a holding | no unit sold twice, no trade twice, nothing absorbed, re-import changes nothing | `Ledger`, `LotAllocation` |
| hand loans (`loan-book.ts`, `loan-audit.ts`) | terms, payments, an audit trail | record, import, edit, pay, close, reopen, delete | the trail tells every change; loans never overwrite each other | `HandLoans`, `AuditedLoans`, `LoanFigures` |
| chits (`chit-book.ts`) | terms, instalments, draw; payout schedules that chits share | open, pay, draw, status, edit, delete; save and delete a schedule | payments kept, once; status and draw one story; a payout does not move | `Chits`, `Passbook` |
| borrowings (`borrowed-book.ts`, `amortisation.ts`) | terms and payments | record, pay, prepay, close, reopen, delete | every rupee placed; the register and net worth agree | `Borrowings`, `Passbook` |
| deposits and balances (`balance-account.ts`, `balance-uc.ts`) | accounts | record, restate, close, delete | they grow as their terms say | `Balances` |
| exchange rates (`fx-itbr/*`, `rates.ts`, `foreign-rates.ts`) | rates by day; figures stamped on lots and disposals | import an archive, type a rate, stamp | written once; a figure can be defended later | `Rates` |
| marks and Schedule FA (`mark-repository.ts`, `compliance/*`) | prices, daily marks, entity details | sync, record a mark, readiness, generate | the peak is not understated; what is ready is generated | `Disclosure` |
| tax engine (`tax-engine/*`, `income.ts`) | receipts, payments, inclusions | record, delete, compute | no cliff; paying what is asked settles | `TaxYear` |
| snapshots (`snapshot/*`) | immutable dated snapshots, the last success | schedule, create, compare | written once, none skipped; a comparison accounts for all | `Snapshots` |
| API and web client (`apps/api`, `apps/web`) | a page, its calls under way, a mirror of edit mode | open, choose, press, time out, switch the mode elsewhere | stored once, replaced in edit mode only, a form that closes has done what it sent, the listing shown is the one asked for | `Api`, `Screens` |
| PII masking, egress, exporters, property facts, CLI | none kept, or layout | - | - | not modelled |

They interact by calls: a view sends a request, a route calls a use case, which
reads whole aggregates from the repositories, computes with the pure packages
and writes aggregates back. The vault session gates all of them
(`requireUnlocked`, `requireEditMode`), and its lock clears the caches the
others read. Below the session the registers share no tables, so each is a
module of its own with the session reduced to locked, unlocked or editing;
`Rates` and `Ledger` meet `Disclosure` only by what they stored.

The hazards, each at its line, are in `PROJECT.json`.

## Modules

### VaultSession

State: the three files (`db`, `wal`, `meta`), the copy a restore puts aside,
the archives; the `OpenState` objects by number with `cur` for the module
variable `state`; the session counter with the key derived for each session,
and which key buffers were zeroed; edit mode, the cached profile; the requests
waiting for the worker; the restore in progress.

* `StartUnlock`/`FinishUnlock` are `Vault.unlock` on either side of its `await`,
  `StartEnable`/`FinishEnable` those of `EditModeUC.enable`. A request keeps the
  object and key buffer it captured: an object is a number and a zeroed buffer a
  session in `zeroed`, so aliasing is explicit.
* `Lock`, `Disable`, `AskEditMode`, `SaveProfile`, `CreateBackup` are whole
  handlers, one step each.
* `RestoreDb`, `RestoreMeta`, `RestoreReopen` are the writes of one restore.
  Handlers are blocked in between (`Serving`), a crash is not.
* `Crash` ends the process at any point and starts it again: the files stay.

SQLite (external) is modelled by what the code relies on: committed rows are in
the log until a checkpoint or the last close folds them in; `quick_check` opens
a file only with its key; a missing file is created with the key first used.

### Ledger, LotAllocation

One holding: `lots` and `exits` on disk, `job` the projection in memory.
`StartImport` detects duplicates (`Fresh`: natural and loose keys against keys
rebuilt from the stored ledger); `StartTrade` is a typed trade with its token of
natural key and occurrence count. Then the rows are applied one at a time,
oldest first, exactly one of `OpenLot`, `MergeLot`, `Sell`, `SkipSeen`,
`RejectSale` for each; `SaveLots` and `SaveExits` are the two transactions.
`DeleteExit` and `DeleteHolding` undo. `Crash` may fall between any two steps.
Rows carry `trade`, the real event they report: no action reads it, the
properties compare by it. `torn` and `imported` are history variables, too.

Ledger does not run the loop of `allocateFifo`; it takes any allocation that a
fifo one may be (ties of one day either way). `LotAllocation` has the loops of
`lots.ts` themselves (a fold over the lots in date order), with the books
reached by acquiring, selling either way and undoing in any order, and checks
the definition Ledger relies on: all or nothing, oldest first, units go back to
the lots they came from.

### HandLoans, AuditedLoans, LoanFigures

`HandLoans` is the register and its trail. Every operation of `LoanUC` is one
action that saves the loan and leaves the entries in `todo` (`Record`, `Edit`,
`Close`, `Reopen`, the two payments), and `WriteTrail` appends them in the
second transaction, all or none; a deletion goes the other way round (`Delete`,
then `RemoveLoan`). `Crash` may fall between the two. `Import` is one row of
the hand-loan template. `Session` stands for what `VaultSession` models in
full. The ids are what the code makes them of: a loan id is the terms it was
*first* entered with and a number, an entry id the instant and the content.

`AuditedLoans` is the register as its comments promise it: loans and trail
change in one step, and a crash costs at most the entries of the last operation
or the last deletion. `HandLoans` implements it with the entries still to write
taken as written (`LoansAudited`).

`LoanFigures` computes what a loan is worth: the accrual of `accruals.ts`, the
view of `loan-book.ts` and the valuer of net worth, over any order of payments,
closings and edits of the date. The unit of time is the period that earns one
unit of interest on one of principal, so no figure is rounded.

### Passbook, Chits, Borrowings

`Passbook` is what any register of instalments promises: an account is opened
empty, a payment told any number of times is one payment, and none is taken
away outside edit mode. `Chits` implements it where opening again empties
(`Reopens`), `Borrowings` where it is refused.

`Chits` has every operation of `ChitUC`: `Open` writes the aggregate whole, so
opening a chit that is there starts it over; `RecordEmi` takes an instalment of
the same date, amount and mode for the same one (`Same`); `Withdraw`,
`SetStatus` and `Edit` keep status and draw together; `SaveSchedule` replaces a
table only in edit mode (`Replaceable`), and `DeleteSchedule` is refused while a
chit names it.

`Borrowings` has `LiabilityUC` and the walk over the payments in the order of
their dates (`Apply`): interest first, then the debt, a prepayment to the debt
alone. What net worth deducts is computed beside the register, as in the code.

### Balances

The four kinds of account that grow and the one that is stated; `View` is what
each is worth on a date, through the compounding, the contributions, the
gratuity entitlement, the maturity, the certificate and the closing. `Restate`
moves the opening date and leaves the id, as `BalanceUC.restate` does.

### Rates, Disclosure

`Rates` reads an archive of cards (a refused card refuses the file), puts its
rates into the write-once store, and stamps lots and disposals as a statement is
imported: each leg at the rate of the last day of the month before it, walking
back over days without one. `Disclosure` folds stored prices and rates into
daily marks, takes marks by hand, and computes the year's table: the series
carried over closed days, the quantity held each day, the peak, readiness and
whether the table is generated.

### TaxYear

Slabs, surcharge with its relief, cess, the classes of gain and the instalment
of a quarter, net of what was withheld and paid; around them the books they are
read from, and the requests that change them: profile, receipts with their ids
from the counter of the process, sales, payments, inclusions. `Restart` is the
process starting again, which resets the counter and locks the vault.

### Snapshots

The freeze points due since a caller's last success, a run over them that fails
at one that cannot be valued or dies after any of them, snapshots of a chosen
date, write-once storage and the two comparisons (of two snapshots, and of one
and the live ledger). A holding is converted at the rate of the day it is valued
for (`RateOf`), and the totals are net worth: the holdings of the moment less what
is owed at the moment (`liabilities`, one sum that `Owe` changes; `context.ts`
projects the borrowings at today's date, whatever day is valued). `covered` and
`last` are what the callers know.

### Api, Screens

`Api` says for every route that changes something what guard it has
(`requireUnlocked`, `requireEditMode`, or only if the entry is there) and what
the same entry does the second time: nothing more, a duplicate to confirm, a
refusal, not found. `POST /api/income`, whose ids come from a counter, is among
them, though no form of the client sends it (`TaxYear` has its counter). `Screens` has one row for every view and every form of the
client: how the view loads and fails, when the form is offered, whether it is
disabled while it waits, what it asks first, whether it lists again, whether it
goes through `request` or, like the backup, through `downloadBinary`
(`Untimed`), and whether it reads a file first (`Reading`). All of them run one
machine: `Press`, `Carry` (the server answers), `Cut` (the answer breaks off
while its body is read: `request` goes by the status, so what was accepted is
accepted, empty), `Take` (the answer arrives), `GiveUp` (the request timed out:
what became of the call is not known), `Unread` (the file cannot be read, and the
form stays disabled), `Choose`, `Visit`. `Switch` is everybody else who locks,
unlocks and switches edit mode, a restart included; `Learn` is the mirror being
told, by an answer that may be as old as the call it answers or a failure that
counts as off. The mirror may thus be wrong either way at any time, as it is when
another tab switches the mode.

### MC and proof modules

`MC_VaultSession`, `MC_Ledger`, `MC_HandLoans`, `MC_Registers` and `MC_Screens`
are the instances. `MC_Ledger` has two ledgers side by side, and `Registers`,
which `MC_Registers` gives its values, composes the ten registers that share no
state; a behaviour works on one of them, its `side`, so that their states add up
instead of multiplying.

`VaultSessionProofs`, `LedgerProofs`, `HandLoansProofs`, `ChitsProofs`,
`ScreensProofs`, `FiguresProofs` and `RegistersProofs` extend their modules.
`FiguresProofs` proves about the registers whose figures are the end of a walk:
lots, loan figures, borrowings, deposits. `RegistersProofs` has the others
(snapshots, rates, disclosure, tax) and lifts the chits' and the borrowings'
refinements to `Registers`, where the run checks the same properties.
`SumTheorems` has the lemmas they share, about finite sets, sums, folds over
sequences and the orders folds go by.

## Runs

| run | question | bounds |
| --- | --- | --- |
| `vault` | who is in edit mode; which key opens the file; what the cache, the archives and a restore hold; is every request answered | 2 requests in flight, 2 passphrases, 2 unlocks, 3 `OpenState`s, 1 crash, 1 profile, an archive of another vault |
| `ledger` | stock-plan exports in any order, repeated, undone; beside it overlapping account exports, padded quantities and typed trades | 3 files of 8 sale and slice rows; 3 files and 2 trades of up to 2 fills; 1 crash each |
| `loans_trail` | does the trail explain the register; is `AuditedLoans` implemented | 1 borrower, one set of terms twice, 3 edits off and back onto them, 1 payment, 5 operations, 1 crash |
| `registers` | the ten registers that share no state: see the properties below | below |
| `screens` | every screen against a server that loses, delays, reorders and cuts off, and against other tabs: `StoredOnce`, `ListingTrue`, `HonestForms`, `FormsComeBack` | 3 calls, 2 filters |
| `vault_handle`, `ledger_fill`, `ledger_cams`, `figures_worth`, `income`, `restated`, `ready` | seven claims of comments and tests, violated | small instances of the same modules |

What `registers` checks, side by side:

| side | properties | instance |
| --- | --- | --- |
| chits | `ChitsTypeOK`, `ChitsWorth`, `PayoutStable`, `PassbooksKept` | 2 chits, one of each type, 1 schedule with 2 tables, 3 instalments of which two are one, 2 stored at most, 3 months |
| borrowings | `DebtsAddUp`, `PassbooksKept` | 3 loans on 2 ids' worth of terms, 4 payments on 3 days (one before the loan, one a prepayment), 3 stored, 6 half months |
| deposits | `BalancesGrow` | 12 accounts of the 5 kinds, with and without rate, maturity and certificate, one at a time; 2 restatements, 3 closing dates (before, at and after a maturity), 4 months |
| rates | `GainsDefensible` | 4 archives (a card repeated in a day, a card without a rate, a slipped decimal), 2 typed rates, 3 sales, months of 3 days, a look-back of 2 |
| disclosure | `PeakReached` | 1 holding, 3 trades before, in and after the year, 2 rates, 5 marks by hand, a year of 4 days, closures up to 2 |
| tax | `ReceiptMovesTax`, `PayingSettles` | 2 years, 2 profiles about the first surcharge threshold, 4 sales of 3 classes, 3 payments, 3 stances, 2 receipts |
| snapshots | `CaughtUp`, `DeltasExplain` | 2 freeze points, 2 holdings, 3 quotes, 3 days, one without a rate at first, nothing or one sum owed |
| lots | `FifoAllocates` | 3 lots, quantities to 2, 2 dates, 2 disposals outstanding |
| figures | `DecliningBalance` | dates to 4, amounts to 2, 2 repayments |
| loans | `DeletionOnRecord` | 1 loan, 1 edit, 1 payment, any number of operations that share an instant, 1 crash |

Why these bounds are enough. A stale request needs one other unlock between its
start and its end: two sessions. A leaked handle takes a restore and its use a
second, so `vault_handle` has three. Two passphrases and two salts are the fewest
that tell keys apart. In the stock plan one order sells equal quantities out of
two tranches and two quantities out of one, and two exports overlap in one of
these sales: every clause of the ids and keys is decided by some pair of rows.
A loan that is edited off its terms, has another entered with them, and is
edited back takes three operations; two more are there to go wrong. Two calls
are enough for a form to be sent twice or for one listing to overtake another;
the third lists after them. A sale of two vests has legs in two months,
and a month of three days with a look-back of two has days that borrow a rate
and days that cannot. Receipts, and a chit that is drawn, carry a profile
over the first surcharge threshold and to the second. Freeze points of different days let a run
fail at one and succeed at the other.

`MaxSessions`, `MaxOpens`, `MaxCrashes`, `MaxFills`, `MaxSame`, `MaxTime`,
`MaxPayments`, `MaxEmis`, `MaxAccounts`, `MaxReceipts`, `MaxLots`, `MaxExits`,
`MaxCalls` and the ends of the clocks (`LastMonth`, `LastDay`) bound what the
code does not; each appears in a guard or in the set a guard chooses from.

Symmetry over the two requests is used in `vault_handle` only. Deadlock is
checked except in the runs of `MC_Registers` and `MC_Screens`: their clocks, and
their calls, end.

### What the violated runs show

1. `vault_handle`: an unlock in flight during a restore opens a handle on the
   object the restore replaced. No later lock closes it, and a second restore
   writes the file under it (`backup-uc.ts`: "Closed BEFORE anything is
   written").
2. `ledger_fill`: sell, sell again confirmed, undo the first, sell again
   confirmed: the last has the id of the second and is skipped in silence
   (`use-cases.ts`: "a confirmed second fill gets its own").
3. `ledger_cams`: all CAMS statements share one provenance, so ids of different
   statements collide by row number (`ledger.ts`: "Nothing is silently
   absorbed").
4. `figures_worth`: net worth goes on accruing interest on a loan the register
   closed (`money-input.spec.ts`: "The two screens must not disagree about the
   same money").
5. `income`: the counter of receipts starts again with the process, so a
   receipt recorded after a restart takes a stored id and is refused
   (`use-cases.ts`: "Ungated, like every other addition").
6. `restated`: a recurring deposit restated is worth an instalment more than the
   figure stated, on the day it was stated (`balance-accounts.spec.ts`: "Valued
   ON the restatement date it is exactly the stated figure").
7. `ready`: with no mark on the last day of the year readiness reports nothing
   outstanding and the table is refused (`foreign-disclosure-uc.ts`: "What
   stands between the vault and a Table A3 for this year.").

### What the properties allow for

Where the code does less than one would wish, the property says so and the
model does as the code does:

* A crash may fall between the two transactions of an import or of a loan's
  change. Then lots are depleted with no disposal (`torn`), or a change has no
  entry in the trail. `NothingAbsorbed`, `AgreesWithBroker`, the equality in
  `SalesAccounted` and `TrailTells` hold until then; the inequality, `WithinLots`,
  `DisposalsNameLots` and `DeletionOnRecord` hold throughout, and `LoansAudited`
  says what a crash may cost a loan.
* A crash between the two files of a restore leaves a database beside the other
  salt. `ArchivesOpenable` shows that no archive is made of it.
* A profile saved while the vault is locked is refused but stays cached until
  the next unlock or lock; `CacheMatchesVault` speaks of an unlocked vault.
* Row keys have the quantity as the file spells it, ledger keys as normalised.
  A purchase in two overlapping exports of a broker that pads is recorded twice;
  the account instance has such a broker, but one export of it.
* The id of an edit's entry is the instant and a number, so two edits at one
  instant collide: the second is saved and has no entries. The comment beside
  `auditIdFor` (`use-cases.ts:1998`), that a frozen clock cannot collide on the
  key, is not true of these. `TrailTells` and `LoansAudited` are of operations at
  different times; `DeletionOnRecord` holds, and is proved, with collisions.
* Beside the archive of a backup, the copy a restore puts aside is complete
  unless another handle is still open on the file, as `vault_handle` shows one
  can be (`ArchivesComplete`).
* The rows of a comparison are of holdings only, while its totals are net worth.
  So they add up to the change of net worth but for the change of what is owed,
  which has no row and is no figure of the report: `DeltasExplain` says the
  difference is exactly that. A snapshot of one jurisdiction has the totals of
  everything over the rows of its scope; `DeltasExplain` compares snapshots of
  everything.
* The id of a deleted loan may be given again, and its trail with it;
  `TrailExplains` therefore looks back to the last deletion only.
* `1,000` and `1000` are two payments on the same day (`spelling`), as a payment
  form sent twice with the amount written otherwise would make them; the instances
  write it one way.
* A repayment dated before its loan accrues interest before the loan;
  `DecliningBalance` speaks of repayments since its start.
* The relief on a higher band of surcharge forgets the lower band's, so a
  receipt may *lower* the tax by entering a band; `ReceiptMovesTax` allows it. A
  year whose gains are a loss is left out of it. A gain classed as taxed at slab
  rates enters no income; `TaxYear` computes it so.
* A payment equal to one on record is absorbed; `PayingSettles` allows it.
* An acquisition date typed later than the purchase cuts the peak short, and a
  day without a rate is passed over; `PeakReached` speaks of the other days. The
  peak is ranked by the value in the holding's own currency. A price corrected by
  a later statement never reaches the marks, where the oldest wins.
* A disposal imported before its rates is never stamped: its gain is computed
  anew each time and changes when rates arrive. `GainsDefensible` says that each
  gain reported was right for the rates on file.
* The interest of two years that meet adds up unless the account was closed in
  them, or its certificate paid less than the account would have come to without
  one and without being closed; restating moves the start of the
  accrual, so what was derived before it is no longer (`income-derivation.ts`).
* Opening a chit that is there empties it, without edit mode. `PayoutStable` and
  `PassbooksKept` except exactly that.
* `ListingTrue` is about a reader who lets one answer arrive before the next
  choice, on views that load by themselves, after a load that did not fail or
  break off, and while the vault is unlocked; a page that gave up a call may be
  behind. Answers that overtake each other are outside it: nothing in the client
  orders them. What a page makes of the empty body of an answer cut off is not
  modelled.
* The mirror of edit mode may be wrong, and then a button is offered that is
  refused, or hidden that would not be; `HonestForms` says what that cannot lead to.
* `FormsComeBack` is about calls that go through `request`. The comment there
  (`api.ts:17`) says that every request is bounded, but a backup goes through
  `downloadBinary`, which has no timer: if the server never answers, its button
  stays disabled. So does that of an import whose file cannot be read, which
  happens outside any `try` after the button is disabled.

Known to differ from what one might expect and outside what the properties say:
files imported out of order of their trades are allocated as they come
(`ledger.ts:366`); trades identified by a scheme name only share one asset id
(`ledger.ts:137`); a holding first acquired after the year blocks the table of
that year (`use-cases.ts:2926`).

### Fairness

`vault` assumes weak fairness of the end of each request and of the steps
of a restore. The worker posts a key, errors or exits, and the runtime delivers
each as an event; a restore is synchronous code. `Finish` is weakly fair as a
whole: that a worker succeeds is not assumed. `screens` assumes weak fairness of
`GiveUp` over the calls waited for that went out by `request`, which aborts its
fetch by a timer of its own; of a backup, which has none, nothing is assumed. That
the server answers is not assumed either, and nothing obliges a user to act.

## Proofs

For every value of the constants satisfying the named assumptions:

* `VaultSessionProofs` (`VaultConstants`, `ForeignArchivesOpen`): `TypeOK`,
  `EditNeedsUnlocked`, `SessionKeyOpensVault`, `CacheMatchesVault`,
  `ArchivesOpenable` and the action property `GrantedForThisSession`. None is
  inductive alone. The invariant says besides which sessions open objects and
  requests may name, that an open object's key is not zeroed and is the one
  derived from its salt, that main file and log have the same key, and that
  during a restore every object `cur` points to is closed.
  `GrantedForThisSession` follows since an unzeroed key belongs to the session
  that is open now.
  `ArchivesComplete` and `RestoreYieldsArchive` (`BackupsAreComplete`,
  `RestoresYieldTheirArchive`) follow from the same invariant and one fact more:
  while a restore runs, what it has written is what its archive says.
* `LedgerProofs` (`LedgerConstants`, `RowsWellFormed`): `TypeOK` (no lot below
  zero), `WithinLots` (none above what it acquired), `DisposalsNameLots`. The
  strengthening relates disk and memory: the projection keeps every stored lot,
  its new disposals name its own lots, and between the two transactions the
  stored lots are the projected ones. Helper lemmas say what enlarging, merging,
  depleting and putting back do to a book. `NoUnitSoldTwice` is
  `SalesAccounted`: what a lot gave up is the sum of what the disposals took from
  it. That sum is carried over both halves of a projection, the stored disposals
  together with the new ones, until the first transaction writes the lots and
  the second the disposals; only a crash between them (`torn`) leaves an
  inequality. `UndoNeverRefused` is a consequence no run checks.
  What the ledger owes to its keys follows, each from what the statements of a
  broker have in common:
  * `ReimportsChangeNothing` (`Provenance`, `HoldingsAgree`). A row of a file on
    record is *settled*: the ledger has its key, or applying it would find its own
    lot, at least as large as it says and with what it states, or its own disposal.
    Lots only grow and disposals only come while files stay on record, so what is
    settled stays so, and a settled row that is not recognised changes nothing.
    `HoldingsAgree` is needed: after two holdings exports that state different
    remainders of a tranche, importing the older again would put its figure back.
  * `EveryTradeOnce` (`Provenance`, `AccountStatements`). Statements report one
    trade with one key; the ledger keeps the key of the first that was imported and
    recognises the next. A typed trade is told again by its token.
  * `RemainderAsStated` and `EveryRowPlaced` (`PlanStatements`, `PlanTrades` besides
    the two of a reimport). Every disposal took what its row sold out of the tranche
    the row names, and no lot is larger than a full statement of it says. So a
    sale that is not on record yet still fits, none falls back on the oldest lots,
    and none is rejected until an import is torn. Once all sales are in, what was
    not sold is what the holdings export says is left. Two orders that sell the same
    quantity of one tranche on one day at one price share a key, so the second would
    be hidden; `PlanStatements` excludes that.
  * `EveryFillIsALot` (`Provenance`, `HoldingsAgree`, `TokensApart`). The token of a
    typed purchase counts the lots of its key, and lots keep their keys, so a fill on
    the book was counted by the next.
* `HandLoansProofs` (`HandLoansConstants`): `TypeOK`; `DeletionOnRecord` and
  `OnlyAdditions` with crashes and collisions included; and, if no two operations
  share an instant,
  `LoansImplementAudited`: every step of `HandLoans`, a crash included, is a
  step of `AuditedLoans` or a stutter; and `TrailIsEvidence`, that `TrailTells`
  holds. The invariant dates the trail: no entry is later than the clock, an
  operation has entries to write or one loan to remove but not both, and the
  deletion of a loan about to be removed is in the trail and the last about it.
  What the trail tells is an invariant of the book and the log of `AuditedLoans`:
  the last word on a field is the value on the book, a loan off the book was
  deleted after all else that is said of it (so an id given again starts with no
  last word), and an edit starts from what the entry before it left. One lemma,
  `LogGrows`, carries all three over entries that are later than all before.
* `ChitsProofs` (under `ChitsConstants`): `ChitsKeepTypes`, `ChitsArePassbooks`
  (the register implements `Passbook`) and `PayoutsNeverMove`. The type
  invariant carries the other two: a chit is withdrawn exactly when its draw is
  on record, so no edit makes a payout depend on another schedule unnoticed.
  `RegisterAndNetWorthAgree` (`AmountsWhole`) is `ChitsWorth`: the book is finite,
  no two of a chit's instalments have one key, and the sum over a listing, sorted
  by fund, is the sum of the funds' sums.
* `RegistersProofs`: on its own side a behaviour of `Registers` is one of the
  register, and on another side its state stands still, so `ChitsKeepTypes`,
  `ChitsAddUp`, `PayoutsNeverMove` and `RegistersArePassbooks` follow from the
  theorems of `ChitsProofs` and `FiguresProofs`. Proved here:
  * `SchedulerCatchesUp` (`BoundariesDated`). A run that fails or dies leaves
    `last` where it was, so the freeze points it had not reached are due again;
    `CaughtUp` with the clock being a number is inductive.
  * `DeltasAlwaysExplain` (`QuotesWhole`). What is frozen of everything, and the
    live ledger, is worth the sum over its positions less what is owed; the rows of a
    comparison are over the positions of either side, and a position a side lacks
    adds nothing to that side's sum. A foreign row splits into the price's effect and
    the currency's whatever rates its two days had.
  * `GainsStayDefensible` (`RatesDated`). A stored rate is never overwritten, so
    a rate a stamp was given stays among the rates of its month end; the look-back
    finds the last of them, and a leg has one rate whichever way it is reported.
  * `PeaksReached` (`DisclosureWhole`). A series covers its window when no break
    is longer than a closure; then each day from the first mark to the day before
    the last has a figure, which on a marked day is that day's mark. What was held
    on a day is at most the quantity the table counts with. Of finitely many
    valued days one has the highest worth, and the closing day is among them.
  * `PaymentsSettle` (`TaxWhole`). Every figure of a year is whole as long as what
    it is read from is (`TaxBooks`, inductive: a profile, finitely many receipts
    and sales, payments of something), up to the surcharge less its relief.
    Rounding half up leaves the instalment within half a unit of what is owed, and
    a payment that is new adds its amount to what was paid; one that is already on
    record is absorbed and adds nothing, which the property leaves out.
  * `ReceiptsCostNoMoreThanTheyAre` (`TaxWhole`, `RatesProgressive`). A receipt
    adds its amount to what is derived for its own year and to nothing else. Slab
    by slab the tax grows by no more than the top rate of the rise. In a band the
    tax is the lesser of the tax with full surcharge and the ceiling of the
    relief, but no less than the plain tax; each of the three rises by at most the
    rise, so their combination does. A band entered was not exceeded before, so
    its excess is at most the rise and its ceiling lies within the rise of the
    plain tax, which is the least the lower band charged.
* `FiguresProofs`: each figure is the end of a walk; the walk is shown to exist and
  to end at the figure, and what is true at every place of it by counting its steps.
  * `DisposalsAreFifo`. Where the loop of `allocateFifo` has come to, all lots so far
    are used up as long as anything is wanted; the books it meets are those of whole
    lots, which acquiring, selling and undoing keep.
  * `BorrowingsArePassbooks`, from the shape of the register alone, and
    `DebtsAlwaysAddUp` (`DebtsWhole`). Payments of one day may be walked over in any
    order, so what is owed is a function of the *set* of payments. One payment more
    leaves no more owed at its place, and every later payment keeps the order
    between the two walks, so no more is owed at the end.
  * `AccountsGrow` (`DepositsWhole`). What an account has come to a month later is
    what it had come to with a month's interest and a month's instalment, whichever
    of the five kinds it is; closing and maturity only end that.
  * `InterestOnDecliningBalance`. Between two repayments the same principal is
    outstanding, so a span earns what its days earn, and the spans meet.
* `SumTheorems`: `SumFunctionOnSet` of the community modules is a recursive
  function, that is, a `CHOOSE` of its defining equation. That the equation has a
  solution for every finite set, and what adding, removing, renaming, restricting
  and sorting by a key do to the sum, is proved by induction on finite sets,
  stated of a set of sets (`SubsetInduction`) since no operator can be passed to
  the library's induction theorems.
* `ScreensProofs` (under `ScreensConstants`): `EntriesStoredOnce`,
  `FormsAreHonest`, `ListingsTrue`, for any number of calls and any filters. Only
  a confirmed call stores an entry twice, and a confirmation never leaves the
  page. Nothing is assumed of the mirror: a form that adds without edit mode meets
  only what it added itself, which it does not replace, and every other one is
  judged when it is carried out, by the mode there is then (`RouteReplaces`). What
  an accepted call left in the vault, no later call of the form undoes
  (`Accepted`), and an answer that was cut off is accepted only if it was before.
  A reader who waits for each answer waits under the filter chosen, and what is
  shown was read since the last change.

`ChitsConstants`, `AmountsWhole`, `BoundariesDated`, `QuotesWhole`, `RatesDated`,
`DisclosureWhole`, `TaxWhole`, `RatesProgressive`, `DebtsWhole`, `DepositsWhole` and
those of the ledger are hypotheses of their
theorems rather than assumptions of the modules; the instances of `MC_Registers` and
`MC_Ledger` satisfy them. They say that dates are
day numbers, that amounts are whole (the code counts paise, and decimals of a
fixed scale), that a holding is domestic or foreign, that each day of the clock
has a rate where one is asked for, and that prices and rates of exchange are not
negative: a rate outside its band and a mark that is not above zero are refused
(`sbi-archive.ts`, `MarksUC.record`), and a statement's prices are prices.
`TaxWhole` says that a payment is of something (`AdvanceTaxUC.record` refuses one
that is not) and that the unit of payment is not zero; `RatesProgressive` that a
receipt is not negative (`IncomeUC.record` refuses one), that slabs ascend up to
the top rate, and that the top rate with the highest surcharge is no more than the
whole. The rule files (`tax-engine/rules/*.ts`) are such tables: 30% and 25% make
37.5%. Without the last, a rupee within a band could cost more than a rupee.

Those of the ledger speak of statements, not of the ledger. `Provenance`: a place
(file and row number) is one row's, and no tranche goes by the name of one; the CAMS
statements of `ledger_cams` break it, and that run shows what then goes wrong.
`HoldingsAgree`: a slice states no remainder, full statements of a tranche state the
same, and one that states a remainder is not spelled like a slice.
`AccountStatements`: no tranches, one key for a trade wherever it is reported,
unpadded where it is reported twice. `PlanStatements`: every row names its tranche
and a sale its order, a sale comes with its slice, a holdings export states what is
left after the sales the other files report. `PlanTrades`: rows of one tranche are
of one vest, rows of one disposal of one sale. `TokensApart`: the token of a typed
trade is no file's hash. The plan's files satisfy the hypotheses of its theorems,
the account's files those of theirs; TLC evaluated them, and the inductive
invariants, on both.

Only model-checked: liveness (`EveryRequestAnswered`, `FormsComeBack`), which the
prover does not do. `BrokerTradesOnce` and `BrokerPurchasesCount` are `NoTradeTwice`
and `EveryPurchaseCounts` of the run's second ledger, which `EveryTradeOnce` and
`EveryFillIsALot` prove of every ledger.

## Not modelled

* Reading CSV, spreadsheets and PDF, decimal formatting, rounding to paise, the
  layout of exports and the fields and tables of the screens: text and layout.
  The rows a parser makes of a file are in the instances of `Ledger`.
* Schema migrations: a list of statements, taken as run; the keys and cascades
  they state are in the models.
* The facts of a property, dividends and fees carried by a ledger row, and several
  holdings in one import: they ride along on rows that `Ledger` models.
* PII masking and egress: whether a mask is complete is a question about strings.
* The returns of `snapshot/returns.ts`, the planned amortisation table, Table D,
  Schedule AL, the ITR export, foreign tax credit, the report for high incomes,
  Form 16 and grandfathering: pure arithmetic with neither state nor order, whose
  results unit tests state.
* `amendment.ts` and `sbi-sheet.ts`, which nothing in the application calls, and
  the rate sources nothing writes.
* The command line, which calls the same use cases one at a time.
