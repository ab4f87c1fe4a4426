------------------------------- MODULE Screens -------------------------------
(***************************************************************************)
(* The screens of the web client and the API behind them: what a form that *)
(* is sent and a listing that is asked for show, when calls time out, are  *)
(* carried out late or overtake each other, the server restarts, and the   *)
(* user presses again.                                                     *)
(*                                                                         *)
(* A screen is a view (a listing and the way it is loaded) with one of its *)
(* forms.  Every view and form of apps/web/src/views is a row below; all   *)
(* of them run the one machine of the second half, which is React's: state *)
(* of a component, and closures that keep the filter they were made under. *)
(* Left out: what fields hold, the checks a form makes of them before it   *)
(* sends, and wording.                                                     *)
(***************************************************************************)
EXTENDS Api, Naturals

CONSTANTS
  Filters,    \* the filters, years or periods a view is narrowed to
  MaxCalls,   \* bound on the calls of a behaviour
  None

ASSUME ScreensConstants == None \notin Entries \cup Refusals \cup {"ok", "cut", "http"}

VARIABLES
  at,         \* the screen this behaviour is about
  page,       \* what the browser shows of it
  wire,       \* the calls under way
  vault,      \* the entry and the mode, as the server has them
  sent        \* how many calls there were

vars == <<at, page, wire, vault, sent>>
---------------------------------------------------------------------------
(* Views.  A view asks for its listing by itself, whenever it is opened or *)
(* narrowed, or when a button is pressed.  If that fails a message joins   *)
(* what is shown, or replaces the page and its forms, or the listing is    *)
(* blank, or nothing happens.                                              *)
View(reads, filtered, asks, failure) ==
  [empty |-> reads \in EmptyWhenLocked, filtered |-> filtered, asks |-> asks, failure |-> failure]

ChitsView == View("chits", TRUE, "by itself", "message")
LoansView == View("loans", TRUE, "by itself", "message")
TrailView == View("loanAudit", FALSE, "by itself", "blank")
LiabilitiesView == View("liabilities", TRUE, "by itself", "page")
BalancesView == View("balances", FALSE, "by itself", "message")
ImmovableView == View("ledger", FALSE, "by itself", "page")
HoldingsView == View("ledger", FALSE, "by itself", "page")
SnapshotsView == View("snapshots", FALSE, "by itself", "message")
ProfileView == View("incomeProfile", FALSE, "by itself", "nothing")
TaxView == View("advanceTax", TRUE, "on demand", "blank")
PaymentsView == View("payments", TRUE, "by itself", "nothing")
OtherIncomeView == View("derivedIncome", TRUE, "by itself", "blank")
ReadinessView == View("readiness", TRUE, "by itself", "message")
ScheduleView == View("scheduleFa", TRUE, "on demand", "blank")
DashboardView == View("valuation", FALSE, "by itself", "message")
OverviewView == View("ledger", FALSE, "by itself", "page")
InclusionsView == View("incomeInclusions", FALSE, "by itself", "message")
SettingsView == View("egressLog", FALSE, "by itself", "nothing")

(* Forms.  A form is offered always, in edit mode only, or without it      *)
(* unless its entry is there; while it waits it cannot be pressed, unless  *)
(* it is unguarded; it asks first, or when the answer is a duplicate, or   *)
(* not; what it stored is asked for again, or not.  It sends by request,   *)
(* which has a limit of time, or by downloadBinary, which has none; and it *)
(* may read a file first.                                                  *)
Form(sends, offered) ==
  [sends |-> sends, offered |-> offered, guarded |-> TRUE, confirms |-> "not",
   relists |-> TRUE, timed |-> TRUE, reads |-> FALSE]
Untimed(form) == [form EXCEPT !.timed = FALSE]
Reading(form) == [form EXCEPT !.reads = TRUE]
Unguarded(form) == [form EXCEPT !.guarded = FALSE]
IfDuplicate(form) == [form EXCEPT !.confirms = "duplicate"]
NotRelisted(form) == [form EXCEPT !.relists = FALSE]
DeleteControl(sends) == [Form(sends, "editing") EXCEPT !.confirms = "first"]
On(view, form) == [view |-> view, form |-> form]
Watched(view) == On(view, NotRelisted(Form(VaultRoutes.backup, "never")))

NewChitForm == On(ChitsView, Form(ChitRoutes.openChit, "always"))
EditChitForm == On(ChitsView, Form(ChitRoutes.editChit, "editing"))
EmiForm == On(ChitsView, Form(EmiRoutes.recordChitEmi, "always"))
StatusForm == On(ChitsView, Form(EmiRoutes.setChitStatus, "editing"))
ChitDetail == On(ChitsView, DeleteControl(ChitRoutes.deleteChit))
ScheduleEditor == On(ChitsView, Form(EmiRoutes.saveChitSchedule, "always"))
ScheduleRow == On(ChitsView, DeleteControl(EmiRoutes.deleteChitSchedule))
NewLoanForm == On(LoansView, IfDuplicate(Form(LoanRoutes.recordLoan, "always")))
EditLoanForm == On(LoansView, Form(LoanRoutes.editLoan, "editing"))
LoanPaymentForm == On(LoansView, Form(PaymentRoutes.recordInterestPayment, "always"))
LoanDetail == On(LoansView, DeleteControl(LoanRoutes.deleteLoan))
AuditTrail == Watched(TrailView)
BorrowingForm == On(LiabilitiesView, Form(LiabilityRoutes.recordLiability, "always"))
BorrowingPaymentForm ==
  On(LiabilitiesView, Form(LiabilityRoutes.recordLiabilityPayment, "always"))
BorrowingRow == On(LiabilitiesView, DeleteControl(LiabilityRoutes.deleteLiability))
NewBalanceForm == On(BalancesView, Form(BalanceRoutes.recordBalance, "always"))
BalanceRow == On(BalancesView, Unguarded(Form(BalanceRoutes.restateBalance, "editing")))
PropertyForm == On(ImmovableView, IfDuplicate(Form(PropertyRoutes.recordProperty, "always")))
PropertyRow == On(ImmovableView, DeleteControl(LedgerRoutes.deleteAsset))
TradeForm == On(HoldingsView, IfDuplicate(Form(TradeRoutes.recordTrade, "always")))
HoldingRow == On(HoldingsView, DeleteControl(LedgerRoutes.deleteAsset))
ExitRow == On(HoldingsView, DeleteControl(LedgerRoutes.deleteExit))
ImportForm == On(DashboardView, Reading(Form(ImportRoutes.importStatement, "always")))
CreateSnapshot == On(SnapshotsView, Form(SnapshotRoutes.createSnapshot, "always"))
IncomeForm == On(ProfileView, Unguarded(Form(TaxRoutes.saveIncomeProfile, "unless there")))
AdvanceTaxForm == On(PaymentsView, Form(TaxRoutes.recordAdvanceTaxPayment, "always"))
AdvanceTaxRow == On(PaymentsView, DeleteControl(TaxRoutes.deleteAdvanceTaxPayment))
EntityDetailForm ==
  On(ReadinessView, Unguarded(Form(ForeignRoutes.recordForeignDetail, "always")))
ForeignAccountForm ==
  On(ReadinessView, Unguarded(Form(ForeignRoutes.recordForeignAccount, "always")))
SyncMarks == On(ReadinessView, Unguarded(Form(ForeignRoutes.syncMarks, "always")))
BackupCard == On(SettingsView, Untimed(NotRelisted(Form(VaultRoutes.backup, "always"))))
RestoreCard == On(SettingsView, NotRelisted(Form(VaultRoutes.restoreBackup, "always")))
InclusionsCard == On(InclusionsView, NotRelisted(Form(TaxRoutes.saveIncomeInclusions, "editing")))

Screens ==
  {NewChitForm, EditChitForm, EmiForm, StatusForm, ChitDetail, ScheduleEditor, ScheduleRow,
   NewLoanForm, EditLoanForm, LoanPaymentForm, LoanDetail, AuditTrail,
   BorrowingForm, BorrowingPaymentForm, BorrowingRow,
   NewBalanceForm, BalanceRow, PropertyForm, PropertyRow, TradeForm, HoldingRow, ExitRow,
   ImportForm, CreateSnapshot, IncomeForm, AdvanceTaxForm, AdvanceTaxRow,
   EntityDetailForm, ForeignAccountForm, SyncMarks, BackupCard, RestoreCard, InclusionsCard,
   Watched(OtherIncomeView), Watched(TaxView), Watched(ScheduleView), Watched(OverviewView)}
---------------------------------------------------------------------------
(* The machine.  A call remembers the filter its closure was made under;   *)
(* nobody waits any more for one that timed out or whose view was left.    *)
Call(what, on, confirmed) ==
  [n |-> sent, what |-> what, on |-> on, confirmed |-> confirmed,
   answer |-> None, waited |-> TRUE]
Waiting == {c \in wire : c.waited}
Timed(c) == c.what = "send" => at.form.timed
\* Calls that nobody waits for, of those that may still change the vault.
Left(calls) ==
  {[c EXCEPT !.waited = FALSE] : c \in {d \in calls : d.answer = None /\ d.what = "send"}}
AllFilters == CHOOSE f \in Filters : TRUE

(* A view that is opened: nothing filled in, and the listing asked for.    *)
Fresh(mirror, confirmed) ==
  [mirror |-> mirror, filter |-> AllFilters, shows |-> None, failed |-> FALSE,
   armed |-> FALSE, busy |-> FALSE, note |-> "none",
   hasty |-> FALSE, behind |-> FALSE, confirmed |-> confirmed]

\* Ask for the listing, under a filter.
Asked(calls, on) == wire' = calls \cup {Call("load", on, FALSE)} /\ sent' = sent + 1

(* The user opens the section; the mirror of edit mode outlives the view.  *)
Visit ==
  /\ sent < MaxCalls
  /\ page' = Fresh(page.mirror, page.confirmed)
  /\ IF at.view.asks = "by itself" THEN Asked(Left(wire), AllFilters)
     ELSE wire' = Left(wire) /\ UNCHANGED sent
  /\ UNCHANGED <<at, vault>>

(* An answer about edit mode, to whoever asked: it was on, or off; a       *)
(* failed answer counts as off.  The mode may change as soon as the answer *)
(* is made, and nobody asks when another tab changes it.                   *)
Learn ==
  /\ \E told \in {FALSE, vault.mode = "editing"} \ {page.mirror} :
       page' = [page EXCEPT !.mirror = told]
  /\ UNCHANGED <<at, wire, vault, sent>>

Choose(f) ==
  /\ at.view.filtered /\ f # page.filter
  /\ sent < MaxCalls
  /\ page' = [page EXCEPT !.filter = f, !.hasty = Waiting # {}, !.behind = FALSE]
  /\ IF at.view.asks = "by itself" THEN Asked(wire, f) ELSE UNCHANGED <<wire, sent>>
  /\ UNCHANGED <<at, vault>>

Ask ==
  /\ at.view.asks = "on demand"
  /\ sent < MaxCalls
  /\ page' = [page EXCEPT !.hasty = Waiting # {}, !.behind = FALSE]
  /\ Asked(wire, page.filter)
  /\ UNCHANGED <<at, vault>>

Present == IF page.shows = None THEN "none" ELSE page.shows.entry
Offered ==
  /\ ~(page.failed /\ at.view.failure = "page")
  /\ CASE at.form.offered = "always" -> TRUE
       [] at.form.offered = "editing" -> page.mirror
       [] at.form.offered = "unless there" -> page.mirror \/ Present = "none"
       [] at.form.offered = "never" -> FALSE
  /\ at.form.guarded => ~page.busy

Arm ==
  /\ at.form.confirms = "first" /\ ~page.armed /\ Offered
  /\ page' = [page EXCEPT !.armed = TRUE]
  /\ UNCHANGED <<at, wire, vault, sent>>

\* A file that cannot be read leaves the form shut: nothing is sent.
Unread ==
  /\ at.form.reads /\ Offered
  /\ page' = [page EXCEPT !.busy = TRUE, !.note = "none"]
  /\ UNCHANGED <<at, wire, vault, sent>>

Press(confirmed) ==
  /\ sent < MaxCalls
  /\ Offered
  /\ at.form.confirms = "first" => page.armed
  /\ confirmed => at.form.confirms = "duplicate" /\ page.note = "duplicate"
  /\ page' = [page EXCEPT !.busy = TRUE, !.note = "none", !.hasty = @ \/ Waiting # {},
                          !.confirmed = @ \/ confirmed]
  /\ wire' = wire \cup {Call("send", page.filter, confirmed)}
  /\ sent' = sent + 1
  /\ UNCHANGED <<at, vault>>
---------------------------------------------------------------------------
(* The server carries a call out, whether anybody still waits or not.      *)
Carry(c) ==
  /\ c.answer = None
  /\ LET route == at.form.sends
         answer == IF c.what = "load" THEN Listing(at.view.empty, vault)
                   ELSE Answer(route, vault, c.confirmed)
     IN  /\ vault' = IF c.what = "load" THEN vault ELSE After(route, vault, c.confirmed)
         /\ wire' = (wire \ {c}) \cup IF c.waited THEN {[c EXCEPT !.answer = answer]} ELSE {}
         /\ page' = [page EXCEPT !.behind = @ \/ (~c.waited /\ c.what = "send")]
  /\ UNCHANGED <<at, sent>>

(* request goes by the status when the connection, or its own time, ends   *)
(* while the body is read: what was accepted is accepted, with nothing in  *)
(* it, and a refusal has no reason.  downloadBinary fails instead.         *)
CutAccepted(c) ==  \* Fault: a form goes by the body, not by the status.
  /\ c.waited /\ Timed(c)
  /\ c.answer \in Entries \cup Refusals
  /\ LET rest == IF c.what = "load" THEN "cut" ELSE "ok"
     IN wire' = (wire \ {c}) \cup {[c EXCEPT !.answer = rest]}
  /\ UNCHANGED <<at, page, vault, sent>>
Cut(c) ==
  /\ c.waited /\ Timed(c)
  /\ c.answer \in Entries \cup Refusals
  /\ LET rest == IF c.answer \in Entries THEN "cut" ELSE "http"
     IN wire' = (wire \ {c}) \cup {[c EXCEPT !.answer = rest]}
  /\ UNCHANGED <<at, page, vault, sent>>

(* The answer to a form: it closes and has its listing asked for again,    *)
(* under the filter of its own closure; or it shows the refusal.           *)
TakeSendBlind(c) ==  \* Fault: nothing is asked for again.
  /\ page' = [page EXCEPT !.busy = FALSE, !.armed = IF c.answer = "ok" THEN FALSE ELSE @,
                          !.note = IF c.answer = "ok" THEN "none" ELSE c.answer]
  /\ wire' = wire \ {c} /\ UNCHANGED sent
TakeSend(c) ==
  /\ page' = [page EXCEPT
       !.busy = FALSE,
       !.armed = IF c.answer = "ok" THEN FALSE ELSE @,
       !.note = IF c.answer = "ok" THEN "none" ELSE c.answer,
       !.behind = IF c.answer = "ok" THEN ~at.form.relists ELSE @,
       !.hasty = @ \/ c.on # page.filter]
  /\ IF c.answer = "ok" /\ at.form.relists THEN Asked(wire \ {c}, c.on)
     ELSE wire' = wire \ {c} /\ UNCHANGED sent

Failed ==
  [page EXCEPT !.failed = TRUE,
               !.shows = IF at.view.failure = "blank" THEN None ELSE @,
               !.armed = IF at.view.failure = "page" THEN FALSE ELSE @,
               !.busy = IF at.view.failure = "page" THEN FALSE ELSE @]
TakeLoad(c) ==
  /\ page' = IF c.answer \in {"locked", "http"} THEN Failed
             ELSE [page EXCEPT !.failed = FALSE, !.shows = [on |-> c.on, entry |-> c.answer]]
  /\ wire' = wire \ {c} /\ UNCHANGED sent

Take(c) ==
  /\ c.waited /\ c.answer # None
  /\ \/ c.what = "send" /\ TakeSend(c)
     \/ c.what = "load" /\ TakeLoad(c)
  /\ UNCHANGED <<at, vault>>

(* The request's time is up, or the server cannot be reached any more: the *)
(* form may be pressed again, and what became of the call is not known.    *)
GiveUpLoads(c) ==  \* Fault: only loads have a limit.
  /\ c.waited /\ c.what = "load"
  /\ page' = Failed
  /\ wire' = (wire \ {c}) \cup Left({c})
  /\ UNCHANGED <<at, vault, sent>>
GiveUp(c) ==
  /\ c.waited
  /\ page' = IF c.what = "load" THEN Failed
             ELSE [page EXCEPT !.busy = FALSE, !.note = "timeout",
                               !.behind = @ \/ c.answer # None]
  /\ wire' = (wire \ {c}) \cup Left({c})
  /\ UNCHANGED <<at, vault, sent>>

(* Another tab, or the settings, lock and unlock the vault and switch edit *)
(* mode; a server that restarts is locked, for the key is in memory.       *)
Switch ==
  /\ \E mode \in {"locked", "unlocked", "editing"} \ {vault.mode} :
       /\ vault.mode = "locked" => mode = "unlocked"
       /\ vault' = [vault EXCEPT !.mode = mode]
  /\ UNCHANGED <<at, page, wire, sent>>

Init ==
  /\ at \in Screens
  /\ page = Fresh(FALSE, FALSE)
  /\ wire = {} /\ sent = 0
  /\ \E entry \in {"none", "old"} :
       /\ \/ at.form.sends.needs = "editing if there"
          \/ entry = "none" <=> at.form.sends.does = "add"
       /\ vault = [mode |-> "locked", entry |-> entry]

Next ==
  \/ Visit \/ Learn
  \/ \E f \in Filters : Choose(f)
  \/ Ask \/ Arm \/ Unread
  \/ \E confirmed \in BOOLEAN : Press(confirmed)
  \/ \E c \in wire : Carry(c) \/ Cut(c) \/ Take(c) \/ GiveUp(c)
  \/ Switch

\* What request sends has a timer that aborts it, whatever the server does.
Fairness == WF_vars(\E c \in Waiting : Timed(c) /\ GiveUp(c))
Spec == Init /\ [][Next]_vars /\ Fairness
---------------------------------------------------------------------------
(* However often a form is sent again, after time-outs whose call was or   *)
(* was not carried out, its entry is stored once, unless the user said     *)
(* that it is another one.                                                 *)
StoredOnce == vault.entry = "twice" => page.confirmed

(* edit-mode.tsx: a mirror that is wrong can only mean a button that fails *)
(* honestly, never that something is changed that should not have been.    *)
(* Whatever was pressed under which mirror, and however late it is carried *)
(* out, what the vault has is replaced or removed in edit mode only; and a *)
(* form that closes as done, its answer whole or cut off, has its entry as *)
(* it was sent.                                                            *)
Done == CASE at.form.sends.does = "nothing" -> Entries
          [] at.form.sends.does = "remove" -> {"none"}
          [] OTHER -> {"stored", "twice"}
HonestForms ==
  [][/\ vault.entry # "none" /\ vault'.entry \notin {vault.entry, "twice"}
          => vault.mode = "editing"
     /\ \A c \in Waiting :
          c.what = "send" /\ Take(c) /\ page'.note = "none" => vault.entry \in Done]_vars

(* A user who lets one answer arrive before the next choice sees, once all *)
(* calls are answered, the listing of the filter chosen and of what the    *)
(* vault holds; unless it failed, or was cut off while it came in, or was  *)
(* read while the vault was locked.                                        *)
ListingTrue ==
  (/\ wire = {} /\ ~page.hasty /\ ~page.behind /\ ~page.failed
   /\ page.shows # None /\ page.shows.entry # "cut"
   /\ at.view.asks = "by itself" /\ vault.mode # "locked") =>
     /\ page.shows.on = page.filter
     /\ page.shows.entry = vault.entry \/ at.view.empty

(* api.ts: every request is bounded.  A form whose call went out by        *)
(* request can be used again, whatever the server does.                    *)
FormsComeBack == (\E c \in Waiting : c.what = "send" /\ Timed(c)) ~> ~page.busy
=============================================================================
