--------------------------------- MODULE Api ---------------------------------
(***************************************************************************)
(* What the routes of the API do to one entry of the vault, as the browser *)
(* can tell: apps/api/src/routes/index.ts and the guards of the use cases  *)
(* they call.  A form sends one entry: the entry is not there, there as it *)
(* was before, stored as the form has it, or stored twice.  A route runs   *)
(* without another in between, so it is one step of the server.            *)
(*                                                                         *)
(* Left out: the contents of a request, and every refusal of them (a date  *)
(* that is none, an amount below zero): such a request changes nothing.    *)
(***************************************************************************)
Entries == {"none", "old", "stored", "twice"}
Refusals == {"locked", "mode", "there", "duplicate", "gone"}

(* A route that adds says what the same entry does the second time: it is  *)
(* the same entry, or another one, or it is refused, or the user is asked. *)
Adds(again) == [needs |-> "unlocked", does |-> "add", again |-> again]
\* Adding is free and replacing takes edit mode.
Puts == [needs |-> "editing if there", does |-> "add", again |-> "same"]
Changes == [needs |-> "editing", does |-> "change", again |-> "same"]
\* Removing what is gone succeeds, or fails.
Removes(again) == [needs |-> "editing", does |-> "remove", again |-> again]
Reads == [needs |-> "unlocked", does |-> "nothing", again |-> "same"]

VaultRoutes ==
  [backup |-> Reads,
   restoreBackup |-> [needs |-> "editing if there", does |-> "restore", again |-> "same"]]
LedgerRoutes == [deleteAsset |-> Removes("gone"), deleteExit |-> Removes("gone")]
ChitRoutes ==
  [openChit |-> Adds("same"), editChit |-> Changes, deleteChit |-> Removes("gone")]
EmiRoutes ==
  [recordChitEmi |-> Adds("same"), setChitStatus |-> Changes, saveChitSchedule |-> Puts,
   deleteChitSchedule |-> Removes("same")]
TradeRoutes == [recordTrade |-> Adds("asks")]
BalanceRoutes ==
  [recordBalance |-> Puts, restateBalance |-> Changes, closeBalance |-> Changes]
LiabilityRoutes ==
  [recordLiability |-> Adds("there"), recordLiabilityPayment |-> Adds("same"),
   closeLiability |-> Changes, reopenLiability |-> Changes,
   deleteLiability |-> Removes("same")]
PropertyRoutes == [recordProperty |-> Adds("asks")]
LoanRoutes ==
  [recordLoan |-> Adds("asks"), editLoan |-> Changes, deleteLoan |-> Removes("gone")]
PaymentRoutes ==
  [recordInterestPayment |-> Adds("same"), recordPrincipalRepayment |-> Adds("same")]
SnapshotRoutes == [createSnapshot |-> Adds("there")]
ImportRoutes == [importStatement |-> Adds("same")]
\* A receipt has an id of a counter (TaxYear); no form of the client sends one.
TaxRoutes ==
  [recordIncome |-> Adds("another"), recordAdvanceTaxPayment |-> Adds("same"),
   deleteAdvanceTaxPayment |-> Removes("same"), saveIncomeProfile |-> Puts,
   saveIncomeInclusions |-> Changes]
ForeignRoutes ==
  [recordForeignDetail |-> Puts, recordForeignAccount |-> Puts,
   deleteForeignAccount |-> Removes("same"), syncMarks |-> Adds("same"),
   recordMark |-> Adds("same")]
---------------------------------------------------------------------------
(* A repository has no rows for a locked vault; whether a listing says so  *)
(* or shows an empty book depends on its route.                            *)
EmptyWhenLocked == {"ledger", "snapshots", "payments", "incomeProfile", "incomeInclusions"}
Listing(empty, vault) ==
  IF vault.mode # "locked" THEN vault.entry ELSE IF empty THEN "none" ELSE "locked"

Permitted(route, vault) ==
  CASE route.needs = "unlocked" -> TRUE
    [] route.needs = "editing" -> vault.mode = "editing"
    [] route.needs = "editing if there" -> vault.entry = "none" \/ vault.mode = "editing"

\* Restoring needs no unlocked vault when it is the first one.
Open(route, vault) ==
  vault.mode = "locked" => route.does = "restore" /\ vault.entry = "none"

(* The answer of a route, and the vault afterwards.  An id made of the     *)
(* content makes the same entry the same row.                              *)
Answer(route, vault, confirmed) ==
  IF ~Open(route, vault) THEN "locked"
  ELSE IF ~Permitted(route, vault) THEN "mode"
  ELSE IF route.does = "add" /\ vault.entry # "none"
    THEN CASE route.again \in {"same", "another"} -> "ok"
           [] route.again = "there" -> "there"
           [] route.again = "asks" -> IF confirmed THEN "ok" ELSE "duplicate"
  ELSE IF route.does = "remove" /\ vault.entry = "none"
    THEN IF route.again = "same" THEN "ok" ELSE "gone"
  ELSE "ok"

\* Fault: an id made of a counter makes every request another row.
AfterCounted(route, vault, confirmed) ==
  IF Answer(route, vault, confirmed) # "ok" THEN vault
  ELSE CASE route.does = "add" ->
              [vault EXCEPT !.entry = IF @ = "none" THEN "stored" ELSE "twice"]
         [] route.does = "change" -> [vault EXCEPT !.entry = "stored"]
         [] route.does = "restore" -> [entry |-> "stored", mode |-> "locked"]
         [] route.does = "remove" -> [vault EXCEPT !.entry = "none"]
         [] route.does = "nothing" -> vault
After(route, vault, confirmed) ==
  IF Answer(route, vault, confirmed) # "ok" THEN vault
  ELSE CASE route.does = "add" ->
              [vault EXCEPT !.entry = IF route.again \in {"asks", "another"} /\ @ # "none"
                                      THEN "twice" ELSE "stored"]
         [] route.does = "change" -> [vault EXCEPT !.entry = "stored"]
         [] route.does = "restore" -> [entry |-> "stored", mode |-> "locked"]
         [] route.does = "remove" -> [vault EXCEPT !.entry = "none"]
         [] route.does = "nothing" -> vault
=============================================================================
