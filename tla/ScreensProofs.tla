--------------------------- MODULE ScreensProofs ---------------------------
(***************************************************************************)
(* What the screens promise for all filters and any number of calls, lost, *)
(* late, overtaken, cut off or repeated: an entry is stored once, what is  *)
(* there is replaced in edit mode only, whatever the browser believes, and *)
(* a form that closes has done what it sent.                               *)
(*                                                                         *)
(* The argument: only a confirmed call stores an entry twice, and a        *)
(* confirmation never leaves the page; a form that adds without edit mode  *)
(* finds nothing but what it stored itself, which it does not replace, and *)
(* every other form is judged by the mode when it is carried out.  What a  *)
(* call that was accepted left in the vault, no later one undoes.  As to   *)
(* the listings: a reader who lets one answer arrive before the next       *)
(* choice waits under the filter chosen, and what is shown was read since  *)
(* the last change, unless a call that was given up was carried out since. *)
(***************************************************************************)
EXTENDS Screens, TLAPS

\* What is replaced or removed takes edit mode, where there is something.
KnownRoute(r) ==
  /\ r.does \in {"add", "change", "remove", "restore", "nothing"}
  /\ r.again \in {"same", "there", "asks", "gone"}
  /\ r.needs \in {"unlocked", "editing", "editing if there"}
  /\ r.does \in {"change", "remove"} <=> r.needs = "editing"
  /\ r.does = "add" /\ r.needs = "editing if there" => r.again = "same"
  /\ r.does = "add" => r.again # "gone"
  /\ r.does = "restore" => r.needs = "editing if there"
---------------------------------------------------------------------------
Known(screen) == KnownRoute(screen.form.sends)

(* Every form of the client, view by view.                                 *)
LEMMA FormsKnown ==
  \A s \in Screens : Known(s)
<1>1. Known(NewChitForm) /\ Known(EditChitForm)
  BY DEF NewChitForm, EditChitForm, ChitRoutes, Adds, Changes, Form, On, Known, KnownRoute
<1>2. Known(ChitDetail) /\ Known(EmiForm)
  BY DEF ChitDetail, EmiForm, ChitRoutes, EmiRoutes, Adds, Removes, DeleteControl, Form, On,
         Known, KnownRoute
<1>3. Known(StatusForm) /\ Known(ScheduleEditor) /\ Known(ScheduleRow)
  BY DEF StatusForm, ScheduleEditor, ScheduleRow, EmiRoutes, Changes, Puts, Removes,
         DeleteControl, Form, On, Known, KnownRoute
<1>4. Known(NewLoanForm) /\ Known(EditLoanForm)
  BY DEF NewLoanForm, EditLoanForm, LoanRoutes, Adds, Changes, Form, IfDuplicate, On, Known,
      KnownRoute
<1>5. Known(LoanPaymentForm) /\ Known(LoanDetail)
  BY DEF LoanPaymentForm, LoanDetail, LoanRoutes, PaymentRoutes, Adds, Removes, DeleteControl,
         Form, On, Known, KnownRoute
<1>6. Known(BorrowingForm) /\ Known(BorrowingPaymentForm) /\ Known(BorrowingRow)
  BY DEF BorrowingForm, BorrowingPaymentForm, BorrowingRow, LiabilityRoutes, Adds, Removes,
         DeleteControl, Form, On, Known, KnownRoute
<1>7. Known(NewBalanceForm) /\ Known(BalanceRow)
  BY DEF NewBalanceForm, BalanceRow, BalanceRoutes, Changes, Puts, Form, Unguarded, On,
         Known, KnownRoute
<1>8. Known(PropertyForm) /\ Known(PropertyRow)
  BY DEF PropertyForm, PropertyRow, LedgerRoutes, PropertyRoutes, Adds, Removes,
         DeleteControl, Form, IfDuplicate, On, Known, KnownRoute
<1>9. Known(TradeForm) /\ Known(HoldingRow) /\ Known(ExitRow)
  BY DEF TradeForm, HoldingRow, ExitRow, LedgerRoutes, TradeRoutes, Adds, Removes,
         DeleteControl, Form, IfDuplicate, On, Known, KnownRoute
<1>10. Known(ImportForm) /\ Known(CreateSnapshot)
  BY DEF ImportForm, CreateSnapshot, ImportRoutes, SnapshotRoutes, Adds, Form, Reading, On, Known,
      KnownRoute
<1>11. Known(IncomeForm) /\ Known(AdvanceTaxForm) /\ Known(AdvanceTaxRow)
  BY DEF IncomeForm, AdvanceTaxForm, AdvanceTaxRow, TaxRoutes, Adds, Puts, Removes,
         DeleteControl, Form, Unguarded, On, Known, KnownRoute
<1>12. Known(EntityDetailForm) /\ Known(ForeignAccountForm) /\ Known(SyncMarks)
  BY DEF EntityDetailForm, ForeignAccountForm, SyncMarks, ForeignRoutes, Adds, Puts, Form,
         Unguarded, On, Known, KnownRoute
<1>13. Known(BackupCard) /\ Known(RestoreCard) /\ Known(InclusionsCard)
  BY DEF BackupCard, RestoreCard, InclusionsCard, TaxRoutes, VaultRoutes, Changes, Reads,
         Form, Untimed, NotRelisted, On, Known, KnownRoute
<1>14. \A view : Known(Watched(view))
  BY DEF Watched, VaultRoutes, Reads, NotRelisted, Form, On, Known, KnownRoute
<1>15. QED
  BY <1>1, <1>2, <1>3, <1>4, <1>5, <1>6, <1>7, <1>8, <1>9, <1>10, <1>11, <1>12, <1>13, <1>14
     DEF Screens, AuditTrail
---------------------------------------------------------------------------
PageFields == {"mirror", "filter", "shows", "failed", "armed", "busy", "note", "hasty",
               "behind", "confirmed"}
CallFields == {"n", "what", "on", "confirmed", "answer", "waited"}

Shaped ==
  /\ at \in Screens
  /\ DOMAIN page = PageFields
  /\ DOMAIN vault = {"mode", "entry"} /\ vault.mode \in {"locked", "unlocked", "editing"}
  /\ vault.entry \in Entries
  /\ \A c \in wire : DOMAIN c = CallFields /\ c.what \in {"load", "send"}

\* What was confirmed is confirmed on the page.
Confirmed ==
  /\ vault.entry = "twice" => page.confirmed = TRUE
  /\ \A c \in wire : c.confirmed = TRUE => page.confirmed = TRUE

\* A form that adds without edit mode meets what it added itself, once or
\* confirmed.
Added ==
  /\ at.form.sends.does = "add" /\ at.form.sends.needs = "unlocked" => vault.entry # "old"
  /\ vault.entry = "twice" => at.form.sends.does = "add" /\ at.form.sends.again = "asks"

ScreensInv == Shaped /\ Confirmed /\ Added
---------------------------------------------------------------------------
\* The calls nobody waits for any more are those there were.
LEMMA LeftCalls ==
  ASSUME NEW calls, NEW c \in Left(calls), \A d \in calls : DOMAIN d = CallFields
  PROVE  /\ DOMAIN c = CallFields /\ c.waited = FALSE /\ c.what = "send"
         /\ \E d \in calls : c.confirmed = d.confirmed
<1>1. PICK d \in calls : c = [d EXCEPT !.waited = FALSE] /\ d.what = "send"
  BY DEF Left
<1>2. DOMAIN d = CallFields
  BY <1>1
<1>3. QED
  BY <1>1, <1>2 DEF CallFields

LEMMA NewCall ==
  ASSUME NEW what, NEW on, NEW confirmed
  PROVE  /\ DOMAIN Call(what, on, confirmed) = CallFields
         /\ Call(what, on, confirmed).what = what
         /\ Call(what, on, confirmed).confirmed = confirmed
         /\ Call(what, on, confirmed).answer = None
  BY DEF Call, CallFields

\* A load that is asked for confirms nothing and is not refused for the mode.
LEMMA AskedLoad ==
  ASSUME NEW calls, NEW on, Asked(calls, on), NEW c \in wire'
  PROVE  \/ c \in calls
         \/ DOMAIN c = CallFields /\ c.confirmed = FALSE /\ c.what = "load"
<1>1. c \in calls \/ c = Call("load", on, FALSE)
  BY DEF Asked
<1>2. QED
  BY <1>1 DEF Call, CallFields

(* What the steps of the page have in common: the vault stays, and calls   *)
(* come in whose confirmation is the page's.                               *)
Kept ==
  /\ at' = at /\ vault' = vault
  /\ DOMAIN page' = PageFields
  /\ page.confirmed = TRUE => page'.confirmed = TRUE
Settled(c) ==
  /\ DOMAIN c = CallFields /\ c.what \in {"load", "send"}
  /\ c.confirmed = TRUE => page'.confirmed = TRUE

LEMMA PageStepKeeps ==
  ASSUME ScreensInv, Kept, \A c \in wire' : Settled(c)
  PROVE  ScreensInv'
  BY DEF ScreensInv, Shaped, Confirmed, Added, Kept, Settled

LEMMA OldCalls ==
  ASSUME ScreensInv, Kept, NEW c \in wire
  PROVE  Settled(c)
  BY DEF ScreensInv, Shaped, Confirmed, Kept, Settled

LEMMA LoadCalls ==
  ASSUME NEW c, DOMAIN c = CallFields, c.confirmed = FALSE, c.what = "load"
  PROVE  Settled(c)
  BY DEF Settled

LEMMA LeftSettled ==
  ASSUME ScreensInv, Kept, NEW calls, calls \subseteq wire, NEW c \in Left(calls)
  PROVE  Settled(c)
<1>1. /\ DOMAIN c = CallFields /\ c.waited = FALSE /\ c.what = "send"
      /\ \E d \in calls : c.confirmed = d.confirmed
  BY LeftCalls DEF ScreensInv, Shaped
<1>2. QED
  BY <1>1 DEF ScreensInv, Confirmed, Kept, Settled

LEMMA VisitKeeps ==
  ASSUME ScreensInv, Visit
  PROVE  ScreensInv'
<1>1. Kept
  BY DEF Visit, Fresh, PageFields, Kept
<1>2. ASSUME NEW c \in wire'
      PROVE  Settled(c)
  <2>1. \/ c \in Left(wire)
        \/ DOMAIN c = CallFields /\ c.confirmed = FALSE /\ c.what = "load"
    <3>1. CASE at.view.asks = "by itself"
      BY <3>1, AskedLoad DEF Visit
    <3>2. CASE at.view.asks # "by itself"
      BY <3>2 DEF Visit
    <3>3. QED
      BY <3>1, <3>2
  <2>2. QED
    BY <1>1, <2>1, LeftSettled, LoadCalls
<1>3. QED
  BY <1>1, <1>2, PageStepKeeps

LEMMA ChooseKeeps ==
  ASSUME ScreensInv, NEW f, Choose(f) \/ Ask
  PROVE  ScreensInv'
<1>1. Kept
  BY DEF Choose, Ask, Kept, ScreensInv, Shaped, PageFields
<1>2. ASSUME NEW c \in wire'
      PROVE  Settled(c)
  <2>1. \/ c \in wire
        \/ DOMAIN c = CallFields /\ c.confirmed = FALSE /\ c.what = "load"
    <3>1. CASE Choose(f) /\ at.view.asks # "by itself"
      BY <3>1 DEF Choose
    <3>2. CASE Choose(f) /\ at.view.asks = "by itself"
      BY <3>2, AskedLoad DEF Choose
    <3>3. CASE Ask
      BY <3>3, AskedLoad DEF Ask
    <3>4. QED
      BY <3>1, <3>2, <3>3
  <2>2. QED
    BY <1>1, <2>1, OldCalls, LoadCalls
<1>3. QED
  BY <1>1, <1>2, PageStepKeeps

\* No call comes or goes while the page learns, arms or waits for a file.
LEMMA QuietKeeps ==
  ASSUME ScreensInv, Learn \/ Arm \/ Unread
  PROVE  ScreensInv'
<1>1. Kept /\ wire' = wire
  BY DEF Learn, Arm, Unread, Kept, ScreensInv, Shaped, PageFields
<1>2. QED
  BY <1>1, OldCalls, PageStepKeeps

LEMMA PressKeeps ==
  ASSUME ScreensInv, NEW confirmed \in BOOLEAN, Press(confirmed)
  PROVE  ScreensInv'
<1>1. /\ page' = [page EXCEPT !.busy = TRUE, !.note = "none",
                              !.hasty = @ \/ Waiting # {}, !.confirmed = @ \/ confirmed]
      /\ at' = at /\ vault' = vault
      /\ wire' = wire \cup {Call("send", page.filter, confirmed)}
  BY DEF Press
<1>2. /\ DOMAIN page' = PageFields /\ page'.confirmed = (page.confirmed \/ confirmed)
  BY <1>1 DEF ScreensInv, Shaped, PageFields
<1>3. Kept
  BY <1>1, <1>2 DEF Kept
<1>4. Settled(Call("send", page.filter, confirmed))
  <2> DEFINE c == Call("send", page.filter, confirmed)
  <2>1. DOMAIN c = CallFields /\ c.what = "send" /\ c.confirmed = confirmed
    BY NewCall DEF c
  <2> HIDE DEF c
  <2>2. QED
    BY <1>2, <2>1 DEF Settled, c
<1>5. QED
  BY <1>1, <1>3, <1>4, OldCalls, PageStepKeeps
---------------------------------------------------------------------------
\* What a route does to the vault.
LEMMA AfterRoute ==
  ASSUME NEW r, KnownRoute(r), NEW v, DOMAIN v = {"mode", "entry"}, NEW confirmed,
         r.does = "add" /\ r.needs = "unlocked" => v.entry # "old",
         v.entry = "twice" => r.does = "add" /\ r.again = "asks"
  PROVE  LET w == After(r, v, confirmed)
         IN  /\ DOMAIN w = {"mode", "entry"} /\ w.mode \in {v.mode, "locked"}
             /\ w.entry = "twice" => v.entry = "twice" \/ confirmed = TRUE
             /\ w.entry = "twice" => r.does = "add" /\ r.again = "asks"
             /\ r.does = "add" /\ r.needs = "unlocked" => w.entry # "old"
             /\ w.entry \in {v.entry, "none", "stored", "twice"}
<1>1. CASE Answer(r, v, confirmed) # "ok"
  BY <1>1 DEF After
<1>2. CASE Answer(r, v, confirmed) = "ok" /\ r.does = "add"
  <2>1. r.again = "asks" /\ v.entry # "none" => confirmed = TRUE
    BY <1>2 DEF Answer
  <2>2. After(r, v, confirmed) =
          [v EXCEPT !.entry = IF r.again \in {"asks", "another"} /\ @ # "none" THEN "twice"
                              ELSE "stored"]
    BY <1>2 DEF After
  <2>3. r.again # "another"
    BY DEF KnownRoute
  <2>4. QED
    BY <1>2, <2>1, <2>2, <2>3
<1>3. CASE Answer(r, v, confirmed) = "ok" /\ r.does # "add"
  BY <1>3 DEF After, KnownRoute
<1>4. QED
  BY <1>1, <1>2, <1>3

\* What a route replaces or removes, it does in edit mode.
LEMMA RouteReplaces ==
  ASSUME NEW r, KnownRoute(r), NEW v, DOMAIN v = {"mode", "entry"}, NEW confirmed,
         v.entry \in Entries, v.mode \in {"locked", "unlocked", "editing"},
         r.does = "add" /\ r.needs = "unlocked" => v.entry # "old",
         v.entry = "twice" => r.does = "add" /\ r.again = "asks",
         v.entry # "none", After(r, v, confirmed).entry \notin {v.entry, "twice"}
  PROVE  v.mode = "editing"
<1>1. Answer(r, v, confirmed) = "ok"
  BY DEF After
<1>2. Open(r, v) /\ Permitted(r, v)
  BY <1>1 DEF Answer
<1>3. v.mode # "locked"
  BY <1>2 DEF Open
<1>4. CASE r.needs = "unlocked"
  <2>1. r.does \in {"add", "nothing"}
    BY <1>4 DEF KnownRoute
  <2>2. CASE r.does = "nothing"
    BY <1>1, <2>2 DEF After
  <2>3. CASE r.does = "add"
    <3>1. v.entry \in {"stored", "twice"}
      BY <1>4, <2>3 DEF Entries
    <3>2. After(r, v, confirmed).entry
            = IF r.again \in {"asks", "another"} THEN "twice" ELSE "stored"
      BY <1>1, <2>3 DEF After
    <3>3. QED
      BY <3>1, <3>2
  <2>4. QED
    BY <2>1, <2>2, <2>3
<1>5. CASE r.needs \in {"editing", "editing if there"}
  BY <1>2, <1>5 DEF Permitted
<1>6. QED
  BY <1>4, <1>5 DEF KnownRoute

LEMMA CarryKeeps ==
  ASSUME ScreensInv, NEW c \in wire, Carry(c)
  PROVE  ScreensInv'
<1> DEFINE route == at.form.sends
           answer == IF c.what = "load" THEN Listing(at.view.empty, vault)
                     ELSE Answer(route, vault, c.confirmed)
<1>1. /\ vault' = IF c.what = "load" THEN vault ELSE After(route, vault, c.confirmed)
      /\ wire' = (wire \ {c}) \cup IF c.waited THEN {[c EXCEPT !.answer = answer]} ELSE {}
      /\ page' = [page EXCEPT !.behind = @ \/ (~c.waited /\ c.what = "send")]
      /\ at' = at
  BY DEF Carry
<1>2. KnownRoute(route)
  BY FormsKnown DEF ScreensInv, Shaped, Known
<1>3. DOMAIN page' = PageFields /\ page'.confirmed = page.confirmed
  BY <1>1 DEF ScreensInv, Shaped, PageFields
<1>4. /\ DOMAIN vault' = {"mode", "entry"} /\ vault'.mode \in {vault.mode, "locked"}
      /\ vault'.entry = "twice" => vault.entry = "twice" \/ c.confirmed = TRUE
      /\ vault'.entry = "twice" => route.does = "add" /\ route.again = "asks"
      /\ route.does = "add" /\ route.needs = "unlocked" => vault'.entry # "old"
      /\ vault'.entry \in {vault.entry, "none", "stored", "twice"}
  <2>1. /\ DOMAIN vault = {"mode", "entry"}
        /\ route.does = "add" /\ route.needs = "unlocked" => vault.entry # "old"
        /\ vault.entry = "twice" => route.does = "add" /\ route.again = "asks"
    BY DEF ScreensInv, Shaped, Added
  <2>2. vault' = vault \/ vault' = After(route, vault, c.confirmed)
    BY <1>1
  <2> HIDE DEF route
  <2>3. CASE vault' = vault
    BY <2>1, <2>3
  <2>4. CASE vault' = After(route, vault, c.confirmed)
    <3> DEFINE w == After(route, vault, c.confirmed)
    <3>1. /\ DOMAIN w = {"mode", "entry"} /\ w.mode \in {vault.mode, "locked"}
          /\ w.entry = "twice" => vault.entry = "twice" \/ c.confirmed = TRUE
          /\ w.entry = "twice" => route.does = "add" /\ route.again = "asks"
          /\ route.does = "add" /\ route.needs = "unlocked" => w.entry # "old"
          /\ w.entry \in {vault.entry, "none", "stored", "twice"}
      BY <1>2, <2>1, AfterRoute
    <3> HIDE DEF w
    <3>2. QED
      BY <2>4, <3>1 DEF w
  <2>5. QED
    BY <2>2, <2>3, <2>4
<1>5. ASSUME NEW d \in wire', d \notin wire
      PROVE  DOMAIN d = CallFields /\ d.confirmed = c.confirmed /\ d.what = c.what
  <2>1. d = [c EXCEPT !.answer = answer] /\ DOMAIN c = CallFields
    BY <1>1, <1>5 DEF ScreensInv, Shaped
  <2> HIDE DEF answer
  <2>2. QED
    BY <2>1 DEF CallFields
<1>6. Shaped'
  BY <1>1, <1>3, <1>4, <1>5 DEF ScreensInv, Shaped, Entries
<1>7. Confirmed'
  BY <1>3, <1>4, <1>5 DEF ScreensInv, Confirmed
<1>8. Added'
  BY <1>1, <1>4 DEF Added
<1>9. QED
  BY <1>6, <1>7, <1>8 DEF ScreensInv

LEMMA CutKeeps ==
  ASSUME ScreensInv, NEW c \in wire, Cut(c)
  PROVE  ScreensInv'
<1>1. PICK rest : wire' = (wire \ {c}) \cup {[c EXCEPT !.answer = rest]}
  BY DEF Cut
<1>2. Kept
  BY DEF Cut, Kept, ScreensInv, Shaped
<1>3. ASSUME NEW d \in wire', d \notin wire
      PROVE  Settled(d)
  <2>1. d = [c EXCEPT !.answer = rest]
    BY <1>1, <1>3
  <2>2. QED
    BY <1>2, <2>1, OldCalls DEF Settled, CallFields
<1>4. QED
  BY <1>2, <1>3, OldCalls, PageStepKeeps

LEMMA TakeKeeps ==
  ASSUME ScreensInv, NEW c \in wire, Take(c)
  PROVE  ScreensInv'
<1>1. Kept
  BY DEF Take, TakeLoad, TakeSend, Failed, Kept, ScreensInv, Shaped, PageFields
<1>2. ASSUME NEW d \in wire'
      PROVE  Settled(d)
  <2>1. \/ d \in wire
        \/ DOMAIN d = CallFields /\ d.confirmed = FALSE /\ d.what = "load"
    <3>1. CASE c.what = "load" /\ TakeLoad(c)
      BY <3>1 DEF TakeLoad
    <3>2. CASE c.what = "send" /\ TakeSend(c)
      BY <3>2, AskedLoad DEF TakeSend
    <3>3. QED
      BY <3>1, <3>2 DEF Take
  <2>2. QED
    BY <1>1, <2>1, OldCalls, LoadCalls
<1>3. QED
  BY <1>1, <1>2, PageStepKeeps

LEMMA GiveUpKeeps ==
  ASSUME ScreensInv, NEW c \in wire, GiveUp(c)
  PROVE  ScreensInv'
<1>1. Kept
  BY DEF GiveUp, Failed, Kept, ScreensInv, Shaped, PageFields
<1>2. ASSUME NEW d \in wire'
      PROVE  Settled(d)
  <2>1. d \in wire \/ d \in Left({c})
    BY DEF GiveUp
  <2>2. QED
    BY <1>1, <2>1, OldCalls, LeftSettled
<1>3. QED
  BY <1>1, <1>2, PageStepKeeps

LEMMA SwitchKeeps ==
  ASSUME ScreensInv, Switch
  PROVE  ScreensInv'
<1>1. PICK mode \in {"locked", "unlocked", "editing"} : vault' = [vault EXCEPT !.mode = mode]
  BY DEF Switch
<1>2. /\ DOMAIN vault' = {"mode", "entry"} /\ vault'.mode = mode
      /\ vault'.entry = vault.entry
      /\ at' = at /\ page' = page /\ wire' = wire
  BY <1>1 DEF Switch, ScreensInv, Shaped
<1>3. QED
  BY <1>2 DEF ScreensInv, Shaped, Confirmed, Added

LEMMA ScreensInductive == ScreensInv /\ [Next]_vars => ScreensInv'
<1> SUFFICES ASSUME ScreensInv, [Next]_vars
             PROVE  ScreensInv'
  OBVIOUS
<1>1. CASE Visit
  BY <1>1, VisitKeeps
<1>2. CASE (\E f \in Filters : Choose(f)) \/ Ask
  BY <1>2, ChooseKeeps
<1>3. CASE Learn \/ Arm \/ Unread
  BY <1>3, QuietKeeps
<1>4. CASE \E confirmed \in BOOLEAN : Press(confirmed)
  BY <1>4, PressKeeps
<1>5. CASE \E c \in wire : Carry(c) \/ Cut(c) \/ Take(c) \/ GiveUp(c)
  BY <1>5, CarryKeeps, CutKeeps, TakeKeeps, GiveUpKeeps
<1>6. CASE Switch
  BY <1>6, SwitchKeeps
<1>7. CASE UNCHANGED vars
  BY <1>7 DEF vars, ScreensInv, Shaped, Confirmed, Added
<1>8. QED
  BY <1>1, <1>2, <1>3, <1>4, <1>5, <1>6, <1>7 DEF Next

LEMMA ScreensInitially == Init => ScreensInv
<1> SUFFICES ASSUME Init
             PROVE  ScreensInv
  OBVIOUS
<1>1. DOMAIN page = PageFields
  BY DEF Init, Fresh, PageFields
<1>2. PICK entry \in {"none", "old"} :
        /\ \/ at.form.sends.needs = "editing if there"
           \/ entry = "none" <=> at.form.sends.does = "add"
        /\ vault = [mode |-> "locked", entry |-> entry]
  BY DEF Init
<1>3. at \in Screens /\ wire = {}
  BY DEF Init
<1>4. QED
  BY <1>1, <1>2, <1>3 DEF ScreensInv, Shaped, Confirmed, Added, Entries

(* A request() that timed out, arrived late or was sent again never stores *)
(* an entry a second time, unless the user confirmed another one.          *)
THEOREM EntriesStoredOnce == Spec => []StoredOnce
<1>1. ScreensInv => StoredOnce
  BY DEF ScreensInv, Confirmed, StoredOnce
<1>2. QED
  BY <1>1, ScreensInitially, ScreensInductive, PTL DEF Spec

\* A call that is carried out is judged by the mode there is then; no other
\* step replaces or removes anything.
LEMMA OnlyEditingReplaces ==
  ASSUME ScreensInv, [Next]_vars, vault.entry # "none",
         vault'.entry \notin {vault.entry, "twice"}
  PROVE  vault.mode = "editing"
<1>1. PICK c \in wire : Carry(c) /\ c.what # "load"
  <2>1. ASSUME Switch
        PROVE  FALSE
    BY <2>1 DEF Switch, ScreensInv, Shaped
  <2>2. CASE \E c \in wire : Carry(c)
    BY <2>2 DEF Carry
  <2>3. ASSUME vault' = vault
        PROVE  FALSE
    BY <2>3
  <2>4. QED
    BY <2>1, <2>2, <2>3
       DEF Next, vars, Visit, Learn, Choose, Ask, Arm, Unread, Press, Cut, Take, GiveUp
<1> DEFINE route == at.form.sends
<1>2. vault' = After(route, vault, c.confirmed)
  BY <1>1 DEF Carry
<1>3. KnownRoute(route)
  BY FormsKnown DEF ScreensInv, Shaped, Known
<1>4. /\ DOMAIN vault = {"mode", "entry"}
      /\ vault.entry \in Entries /\ vault.mode \in {"locked", "unlocked", "editing"}
      /\ route.does = "add" /\ route.needs = "unlocked" => vault.entry # "old"
      /\ vault.entry = "twice" => route.does = "add" /\ route.again = "asks"
  BY DEF ScreensInv, Shaped, Added
<1> HIDE DEF route
<1>5. QED
  BY <1>2, <1>3, <1>4, RouteReplaces

\* What was accepted is done, and stays so, whatever is carried out after
\* it; and no form is answered with a note of nothing.
Accepted ==
  \A c \in wire : c.what = "send" /\ c.answer \in {"ok", "none"} => vault.entry \in Done

LEMMA RouteDone ==
  ASSUME NEW r, KnownRoute(r), NEW v, DOMAIN v = {"mode", "entry"}, v.entry \in Entries,
         NEW confirmed, NEW done,
         done = CASE r.does = "nothing" -> Entries
                  [] r.does = "remove" -> {"none"}
                  [] OTHER -> {"stored", "twice"},
         Answer(r, v, confirmed) = "ok" \/ v.entry \in done
  PROVE  After(r, v, confirmed).entry \in done
<1>1. CASE Answer(r, v, confirmed) # "ok"
  BY <1>1 DEF After
<1>2. CASE Answer(r, v, confirmed) = "ok" /\ r.does = "add"
  <2>1. After(r, v, confirmed).entry
          = IF r.again \in {"asks", "another"} /\ v.entry # "none" THEN "twice" ELSE "stored"
    BY <1>2 DEF After
  <2>2. done = {"stored", "twice"}
    BY <1>2
  <2>3. QED
    BY <2>1, <2>2
<1>3. CASE Answer(r, v, confirmed) = "ok" /\ r.does # "add"
  BY <1>3 DEF After, KnownRoute
<1>4. QED
  BY <1>1, <1>2, <1>3

LEMMA AnswersNoEntry ==
  ASSUME NEW r, KnownRoute(r), NEW v, NEW confirmed
  PROVE  Answer(r, v, confirmed) # "none"
  BY DEF Answer, KnownRoute

LEMMA AcceptedKept ==
  ASSUME Accepted, at' = at, vault'.entry = vault.entry,
         \A c \in wire' : c \in wire \/ c.what # "send" \/ c.answer \notin {"ok", "none"}
  PROVE  Accepted'
  BY DEF Accepted, Done

\* A call that goes out, or is left, has no answer.
LEMMA Unanswered ==
  /\ \A what, on, confirmed : Call(what, on, confirmed).answer \notin {"ok", "none"}
  /\ \A calls, on : Asked(calls, on) =>
        \A c \in wire' : c \in calls \/ c.answer \notin {"ok", "none"}
  /\ ScreensInv => \A calls \in SUBSET wire : \A c \in Left(calls) : c.answer \notin {"ok", "none"}
<1>1. \A what, on, confirmed : Call(what, on, confirmed).answer \notin {"ok", "none"}
  BY ScreensConstants DEF Call, Entries
<1>2. \A calls, on : Asked(calls, on) =>
        \A c \in wire' : c \in calls \/ c.answer \notin {"ok", "none"}
  BY <1>1 DEF Asked
<1>3. ASSUME ScreensInv, NEW calls \in SUBSET wire, NEW c \in Left(calls)
      PROVE  c.answer \notin {"ok", "none"}
  <2>1. PICK d \in calls : c = [d EXCEPT !.waited = FALSE] /\ d.answer = None
    BY DEF Left
  <2>2. DOMAIN d = CallFields
    BY <1>3 DEF ScreensInv, Shaped
  <2>3. QED
    BY <2>1, <2>2, ScreensConstants DEF CallFields, Entries
<1>4. QED
  BY <1>1, <1>2, <1>3

LEMMA CarryAccepts ==
  ASSUME ScreensInv, Accepted, NEW c \in wire, Carry(c)
  PROVE  Accepted'
<1>1. CASE c.what = "load"
  <2>1. at' = at /\ vault' = vault
    BY <1>1 DEF Carry
  <2>2. \A d \in wire' : d \in wire \/ d.what # "send"
    BY <1>1 DEF Carry, ScreensInv, Shaped, CallFields
  <2>3. QED
    BY <2>1, <2>2, AcceptedKept
<1>2. CASE c.what = "send"
  <2> DEFINE route == at.form.sends
             answer == Answer(route, vault, c.confirmed)
             d == [c EXCEPT !.answer = answer]
  <2>1. /\ vault' = After(route, vault, c.confirmed)
        /\ at' = at
        /\ wire' = (wire \ {c}) \cup IF c.waited THEN {d} ELSE {}
    BY <1>2 DEF Carry
  <2>2. d.answer = answer
    <3>1. DOMAIN c = CallFields
      BY DEF ScreensInv, Shaped
    <3> HIDE DEF answer
    <3>2. QED
      BY <3>1 DEF CallFields
  <2>3. /\ KnownRoute(route)
        /\ DOMAIN vault = {"mode", "entry"} /\ vault.entry \in Entries
    BY FormsKnown DEF ScreensInv, Shaped, Known
  <2>4. Done = CASE route.does = "nothing" -> Entries
                 [] route.does = "remove" -> {"none"}
                 [] OTHER -> {"stored", "twice"}
    BY DEF Done
  <2>5. Done' = Done
    BY <2>1 DEF Done
  <2> HIDE DEF route, d
  <2>6. /\ answer = "ok" \/ vault.entry \in Done => vault'.entry \in Done
        /\ answer # "none"
    BY <2>1, <2>3, <2>4, RouteDone, AnswersNoEntry
  <2> HIDE DEF answer
  <2>7. QED
    BY <2>1, <2>2, <2>5, <2>6 DEF Accepted
<1>3. QED
  BY <1>1, <1>2 DEF ScreensInv, Shaped

LEMMA AcceptedInductive == ScreensInv /\ Accepted /\ [Next]_vars => Accepted'
<1> SUFFICES ASSUME ScreensInv, Accepted, [Next]_vars
             PROVE  Accepted'
  OBVIOUS
<1>1. CASE Visit
  <2>1. \A c \in wire' : c.answer \notin {"ok", "none"}
    BY <1>1, Unanswered DEF Visit
  <2>2. QED
    BY <1>1, <2>1, AcceptedKept DEF Visit
<1>2. CASE (\E f \in Filters : Choose(f)) \/ Ask
  <2>1. \A c \in wire' : c \in wire \/ c.answer \notin {"ok", "none"}
    BY <1>2, Unanswered DEF Choose, Ask
  <2>2. QED
    BY <1>2, <2>1, AcceptedKept DEF Choose, Ask
<1>3. CASE Learn \/ Arm \/ Unread
  BY <1>3, AcceptedKept DEF Learn, Arm, Unread
<1>4. CASE \E confirmed \in BOOLEAN : Press(confirmed)
  BY <1>4, Unanswered, AcceptedKept DEF Press
<1>5. CASE \E c \in wire : Carry(c)
  BY <1>5, CarryAccepts
<1>6. CASE \E c \in wire : Cut(c)
  <2>1. PICK c \in wire : Cut(c)
    BY <1>6
  <2>2. PICK rest \in {"cut", "http"} : wire' = (wire \ {c}) \cup {[c EXCEPT !.answer = rest]}
    BY <2>1 DEF Cut
  <2>3. \A d \in wire' : d \in wire \/ d.answer \notin {"ok", "none"}
    BY <2>2 DEF ScreensInv, Shaped, CallFields
  <2>4. QED
    BY <2>1, <2>3, AcceptedKept DEF Cut
<1>7. CASE \E c \in wire : Take(c)
  <2>1. PICK c \in wire : Take(c)
    BY <1>7
  <2>2. \A d \in wire' : d \in wire \ {c} \/ d.answer \notin {"ok", "none"}
    BY <2>1, Unanswered DEF Take, TakeSend, TakeLoad
  <2>3. QED
    BY <2>1, <2>2, AcceptedKept DEF Take
<1>8. CASE \E c \in wire : GiveUp(c)
  <2>1. PICK c \in wire : GiveUp(c)
    BY <1>8
  <2>2. \A d \in wire' : d \in wire \/ d.answer \notin {"ok", "none"}
    BY <2>1, Unanswered DEF GiveUp
  <2>3. QED
    BY <2>1, <2>2, AcceptedKept DEF GiveUp
<1>9. CASE Switch
  BY <1>9, AcceptedKept DEF Switch, ScreensInv, Shaped
<1>10. CASE UNCHANGED vars
  BY <1>10, AcceptedKept DEF vars
<1>11. QED
  BY <1>1, <1>2, <1>3, <1>4, <1>5, <1>6, <1>7, <1>8, <1>9, <1>10 DEF Next

(* requireEditMode judges a call when it is carried out: whatever the      *)
(* mirror said when the form was pressed, and however late the call comes, *)
(* what the vault has is replaced or removed in edit mode only; and a form *)
(* that closes as done has done what it sent.                              *)
THEOREM FormsAreHonest == Spec => HonestForms
<1>1. Init => Accepted
  BY DEF Init, Accepted
<1>2. ASSUME ScreensInv, Accepted, NEW c \in Waiting, c.what = "send", Take(c),
             page'.note = "none"
      PROVE  vault.entry \in Done
  <2>1. TakeSend(c) /\ c \in wire
    BY <1>2 DEF Take, Waiting
  <2>2. c.answer \in {"ok", "none"}
    BY <1>2, <2>1 DEF TakeSend, ScreensInv, Shaped, PageFields
  <2>3. QED
    BY <1>2, <2>1, <2>2 DEF Accepted
<1>3. ScreensInv /\ Accepted /\ [Next]_vars =>
        [/\ vault.entry # "none" /\ vault'.entry \notin {vault.entry, "twice"}
              => vault.mode = "editing"
         /\ \A c \in Waiting :
              c.what = "send" /\ Take(c) /\ page'.note = "none" => vault.entry \in Done]_vars
  BY <1>2, OnlyEditingReplaces
<1>4. QED
  BY <1>1, <1>3, ScreensInitially, ScreensInductive, AcceptedInductive, PTL
     DEF Spec, HonestForms
---------------------------------------------------------------------------
(* What a listing shows.  Who waits for one answer at a time waits for one *)
(* under the filter chosen; nothing else is on its way that could change   *)
(* what is shown, unless the vault was changed by a call given up.         *)
Still == \A c \in Waiting : c.what # "load" /\ c.answer # "ok"
Current ==
  /\ page.shows.on = page.filter
  /\ page.shows.entry = vault.entry \/ page.shows.entry = "cut" \/ at.view.empty
Patient == ~page.hasty /\ at.view.asks = "by itself"
Read(c) == c.what = "load" /\ c.answer \notin {None, "locked", "http", "cut"}

Listed ==
  Patient =>
    /\ \A c, d \in Waiting : c = d
    /\ \A c \in Waiting : c.on = page.filter
    /\ \A c \in Waiting : Read(c) => c.answer = vault.entry \/ page.behind \/ at.view.empty
    /\ Still /\ ~page.behind /\ ~page.failed /\ page.shows # None => Current

\* One load is under way, and no answer has come.
LEMMA LoadLists ==
  ASSUME NEW c, Patient' => Waiting' = {c}, c.what = "load", c.answer = None,
         c.on = page'.filter
  PROVE  Listed'
  BY DEF Listed, Still, Read

LEMMA LoadWaits ==
  ASSUME NEW calls, NEW on, Asked(calls, on), \A c \in calls : ~c.waited
  PROVE  /\ Waiting' = {Call("load", on, FALSE)}
         /\ Call("load", on, FALSE).what = "load" /\ Call("load", on, FALSE).on = on
         /\ Call("load", on, FALSE).answer = None
  BY DEF Waiting, Asked, Call

LEMMA VisitLists ==
  ASSUME ScreensInv, Visit
  PROVE  Listed'
<1>1. CASE at.view.asks = "by itself"
  <2>1. Asked(Left(wire), AllFilters) /\ page'.filter = AllFilters
    BY <1>1 DEF Visit, Fresh
  <2>2. \A c \in Left(wire) : ~c.waited
    BY LeftCalls DEF ScreensInv, Shaped
  <2>3. QED
    BY <2>1, <2>2, LoadWaits, LoadLists
<1>2. CASE at.view.asks # "by itself"
  BY <1>2 DEF Visit, Listed, Patient
<1>3. QED
  BY <1>1, <1>2

LEMMA ChooseLists ==
  ASSUME ScreensInv, NEW f, Choose(f) \/ Ask
  PROVE  Listed'
<1>1. CASE at.view.asks # "by itself"
  BY <1>1 DEF Choose, Ask, Listed, Patient
<1>2. CASE at.view.asks = "by itself" /\ Waiting # {}
  BY <1>2 DEF Choose, Ask, Listed, Patient, ScreensInv, Shaped, PageFields
<1>3. CASE at.view.asks = "by itself" /\ Waiting = {}
  <2>1. Asked(wire, f) /\ page'.filter = f
    BY <1>3 DEF Choose, Ask, ScreensInv, Shaped, PageFields
  <2>2. \A c \in wire : ~c.waited
    BY <1>3 DEF Waiting
  <2>3. QED
    BY <2>1, <2>2, LoadWaits, LoadLists
<1>4. QED
  BY <1>1, <1>2, <1>3

LEMMA QuietLists ==
  ASSUME ScreensInv, Listed, Learn \/ Arm \/ Unread
  PROVE  Listed'
<1>1. /\ page'.hasty = page.hasty /\ page'.filter = page.filter /\ page'.behind = page.behind
      /\ page'.failed = page.failed /\ page'.shows = page.shows
      /\ at' = at /\ wire' = wire /\ vault' = vault
  BY DEF Learn, Arm, Unread, ScreensInv, Shaped, PageFields
<1>2. QED
  BY <1>1 DEF Listed, Patient, Still, Current, Read, Waiting

LEMMA SwitchLists ==
  ASSUME ScreensInv, Listed, Switch
  PROVE  Listed'
<1>1. /\ vault'.entry = vault.entry
      /\ at' = at /\ wire' = wire /\ page' = page
  BY DEF Switch, ScreensInv, Shaped
<1>2. QED
  BY <1>1 DEF Listed, Patient, Still, Current, Read, Waiting

LEMMA PressLists ==
  ASSUME ScreensInv, Listed, NEW confirmed, Press(confirmed)
  PROVE  Listed'
<1> DEFINE c == Call("send", page.filter, confirmed)
<1>1. /\ page'.hasty = (page.hasty \/ Waiting # {})
      /\ page'.filter = page.filter /\ page'.behind = page.behind
      /\ page'.failed = page.failed /\ page'.shows = page.shows
      /\ at' = at /\ vault' = vault /\ wire' = wire \cup {c}
  BY DEF Press, ScreensInv, Shaped, PageFields
<1>2. c.what = "send" /\ c.on = page.filter /\ c.answer = None
  BY DEF Call
<1> HIDE DEF c
<1>3. SUFFICES ASSUME Patient'
               PROVE  Listed'
  BY DEF Listed
<1>4. Patient /\ Waiting = {}
  BY <1>1, <1>3 DEF Patient
<1>5. Waiting' \subseteq {c}
  BY <1>1, <1>4 DEF Waiting
<1>6. page.shows # None /\ ~page.behind /\ ~page.failed => Current
  BY <1>4 DEF Listed, Still
<1>7. Still' /\ ~page'.behind /\ ~page'.failed /\ page'.shows # None => Current'
  BY <1>1, <1>6 DEF Current
<1>8. QED
  BY <1>1, <1>2, <1>5, <1>7 DEF Listed, Read
\* Patient, one waits for a single call.
LEMMA OneWaiting ==
  ASSUME Listed, Patient, NEW c \in wire, c.waited
  PROVE  Waiting = {c} /\ c.on = page.filter
  BY DEF Listed, Waiting

LEMMA CarryLists ==
  ASSUME ScreensInv, Listed, NEW c \in wire, Carry(c)
  PROVE  Listed'
<1> DEFINE answer == IF c.what = "load" THEN Listing(at.view.empty, vault)
                     ELSE Answer(at.form.sends, vault, c.confirmed)
           d == [c EXCEPT !.answer = answer]
<1>1. /\ vault' = IF c.what = "load" THEN vault ELSE After(at.form.sends, vault, c.confirmed)
      /\ wire' = (wire \ {c}) \cup IF c.waited THEN {d} ELSE {}
      /\ page' = [page EXCEPT !.behind = @ \/ (~c.waited /\ c.what = "send")]
      /\ at' = at
      /\ c.answer = None
  BY DEF Carry
<1>2. /\ page'.hasty = page.hasty /\ page'.filter = page.filter
      /\ page'.failed = page.failed /\ page'.shows = page.shows
      /\ page'.behind = (page.behind \/ (~c.waited /\ c.what = "send"))
  BY <1>1 DEF ScreensInv, Shaped, PageFields
<1>3. /\ d.waited = c.waited /\ d.on = c.on /\ d.what = c.what /\ d.answer = answer
  <2>1. DOMAIN c = CallFields
    BY DEF ScreensInv, Shaped
  <2> HIDE DEF answer
  <2>2. QED
    BY <2>1 DEF CallFields
<1>4. answer = IF c.what = "load" THEN Listing(at.view.empty, vault)
               ELSE Answer(at.form.sends, vault, c.confirmed)
  OBVIOUS
<1>5. c.what \in {"load", "send"}
  BY DEF ScreensInv, Shaped
<1> HIDE DEF answer, d
<1>6. SUFFICES ASSUME Patient'
               PROVE  Listed'
  BY DEF Listed
<1>7. Patient
  BY <1>1, <1>2, <1>6 DEF Patient
<1>8. CASE c.waited
  <2>1. Waiting = {c} /\ c.on = page.filter
    BY <1>7, <1>8, OneWaiting
  <2>2. Waiting' = {d} /\ d.on = page'.filter
    BY <1>1, <1>2, <1>3, <1>8, <2>1 DEF Waiting
  <2>3. CASE c.what = "load"
    <3>1. Read(d) => d.answer = vault'.entry \/ at'.view.empty
      BY <1>1, <1>3, <1>4, <2>3 DEF Read, Listing
    <3>2. ~Still'
      BY <1>3, <2>2, <2>3 DEF Still
    <3>3. QED
      BY <2>2, <3>1, <3>2 DEF Listed, Read
  <2>4. CASE c.what # "load"
    <3>1. ~Read(d)
      BY <1>3, <2>4 DEF Read
    <3>2. ASSUME Still'
          PROVE  vault' = vault
      <4>1. d.answer # "ok"
        BY <2>2, <3>2 DEF Still
      <4>2. Answer(at.form.sends, vault, c.confirmed) # "ok"
        BY <1>3, <1>4, <2>4, <4>1
      <4>3. QED
        BY <1>1, <2>4, <4>2 DEF After
    <3>3. Still
      BY <1>1, <2>1, <2>4, ScreensConstants DEF Still
    <3>4. Still' /\ ~page'.behind /\ ~page'.failed /\ page'.shows # None => Current'
      BY <1>1, <1>2, <1>7, <3>2, <3>3 DEF Listed, Current
    <3>5. QED
      BY <2>2, <3>1, <3>4 DEF Listed, Read
  <2>5. QED
    BY <2>3, <2>4
<1>9. CASE ~c.waited
  <2>1. Waiting' = Waiting
    BY <1>1, <1>9 DEF Waiting
  <2>2. CASE c.what = "load"
    <3>1. vault' = vault /\ (page'.behind <=> page.behind)
      BY <1>1, <1>2, <2>2
    <3>2. Still' => Still
      BY <2>1 DEF Still
    <3>3. QED
      BY <1>1, <1>2, <1>7, <2>1, <3>1, <3>2 DEF Listed, Current, Read
  <2>3. CASE c.what = "send"
    <3>1. page'.behind
      BY <1>2, <1>9, <2>3
    <3>2. QED
      BY <1>2, <1>7, <2>1, <3>1 DEF Listed
  <2>4. QED
    BY <1>5, <2>2, <2>3
<1>10. QED
  BY <1>8, <1>9

LEMMA CutLists ==
  ASSUME ScreensInv, Listed, NEW c \in wire, Cut(c)
  PROVE  Listed'
<1>1. PICK rest \in {"cut", "http"} : wire' = (wire \ {c}) \cup {[c EXCEPT !.answer = rest]}
  BY DEF Cut
<1> DEFINE d == [c EXCEPT !.answer = rest]
<1>2. d.waited = c.waited /\ d.on = c.on /\ d.what = c.what /\ d.answer = rest
  BY DEF ScreensInv, Shaped, CallFields
<1> HIDE DEF d
<1>3. at' = at /\ page' = page /\ vault' = vault /\ c.waited
  BY DEF Cut
<1>4. SUFFICES ASSUME Patient'
               PROVE  Listed'
  BY DEF Listed
<1>5. Patient
  BY <1>3, <1>4 DEF Patient
<1>6. Waiting = {c} /\ c.on = page.filter
  BY <1>3, <1>5, OneWaiting
<1>7. Waiting' = {d} /\ ~Read(d)
  BY <1>1, <1>2, <1>3, <1>6 DEF Waiting, Read, d
<1>8. Still' => Still
  <2>1. c.answer # "ok"
    BY DEF Cut, Entries, Refusals
  <2>2. QED
    BY <1>2, <1>6, <1>7, <2>1 DEF Still
<1>9. Still' /\ ~page'.behind /\ ~page'.failed /\ page'.shows # None => Current'
  BY <1>3, <1>5, <1>8 DEF Listed, Current
<1>10. QED
  BY <1>2, <1>3, <1>6, <1>7, <1>9 DEF Listed

LEMMA TakeLists ==
  ASSUME ScreensInv, Listed, NEW c \in wire, Take(c)
  PROVE  Listed'
<1>1. SUFFICES ASSUME Patient'
               PROVE  Listed'
  BY DEF Listed
<1>2. Patient
  BY <1>1 DEF Take, TakeSend, TakeLoad, Failed, Patient, ScreensInv, Shaped, PageFields
<1>3. Waiting = {c} /\ c.on = page.filter
  BY <1>2, OneWaiting DEF Take
<1>4. \A d \in wire \ {c} : ~d.waited
  BY <1>3 DEF Waiting
<1>5. vault' = vault /\ at' = at
  BY DEF Take
<1>6. CASE c.what = "load" /\ TakeLoad(c)
  <2>1. Waiting' = {}
    BY <1>4, <1>6 DEF TakeLoad, Waiting
  <2>2. CASE c.answer \in {"locked", "http"}
    BY <1>6, <2>1, <2>2 DEF TakeLoad, Failed, Listed, ScreensInv, Shaped, PageFields
  <2>3. CASE c.answer \notin {"locked", "http"}
    <3>1. Read(c) \/ c.answer = "cut"
      BY <1>6, <2>3 DEF Take, Read
    <3>2. c.answer = vault.entry \/ c.answer = "cut" \/ page.behind \/ at.view.empty
      BY <1>2, <1>3, <3>1 DEF Listed
    <3>3. /\ page'.shows = [on |-> c.on, entry |-> c.answer]
          /\ page'.filter = page.filter /\ page'.behind = page.behind
      BY <1>6, <2>3 DEF TakeLoad, ScreensInv, Shaped, PageFields
    <3>4. ~page'.behind => Current'
      BY <1>3, <1>5, <3>2, <3>3 DEF Current
    <3>5. QED
      BY <2>1, <3>4 DEF Listed
  <2>4. QED
    BY <2>2, <2>3
<1>7. CASE c.what = "send" /\ TakeSend(c)
  <2>1. /\ page'.filter = page.filter /\ page'.shows = page.shows
        /\ page'.failed = page.failed
        /\ page'.behind = IF c.answer = "ok" THEN ~at.form.relists ELSE page.behind
    BY <1>7 DEF TakeSend, ScreensInv, Shaped, PageFields
  <2>2. CASE c.answer = "ok" /\ at.form.relists
    <3>1. Asked(wire \ {c}, c.on)
      BY <1>7, <2>2 DEF TakeSend
    <3>2. /\ Waiting' = {Call("load", c.on, FALSE)}
          /\ Call("load", c.on, FALSE).what = "load"
          /\ Call("load", c.on, FALSE).on = page'.filter
          /\ Call("load", c.on, FALSE).answer = None
      BY <1>3, <1>4, <2>1, <3>1, LoadWaits
    <3>3. QED
      BY <3>2, LoadLists
  <2>3. CASE ~(c.answer = "ok" /\ at.form.relists)
    <3>1. Waiting' = {}
      BY <1>4, <1>7, <2>3 DEF TakeSend, Waiting
    <3>2. CASE c.answer = "ok"
      BY <2>1, <2>3, <3>1, <3>2 DEF Listed
    <3>3. CASE c.answer # "ok"
      <4>1. Still
        BY <1>3, <1>7, <3>3 DEF Still
      <4>2. ~page'.behind /\ ~page'.failed /\ page'.shows # None => Current'
        BY <1>2, <1>5, <2>1, <3>3, <4>1 DEF Listed, Current
      <4>3. QED
        BY <3>1, <4>2 DEF Listed
    <3>4. QED
      BY <3>2, <3>3
  <2>4. QED
    BY <2>2, <2>3
<1>8. QED
  BY <1>6, <1>7 DEF Take

LEMMA GiveUpLists ==
  ASSUME ScreensInv, Listed, NEW c \in wire, GiveUp(c)
  PROVE  Listed'
<1>1. SUFFICES ASSUME Patient'
               PROVE  Listed'
  BY DEF Listed
<1>2. Patient
  BY <1>1 DEF GiveUp, Failed, Patient, ScreensInv, Shaped, PageFields
<1>3. Waiting = {c}
  BY <1>2, OneWaiting DEF GiveUp
<1>4. Waiting' = {}
  <2>1. \A d \in wire \ {c} : ~d.waited
    BY <1>3 DEF Waiting
  <2>2. \A d \in Left({c}) : ~d.waited
    <3>1. \A d \in Left({c}) : d = [c EXCEPT !.waited = FALSE]
      BY DEF Left
    <3>2. DOMAIN c = CallFields
      BY DEF ScreensInv, Shaped
    <3>3. QED
      BY <3>1, <3>2 DEF CallFields
  <2>3. QED
    BY <2>1, <2>2 DEF GiveUp, Waiting
<1>5. CASE c.what = "load"
  BY <1>4, <1>5 DEF GiveUp, Failed, Listed, ScreensInv, Shaped, PageFields
<1>6. CASE c.what # "load"
  <2>1. /\ page'.filter = page.filter /\ page'.shows = page.shows
        /\ page'.failed = page.failed
        /\ page'.behind = (page.behind \/ c.answer # None)
        /\ vault' = vault /\ at' = at
    BY <1>6 DEF GiveUp, ScreensInv, Shaped, PageFields
  <2>2. c.answer = None => Still
    BY <1>3, <1>6, ScreensConstants DEF Still
  <2>3. ~page'.behind /\ ~page'.failed /\ page'.shows # None => Current'
    BY <1>2, <2>1, <2>2 DEF Listed, Current
  <2>4. QED
    BY <1>4, <2>3 DEF Listed
<1>7. QED
  BY <1>5, <1>6

LEMMA ListedInductive == ScreensInv /\ Listed /\ [Next]_vars => Listed'
<1> SUFFICES ASSUME ScreensInv, Listed, [Next]_vars
             PROVE  Listed'
  OBVIOUS
<1>1. CASE Visit
  BY <1>1, VisitLists
<1>2. CASE (\E f \in Filters : Choose(f)) \/ Ask
  BY <1>2, ChooseLists
<1>3. CASE Learn \/ Arm \/ Unread
  BY <1>3, QuietLists
<1>4. CASE \E confirmed \in BOOLEAN : Press(confirmed)
  BY <1>4, PressLists
<1>5. CASE \E c \in wire : Carry(c) \/ Cut(c) \/ Take(c) \/ GiveUp(c)
  BY <1>5, CarryLists, CutLists, TakeLists, GiveUpLists
<1>6. CASE Switch
  BY <1>6, SwitchLists
<1>7. CASE UNCHANGED vars
  BY <1>7 DEF vars, Listed, Patient, Still, Current, Read, Waiting
<1>8. QED
  BY <1>1, <1>2, <1>3, <1>4, <1>5, <1>6, <1>7 DEF Next

(* Once all answers are in, a listing shows the filter chosen and what the *)
(* vault holds, though loads and sends were overtaken, given up and        *)
(* carried out later, and the server restarted; ListingTrue names what is  *)
(* not promised.                                                           *)
THEOREM ListingsTrue == Spec => []ListingTrue
<1>1. Init => Listed
  <2> SUFFICES ASSUME Init
               PROVE  Listed
    OBVIOUS
  <2>1. page.shows = None /\ Waiting = {}
    BY DEF Init, Fresh, Waiting
  <2>2. QED
    BY <2>1 DEF Listed
<1>2. ASSUME Listed
      PROVE  ListingTrue
  <2>1. wire = {} => Still
    BY DEF Still, Waiting
  <2>2. QED
    BY <1>2, <2>1 DEF Listed, Patient, Current, ListingTrue
<1>3. QED
  BY <1>1, <1>2, ScreensInitially, ScreensInductive, ListedInductive, PTL DEF Spec
=============================================================================
