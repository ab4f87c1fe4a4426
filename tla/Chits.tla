------------------------------- MODULE Chits -------------------------------
(***************************************************************************)
(* The chit-fund register: ChitUC of use-cases.ts, the pure register of    *)
(* chit-book.ts, the withdrawal schedules and their tables.  A request is  *)
(* one SQLite transaction, with nothing of another request in between.     *)
(*                                                                         *)
(* Abstractions: a date is a month, an amount a whole number; the label of *)
(* a chit is left out, and its organisation is taken up to the case and    *)
(* the spaces chitIdFor ignores; its face value and end date, which no     *)
(* figure of worth reads, are left out.  A refused request changes nothing *)
(* and is no step.                                                         *)
(***************************************************************************)
EXTENDS Naturals, FiniteSets, FiniteSetsExt, Functions

CONSTANTS
  Openings,     \* the chits entered: org, start, months, type, schedule
  ChitEdits,    \* the edit forms: new values by field
  Emis,         \* the instalments entered: date, amount, mode, to whom
  Draws,        \* the draws entered: date, amount
  Tables,       \* the payout tables entered: month to amount
  Labels,       \* the names of schedules
  MaxEmis,      \* bound on the instalments of a chit
  LastMonth,    \* bound on the clock
  None          \* no schedule, no draw, nothing agreed

Terms == {"org", "start", "months", "type", "schedule"}
ChitId == {<<t.org, t.start>> : t \in Openings}

VARIABLES
  chits,      \* the chits by id: the terms, the draw and the instalments
  schedules,  \* the payout tables by label
  mode,       \* the vault: locked, unlocked, or unlocked in edit mode
  now         \* today's month

vars == <<chits, schedules, mode, now>>
---------------------------------------------------------------------------
Unlocked == mode # "locked"
Editing == mode = "editing"

(* The figures of the register.                                            *)
PaidBy(chit, asOf) == {e \in chit.emis : e.date <= asOf}
Total(emis) == MapThenSumSet(LAMBDA e : e.amount, emis)
Elapsed(chit, asOf) ==
  LET since == IF asOf >= chit.start THEN asOf - chit.start ELSE 0
  IN  IF since <= chit.months THEN since ELSE chit.months
Agreed(label, month) ==
  IF label \in DOMAIN schedules /\ month \in DOMAIN schedules[label]
  THEN schedules[label][month] ELSE None
View(chit, asOf) ==
  LET paid == Total(PaidBy(chit, asOf))
  IN  [org |-> chit.org,
       status |-> chit.status,
       paid |-> paid,
       worth |-> IF chit.status = "WITHDRAWN" THEN 0 ELSE paid,
       payout |-> IF chit.type # "CONSTANT" THEN None
                  ELSE Agreed(chit.schedule, Elapsed(chit, asOf))]

(* The register under a filter on organisations; none means all of them.   *)
Listed(orgs) ==
  {id \in DOMAIN chits : orgs # {} => View(chits[id], now).org \in orgs}
TotalWorth(orgs) ==
  MapThenSumSet(LAMBDA id : View(chits[id], now).worth,
                {id \in Listed(orgs) : chits[id].status = "ACTIVE"})
\* What net worth counts for a chit.
Carried(id) == View(chits[id], now).worth

(* Two recordings are one instalment when date, amount and mode agree.     *)
Key(e) == <<e.date, e.amount, e.mode>>
\* Faults: a month takes one instalment; whom it was paid to tells them apart.
SameMonth(e, f) == e.date = f.date
SameReceipt(e, f) == e = f
Same(e, f) == Key(e) = Key(f)
---------------------------------------------------------------------------
SaveChit(id, chit) ==
  /\ chits' = [i \in DOMAIN chits \cup {id} |-> IF i = id THEN chit ELSE chits[i]]
  /\ UNCHANGED <<schedules, mode, now>>

(* The id is made of the terms, and the aggregate is written whole: opening *)
(* a chit again starts it over.                                            *)
NewChit(t) ==
  [org |-> t.org, start |-> t.start, months |-> t.months, type |-> t.type,
   schedule |-> t.schedule, status |-> "ACTIVE", drawn |-> None, emis |-> {}]
Open(t) ==
  /\ Unlocked
  /\ t.months > 0
  /\ SaveChit(<<t.org, t.start>>, NewChit(t))

WithEmi(chit, p) == [chit EXCEPT !.emis = {e \in @ : ~Same(e, p)} \cup {p}]
RecordEmi(id, p) ==
  /\ Unlocked
  /\ p.amount > 0
  /\ Cardinality(chits[id].emis) < MaxEmis \/ \E e \in chits[id].emis : Same(e, p)
  /\ SaveChit(id, WithEmi(chits[id], p))

Withdraw(id, draw) ==
  /\ Editing
  /\ SaveChit(id, [chits[id] EXCEPT !.status = "WITHDRAWN", !.drawn = draw])

\* Fault: the draw stays.
SetStatusOnly(id) == Editing /\ SaveChit(id, [chits[id] EXCEPT !.status = "ACTIVE"])
\* Back to active: a draw recorded in error.
SetStatus(id) ==
  /\ Editing
  /\ SaveChit(id, [chits[id] EXCEPT !.status = "ACTIVE", !.drawn = None])

\* A schedule set to nothing keeps the one there was.
Edited(chit, e) ==
  [f \in DOMAIN chit |-> IF f \in DOMAIN e /\ e[f] # None THEN e[f] ELSE chit[f]]
Edit(id, e) ==
  /\ Editing
  /\ "months" \in DOMAIN e => e.months > 0
  /\ SaveChit(id, Edited(chits[id], e))

Delete(id) ==
  /\ Editing
  /\ chits' = Restrict(chits, DOMAIN chits \ {id})
  /\ UNCHANGED <<schedules, mode, now>>
Always(label) == TRUE  \* Fault: saving is never gated.
Replaceable(label) == label \in DOMAIN schedules => Editing
SaveSchedule(label, table) ==
  /\ Unlocked
  /\ Replaceable(label)
  /\ 0 \notin DOMAIN table
  /\ schedules' = [l \in DOMAIN schedules \cup {label} |->
                     IF l = label THEN table ELSE schedules[l]]
  /\ UNCHANGED <<chits, mode, now>>

DeleteSchedule(label) ==
  /\ Editing
  /\ \A id \in DOMAIN chits : chits[id].schedule # label
  /\ schedules' = Restrict(schedules, DOMAIN schedules \ {label})
  /\ UNCHANGED <<chits, mode, now>>

Session ==
  /\ mode' \in {"locked", "unlocked", "editing"} \ {mode}
  /\ UNCHANGED <<chits, schedules, now>>

NextMonth ==
  /\ now < LastMonth
  /\ now' = now + 1
  /\ UNCHANGED <<chits, schedules, mode>>

Init ==
  /\ chits = [id \in {} |-> id]
  /\ schedules = [l \in {} |-> l]
  /\ mode = "locked"
  /\ now = 0

Next ==
  \/ \E t \in Openings : Open(t)
  \/ \E id \in DOMAIN chits :
       \/ \E p \in Emis : RecordEmi(id, p)
       \/ \E draw \in Draws : Withdraw(id, draw)
       \/ SetStatus(id)
       \/ \E e \in ChitEdits : Edit(id, e)
       \/ Delete(id)
  \/ \E l \in Labels :
       \/ \E table \in Tables : SaveSchedule(l, table)
       \/ DeleteSchedule(l)
  \/ Session
  \/ NextMonth

Spec == Init /\ [][Next]_vars
---------------------------------------------------------------------------
(* The type of the register.  A chit is withdrawn exactly when the draw is *)
(* on record, whatever order it was drawn, edited and put back in.         *)
Values(f) == {t[f] : t \in Openings} \cup {e[f] : e \in {x \in ChitEdits : f \in DOMAIN x}}
IsChit(chit) ==
  /\ DOMAIN chit = Terms \cup {"status", "drawn", "emis"}
  /\ \A f \in Terms : chit[f] \in Values(f)
  /\ chit.emis \subseteq Emis
  /\ IF chit.status = "ACTIVE" THEN chit.drawn = None
     ELSE chit.status = "WITHDRAWN" /\ chit.drawn \in Draws
ChitsTypeOK ==
  /\ DOMAIN chits \subseteq ChitId
  /\ \A id \in DOMAIN chits : IsChit(chits[id])
  /\ DOMAIN schedules \subseteq Labels
  /\ \A l \in DOMAIN schedules : schedules[l] \in Tables
  /\ mode \in {"locked", "unlocked", "editing"}
  /\ now \in 0..LastMonth

(* Net worth and the register agree, under every filter: each counts every *)
(* instalment of a chit not drawn once, however often it was recorded.     *)
ChitsWorth ==
  /\ TotalWorth({}) = MapThenSumSet(Carried, DOMAIN chits)
  /\ TotalWorth({}) = MapThenSumSet(LAMBDA o : TotalWorth({o}), {chits[id].org : id \in DOMAIN chits})
  /\ \A id \in DOMAIN chits :
       Carried(id) = IF chits[id].status = "WITHDRAWN" THEN 0
                     ELSE MapThenSumSet(LAMBDA k : k[2], {Key(e) : e \in PaidBy(chits[id], now)})

(* What a chit would pay out this month never changes behind its back:     *)
(* outside edit mode, only when it is opened again, or when the schedule it *)
(* names comes into being.                                                 *)
Payout(id) == View(chits[id], now).payout
PayoutStable ==
  [][~Editing /\ now' = now =>
       \A id \in DOMAIN chits \cap DOMAIN chits' :
         \/ Payout(id)' = Payout(id)
         \/ Payout(id) = None
         \/ \E t \in Openings : Open(t) /\ id = <<t.org, t.start>>]_vars

(* The register is a passbook in which opening a chit again empties it.    *)
Book == INSTANCE Passbook WITH
          Accounts <- ChitId,
          Payments <- {Key(e) : e \in Emis},
          Reopens <- TRUE,
          paid <- [id \in DOMAIN chits |-> {Key(e) : e \in chits[id].emis}],
          editing <- Editing
ChitsKept == Book!Spec
=============================================================================
