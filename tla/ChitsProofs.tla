---------------------------- MODULE ChitsProofs ----------------------------
(***************************************************************************)
(* What Chits promises for all openings, edits, schedules and payments:    *)
(* its types (status and draw are one story), that it implements Passbook, *)
(* that a payout never changes behind the holder's back, and that net      *)
(* worth and the register agree on what the chits hold.                    *)
(*                                                                         *)
(* The type invariant is inductive and all of it rests on it: an edit stays*)
(* within the terms of a chit, so it reaches neither the instalments nor   *)
(* the draw, and every chit that a step names is one that can be opened.   *)
(***************************************************************************)
EXTENDS Chits, SumTheorems

(* An edit form has fields of the terms only; amounts are whole; what      *)
(* marks a chit that was not drawn is no draw.                             *)
ChitsConstants ==
  /\ \A e \in ChitEdits : DOMAIN e \subseteq Terms
  /\ \A t \in Openings : DOMAIN t = Terms
  /\ LastMonth \in Nat
  /\ None \notin Draws
---------------------------------------------------------------------------
\* What a saved chit does to the book.
LEMMA SavedChit ==
  ASSUME NEW id, NEW chit, SaveChit(id, chit)
  PROVE  /\ DOMAIN chits' = DOMAIN chits \cup {id}
         /\ chits'[id] = chit
         /\ \A i \in DOMAIN chits \ {id} : chits'[i] = chits[i]
         /\ schedules' = schedules /\ mode' = mode /\ now' = now
  BY DEF SaveChit

\* A chit of the right type saved under one of the ids keeps the types.
LEMMA SavingKeepsTypes ==
  ASSUME ChitsTypeOK, NEW id \in ChitId, NEW chit, IsChit(chit), SaveChit(id, chit)
  PROVE  ChitsTypeOK'
<1>1. DOMAIN chits' \subseteq ChitId
  BY SavedChit DEF ChitsTypeOK
<1>2. ASSUME NEW i \in DOMAIN chits'
      PROVE  IsChit(chits'[i])
  <2>1. CASE i = id
    BY <2>1, SavedChit
  <2>2. CASE i # id
    <3>1. DOMAIN chits' = DOMAIN chits \cup {id}
      BY SavedChit
    <3>2. i \in DOMAIN chits \ {id}
      BY <2>2, <3>1
    <3>3. chits'[i] = chits[i]
      BY <3>2, SavedChit
    <3>4. QED
      BY <3>2, <3>3 DEF ChitsTypeOK
  <2>3. QED
    BY <2>1, <2>2
<1>3. QED
  BY <1>1, <1>2, SavedChit DEF ChitsTypeOK, IsChit

\* A chit as it is opened.
LEMMA NewChitTyped ==
  ASSUME ChitsConstants, NEW t \in Openings
  PROVE  IsChit(NewChit(t)) /\ <<t.org, t.start>> \in ChitId
<1>1. DOMAIN NewChit(t) = Terms \cup {"status", "drawn", "emis"}
  BY DEF NewChit, Terms
<1>2. \A f \in Terms : NewChit(t)[f] = t[f]
  BY DEF NewChit, Terms
<1>3. \A f \in Terms : NewChit(t)[f] \in Values(f)
  BY <1>2 DEF Values
<1>4. QED
  BY <1>1, <1>3 DEF NewChit, IsChit, ChitId

\* An instalment recorded, a draw and its undoing leave the terms.
LEMMA UpdatedTyped ==
  ASSUME NEW chit, IsChit(chit)
  PROVE  /\ \A p \in Emis : IsChit(WithEmi(chit, p))
         /\ \A draw \in Draws : IsChit([chit EXCEPT !.status = "WITHDRAWN", !.drawn = draw])
         /\ IsChit([chit EXCEPT !.status = "ACTIVE", !.drawn = None])
  BY DEF IsChit, WithEmi, Terms

\* An edit changes terms, to values an opening or an edit has.
LEMMA EditedTyped ==
  ASSUME ChitsConstants, NEW chit, IsChit(chit), NEW e \in ChitEdits
  PROVE  IsChit(Edited(chit, e)) /\ Edited(chit, e).emis = chit.emis
<1>1. /\ DOMAIN Edited(chit, e) = DOMAIN chit
      /\ \A f \in DOMAIN chit : Edited(chit, e)[f] = IF f \in DOMAIN e /\ e[f] # None THEN e[f]
                                                     ELSE chit[f]
  BY DEF Edited
<1>2. \A f \in {"status", "drawn", "emis"} : f \in DOMAIN chit /\ f \notin DOMAIN e
  BY DEF IsChit, ChitsConstants, Terms
<1>3. \A f \in {"status", "drawn", "emis"} : Edited(chit, e)[f] = chit[f]
  BY <1>1, <1>2
<1>4. ASSUME NEW f \in Terms
      PROVE  Edited(chit, e)[f] \in Values(f)
  <2>1. chit[f] \in Values(f) /\ f \in DOMAIN chit
    BY DEF IsChit
  <2>2. f \in DOMAIN e => e[f] \in Values(f)
    BY DEF Values
  <2>3. QED
    BY <1>1, <2>1, <2>2
<1>5. QED
  BY <1>1, <1>3, <1>4 DEF IsChit

LEMMA ChitsTypesInductive ==
  ASSUME ChitsConstants, ChitsTypeOK, [Next]_vars
  PROVE  ChitsTypeOK'
<1>1. ASSUME NEW t \in Openings, Open(t)
      PROVE  ChitsTypeOK'
  BY <1>1, NewChitTyped, SavingKeepsTypes DEF Open
<1>2. ASSUME NEW id \in DOMAIN chits, NEW p \in Emis, RecordEmi(id, p)
      PROVE  ChitsTypeOK'
  BY <1>2, UpdatedTyped, SavingKeepsTypes DEF RecordEmi, ChitsTypeOK
<1>3. ASSUME NEW id \in DOMAIN chits, NEW draw \in Draws, Withdraw(id, draw)
      PROVE  ChitsTypeOK'
  BY <1>3, UpdatedTyped, SavingKeepsTypes DEF Withdraw, ChitsTypeOK
<1>4. ASSUME NEW id \in DOMAIN chits, SetStatus(id)
      PROVE  ChitsTypeOK'
  BY <1>4, UpdatedTyped, SavingKeepsTypes DEF SetStatus, ChitsTypeOK
<1>5. ASSUME NEW id \in DOMAIN chits, NEW e \in ChitEdits, Edit(id, e)
      PROVE  ChitsTypeOK'
  BY <1>5, EditedTyped, SavingKeepsTypes DEF Edit, ChitsTypeOK
<1>6. ASSUME NEW id \in DOMAIN chits, Delete(id)
      PROVE  ChitsTypeOK'
  BY <1>6 DEF Delete, ChitsTypeOK, Restrict, IsChit
<1>7. ASSUME NEW l \in Labels, NEW table \in Tables, SaveSchedule(l, table)
      PROVE  ChitsTypeOK'
  BY <1>7 DEF SaveSchedule, ChitsTypeOK, IsChit
<1>8. ASSUME NEW l \in Labels, DeleteSchedule(l)
      PROVE  ChitsTypeOK'
  BY <1>8 DEF DeleteSchedule, ChitsTypeOK, Restrict, IsChit
<1>9. CASE Session \/ NextMonth \/ UNCHANGED vars
  <2>1. chits' = chits /\ schedules' = schedules
    BY <1>9 DEF Session, NextMonth, vars
  <2>2. mode' \in {"locked", "unlocked", "editing"} /\ now' \in 0..LastMonth
    BY <1>9 DEF Session, NextMonth, vars, ChitsTypeOK, ChitsConstants
  <2>3. QED
    BY <2>1, <2>2 DEF ChitsTypeOK, IsChit
<1>10. QED
  BY <1>1, <1>2, <1>3, <1>4, <1>5, <1>6, <1>7, <1>8, <1>9 DEF Next

(* A chit keeps its types, and is withdrawn exactly when its draw is on    *)
(* record, whatever is opened, edited, drawn, put back and deleted.        *)
THEOREM ChitsKeepTypes == ChitsConstants /\ Spec => []ChitsTypeOK
<1>1. ChitsConstants /\ Init => ChitsTypeOK
  BY DEF Init, ChitsTypeOK, ChitsConstants
<1>2. ASSUME ChitsConstants
      PROVE  Spec => []ChitsTypeOK
  <2>1. Init => ChitsTypeOK
    BY <1>1, <1>2
  <2>2. ChitsTypeOK /\ [Next]_vars => ChitsTypeOK'
    BY <1>2, ChitsTypesInductive
  <2>3. QED
    BY <2>1, <2>2, PTL DEF Spec
<1>3. QED
  BY <1>2
---------------------------------------------------------------------------
\* The instalments on the book, as Passbook has them.
PaidIn == [id \in DOMAIN chits |-> {Key(e) : e \in chits[id].emis}]

\* A chit saved beside the others is one passbook with other instalments.
LEMMA SavedPassbook ==
  ASSUME NEW id, NEW chit, SaveChit(id, chit)
  PROVE  /\ PaidIn' = [i \in DOMAIN PaidIn \cup {id} |->
                         IF i = id THEN {Key(e) : e \in chit.emis} ELSE PaidIn[i]]
         /\ mode' = mode
<1>1. /\ chits' = [i \in DOMAIN chits \cup {id} |-> IF i = id THEN chit ELSE chits[i]]
      /\ mode' = mode
  BY DEF SaveChit
<1>2. QED
  BY <1>1 DEF PaidIn

\* Saving with the instalments there were changes no passbook.
LEMMA SavedUnpaid ==
  ASSUME NEW id \in DOMAIN chits, NEW chit, chit.emis = chits[id].emis, SaveChit(id, chit)
  PROVE  UNCHANGED Book!vars
<1>1. PaidIn' = PaidIn
  <2>1. PaidIn' = [i \in DOMAIN PaidIn \cup {id} |->
                     IF i = id THEN {Key(e) : e \in chit.emis} ELSE PaidIn[i]]
    BY SavedPassbook
  <2>2. QED
    BY <2>1 DEF PaidIn
<1>2. QED
  BY <1>1, SavedPassbook DEF PaidIn, Editing, Book!vars

\* Opening a chit opens a passbook, empty, whatever was in it.
LEMMA OpenOpens ==
  ASSUME NEW t \in Openings, Open(t)
  PROVE  Book!Open(<<t.org, t.start>>)
<1> DEFINE id == <<t.org, t.start>>
<1>1. SaveChit(id, NewChit(t))
  BY DEF Open
<1>2. {Key(e) : e \in NewChit(t).emis} = {}
  BY DEF NewChit
<1> HIDE DEF id
<1>3. /\ PaidIn' = [i \in DOMAIN PaidIn \cup {id} |->
                      IF i = id THEN {Key(e) : e \in NewChit(t).emis} ELSE PaidIn[i]]
      /\ mode' = mode
  BY <1>1, SavedPassbook
<1>4. PaidIn' = [i \in DOMAIN PaidIn \cup {id} |-> IF i = id THEN {} ELSE PaidIn[i]]
  BY <1>2, <1>3
<1>5. Book!Open(id)
  BY <1>3, <1>4 DEF PaidIn, Editing, Book!Open
<1>6. QED
  BY <1>5 DEF id

\* An instalment recorded is one payment, however often it is told.
LEMMA RecordPays ==
  ASSUME ChitsTypeOK, NEW id \in DOMAIN chits, NEW p \in Emis, RecordEmi(id, p)
  PROVE  Book!Pay(id)
<1> DEFINE chit == WithEmi(chits[id], p)
<1>1. SaveChit(id, chit)
  BY DEF RecordEmi
<1>2. "emis" \in DOMAIN chits[id]
  BY DEF ChitsTypeOK, IsChit
<1>3. chit.emis = {e \in chits[id].emis : ~Same(e, p)} \cup {p}
  BY <1>2 DEF WithEmi
<1>4. {Key(e) : e \in chit.emis} = {Key(e) : e \in chits[id].emis} \cup {Key(p)}
  BY <1>3 DEF Same
<1> HIDE DEF chit
<1>5. /\ PaidIn' = [i \in DOMAIN PaidIn \cup {id} |->
                      IF i = id THEN {Key(e) : e \in chit.emis} ELSE PaidIn[i]]
      /\ mode' = mode
  BY <1>1, SavedPassbook
<1>6. id \in DOMAIN PaidIn /\ PaidIn[id] = {Key(e) : e \in chits[id].emis}
  BY DEF PaidIn
<1>7. PaidIn' = [PaidIn EXCEPT ![id] = @ \cup {Key(p)}]
  <2>1. DOMAIN PaidIn \cup {id} = DOMAIN PaidIn
    BY <1>6
  <2>2. PaidIn' = [i \in DOMAIN PaidIn |-> IF i = id THEN {Key(e) : e \in chit.emis} ELSE PaidIn[i]]
    BY <1>5, <2>1
  <2>3. PaidIn' = [PaidIn EXCEPT ![id] = {Key(e) : e \in chit.emis}]
    BY <2>2, <1>6
  <2>4. QED
    BY <2>3, <1>4, <1>6
<1>8. Key(p) \in {Key(e) : e \in Emis}
  OBVIOUS
<1>9. QED
  BY <1>5, <1>6, <1>7, <1>8 DEF PaidIn, Editing, Book!Pay

\* A chit deleted in edit mode takes its passbook with it.
LEMMA DeleteRemoves ==
  ASSUME NEW id \in DOMAIN chits, Delete(id)
  PROVE  Book!Remove(id)
<1>1. Editing /\ mode' = mode /\ chits' = [i \in DOMAIN chits \ {id} |-> chits[i]]
  BY DEF Delete, Restrict
<1>2. PaidIn' = [i \in DOMAIN PaidIn \ {id} |-> PaidIn[i]] /\ id \in DOMAIN PaidIn
  BY <1>1 DEF PaidIn
<1>3. QED
  BY <1>1, <1>2 DEF PaidIn, Editing, Book!Remove

LEMMA StepsKept ==
  ASSUME ChitsConstants, ChitsTypeOK, [Next]_vars
  PROVE  [Book!Next]_(Book!vars)
<1>1. ASSUME NEW t \in Openings, Open(t)
      PROVE  Book!Next
  BY <1>1, OpenOpens DEF Book!Next, ChitId
<1>2. ASSUME NEW id \in DOMAIN chits, NEW p \in Emis, RecordEmi(id, p)
      PROVE  Book!Next
  BY <1>2, RecordPays DEF Book!Next, ChitsTypeOK
<1>3. ASSUME NEW id \in DOMAIN chits, NEW draw \in Draws, Withdraw(id, draw)
      PROVE  UNCHANGED Book!vars
  <2>1. [chits[id] EXCEPT !.status = "WITHDRAWN", !.drawn = draw].emis = chits[id].emis
    BY DEF ChitsTypeOK, IsChit
  <2>2. QED
    BY <1>3, <2>1, SavedUnpaid DEF Withdraw
<1>4. ASSUME NEW id \in DOMAIN chits, SetStatus(id)
      PROVE  UNCHANGED Book!vars
  <2>1. [chits[id] EXCEPT !.status = "ACTIVE", !.drawn = None].emis = chits[id].emis
    BY DEF ChitsTypeOK, IsChit
  <2>2. QED
    BY <1>4, <2>1, SavedUnpaid DEF SetStatus
<1>5. ASSUME NEW id \in DOMAIN chits, NEW e \in ChitEdits, Edit(id, e)
      PROVE  UNCHANGED Book!vars
  <2>1. Edited(chits[id], e).emis = chits[id].emis
    BY EditedTyped DEF ChitsTypeOK
  <2>2. QED
    BY <1>5, <2>1, SavedUnpaid DEF Edit
<1>6. ASSUME NEW id \in DOMAIN chits, Delete(id)
      PROVE  Book!Next
  BY <1>6, DeleteRemoves DEF Book!Next, ChitsTypeOK
<1>7. ASSUME \/ \E l \in Labels : (\E table \in Tables : SaveSchedule(l, table)) \/ DeleteSchedule(l)
             \/ NextMonth
             \/ UNCHANGED vars
      PROVE  UNCHANGED Book!vars
  <2>1. chits' = chits /\ mode' = mode
    BY <1>7 DEF SaveSchedule, DeleteSchedule, NextMonth, vars
  <2>2. QED
    BY <2>1 DEF Editing, Book!vars
<1>8. ASSUME Session
      PROVE  Book!Next
  BY <1>8 DEF Session, Editing, Book!Next, Book!Protect
<1>9. QED
  BY <1>1, <1>2, <1>3, <1>4, <1>5, <1>6, <1>7, <1>8 DEF Next

(* The register is a passbook: an instalment told twice is one payment,    *)
(* and no payment is taken away outside edit mode, unless its chit is      *)
(* opened again.                                                           *)
THEOREM ChitsArePassbooks == ChitsConstants /\ Spec => ChitsKept
<1>1. Init => Book!Init
  BY DEF Init, Editing, Book!Init
<1>2. ASSUME ChitsConstants
      PROVE  Spec => ChitsKept
  <2>1. ChitsTypeOK /\ [Next]_vars => [Book!Next]_(Book!vars)
    BY <1>2, StepsKept
  <2>2. Spec => []ChitsTypeOK
    BY <1>2, ChitsKeepTypes
  <2>3. QED
    BY <1>1, <2>1, <2>2, PTL DEF Spec, ChitsKept, Book!Spec
<1>3. QED
  BY <1>2
---------------------------------------------------------------------------
\* What a chit would pay out hangs on its terms, the schedules and the month.
LEMMA PayoutStays ==
  ASSUME NEW id \in DOMAIN chits \cap DOMAIN chits', schedules' = schedules, now' = now,
         \A f \in Terms : chits'[id][f] = chits[id][f]
  PROVE  Payout(id)' = Payout(id)
<1>1. /\ chits'[id].type = chits[id].type /\ chits'[id].schedule = chits[id].schedule
      /\ chits'[id].start = chits[id].start /\ chits'[id].months = chits[id].months
  BY DEF Terms
<1>2. Elapsed(chits'[id], now') = Elapsed(chits[id], now)
  BY <1>1 DEF Elapsed
<1> DEFINE at(chit, tables, month) ==
             IF chit.type # "CONSTANT" THEN None
             ELSE IF chit.schedule \in DOMAIN tables
                       /\ Elapsed(chit, month) \in DOMAIN tables[chit.schedule]
                  THEN tables[chit.schedule][Elapsed(chit, month)] ELSE None
<1>3. Payout(id) = at(chits[id], schedules, now)
  BY DEF Payout, View, Agreed
<1>4. Payout(id)' = at(chits'[id], schedules', now')
  BY DEF Payout, View, Agreed, Elapsed
<1>5. QED
  BY <1>1, <1>2, <1>3, <1>4

\* A schedule saved outside edit mode is a new one, and only chits that
\* name it pay out otherwise.
LEMMA NewSchedule ==
  ASSUME ~Editing, NEW id \in DOMAIN chits, NEW l, NEW table, SaveSchedule(l, table)
  PROVE  Payout(id)' = Payout(id) \/ Payout(id) = None
<1>1. /\ l \notin DOMAIN schedules /\ chits' = chits /\ now' = now
      /\ schedules' = [k \in DOMAIN schedules \cup {l} |-> IF k = l THEN table ELSE schedules[k]]
  BY DEF SaveSchedule, Replaceable
<1> DEFINE month == Elapsed(chits[id], now)
           label == chits[id].schedule
<1>2. Payout(id) = IF chits[id].type # "CONSTANT" THEN None ELSE Agreed(label, month)
  BY DEF Payout, View
<1>3. Payout(id)' = IF chits[id].type # "CONSTANT" THEN None ELSE
                      IF label \in DOMAIN schedules' /\ month \in DOMAIN schedules'[label]
                      THEN schedules'[label][month] ELSE None
  BY <1>1 DEF Payout, View, Agreed, Elapsed
<1> HIDE DEF month, label
<1>4. CASE label = l
  BY <1>1, <1>2, <1>4 DEF Agreed
<1>5. CASE label # l
  BY <1>1, <1>2, <1>3, <1>5 DEF Agreed
<1>6. QED
  BY <1>4, <1>5

LEMMA PayoutsStable ==
  ASSUME ChitsConstants, ChitsTypeOK, [Next]_vars, ~Editing, now' = now,
         NEW id \in DOMAIN chits \cap DOMAIN chits'
  PROVE  \/ Payout(id)' = Payout(id)
         \/ Payout(id) = None
         \/ \E t \in Openings : Open(t) /\ id = <<t.org, t.start>>
<1>1. ASSUME NEW t \in Openings, Open(t), id # <<t.org, t.start>>
      PROVE  Payout(id)' = Payout(id)
  <2>1. chits'[id] = chits[id] /\ schedules' = schedules /\ now' = now
    BY <1>1, SavedChit DEF Open
  <2>2. QED
    BY <2>1, PayoutStays
<1>2. ASSUME NEW i \in DOMAIN chits, NEW p \in Emis, RecordEmi(i, p)
      PROVE  Payout(id)' = Payout(id)
  <2>1. /\ chits'[id] = IF id = i THEN WithEmi(chits[i], p) ELSE chits[id]
        /\ schedules' = schedules
    BY <1>2 DEF RecordEmi, SaveChit
  <2>2. \A f \in Terms : WithEmi(chits[i], p)[f] = chits[i][f]
    BY DEF ChitsTypeOK, IsChit, WithEmi, Terms
  <2>3. QED
    BY <2>1, <2>2, PayoutStays
<1>3. ASSUME NEW l \in Labels, NEW table \in Tables, SaveSchedule(l, table)
      PROVE  Payout(id)' = Payout(id) \/ Payout(id) = None
  BY <1>3, NewSchedule
<1>4. CASE Session \/ UNCHANGED vars
  <2>1. chits' = chits /\ schedules' = schedules
    BY <1>4 DEF Session, vars
  <2>2. QED
    BY <2>1, PayoutStays
<1>5. ~NextMonth
  BY DEF NextMonth, ChitsTypeOK, ChitsConstants
<1>6. QED
  BY <1>1, <1>2, <1>3, <1>4, <1>5 DEF Next, Withdraw, SetStatus, Edit, Delete, DeleteSchedule

(* What a chit would pay out this month never changes behind its back:     *)
(* outside edit mode, only when it is opened again, or when the schedule   *)
(* it names comes into being.                                              *)
THEOREM PayoutsNeverMove == ChitsConstants /\ Spec => PayoutStable
<1> DEFINE step == ~Editing /\ now' = now =>
       \A id \in DOMAIN chits \cap DOMAIN chits' :
         \/ Payout(id)' = Payout(id)
         \/ Payout(id) = None
         \/ \E t \in Openings : Open(t) /\ id = <<t.org, t.start>>
<1>1. ASSUME ChitsConstants
      PROVE  Spec => PayoutStable
  <2>1. ChitsTypeOK /\ [Next]_vars => step
    BY <1>1, PayoutsStable
  <2> HIDE DEF step
  <2>2. ChitsTypeOK /\ [Next]_vars => [step]_vars
    BY <2>1
  <2>3. Spec => []ChitsTypeOK
    BY <1>1, ChitsKeepTypes
  <2>4. Spec => [][step]_vars
    BY <2>2, <2>3, PTL DEF Spec
  <2>5. QED
    BY <2>4 DEF PayoutStable, step
<1>2. QED
  BY <1>1
---------------------------------------------------------------------------
(* Amounts are whole.                                                      *)
AmountsWhole == \A e \in Emis : e.amount \in Int

(* A book that can be added up: finite, and a recording that is already    *)
(* there is no second instalment.                                          *)
Counted(chit) ==
  /\ IsFiniteSet(chit.emis)
  /\ \A e, f \in chit.emis : Key(e) = Key(f) => e = f
ChitsCounted ==
  /\ IsFiniteSet(DOMAIN chits)
  /\ \A id \in DOMAIN chits : Counted(chits[id])

LEMMA SavingCounts ==
  ASSUME ChitsCounted, NEW id, NEW chit, Counted(chit), SaveChit(id, chit)
  PROVE  ChitsCounted'
<1>1. /\ DOMAIN chits' = DOMAIN chits \cup {id}
      /\ \A i \in DOMAIN chits' : chits'[i] = IF i = id THEN chit ELSE chits[i]
  BY DEF SaveChit
<1>2. IsFiniteSet(DOMAIN chits \cup {id})
  BY FS_AddElement DEF ChitsCounted
<1>3. IsFiniteSet(DOMAIN chits')
  BY <1>1, <1>2
<1>4. \A i \in DOMAIN chits' : Counted(chits'[i])
  BY <1>1 DEF ChitsCounted
<1>5. QED
  BY <1>3, <1>4 DEF ChitsCounted, Counted, Key

\* A chit with the same instalments counts as it did.
LEMMA RestatedCounts ==
  ASSUME ChitsCounted, NEW id \in DOMAIN chits, NEW chit, chit.emis = chits[id].emis,
         SaveChit(id, chit)
  PROVE  ChitsCounted'
<1>1. Counted(chit)
  BY DEF ChitsCounted, Counted
<1>2. QED
  BY <1>1, SavingCounts

LEMMA CountedInductive ==
  ASSUME ChitsConstants, ChitsTypeOK, ChitsCounted, [Next]_vars
  PROVE  ChitsCounted'
<1>1. ASSUME NEW t \in Openings, Open(t)
      PROVE  ChitsCounted'
  <2>1. Counted(NewChit(t))
    BY FS_EmptySet DEF NewChit, Counted
  <2>2. QED
    BY <1>1, <2>1, SavingCounts DEF Open
<1>2. ASSUME NEW id \in DOMAIN chits, NEW p \in Emis, RecordEmi(id, p)
      PROVE  ChitsCounted'
  <2> DEFINE others == {e \in chits[id].emis : ~Same(e, p)}
             chit == WithEmi(chits[id], p)
  <2>1. chit.emis = others \cup {p}
    BY DEF WithEmi, ChitsTypeOK, IsChit
  <2>2. IsFiniteSet(chits[id].emis) /\ others \in SUBSET chits[id].emis
    BY DEF ChitsCounted, Counted
  <2>3. IsFiniteSet(others \cup {p})
    <3> HIDE DEF others
    <3>1. IsFiniteSet(others)
      BY <2>2, FS_Subset
    <3>2. QED
      BY <3>1, FS_AddElement
  <2>4. \A e, f \in others \cup {p} : Key(e) = Key(f) => e = f
    BY DEF ChitsCounted, Counted, Same
  <2>5. SaveChit(id, chit)
    BY <1>2 DEF RecordEmi
  <2> HIDE DEF others, chit
  <2>6. Counted(chit)
    BY <2>1, <2>3, <2>4 DEF Counted
  <2>7. QED
    BY <2>5, <2>6, SavingCounts
<1>3. ASSUME NEW id \in DOMAIN chits, NEW draw \in Draws, Withdraw(id, draw)
      PROVE  ChitsCounted'
  <2>1. [chits[id] EXCEPT !.status = "WITHDRAWN", !.drawn = draw].emis = chits[id].emis
    BY DEF ChitsTypeOK, IsChit
  <2>2. QED
    BY <1>3, <2>1, RestatedCounts DEF Withdraw
<1>4. ASSUME NEW id \in DOMAIN chits, SetStatus(id)
      PROVE  ChitsCounted'
  <2>1. [chits[id] EXCEPT !.status = "ACTIVE", !.drawn = None].emis = chits[id].emis
    BY DEF ChitsTypeOK, IsChit
  <2>2. QED
    BY <1>4, <2>1, RestatedCounts DEF SetStatus
<1>5. ASSUME NEW id \in DOMAIN chits, NEW e \in ChitEdits, Edit(id, e)
      PROVE  ChitsCounted'
  <2>1. Edited(chits[id], e).emis = chits[id].emis
    BY EditedTyped DEF ChitsTypeOK
  <2>2. QED
    BY <1>5, <2>1, RestatedCounts DEF Edit
<1>6. ASSUME NEW id \in DOMAIN chits, Delete(id)
      PROVE  ChitsCounted'
  <2>1. chits' = [i \in DOMAIN chits \ {id} |-> chits[i]]
    BY <1>6 DEF Delete, Restrict
  <2>2. IsFiniteSet(DOMAIN chits \ {id})
    BY FS_RemoveElement DEF ChitsCounted
  <2>3. IsFiniteSet(DOMAIN chits')
    BY <2>1, <2>2
  <2>4. QED
    BY <2>1, <2>3 DEF ChitsCounted, Counted, Key
<1>7. CASE \/ \E l \in Labels : (\E table \in Tables : SaveSchedule(l, table)) \/ DeleteSchedule(l)
           \/ Session \/ NextMonth \/ UNCHANGED vars
  <2>1. chits' = chits
    BY <1>7 DEF SaveSchedule, DeleteSchedule, Session, NextMonth, vars
  <2>2. QED
    BY <2>1 DEF ChitsCounted, Counted, Key
<1>8. QED
  BY <1>1, <1>2, <1>3, <1>4, <1>5, <1>6, <1>7 DEF Next
\* What net worth counts for each chit, and the chits the register adds up.
Worths == [id \in DOMAIN chits |-> Carried(id)]
Active(orgs) == {id \in Listed(orgs) : chits[id].status = "ACTIVE"}

LEMMA TotalIsSum ==
  ASSUME NEW emis
  PROVE  Total(emis) = SumFunctionOnSet([e \in emis |-> e.amount], emis)
<1> DEFINE f == [e \in emis |-> e.amount]
           Table(h) == h = [s \in SUBSET emis |->
             IF s = {} THEN 0 ELSE FirstOf(s).amount + h[s \ {FirstOf(s)}]]
           Known(h) == h = [s \in SUBSET emis |->
             IF s = {} THEN 0 ELSE f[FirstOf(s)] + h[s \ {FirstOf(s)}]]
<1>1. ASSUME NEW h PROVE Table(h) <=> Known(h)
  BY FirstOfIn
<1>2. Total(emis) = (CHOOSE h : Table(h))[emis]
  BY DEF Total, MapThenSumSet, MapThenFoldSet, FirstOf
<1>3. SumFunctionOnSet(f, emis) = (CHOOSE h : Known(h))[emis]
  BY DEF SumFunctionOnSet, FoldFunctionOnSet, MapThenFoldSet, FirstOf
<1> HIDE DEF Table, Known
<1>4. (CHOOSE h : Table(h)) = (CHOOSE h : Known(h))
  BY <1>1
<1>5. QED
  BY <1>2, <1>3, <1>4

LEMMA CarriedIsSum == MapThenSumSet(Carried, DOMAIN chits) = SumFunctionOnSet(Worths, DOMAIN chits)
<1> DEFINE D == DOMAIN chits
           Table(h) == h = [s \in SUBSET D |->
             IF s = {} THEN 0 ELSE Carried(FirstOf(s)) + h[s \ {FirstOf(s)}]]
           Known(h) == h = [s \in SUBSET D |->
             IF s = {} THEN 0 ELSE Worths[FirstOf(s)] + h[s \ {FirstOf(s)}]]
<1>1. ASSUME NEW h PROVE Table(h) <=> Known(h)
  BY FirstOfIn DEF Worths
<1>2. MapThenSumSet(Carried, D) = (CHOOSE h : Table(h))[D]
  BY DEF MapThenSumSet, MapThenFoldSet, FirstOf
<1>3. SumFunctionOnSet(Worths, D) = (CHOOSE h : Known(h))[D]
  BY DEF SumFunctionOnSet, FoldFunctionOnSet, MapThenFoldSet, FirstOf
<1> HIDE DEF Table, Known
<1>4. (CHOOSE h : Table(h)) = (CHOOSE h : Known(h))
  BY <1>1
<1>5. QED
  BY <1>2, <1>3, <1>4

LEMMA TotalWorthIsSum ==
  ASSUME NEW orgs
  PROVE  TotalWorth(orgs) = SumFunctionOnSet(Worths, Active(orgs))
<1> DEFINE D == Active(orgs)
           Table(h) == h = [s \in SUBSET D |->
             IF s = {} THEN 0 ELSE View(chits[FirstOf(s)], now).worth + h[s \ {FirstOf(s)}]]
           Known(h) == h = [s \in SUBSET D |->
             IF s = {} THEN 0 ELSE Worths[FirstOf(s)] + h[s \ {FirstOf(s)}]]
<1>1. ASSUME NEW h PROVE Table(h) <=> Known(h)
  <2>1. \A s \in SUBSET D : s # {} => View(chits[FirstOf(s)], now).worth = Worths[FirstOf(s)]
    BY FirstOfIn DEF Worths, Carried, Active, Listed
  <2>2. QED
    BY <2>1
<1>2. TotalWorth(orgs) = (CHOOSE h : Table(h))[D]
  BY DEF TotalWorth, MapThenSumSet, MapThenFoldSet, FirstOf, Active
<1>3. SumFunctionOnSet(Worths, D) = (CHOOSE h : Known(h))[D]
  BY DEF SumFunctionOnSet, FoldFunctionOnSet, MapThenFoldSet, FirstOf
<1> HIDE DEF Table, Known
<1>4. (CHOOSE h : Table(h)) = (CHOOSE h : Known(h))
  BY <1>1
<1>5. QED
  BY <1>2, <1>3, <1>4
\* An instalment is counted once: by what tells instalments apart.
LEMMA PaidByKey ==
  ASSUME AmountsWhole, ChitsTypeOK, ChitsCounted, NEW id \in DOMAIN chits
  PROVE  /\ Total(PaidBy(chits[id], now)) \in Int
         /\ Total(PaidBy(chits[id], now))
              = MapThenSumSet(LAMBDA k : k[2], {Key(e) : e \in PaidBy(chits[id], now)})
<1> DEFINE D == PaidBy(chits[id], now)
           K == {Key(e) : e \in D}
           f == [e \in D |-> e.amount]
           key == [e \in D |-> Key(e)]
           g == [k \in K |-> k[2]]
           Table(h) == h = [s \in SUBSET K |->
             IF s = {} THEN 0 ELSE FirstOf(s)[2] + h[s \ {FirstOf(s)}]]
           Known(h) == h = [s \in SUBSET K |->
             IF s = {} THEN 0 ELSE g[FirstOf(s)] + h[s \ {FirstOf(s)}]]
           total == MapThenSumSet(LAMBDA k : k[2], K)
<1>1. /\ IsFiniteSet(D) /\ \A e \in D : e.amount \in Int
      /\ \A e, d \in D : Key(e) = Key(d) => e = d
  <2>1. D \in SUBSET chits[id].emis /\ IsFiniteSet(chits[id].emis)
    BY DEF PaidBy, ChitsCounted, Counted
  <2>2. \A e, d \in D : Key(e) = Key(d) => e = d
    BY <2>1 DEF ChitsCounted, Counted
  <2>3. \A e \in D : e.amount \in Int
    BY <2>1 DEF ChitsTypeOK, IsChit, AmountsWhole
  <2> HIDE DEF D
  <2>4. QED
    BY <2>1, <2>2, <2>3, FS_Subset
<1>2. Total(D) = SumFunctionOnSet(f, D)
  BY TotalIsSum
<1>3. total = SumFunctionOnSet(g, K)
  <2>1. ASSUME NEW h PROVE Table(h) <=> Known(h)
    <3> HIDE DEF D
    <3>1. QED
      BY FirstOfIn
  <2>2. total = (CHOOSE h : Table(h))[K]
    BY DEF MapThenSumSet, MapThenFoldSet, FirstOf
  <2>3. SumFunctionOnSet(g, K) = (CHOOSE h : Known(h))[K]
    BY DEF SumFunctionOnSet, FoldFunctionOnSet, MapThenFoldSet, FirstOf
  <2> HIDE DEF Table, Known, total, K, g
  <2>4. (CHOOSE h : Table(h)) = (CHOOSE h : Known(h))
    BY <2>1
  <2>5. QED
    BY <2>2, <2>3, <2>4
<1> HIDE DEF D
<1>4. /\ \A e \in D : f[e] \in Int
      /\ DOMAIN key = D /\ \A e, d \in D : key[e] = key[d] => e = d
      /\ \A e \in D : g[key[e]] = f[e]
      /\ {key[e] : e \in D} = K
  BY <1>1 DEF Key
<1> HIDE DEF f, g, key, K
<1>5. SumFunctionOnSet(g, {key[e] : e \in D}) = SumFunctionOnSet(f, D)
  BY <1>1, <1>4, SumRenamed
<1>6. SumFunctionOnSet(g, {key[e] : e \in D}) = SumFunctionOnSet(g, K)
  BY <1>4, Zenon
<1>7. SumFunctionOnSet(f, D) \in Int
  BY <1>1, <1>4, SumInt
<1> HIDE DEF total
<1>8. Total(D) \in Int /\ Total(D) = total
  BY <1>2, <1>3, <1>5, <1>6, <1>7
<1>9. QED
  BY <1>8 DEF D, K, total

\* A chit drawn is worth nothing, another what was paid into it.
LEMMA CarriedWhole ==
  ASSUME AmountsWhole, ChitsTypeOK, ChitsCounted, NEW id \in DOMAIN chits
  PROVE  /\ Carried(id) \in Int
         /\ chits[id].status # "ACTIVE" => chits[id].status = "WITHDRAWN" /\ Carried(id) = 0
         /\ chits[id].status # "WITHDRAWN" => Carried(id) = Total(PaidBy(chits[id], now))
<1>1. Total(PaidBy(chits[id], now)) \in Int
  BY PaidByKey
<1>2. Carried(id) = IF chits[id].status = "WITHDRAWN" THEN 0 ELSE Total(PaidBy(chits[id], now))
  BY DEF Carried, View
<1>3. chits[id].status # "ACTIVE" => chits[id].status = "WITHDRAWN"
  BY DEF ChitsTypeOK, IsChit
<1>4. QED
  BY <1>1, <1>2, <1>3

LEMMA WorthsWhole ==
  ASSUME AmountsWhole, ChitsTypeOK, ChitsCounted
  PROVE  /\ IsFiniteSet(Active({})) /\ Active({}) \in SUBSET DOMAIN chits
         /\ \A id \in DOMAIN chits : Worths[id] \in Int
         /\ \A id \in DOMAIN chits \ Active({}) : Worths[id] = 0
<1>1. Active({}) \in SUBSET DOMAIN chits
  BY DEF Active, Listed
<1>2. IsFiniteSet(Active({}))
  BY <1>1, FS_Subset DEF ChitsCounted
<1>3. \A id \in DOMAIN chits : Worths[id] = Carried(id)
  BY DEF Worths
<1>4. \A id \in DOMAIN chits \ Active({}) : chits[id].status # "ACTIVE"
  BY DEF Active, Listed
<1>5. QED
  BY <1>1, <1>2, <1>3, <1>4, CarriedWhole

\* The totals of the organisations add up to the total of all.
LEMMA TotalsAddUp ==
  ASSUME AmountsWhole, ChitsTypeOK, ChitsCounted
  PROVE  TotalWorth({})
           = MapThenSumSet(LAMBDA o : TotalWorth({o}), {chits[id].org : id \in DOMAIN chits})
<1> DEFINE key == [id \in DOMAIN chits |-> chits[id].org]
           K == {chits[id].org : id \in DOMAIN chits}
           g == [o \in K |-> TotalWorth({o})]
           D == Active({})
           Table(h) == h = [s \in SUBSET K |->
             IF s = {} THEN 0 ELSE TotalWorth({FirstOf(s)}) + h[s \ {FirstOf(s)}]]
           Known(h) == h = [s \in SUBSET K |->
             IF s = {} THEN 0 ELSE g[FirstOf(s)] + h[s \ {FirstOf(s)}]]
           total == MapThenSumSet(LAMBDA o : TotalWorth({o}), K)
<1>1. total = SumFunctionOnSet(g, K)
  <2>1. ASSUME NEW h PROVE Table(h) <=> Known(h)
    BY FirstOfIn
  <2>2. total = (CHOOSE h : Table(h))[K]
    BY DEF MapThenSumSet, MapThenFoldSet, FirstOf
  <2>3. SumFunctionOnSet(g, K) = (CHOOSE h : Known(h))[K]
    BY DEF SumFunctionOnSet, FoldFunctionOnSet, MapThenFoldSet, FirstOf
  <2> HIDE DEF Table, Known, total, K, g
  <2>4. (CHOOSE h : Table(h)) = (CHOOSE h : Known(h))
    BY <2>1
  <2>5. QED
    BY <2>2, <2>3, <2>4
<1>2. IsFiniteSet(K) /\ \A id \in D : key[id] \in K
  <2>1. {key[id] : id \in DOMAIN chits} = K
    OBVIOUS
  <2>2. IsFiniteSet(DOMAIN chits) /\ DOMAIN key = DOMAIN chits
    BY DEF ChitsCounted
  <2>3. D \subseteq DOMAIN chits
    BY WorthsWhole
  <2>4. \A id \in D : key[id] \in K
    BY <2>3
  <2> HIDE DEF key, K
  <2>5. IsFiniteSet({key[id] : id \in DOMAIN chits})
    BY <2>2, FiniteKeys
  <2>6. QED
    BY <2>1, <2>4, <2>5
<1>3. ASSUME NEW o \in K
      PROVE  g[o] = SumFunctionOnSet(Worths, Under(D, key, o))
  <2>1. Active({o}) = Under(D, key, o)
    BY DEF Active, Listed, Under, View
  <2>2. g[o] = SumFunctionOnSet(Worths, Active({o}))
    BY TotalWorthIsSum
  <2>3. QED
    BY <2>1, <2>2, Zenon
<1>4. IsFiniteSet(D) /\ \A id \in D : Worths[id] \in Int
  BY WorthsWhole
<1> HIDE DEF key, K, g, D
<1>5. SumFunctionOnSet(g, K) = SumFunctionOnSet(Worths, D)
  BY <1>2, <1>3, <1>4, SumByKey
<1> HIDE DEF total
<1>6. TotalWorth({}) = total
  BY <1>1, <1>5, TotalWorthIsSum DEF D
<1>7. QED
  BY <1>6 DEF total, K

(* Net worth and the register agree on the chits, under every filter: each *)
(* counts every instalment of a chit not drawn once, however often it was  *)
(* recorded.                                                               *)
THEOREM RegisterAndNetWorthAgree ==
  ChitsConstants /\ AmountsWhole /\ Spec => []ChitsWorth
<1>1. ASSUME AmountsWhole, ChitsTypeOK, ChitsCounted
      PROVE  ChitsWorth
  <2>1. TotalWorth({}) = MapThenSumSet(Carried, DOMAIN chits)
    <3>1. SumFunctionOnSet(Worths, DOMAIN chits) = SumFunctionOnSet(Worths, Active({}))
      <4>1. IsFiniteSet(DOMAIN chits)
        BY <1>1 DEF ChitsCounted
      <4>2. QED
        BY <1>1, <4>1, WorthsWhole, SumSupport
    <3>2. QED
      BY <3>1, TotalWorthIsSum, CarriedIsSum
  <2>2. TotalWorth({})
          = MapThenSumSet(LAMBDA o : TotalWorth({o}), {chits[id].org : id \in DOMAIN chits})
    BY <1>1, TotalsAddUp
  <2>3. ASSUME NEW id \in DOMAIN chits
        PROVE  Carried(id) = IF chits[id].status = "WITHDRAWN" THEN 0
                             ELSE MapThenSumSet(LAMBDA k : k[2], {Key(e) : e \in PaidBy(chits[id], now)})
    BY <1>1, CarriedWhole, PaidByKey
  <2>4. QED
    BY <2>1, <2>2, <2>3 DEF ChitsWorth
<1>2. ASSUME ChitsConstants, AmountsWhole
      PROVE  Spec => []ChitsWorth
  <2>1. Init => ChitsCounted
    BY FS_EmptySet DEF Init, ChitsCounted
  <2>2. ChitsTypeOK /\ ChitsCounted /\ [Next]_vars => ChitsCounted'
    BY <1>2, CountedInductive
  <2>3. ChitsTypeOK /\ ChitsCounted => ChitsWorth
    BY <1>1, <1>2
  <2>4. Spec => []ChitsTypeOK
    BY <1>2, ChitsKeepTypes
  <2>5. QED
    BY <2>1, <2>2, <2>3, <2>4, PTL DEF Spec
<1>3. QED
  BY <1>2
=============================================================================
