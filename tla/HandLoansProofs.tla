-------------------------- MODULE HandLoansProofs --------------------------
(***************************************************************************)
(* What HandLoans promises for all terms, edits, payments and bounds: its  *)
(* types, that a loan leaves the book only after the entry of its          *)
(* deletion, that nothing but an addition happens outside edit mode, that  *)
(* loans and trail move together as in AuditedLoans, whatever dies, when   *)
(* no two operations share an instant, and that until something does the   *)
(* trail tells every value on the book.                                    *)
(*                                                                         *)
(* The invariant dates the trail: no entry is later than the clock, so one *)
(* written after a tick is the last about its loan and has an id of its    *)
(* own.  What the trail tells is an invariant of the promised book and log *)
(* of AuditedLoans, in which an entry and what it is about come together.  *)
(***************************************************************************)
EXTENDS HandLoans, FiniteSetTheorems, TLAPS

\* The last entry about a loan is its deletion, with the terms it has.
Deleted(l) ==
  \E e \in trail :
    /\ Deletes(e, l) /\ e.new = Shown(loans[l].terms)
    /\ \A g \in trail : g.loan = l => g.at <= e.at

LoansInv ==
  /\ TypeOK
  /\ todo.entries = {} \/ todo.removed = {}
  /\ \A e \in trail \cup todo.entries : e.at <= now
  /\ \A l \in todo.removed : Deleted(l)
  /\ todo.removed # {} => mode = "editing"
---------------------------------------------------------------------------
LEMMA Fields == Field = {"borrower", "principal", "start", "closed"}
BY DEF Field, Order

LEMMA NothingToDo ==
  Nothing.entries = {} /\ Nothing.removed = {}
  /\ Nothing = [entries |-> Nothing.entries, removed |-> Nothing.removed]
BY DEF Nothing

\* What is entered for a loan are terms it can have.
LEMMA EnteredTerms ==
  ASSUME NEW t \in Terms
  PROVE  t \in LoanTerms /\ Fresh(t) \in Loan
<1>1. t = [f \in Field |-> t[f]]
  BY HandLoansConstants DEF Terms
<1>2. \A f \in Field : t[f] \in Value(f)
  BY DEF Value
<1>3. t \in LoanTerms
  BY <1>1, <1>2 DEF LoanTerms
<1>4. QED
  BY <1>3 DEF Fresh, Loan

\* An edit gives each field a value the form or the loan has.
LEMMA EditedTerms ==
  ASSUME NEW terms \in LoanTerms, NEW e \in Edits
  PROVE  Edited(terms, e) \in LoanTerms
<1>1. \A f \in Field : terms[f] \in Value(f)
  BY DEF LoanTerms
<1>2. \A f \in DOMAIN e : e[f] \in Value(f)
  BY DEF Value
<1>3. \A f \in Field : Edited(terms, e)[f] \in Value(f)
  BY <1>1, <1>2 DEF Edited
<1>4. Edited(terms, e) \in [Field -> UNION {Value(f) : f \in Field}]
  BY <1>3 DEF Edited
<1>5. QED
  BY <1>3, <1>4 DEF LoanTerms

\* Closing on the date of a form, or reopening, leaves terms of a loan.
LEMMA ClosedTerms ==
  ASSUME NEW terms \in LoanTerms, NEW date \in {p.date : p \in Payments} \cup {None}
  PROVE  [terms EXCEPT !.closed = date] \in LoanTerms
<1> DEFINE next == [terms EXCEPT !.closed = date]
<1>1. terms \in [Field -> UNION {Value(f) : f \in Field}] /\ \A f \in Field : terms[f] \in Value(f)
  BY DEF LoanTerms
<1>2. date \in Value("closed") /\ "closed" \in Field
  BY Fields DEF Value
<1>3. \A f \in Field : next[f] \in Value(f)
  BY <1>1, <1>2
<1>4. next \in [Field -> UNION {Value(f) : f \in Field}]
  BY <1>1, <1>3, <1>2
<1>5. QED
  BY <1>3, <1>4 DEF LoanTerms

\* A form edits known fields only, so the entries of an edit are numbered.
LEMMA PlaceIsNat ==
  ASSUME NEW e \in Edits, NEW terms, NEW f
  PROVE  Place(f, Moved(terms, e)) \in Nat
<1>1. IsFiniteSet(Field)
  <2>1. IsFiniteSet({"borrower"})
    BY FS_Singleton
  <2>2. IsFiniteSet({"borrower"} \cup {"principal"})
    BY <2>1, FS_AddElement
  <2>3. IsFiniteSet(({"borrower"} \cup {"principal"}) \cup {"start"})
    BY <2>2, FS_AddElement
  <2>4. IsFiniteSet((({"borrower"} \cup {"principal"}) \cup {"start"}) \cup {"closed"})
    BY <2>3, FS_AddElement
  <2>5. Field = (({"borrower"} \cup {"principal"}) \cup {"start"}) \cup {"closed"}
    BY Fields
  <2>6. QED
    BY <2>4, <2>5
<1>2. {g \in Moved(terms, e) : Order[g] < Order[f]} \subseteq Field
  BY HandLoansConstants DEF Moved
<1>3. QED
  BY <1>1, <1>2, FS_Subset, FS_CardinalityType DEF Place
---------------------------------------------------------------------------
\* The first transaction of an operation that leaves well-formed loans.
LEMMA SaveKeepsInv ==
  ASSUME LoansInv, Idle, NEW at \in Instants,
         NEW book, DOMAIN book \in SUBSET LoanId, \A l \in DOMAIN book : book[l] \in Loan,
         NEW entries, \A e \in entries : IsEntry(e) /\ e.at = at,
         Save(book, entries, at)
  PROVE  LoansInv'
<1>1. at \in Nat /\ at >= now
  BY DEF LoansInv, TypeOK, Instants
<1>2. todo' = [entries |-> entries, removed |-> {}] /\ todo'.entries = entries /\ todo'.removed = {}
  BY DEF Save
<1>3. TypeOK'
  BY <1>1, <1>2 DEF LoansInv, TypeOK, Save, IsEntry
<1>4. \A e \in trail' \cup todo'.entries : e.at <= now'
  <2>1. \A e \in trail : e.at \in Nat /\ now \in Nat /\ e.at <= now
    BY DEF LoansInv, TypeOK, IsEntry
  <2>2. QED
    BY <1>1, <1>2, <2>1 DEF Save
<1>5. QED
  BY <1>2, <1>3, <1>4 DEF LoansInv

\* The entries of the operations have the shape of a row of the table.
LEMMA EventIsEntry ==
  ASSUME NEW l \in LoanId, NEW action \in Action, NEW new, NEW at \in Nat
  PROVE  /\ IsEntry(Event(l, action, new, at))
         /\ Event(l, action, new, at).at = at
         /\ Event(l, action, new, at).loan = l
         /\ Event(l, action, new, at).action = action
         /\ Event(l, action, new, at).new = new
BY DEF Event, Entry, IsEntry

LEMMA NoteIsEntry ==
  ASSUME NEW l \in LoanId, NEW terms, NEW e \in Edits, NEW at \in Nat,
         NEW n \in Notes(l, terms, e, at)
  PROVE  IsEntry(n) /\ n.at = at /\ n.loan = l /\ n.action = "EDITED"
BY PlaceIsNat DEF Notes, Entry, IsEntry, Action

\* Changing one loan, or adding one, leaves loans.
LEMMA ChangedLoans ==
  ASSUME TypeOK, NEW l \in DOMAIN loans, NEW loan \in Loan
  PROVE  LET book == [loans EXCEPT ![l] = loan]
         IN DOMAIN book \in SUBSET LoanId /\ \A k \in DOMAIN book : book[k] \in Loan
BY DEF TypeOK

LEMMA InstantIsNat == TypeOK => Instants \subseteq Nat
BY DEF TypeOK, Instants

LEMMA RecordKeepsInv ==
  ASSUME LoansInv, NEW t \in Terms, NEW confirmed \in BOOLEAN, Record(t, confirmed)
  PROVE  LoansInv'
<1>1. PICK l \in LoanId, at \in Instants :
        LET action == IF Duplicates(t) = {} THEN "CREATED" ELSE "CREATED_AS_DUPLICATE"
        IN Save(WithLoan(l, Fresh(t)), {Event(l, action, Shown(t), at)}, at)
  BY DEF Record
<1>2. /\ DOMAIN WithLoan(l, Fresh(t)) \in SUBSET LoanId
      /\ \A k \in DOMAIN WithLoan(l, Fresh(t)) : WithLoan(l, Fresh(t))[k] \in Loan
  BY EnteredTerms DEF WithLoan, LoansInv, TypeOK
<1>3. at \in Nat
  BY InstantIsNat DEF LoansInv
<1> DEFINE action == IF Duplicates(t) = {} THEN "CREATED" ELSE "CREATED_AS_DUPLICATE"
<1>4. action \in Action
  BY DEF Action
<1>5. \A e \in {Event(l, action, Shown(t), at)} : IsEntry(e) /\ e.at = at
  BY <1>3, <1>4, EventIsEntry
<1>6. Idle
  BY DEF Record, Ready
<1> HIDE DEF action
<1>7. QED
  BY <1>1, <1>2, <1>5, <1>6, SaveKeepsInv DEF action

LEMMA ImportKeepsInv ==
  ASSUME LoansInv, NEW t \in Terms, Import(t)
  PROVE  LoansInv'
<1>1. <<t, 1>> \in LoanId
  BY HandLoansConstants DEF LoanId
<1>2. /\ DOMAIN loans' \in SUBSET LoanId
      /\ \A k \in DOMAIN loans' : loans'[k] \in Loan
      /\ DOMAIN loans \subseteq DOMAIN loans'
  BY <1>1, EnteredTerms DEF Import, WithLoan, LoansInv, TypeOK
<1>3. todo.removed = {}
  BY NothingToDo DEF Import, Ready, Idle
<1>4. QED
  BY <1>2, <1>3 DEF Import, LoansInv, TypeOK, IsEntry

LEMMA EditKeepsInv ==
  ASSUME LoansInv, NEW l \in LoanId, NEW e \in Edits, Edit(l, e)
  PROVE  LoansInv'
<1> DEFINE loan == [loans[l] EXCEPT !.terms = Edited(loans[l].terms, e)]
           notes(at) == Notes(l, loans[l].terms, e, at)
<1>1. l \in DOMAIN loans /\ loans[l] \in Loan /\ Idle
  BY DEF Edit, Editing, Ready, OnBook, LoansInv, TypeOK
<1>2. loan \in Loan
  BY <1>1, EditedTerms DEF Loan
<1>3. PICK at \in Instants : Save([loans EXCEPT ![l] = loan], notes(at), at)
  BY DEF Edit, WithTerms
<1>4. \A n \in notes(at) : IsEntry(n) /\ n.at = at
  BY InstantIsNat, NoteIsEntry DEF LoansInv
<1> HIDE DEF loan, notes
<1>5. QED
  BY <1>1, <1>2, <1>3, <1>4, ChangedLoans, SaveKeepsInv DEF LoansInv

LEMMA CloseKeepsInv ==
  ASSUME LoansInv, NEW l \in LoanId, NEW p \in Payments, Close(l, p.date)
  PROVE  LoansInv'
<1> DEFINE loan == [loans[l] EXCEPT !.terms = [loans[l].terms EXCEPT !.closed = p.date]]
<1>1. l \in DOMAIN loans /\ loans[l] \in Loan /\ Idle
  BY DEF Close, Editing, Ready, OnBook, LoansInv, TypeOK
<1>2. loan \in Loan
  BY <1>1, ClosedTerms DEF Loan
<1>3. PICK at \in Instants :
        Save([loans EXCEPT ![l] = loan], {Event(l, "CLOSED", [closed |-> p.date], at)}, at)
  BY DEF Close, WithTerms
<1>4. \A e \in {Event(l, "CLOSED", [closed |-> p.date], at)} : IsEntry(e) /\ e.at = at
  BY InstantIsNat, EventIsEntry DEF LoansInv, Action
<1> HIDE DEF loan
<1>5. QED
  BY <1>1, <1>2, <1>3, <1>4, ChangedLoans, SaveKeepsInv DEF LoansInv

LEMMA ReopenKeepsInv ==
  ASSUME LoansInv, NEW l \in LoanId, Reopen(l)
  PROVE  LoansInv'
<1> DEFINE loan == [loans[l] EXCEPT !.terms = [loans[l].terms EXCEPT !.closed = None]]
<1>1. l \in DOMAIN loans /\ loans[l] \in Loan /\ Idle
  BY DEF Reopen, Editing, Ready, OnBook, LoansInv, TypeOK
<1>2. loan \in Loan
  BY <1>1, ClosedTerms DEF Loan
<1>3. PICK at \in Instants :
        Save([loans EXCEPT ![l] = loan], {Event(l, "REOPENED", [closed |-> None], at)}, at)
  BY DEF Reopen, WithTerms
<1>4. \A e \in {Event(l, "REOPENED", [closed |-> None], at)} : IsEntry(e) /\ e.at = at
  BY InstantIsNat, EventIsEntry DEF LoansInv, Action
<1> HIDE DEF loan
<1>5. QED
  BY <1>1, <1>2, <1>3, <1>4, ChangedLoans, SaveKeepsInv DEF LoansInv

LEMMA RepaymentKeepsInv ==
  ASSUME LoansInv, NEW l \in LoanId, NEW p \in Payments, RecordPrincipalRepayment(l, p)
  PROVE  LoansInv'
<1> DEFINE loan == [loans[l] EXCEPT !.repaid = loans[l].repaid \cup {p}]
<1>1. l \in DOMAIN loans /\ loans[l] \in Loan /\ Idle
  BY DEF RecordPrincipalRepayment, Editing, Ready, OnBook, LoansInv, TypeOK
<1>2. loan \in Loan
  BY <1>1, SMT DEF Loan
<1>3. PICK at \in Instants :
        Save([loans EXCEPT ![l] = loan], {Event(l, "PRINCIPAL_REPAYMENT", Paid(p), at)}, at)
  BY DEF RecordPrincipalRepayment, WithTerms
<1>4. \A e \in {Event(l, "PRINCIPAL_REPAYMENT", Paid(p), at)} : IsEntry(e) /\ e.at = at
  BY InstantIsNat, EventIsEntry DEF LoansInv, Action
<1> HIDE DEF loan
<1>5. QED
  BY <1>1, <1>2, <1>3, <1>4, ChangedLoans, SaveKeepsInv DEF LoansInv

LEMMA InterestKeepsInv ==
  ASSUME LoansInv, NEW l \in LoanId, NEW p \in Payments, RecordInterestPayment(l, p)
  PROVE  LoansInv'
<1> DEFINE loan == [loans[l] EXCEPT !.interest = loans[l].interest \cup {p}]
<1>1. l \in DOMAIN loans /\ loans[l] \in Loan /\ Idle
  BY DEF RecordInterestPayment, Editing, Ready, OnBook, LoansInv, TypeOK
<1>2. loan \in Loan
  BY <1>1, SMT DEF Loan
<1>3. PICK at \in Instants :
        Save([loans EXCEPT ![l] = loan], {Event(l, "INTEREST_PAYMENT", Paid(p), at)}, at)
  BY DEF RecordInterestPayment, WithTerms
<1>4. \A e \in {Event(l, "INTEREST_PAYMENT", Paid(p), at)} : IsEntry(e) /\ e.at = at
  BY InstantIsNat, EventIsEntry DEF LoansInv, Action
<1> HIDE DEF loan
<1>5. QED
  BY <1>1, <1>2, <1>3, <1>4, ChangedLoans, SaveKeepsInv DEF LoansInv

\* The entry of the deletion is the last about the loan: none is later than
\* the clock was.
LEMMA DeleteKeepsInv ==
  ASSUME LoansInv, NEW l \in LoanId, Delete(l)
  PROVE  LoansInv'
<1>1. PICK at \in Instants :
        LET entry == Event(l, "DELETED", Shown(loans[l].terms), at)
        IN /\ trail' = trail \cup {entry}
           /\ todo' = [entries |-> {}, removed |-> {l}]
           /\ now' = at
  BY DEF Delete
<1> DEFINE entry == Event(l, "DELETED", Shown(loans[l].terms), at)
<1>2. l \in DOMAIN loans /\ todo.entries = {} /\ UNCHANGED <<loans, mode, crashes>>
  BY NothingToDo DEF Delete, Editing, Ready, OnBook, Idle
<1>3. at \in Nat /\ at >= now /\ now \in Nat
  BY DEF LoansInv, TypeOK, Instants
<1>4. /\ IsEntry(entry) /\ entry.at = at /\ entry.loan = l /\ entry.action = "DELETED"
      /\ entry.new = Shown(loans[l].terms)
  BY <1>3, EventIsEntry DEF Action
<1> HIDE DEF entry
<1>5. trail' = trail \cup {entry} /\ todo'.entries = {} /\ todo'.removed = {l} /\ now' = at
  BY <1>1 DEF entry
<1>6. TypeOK'
  BY <1>1, <1>2, <1>3, <1>4, <1>5 DEF LoansInv, TypeOK, IsEntry
<1>7. \A e \in trail : e.at \in Nat /\ e.at <= at
  BY <1>3 DEF LoansInv, TypeOK, IsEntry
<1>8. Deleted(l)'
  BY <1>2, <1>3, <1>4, <1>5, <1>7 DEF Deleted, Deletes, Shown
<1>9. mode' = "editing"
  BY <1>2 DEF Delete, Editing
<1>10. QED
  BY <1>3, <1>4, <1>5, <1>6, <1>7, <1>8, <1>9 DEF LoansInv

LEMMA WriteTrailKeepsInv ==
  ASSUME LoansInv, WriteTrail
  PROVE  LoansInv'
<1>1. todo'.entries = {} /\ todo'.removed = {} /\ todo' = Nothing /\ trail' \subseteq trail \cup todo.entries
  BY NothingToDo DEF WriteTrail
<1>2. QED
  BY <1>1, NothingToDo DEF WriteTrail, LoansInv, TypeOK, IsEntry

LEMMA RemoveLoanKeepsInv ==
  ASSUME LoansInv, RemoveLoan
  PROVE  LoansInv'
<1>1. todo'.entries = {} /\ todo'.removed = {} /\ todo' = Nothing
  BY NothingToDo DEF RemoveLoan
<1>2. DOMAIN loans' \subseteq DOMAIN loans /\ \A l \in DOMAIN loans' : loans'[l] = loans[l]
  BY DEF RemoveLoan, Restrict
<1>3. QED
  BY <1>1, <1>2, NothingToDo DEF RemoveLoan, LoansInv, TypeOK, IsEntry

LEMMA CrashKeepsInv ==
  ASSUME LoansInv, Crash
  PROVE  LoansInv'
<1>1. todo'.entries = {} /\ todo'.removed = {} /\ todo' = Nothing
  BY NothingToDo DEF Crash
<1>2. crashes' \in 0..MaxCrashes
  BY HandLoansConstants DEF Crash, LoansInv, TypeOK
<1>3. QED
  BY <1>1, <1>2, NothingToDo DEF Crash, LoansInv, TypeOK, IsEntry

LEMMA SessionKeepsInv ==
  ASSUME LoansInv, Session
  PROVE  LoansInv'
BY NothingToDo DEF Session, Idle, LoansInv, TypeOK, IsEntry

LEMMA InvInductive ==
  ASSUME LoansInv, [Next]_vars
  PROVE  LoansInv'
<1>1. CASE \E t \in Terms : Import(t) \/ \E confirmed \in BOOLEAN : Record(t, confirmed)
  BY <1>1, RecordKeepsInv, ImportKeepsInv
<1>2. CASE \E l \in LoanId : \E e \in Edits : Edit(l, e)
  BY <1>2, EditKeepsInv
<1>3. CASE \E l \in LoanId : \E p \in Payments :
             Close(l, p.date) \/ RecordPrincipalRepayment(l, p) \/ RecordInterestPayment(l, p)
  BY <1>3, CloseKeepsInv, RepaymentKeepsInv, InterestKeepsInv
<1>4. CASE \E l \in LoanId : Reopen(l) \/ Delete(l)
  BY <1>4, ReopenKeepsInv, DeleteKeepsInv
<1>5. CASE WriteTrail \/ RemoveLoan \/ Crash \/ Session
  BY <1>5, WriteTrailKeepsInv, RemoveLoanKeepsInv, CrashKeepsInv, SessionKeepsInv
<1>6. CASE UNCHANGED vars
  BY <1>6 DEF vars, LoansInv, TypeOK, IsEntry, Deleted, Deletes, Shown
<1>7. QED
  BY <1>1, <1>2, <1>3, <1>4, <1>5, <1>6 DEF Next

LEMMA InvInitially == Init => LoansInv
BY NothingToDo, HandLoansConstants DEF Init, LoansInv, TypeOK

\* The invariant holds in every reachable state.
THEOREM LoansInvariant == Spec => []LoansInv
<1>1. LoansInv /\ [Next]_vars => LoansInv'
  BY InvInductive
<1>2. QED
  BY InvInitially, <1>1, PTL DEF Spec

\* The register and the trail keep the shapes the repositories read and write.
THEOREM TypesHold == Spec => []TypeOK
<1>1. LoansInv => TypeOK
  BY DEF LoansInv
<1>2. QED
  BY LoansInvariant, <1>1, PTL
---------------------------------------------------------------------------
\* Only the second transaction of a deletion takes loans off the book.
LEMMA LoansStay ==
  ASSUME LoansInv, [Next]_vars, ~RemoveLoan
  PROVE  DOMAIN loans \subseteq DOMAIN loans'
<1>1. CASE \E t \in Terms : Import(t) \/ \E confirmed \in BOOLEAN : Record(t, confirmed)
  BY <1>1 DEF Import, Record, Save, WithLoan
<1>2. CASE \E l \in LoanId : \E e \in Edits : Edit(l, e)
  BY <1>2 DEF Edit, Save, WithTerms
<1>3. CASE \E l \in LoanId : \E p \in Payments :
             Close(l, p.date) \/ RecordPrincipalRepayment(l, p) \/ RecordInterestPayment(l, p)
  BY <1>3 DEF Close, RecordPrincipalRepayment, RecordInterestPayment, Save, WithTerms
<1>4. CASE \E l \in LoanId : Reopen(l) \/ Delete(l)
  BY <1>4 DEF Reopen, Delete, Save, WithTerms
<1>5. CASE WriteTrail \/ Crash \/ Session \/ UNCHANGED vars
  BY <1>5 DEF WriteTrail, Crash, Session, vars
<1>6. QED
  BY <1>1, <1>2, <1>3, <1>4, <1>5 DEF Next

\* Outside edit mode the terms of a loan on the book stay.
LEMMA TermsStay ==
  ASSUME LoansInv, [Next]_vars, mode # "editing", NEW l \in DOMAIN loans
  PROVE  l \in DOMAIN loans' /\ loans[l].terms = loans'[l].terms
<1>1. CASE \E t \in Terms : Import(t) \/ \E confirmed \in BOOLEAN : Record(t, confirmed)
  BY <1>1 DEF Import, Record, Save, WithLoan, IsFreeId, OnBook
<1>2. CASE \E k \in LoanId : \E e \in Edits : Edit(k, e)
  BY <1>2 DEF Edit, Editing
<1>3. CASE \E k \in LoanId : \E p \in Payments :
             Close(k, p.date) \/ RecordPrincipalRepayment(k, p) \/ RecordInterestPayment(k, p)
  <2>1. PICK k \in LoanId, p \in Payments :
          RecordPrincipalRepayment(k, p) \/ RecordInterestPayment(k, p)
    BY <1>3 DEF Close, Editing
  <2>2. loans[l] \in Loan
    BY DEF LoansInv, TypeOK
  <2>3. QED
    BY <2>1, <2>2 DEF RecordPrincipalRepayment, RecordInterestPayment, Save, Loan
<1>4. CASE \E k \in LoanId : Reopen(k) \/ Delete(k)
  BY <1>4 DEF Reopen, Delete, Editing
<1>5. CASE WriteTrail \/ Crash \/ Session \/ UNCHANGED vars
  BY <1>5 DEF WriteTrail, Crash, Session, vars
<1>6. CASE RemoveLoan
  BY <1>6 DEF RemoveLoan, LoansInv
<1>7. QED
  BY <1>1, <1>2, <1>3, <1>4, <1>5, <1>6 DEF Next

\* A loan that leaves the book leaves the entry of its deletion as the last
\* about it, whatever crashed before.
THEOREM DeletionsRecorded == Spec => DeletionOnRecord
<1>1. ASSUME LoansInv, [Next]_vars, NEW l \in DOMAIN loans \ DOMAIN loans'
      PROVE  Deleted(l)
  <2>1. RemoveLoan
    BY <1>1, LoansStay
  <2>2. l \in todo.removed
    BY <1>1, <2>1 DEF RemoveLoan, Restrict
  <2>3. QED
    BY <1>1, <2>2 DEF LoansInv
<1> DEFINE step == \A l \in DOMAIN loans \ DOMAIN loans' :
       \E e \in trail :
         /\ Deletes(e, l) /\ e.new = Shown(loans[l].terms)
         /\ \A g \in trail : g.loan = l => g.at <= e.at
<1>2. LoansInv /\ [Next]_vars => step
  BY <1>1 DEF Deleted
<1> HIDE DEF step
<1>3. LoansInv /\ [Next]_vars => [step]_vars
  BY <1>2
<1>4. Spec => [][step]_vars
  BY LoansInvariant, <1>3, PTL DEF Spec
<1>5. QED
  BY <1>4 DEF DeletionOnRecord, step

\* Outside edit mode loans are added and paid, never changed or deleted.
THEOREM RecordingOnlyAdds == Spec => OnlyAdditions
<1> DEFINE step == mode # "editing" =>
       /\ DOMAIN loans \subseteq DOMAIN loans'
       /\ \A l \in DOMAIN loans : loans[l].terms = loans'[l].terms
<1>1. LoansInv /\ [Next]_vars => step
  BY TermsStay
<1> HIDE DEF step
<1>2. LoansInv /\ [Next]_vars => [step]_vars
  BY <1>1
<1>3. Spec => [][step]_vars
  BY LoansInvariant, <1>2, PTL DEF Spec
<1>4. QED
  BY <1>3 DEF OnlyAdditions, step
---------------------------------------------------------------------------
\* What is still to be written is later than what is.
Dated == \A t \in trail, e \in todo.entries : t.at < e.at

LEMMA SameIdSameInstant ==
  ASSUME NEW d, NEW e, EntryId(d) = EntryId(e)
  PROVE  d.at = e.at
<1>1. CASE d.action = "EDITED" /\ e.action = "EDITED"
  BY <1>1 DEF EntryId
<1>2. CASE d.action # "EDITED" /\ e.action # "EDITED"
  BY <1>2 DEF EntryId
<1>3. CASE d.action = "EDITED" /\ e.action # "EDITED"
  <2>1. DOMAIN EntryId(d) = 1..3 /\ DOMAIN EntryId(e) = 1..4
    BY <1>3 DEF EntryId
  <2>2. QED
    BY <2>1
<1>4. CASE d.action # "EDITED" /\ e.action = "EDITED"
  <2>1. DOMAIN EntryId(d) = 1..4 /\ DOMAIN EntryId(e) = 1..3
    BY <1>4 DEF EntryId
  <2>2. QED
    BY <2>1
<1>5. QED
  BY <1>1, <1>2, <1>3, <1>4

LEMMA DatedMeansNew ==
  ASSUME LoansInv, Dated
  PROVE  \A e \in todo.entries : ~Taken(e)
<1>1. SUFFICES ASSUME NEW e \in todo.entries, NEW t \in trail, EntryId(t) = EntryId(e)
               PROVE  FALSE
  BY DEF Taken
<1>2. t.at = e.at /\ t.at < e.at /\ t.at \in Nat
  BY <1>1, SameIdSameInstant DEF Dated, LoansInv, TypeOK, IsEntry
<1>3. QED
  BY <1>2

\* An operation with an instant of its own dates its entries after the trail.
LEMMA SaveIsDated ==
  ASSUME LoansInv, ~SharedInstants, NEW at \in Instants,
         NEW entries, \A e \in entries : e.at = at,
         trail' = trail, todo'.entries = entries
  PROVE  Dated'
<1>1. at = now + 1
  BY DEF Instants
<1>2. \A t \in trail : t.at \in Nat /\ t.at <= now /\ now \in Nat
  BY DEF LoansInv, TypeOK, IsEntry
<1>3. QED
  BY <1>1, <1>2 DEF Dated

\* A saved operation: an instant, the loans it leaves, the entries to come.
LEMMA SavedIsDated ==
  ASSUME LoansInv, ~SharedInstants,
         \E at \in Instants : \E book, entries :
           Save(book, entries, at) /\ \A e \in entries : e.at = at
  PROVE  Dated'
<1>1. PICK at \in Instants : \E book, entries :
        Save(book, entries, at) /\ \A e \in entries : e.at = at
  OBVIOUS
<1>2. PICK book, entries : Save(book, entries, at) /\ \A e \in entries : e.at = at
  BY <1>1
<1>3. trail' = trail /\ todo'.entries = entries
  BY <1>2 DEF Save
<1>4. QED
  BY <1>2, <1>3, SaveIsDated

LEMMA DatedInductive ==
  ASSUME LoansInv, ~SharedInstants, Dated, [Next]_vars
  PROVE  Dated'
<1>1. CASE \E t \in Terms : \E confirmed \in BOOLEAN : Record(t, confirmed)
  <2>1. \E at \in Instants : \E book, entries :
          Save(book, entries, at) /\ \A e \in entries : e.at = at
    BY <1>1 DEF Record, Event, Entry
  <2>2. QED
    BY <2>1, SavedIsDated
<1>2. CASE \E l \in LoanId : \E e \in Edits : Edit(l, e)
  <2>1. PICK l \in LoanId, e \in Edits, at \in Instants :
          Save(WithTerms(l, Edited(loans[l].terms, e)), Notes(l, loans[l].terms, e, at), at)
    BY <1>2 DEF Edit
  <2>2. \A n \in Notes(l, loans[l].terms, e, at) : n.at = at
    BY DEF Notes, Entry
  <2>3. QED
    BY <2>1, <2>2, SavedIsDated
<1>3. CASE \E l \in LoanId : \E p \in Payments :
             Close(l, p.date) \/ RecordPrincipalRepayment(l, p) \/ RecordInterestPayment(l, p)
  <2>1. PICK l \in LoanId, p \in Payments :
          Close(l, p.date) \/ RecordPrincipalRepayment(l, p) \/ RecordInterestPayment(l, p)
    BY <1>3
  <2> DEFINE Dates == \E at \in Instants : \E book, entries :
               Save(book, entries, at) /\ \A e \in entries : e.at = at
  <2>2. CASE Close(l, p.date)
    <3>1. Dates
      BY <2>2 DEF Close, Event, Entry
    <3>2. QED
      BY <3>1, SavedIsDated
  <2>3. CASE RecordPrincipalRepayment(l, p)
    <3>1. Dates
      BY <2>3 DEF RecordPrincipalRepayment, Event, Entry
    <3>2. QED
      BY <3>1, SavedIsDated
  <2>4. CASE RecordInterestPayment(l, p)
    <3>1. Dates
      BY <2>4 DEF RecordInterestPayment, Event, Entry
    <3>2. QED
      BY <3>1, SavedIsDated
  <2>5. QED
    BY <2>1, <2>2, <2>3, <2>4
<1>4. CASE \E l \in LoanId : Reopen(l)
  <2>1. \E at \in Instants : \E book, entries :
          Save(book, entries, at) /\ \A e \in entries : e.at = at
    BY <1>4 DEF Reopen, Event, Entry
  <2>2. QED
    BY <2>1, SavedIsDated
<1>5. CASE \E l \in LoanId : Delete(l)
  BY <1>5 DEF Delete, Dated
<1>6. CASE WriteTrail \/ RemoveLoan \/ Crash
  BY <1>6, NothingToDo DEF WriteTrail, RemoveLoan, Crash, Dated
<1>7. CASE Session \/ UNCHANGED vars \/ \E t \in Terms : Import(t)
  BY <1>7 DEF Session, vars, Import, Dated
<1>8. QED
  BY <1>1, <1>2, <1>3, <1>4, <1>5, <1>6, <1>7 DEF Next
---------------------------------------------------------------------------
\* One deletion runs at a time.
OneLeaves == \A k, l \in todo.removed : k = l

LEMMA OneLeavesInductive ==
  ASSUME OneLeaves, [Next]_vars
  PROVE  OneLeaves'
<1>1. CASE \E l \in LoanId : Delete(l)
  BY <1>1 DEF Delete, OneLeaves
<1>2. CASE \/ \E t \in Terms : Import(t) \/ \E confirmed \in BOOLEAN : Record(t, confirmed)
           \/ \E l \in LoanId : \E e \in Edits : Edit(l, e)
  <2>1. CASE \E t \in Terms : Import(t)
    BY <2>1 DEF Import, OneLeaves
  <2>2. CASE \E t \in Terms : \E confirmed \in BOOLEAN : Record(t, confirmed)
    BY <2>2 DEF Record, Save, OneLeaves
  <2>3. CASE \E l \in LoanId : \E e \in Edits : Edit(l, e)
    BY <2>3 DEF Edit, Save, OneLeaves
  <2>4. QED
    BY <1>2, <2>1, <2>2, <2>3
<1>3. CASE \E l \in LoanId : \E p \in Payments :
             Close(l, p.date) \/ RecordPrincipalRepayment(l, p) \/ RecordInterestPayment(l, p)
  BY <1>3 DEF Close, RecordPrincipalRepayment, RecordInterestPayment, Save, OneLeaves
<1>4. CASE \E l \in LoanId : Reopen(l)
  BY <1>4 DEF Reopen, Save, OneLeaves
<1>5. CASE WriteTrail \/ RemoveLoan \/ Crash
  BY <1>5, NothingToDo DEF WriteTrail, RemoveLoan, Crash, OneLeaves
<1>6. CASE Session \/ UNCHANGED vars
  BY <1>6 DEF Session, vars, OneLeaves
<1>7. QED
  BY <1>1, <1>2, <1>3, <1>4, <1>5, <1>6 DEF Next

\* The book and the log of AuditedLoans.
Book == [l \in DOMAIN loans \ todo.removed |-> loans[l].terms]
Log == trail \cup todo.entries

\* What an operation saves is added to the log, and is new to it.
LEMMA SaveAdds ==
  ASSUME LoansInv, Idle, ~SharedInstants, NEW at \in Instants,
         NEW book, NEW entries, \A e \in entries : e.at = at,
         Save(book, entries, at)
  PROVE  /\ Book = [l \in DOMAIN loans |-> loans[l].terms]
         /\ Book' = [l \in DOMAIN book |-> book[l].terms]
         /\ Log' = Log \cup entries
         /\ Log' \ Log = entries
<1>1. todo.entries = {} /\ todo.removed = {} /\ todo'.entries = entries /\ todo'.removed = {}
  BY NothingToDo DEF Idle, Save
<1>2. loans' = book /\ trail' = trail
  BY DEF Save
<1>3. \A t \in trail : t \notin entries
  BY DEF LoansInv, TypeOK, IsEntry, Instants
<1>4. QED
  BY <1>1, <1>2, <1>3 DEF Book, Log

\* Entries that say nothing of a field leave the terms.
LEMMA ToldNothing ==
  ASSUME NEW terms \in LoanTerms, NEW entries,
         \A e \in entries : \A f \in DOMAIN e.new : f \notin Field \/ e.new[f] = terms[f]
  PROVE  Audited!Told(terms, entries) = terms
<1>1. DOMAIN terms = Field /\ terms = [f \in Field |-> terms[f]]
  BY DEF LoanTerms
<1>2. ASSUME NEW f \in Field
      PROVE  Audited!Told(terms, entries)[f] = terms[f]
  <2>1. CASE \E e \in entries : f \in DOMAIN e.new
    <3>1. (CHOOSE e \in entries : f \in DOMAIN e.new).new[f] = terms[f]
      BY <2>1, <1>2
    <3>2. QED
      BY <2>1, <3>1, <1>1, <1>2 DEF Audited!Told
  <2>2. CASE ~\E e \in entries : f \in DOMAIN e.new
    BY <2>2, <1>1, <1>2 DEF Audited!Told
  <2>3. QED
    BY <2>1, <2>2
<1>3. DOMAIN Audited!Told(terms, entries) = Field
      /\ Audited!Told(terms, entries) = [f \in Field |-> Audited!Told(terms, entries)[f]]
  BY <1>1 DEF Audited!Told
<1>4. QED
  BY <1>1, <1>2, <1>3

\* The entries of an edit tell the edited terms.
LEMMA ToldEdit ==
  ASSUME NEW l \in LoanId, NEW terms \in LoanTerms, NEW e \in Edits, NEW at
  PROVE  Audited!Told(terms, Notes(l, terms, e, at)) = Edited(terms, e)
<1> DEFINE notes == Notes(l, terms, e, at)
<1>1. DOMAIN terms = Field
  BY DEF LoanTerms
<1>2. \A n \in notes : \E f \in Moved(terms, e) : n.new = Only(f, e[f])
  BY DEF Notes, Entry
<1>3. ASSUME NEW f \in Moved(terms, e)
      PROVE  \E n \in notes : n.new = Only(f, e[f])
  <2> DEFINE n == Entry(l, "EDITED", Place(f, Moved(terms, e)), Only(f, terms[f]), Only(f, e[f]), at)
  <2>1. n \in notes
    BY DEF Notes
  <2>2. n.new = Only(f, e[f])
    BY DEF Entry
  <2>3. QED
    BY <2>1, <2>2
<1> HIDE DEF notes
<1>4. ASSUME NEW f \in Field
      PROVE  Audited!Told(terms, notes)[f] = Edited(terms, e)[f]
  <2>1. CASE f \in Moved(terms, e)
    <3>1. \E n \in notes : f \in DOMAIN n.new
      BY <1>3, <2>1 DEF Only
    <3>2. PICK n \in notes : n = (CHOOSE m \in notes : f \in DOMAIN m.new) /\ f \in DOMAIN n.new
      BY <3>1
    <3>3. PICK g \in Moved(terms, e) : n.new = Only(g, e[g])
      BY <1>2
    <3>4. f = g /\ n.new[f] = e[f]
      BY <3>2, <3>3 DEF Only
    <3>5. QED
      BY <1>1, <2>1, <3>1, <3>2, <3>4, <1>4 DEF Audited!Told, Edited, Moved
  <2>2. CASE f \notin Moved(terms, e)
    <3>1. ~\E n \in notes : f \in DOMAIN n.new
      BY <1>2, <2>2 DEF Only
    <3>2. QED
      BY <1>1, <2>2, <3>1, <1>4 DEF Audited!Told, Edited, Moved
  <2>3. QED
    BY <2>1, <2>2
<1>5. Audited!Told(terms, notes) = [f \in Field |-> Audited!Told(terms, notes)[f]]
  BY <1>1 DEF Audited!Told
<1>6. Edited(terms, e) = [f \in Field |-> Edited(terms, e)[f]]
  BY DEF Edited
<1>7. QED
  BY <1>4, <1>5, <1>6 DEF notes

\* So does the entry of a closing or a reopening.
LEMMA ToldClosed ==
  ASSUME NEW terms \in LoanTerms, NEW date, NEW e, e.new = [closed |-> date]
  PROVE  Audited!Told(terms, {e}) = [terms EXCEPT !.closed = date]
<1>1. DOMAIN terms = Field /\ terms = [f \in Field |-> terms[f]]
  BY DEF LoanTerms
<1>2. DOMAIN e.new = {"closed"} /\ e.new["closed"] = date
  OBVIOUS
<1>3. \A f \in Field : Audited!Told(terms, {e})[f] = IF f = "closed" THEN date ELSE terms[f]
  <2>1. \A f : (\E d \in {e} : f \in DOMAIN d.new) <=> f = "closed"
    BY <1>2
  <2>2. (CHOOSE d \in {e} : "closed" \in DOMAIN d.new) = e
    BY <1>2
  <2>3. QED
    BY <1>1, <1>2, <2>1, <2>2 DEF Audited!Told
<1>4. Audited!Told(terms, {e}) = [f \in Field |-> Audited!Told(terms, {e})[f]]
  BY <1>1 DEF Audited!Told
<1>5. QED
  BY <1>1, <1>3, <1>4
---------------------------------------------------------------------------
\* An operation that saves entries about a loan, and the terms they tell,
\* amends the loan.
LEMMA SaveAmends ==
  ASSUME LoansInv, ~SharedInstants, Idle, NEW l \in DOMAIN loans, NEW at \in Instants,
         NEW loan, NEW entries, entries # {},
         \A e \in entries : /\ e.at = at /\ e.loan = l
                            /\ e.action \notin Audited!Creation \cup {"DELETED"},
         Save([loans EXCEPT ![l] = loan], entries, at),
         loan.terms = Audited!Told(loans[l].terms, entries)
  PROVE  Audited!Amend(l)
<1>1. /\ Book = [k \in DOMAIN loans |-> loans[k].terms]
      /\ Book' = [k \in DOMAIN loans |-> [loans EXCEPT ![l] = loan][k].terms]
      /\ Log' = Log \cup entries
      /\ Log' \ Log = entries
  BY SaveAdds
<1>2. Book' = [Book EXCEPT ![l] = Audited!Told(@, Log' \ Log)] /\ l \in DOMAIN Book
  BY <1>1
<1>3. QED
  BY <1>1, <1>2 DEF Audited!Amend, Audited!Added, Book, Log

LEMMA RecordEnters ==
  ASSUME LoansInv, ~SharedInstants, NEW t \in Terms, NEW confirmed \in BOOLEAN, Record(t, confirmed)
  PROVE  \E l \in LoanId : Audited!Enter(l)
<1> DEFINE action == IF Duplicates(t) = {} THEN "CREATED" ELSE "CREATED_AS_DUPLICATE"
           entry(l, at) == Event(l, action, Shown(t), at)
<1>1. PICK l \in LoanId, at \in Instants :
        IsFreeId(t, l) /\ Save(WithLoan(l, Fresh(t)), {entry(l, at)}, at)
  BY DEF Record
<1>2. /\ entry(l, at).at = at /\ entry(l, at).loan = l /\ entry(l, at).new = Shown(t)
      /\ entry(l, at).action \in Audited!Creation
  BY DEF Event, Entry, Audited!Creation
<1>3. Idle /\ l \notin DOMAIN loans
  BY <1>1 DEF Record, Ready, IsFreeId, OnBook
<1> DEFINE e == entry(l, at)
<1> HIDE DEF entry
<1>4. /\ Book = [k \in DOMAIN loans |-> loans[k].terms]
      /\ Book' = [k \in DOMAIN loans \cup {l} |-> WithLoan(l, Fresh(t))[k].terms]
      /\ Log' = Log \cup {e} /\ Log' \ Log = {e}
  <2>1. \A d \in {e} : d.at = at
    BY <1>2
  <2>2. /\ Book = [k \in DOMAIN loans |-> loans[k].terms]
        /\ Book' = [k \in DOMAIN WithLoan(l, Fresh(t)) |-> WithLoan(l, Fresh(t))[k].terms]
        /\ Log' = Log \cup {e} /\ Log' \ Log = {e}
    BY <1>1, <1>3, <2>1, SaveAdds
  <2>3. QED
    BY <2>2 DEF WithLoan
<1>5. /\ l \notin DOMAIN Book /\ l \in DOMAIN Book' /\ Book'[l] = t
      /\ Book' = [k \in DOMAIN Book \cup {l} |-> IF k = l THEN Book'[l] ELSE Book[k]]
  BY <1>3, <1>4 DEF WithLoan, Fresh
<1>6. Audited!Told(t, {e}) = t /\ t \in LoanTerms
  BY <1>2, EnteredTerms, ToldNothing DEF Shown, Restrict
<1>7. QED
  BY <1>2, <1>4, <1>5, <1>6 DEF Audited!Enter, Audited!Joins, Audited!Added, Book, Log

LEMMA ImportEnters ==
  ASSUME LoansInv, NEW t \in Terms, Import(t)
  PROVE  \E l \in LoanId : Audited!Enter(l)
<1> DEFINE l == <<t, 1>>
<1>1. l \in LoanId
  BY HandLoansConstants DEF LoanId
<1>2. l \notin DOMAIN loans /\ loans' = WithLoan(l, Fresh(t)) /\ todo.removed = {} /\ todo' = todo
      /\ trail' = trail
  BY NothingToDo DEF Import, Ready, Idle, OnBook
<1> HIDE DEF l
<1>3. /\ Book = [k \in DOMAIN loans |-> loans[k].terms]
      /\ Book' = [k \in DOMAIN loans \cup {l} |-> WithLoan(l, Fresh(t))[k].terms]
      /\ Log' = Log
  BY <1>2 DEF Book, Log, WithLoan
<1>4. /\ l \notin DOMAIN Book /\ l \in DOMAIN Book' /\ Book'[l] = t
      /\ Book' = [k \in DOMAIN Book \cup {l} |-> IF k = l THEN Book'[l] ELSE Book[k]]
  BY <1>2, <1>3 DEF WithLoan, Fresh
<1>5. QED
  BY <1>1, <1>3, <1>4, EnteredTerms DEF Audited!Enter, Audited!Joins, Book, Log

LEMMA EditAmends ==
  ASSUME LoansInv, ~SharedInstants, NEW l \in LoanId, NEW e \in Edits, Edit(l, e)
  PROVE  Audited!Amend(l)
<1> DEFINE loan == [loans[l] EXCEPT !.terms = Edited(loans[l].terms, e)]
           notes(at) == Notes(l, loans[l].terms, e, at)
<1>1. l \in DOMAIN loans /\ loans[l] \in Loan /\ loans[l].terms \in LoanTerms /\ Idle
  BY DEF Edit, Editing, Ready, OnBook, LoansInv, TypeOK, Loan
<1>2. PICK at \in Instants : Save([loans EXCEPT ![l] = loan], notes(at), at)
  BY DEF Edit, WithTerms
<1>3. \A n \in notes(at) : n.at = at /\ n.loan = l /\ n.action \notin Audited!Creation \cup {"DELETED"}
  BY DEF Notes, Entry, Audited!Creation
<1>4. notes(at) # {}
  BY DEF Edit, Notes
<1>5. loan.terms = Audited!Told(loans[l].terms, notes(at))
  BY <1>1, ToldEdit DEF Loan
<1> HIDE DEF loan, notes
<1>6. QED
  BY <1>1, <1>2, <1>3, <1>4, <1>5, SaveAmends

LEMMA CloseAmends ==
  ASSUME LoansInv, ~SharedInstants, NEW l \in LoanId, NEW p \in Payments, Close(l, p.date)
  PROVE  Audited!Amend(l)
<1> DEFINE loan == [loans[l] EXCEPT !.terms = [loans[l].terms EXCEPT !.closed = p.date]]
           entry(at) == Event(l, "CLOSED", [closed |-> p.date], at)
<1>1. l \in DOMAIN loans /\ loans[l] \in Loan /\ loans[l].terms \in LoanTerms /\ Idle
  BY DEF Close, Editing, Ready, OnBook, LoansInv, TypeOK, Loan
<1>2. PICK at \in Instants : Save([loans EXCEPT ![l] = loan], {entry(at)}, at)
  BY DEF Close, WithTerms
<1>3. /\ entry(at).at = at /\ entry(at).loan = l /\ entry(at).new = [closed |-> p.date]
      /\ entry(at).action \notin Audited!Creation \cup {"DELETED"}
  BY DEF Event, Entry, Audited!Creation
<1> HIDE DEF entry
<1>4. loan.terms = Audited!Told(loans[l].terms, {entry(at)})
  BY <1>1, <1>3, ToldClosed DEF Loan
<1> HIDE DEF loan
<1>5. QED
  BY <1>1, <1>2, <1>3, <1>4, SaveAmends

LEMMA ReopenAmends ==
  ASSUME LoansInv, ~SharedInstants, NEW l \in LoanId, Reopen(l)
  PROVE  Audited!Amend(l)
<1> DEFINE loan == [loans[l] EXCEPT !.terms = [loans[l].terms EXCEPT !.closed = None]]
           entry(at) == Event(l, "REOPENED", [closed |-> None], at)
<1>1. l \in DOMAIN loans /\ loans[l] \in Loan /\ loans[l].terms \in LoanTerms /\ Idle
  BY DEF Reopen, Editing, Ready, OnBook, LoansInv, TypeOK, Loan
<1>2. PICK at \in Instants : Save([loans EXCEPT ![l] = loan], {entry(at)}, at)
  BY DEF Reopen, WithTerms
<1>3. /\ entry(at).at = at /\ entry(at).loan = l /\ entry(at).new = [closed |-> None]
      /\ entry(at).action \notin Audited!Creation \cup {"DELETED"}
  BY DEF Event, Entry, Audited!Creation
<1> HIDE DEF entry
<1>4. loan.terms = Audited!Told(loans[l].terms, {entry(at)})
  BY <1>1, <1>3, ToldClosed DEF Loan
<1> HIDE DEF loan
<1>5. QED
  BY <1>1, <1>2, <1>3, <1>4, SaveAmends

LEMMA RepaymentAmends ==
  ASSUME LoansInv, ~SharedInstants, NEW l \in LoanId, NEW p \in Payments, RecordPrincipalRepayment(l, p)
  PROVE  Audited!Amend(l)
<1> DEFINE loan == [loans[l] EXCEPT !.repaid = loans[l].repaid \cup {p}]
           entry(at) == Event(l, "PRINCIPAL_REPAYMENT", Paid(p), at)
<1>1. l \in DOMAIN loans /\ loans[l] \in Loan /\ loans[l].terms \in LoanTerms /\ Idle
  BY DEF RecordPrincipalRepayment, Editing, Ready, OnBook, LoansInv, TypeOK, Loan
<1>2. PICK at \in Instants : Save([loans EXCEPT ![l] = loan], {entry(at)}, at)
  BY DEF RecordPrincipalRepayment, WithTerms
<1>3. /\ entry(at).at = at /\ entry(at).loan = l /\ entry(at).new = Paid(p)
      /\ entry(at).action \notin Audited!Creation \cup {"DELETED"}
  BY DEF Event, Entry, Audited!Creation
<1> HIDE DEF entry
<1>4. loan.terms = Audited!Told(loans[l].terms, {entry(at)})
  BY <1>1, <1>3, ToldNothing, Fields DEF Loan, Paid
<1> HIDE DEF loan
<1>5. QED
  BY <1>1, <1>2, <1>3, <1>4, SaveAmends

LEMMA InterestAmends ==
  ASSUME LoansInv, ~SharedInstants, NEW l \in LoanId, NEW p \in Payments, RecordInterestPayment(l, p)
  PROVE  Audited!Amend(l)
<1> DEFINE loan == [loans[l] EXCEPT !.interest = loans[l].interest \cup {p}]
           entry(at) == Event(l, "INTEREST_PAYMENT", Paid(p), at)
<1>1. l \in DOMAIN loans /\ loans[l] \in Loan /\ loans[l].terms \in LoanTerms /\ Idle
  BY DEF RecordInterestPayment, Editing, Ready, OnBook, LoansInv, TypeOK, Loan
<1>2. PICK at \in Instants : Save([loans EXCEPT ![l] = loan], {entry(at)}, at)
  BY DEF RecordInterestPayment, WithTerms
<1>3. /\ entry(at).at = at /\ entry(at).loan = l /\ entry(at).new = Paid(p)
      /\ entry(at).action \notin Audited!Creation \cup {"DELETED"}
  BY DEF Event, Entry, Audited!Creation
<1> HIDE DEF entry
<1>4. loan.terms = Audited!Told(loans[l].terms, {entry(at)})
  BY <1>1, <1>3, ToldNothing, Fields DEF Loan, Paid
<1> HIDE DEF loan
<1>5. QED
  BY <1>1, <1>2, <1>3, <1>4, SaveAmends

LEMMA DeleteLeaves ==
  ASSUME LoansInv, NEW l \in LoanId, Delete(l)
  PROVE  Audited!Leave(l)
<1> DEFINE e(at) == Event(l, "DELETED", Shown(loans[l].terms), at)
<1>1. PICK at \in Instants : ~Taken(e(at)) /\ trail' = trail \cup {e(at)}
                            /\ todo' = [entries |-> {}, removed |-> {l}]
  BY DEF Delete
<1>2. l \in DOMAIN loans /\ loans[l].terms \in LoanTerms /\ loans' = loans
      /\ todo.entries = {} /\ todo.removed = {}
  BY NothingToDo DEF Delete, Editing, Ready, OnBook, Idle, LoansInv, TypeOK, Loan
<1>3. e(at) \notin trail
  BY <1>1 DEF Taken
<1>4. e(at).loan = l /\ e(at).action = "DELETED" /\ e(at).new = Shown(loans[l].terms)
  BY DEF Event, Entry
<1> HIDE DEF e
<1>5. /\ Book = [k \in DOMAIN loans |-> loans[k].terms]
      /\ Book' = [k \in DOMAIN loans \ {l} |-> loans[k].terms]
      /\ Log' = Log \cup {e(at)} /\ Log' \ Log = {e(at)}
  BY <1>1, <1>2, <1>3 DEF Book, Log
<1>6. l \in DOMAIN Book /\ Book' = [k \in DOMAIN Book \ {l} |-> Book[k]] /\ Book[l] = loans[l].terms
  BY <1>2, <1>5
<1>7. Audited!Told(loans[l].terms, {e(at)}) = loans[l].terms
  BY <1>2, <1>4, ToldNothing DEF Shown, Restrict
<1>8. QED
  BY <1>4, <1>5, <1>6, <1>7 DEF Audited!Leave, Audited!Added, Book, Log

\* The second transactions change nothing the promise can see.
LEMMA WritesStutter ==
  ASSUME LoansInv, Dated, WriteTrail \/ RemoveLoan
  PROVE  UNCHANGED Audited!vars
<1>1. CASE WriteTrail
  <2>1. trail' = trail \cup todo.entries
    BY <1>1, DatedMeansNew DEF WriteTrail
  <2>2. todo.removed = {} /\ loans' = loans /\ todo'.entries = {} /\ todo'.removed = {}
    BY <1>1, NothingToDo DEF WriteTrail, LoansInv
  <2>3. QED
    BY <2>1, <2>2 DEF Audited!vars
<1>2. CASE RemoveLoan
  <2>1. todo.entries = {} /\ trail' = trail /\ todo'.entries = {} /\ todo'.removed = {}
        /\ loans' = [l \in DOMAIN loans \ todo.removed |-> loans[l]]
    BY <1>2, NothingToDo DEF RemoveLoan, LoansInv, Restrict
  <2>2. [l \in DOMAIN loans' \ todo'.removed |-> loans'[l].terms]
          = [l \in DOMAIN loans \ todo.removed |-> loans[l].terms]
    BY <2>1
  <2>3. QED
    BY <2>1, <2>2 DEF Audited!vars
<1>3. QED
  BY <1>1, <1>2

\* A crash before the entries are written costs them, and none before.
LEMMA CrashLosesEntries ==
  ASSUME LoansInv, Dated, Crash, todo.entries # {}
  PROVE  Audited!LoseEntries
<1>1. todo.removed = {} /\ loans' = loans /\ trail' = trail
      /\ todo'.entries = {} /\ todo'.removed = {}
  BY NothingToDo DEF Crash, LoansInv
<1>2. Log' = trail /\ Log \ Log' \subseteq todo.entries /\ Log' \subseteq Log
  BY <1>1 DEF Log
<1>3. Book' = Book
  BY <1>1 DEF Book
<1>4. \A kept \in Log', lost \in Log \ Log' : kept.at < lost.at
  BY <1>2 DEF Dated
<1>5. QED
  BY <1>2, <1>3, <1>4 DEF Audited!LoseEntries, Book, Log

\* A crash between the entry of a deletion and the deletion leaves the loan.
LEMMA CrashKeepsLoan ==
  ASSUME LoansInv, OneLeaves, Crash, NEW l \in todo.removed
  PROVE  Audited!KeepLoan(l)
<1>1. todo.entries = {} /\ todo.removed = {l} /\ loans' = loans /\ trail' = trail
      /\ todo'.entries = {} /\ todo'.removed = {}
  BY NothingToDo DEF Crash, LoansInv, OneLeaves
<1>2. l \in DOMAIN loans /\ loans[l].terms \in LoanTerms
  BY DEF LoansInv, TypeOK, Loan
<1>3. /\ Book = [k \in DOMAIN loans \ {l} |-> loans[k].terms]
      /\ Book' = [k \in DOMAIN loans |-> loans[k].terms]
      /\ Log = trail /\ Log' = trail
  BY <1>1 DEF Book, Log
<1>4. /\ l \notin DOMAIN Book /\ l \in DOMAIN Book' /\ Book'[l] = loans[l].terms
      /\ Book' = [k \in DOMAIN Book \cup {l} |-> IF k = l THEN Book'[l] ELSE Book[k]]
  BY <1>2, <1>3
<1>5. PICK e \in trail : /\ Deletes(e, l) /\ e.new = Shown(loans[l].terms)
                         /\ \A g \in trail : g.loan = l => g.at <= e.at
  BY DEF LoansInv, Deleted
<1>6. Audited!Told(loans[l].terms, {e}) = loans[l].terms
  BY <1>2, <1>5, ToldNothing DEF Shown, Restrict
<1>7. Audited!Joins(l)
  BY <1>2, <1>4 DEF Audited!Joins, Book
<1>8. \E d \in Log : /\ d.loan = l /\ d.action = "DELETED"
                     /\ Audited!Told(Book'[l], {d}) = Book'[l]
                     /\ \A g \in Log : g.loan = l => g.at <= d.at
  BY <1>3, <1>4, <1>5, <1>6 DEF Deletes
<1>9. Log' = Log
  BY <1>3
<1>10. QED
  BY <1>7, <1>8, <1>9 DEF Audited!KeepLoan, Book, Log

LEMMA StepsAudited ==
  ASSUME LoansInv, Dated, OneLeaves, ~SharedInstants, [Next]_vars
  PROVE  [Audited!Next]_(Audited!vars)
<1>1. CASE \E t \in Terms : Import(t) \/ \E confirmed \in BOOLEAN : Record(t, confirmed)
  BY <1>1, RecordEnters, ImportEnters DEF Audited!Next
<1>2. CASE \E l \in LoanId : \E e \in Edits : Edit(l, e)
  BY <1>2, EditAmends DEF Audited!Next
<1>3. CASE \E l \in LoanId : \E p \in Payments :
             Close(l, p.date) \/ RecordPrincipalRepayment(l, p) \/ RecordInterestPayment(l, p)
  BY <1>3, CloseAmends, RepaymentAmends, InterestAmends DEF Audited!Next
<1>4. CASE \E l \in LoanId : Reopen(l) \/ Delete(l)
  BY <1>4, ReopenAmends, DeleteLeaves DEF Audited!Next
<1>5. CASE WriteTrail \/ RemoveLoan
  BY <1>5, WritesStutter
<1>6. CASE Crash
  <2>1. todo.entries # {} \/ todo.removed # {}
    BY <1>6 DEF Crash, Idle, Nothing, LoansInv, TypeOK
  <2>2. CASE todo.entries # {}
    BY <1>6, <2>2, CrashLosesEntries DEF Audited!Next
  <2>3. CASE todo.removed # {}
    <3>1. PICK l \in todo.removed : TRUE
      BY <2>3
    <3>2. l \in LoanId
      BY <3>1 DEF LoansInv, TypeOK
    <3>3. QED
      BY <1>6, <3>1, <3>2, CrashKeepsLoan DEF Audited!Next
  <2>4. QED
    BY <2>1, <2>2, <2>3
<1>7. CASE Session \/ UNCHANGED vars
  BY <1>7 DEF Session, vars, Audited!vars
<1>8. QED
  BY <1>1, <1>2, <1>3, <1>4, <1>5, <1>6, <1>7 DEF Next

\* Loans and trail move together, as AuditedLoans has it, as long as no two
\* operations read the same instant: a crash costs the last entries or the
\* last deletion, and nothing before.
THEOREM LoansImplementAudited == ~SharedInstants /\ Spec => LoansAudited
<1>1. Init => Audited!Init
  <2>1. Init => [l \in DOMAIN loans \ todo.removed |-> loans[l].terms] = [l \in {} |-> l]
    BY NothingToDo DEF Init
  <2>2. QED
    BY <2>1, NothingToDo DEF Init, Audited!Init
<1>2. ASSUME ~SharedInstants
      PROVE  Spec => LoansAudited
  <2>1. Init => Dated /\ OneLeaves
    BY NothingToDo DEF Init, Dated, OneLeaves
  <2>2. LoansInv /\ Dated /\ [Next]_vars => Dated'
    BY <1>2, DatedInductive
  <2>3. OneLeaves /\ [Next]_vars => OneLeaves'
    BY OneLeavesInductive
  <2>4. LoansInv /\ Dated /\ OneLeaves /\ [Next]_vars => [Audited!Next]_(Audited!vars)
    BY <1>2, StepsAudited
  <2>5. QED
    BY <1>1, <2>1, <2>2, <2>3, <2>4, LoansInvariant, PTL DEF Spec, LoansAudited, Audited!Spec
<1>3. QED
  BY <1>2
---------------------------------------------------------------------------
(* What the log tells.  Final is LastWord, with the entries of the running *)
(* operation taken as written.                                             *)
Final(e, l, f) ==
  /\ Says(e, l, f)
  /\ \A g \in Log : Says(g, l, f) \/ Deletes(g, l) => g.at <= e.at
  /\ ~Deletes(e, l)

Explained == \A l \in DOMAIN Book, f \in Field, e \in Log : Final(e, l, f) => e.new[f] = Book[l][f]

\* A loan off the book was deleted after all else that is said of it.
ClosedOff ==
  \A e \in Log : e.loan \notin DOMAIN Book /\ ~Deletes(e, e.loan)
                 => \E g \in Log : Deletes(g, e.loan) /\ e.at < g.at

Connected ==
  \A e \in {x \in Log : x.action = "EDITED"} : \A f \in DOMAIN e.new, d \in Log :
    /\ Says(d, e.loan, f) /\ ~Deletes(d, e.loan) /\ d.at < e.at
    /\ \A g \in Log : g.at \in (d.at + 1)..(e.at - 1) => ~Says(g, e.loan, f) /\ ~Deletes(g, e.loan)
    => e.old[f] = d.new[f]

Telling == Explained /\ ClosedOff /\ Connected

\* A loan off the book has no last word.
LEMMA NoLastWord ==
  ASSUME LoansInv, ClosedOff, NEW l, l \notin DOMAIN Book, NEW e \in Log, NEW f
  PROVE  ~Final(e, l, f)
<1>1. SUFFICES ASSUME Final(e, l, f) PROVE FALSE
  OBVIOUS
<1>2. e.loan = l /\ ~Deletes(e, l)
  BY <1>1 DEF Final, Says
<1>3. PICK g \in Log : Deletes(g, l) /\ e.at < g.at
  BY <1>2 DEF ClosedOff
<1>4. g.at <= e.at
  BY <1>1, <1>3 DEF Final
<1>5. e.at \in Nat /\ g.at \in Nat
  BY DEF LoansInv, TypeOK, IsEntry, Log
<1>6. QED
  BY <1>3, <1>4, <1>5

(* Entries about one loan, later than all before: what they say is what    *)
(* the loan has, and what an edit says of the time before is what it had.  *)
Grows(l, new) ==
  /\ Log' = Log \cup new
  /\ \A e \in new : e.loan = l /\ e.at = now + 1
  /\ \A k : k # l => (k \in DOMAIN Book' <=> k \in DOMAIN Book)
  /\ \A k \in DOMAIN Book : k # l => Book'[k] = Book[k]
  /\ l \in DOMAIN Book' =>
       \A f \in Field :
         /\ \A e \in new : Says(e, l, f) => e.new[f] = Book'[l][f]
         /\ (\A e \in new : ~Says(e, l, f)) =>
              \A d \in Log : Final(d, l, f) => d.new[f] = Book'[l][f]
  /\ l \notin DOMAIN Book' => new # {} /\ \A g \in new : Deletes(g, l)
  /\ \A e \in new : e.action = "EDITED" =>
       l \in DOMAIN Book /\ \A f \in DOMAIN e.new : f \in Field /\ e.old[f] = Book[l][f]

LEMMA LogGrows ==
  ASSUME LoansInv, Telling, NEW l, NEW new, Grows(l, new)
  PROVE  Telling'
<1> USE DEF Grows
<1>1. now \in Nat /\ \A e \in Log : e.at \in Nat /\ e.at <= now
  BY DEF LoansInv, TypeOK, IsEntry, Log
<1>2. \A d \in Log, e \in new : d.at < e.at
  BY <1>1
<1>3. \A k, f : \A d \in Log : Final(d, k, f)' => Final(d, k, f)
  BY DEF Final
<1>4. ASSUME NEW k \in DOMAIN Book', NEW f \in Field, NEW e \in Log', Final(e, k, f)'
      PROVE  e.new[f] = Book'[k][f]
  <2>1. CASE k # l
    <3>1. e \in Log /\ k \in DOMAIN Book /\ Book'[k] = Book[k]
      BY <1>4, <2>1 DEF Final, Says
    <3>2. QED
      BY <1>3, <1>4, <3>1 DEF Telling, Explained
  <2>2. CASE k = l /\ e \in new
    BY <1>4, <2>2 DEF Final
  <2>3. CASE k = l /\ e \in Log
    <3>1. Final(e, k, f)
      BY <1>3, <1>4, <2>3
    <3>2. ASSUME NEW n \in new, Says(n, l, f)
          PROVE  FALSE
      <4>1. n.at <= e.at
        BY <1>4, <2>3, <3>2 DEF Final
      <4>2. e.at < n.at /\ e.at \in Nat /\ n.at \in Nat
        BY <1>1, <1>2, <2>3
      <4>3. QED
        BY <4>1, <4>2
    <3>3. QED
      BY <1>4, <2>3, <3>1, <3>2
  <2>4. QED
    BY <2>1, <2>2, <2>3
<1>5. ASSUME NEW e \in Log', e.loan \notin DOMAIN Book', ~Deletes(e, e.loan)
      PROVE  \E g \in Log' : Deletes(g, e.loan) /\ e.at < g.at
  <2>1. CASE e.loan # l
    BY <1>5, <2>1 DEF Telling, ClosedOff
  <2>2. CASE e.loan = l /\ e \in Log
    BY <1>2, <1>5, <2>2
  <2>3. CASE e.loan = l /\ e \in new
    BY <1>5, <2>3
  <2>4. QED
    BY <2>1, <2>2, <2>3
<1>6. ASSUME NEW e \in Log', e.action = "EDITED", NEW f \in DOMAIN e.new, NEW d \in Log',
             Says(d, e.loan, f), ~Deletes(d, e.loan), d.at < e.at,
             \A g \in Log' : g.at \in (d.at + 1)..(e.at - 1) =>
                               ~Says(g, e.loan, f) /\ ~Deletes(g, e.loan)
      PROVE  e.old[f] = d.new[f]
  <2>1. d \in Log
    BY <1>1, <1>6
  <2>2. CASE e \in Log
    BY <1>6, <2>1, <2>2 DEF Telling, Connected
  <2>3. CASE e \in new
    <3>1. e.loan = l /\ l \in DOMAIN Book /\ f \in Field /\ e.old[f] = Book[l][f] /\ e.at = now + 1
      BY <1>6, <2>3
    <3>2. ASSUME NEW g \in Log, Says(g, l, f) \/ Deletes(g, l)
          PROVE  g.at <= d.at
      <4>1. g.at \in Nat /\ g.at <= now /\ d.at \in Nat
        BY <1>1, <2>1
      <4>2. g.at \notin (d.at + 1)..(e.at - 1)
        BY <1>6, <3>1, <3>2
      <4>3. QED
        BY <1>1, <3>1, <4>1, <4>2
    <3>3. Final(d, l, f)
      BY <1>6, <3>1, <3>2 DEF Final
    <3>4. QED
      BY <2>1, <3>1, <3>3 DEF Telling, Explained
  <2>4. QED
    BY <2>2, <2>3
<1>7. Explained'
  BY <1>4 DEF Explained
<1>8. ClosedOff'
  BY <1>5 DEF ClosedOff
<1>9. Connected'
  BY <1>6 DEF Connected
<1>10. QED
  BY <1>7, <1>8, <1>9 DEF Telling

\* An operation on a loan on the book.
LEMMA SaveTells ==
  ASSUME LoansInv, ~SharedInstants, Idle, Telling, NEW l \in DOMAIN loans, NEW at \in Instants,
         NEW loan, NEW entries,
         \A e \in entries : e.at = at /\ e.loan = l,
         Save([loans EXCEPT ![l] = loan], entries, at),
         \A f \in Field :
           /\ \A e \in entries : f \in DOMAIN e.new => e.new[f] = loan.terms[f]
           /\ (\A e \in entries : f \notin DOMAIN e.new) => loan.terms[f] = loans[l].terms[f],
         \A e \in entries : e.action = "EDITED" =>
           \A f \in DOMAIN e.new : f \in Field /\ e.old[f] = loans[l].terms[f]
  PROVE  Telling'
<1>1. /\ Book = [k \in DOMAIN loans |-> loans[k].terms]
      /\ Book' = [k \in DOMAIN loans |-> [loans EXCEPT ![l] = loan][k].terms]
      /\ Log' = Log \cup entries
  BY SaveAdds
<1>2. at = now + 1
  BY DEF Instants
<1>3. Book'[l] = loan.terms /\ Book[l] = loans[l].terms /\ DOMAIN Book' = DOMAIN Book
      /\ l \in DOMAIN Book /\ \A k \in DOMAIN Book : k # l => Book'[k] = Book[k]
  BY <1>1
<1>4. \A f \in Field :
        /\ \A e \in entries : Says(e, l, f) => e.new[f] = Book'[l][f]
        /\ (\A e \in entries : ~Says(e, l, f)) =>
             \A d \in Log : Final(d, l, f) => d.new[f] = Book'[l][f]
  BY <1>3 DEF Says, Telling, Explained
<1>5. \A e \in entries : e.action = "EDITED" =>
        \A f \in DOMAIN e.new : f \in Field /\ e.old[f] = Book[l][f]
  BY <1>3
<1> HIDE DEF Book, Log
<1>6. Grows(l, entries)
  BY <1>1, <1>2, <1>3, <1>4, <1>5 DEF Grows
<1>7. QED
  BY <1>6, LogGrows

LEMMA RecordTells ==
  ASSUME LoansInv, ~SharedInstants, Telling, NEW t \in Terms, NEW confirmed \in BOOLEAN,
         Record(t, confirmed)
  PROVE  Telling'
<1> DEFINE action == IF Duplicates(t) = {} THEN "CREATED" ELSE "CREATED_AS_DUPLICATE"
           entry(l, at) == Event(l, action, Shown(t), at)
<1>1. PICK l \in LoanId, at \in Instants :
        IsFreeId(t, l) /\ Save(WithLoan(l, Fresh(t)), {entry(l, at)}, at)
  BY DEF Record
<1>2. /\ entry(l, at).at = at /\ entry(l, at).loan = l /\ entry(l, at).new = Shown(t)
      /\ entry(l, at).action # "EDITED"
  BY DEF Event, Entry
<1>3. Idle /\ l \notin DOMAIN loans
  BY <1>1 DEF Record, Ready, IsFreeId, OnBook
<1> DEFINE e == entry(l, at)
<1> HIDE DEF entry
<1>4. /\ Book = [k \in DOMAIN loans |-> loans[k].terms]
      /\ Book' = [k \in DOMAIN loans \cup {l} |-> WithLoan(l, Fresh(t))[k].terms]
      /\ Log' = Log \cup {e}
  <2>1. \A d \in {e} : d.at = at
    BY <1>2
  <2>2. /\ Book = [k \in DOMAIN loans |-> loans[k].terms]
        /\ Book' = [k \in DOMAIN WithLoan(l, Fresh(t)) |-> WithLoan(l, Fresh(t))[k].terms]
        /\ Log' = Log \cup {e}
    BY <1>1, <1>3, <2>1, SaveAdds
  <2>3. QED
    BY <2>2 DEF WithLoan
<1>5. /\ l \notin DOMAIN Book /\ l \in DOMAIN Book' /\ Book'[l] = t
      /\ DOMAIN Book' = DOMAIN Book \cup {l}
      /\ \A k \in DOMAIN Book : k # l => Book'[k] = Book[k]
  BY <1>3, <1>4 DEF WithLoan, Fresh
<1>6. \A f \in DOMAIN e.new : e.new[f] = t[f]
  BY <1>2 DEF Shown, Restrict
<1>7. \A f \in Field :
        /\ \A d \in {e} : Says(d, l, f) => d.new[f] = Book'[l][f]
        /\ \A d \in Log : ~Final(d, l, f)
  BY <1>5, <1>6, NoLastWord DEF Says, Telling
<1>8. at = now + 1
  BY DEF Instants
<1> HIDE DEF e, Book, Log
<1>9. \A d \in {e} : d.loan = l /\ d.at = now + 1 /\ d.action # "EDITED"
  BY <1>2, <1>8 DEF e
<1>10. Grows(l, {e})
  BY <1>4, <1>5, <1>7, <1>9 DEF Grows
<1>11. QED
  BY <1>10, LogGrows

LEMMA ImportTells ==
  ASSUME LoansInv, Telling, NEW t \in Terms, Import(t)
  PROVE  Telling'
<1> DEFINE l == <<t, 1>>
<1>1. l \notin DOMAIN loans /\ loans' = WithLoan(l, Fresh(t)) /\ todo.removed = {} /\ todo' = todo
      /\ trail' = trail
  BY NothingToDo DEF Import, Ready, Idle, OnBook
<1> HIDE DEF l
<1>2. /\ Book = [k \in DOMAIN loans |-> loans[k].terms]
      /\ Book' = [k \in DOMAIN loans \cup {l} |-> WithLoan(l, Fresh(t))[k].terms]
      /\ Log' = Log \cup {}
  BY <1>1 DEF Book, Log, WithLoan
<1>3. /\ l \notin DOMAIN Book /\ DOMAIN Book' = DOMAIN Book \cup {l}
      /\ \A k \in DOMAIN Book : k # l => Book'[k] = Book[k]
  BY <1>1, <1>2 DEF WithLoan
<1>4. \A f \in Field, d \in Log : ~Final(d, l, f)
  BY <1>3, NoLastWord DEF Telling
<1> HIDE DEF Book, Log
<1>5. Grows(l, {})
  BY <1>2, <1>3, <1>4 DEF Grows
<1>6. QED
  BY <1>5, LogGrows

LEMMA EditTells ==
  ASSUME LoansInv, ~SharedInstants, Telling, NEW l \in LoanId, NEW e \in Edits, Edit(l, e)
  PROVE  Telling'
<1> DEFINE terms == loans[l].terms
           loan == [loans[l] EXCEPT !.terms = Edited(terms, e)]
           notes(at) == Notes(l, terms, e, at)
<1>1. l \in DOMAIN loans /\ loans[l] \in Loan /\ terms \in LoanTerms /\ Idle
  BY DEF Edit, Editing, Ready, OnBook, LoansInv, TypeOK, Loan
<1>2. PICK at \in Instants : Save([loans EXCEPT ![l] = loan], notes(at), at)
  BY DEF Edit, WithTerms
<1>3. loan.terms = Edited(terms, e)
  BY <1>1 DEF Loan
<1>4. \A n \in notes(at) :
        /\ n.at = at /\ n.loan = l
        /\ \E f \in Moved(terms, e) :
             /\ DOMAIN n.new = {f} /\ n.new[f] = e[f]
             /\ DOMAIN n.old = {f} /\ n.old[f] = terms[f]
  <2>1. SUFFICES ASSUME NEW n \in notes(at)
                 PROVE  /\ n.at = at /\ n.loan = l
                        /\ \E f \in Moved(terms, e) :
                             /\ DOMAIN n.new = {f} /\ n.new[f] = e[f]
                             /\ DOMAIN n.old = {f} /\ n.old[f] = terms[f]
    OBVIOUS
  <2>2. PICK f \in Moved(terms, e) :
          n = Entry(l, "EDITED", Place(f, Moved(terms, e)), Only(f, terms[f]), Only(f, e[f]), at)
    BY <2>1 DEF Notes
  <2>3. n.at = at /\ n.loan = l /\ n.new = Only(f, e[f]) /\ n.old = Only(f, terms[f])
    BY <2>2 DEF Entry
  <2>4. QED
    BY <2>3 DEF Only
<1>5. Moved(terms, e) \subseteq Field /\ Moved(terms, e) \subseteq DOMAIN e
  BY HandLoansConstants DEF Moved
<1>6. ASSUME NEW f \in Field
      PROVE  /\ \A n \in notes(at) : f \in DOMAIN n.new => n.new[f] = loan.terms[f]
             /\ (\A n \in notes(at) : f \notin DOMAIN n.new) => loan.terms[f] = terms[f]
  <2>1. \A n \in notes(at) : f \in DOMAIN n.new => n.new[f] = loan.terms[f]
    BY <1>3, <1>4, <1>5, <1>6 DEF Edited
  <2>2. ASSUME \A n \in notes(at) : f \notin DOMAIN n.new
        PROVE  f \notin Moved(terms, e)
    <3>1. SUFFICES ASSUME f \in Moved(terms, e) PROVE FALSE
      OBVIOUS
    <3> DEFINE n == Entry(l, "EDITED", Place(f, Moved(terms, e)), Only(f, terms[f]), Only(f, e[f]), at)
    <3>2. n \in notes(at)
      BY <3>1 DEF Notes
    <3>3. f \in DOMAIN n.new
      BY DEF Entry, Only
    <3>4. QED
      BY <2>2, <3>2, <3>3
  <2>3. f \notin Moved(terms, e) => loan.terms[f] = terms[f]
    BY <1>3 DEF Edited, Moved
  <2>4. QED
    BY <2>1, <2>2, <2>3
<1>7. \A n \in notes(at) : \A f \in DOMAIN n.new : f \in Field /\ n.old[f] = terms[f]
  BY <1>4, <1>5
<1> HIDE DEF loan, notes
<1>8. QED
  BY <1>1, <1>2, <1>4, <1>6, <1>7, SaveTells

LEMMA EventTells ==
  ASSUME LoansInv, ~SharedInstants, Telling, Idle, NEW l \in DOMAIN loans, NEW at \in Instants,
         NEW loan, NEW action, action # "EDITED", NEW new,
         Save([loans EXCEPT ![l] = loan], {Event(l, action, new, at)}, at),
         \A f \in Field :
           /\ f \in DOMAIN new => new[f] = loan.terms[f]
           /\ f \notin DOMAIN new => loan.terms[f] = loans[l].terms[f]
  PROVE  Telling'
<1> DEFINE e == Event(l, action, new, at)
<1>1. e.at = at /\ e.loan = l /\ e.new = new /\ e.action = action
  BY DEF Event, Entry
<1> HIDE DEF e
<1>2. \A f \in Field :
        /\ \A d \in {e} : f \in DOMAIN d.new => d.new[f] = loan.terms[f]
        /\ (\A d \in {e} : f \notin DOMAIN d.new) => loan.terms[f] = loans[l].terms[f]
  BY <1>1
<1>3. Save([loans EXCEPT ![l] = loan], {e}, at)
  BY DEF e
<1>4. QED
  BY <1>1, <1>2, <1>3, SaveTells

LEMMA CloseTells ==
  ASSUME LoansInv, ~SharedInstants, Telling, NEW l \in LoanId,
         (\E p \in Payments : Close(l, p.date)) \/ Reopen(l)
  PROVE  Telling'
<1>1. l \in DOMAIN loans /\ loans[l] \in Loan /\ Idle
  BY DEF Close, Reopen, Editing, Ready, OnBook, LoansInv, TypeOK
<1> DEFINE Closing(action, date) ==
      \E at \in Instants :
        Save(WithTerms(l, [loans[l].terms EXCEPT !.closed = date]),
             {Event(l, action, [closed |-> date], at)}, at)
<1>2. (\E p \in Payments : Closing("CLOSED", p.date)) \/ Closing("REOPENED", None)
  BY DEF Close, Reopen
<1> HIDE DEF Closing
<1>3. PICK action, date : action # "EDITED" /\ Closing(action, date)
  BY <1>2
<1>4. PICK at \in Instants :
        Save(WithTerms(l, [loans[l].terms EXCEPT !.closed = date]),
             {Event(l, action, [closed |-> date], at)}, at)
  BY <1>3 DEF Closing
<1> DEFINE loan == [loans[l] EXCEPT !.terms = [loans[l].terms EXCEPT !.closed = date]]
<1>5. DOMAIN loans[l].terms = Field /\ loan.terms = [loans[l].terms EXCEPT !.closed = date]
  BY <1>1 DEF Loan, LoanTerms
<1>6. \A f \in Field :
        /\ f \in DOMAIN [closed |-> date] => [closed |-> date][f] = loan.terms[f]
        /\ f \notin DOMAIN [closed |-> date] => loan.terms[f] = loans[l].terms[f]
  BY <1>5
<1>7. Save([loans EXCEPT ![l] = loan], {Event(l, action, [closed |-> date], at)}, at)
  BY <1>4 DEF WithTerms
<1> HIDE DEF loan
<1>8. QED
  BY <1>1, <1>3, <1>6, <1>7, EventTells

LEMMA PaymentTells ==
  ASSUME LoansInv, ~SharedInstants, Telling, NEW l \in LoanId, NEW p \in Payments,
         RecordPrincipalRepayment(l, p) \/ RecordInterestPayment(l, p)
  PROVE  Telling'
<1>1. l \in DOMAIN loans /\ loans[l] \in Loan /\ Idle
  BY DEF RecordPrincipalRepayment, RecordInterestPayment, Editing, Ready, OnBook, LoansInv, TypeOK
<1> DEFINE Saving(action, loan) ==
      /\ \E at \in Instants :
           Save([loans EXCEPT ![l] = loan], {Event(l, action, Paid(p), at)}, at)
      /\ loan.terms = loans[l].terms
<1>2. PICK action, loan : action # "EDITED" /\ Saving(action, loan)
  <2> DEFINE repaid == [loans[l] EXCEPT !.repaid = loans[l].repaid \cup {p}]
             interest == [loans[l] EXCEPT !.interest = loans[l].interest \cup {p}]
  <2>1. repaid.terms = loans[l].terms /\ interest.terms = loans[l].terms
    BY <1>1 DEF Loan
  <2>2. CASE RecordPrincipalRepayment(l, p)
    <3>1. Saving("PRINCIPAL_REPAYMENT", repaid)
      BY <2>1, <2>2 DEF RecordPrincipalRepayment
    <3> HIDE DEF Saving, repaid
    <3>2. QED
      BY <3>1
  <2>3. CASE RecordInterestPayment(l, p)
    <3>1. Saving("INTEREST_PAYMENT", interest)
      BY <2>1, <2>3 DEF RecordInterestPayment
    <3> HIDE DEF Saving, interest
    <3>2. QED
      BY <3>1
  <2>4. QED
    BY <2>2, <2>3
<1>3. \A f \in Field : f \notin DOMAIN Paid(p)
  BY Fields DEF Paid
<1>4. QED
  BY <1>1, <1>2, <1>3, EventTells

LEMMA DeleteTells ==
  ASSUME LoansInv, ~SharedInstants, Telling, NEW l \in LoanId, Delete(l)
  PROVE  Telling'
<1> DEFINE e(at) == Event(l, "DELETED", Shown(loans[l].terms), at)
<1>1. PICK at \in Instants : trail' = trail \cup {e(at)}
                            /\ todo' = [entries |-> {}, removed |-> {l}]
  BY DEF Delete
<1>2. loans' = loans /\ todo.entries = {} /\ todo.removed = {}
  BY NothingToDo DEF Delete, Editing, Ready, Idle
<1>3. e(at).loan = l /\ e(at).action = "DELETED" /\ e(at).at = at
  BY DEF Event, Entry
<1> HIDE DEF e
<1>4. /\ Book = [k \in DOMAIN loans |-> loans[k].terms]
      /\ Book' = [k \in DOMAIN loans \ {l} |-> loans[k].terms]
      /\ Log' = Log \cup {e(at)}
  BY <1>1, <1>2 DEF Book, Log
<1>5. /\ l \notin DOMAIN Book'
      /\ \A k : k # l => (k \in DOMAIN Book' <=> k \in DOMAIN Book)
      /\ \A k \in DOMAIN Book : k # l => Book'[k] = Book[k]
  BY <1>4
<1>6. at = now + 1
  BY DEF Instants
<1>7. \E g \in {e(at)} : Deletes(g, l)
  BY <1>3 DEF Deletes
<1>8. \A g \in {e(at)} : g.loan = l /\ g.at = now + 1 /\ g.action # "EDITED"
  BY <1>3, <1>6
<1> HIDE DEF Book, Log
<1>9. Grows(l, {e(at)})
  BY <1>4, <1>5, <1>7, <1>8 DEF Grows
<1>10. QED
  BY <1>9, LogGrows

LEMMA TellingStutters ==
  ASSUME UNCHANGED Audited!vars, Telling
  PROVE  Telling'
<1>1. Book' = Book /\ Log' = Log
  BY DEF Audited!vars, Book, Log
<1>2. \A e, l, f : Final(e, l, f)' <=> Final(e, l, f)
  BY <1>1 DEF Final
<1>3. QED
  BY <1>1, <1>2 DEF Telling, Explained, ClosedOff, Connected

LEMMA TellingInductive ==
  ASSUME LoansInv, Dated, ~SharedInstants, crashes = 0 => Telling, [Next]_vars
  PROVE  (crashes = 0 => Telling)'
<1>1. CASE Crash
  BY <1>1 DEF Crash, LoansInv, TypeOK
<1>2. CASE crashes' = crashes /\ crashes # 0
  BY <1>2
<1>3. CASE ~Crash /\ crashes = 0
  <2>1. CASE \E t \in Terms : Import(t) \/ \E confirmed \in BOOLEAN : Record(t, confirmed)
    BY <1>3, <2>1, ImportTells, RecordTells
  <2>2. CASE \E l \in LoanId : \E e \in Edits : Edit(l, e)
    BY <1>3, <2>2, EditTells
  <2>3. CASE \E l \in LoanId : \E p \in Payments :
               Close(l, p.date) \/ RecordPrincipalRepayment(l, p) \/ RecordInterestPayment(l, p)
    BY <1>3, <2>3, CloseTells, PaymentTells
  <2>4. CASE \E l \in LoanId : Reopen(l) \/ Delete(l)
    BY <1>3, <2>4, CloseTells, DeleteTells
  <2>5. CASE WriteTrail \/ RemoveLoan
    BY <1>3, <2>5, WritesStutter, TellingStutters
  <2>6. CASE Session \/ UNCHANGED vars
    <3>1. UNCHANGED Audited!vars
      BY <2>6 DEF Session, vars, Audited!vars
    <3>2. QED
      BY <1>3, <3>1, TellingStutters
  <2>7. QED
    BY <1>3, <2>1, <2>2, <2>3, <2>4, <2>5, <2>6 DEF Next
<1>4. crashes' = crashes \/ Crash
  BY DEF Next, Import, Record, Edit, Close, RecordPrincipalRepayment, RecordInterestPayment, Reopen,
         Delete, Save, WriteTrail, RemoveLoan, Session, vars
<1>5. QED
  BY <1>1, <1>2, <1>3, <1>4

LEMMA TellingTells ==
  ASSUME LoansInv, Dated, Telling
  PROVE  TrailExplains /\ TrailConnects
<1>1. ASSUME Idle, NEW l \in DOMAIN loans, NEW f \in Field, NEW e \in trail, LastWord(e, l, f)
      PROVE  e.new[f] = loans[l].terms[f]
  <2>1. Log = trail /\ Book = [k \in DOMAIN loans |-> loans[k].terms]
    BY <1>1, NothingToDo DEF Idle, Log, Book
  <2>2. Final(e, l, f)
    BY <1>1, <2>1 DEF LastWord, Final
  <2>3. QED
    BY <1>1, <2>1, <2>2 DEF Telling, Explained
<1>2. ASSUME NEW e \in trail, e.action = "EDITED", NEW f \in DOMAIN e.new, NEW d \in trail,
             Says(d, e.loan, f), ~Deletes(d, e.loan), Follows(e, d, e.loan, f)
      PROVE  e.old[f] = d.new[f]
  <2>1. ASSUME NEW g \in Log, g.at \in (d.at + 1)..(e.at - 1)
        PROVE  ~Says(g, e.loan, f) /\ ~Deletes(g, e.loan)
    <3>1. e.at \in Nat /\ g.at \in Nat
      BY DEF LoansInv, TypeOK, IsEntry, Log
    <3>2. g \in trail
      BY <2>1, <3>1 DEF Log, Dated
    <3>3. QED
      BY <1>2, <2>1, <3>2 DEF Follows
  <2>2. d.at < e.at /\ e \in Log /\ d \in Log
    BY <1>2 DEF Follows, Log
  <2>3. QED
    BY <1>2, <2>1, <2>2 DEF Telling, Connected
<1>3. TrailExplains
  BY <1>1 DEF TrailExplains
<1>4. TrailConnects
  BY <1>2 DEF TrailConnects
<1>5. QED
  BY <1>3, <1>4

(* Until a crash, and as long as no two operations read the same instant,  *)
(* the trail of loan-audit.ts is evidence: its last entry on a field says  *)
(* the value on the book, and each entry starts from what the one before   *)
(* it left.                                                                *)
THEOREM TrailIsEvidence == ~SharedInstants /\ Spec => []TrailTells
<1> DEFINE Tells == crashes = 0 => Telling
<1>1. Init => Tells
  <2>1. Init => Log = {} /\ DOMAIN Book = {}
    BY NothingToDo DEF Init, Log, Book
  <2>2. QED
    BY <2>1 DEF Telling, Explained, ClosedOff, Connected
<1>2. LoansInv /\ Dated /\ Tells => TrailTells
  BY TellingTells DEF TrailTells
<1>3. ASSUME ~SharedInstants
      PROVE  Spec => []TrailTells
  <2>1. Init => Dated
    BY NothingToDo DEF Init, Dated
  <2>2. LoansInv /\ Dated /\ [Next]_vars => Dated'
    BY <1>3, DatedInductive
  <2>3. LoansInv /\ Dated /\ Tells /\ [Next]_vars => Tells'
    BY <1>3, TellingInductive
  <2> HIDE DEF Tells
  <2>4. QED
    BY <1>1, <1>2, <2>1, <2>2, <2>3, LoansInvariant, PTL DEF Spec
<1>4. QED
  BY <1>3
=============================================================================
