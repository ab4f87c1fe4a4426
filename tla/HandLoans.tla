----------------------------- MODULE HandLoans -----------------------------
(***************************************************************************)
(* The hand-loan register and its audit trail: LoanUC of use-cases.ts, the *)
(* pure edit of loan-audit.ts and the append-only table behind it.         *)
(*                                                                         *)
(* Every operation on a loan is two SQLite transactions, one on the loan   *)
(* and one on the trail, with nothing of another request in between; the   *)
(* process may die there, and the second may fail on an entry id already   *)
(* in the table, which the entry's content and the clock make up.          *)
(*                                                                         *)
(* Abstractions: the rate and the notes are edited as the principal is and *)
(* are left out, with the reason of an entry and the mode of a payment; a  *)
(* spelling is a way of writing an amount that Money.parse reads as the    *)
(* same number; a borrower is the hash of his name; an import is one row   *)
(* of the hand-loan template, without payments of its own.                 *)
(***************************************************************************)
EXTENDS Naturals, FiniteSets, Functions

CONSTANTS
  Entered,         \* the terms a user or a file enters for a loan
  Edits,           \* the edit forms submitted: new values by field
  Payments,        \* the payments entered: date, amount, spelling
  MaxSame,         \* bound on loans entered with the same terms
  MaxTime,         \* bound on the clock, which each operation moves
  MaxCrashes,      \* bound on crashes
  SharedInstants,  \* two operations may read the same time of the clock
  None             \* no closing date

(* The fields of an edit, and the order applyEdit looks at them.           *)
Order == [borrower |-> 1, principal |-> 2, start |-> 3, closed |-> 4]
Field == DOMAIN Order

Terms == {t \in Entered : t.principal > 0}
LoanId == Terms \X (1..MaxSame)
Value(f) == {t[f] : t \in Terms} \cup {e[f] : e \in {x \in Edits : f \in DOMAIN x}}
                \cup IF f = "closed" THEN {p.date : p \in Payments} \cup {None} ELSE {}
LoanTerms == {t \in [Field -> UNION {Value(f) : f \in Field}] : \A f \in Field : t[f] \in Value(f)}
Loan == [terms : LoanTerms, repaid : SUBSET Payments, interest : SUBSET Payments]

ASSUME HandLoansConstants ==
  /\ SharedInstants \in BOOLEAN
  /\ MaxSame \in Nat \ {0} /\ MaxTime \in Nat /\ MaxCrashes \in Nat
  /\ \A t \in Entered : t = [f \in Field |-> t[f]] /\ t.principal \in Nat /\ t.closed = None
  /\ \A e \in Edits : DOMAIN e \in SUBSET Field /\ DOMAIN e # {}
  /\ \A p \in Payments : DOMAIN p = {"date", "amount", "spelling"} /\ p.amount \in Nat

VARIABLES
  loans,    \* the loans on the book, by id
  trail,    \* hand_loan_audit: time and index of an entry give its place
  todo,     \* what the running operation has still to write
  mode,     \* the vault: locked, unlocked, or unlocked in edit mode
  now,      \* the clock
  crashes   \* crashes so far, bounded

vars == <<loans, trail, todo, mode, now, crashes>>
---------------------------------------------------------------------------
Nothing == [entries |-> {}, removed |-> {}]
Idle == todo = Nothing
Instants == IF SharedInstants THEN {now, now + 1} ELSE {now + 1}

(* An entry says what it was about: the terms it changed, before and       *)
(* after.  The id of an edit is made of its place in the edit, of the      *)
(* others of what they say.                                                *)
Entry(l, action, index, old, new, at) ==
  [loan |-> l, action |-> action, index |-> index, old |-> old, new |-> new, at |-> at]
Event(l, action, new, at) == Entry(l, action, 0, <<>>, new, at)
EntryId(e) ==
  IF e.action = "EDITED" THEN <<e.loan, e.at, e.index>> ELSE <<e.loan, e.action, e.at, e.new>>
Taken(e) == \E t \in trail : EntryId(t) = EntryId(e)
Shown(terms) == Restrict(terms, {"principal", "start"})

\* The first transaction of an operation; the trail is next.
Save(book, entries, at) ==
  /\ loans' = book
  /\ todo' = [entries |-> entries, removed |-> {}]
  /\ now' = at
  /\ UNCHANGED <<trail, mode, crashes>>

Ready == Idle /\ mode # "locked" /\ now < MaxTime
Editing == Ready /\ mode = "editing"
OnBook(l) == l \in DOMAIN loans
---------------------------------------------------------------------------
(* duplicatesOf: the same borrower on the same day, whatever the amount.   *)
Duplicates(t) ==
  {l \in DOMAIN loans : loans[l].terms.borrower = t.borrower /\ loans[l].terms.start = t.start}

\* Fault: the derived id is taken although a loan has it.
BaseId(t, l) == l = <<t, 1>>
(* freeLoanId: the first suffix no asset has.                              *)
IsFreeId(t, l) ==
  \E n \in 1..MaxSame :
    /\ l = <<t, n>>
    /\ ~OnBook(l)
    /\ \A m \in 1..(n - 1) : OnBook(<<t, m>>)

Fresh(t) == [terms |-> t, repaid |-> {}, interest |-> {}]
WithLoan(l, loan) == [k \in DOMAIN loans \cup {l} |-> IF k = l THEN loan ELSE loans[k]]

Record(t, confirmed) ==
  /\ Ready
  /\ Duplicates(t) = {} \/ confirmed
  /\ \E l \in LoanId, at \in Instants :
       /\ IsFreeId(t, l)
       /\ Save(WithLoan(l, Fresh(t)),
               {Event(l, IF Duplicates(t) = {} THEN "CREATED" ELSE "CREATED_AS_DUPLICATE",
                      Shown(t), at)}, at)

(* A row of a file lands on the loan of its terms and leaves the terms of  *)
(* a loan already there alone; it writes no entry.                         *)
Import(t) ==
  /\ Ready
  /\ ~OnBook(<<t, 1>>)
  /\ loans' = WithLoan(<<t, 1>>, Fresh(t))
  /\ UNCHANGED <<trail, todo, mode, now, crashes>>
---------------------------------------------------------------------------
(* applyEdit: one entry for each field that moved, numbered in the order   *)
(* of the fields, and none for an edit that moves nothing.                 *)
Moved(terms, e) == {f \in DOMAIN e : e[f] # terms[f]}
\* Fault: clearing the date leaves the first of all dates.
EditedOpen(terms, e) ==
  [f \in Field |-> IF f \notin DOMAIN e THEN terms[f] ELSE IF e[f] = None THEN 0 ELSE e[f]]
Edited(terms, e) == [f \in Field |-> IF f \in DOMAIN e THEN e[f] ELSE terms[f]]
Only(f, value) == [g \in {f} |-> value]
Place(f, moved) == Cardinality({g \in moved : Order[g] < Order[f]})
\* Fault: a field is noted only if it had a value before.
NotesFromSome(l, terms, e, at) ==
  LET moved == {f \in Moved(terms, e) : terms[f] # None}
  IN {Entry(l, "EDITED", Place(f, moved), Only(f, terms[f]), Only(f, e[f]), at) : f \in moved}
Notes(l, terms, e, at) ==
  LET moved == Moved(terms, e)
  IN {Entry(l, "EDITED", Place(f, moved), Only(f, terms[f]), Only(f, e[f]), at) : f \in moved}

WithTerms(l, terms) == [loans EXCEPT ![l].terms = terms]

Edit(l, e) ==
  /\ Editing /\ OnBook(l)
  /\ Moved(loans[l].terms, e) # {}
  /\ \E at \in Instants :
       Save(WithTerms(l, Edited(loans[l].terms, e)), Notes(l, loans[l].terms, e, at), at)

Close(l, date) ==
  /\ Editing /\ OnBook(l)
  /\ \E at \in Instants :
       Save(WithTerms(l, [loans[l].terms EXCEPT !.closed = date]),
            {Event(l, "CLOSED", [closed |-> date], at)}, at)

Reopen(l) ==
  /\ Editing /\ OnBook(l)
  /\ \E at \in Instants :
       Save(WithTerms(l, [loans[l].terms EXCEPT !.closed = None]),
            {Event(l, "REOPENED", [closed |-> None], at)}, at)
---------------------------------------------------------------------------
(* A payment of nothing is refused.  paymentIdFor makes the id of the date *)
(* and the amount as it was typed; the table refuses an id it has.         *)
IsNewPayment(p, payments) == p.amount > 0 /\ p \notin payments

Paid(p) == [date |-> p.date, amount |-> p.amount]

RecordPrincipalRepayment(l, p) ==
  /\ Ready /\ OnBook(l)
  /\ IsNewPayment(p, loans[l].repaid)
  /\ \E at \in Instants :
       Save([loans EXCEPT ![l].repaid = @ \cup {p}],
            {Event(l, "PRINCIPAL_REPAYMENT", Paid(p), at)}, at)

RecordInterestPayment(l, p) ==
  /\ Ready /\ OnBook(l)
  /\ IsNewPayment(p, loans[l].interest)
  /\ \E at \in Instants :
       Save([loans EXCEPT ![l].interest = @ \cup {p}],
            {Event(l, "INTEREST_PAYMENT", Paid(p), at)}, at)
---------------------------------------------------------------------------
\* Fault: the loan first, the trail then.
DeleteFirst(l) ==
  /\ Editing /\ OnBook(l)
  /\ \E at \in Instants :
       Save(Restrict(loans, DOMAIN loans \ {l}),
            {Event(l, "DELETED", Shown(loans[l].terms), at)}, at)
(* The trail, then the loan.  An entry the table has leaves the loan.      *)
Delete(l) ==
  /\ Editing /\ OnBook(l)
  /\ \E at \in Instants :
       LET entry == Event(l, "DELETED", Shown(loans[l].terms), at)
       IN /\ ~Taken(entry)
          /\ trail' = trail \cup {entry}
          /\ todo' = [entries |-> {}, removed |-> {l}]
          /\ now' = at
  /\ UNCHANGED <<loans, mode, crashes>>

---------------------------------------------------------------------------
(* LoanAuditRepository.append: all entries in one transaction, or none of  *)
(* them when the table has the id of one.                                  *)
WriteTrail ==
  /\ todo.entries # {}
  /\ trail' = IF \E e \in todo.entries : Taken(e) THEN trail ELSE trail \cup todo.entries
  /\ todo' = Nothing
  /\ UNCHANGED <<loans, mode, now, crashes>>

(* AssetRepository.delete: the payments go with the loan.                  *)
RemoveLoan ==
  /\ todo.removed # {}
  /\ loans' = Restrict(loans, DOMAIN loans \ todo.removed)
  /\ todo' = Nothing
  /\ UNCHANGED <<trail, mode, now, crashes>>

Crash ==
  /\ ~Idle /\ crashes < MaxCrashes
  /\ crashes' = crashes + 1
  /\ todo' = Nothing
  /\ mode' = "locked"
  /\ UNCHANGED <<loans, trail, now>>

(* Unlocking, edit mode and locking: VaultSession says when.               *)
Session ==
  /\ Idle
  /\ \/ mode = "locked" /\ mode' = "unlocked"
     \/ mode = "unlocked" /\ mode' \in {"editing", "locked"}
     \/ mode = "editing" /\ mode' \in {"unlocked", "locked"}
  /\ UNCHANGED <<loans, trail, todo, now, crashes>>

Init ==
  /\ loans = [l \in {} |-> Fresh(l)]
  /\ trail = {}
  /\ todo = Nothing
  /\ mode = "locked"
  /\ now = 0
  /\ crashes = 0

Next ==
  \/ \E t \in Terms : Import(t) \/ \E confirmed \in BOOLEAN : Record(t, confirmed)
  \/ \E l \in LoanId :
       \/ \E e \in Edits : Edit(l, e)
       \/ \E p \in Payments :
            \/ Close(l, p.date)
            \/ RecordPrincipalRepayment(l, p)
            \/ RecordInterestPayment(l, p)
       \/ Reopen(l)
       \/ Delete(l)
  \/ WriteTrail
  \/ RemoveLoan
  \/ Crash
  \/ Session

Spec == Init /\ [][Next]_vars
---------------------------------------------------------------------------
Action == {"CREATED", "CREATED_AS_DUPLICATE", "EDITED", "CLOSED", "REOPENED",
           "PRINCIPAL_REPAYMENT", "INTEREST_PAYMENT", "DELETED"}
IsEntry(e) == e.loan \in LoanId /\ e.action \in Action /\ e.index \in Nat /\ e.at \in Nat

(* The loans, the trail and the running operation have the shapes the      *)
(* repositories read and write.                                            *)
TypeOK ==
  /\ DOMAIN loans \in SUBSET LoanId /\ \A l \in DOMAIN loans : loans[l] \in Loan
  /\ \A e \in trail \cup todo.entries : IsEntry(e)
  /\ todo = [entries |-> todo.entries, removed |-> todo.removed]
  /\ todo.removed \in SUBSET DOMAIN loans
  /\ mode \in {"locked", "unlocked", "editing"}
  /\ now \in Nat /\ crashes \in 0..MaxCrashes

(* What the trail says last of a field of a loan, if the loan was not      *)
(* deleted since.                                                          *)
Says(e, l, f) == e.loan = l /\ f \in DOMAIN e.new
Deletes(e, l) == e.loan = l /\ e.action = "DELETED"
LastWord(e, l, f) ==
  /\ Says(e, l, f)
  /\ \A g \in trail : Says(g, l, f) \/ Deletes(g, l) => g.at <= e.at
  /\ ~Deletes(e, l)

(* loan-audit.ts: the trail is the evidence of how the value on the screen *)
(* came about, and the caller of applyEdit persists both or neither.  When *)
(* nothing is running, the last entry on a field of a loan on the book     *)
(* says the value it has.                                                  *)
TrailExplains ==
  Idle => \A l \in DOMAIN loans, f \in Field, e \in trail :
            LastWord(e, l, f) => e.new[f] = loans[l].terms[f]

(* loan-audit.ts: an entry carries the old value and the new, and nothing  *)
(* moves in between: the next entry on a field starts from the value the   *)
(* last one left.                                                          *)
Follows(e, d, l, f) ==
  /\ d.at < e.at
  /\ \A g \in trail : g.at \in (d.at + 1)..(e.at - 1) => ~Says(g, l, f) /\ ~Deletes(g, l)
TrailConnects ==
  \A e \in {x \in trail : x.action = "EDITED"} : \A f \in DOMAIN e.new, d \in trail :
    Says(d, e.loan, f) /\ ~Deletes(d, e.loan) /\ Follows(e, d, e.loan, f)
    => e.old[f] = d.new[f]

(* Both, until a crash falls between the two transactions of a change:     *)
(* AuditedLoans says what that may cost.                                   *)
TrailTells == crashes = 0 => TrailExplains /\ TrailConnects

(* loan-audit.ts: the caller persists both or neither.  With what the      *)
(* running operation has still to write taken as written, loans and trail  *)
(* move together, as AuditedLoans has it.                                  *)
Audited == INSTANCE AuditedLoans WITH
  book <- [l \in DOMAIN loans \ todo.removed |-> loans[l].terms],
  log <- trail \cup todo.entries
LoansAudited == Audited!Spec

(* The comment of LoanUC.delete: a loan never vanishes with no record of   *)
(* why.  Whatever crashed before, the last entry about a loan that leaves  *)
(* the book is its deletion, with the terms it had.                        *)
DeletionOnRecord ==
  [][\A l \in DOMAIN loans \ DOMAIN loans' :
       \E e \in trail :
         /\ Deletes(e, l) /\ e.new = Shown(loans[l].terms)
         /\ \A g \in trail : g.loan = l => g.at <= e.at]_vars

(* README, edit mode: recording is always available, changing and deleting *)
(* a loan is not.                                                          *)
OnlyAdditions ==
  [][mode # "editing" =>
       /\ DOMAIN loans \subseteq DOMAIN loans'
       /\ \A l \in DOMAIN loans : loans[l].terms = loans'[l].terms]_vars
=============================================================================
