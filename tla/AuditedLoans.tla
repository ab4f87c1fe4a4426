---------------------------- MODULE AuditedLoans ----------------------------
(***************************************************************************)
(* What the hand-loan register promises: a book of loans and a trail that  *)
(* change together.  A loan comes in with an entry, or from a file without *)
(* one; its terms become what the entries added say of them, and nothing   *)
(* else; it leaves with an entry that says so.  Entries are never taken    *)
(* back, but by a crash, which may cost the entries of the last operation, *)
(* or leave the loan it deleted on the book: never anything before it.     *)
(***************************************************************************)
EXTENDS Naturals

CONSTANTS LoanId, LoanTerms

VARIABLES
  book,   \* the terms of the loans on the book, by id
  log     \* the entries

vars == <<book, log>>
---------------------------------------------------------------------------
Added == log' \ log
Creation == {"CREATED", "CREATED_AS_DUPLICATE"}

(* The terms once the entries are taken into account.                      *)
Told(terms, entries) ==
  [f \in DOMAIN terms |->
     IF \E e \in entries : f \in DOMAIN e.new
     THEN (CHOOSE e \in entries : f \in DOMAIN e.new).new[f]
     ELSE terms[f]]

(* A loan comes on the book, with terms a loan can have.                   *)
Joins(l) ==
  /\ l \notin DOMAIN book
  /\ l \in DOMAIN book'
  /\ book'[l] \in LoanTerms
  /\ book' = [k \in DOMAIN book \cup {l} |-> IF k = l THEN book'[l] ELSE book[k]]

Enter(l) ==
  /\ Joins(l)
  /\ \/ log' = log
     \/ \E e \in Added :
          /\ log' = log \cup {e}
          /\ e.loan = l /\ e.action \in Creation
          /\ Told(book'[l], {e}) = book'[l]

Amend(l) ==
  /\ l \in DOMAIN book
  /\ log \subseteq log'
  /\ Added # {}
  /\ \A e \in Added : e.loan = l /\ e.action \notin Creation \cup {"DELETED"}
  /\ book' = [book EXCEPT ![l] = Told(@, Added)]

Leave(l) ==
  /\ l \in DOMAIN book
  /\ book' = [k \in DOMAIN book \ {l} |-> book[k]]
  /\ \E e \in Added :
       /\ log' = log \cup {e}
       /\ e.loan = l /\ e.action = "DELETED"
       /\ Told(book[l], {e}) = book[l]

(* The process dies before the entries are written ...                     *)
LoseEntries ==
  /\ log' \subseteq log
  /\ \A kept \in log', lost \in log \ log' : kept.at < lost.at
  /\ UNCHANGED book

(* ... or after the entry of a deletion and before the loan is removed.    *)
KeepLoan(l) ==
  /\ Joins(l)
  /\ log' = log
  /\ \E e \in log :
       /\ e.loan = l /\ e.action = "DELETED"
       /\ Told(book'[l], {e}) = book'[l]
       /\ \A d \in log : d.loan = l => d.at <= e.at

Init == book = [l \in {} |-> l] /\ log = {}

Next ==
  \/ \E l \in LoanId : Enter(l) \/ Amend(l) \/ Leave(l) \/ KeepLoan(l)
  \/ LoseEntries

Spec == Init /\ [][Next]_vars
=============================================================================
