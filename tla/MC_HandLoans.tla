---------------------------- MODULE MC_HandLoans ----------------------------
(***************************************************************************)
(* A small instance of HandLoans: loans entered with the same terms, and   *)
(* the edits that move one off them, to another borrower, day or sum, and  *)
(* back onto them.                                                         *)
(***************************************************************************)
EXTENDS HandLoans, TLC

CONSTANTS Ann, Bob

Lent(b, p) == [borrower |-> b, principal |-> p, start |-> 1, closed |-> None]
Pay(d, a, s) == [date |-> d, amount |-> a, spelling |-> s]

MCEntered == {Lent(Ann, 1), Lent(Ann, 0)}
MCEdits == {
  ("borrower" :> Bob) @@ ("start" :> 2),
  ("borrower" :> Ann) @@ ("principal" :> 1) @@ ("start" :> 1) @@ ("closed" :> None),
  ("principal" :> 2) @@ ("closed" :> 3)}
OneSpelling == {Pay(2, 1, 1)}
=============================================================================
