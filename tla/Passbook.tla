------------------------------ MODULE Passbook ------------------------------
(***************************************************************************)
(* What a register of instalments promises its holder, whatever the        *)
(* instalments are paid into: an account is opened empty, a payment told   *)
(* any number of times is one payment, and nothing paid is taken away      *)
(* unless changes to existing records are unprotected.  A register that    *)
(* Reopens lets opening an account again empty it; one that does not       *)
(* refuses.                                                                *)
(***************************************************************************)
CONSTANTS Accounts, Payments, Reopens

VARIABLES
  paid,    \* the payments of every account open
  editing  \* changes to existing records are allowed

vars == <<paid, editing>>
---------------------------------------------------------------------------
Open(a) ==
  /\ a \in DOMAIN paid => Reopens
  /\ paid' = [b \in DOMAIN paid \cup {a} |-> IF b = a THEN {} ELSE paid[b]]
  /\ UNCHANGED editing

Pay(a) ==
  /\ a \in DOMAIN paid
  /\ \E p \in Payments : paid' = [paid EXCEPT ![a] = @ \cup {p}]
  /\ UNCHANGED editing

Remove(a) ==
  /\ editing
  /\ a \in DOMAIN paid
  /\ paid' = [b \in DOMAIN paid \ {a} |-> paid[b]]
  /\ UNCHANGED editing

Protect == editing' \in BOOLEAN /\ UNCHANGED paid

Init == paid = [a \in {} |-> {}] /\ editing \in BOOLEAN

Next ==
  \/ \E a \in Accounts : Open(a) \/ Pay(a) \/ Remove(a)
  \/ Protect

Spec == Init /\ [][Next]_vars
=============================================================================
