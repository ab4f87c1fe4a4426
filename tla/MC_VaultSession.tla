------------------------- MODULE MC_VaultSession -------------------------
(* Two tabs, two passphrases, one other vault's archive.                   *)
EXTENDS VaultSession, TLC

CONSTANTS p1, p2, ownSalt, otherSalt

MCForeignArchives ==
  {[db |-> [key |-> [salt |-> otherSalt, pass |-> p2], rows |-> None], meta |-> otherSalt]}

Symmetry == Permutations(Req)
=============================================================================
