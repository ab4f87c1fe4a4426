----------------------------- MODULE MC_Screens -----------------------------
(* Every screen of the client, one per behaviour, with two filters.        *)
EXTENDS Screens
CONSTANTS Chosen, Other
MCFilters == {Chosen, Other}
=============================================================================
