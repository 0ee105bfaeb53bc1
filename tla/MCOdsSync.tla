----------------------------- MODULE MCOdsSync ------------------------------
(* TLC instance of OdsSync: the scripts are interchangeable. *)
EXTENDS OdsSync, TLC

Scripts == Permutations(Syncs)
=============================================================================
