-------------------------- MODULE MCActionLifecycle --------------------------
(* TLC instance of ActionLifecycle: identifiers are interchangeable. *)
EXTENDS ActionLifecycle, TLC

Identifiers == Permutations(Actions) \cup Permutations(Workers)
                 \cup Permutations(Tasks)
=============================================================================
