-------------------------- MODULE MCDialogueSession --------------------------
(* TLC instance of DialogueSession: identifiers are interchangeable. *)
EXTENDS DialogueSession, TLC

Identifiers == Permutations(Turns) \cup Permutations(Decisions)
                 \cup Permutations(Workers)
=============================================================================
