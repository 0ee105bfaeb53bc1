------------------------ MODULE MCGenerationAttempt ------------------------
(* TLC instance of GenerationAttempt.  AttemptsEnd is temporal: no symmetry. *)
EXTENDS GenerationAttempt, TLC
=============================================================================
