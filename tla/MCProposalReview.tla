-------------------------- MODULE MCProposalReview --------------------------
(* TLC instance of RuntimeTurn with ProposalReview; RunsEnd is temporal:     *)
(* no symmetry.                                                              *)
EXTENDS ProposalReview, TLC
=============================================================================
