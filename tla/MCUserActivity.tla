--------------------------- MODULE MCUserActivity ---------------------------
(* TLC instance of UserActivity. *)
EXTENDS UserActivity
=============================================================================
