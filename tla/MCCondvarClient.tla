--------------------------- MODULE MCCondvarClient ---------------------------
(* TLC instance of CondvarClient. *)
EXTENDS CondvarClient, TLC
==============================================================================
