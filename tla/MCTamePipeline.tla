--------------------------- MODULE MCTamePipeline ---------------------------
(* TamePipeline for TLC; the constants are given in the .cfg file. *)
EXTENDS TamePipeline
=============================================================================
