----------------------------- MODULE MCAsyncIo ------------------------------
(* Two daemons and memory of four units, which grows twice. *)
EXTENDS AsyncIo
=============================================================================
