----------------------------- MODULE MCChildren -----------------------------
(* Children, and with it SignalLoop, for TLC: one process number is used   *)
(* twice, also while zombies still holds its first status.                 *)
EXTENDS Children

MCMaxGen == [p \in Pids |-> IF p = 1 THEN 2 ELSE 1]
=============================================================================
