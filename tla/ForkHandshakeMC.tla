-------------------------- MODULE ForkHandshakeMC ---------------------------
(* Threads for model checking ForkHandshake.                               *)
EXTENDS ForkHandshake
CONSTANTS main, t1, t2, t3
=============================================================================
