----------------------------- MODULE MCStartup -----------------------------
(* TLC instances of Startup. *)
EXTENDS Startup, TLC

OneEach == [a1 |-> 2, w |-> 2]
=============================================================================
