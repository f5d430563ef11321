---------------------------- MODULE MCProgramme ----------------------------
(* TLC instances of Programme. *)
EXTENDS Programme, TLC

Recurring == {[due |-> None, recurring |-> TRUE, sender |-> TRUE]}

\* One launches and recurs, one has no sending domain and is refused for good.
GoodAndBad == {[due |-> None, recurring |-> TRUE,  sender |-> TRUE],
               [due |-> None, recurring |-> FALSE, sender |-> FALSE]}
=============================================================================
