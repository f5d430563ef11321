------------------------------- MODULE MCAccounts -------------------------------
(* A TLC instance of Accounts. *)
EXTENDS Accounts, TLC

\* One person on the client's domain, one who is not.
OneOutside == [p1 |-> "d1", p2 |-> None]
\* The second API and the worker are newer by one migration.
Rolling == [a1 |-> 2, a2 |-> 3, w |-> 3]

Symmetry == Permutations(Calls) \cup Permutations(Emails)
=============================================================================
