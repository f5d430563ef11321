------------------------------- MODULE MCRequests -------------------------------
(* A TLC instance of Requests. *)
EXTENDS Requests, TLC

Symmetry == Permutations(Persons) \cup Permutations(Tenants)
=============================================================================
