------------------------------- MODULE MCClients -------------------------------
(* A TLC instance of Clients. *)
EXTENDS Clients, TLC

\* What staff grant with a key, and what they write directly: a limit or a term.
OneGrant == {<<1, 1>>}
OneOfTwo == {<<1, Keep>>, <<Keep, 1>>}

Symmetry == Permutations(Calls) \cup Permutations(Emails) \cup Permutations(Objects)
=============================================================================
