-------------------------- MODULE MCThreadRegistry --------------------------
(* One external id and enough UUIDs for a root, a call and its response.   *)
EXTENDS ThreadRegistry, TLC

CONSTANTS a, b, x, u1, u2, u3

\* UUIDs and names are alike.
IdSymmetry == Permutations({u1, u2, u3}) \cup Permutations({a, b})
=============================================================================
