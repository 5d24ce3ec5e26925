------------------------------ MODULE MCBackend ------------------------------
(* Small instances of Backend for TLC. *)
EXTENDS Backend, TLC

CONSTANTS h1, h2, u1, u2, u3

Symmetric == Permutations({h1, h2}) \cup Permutations({u1, u2, u3})
=============================================================================
