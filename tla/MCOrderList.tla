---------------------------- MODULE MCOrderList ----------------------------
(* Small instances of OrderList for TLC. *)
EXTENDS OrderList, TLC

CONSTANTS h1, h2

Symmetric == Permutations({h1, h2})
=============================================================================
