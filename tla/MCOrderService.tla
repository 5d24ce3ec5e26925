--------------------------- MODULE MCOrderService ---------------------------
(* Small instances of OrderService for TLC. *)
EXTENDS OrderService, TLC

CONSTANTS h1, h2, h3, o1, o2, k1, k2

MCNone == "no value"

Goroutines == Permutations({h1, h2, h3})
HeaderKeys == Permutations({k1, k2})
OrderNames == Permutations({o1, o2})
Symmetric  == Goroutines \cup HeaderKeys \cup OrderNames
=============================================================================
