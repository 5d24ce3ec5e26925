------------------------------- MODULE Server -------------------------------
(***************************************************************************)
(* What all requests of internal/server/server.go share: the storage that  *)
(* New chose when the process started, the goroutines, and the restart     *)
(* that ends them all.  A table is a function of the storage it is in:     *)
(* maps in memory are lost at a restart, rows stay, and a server sees only *)
(* the storage it has chosen.                                              *)
(***************************************************************************)

CONSTANTS
  Handlers,      \* goroutines; a slot serves one request after the other
  DSN,           \* POSTGRES_DSN is set
  QueryMayFail,  \* the database may answer a query with an error
  MayRestart     \* the process may be killed and started again

ASSUME ServerAssumption == {DSN, QueryMayFail, MayRestart} \subseteq BOOLEAN

VARIABLES
  storage,  \* what the repositories keep their tables in
  pc        \* per handler: the place it has reached

Stores == {"memory", "postgres"}

(* New: a database that is not reachable is silently replaced by maps.     *)
Selected(reachable) == IF DSN /\ reachable THEN "postgres" ELSE "memory"
Boot == \E reachable \in BOOLEAN : storage' = Selected(reachable)

(* New assigns the repositories one by one.                                *)
UserRepo == storage
TaskRepo == storage
AlwaysMemory == "memory"   \* mutant: the adapter pgOrderRepo is forgotten
OrderRepo == storage

Fails == QueryMayFail /\ storage = "postgres"

(* A table after a restart.                                                *)
Kept(table, empty) == [table EXCEPT !["memory"] = empty]

At(g, p)   == pc[g] = p
Goto(g, p) == pc' = [pc EXCEPT ![g] = p]

ServerInit == /\ storage \in {Selected(reachable) : reachable \in BOOLEAN}
              /\ pc = [g \in Handlers |-> "idle"]

Killed == /\ MayRestart
          /\ Boot
          /\ pc' = [g \in Handlers |-> "idle"]
=============================================================================
