----------------------------- MODULE SpecStore ------------------------------
(***************************************************************************)
(* The specs of ID photos: GET and POST /api/specs, UpsertSpecs and        *)
(* ListSpecs of internal/infrastructure/repo/postgres.go.  Every update    *)
(* stores the same rows, so a row is its code.                             *)
(***************************************************************************)
EXTENDS Server, Naturals, FiniteSets

VARIABLES
  specs,  \* codes with a committed row
  tx      \* per handler: codes its open transaction has written and locked

specVars == <<specs, tx>>

(* The list built in, and the one POST /api/specs stores.                  *)
DefaultSpecs == {"passport", "cn_1inch", "cn_2inch", "cn_2inch_small", "cn_1inch_large"}

UpdateOrder == <<"cn_1inch", "cn_2inch", "cn_2inch_small", "cn_1inch_large", "cn_social_security">>
Codes == {UpdateOrder[i] : i \in 1..5}

SpecsInit == /\ specs = {}
             /\ tx = [g \in Handlers |-> {}]

(* The rows a transaction may write next.                                  *)
AnyCode(written)  == Codes \ written    \* mutant: the specs are ranged over as a map
NextCode(written) == {UpdateOrder[Cardinality(written) + 1]}

(* ON CONFLICT waits for the transaction that wrote the row.               *)
Open(g)     == At(g, "upsert")
Waits(g, h) == /\ g # h /\ Open(g) /\ Open(h)
               /\ tx[g] # Codes
               /\ NextCode(tx[g]) \cap tx[h] # {}

(* POST /api/specs; without a database it is answered 501.                 *)
BeginUpdate(g) ==
  /\ At(g, "idle")
  /\ storage = "postgres"
  /\ Goto(g, "upsert")
  /\ UNCHANGED <<storage, specs, tx>>

Autocommitted(code) == specs \cup {code}   \* mutant: db.Exec instead of the transaction
AfterUpsert(code)   == specs

Upsert(g, code) ==
  /\ Open(g)
  /\ tx[g] # Codes
  /\ code \in NextCode(tx[g])
  /\ \A h \in Handlers \ {g} : code \notin tx[h]
  /\ tx' = [tx EXCEPT ![g] = @ \cup {code}]
  /\ specs' = AfterUpsert(code)
  /\ UNCHANGED <<storage, pc>>

Commit(g) ==
  /\ Open(g)
  /\ tx[g] = Codes
  /\ specs' = specs \cup Codes
  /\ tx' = [tx EXCEPT ![g] = {}]
  /\ Goto(g, "idle")
  /\ UNCHANGED storage

(* Prepare, a statement or the commit fails: the deferred Rollback.        *)
RollBack(g) ==
  /\ Open(g)
  /\ Fails
  /\ tx' = [tx EXCEPT ![g] = {}]
  /\ Goto(g, "idle")
  /\ UNCHANGED <<storage, specs>>

SpecsNext ==
  \E g \in Handlers :
    \/ \E code \in Codes : Upsert(g, code)
    \/ Commit(g) \/ RollBack(g)

(* The database rolls back what the dead process had open.                 *)
SpecsRestart == /\ tx' = [g \in Handlers |-> {}]
                /\ UNCHANGED specs

(* The rows ListSpecs can return: all, or, as it does not look at rows.Err *)
(* when the loop ends, those before the connection broke.  They come by    *)
(* name, which is not modelled, so any of them may be missing.             *)
ListSpecs == {specs} \cup (IF Fails THEN SUBSET specs ELSE {})

(* GET /api/specs; an error and an empty table give the list built in.     *)
Advertised(rows) == IF storage = "postgres" /\ rows # {} THEN rows ELSE DefaultSpecs

----------------------------------------------------------------------------
(* Every variable holds what the program can put there.                    *)
SpecsTypeOK == specs \subseteq Codes /\ tx \in [Handlers -> SUBSET Codes]

(* No client is shown half an update: with failing statements, restarts in *)
(* a transaction and several updates at once, all rows of one list are     *)
(* advertised or all of the other; a read that breaks off shows rows of    *)
(* one list only, if not all of them (postgres.go 168-207).                *)
AdvertisedWhole ==
  /\ Advertised(specs) \in {DefaultSpecs, Codes}
  /\ \A rows \in ListSpecs : Advertised(rows) = DefaultSpecs \/ Advertised(rows) \subseteq Codes

(* Updates never wait for each other in a circle: if transactions are open *)
(* one of them can go on (postgres.go 181-186).                            *)
SomeUpdateMoves ==
  (\E g \in Handlers : Open(g)) =>
    \E g \in Handlers : Open(g) /\ \A h \in Handlers : ~Waits(g, h)
=============================================================================
