----------------------------- MODULE OrderLedger -----------------------------
(***************************************************************************)
(* What the order service promises: a ledger in which an order is charged  *)
(* at most once, under one key and with parameters of its own, and the     *)
(* receipts handed out, which say what the ledger says.                    *)
(***************************************************************************)
EXTENDS Naturals

CONSTANTS OrderIDs, Keys, None, MaxPays

VARIABLES ledger, told

lvars == <<ledger, told>>

Absent == [status |-> "none", key |-> None, params |-> 0]

LedgerInit == /\ ledger = [id \in OrderIDs |-> Absent]
              /\ told = {}

Exists(id) == ledger[id].status # "none"

Open(id) ==
  /\ ~Exists(id)
  /\ ledger' = [ledger EXCEPT ![id].status = "created"]
  /\ UNCHANGED told

Charge(id, k, n) ==
  /\ Exists(id)
  /\ ledger[id].status # "paid"
  /\ ledger[id].params = 0
  /\ \A other \in OrderIDs : ledger[other].params # n
  /\ ledger' = [ledger EXCEPT ![id] = [status |-> "pending", key |-> k, params |-> n]]
  /\ UNCHANGED told

Notice(id, s) ==
  /\ Exists(id)
  /\ ledger' = [ledger EXCEPT ![id].status = s]
  /\ UNCHANGED told

Tell(id) ==
  /\ ledger[id].params # 0
  /\ told' = told \cup {[id |-> id, key |-> ledger[id].key, params |-> ledger[id].params]}
  /\ UNCHANGED ledger

LedgerNext ==
  \E id \in OrderIDs :
    \/ Open(id) \/ Tell(id)
    \/ \E k \in Keys, n \in 1..MaxPays : Charge(id, k, n)
    \/ \E s \in {"paid", "pending", "canceled", "refunded"} : Notice(id, s)

LedgerSpec == LedgerInit /\ [][LedgerNext]_lvars
=============================================================================
