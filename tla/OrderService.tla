---------------------------- MODULE OrderService ----------------------------
(***************************************************************************)
(* Orders and their payment: the order handlers of internal/server,        *)
(* internal/usecase/order_service.go and the order repositories.           *)
(*                                                                         *)
(* As in TaskService, a handler is the goroutine of one request.  In       *)
(* memory it works on the shared order object, field by field and with no  *)
(* lock; in PostgreSQL on a copy of the row, which Put writes back whole.  *)
(* An order is its status, its Idempotency-Key and its payment parameters; *)
(* the parameters made by the n-th Pay request are n, since each one       *)
(* contains a fresh prepay id, and 0 is the empty string.                  *)
(***************************************************************************)
EXTENDS Naturals

CONSTANTS
  Handlers,     \* goroutines; a slot serves one request after the other
  OrderIDs,     \* bounds the number of orders ever created
  Keys,         \* Idempotency-Key headers
  None,         \* no order, no key
  Torn,         \* a key whose pointer and length come from two writers
  MaxPays,      \* bounds the number of Pay requests
  Storages,     \* the storages the server may have chosen
  RepoMayFail,  \* a database query may fail: Put's error is dropped, Get reports "not found"
  MayCrash      \* the process may be killed and started again

ASSUME OrderAssumption ==
  /\ MaxPays \in Nat
  /\ Storages \subseteq {"memory", "postgres"}
  /\ RepoMayFail \in BOOLEAN
  /\ MayCrash \in BOOLEAN
  /\ None \notin OrderIDs \cup Keys
  /\ Torn \notin Keys \cup {None}

VARIABLES
  storage,   \* "memory" or "postgres"
  orders,    \* order objects of the memory repository, or rows of table orders
  issued,    \* ids randomID has returned
  known,     \* ids an answer of POST /api/orders has told a client
  pays,      \* number of Pay requests so far
  keyOf,     \* the key the n-th Pay request came with
  answered,  \* payment parameters clients were given: [id, key, params]
  notified,  \* orders a callback has reported paid
  pc,        \* per handler: the place it has reached
  req,       \*   the operation, the order, the key or status sent, its Pay number
  copy,      \*   a private order object
  answer     \*   the status code and the payment parameters

history == <<issued, known, pays, keyOf, answered, notified>>
vars    == <<storage, orders, history, pc, req, copy, answer>>

(* domain.OrderStatus, "none" for an order the repository does not have,   *)
(* and "torn" for the pointer of one constant with the length of another.  *)
Sent     == {"paid", "pending", "canceled", "refunded"}
Statuses == {"none", "created", "torn"} \cup Sent

Params == 0..MaxPays
Orders == [status : Statuses, key : Keys \cup {None, Torn}, params : Params]

NoOrder  == [status |-> "none", key |-> None, params |-> 0]
NewOrder == [status |-> "created", key |-> None, params |-> 0]

PayPcs      == {"check_paid", "check_key", "check_cached", "set_pending", "set_key", "set_params", "put"}
CallbackPcs == {"set_status", "put_status"}
Pcs         == {"idle", "encode", "reply"} \cup PayPcs \cup CallbackPcs

Ops      == {"none", "create", "get", "pay", "callback"}
Requests == [op : Ops, id : OrderIDs \cup {None}, key : Keys \cup {None},
             status : Sent \cup {"none", "invalid"}, n : Params]
Answers  == [code : {0, 200, 400, 404, 409, 500}, params : Params]

Request(op, id, k, s, n) == [op |-> op, id |-> id, key |-> k, status |-> s, n |-> n]

NoRequest == Request("none", None, None, "none", 0)
NoAnswer  == [code |-> 0, params |-> 0]

Init == /\ storage \in Storages
        /\ orders = [id \in OrderIDs |-> NoOrder]
        /\ issued = {}
        /\ known = {}
        /\ pays = 0
        /\ keyOf = [n \in 1..MaxPays |-> None]
        /\ answered = {}
        /\ notified = {}
        /\ pc = [g \in Handlers |-> "idle"]
        /\ req = [g \in Handlers |-> NoRequest]
        /\ copy = [g \in Handlers |-> NoOrder]
        /\ answer = [g \in Handlers |-> NoAnswer]

----------------------------------------------------------------------------
(* Repository: a private copy exists in PostgreSQL only.                   *)
Copy(o)    == IF storage = "memory" THEN NoOrder ELSE o
Current(g) == IF storage = "memory" THEN orders[req[g].id] ELSE copy[g]

Fails       == RepoMayFail /\ storage = "postgres"
Found(id)   == orders[id].status # "none"
Missing(id) == ~Found(id) \/ Fails

Saves(id, o) == {[orders EXCEPT ![id] = o]} \cup (IF Fails THEN {orders} ELSE {})

(* The operators marked "mutant" are used nowhere: each is a plausible bug *)
(* in the next definition, and shows that a property would notice it.      *)
NeverPaid(o)     == FALSE                          \* mutant: no look at the status
IsPaid(o)        == o.status = "paid"
AnyKey(o, k)     == FALSE                          \* mutant: no key is refused
OtherKey(o, k)   == o.key \notin {None, k}
NeverCached(o, k) == FALSE                         \* mutant: parameters are always made anew
Cached(o, k)     == o.key = k /\ o.params # 0

PaidAtOnce(o)    == [o EXCEPT !.status = "paid"]   \* mutant: mock payments need no callback
WithPending(o)   == [o EXCEPT !.status = "pending"]
KeyDropped(o, k) == o                              \* mutant: the key is not stored
KeyCleared(o, k) == [o EXCEPT !.key = IF o.key = None THEN k ELSE None]  \* mutant: a retry resets the key
WithKey(o, k)    == [o EXCEPT !.key = k]
WithParams(o, n) == [o EXCEPT !.params = n]
StatusMisread(o, s) == [o EXCEPT !.status = "done"]  \* mutant: not a domain.OrderStatus
WithStatus(o, s) == [o EXCEPT !.status = s]

At(g, p)   == pc[g] = p
Goto(g, p) == pc' = [pc EXCEPT ![g] = p]
Begin(g, r) == req' = [req EXCEPT ![g] = r]
Answer(g, code, n) == /\ answer' = [answer EXCEPT ![g] = [code |-> code, params |-> n]]
                      /\ Goto(g, "reply")

(* Assign fields of the order object: at once visible in memory, private   *)
(* until Put in PostgreSQL.                                                *)
Assign(g, o) ==
  \/ /\ storage = "memory"
     /\ orders' = [orders EXCEPT ![req[g].id] = o]
     /\ UNCHANGED copy
  \/ /\ storage = "postgres"
     /\ copy' = [copy EXCEPT ![g] = o]
     /\ UNCHANGED orders

(* Put: in memory the object is in the map already.                        *)
PutOrder(g) ==
  IF storage = "memory" THEN UNCHANGED orders ELSE orders' \in Saves(req[g].id, copy[g])

----------------------------------------------------------------------------
(* POST /api/orders: the task exists (TaskService) and the fields are      *)
(* valid.  The answer tells the id even when Put fails.                    *)
Create(g, id) ==
  /\ At(g, "idle")
  /\ id \notin issued
  /\ issued' = issued \cup {id}
  /\ orders' \in Saves(id, NewOrder)
  /\ Begin(g, Request("create", id, None, "none", 0))
  /\ Answer(g, 200, 0)
  /\ UNCHANGED <<known, pays, keyOf, answered, notified, copy>>

(* GET /api/orders/{id}: the JSON encoder reads the object after Get has   *)
(* released the lock.                                                      *)
GetOrder(g, id) ==
  /\ At(g, "idle")
  /\ id \in known
  /\ Begin(g, Request("get", id, None, "none", 0))
  /\ \/ /\ Found(id)
        /\ copy' = [copy EXCEPT ![g] = Copy(orders[id])]
        /\ Goto(g, "encode")
        /\ UNCHANGED answer
     \/ /\ Missing(id)
        /\ Answer(g, 404, 0)
        /\ UNCHANGED copy
  /\ UNCHANGED <<orders, history>>

Encode(g) ==
  /\ At(g, "encode")
  /\ copy' = [copy EXCEPT ![g] = Current(g)]
  /\ Answer(g, 200, 0)
  /\ UNCHANGED <<orders, history, req>>

(* POST /api/pay/wechat and /douyin, with PERMIT_PAY_MOCK.                 *)
Pay(g, id, k) ==
  /\ At(g, "idle")
  /\ id \in known
  /\ pays < MaxPays
  /\ pays' = pays + 1
  /\ keyOf' = [keyOf EXCEPT ![pays + 1] = k]
  /\ Begin(g, Request("pay", id, k, "none", pays + 1))
  /\ \/ /\ Found(id)
        /\ copy' = [copy EXCEPT ![g] = Copy(orders[id])]
        /\ Goto(g, "check_paid")
        /\ UNCHANGED answer
     \/ /\ Missing(id)
        /\ Answer(g, 404, 0)
        /\ UNCHANGED copy
  /\ UNCHANGED <<orders, issued, known, answered, notified>>

(* POST /api/pay/callback; "invalid" is a status no case of the switch     *)
(* has.                                                                    *)
Callback(g, id, s) ==
  /\ At(g, "idle")
  /\ id \in known
  /\ Begin(g, Request("callback", id, None, s, 0))
  /\ \/ /\ Found(id)
        /\ copy' = [copy EXCEPT ![g] = Copy(orders[id])]
        /\ Goto(g, "set_status")
        /\ UNCHANGED answer
     \/ /\ Missing(id)
        /\ Answer(g, 404, 0)
        /\ UNCHANGED copy
  /\ UNCHANGED <<orders, history>>

----------------------------------------------------------------------------
(* OrderService.Pay reads and writes one field after the other.            *)
CheckPaid(g) ==
  /\ At(g, "check_paid")
  /\ \/ IsPaid(Current(g)) /\ Answer(g, 409, 0)
     \/ ~IsPaid(Current(g)) /\ Goto(g, "check_key") /\ UNCHANGED answer
  /\ UNCHANGED <<orders, history, req, copy>>

CheckKey(g) ==
  LET other == OtherKey(Current(g), req[g].key) IN
  /\ At(g, "check_key")
  /\ \/ other /\ Answer(g, 409, 0)
     \/ ~other /\ Goto(g, "check_cached") /\ UNCHANGED answer
  /\ UNCHANGED <<orders, history, req, copy>>

CheckCached(g) ==
  LET cached == Cached(Current(g), req[g].key) IN
  /\ At(g, "check_cached")
  /\ \/ cached /\ Answer(g, 200, Current(g).params)
     \/ ~cached /\ Goto(g, "set_pending") /\ UNCHANGED answer
  /\ UNCHANGED <<orders, history, req, copy>>

SetPending(g) ==
  /\ At(g, "set_pending")
  /\ Assign(g, WithPending(Current(g)))
  /\ Goto(g, "set_key")
  /\ UNCHANGED <<history, req, answer>>

SetKey(g) ==
  /\ At(g, "set_key")
  /\ Assign(g, WithKey(Current(g), req[g].key))
  /\ Goto(g, "set_params")
  /\ UNCHANGED <<history, req, answer>>

SetParams(g) ==
  /\ At(g, "set_params")
  /\ Assign(g, WithParams(Current(g), req[g].n))
  /\ Goto(g, "put")
  /\ UNCHANGED <<history, req, answer>>

PutPay(g) ==
  /\ At(g, "put")
  /\ PutOrder(g)
  /\ Answer(g, 200, req[g].n)
  /\ UNCHANGED <<history, req, copy>>

(* OrderService.Callback.                                                  *)
SetStatus(g) ==
  /\ At(g, "set_status")
  /\ req[g].status \in Sent
  /\ Assign(g, WithStatus(Current(g), req[g].status))
  /\ notified' = IF req[g].status = "paid" THEN notified \cup {req[g].id} ELSE notified
  /\ Goto(g, "put_status")
  /\ UNCHANGED <<issued, known, pays, keyOf, answered, req, answer>>

CallbackRefused(g) ==
  /\ At(g, "set_status")
  /\ req[g].status \notin Sent
  /\ Answer(g, 400, 0)
  /\ UNCHANGED <<orders, history, req, copy>>

PutStatus(g) ==
  /\ At(g, "put_status")
  /\ PutOrder(g)
  /\ Answer(g, 200, 0)
  /\ UNCHANGED <<history, req, copy>>

----------------------------------------------------------------------------
(* Data races on the shared object.  A Go string is a pointer and a        *)
(* length, stored by two instructions.                                     *)
Racing(g, h, p, q) == /\ storage = "memory"
                      /\ g # h
                      /\ pc[g] = p
                      /\ pc[h] = q
                      /\ req[g].id = req[h].id

(* Two writers leave the pointer of one and the length of the other.       *)
TornKey(g, h) ==
  /\ Racing(g, h, "set_key", "set_key")
  /\ req[g].key # req[h].key
  /\ orders' = [orders EXCEPT ![req[g].id] = WithKey(@, Torn)]
  /\ pc' = [pc EXCEPT ![g] = "set_params", ![h] = "set_params"]
  /\ UNCHANGED <<history, req, copy, answer>>

(* No torn value reads as "paid": a length of its own sets it apart from   *)
(* every other status, while "canceled" and "refunded" have the same.      *)
AfterStatus(p) == IF p = "set_pending" THEN "set_key" ELSE "put_status"
Written(g)     == IF pc[g] = "set_pending" THEN "pending" ELSE req[g].status

TornStatus(g, h) ==
  /\ \E p \in {"set_pending", "set_status"} : Racing(g, h, p, "set_status")
  /\ Written(g) # Written(h)
  /\ {Written(g), Written(h)} \subseteq Sent
  /\ {Written(g), Written(h)} # {"canceled", "refunded"}
  /\ orders' = [orders EXCEPT ![req[g].id] = WithStatus(@, "torn")]
  /\ notified' = IF "paid" \in {Written(g), Written(h)} THEN notified \cup {req[g].id} ELSE notified
  /\ pc' = [pc EXCEPT ![g] = AfterStatus(@), ![h] = AfterStatus(@)]
  /\ UNCHANGED <<issued, known, pays, keyOf, answered, req, copy, answer>>

(* A reader meets a nil pointer with a length; gin.Recovery answers 500.   *)
PanicRead(g) ==
  /\ \E h \in Handlers :
       \/ /\ Racing(g, h, "check_key", "set_key") \/ Racing(g, h, "check_cached", "set_key")
          /\ Current(g).key = None
       \/ Racing(g, h, "check_cached", "set_params") /\ Current(g).params = 0
  /\ Answer(g, 500, 0)
  /\ UNCHANGED <<orders, history, req, copy>>

----------------------------------------------------------------------------
(* The answer is sent and the goroutine ends.                              *)
Receipt(g) == [id |-> req[g].id, key |-> req[g].key, params |-> answer[g].params]

Reply(g) ==
  /\ At(g, "reply")
  /\ known' = IF req[g].op = "create" THEN known \cup {req[g].id} ELSE known
  /\ answered' = IF req[g].op = "pay" /\ answer[g].code = 200 THEN answered \cup {Receipt(g)} ELSE answered
  /\ Goto(g, "idle")
  /\ req' = [req EXCEPT ![g] = NoRequest]
  /\ copy' = [copy EXCEPT ![g] = NoOrder]
  /\ answer' = [answer EXCEPT ![g] = NoAnswer]
  /\ UNCHANGED <<orders, issued, pays, keyOf, notified>>

(* The process dies and starts again: requests and memory are gone, rows   *)
(* stay.                                                                   *)
Crash ==
  /\ MayCrash
  /\ pc'     = [g \in Handlers |-> "idle"]
  /\ req'    = [g \in Handlers |-> NoRequest]
  /\ copy'   = [g \in Handlers |-> NoOrder]
  /\ answer' = [g \in Handlers |-> NoAnswer]
  /\ orders' = IF storage = "memory" THEN [id \in OrderIDs |-> NoOrder] ELSE orders
  /\ UNCHANGED history

Start(g) == \E id \in OrderIDs :
              \/ Create(g, id) \/ GetOrder(g, id)
              \/ \E k \in Keys : Pay(g, id, k)
              \/ \E s \in Sent \cup {"invalid"} : Callback(g, id, s)

PayStep(g) == \/ CheckPaid(g) \/ CheckKey(g) \/ CheckCached(g) \/ SetPending(g)
              \/ SetKey(g) \/ SetParams(g) \/ PutPay(g)

CallbackStep(g) == SetStatus(g) \/ CallbackRefused(g) \/ PutStatus(g)

Step(g) == PayStep(g) \/ CallbackStep(g) \/ Encode(g) \/ PanicRead(g) \/ Reply(g)

Next == /\ \/ \E g \in Handlers : Start(g) \/ Step(g)
           \/ \E g, h \in Handlers : TornKey(g, h) \/ TornStatus(g, h)
           \/ Crash
        /\ UNCHANGED storage

Spec == Init /\ [][Next]_vars

(* Clients that do not let requests which write one order overlap: from    *)
(* its first look at the order to its Put, a Pay or a callback then has it *)
(* for itself.  The code does not see to it.                               *)
Writing(g)    == pc[g] \in PayPcs \cup CallbackPcs
Exclusive     == \A g, h \in Handlers : g # h /\ Writing(g) /\ Writing(h) => req[g].id # req[h].id
ExclusiveSpec == Init /\ [][Next /\ Exclusive']_vars

----------------------------------------------------------------------------
(* The places of an operation are only reached by its requests.            *)
Placed ==
  \A g \in Handlers :
    /\ pc[g] # "idle" => req[g].op # "none" /\ req[g].id \in issued
    /\ pc[g] \in PayPcs => req[g].op = "pay"
    /\ pc[g] \in CallbackPcs => req[g].op = "callback"
    /\ req[g].op = "pay" => req[g].n \in 1..pays /\ keyOf[req[g].n] = req[g].key /\ req[g].key \in Keys
    /\ pc[g] = "put_status" => req[g].status \in Sent

(* Every variable holds what the program can put there.                    *)
TypeOK ==
  /\ storage \in Storages
  /\ orders \in [OrderIDs -> Orders]
  /\ issued \subseteq OrderIDs
  /\ known \subseteq issued
  /\ pays \in Params
  /\ keyOf \in [1..MaxPays -> Keys \cup {None}]
  /\ answered \subseteq [id : OrderIDs, key : Keys, params : Params]
  /\ notified \subseteq issued
  /\ pc \in [Handlers -> Pcs]
  /\ req \in [Handlers -> Requests]
  /\ copy \in [Handlers -> Orders]
  /\ answer \in [Handlers -> Answers]
  /\ Placed

(* No interleaving, torn write, lost row or stale copy makes an order paid *)
(* that no callback has reported paid (order_service.go 53, 76-85): paid   *)
(* objects come from SetStatus, or are copies of such.                     *)
PaidOnlyAfterNotice ==
  /\ \A id \in OrderIDs : orders[id].status = "paid" => id \in notified
  /\ \A g \in Handlers : copy[g].status = "paid" => req[g].id \in notified

(* An order with payment parameters has a key, so that a Pay with another  *)
(* key is refused (43-45) however the writers of lines 53-66 interleave.   *)
ParamsHaveKey == \A id \in OrderIDs : orders[id].params # 0 => orders[id].key # None

(* Once bound to a key, a shared order object is never free again for any *)
(* key to pay, however its writers tear it; only a restart loses it        *)
(* (43-54).  A row loses its key to a stale copy.                          *)
KeysKept ==
  \A id \in OrderIDs : orders[id].key # None =>
    orders'[id].key # None \/ (orders'[id] = NoOrder /\ pc' = [g \in Handlers |-> "idle"])
KeyNeverCleared == [][storage = "memory" => KeysKept]_vars

(* Parameters stored with a key were made for it, whichever of several     *)
(* stale rows was written last (52-67): the cache of 46-50 relies on it.   *)
(* In memory the fields of two Pay requests can be mixed.                  *)
ParamsMatchKey ==
  storage = "postgres" => \A id \in OrderIDs : orders[id].params # 0 => orders[id].key = keyOf[orders[id].params]

(* A Pay can be retried: no order is answered two different parameters or  *)
(* keys (40-50), with lost answers and crashes between Put and answer.  So *)
(* the code does for requests that do not overlap on an order;             *)
(* docs/API对接文档_V1.md:231-232 says it of all.                           *)
IdempotentPay ==
  \A a, b \in answered : a.id = b.id => a = b

(* Only a callback takes an order out of paid (40-42).  So the code does   *)
(* for requests that do not overlap on an order; docs/开发架构规范.md:71    *)
(* says it of all.                                                         *)
PaidNotUndone ==
  [][\A g \in Handlers, id \in OrderIDs :
       PayStep(g) /\ orders[id].status = "paid" => orders'[id].status = "paid"]_vars

(* The inductive invariant behind ParamsHaveKey and ParamsMatchKey: every  *)
(* order object, stored or private, binds its parameters to a key, ...     *)
Binds(o) == o.params # 0 => /\ o.key # None
                            /\ o.params <= pays
                            /\ storage = "postgres" => o.key = keyOf[o.params]

(* ... and a Pay that goes past the look in the cache has bound the key, or *)
(* in PostgreSQL has a copy without parameters, when it stores its own.    *)
PayInv ==
  /\ \A id \in OrderIDs : Binds(orders[id])
  /\ \A g \in Handlers : Binds(copy[g]) /\ (pc[g] = "idle" => copy[g] = NoOrder)
  /\ \A g \in Handlers : pc[g] = "set_params" => Current(g).key # None
  /\ storage = "postgres" => \A g \in Handlers :
       /\ pc[g] = "check_cached" => copy[g].key \in {None, req[g].key}
       /\ pc[g] \in {"set_pending", "set_key", "set_params"} => copy[g].params = 0
       /\ pc[g] = "set_params" => copy[g].key = req[g].key

(* Unless requests overlap on an order, orders and answers in PostgreSQL   *)
(* are those of OrderLedger.                                               *)
Ledger == INSTANCE OrderLedger WITH ledger <- orders, told <- answered
ImplementsLedger == Ledger!LedgerSpec
=============================================================================
