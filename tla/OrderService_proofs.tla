------------------------ MODULE OrderService_proofs ------------------------
(* Theorems about OrderService, for every value of its constants. *)
EXTENDS OrderService, TLAPS

----------------------------------------------------------------------------
(* What the helpers keep.                                                  *)

(* Every assignment of Pay and Callback makes an order of an order.        *)
LEMMA OrderOperators ==
  ASSUME NEW o \in Orders, NEW k \in Keys, NEW n \in Params, NEW s \in Sent
  PROVE  /\ WithPending(o) \in Orders /\ WithKey(o, k) \in Orders /\ WithKey(o, Torn) \in Orders
         /\ WithParams(o, n) \in Orders /\ WithStatus(o, s) \in Orders
         /\ WithStatus(o, "torn") \in Orders /\ Copy(o) \in Orders /\ o.params \in Params
  BY OrderAssumption DEF Orders, WithPending, WithKey, WithParams, WithStatus, Copy, NoOrder,
     Statuses, Sent, Params

(* What a handler starts with.                                             *)
LEMMA Defaults ==
  /\ NoOrder \in Orders /\ NewOrder \in Orders
  /\ NoRequest \in Requests /\ NoAnswer \in Answers /\ 0 \in Params
  BY OrderAssumption DEF Orders, NoOrder, NewOrder, Statuses, Sent, Requests, NoRequest, Request, Ops,
     Answers, NoAnswer, Params

(* Requests are requests.                                                  *)
LEMMA RequestOperators ==
  ASSUME NEW op \in Ops, NEW id \in OrderIDs, NEW k \in Keys \cup {None},
         NEW s \in Sent \cup {"none", "invalid"}, NEW n \in Params
  PROVE  Request(op, id, k, s, n) \in Requests
  BY DEF Request, Requests

(* The places a program counter can name.                                  *)
LEMMA PcNames ==
  /\ {"idle", "encode", "reply"} \subseteq Pcs
  /\ PayPcs \subseteq Pcs /\ CallbackPcs \subseteq Pcs
  /\ "idle" \notin PayPcs \cup CallbackPcs
  /\ PayPcs \cap CallbackPcs = {}
  BY DEF Pcs, PayPcs, CallbackPcs

(* Answering moves to reply.                                               *)
LEMMA Answering ==
  ASSUME pc \in [Handlers -> Pcs], answer \in [Handlers -> Answers], NEW g \in Handlers,
         NEW code \in {0, 200, 400, 404, 409, 500}, NEW n \in Params, Answer(g, code, n)
  PROVE  /\ answer' \in [Handlers -> Answers] /\ pc' \in [Handlers -> Pcs]
         /\ pc'[g] = "reply" /\ \A h \in Handlers \ {g} : pc'[h] = pc[h]
  BY PcNames DEF Answer, Goto, Answers

(* A busy handler has a request for an order that was issued.              *)
LEMMA Busy ==
  ASSUME TypeOK, NEW g \in Handlers, pc[g] # "idle"
  PROVE  /\ req[g].id \in OrderIDs /\ req[g].id \in issued
         /\ orders[req[g].id] \in Orders /\ copy[g] \in Orders /\ Current(g) \in Orders
         /\ req[g].n \in Params
  BY DEF TypeOK, Placed, Current, Requests

(* A move of one busy handler to a place of its operation.                 *)
LEMMA Moves ==
  ASSUME TypeOK, NEW g \in Handlers, pc[g] # "idle", UNCHANGED <<req, issued, pays, keyOf>>,
         pc' \in [Handlers -> Pcs], \A h \in Handlers \ {g} : pc'[h] = pc[h],
         \/ pc'[g] = "reply"
         \/ pc'[g] \in PayPcs /\ req[g].op = "pay"
         \/ pc'[g] \in CallbackPcs /\ req[g].op = "callback" /\ req[g].status \in Sent
  PROVE  Placed'
  BY DEF TypeOK, Placed, PayPcs, CallbackPcs

(* Assigning an order, and storing one.                                    *)
LEMMA Assigning ==
  ASSUME TypeOK, NEW g \in Handlers, req[g].id \in OrderIDs, NEW o \in Orders, Assign(g, o)
  PROVE  orders' \in [OrderIDs -> Orders] /\ copy' \in [Handlers -> Orders]
  BY DEF TypeOK, Assign

(* Putting a copy keeps orders orders.                                     *)
LEMMA Putting ==
  ASSUME TypeOK, NEW g \in Handlers, req[g].id \in OrderIDs, PutOrder(g)
  PROVE  orders' \in [OrderIDs -> Orders]
  BY DEF TypeOK, PutOrder, Saves
----------------------------------------------------------------------------
(* A step of a handler that only answers.                                  *)
LEMMA AnswerOnly ==
  ASSUME UNCHANGED storage, TypeOK, NEW g \in Handlers, pc[g] # "idle", NEW code \in {0, 200, 400, 404, 409, 500},
         NEW n \in Params, Answer(g, code, n), UNCHANGED <<history, req>>,
         orders' \in [OrderIDs -> Orders], copy' \in [Handlers -> Orders]
  PROVE  TypeOK'
<1>1. /\ answer' \in [Handlers -> Answers] /\ pc' \in [Handlers -> Pcs]
      /\ pc'[g] = "reply" /\ \A h \in Handlers \ {g} : pc'[h] = pc[h]
  BY Answering DEF TypeOK
<1>2. Placed'
  BY <1>1, Moves DEF history
<1> QED
  BY <1>1, <1>2 DEF TypeOK, history

(* A step of a handler to the next place of its operation.                 *)
LEMMA GoOn ==
  ASSUME UNCHANGED storage, TypeOK, NEW g \in Handlers, pc[g] # "idle", NEW p, Goto(g, p),
         \/ p \in PayPcs /\ req[g].op = "pay"
         \/ p \in CallbackPcs /\ req[g].op = "callback" /\ req[g].status \in Sent,
         UNCHANGED <<req, answer, issued, known, pays, keyOf, answered>>,
         notified' \subseteq issued,
         orders' \in [OrderIDs -> Orders], copy' \in [Handlers -> Orders]
  PROVE  TypeOK'
<1>1. /\ pc' \in [Handlers -> Pcs]
      /\ pc'[g] = p /\ \A h \in Handlers \ {g} : pc'[h] = pc[h]
  BY PcNames DEF TypeOK, Goto
<1>2. Placed'
  BY <1>1, Moves
<1> QED
  BY <1>1, <1>2 DEF TypeOK

(* Every step of Pay keeps the types.                                      *)
LEMMA TypePayStep ==
  ASSUME UNCHANGED storage, TypeOK, NEW g \in Handlers, PayStep(g)
  PROVE  TypeOK'
<1>1. pc[g] \in PayPcs /\ pc[g] # "idle"
  BY DEF PayStep, CheckPaid, CheckKey, CheckCached, SetPending, SetKey, SetParams, PutPay, At, PayPcs
<1>2. /\ req[g].op = "pay" /\ req[g].key \in Keys /\ req[g].id \in OrderIDs
      /\ Current(g) \in Orders /\ Current(g).params \in Params /\ req[g].n \in Params
  <2>1. req[g].op = "pay" /\ req[g].key \in Keys
    BY <1>1 DEF TypeOK, Placed
  <2>2. req[g].id \in OrderIDs /\ Current(g) \in Orders /\ req[g].n \in Params
    BY <1>1, Busy
  <2>3. Current(g).params \in Params
    BY <2>2 DEF Orders
  <2> QED
    BY <2>1, <2>2, <2>3
<1>3. orders \in [OrderIDs -> Orders] /\ copy \in [Handlers -> Orders] /\ notified \subseteq issued
  BY DEF TypeOK
<1>4. {"check_paid", "check_key", "check_cached", "set_pending", "set_key", "set_params", "put"} \subseteq PayPcs
  BY DEF PayPcs
<1>5. CASE CheckPaid(g)
  <2>1. UNCHANGED <<orders, history, req, copy>>
    BY <1>5 DEF CheckPaid
  <2>2. CASE Answer(g, 409, 0)
    BY <1>1, <1>3, <2>1, <2>2, AnswerOnly, Defaults
  <2>3. CASE Goto(g, "check_key") /\ UNCHANGED answer
    BY <1>1, <1>2, <1>3, <1>4, <2>1, <2>3, GoOn DEF history
  <2> QED
    BY <1>5, <2>2, <2>3 DEF CheckPaid
<1>6. CASE CheckKey(g)
  <2>1. UNCHANGED <<orders, history, req, copy>>
    BY <1>6 DEF CheckKey
  <2>2. CASE Answer(g, 409, 0)
    BY <1>1, <1>3, <2>1, <2>2, AnswerOnly, Defaults
  <2>3. CASE Goto(g, "check_cached") /\ UNCHANGED answer
    BY <1>1, <1>2, <1>3, <1>4, <2>1, <2>3, GoOn DEF history
  <2> QED
    BY <1>6, <2>2, <2>3 DEF CheckKey
<1>7. CASE CheckCached(g)
  <2>1. UNCHANGED <<orders, history, req, copy>>
    BY <1>7 DEF CheckCached
  <2>2. CASE Answer(g, 200, Current(g).params)
    BY <1>1, <1>2, <1>3, <2>1, <2>2, AnswerOnly
  <2>3. CASE Goto(g, "set_pending") /\ UNCHANGED answer
    BY <1>1, <1>2, <1>3, <1>4, <2>1, <2>3, GoOn DEF history
  <2> QED
    BY <1>7, <2>2, <2>3 DEF CheckCached
<1>8. ASSUME NEW o \in Orders, Assign(g, o), NEW p \in PayPcs, Goto(g, p), UNCHANGED <<history, req, answer>>
      PROVE  TypeOK'
  BY <1>1, <1>2, <1>3, <1>8, Assigning, GoOn DEF history
<1>9. CASE SetPending(g)
  <2>1. WithPending(Current(g)) \in Orders
    BY <1>2, OrderOperators, Defaults DEF Sent
  <2> QED
    BY <1>4, <1>8, <1>9, <2>1 DEF SetPending
<1>10. CASE SetKey(g)
  <2>1. WithKey(Current(g), req[g].key) \in Orders
    BY <1>2, OrderOperators, Defaults DEF Sent
  <2> QED
    BY <1>4, <1>8, <1>10, <2>1 DEF SetKey
<1>11. CASE SetParams(g)
  <2>1. WithParams(Current(g), req[g].n) \in Orders
    BY <1>2, OrderOperators DEF Sent
  <2> QED
    BY <1>4, <1>8, <1>11, <2>1 DEF SetParams
<1>12. CASE PutPay(g)
  BY <1>1, <1>2, <1>3, <1>12, Putting, AnswerOnly DEF PutPay
<1> QED
  BY <1>5, <1>6, <1>7, <1>9, <1>10, <1>11, <1>12 DEF PayStep

(* Every step of Callback keeps the types.                                 *)
LEMMA TypeCallbackStep ==
  ASSUME UNCHANGED storage, TypeOK, NEW g \in Handlers, CallbackStep(g)
  PROVE  TypeOK'
<1>1. pc[g] \in CallbackPcs /\ pc[g] # "idle"
  BY DEF CallbackStep, SetStatus, CallbackRefused, PutStatus, At, CallbackPcs
<1>2. /\ req[g].op = "callback" /\ req[g].id \in OrderIDs /\ req[g].id \in issued
      /\ Current(g) \in Orders
  BY <1>1, Busy DEF TypeOK, Placed
<1>3. orders \in [OrderIDs -> Orders] /\ copy \in [Handlers -> Orders] /\ notified \subseteq issued
  BY DEF TypeOK
<1>4. CASE SetStatus(g)
  <2>1. WithStatus(Current(g), req[g].status) \in Orders
    BY <1>2, <1>4 DEF SetStatus, Orders, WithStatus, Statuses
  <2>2. orders' \in [OrderIDs -> Orders] /\ copy' \in [Handlers -> Orders]
    BY <1>2, <1>4, <2>1, Assigning DEF SetStatus
  <2>3. notified' \subseteq issued /\ "put_status" \in CallbackPcs
    BY <1>2, <1>3, <1>4 DEF SetStatus, CallbackPcs
  <2> QED
    BY <1>1, <1>2, <1>4, <2>2, <2>3, GoOn DEF SetStatus
<1>5. CASE CallbackRefused(g)
  BY <1>1, <1>3, <1>5, AnswerOnly, Defaults DEF CallbackRefused
<1>6. CASE PutStatus(g)
  BY <1>1, <1>2, <1>3, <1>6, Putting, AnswerOnly, Defaults DEF PutStatus
<1> QED
  BY <1>4, <1>5, <1>6 DEF CallbackStep

(* Sending an answer keeps the types.                                      *)
LEMMA TypeReply ==
  ASSUME UNCHANGED storage, TypeOK, NEW g \in Handlers, Reply(g)
  PROVE  TypeOK'
<1>1. pc[g] # "idle" /\ req[g].id \in OrderIDs /\ req[g].id \in issued
  BY Busy DEF Reply, At
<1>2. req[g].op = "pay" => Receipt(g) \in [id : OrderIDs, key : Keys, params : Params]
  BY <1>1 DEF Receipt, TypeOK, Placed, Answers
<1>3. known' \subseteq issued /\ answered' \subseteq [id : OrderIDs, key : Keys, params : Params]
  BY <1>1, <1>2 DEF Reply, TypeOK
<1>4. /\ pc' \in [Handlers -> Pcs] /\ req' \in [Handlers -> Requests]
      /\ copy' \in [Handlers -> Orders] /\ answer' \in [Handlers -> Answers]
  BY Defaults, PcNames DEF Reply, Goto, TypeOK
<1>5. Placed'
  BY PcNames DEF Reply, Goto, TypeOK, Placed, NoRequest, Request, CallbackPcs
<1> QED
  BY <1>3, <1>4, <1>5 DEF Reply, TypeOK

(* So every step of a handler does.                                        *)
LEMMA TypeStep ==
  ASSUME UNCHANGED storage, TypeOK, NEW g \in Handlers, Step(g)
  PROVE  TypeOK'
<1>1. CASE Encode(g)
  <2>1. pc[g] # "idle" /\ Current(g) \in Orders
    BY <1>1, Busy DEF Encode, At
  <2> QED
    BY <1>1, <2>1, AnswerOnly, Defaults DEF Encode, TypeOK
<1>2. CASE PanicRead(g)
  <2>1. pc[g] # "idle"
    BY <1>2 DEF PanicRead, Racing
  <2> QED
    BY <1>2, <2>1, AnswerOnly, Defaults DEF PanicRead, TypeOK
<1> QED
  BY <1>1, <1>2, TypePayStep, TypeCallbackStep, TypeReply DEF Step

(* A request begins.                                                       *)
LEMMA Beginning ==
  ASSUME UNCHANGED storage, TypeOK, NEW g \in Handlers, NEW id \in issued', NEW op \in Ops \ {"none"},
         NEW k \in Keys \cup {None}, NEW s \in Sent \cup {"none", "invalid"}, NEW n \in Params,
         Begin(g, Request(op, id, k, s, n)),
         issued' \subseteq OrderIDs, issued \subseteq issued', UNCHANGED known,
         pays' \in Params, pays' >= pays, keyOf' \in [1..MaxPays -> Keys \cup {None}],
         \A m \in 1..pays : keyOf'[m] = keyOf[m],
         op = "pay" => n \in 1..pays' /\ keyOf'[n] = k /\ k \in Keys,
         UNCHANGED <<answered, notified>>,
         pc' \in [Handlers -> Pcs], \A h \in Handlers \ {g} : pc'[h] = pc[h],
         \/ pc'[g] \in {"reply", "encode"}
         \/ pc'[g] = "check_paid" /\ op = "pay"
         \/ pc'[g] = "set_status" /\ op = "callback",
         orders' \in [OrderIDs -> Orders], copy' \in [Handlers -> Orders],
         answer' \in [Handlers -> Answers]
  PROVE  TypeOK'
<1>1. id \in OrderIDs /\ Request(op, id, k, s, n) \in Requests
  BY RequestOperators
<1>2. req' \in [Handlers -> Requests] /\ req'[g] = Request(op, id, k, s, n)
      /\ \A h \in Handlers \ {g} : req'[h] = req[h]
  BY <1>1 DEF Begin, TypeOK
<1>3. pays \in Nat /\ pays' \in Nat
  BY OrderAssumption DEF TypeOK, Params
<1>4. Placed'
  BY <1>2, <1>3 DEF TypeOK, Placed, PayPcs, CallbackPcs, Request
<1> QED
  BY <1>2, <1>4 DEF TypeOK
(* ... that is no payment.                                                 *)
LEMMA BeginningOther ==
  ASSUME UNCHANGED storage, TypeOK, NEW g \in Handlers, NEW id \in issued', NEW op \in Ops \ {"none", "pay"},
         NEW s \in Sent \cup {"none", "invalid"}, Begin(g, Request(op, id, None, s, 0)),
         issued' \subseteq OrderIDs, issued \subseteq issued',
         UNCHANGED <<known, pays, keyOf, answered, notified>>,
         pc' \in [Handlers -> Pcs], \A h \in Handlers \ {g} : pc'[h] = pc[h],
         pc'[g] \in {"reply", "encode"} \/ (pc'[g] = "set_status" /\ op = "callback"),
         orders' \in [OrderIDs -> Orders], copy' \in [Handlers -> Orders],
         answer' \in [Handlers -> Answers]
  PROVE  TypeOK'
<1>1. pays \in Nat /\ pays' \in Params /\ pays' >= pays
  BY OrderAssumption DEF TypeOK, Params
<1>2. keyOf' \in [1..MaxPays -> Keys \cup {None}] /\ \A m \in 1..pays : keyOf'[m] = keyOf[m]
  BY DEF TypeOK
<1>3. 0 \in Params /\ None \in Keys \cup {None} /\ op # "pay" /\ op \in Ops \ {"none"}
  BY Defaults
<1> QED
  BY <1>1, <1>2, <1>3, Beginning

(* A request that begins keeps the types.                                  *)
LEMMA TypeStart ==
  ASSUME UNCHANGED storage, TypeOK, NEW g \in Handlers, Start(g)
  PROVE  TypeOK'
<1>1. /\ orders \in [OrderIDs -> Orders] /\ copy \in [Handlers -> Orders]
      /\ answer \in [Handlers -> Answers] /\ pc \in [Handlers -> Pcs]
      /\ pays \in Params /\ pays \in Nat /\ keyOf \in [1..MaxPays -> Keys \cup {None}]
      /\ issued \subseteq OrderIDs /\ known \subseteq issued
  BY OrderAssumption DEF TypeOK, Params
<1>2. /\ "pay" \in Ops \ {"none"} /\ {"create", "get", "callback"} \subseteq Ops \ {"none", "pay"} /\ 0 \in Params
      /\ {"encode", "check_paid", "set_status"} \subseteq Pcs
  BY Defaults, PcNames DEF Ops, PayPcs, CallbackPcs
<1>3. ASSUME NEW code \in {0, 200, 400, 404, 409, 500}, Answer(g, code, 0)
      PROVE  /\ answer' \in [Handlers -> Answers] /\ pc' \in [Handlers -> Pcs]
             /\ pc'[g] = "reply" /\ \A h \in Handlers \ {g} : pc'[h] = pc[h]
  BY <1>1, <1>2, <1>3, Answering
<1>4. ASSUME NEW p \in Pcs, Goto(g, p)
      PROVE  /\ pc' \in [Handlers -> Pcs]
             /\ pc'[g] = p /\ \A h \in Handlers \ {g} : pc'[h] = pc[h]
  BY <1>1, <1>4 DEF Goto
<1>5. ASSUME NEW id \in OrderIDs, copy' = [copy EXCEPT ![g] = Copy(orders[id])]
      PROVE  copy' \in [Handlers -> Orders]
  BY <1>1, <1>5, Defaults DEF Copy
<1>6. ASSUME NEW id \in OrderIDs, Create(g, id) PROVE TypeOK'
  <2>1. orders' \in [OrderIDs -> Orders]
    BY <1>1, <1>6, Defaults DEF Create, Saves
  <2>2. issued' = issued \cup {id} /\ UNCHANGED <<known, pays, keyOf, answered, notified, copy>>
    BY <1>6 DEF Create
  <2>3. Begin(g, Request("create", id, None, "none", 0)) /\ Answer(g, 200, 0)
    BY <1>6 DEF Create
  <2>4. answer' \in [Handlers -> Answers] /\ pc' \in [Handlers -> Pcs]
        /\ pc'[g] = "reply" /\ \A h \in Handlers \ {g} : pc'[h] = pc[h]
    BY <1>3, <2>3
  <2> QED
    BY <1>1, <1>2, <2>1, <2>2, <2>3, <2>4, BeginningOther
<1>7. ASSUME NEW id \in OrderIDs, GetOrder(g, id) PROVE TypeOK'
  <2>1. Begin(g, Request("get", id, None, "none", 0)) /\ UNCHANGED <<orders, history>> /\ id \in issued
    BY <1>1, <1>7 DEF GetOrder
  <2>2. copy' \in [Handlers -> Orders]
    BY <1>1, <1>5, <1>7 DEF GetOrder
  <2>3. /\ answer' \in [Handlers -> Answers] /\ pc' \in [Handlers -> Pcs]
        /\ pc'[g] \in {"reply", "encode"} /\ \A h \in Handlers \ {g} : pc'[h] = pc[h]
    BY <1>1, <1>2, <1>3, <1>4, <1>7 DEF GetOrder
  <2> QED
    BY <1>1, <1>2, <2>1, <2>2, <2>3, BeginningOther DEF history
<1>8. ASSUME NEW id \in OrderIDs, NEW k \in Keys, Pay(g, id, k) PROVE TypeOK'
  <2>1. /\ Begin(g, Request("pay", id, k, "none", pays + 1)) /\ id \in issued
        /\ UNCHANGED <<orders, issued, known, answered, notified>>
    BY <1>1, <1>8 DEF Pay
  <2>2. copy' \in [Handlers -> Orders]
    BY <1>1, <1>5, <1>8 DEF Pay
  <2>3. /\ answer' \in [Handlers -> Answers] /\ pc' \in [Handlers -> Pcs]
        /\ pc'[g] \in {"reply", "check_paid"} /\ \A h \in Handlers \ {g} : pc'[h] = pc[h]
    BY <1>1, <1>2, <1>3, <1>4, <1>8 DEF Pay
  <2>4. pays' = pays + 1 /\ pays' \in Params /\ pays' \in 1..MaxPays
    BY <1>1, <1>8, OrderAssumption DEF Pay, Params
  <2>5. /\ keyOf' \in [1..MaxPays -> Keys \cup {None}] /\ keyOf'[pays + 1] = k
        /\ \A m \in 1..pays : keyOf'[m] = keyOf[m]
    BY <1>1, <1>8, <2>4 DEF Pay
  <2>6. pays' >= pays /\ pays + 1 \in 1..pays'
    BY <1>1, <2>4
  <2> QED
    BY <1>1, <1>2, <2>1, <2>2, <2>3, <2>4, <2>5, <2>6, Beginning
<1>9. ASSUME NEW id \in OrderIDs, NEW s \in Sent \cup {"invalid"}, Callback(g, id, s) PROVE TypeOK'
  <2>1. Begin(g, Request("callback", id, None, s, 0)) /\ UNCHANGED <<orders, history>> /\ id \in issued
    BY <1>1, <1>9 DEF Callback
  <2>2. copy' \in [Handlers -> Orders]
    BY <1>1, <1>5, <1>9 DEF Callback
  <2>3. /\ answer' \in [Handlers -> Answers] /\ pc' \in [Handlers -> Pcs]
        /\ pc'[g] \in {"reply", "set_status"} /\ \A h \in Handlers \ {g} : pc'[h] = pc[h]
    BY <1>1, <1>2, <1>3, <1>4, <1>9 DEF Callback
  <2> QED
    BY <1>1, <1>2, <2>1, <2>2, <2>3, BeginningOther DEF history
<1> QED
  BY <1>6, <1>7, <1>8, <1>9 DEF Start

(* Two handlers meet at one field of an order in memory.                   *)
LEMMA TypeTorn ==
  ASSUME UNCHANGED storage, TypeOK, NEW g \in Handlers, NEW h \in Handlers, TornKey(g, h) \/ TornStatus(g, h)
  PROVE  TypeOK'
<1>1. pc[g] # "idle" /\ req[g].id \in OrderIDs /\ req[g].id \in issued
  BY Busy DEF TornKey, TornStatus, Racing
<1>2. orders' \in [OrderIDs -> Orders]
  <2>1. orders \in [OrderIDs -> Orders] /\ orders[req[g].id] \in Orders
    BY <1>1 DEF TypeOK
  <2>2. WithKey(orders[req[g].id], Torn) \in Orders /\ WithStatus(orders[req[g].id], "torn") \in Orders
    BY <2>1 DEF WithKey, WithStatus, Orders, Statuses
  <2> QED
    BY <1>1, <2>1, <2>2 DEF TornKey, TornStatus
<1>3. CASE TornKey(g, h)
  <2>1. pc' \in [Handlers -> Pcs] /\ Placed'
    BY <1>3 DEF TypeOK, TornKey, Racing, Placed, history, PayPcs, CallbackPcs, Pcs
  <2> QED
    BY <1>2, <1>3, <2>1 DEF TypeOK, TornKey, history
<1>4. CASE TornStatus(g, h)
  <2>1. pc' \in [Handlers -> Pcs] /\ Placed'
    BY <1>4 DEF TypeOK, TornStatus, Racing, Written, AfterStatus, Placed, PayPcs, CallbackPcs, Pcs
  <2>2. notified' \subseteq issued
    BY <1>1, <1>4 DEF TypeOK, TornStatus
  <2> QED
    BY <1>2, <1>4, <2>1, <2>2 DEF TypeOK, TornStatus
<1> QED
  BY <1>3, <1>4

(* So does a crash.                                                        *)
LEMMA TypeCrash ==
  ASSUME UNCHANGED storage, TypeOK, Crash
  PROVE  TypeOK'
<1>1. Placed'
  BY PcNames DEF Crash, Placed, NoRequest, Request
<1> QED
  BY <1>1, Defaults, PcNames DEF Crash, TypeOK, history

(* The empty server is well typed.                                         *)
LEMMA TypeInit == Init => TypeOK
<1> SUFFICES ASSUME Init PROVE TypeOK
  OBVIOUS
<1>1. Placed
  BY PcNames DEF Init, Placed, NoRequest, Request
<1> QED
  BY <1>1, Defaults, PcNames DEF Init, TypeOK

(* The types are inductive.                                                *)
LEMMA TypeNext == TypeOK /\ [Next]_vars => TypeOK'
<1> SUFFICES ASSUME TypeOK, [Next]_vars PROVE TypeOK'
  OBVIOUS
<1>1. CASE UNCHANGED vars
  BY <1>1 DEF vars, history, TypeOK, Placed
<1> QED
  BY <1>1, TypeStart, TypeStep, TypeTorn, TypeCrash DEF Next

(* The variables hold what the program can put there: every handler, every *)
(* repository operation and every torn write.                              *)
THEOREM TypeCorrect == Spec => []TypeOK
  BY TypeInit, TypeNext, PTL DEF Spec
----------------------------------------------------------------------------
(* The inductive invariant of the payments.  The keys and numbers of Pay   *)
(* requests and the notices only grow, so what holds of an order object    *)
(* goes on to hold of it; a step has to be looked at for the objects it    *)
(* makes.                                                                  *)
Inv == TypeOK /\ PayInv /\ PaidOnlyAfterNotice

Grown == /\ pays' >= pays
         /\ \A n \in 1..pays : keyOf'[n] = keyOf[n]
         /\ notified \subseteq notified'

(* What the invariant says of a handler's own objects.                     *)
Local(g) ==
  /\ Binds(copy[g])
  /\ pc[g] = "idle" => copy[g] = NoOrder
  /\ pc[g] = "set_params" => Current(g).key # None
  /\ storage = "postgres" =>
       /\ pc[g] = "check_cached" => copy[g].key \in {None, req[g].key}
       /\ pc[g] \in {"set_pending", "set_key", "set_params"} => copy[g].params = 0
       /\ pc[g] = "set_params" => copy[g].key = req[g].key
  /\ copy[g].status = "paid" => req[g].id \in notified

(* ... and of a stored order.                                              *)
Sound(id) == Binds(orders[id]) /\ (orders[id].status = "paid" => id \in notified)

(* The invariant, order by order and handler by handler.                   *)
LEMMA InvSplit ==
  PayInv /\ PaidOnlyAfterNotice <=> /\ \A id \in OrderIDs : Sound(id)
                                   /\ \A g \in Handlers : Local(g)
  BY DEF PayInv, PaidOnlyAfterNotice, Local, Sound

(* An object that stays keeps its binding.                                 *)
LEMMA BindsOn ==
  ASSUME UNCHANGED storage, TypeOK, TypeOK', Grown, NEW o \in Orders, Binds(o)
  PROVE  o.params # 0 => /\ o.key # None
                         /\ o.params <= pays'
                         /\ storage = "postgres" => o.key = keyOf'[o.params]
<1>1. o.params \in Nat /\ pays \in Nat /\ pays' \in Nat
  BY OrderAssumption DEF TypeOK, Orders, Params
<1>2. o.params # 0 => o.params \in 1..pays
  BY <1>1 DEF Binds
<1> QED
  BY <1>1, <1>2 DEF Grown, Binds

(* An object that stays stays sound.                                       *)
LEMMA SoundOn ==
  ASSUME UNCHANGED storage, TypeOK, TypeOK', Grown, NEW id \in OrderIDs, Sound(id), orders'[id] = orders[id]
  PROVE  Sound(id)'
<1>1. orders[id] \in Orders
  BY DEF TypeOK
<1> QED
  BY <1>1, BindsOn DEF Sound, Binds, Grown

(* A step of handler g does not disturb another handler h, unless it takes *)
(* the key of the shared order away.                                       *)
LEMMA LocalOn ==
  ASSUME UNCHANGED storage, TypeOK, TypeOK', Grown, NEW h \in Handlers, Local(h),
         pc'[h] = pc[h], req'[h] = req[h], copy'[h] = copy[h],
         pc[h] # "idle" /\ storage = "memory" /\ orders[req[h].id].key # None
           => orders'[req[h].id].key # None
  PROVE  Local(h)'
<1>1. copy[h] \in Orders
  BY DEF TypeOK
<1>2. Binds(copy[h])'
  BY <1>1, BindsOn DEF Local, Binds
<1>3. pc[h] = "set_params" => Current(h)'.key # None
  BY DEF Local, Current
<1> QED
  BY <1>2, <1>3 DEF Local, Grown

(* A step of one handler.                                                  *)
LEMMA OneHandler ==
  ASSUME UNCHANGED storage, Inv, TypeOK', Grown, NEW g \in Handlers,
         \A h \in Handlers \ {g} : pc'[h] = pc[h] /\ req'[h] = req[h] /\ copy'[h] = copy[h],
         \A id \in OrderIDs : orders'[id] = orders[id] \/ Sound(id)',
         storage = "memory" => \A id \in issued : orders[id].key # None => orders'[id].key # None,
         Local(g)'
  PROVE  Inv'
<1>1. /\ \A id \in OrderIDs : Sound(id)
      /\ \A h \in Handlers : Local(h)
  BY InvSplit DEF Inv
<1>2. \A id \in OrderIDs : Sound(id)'
  BY <1>1, SoundOn DEF Inv
<1>3. ASSUME NEW h \in Handlers \ {g} PROVE Local(h)'
  <2>1. pc[h] # "idle" => req[h].id \in issued
    BY Busy DEF Inv
  <2> QED
    BY <1>1, <2>1, LocalOn DEF Inv
<1>4. (PayInv /\ PaidOnlyAfterNotice)'
  BY <1>2, <1>3, InvSplit DEF PayInv, PaidOnlyAfterNotice, Local, Sound
<1> QED
  BY <1>4 DEF Inv

(* A handler that answers or refuses touches no object.                    *)
LEMMA Refusing ==
  ASSUME UNCHANGED storage, Inv, TypeOK', NEW g \in Handlers, pc[g] # "idle", UNCHANGED <<orders, history, req, copy>>,
         \A h \in Handlers \ {g} : pc'[h] = pc[h], pc'[g] \notin {"idle", "set_params"},
         storage = "postgres" => /\ pc'[g] = "check_cached" => copy[g].key \in {None, req[g].key}
                                 /\ pc'[g] \in {"set_pending", "set_key"} => copy[g].params = 0
  PROVE  Inv'
<1>1. Local(g) /\ pays \in Nat
  BY InvSplit, OrderAssumption DEF Inv, TypeOK, Params
<1>2. Grown /\ UNCHANGED <<pays, keyOf, notified>>
  BY <1>1 DEF Grown, history
<1>3. Local(g)'
  BY <1>1, <1>2 DEF Local, Binds
<1> QED
  BY <1>2, <1>3, OneHandler

(* The assignments of Pay.                                                 *)
LEMMA PayInvAssign ==
  ASSUME UNCHANGED storage, Inv, TypeOK', NEW g \in Handlers, SetPending(g) \/ SetKey(g) \/ SetParams(g)
  PROVE  Inv'
<1>1. Local(g) /\ (\A id \in OrderIDs : Sound(id))
  BY InvSplit DEF Inv
<1>2. /\ pc[g] \in PayPcs /\ pc[g] # "idle" /\ UNCHANGED <<history, req, answer>>
      /\ pc' = [pc EXCEPT ![g] = pc'[g]] /\ pc'[g] \in PayPcs /\ pc'[g] # "idle"
  BY DEF SetPending, SetKey, SetParams, At, Goto, PayPcs, Inv, TypeOK
<1>3. /\ req[g].id \in OrderIDs /\ req[g].id \in issued /\ Current(g) \in Orders
      /\ orders[req[g].id] \in Orders /\ copy[g] \in Orders
  BY <1>2, Busy DEF Inv
<1>4. /\ req[g].n \in 1..pays /\ keyOf[req[g].n] = req[g].key /\ req[g].key \in Keys
      /\ req[g].key # None
  BY <1>2, OrderAssumption DEF Inv, TypeOK, Placed
<1>5. Grown /\ \A h \in Handlers \ {g} : pc'[h] = pc[h] /\ req'[h] = req[h]
  BY <1>2, OrderAssumption DEF Grown, history, Inv, TypeOK, Params
<1>6. /\ orders \in [OrderIDs -> Orders] /\ copy \in [Handlers -> Orders] /\ pays \in Nat
      /\ pc \in [Handlers -> Pcs]
  BY OrderAssumption DEF Inv, TypeOK, Params
<1>7. PICK o : /\ Assign(g, o)
               /\ \/ pc[g] = "set_pending" /\ pc'[g] = "set_key" /\ o = WithPending(Current(g))
                  \/ pc[g] = "set_key" /\ pc'[g] = "set_params" /\ o = WithKey(Current(g), req[g].key)
                  \/ pc[g] = "set_params" /\ pc'[g] = "put" /\ o = WithParams(Current(g), req[g].n)
  BY <1>6 DEF SetPending, SetKey, SetParams, At, Goto
<1>8. /\ Binds(o) /\ (o.status = "paid" => req[g].id \in notified)
      /\ Current(g).key # None => o.key # None
  <2>1. Binds(Current(g)) /\ (Current(g).status = "paid" => req[g].id \in notified)
    BY <1>1, <1>3 DEF Local, Sound, Current
  <2>2. CASE o = WithPending(Current(g))
    BY <1>3, <2>1, <2>2 DEF WithPending, Binds, Orders
  <2>3. CASE pc[g] = "set_key" /\ o = WithKey(Current(g), req[g].key)
    <3>1. storage = "postgres" => Current(g).params = 0
      BY <1>1, <2>3 DEF Local, Current
    <3> QED
      BY <1>3, <1>4, <2>1, <2>3, <3>1 DEF WithKey, Binds, Orders
  <2>4. CASE pc[g] = "set_params" /\ o = WithParams(Current(g), req[g].n)
    <3>1. Current(g).key # None /\ (storage = "postgres" => Current(g).key = req[g].key)
      BY <1>1, <2>4 DEF Local, Current
    <3>2. o.params = req[g].n /\ o.key = Current(g).key /\ o.status = Current(g).status
      BY <1>3, <2>4 DEF WithParams, Orders
    <3> QED
      BY <1>4, <1>6, <2>1, <3>1, <3>2 DEF Binds
  <2> QED
    BY <1>7, <2>2, <2>3, <2>4
<1>9. Binds(o)' /\ UNCHANGED <<pays, keyOf, notified, req>>
  BY <1>2, <1>8 DEF Binds, history
<1>10. CASE storage = "memory"
  <2>1. orders' = [orders EXCEPT ![req[g].id] = o] /\ copy' = copy
    BY <1>7, <1>10 DEF Assign
  <2>2. \A id \in OrderIDs : orders'[id] = orders[id] \/ Sound(id)'
    BY <1>3, <1>6, <1>8, <1>9, <2>1 DEF Sound
  <2>3. \A id \in issued : orders[id].key # None => orders'[id].key # None
    <3>1. orders[req[g].id].key # None => o.key # None
      BY <1>8, <1>10 DEF Current
    <3> QED
      BY <1>6, <2>1, <3>1 DEF Inv, TypeOK
  <2>4. pc'[g] = "set_params" => Current(g)'.key # None
    BY <1>3, <1>4, <1>6, <1>7, <1>9, <1>10, <2>1 DEF Current, WithKey, Orders
  <2>5. Local(g)'
    BY <1>1, <1>2, <1>9, <1>10, <2>1, <2>4 DEF Local, Binds
  <2> QED
    BY <1>5, <2>1, <2>2, <2>3, <2>5, OneHandler
<1>11. CASE storage = "postgres"
  <2>1. orders' = orders /\ copy' = [copy EXCEPT ![g] = o]
    BY <1>7, <1>11 DEF Assign
  <2>2. copy'[g] = o /\ \A h \in Handlers \ {g} : copy'[h] = copy[h]
    BY <1>6, <2>1
  <2>3. /\ pc'[g] = "set_key" => o.params = 0
        /\ pc'[g] = "set_params" => o.params = 0 /\ o.key = req[g].key
    <3>1. pc[g] \in {"set_pending", "set_key"} => copy[g].params = 0
      BY <1>1, <1>11 DEF Local
    <3> QED
      BY <1>3, <1>7, <1>11, <3>1 DEF Current, WithPending, WithKey, Orders
  <2>4. Local(g)'
    BY <1>2, <1>4, <1>7, <1>8, <1>9, <1>11, <2>2, <2>3 DEF Local, Current
  <2> QED
    BY <1>5, <1>11, <2>1, <2>2, <2>4, OneHandler
<1> QED
  BY <1>10, <1>11, OrderAssumption DEF Inv, TypeOK
(* The looks of Pay before it assigns.                                     *)
LEMMA PayInvChecks ==
  ASSUME UNCHANGED storage, Inv, TypeOK', NEW g \in Handlers, CheckPaid(g) \/ CheckKey(g) \/ CheckCached(g)
  PROVE  Inv'
<1>1. Local(g)
  BY InvSplit DEF Inv
<1>2. pc[g] # "idle" /\ UNCHANGED <<orders, history, req, copy>>
  BY DEF CheckPaid, CheckKey, CheckCached, At
<1>3. /\ pc'[g] \in {"reply", "check_key", "check_cached", "set_pending"}
      /\ \A h \in Handlers \ {g} : pc'[h] = pc[h]
  BY DEF CheckPaid, CheckKey, CheckCached, Answer, Goto, Inv, TypeOK
<1>4. ASSUME storage = "postgres", pc'[g] = "check_cached" PROVE copy[g].key \in {None, req[g].key}
  BY <1>4 DEF CheckPaid, CheckKey, CheckCached, Answer, Goto, OtherKey, Current, Inv, TypeOK
<1>5. ASSUME storage = "postgres", pc'[g] = "set_pending" PROVE copy[g].params = 0
  <2>1. CheckCached(g) /\ ~Cached(copy[g], req[g].key)
    BY <1>5 DEF CheckPaid, CheckKey, CheckCached, Answer, Goto, Current, Inv, TypeOK
  <2> QED
    BY <1>1, <1>5, <2>1 DEF CheckCached, At, Cached, Local, Binds
<1> QED
  BY <1>2, <1>3, <1>4, <1>5, Refusing

(* Put stores a private object that satisfies the invariant.               *)
LEMMA PayInvPut ==
  ASSUME UNCHANGED storage, Inv, TypeOK', NEW g \in Handlers, PutPay(g) \/ PutStatus(g)
  PROVE  Inv'
<1>1. Local(g) /\ pays \in Nat
  BY InvSplit, OrderAssumption DEF Inv, TypeOK, Params
<1>2. /\ pc[g] # "idle" /\ UNCHANGED <<history, req, copy>> /\ PutOrder(g)
      /\ pc'[g] = "reply" /\ \A h \in Handlers \ {g} : pc'[h] = pc[h]
  BY DEF PutPay, PutStatus, At, Answer, Goto, Inv, TypeOK
<1>3. req[g].id \in OrderIDs /\ orders \in [OrderIDs -> Orders]
  BY <1>2, Busy DEF Inv, TypeOK
<1>4. Grown
  BY <1>1, <1>2 DEF Grown, history
<1>5. \A id \in OrderIDs : orders'[id] = orders[id] \/ Sound(id)'
  BY <1>1, <1>2, <1>3 DEF PutOrder, Saves, Sound, Local, Binds, history
<1>6. storage = "memory" => orders' = orders
  BY <1>2 DEF PutOrder
<1>7. Local(g)'
  BY <1>1, <1>2 DEF Local, Binds, history
<1> QED
  BY <1>2, <1>4, <1>5, <1>6, <1>7, OneHandler

(* The assignment of Callback.                                             *)
LEMMA PayInvSetStatus ==
  ASSUME UNCHANGED storage, Inv, TypeOK', NEW g \in Handlers, SetStatus(g)
  PROVE  Inv'
<1>1. Local(g) /\ (\A id \in OrderIDs : Sound(id)) /\ pays \in Nat
  BY InvSplit, OrderAssumption DEF Inv, TypeOK, Params
<1>2. /\ pc[g] # "idle" /\ UNCHANGED <<pays, keyOf, req>>
      /\ pc'[g] = "put_status" /\ \A h \in Handlers \ {g} : pc'[h] = pc[h]
  BY DEF SetStatus, At, Goto, Inv, TypeOK
<1>3. /\ req[g].id \in OrderIDs /\ req[g].id \in issued /\ Current(g) \in Orders
      /\ orders \in [OrderIDs -> Orders] /\ copy \in [Handlers -> Orders]
  BY <1>2, Busy DEF Inv, TypeOK
<1>4. Grown
  BY <1>1, <1>2 DEF Grown, SetStatus
<1>5. PICK o : Assign(g, o) /\ o = WithStatus(Current(g), req[g].status)
  BY DEF SetStatus
<1>6. /\ o.key = Current(g).key /\ o.params = Current(g).params /\ o.status = req[g].status
  BY <1>3, <1>5 DEF WithStatus, Orders
<1>7. Binds(o)' /\ (o.status = "paid" => req[g].id \in notified')
  BY <1>1, <1>2, <1>3, <1>6 DEF Local, Sound, Binds, Current, SetStatus
<1>8. CASE storage = "memory"
  <2>1. orders' = [orders EXCEPT ![req[g].id] = o] /\ copy' = copy
    BY <1>5, <1>8 DEF Assign
  <2>2. \A id \in OrderIDs : orders'[id] = orders[id] \/ Sound(id)'
    BY <1>3, <1>7, <2>1 DEF Sound
  <2>3. \A id \in issued : orders[id].key # None => orders'[id].key # None
    BY <1>3, <1>6, <1>8, <2>1 DEF Current, Inv, TypeOK
  <2>4. Local(g)'
    BY <1>1, <1>2, <1>4, <1>8, <2>1 DEF Local, Binds, Grown
  <2> QED
    BY <1>2, <1>4, <2>1, <2>2, <2>3, <2>4, OneHandler
<1>9. CASE storage = "postgres"
  <2>1. orders' = orders /\ copy' = [copy EXCEPT ![g] = o]
    BY <1>5, <1>9 DEF Assign
  <2>2. copy'[g] = o /\ \A h \in Handlers \ {g} : copy'[h] = copy[h]
    BY <1>3, <2>1
  <2>3. Local(g)'
    BY <1>2, <1>7, <1>9, <2>2 DEF Local
  <2> QED
    BY <1>2, <1>4, <1>9, <2>1, <2>2, <2>3, OneHandler
<1> QED
  BY <1>8, <1>9, OrderAssumption DEF Inv, TypeOK

(* Every step of a handler keeps the invariant.                            *)
LEMMA PayInvStep ==
  ASSUME UNCHANGED storage, Inv, TypeOK', NEW g \in Handlers, Step(g)
  PROVE  Inv'
<1>1. Local(g) /\ (\A id \in OrderIDs : Sound(id)) /\ pays \in Nat
  BY InvSplit, OrderAssumption DEF Inv, TypeOK, Params
<1>2. /\ pc \in [Handlers -> Pcs] /\ req \in [Handlers -> Requests] /\ copy \in [Handlers -> Orders]
  BY DEF Inv, TypeOK
<1>3. CASE CallbackRefused(g) \/ PanicRead(g)
  <2>1. /\ pc[g] # "idle" /\ UNCHANGED <<orders, history, req, copy>>
        /\ pc'[g] = "reply" /\ \A h \in Handlers \ {g} : pc'[h] = pc[h]
    BY <1>2, <1>3 DEF CallbackRefused, PanicRead, Racing, At, Answer, Goto
  <2> QED
    BY <2>1, Refusing
<1>4. CASE Encode(g)
  <2>1. /\ pc'[g] = "reply" /\ copy'[g] = Current(g) /\ UNCHANGED <<orders, history, req>>
        /\ \A h \in Handlers \ {g} : pc'[h] = pc[h] /\ copy'[h] = copy[h]
    BY <1>2, <1>4 DEF Encode, Answer, Goto
  <2>2. req[g].id \in OrderIDs
    BY <1>4, Busy DEF Encode, At, Inv
  <2>3. Local(g)' /\ Grown
    BY <1>1, <2>1, <2>2 DEF Local, Sound, Binds, Current, Grown, history
  <2> QED
    BY <2>1, <2>3, OneHandler
<1>5. CASE Reply(g)
  <2>1. /\ pc'[g] = "idle" /\ copy'[g] = NoOrder /\ UNCHANGED <<orders, pays, keyOf, notified>>
        /\ \A h \in Handlers \ {g} : pc'[h] = pc[h] /\ copy'[h] = copy[h] /\ req'[h] = req[h]
    BY <1>2, <1>5 DEF Reply, Goto
  <2>2. Local(g)' /\ Grown
    BY <1>1, <2>1 DEF Local, Binds, NoOrder, Grown
  <2> QED
    BY <2>1, <2>2, OneHandler
<1> QED
  BY <1>3, <1>4, <1>5, PayInvChecks, PayInvAssign, PayInvPut, PayInvSetStatus
  DEF Step, PayStep, CallbackStep
----------------------------------------------------------------------------
(* A request begins with an object that satisfies the invariant.           *)
LEMMA PayInvBegin ==
  ASSUME UNCHANGED storage, Inv, TypeOK', Grown, NEW g \in Handlers, pc[g] = "idle",
         \A h \in Handlers \ {g} : pc'[h] = pc[h] /\ req'[h] = req[h] /\ copy'[h] = copy[h],
         UNCHANGED orders, pc'[g] \in {"reply", "encode", "check_paid", "set_status"},
         \/ copy'[g] = copy[g]
         \/ req'[g].id \in OrderIDs /\ copy'[g] = Copy(orders[req'[g].id])
  PROVE  Inv'
<1>1. Local(g) /\ (\A id \in OrderIDs : Sound(id)) /\ copy[g] = NoOrder
  BY InvSplit DEF Inv, Local
<1>2. Binds(NoOrder)' /\ NoOrder.status # "paid"
  BY DEF Binds, NoOrder
<1>3. ASSUME NEW id \in OrderIDs PROVE Sound(id)'
  BY <1>1, SoundOn DEF Inv
<1>4. (Binds(copy[g]) /\ (copy[g].status = "paid" => req[g].id \in notified))'
  <2>1. CASE copy'[g] = NoOrder
    BY <1>2, <2>1 DEF Binds
  <2>2. CASE req'[g].id \in OrderIDs /\ copy'[g] = orders'[req'[g].id]
    BY <1>3, <2>2 DEF Sound
  <2> QED
    BY <1>1, <2>1, <2>2 DEF Copy
<1>5. Local(g)'
  BY <1>4 DEF Local
<1> QED
  BY <1>5, OneHandler

(* So does every request that begins,                                      *)
LEMMA PayInvStart ==
  ASSUME UNCHANGED storage, Inv, TypeOK', NEW g \in Handlers, Start(g)
  PROVE  Inv'
<1>1. /\ pc \in [Handlers -> Pcs] /\ req \in [Handlers -> Requests] /\ copy \in [Handlers -> Orders]
      /\ orders \in [OrderIDs -> Orders] /\ pays \in Nat /\ keyOf \in [1..MaxPays -> Keys \cup {None}]
      /\ pays <= MaxPays /\ MaxPays \in Nat
  BY OrderAssumption DEF Inv, TypeOK, Params
<1>2. ASSUME NEW id \in OrderIDs, Create(g, id) PROVE Inv'
  <2>1. /\ orders' \in Saves(id, NewOrder) /\ id \notin issued /\ pc[g] = "idle" /\ pc'[g] = "reply"
        /\ UNCHANGED <<known, pays, keyOf, answered, notified, copy>>
        /\ \A h \in Handlers \ {g} : pc'[h] = pc[h] /\ req'[h] = req[h]
    BY <1>1, <1>2 DEF Create, At, Answer, Goto, Begin
  <2>2. Grown
    BY <1>1, <2>1 DEF Grown
  <2>3. ASSUME NEW o \in OrderIDs PROVE orders'[o] = orders[o] \/ (o = id /\ orders'[o] = NewOrder)
    BY <1>1, <2>1 DEF Saves
  <2>4. Binds(NewOrder)' /\ NewOrder.status # "paid"
    BY DEF Binds, NewOrder
  <2>5. \A o \in OrderIDs : orders'[o] = orders[o] \/ Sound(o)'
    BY <2>3, <2>4 DEF Sound
  <2>6. \A o \in issued : orders[o].key # None => orders'[o].key # None
    BY <2>1, <2>3 DEF Inv, TypeOK
  <2>7. copy[g] = NoOrder
    BY <2>1, InvSplit DEF Inv, Local
  <2>8. Local(g)'
    BY <2>1, <2>7 DEF Local, Binds, NoOrder
  <2> QED
    BY <2>1, <2>2, <2>5, <2>6, <2>8, OneHandler
<1>3. ASSUME NEW id \in OrderIDs, NEW r,
             Begin(g, r), r.id = id, At(g, "idle"), UNCHANGED orders,
             pc'[g] \in {"reply", "encode", "check_paid", "set_status"},
             \A h \in Handlers \ {g} : pc'[h] = pc[h],
             copy' = copy \/ copy' = [copy EXCEPT ![g] = Copy(orders[id])],
             Grown
      PROVE  Inv'
  <2>1. req'[g] = r /\ \A h \in Handlers \ {g} : req'[h] = req[h] /\ copy'[h] = copy[h]
    BY <1>1, <1>3 DEF Begin
  <2>2. copy'[g] = copy[g] \/ copy'[g] = Copy(orders[id])
    BY <1>1, <1>3
  <2> QED
    BY <1>3, <2>1, <2>2, PayInvBegin DEF At
<1>4. ASSUME NEW id \in OrderIDs, GetOrder(g, id) PROVE Inv'
  <2>1. /\ Begin(g, Request("get", id, None, "none", 0)) /\ At(g, "idle") /\ UNCHANGED <<orders, history>>
        /\ copy' = copy \/ copy' = [copy EXCEPT ![g] = Copy(orders[id])]
        /\ pc'[g] \in {"reply", "encode"} /\ \A h \in Handlers \ {g} : pc'[h] = pc[h]
    BY <1>1, <1>4 DEF GetOrder, Answer, Goto
  <2>2. Grown /\ Request("get", id, None, "none", 0).id = id
    BY <1>1, <2>1 DEF Grown, history, Request
  <2> QED
    BY <1>3, <2>1, <2>2
<1>5. ASSUME NEW id \in OrderIDs, NEW s, Callback(g, id, s) PROVE Inv'
  <2>1. /\ Begin(g, Request("callback", id, None, s, 0)) /\ At(g, "idle") /\ UNCHANGED <<orders, history>>
        /\ copy' = copy \/ copy' = [copy EXCEPT ![g] = Copy(orders[id])]
        /\ pc'[g] \in {"reply", "set_status"} /\ \A h \in Handlers \ {g} : pc'[h] = pc[h]
    BY <1>1, <1>5 DEF Callback, Answer, Goto
  <2>2. Grown /\ Request("callback", id, None, s, 0).id = id
    BY <1>1, <2>1 DEF Grown, history, Request
  <2> QED
    BY <1>3, <2>1, <2>2
<1>6. ASSUME NEW id \in OrderIDs, NEW k, Pay(g, id, k) PROVE Inv'
  <2>1. /\ Begin(g, Request("pay", id, k, "none", pays + 1)) /\ At(g, "idle") /\ UNCHANGED <<orders, notified>>
        /\ copy' = copy \/ copy' = [copy EXCEPT ![g] = Copy(orders[id])]
        /\ pc'[g] \in {"reply", "check_paid"} /\ \A h \in Handlers \ {g} : pc'[h] = pc[h]
        /\ pays' = pays + 1 /\ keyOf' = [keyOf EXCEPT ![pays + 1] = k]
    BY <1>1, <1>6 DEF Pay, Answer, Goto
  <2>2. Grown /\ Request("pay", id, k, "none", pays + 1).id = id
    BY <1>1, <2>1 DEF Grown, Request
  <2> QED
    BY <1>3, <2>1, <2>2
<1> QED
  BY <1>2, <1>4, <1>5, <1>6 DEF Start

(* A torn key is a key, and a torn status is not paid.                     *)
LEMMA PayInvTorn ==
  ASSUME UNCHANGED storage, Inv, TypeOK', NEW g \in Handlers, NEW h \in Handlers, TornKey(g, h) \/ TornStatus(g, h)
  PROVE  Inv'
<1>1. /\ \A id \in OrderIDs : Sound(id)
      /\ \A f \in Handlers : Local(f)
  BY InvSplit DEF Inv
<1>2. /\ g # h /\ storage = "memory" /\ pc[g] # "idle" /\ pc[h] # "idle" /\ req[g].id = req[h].id
      /\ UNCHANGED <<pays, keyOf, req, copy>> /\ notified \subseteq notified'
  BY DEF TornKey, TornStatus, Racing, history
<1>3. /\ req[g].id \in OrderIDs /\ orders \in [OrderIDs -> Orders] /\ orders[req[g].id] \in Orders
      /\ pays \in Nat /\ pc \in [Handlers -> Pcs] /\ Torn # None
  BY <1>2, Busy, OrderAssumption DEF Inv, TypeOK, Params
<1>4. Grown
  BY <1>2, <1>3 DEF Grown
<1>5. PICK o : /\ orders' = [orders EXCEPT ![req[g].id] = o]
               /\ o.params = orders[req[g].id].params
               /\ \/ o.key = Torn /\ o.status = orders[req[g].id].status
                  \/ /\ o.key = orders[req[g].id].key /\ o.status = "torn"
                     /\ pc'[g] # "set_params" /\ pc'[h] # "set_params"
  <2>1. CASE TornKey(g, h)
    <3> DEFINE t == WithKey(orders[req[g].id], Torn)
    <3>1. t.params = orders[req[g].id].params /\ t.key = Torn /\ t.status = orders[req[g].id].status
      BY <1>3 DEF WithKey, Orders
    <3>2. orders' = [orders EXCEPT ![req[g].id] = t]
      BY <2>1 DEF TornKey
    <3> QED
      BY <3>1, <3>2
  <2>2. CASE TornStatus(g, h)
    <3> DEFINE t == WithStatus(orders[req[g].id], "torn")
    <3>1. /\ t.params = orders[req[g].id].params /\ t.key = orders[req[g].id].key
          /\ t.status = "torn"
      BY <1>3 DEF WithStatus, Orders
    <3>2. orders' = [orders EXCEPT ![req[g].id] = t]
      BY <2>2 DEF TornStatus
    <3>3. {pc'[g], pc'[h]} \subseteq {"set_key", "put_status"}
      BY <1>3, <2>2 DEF TornStatus, AfterStatus
    <3> HIDE DEF t
    <3> QED
      BY <3>1, <3>2, <3>3
  <2> QED
    BY <2>1, <2>2
<1>6. orders'[req[g].id] = o /\ \A id \in OrderIDs \ {req[g].id} : orders'[id] = orders[id]
  BY <1>3, <1>5
<1>7. ASSUME NEW id \in OrderIDs PROVE Sound(id)'
  BY <1>1, <1>2, <1>3, <1>5, <1>6 DEF Sound, Binds
<1>8. ASSUME NEW id \in OrderIDs, orders[id].key # None PROVE orders'[id].key # None
  BY <1>3, <1>5, <1>6, <1>8
<1>9. ASSUME NEW f \in Handlers PROVE Local(f)'
  <2>1. CASE f \in {g, h}
    <3>1. pc'[f] # "idle"
      BY <1>2, <1>3, <2>1 DEF TornKey, TornStatus, AfterStatus
    <3>2. pc'[f] = "set_params" => Current(f)'.key # None
      BY <1>2, <1>3, <1>5, <1>6, <2>1 DEF Current
    <3> QED
      BY <1>1, <1>2, <3>1, <3>2 DEF Local, Binds
  <2>2. CASE f \notin {g, h}
    <3>1. pc'[f] = pc[f]
      BY <1>3, <2>2 DEF TornKey, TornStatus
    <3>2. pc[f] # "idle" => req[f].id \in OrderIDs
      BY Busy DEF Inv
    <3> QED
      BY <1>1, <1>2, <1>4, <1>8, <3>1, <3>2, LocalOn DEF Inv
  <2> QED
    BY <2>1, <2>2
<1>10. (PayInv /\ PaidOnlyAfterNotice)'
  BY <1>7, <1>9 DEF PayInv, PaidOnlyAfterNotice, Local, Sound
<1> QED
  BY <1>10 DEF Inv

(* and a crash.                                                            *)
LEMMA PayInvCrash ==
  ASSUME UNCHANGED storage, Inv, TypeOK', Crash
  PROVE  Inv'
<1>1. \A id \in OrderIDs : orders'[id] = NoOrder \/ orders'[id] = orders[id]
  BY DEF Crash
<1>2. (PayInv /\ PaidOnlyAfterNotice)'
  BY <1>1 DEF Crash, Inv, PayInv, PaidOnlyAfterNotice, Binds, NoOrder, history
<1> QED
  BY <1>2 DEF Inv

(* The invariant holds of the empty server.                                *)
LEMMA InvInit == Init => Inv
  BY TypeInit DEF Init, Inv, PayInv, PaidOnlyAfterNotice, Binds, NoOrder

(* The invariant is inductive.                                             *)
LEMMA InvNext == Inv /\ [Next]_vars => Inv'
<1> SUFFICES ASSUME Inv, [Next]_vars PROVE Inv'
  OBVIOUS
<1>1. TypeOK'
  BY TypeNext DEF Inv
<1>2. CASE UNCHANGED vars
  BY <1>1, <1>2 DEF vars, history, Inv, PayInv, PaidOnlyAfterNotice, Binds, Current
<1> QED
  BY <1>1, <1>2, PayInvStart, PayInvStep, PayInvTorn, PayInvCrash DEF Next

(* Every stored or private order binds its parameters to a key, and a Pay  *)
(* past the cache stores a key before it stores parameters.                *)
THEOREM PaymentsBound == Spec => []PayInv
<1>1. Inv => PayInv
  BY DEF Inv
<1> QED
  BY <1>1, InvInit, InvNext, PTL DEF Spec

(* However handlers interleave, strings are torn and queries fail, an order *)
(* with payment parameters has a key that refuses every other key.         *)
THEOREM ParamsAlwaysHaveKey == Spec => []ParamsHaveKey
<1>1. Inv => ParamsHaveKey
  BY DEF Inv, PayInv, Binds, ParamsHaveKey
<1> QED
  BY <1>1, InvInit, InvNext, PTL DEF Spec

(* In PostgreSQL the parameters in a row were made for the key in it,      *)
(* whichever of several stale copies was written last.                     *)
THEOREM ParamsAlwaysMatchKey == Spec => []ParamsMatchKey
<1>1. Inv => ParamsMatchKey
  BY DEF Inv, PayInv, Binds, ParamsMatchKey
<1> QED
  BY <1>1, InvInit, InvNext, PTL DEF Spec

(* No order becomes paid that no callback has reported paid.               *)
THEOREM PaidIsNoticed == Spec => []PaidOnlyAfterNotice
<1>1. Inv => PaidOnlyAfterNotice
  BY DEF Inv
<1> QED
  BY <1>1, InvInit, InvNext, PTL DEF Spec

----------------------------------------------------------------------------
(* In memory an id that was not issued has no order.                       *)
Fresh == storage = "memory" => \A id \in OrderIDs : id \notin issued => orders[id] = NoOrder

(* What a request in memory does to the orders: nothing, or it assigns to  *)
(* one that was issued and leaves it a key if it had one.                  *)
KeepsKeys ==
  /\ issued' = issued
  /\ \/ orders' = orders
     \/ \E i \in issued : \E o \in Orders :
          /\ orders' = [orders EXCEPT ![i] = o]
          /\ orders[i].key # None => o.key # None

(* Handlers only ever overwrite a key with a key.                          *)
LEMMA StepKeepsKeys ==
  ASSUME storage = "memory", TypeOK, NEW g \in Handlers, Step(g)
  PROVE  KeepsKeys
<1> USE DEF KeepsKeys, history
<1>1. ASSUME pc[g] # "idle", NEW o \in Orders, Assign(g, o), issued' = issued,
             orders[req[g].id].key # None => o.key # None
      PROVE  KeepsKeys
  <2>1. orders' = [orders EXCEPT ![req[g].id] = o]
    BY <1>1, OrderAssumption DEF Assign
  <2> QED
    BY <1>1, <2>1, Busy
<1>2. CASE SetPending(g)
  <2>1. pc[g] # "idle" /\ Current(g) = orders[req[g].id] /\ Current(g) \in Orders
    BY <1>2, Busy DEF SetPending, At, Current
  <2>2. WithPending(Current(g)) \in Orders /\ WithPending(Current(g)).key = Current(g).key
    BY <2>1 DEF WithPending, Orders, Statuses, Sent
  <2> QED
    BY <1>1, <1>2, <2>1, <2>2 DEF SetPending
<1>3. CASE SetKey(g)
  <2>1. pc[g] # "idle" /\ Current(g) \in Orders /\ req[g].key \in Keys
    BY <1>3, Busy DEF SetKey, At, TypeOK, Placed, PayPcs
  <2>2. WithKey(Current(g), req[g].key) \in Orders /\ WithKey(Current(g), req[g].key).key # None
    BY <2>1, OrderAssumption DEF WithKey, Orders
  <2> QED
    BY <1>1, <1>3, <2>1, <2>2 DEF SetKey
<1>4. CASE SetParams(g)
  <2>1. /\ pc[g] # "idle" /\ Current(g) = orders[req[g].id] /\ Current(g) \in Orders
        /\ req[g].n \in Params
    BY <1>4, Busy DEF SetParams, At, Current
  <2>2. /\ WithParams(Current(g), req[g].n) \in Orders
        /\ WithParams(Current(g), req[g].n).key = Current(g).key
    BY <2>1 DEF WithParams, Orders
  <2> QED
    BY <1>1, <1>4, <2>1, <2>2 DEF SetParams
<1>5. CASE SetStatus(g)
  <2>1. /\ pc[g] # "idle" /\ Current(g) = orders[req[g].id] /\ Current(g) \in Orders
        /\ req[g].status \in Sent
    BY <1>5, Busy DEF SetStatus, At, Current
  <2>2. /\ WithStatus(Current(g), req[g].status) \in Orders
        /\ WithStatus(Current(g), req[g].status).key = Current(g).key
    BY <2>1 DEF WithStatus, Orders, Statuses
  <2> QED
    BY <1>1, <1>5, <2>1, <2>2 DEF SetStatus
<1>6. CASE CheckPaid(g) \/ CheckKey(g) \/ CheckCached(g) \/ PutPay(g) \/ PutStatus(g)
             \/ CallbackRefused(g) \/ Encode(g) \/ PanicRead(g) \/ Reply(g)
  BY <1>6 DEF CheckPaid, CheckKey, CheckCached, PutPay, PutStatus, PutOrder, CallbackRefused, Encode,
     PanicRead, Reply
<1> QED
  BY <1>2, <1>3, <1>4, <1>5, <1>6 DEF Step, PayStep, CallbackStep

(* A torn key is a key, and a torn status leaves the key alone.            *)
LEMMA TornKeepsKeys ==
  ASSUME TypeOK, NEW g \in Handlers, NEW h \in Handlers, TornKey(g, h) \/ TornStatus(g, h)
  PROVE  KeepsKeys
<1> DEFINE o == orders[req[g].id]
<1>1. pc[g] # "idle"
  BY DEF TornKey, TornStatus, Racing
<1>2. o \in Orders /\ req[g].id \in issued /\ req[g].id \in OrderIDs
  BY <1>1, Busy
<1>3. WithKey(o, Torn) \in Orders /\ WithKey(o, Torn).key # None
  BY <1>2, OrderAssumption DEF WithKey, Orders
<1>4. WithStatus(o, "torn") \in Orders /\ WithStatus(o, "torn").key = o.key
  BY <1>2 DEF WithStatus, Orders, Statuses
<1>5. orders \in [OrderIDs -> Orders]
  BY DEF TypeOK
<1>6. CASE TornKey(g, h)
  <2>1. orders' = [orders EXCEPT ![req[g].id] = WithKey(o, Torn)] /\ issued' = issued
    BY <1>6 DEF TornKey, history
  <2> QED
    BY <1>2, <1>3, <2>1 DEF KeepsKeys
<1>7. CASE TornStatus(g, h)
  <2>1. orders' = [orders EXCEPT ![req[g].id] = WithStatus(o, "torn")] /\ issued' = issued
    BY <1>7 DEF TornStatus
  <2> QED
    BY <1>2, <1>4, <2>1 DEF KeepsKeys
<1> QED
  BY <1>6, <1>7

(* Every step keeps the ids that were not issued free and the keys bound.  *)
LEMMA KeysNext ==
  ASSUME TypeOK, Fresh, [Next]_vars
  PROVE  Fresh' /\ (storage = "memory" => KeysKept)
<1> SUFFICES ASSUME storage = "memory" PROVE Fresh' /\ KeysKept
  BY DEF Fresh, Next, vars
<1> DEFINE Goal == Fresh' /\ KeysKept
<1> USE DEF Fresh, KeysKept
<1>1. ASSUME KeepsKeys PROVE Goal
  BY <1>1 DEF KeepsKeys, TypeOK
<1>2. ASSUME NEW g \in Handlers, Start(g) PROVE Goal
  <2>1. ASSUME NEW id \in OrderIDs, Create(g, id) PROVE Goal
    <3>1. orders' = [orders EXCEPT ![id] = NewOrder] /\ issued' = issued \cup {id} /\ id \notin issued
      BY <2>1 DEF Create, Saves, Fails
    <3> QED
      BY <3>1 DEF TypeOK, NoOrder
  <2>2. ASSUME orders' = orders, issued' = issued PROVE Goal
    BY <2>2
  <2> QED
    BY <1>2, <2>1, <2>2 DEF Start, GetOrder, Pay, Callback, history
<1>3. CASE Crash
  BY <1>3 DEF Crash
<1>4. CASE UNCHANGED vars
  BY <1>4 DEF vars, history
<1> QED
  BY <1>1, <1>2, <1>3, <1>4, StepKeepsKeys, TornKeepsKeys DEF Next

(* In memory an order once bound to a key is never free for another key to *)
(* pay, whatever the writers of the shared object tear.                    *)
THEOREM KeysStayBound == Spec => KeyNeverCleared
<1>1. Init => TypeOK /\ Fresh
  BY TypeInit DEF Init, Fresh
<1>2. TypeOK /\ Fresh /\ [Next]_vars => Fresh' /\ (storage = "memory" => KeysKept)
  BY KeysNext
<1>3. TypeOK /\ Fresh /\ [Next]_vars => TypeOK' /\ Fresh'
  BY <1>2, TypeNext
<1>4. TypeOK /\ Fresh /\ [Next]_vars => [storage = "memory" => KeysKept]_vars
  BY <1>2
<1> QED
  BY <1>1, <1>3, <1>4, PTL DEF Spec, KeyNeverCleared
=============================================================================
