------------------------- MODULE OrderSerial_proofs -------------------------
(***************************************************************************)
(* Proofs about OrderService when no two requests that write an order are  *)
(* at work on the same one, and queries do not fail: what Pay has read is  *)
(* then still so when it writes, hence Pay is idempotent and only a        *)
(* callback undoes paid, in both storages; and in PostgreSQL the service   *)
(* implements OrderLedger.  Handlers, requests on other orders, reads of   *)
(* the same one and crashes are unlimited.  One request at a time is a     *)
(* special case.                                                           *)
(***************************************************************************)
EXTENDS OrderService_proofs

NoneFails == ~RepoMayFail \/ "postgres" \notin Storages
OneAtATime == NoneFails /\ \A g, h \in Handlers : g = h

(* What is known of the order and the object of a request at each place.   *)
Charges   == {"set_pending", "set_key", "set_params", "put"}
Unchanged == {"check_paid", "check_key", "check_cached", "set_pending", "set_status"}

Order(s, k, n) == [status |-> s, key |-> k, params |-> n]

Faithful(g) ==
  LET o == orders[req[g].id]
      c == Current(g)
      r == req[g]
  IN /\ Writing(g) => o.status # "none"
     /\ storage = "postgres" /\ pc[g] \in PayPcs => \A id \in OrderIDs : orders[id].params # r.n
     /\ pc[g] \in Unchanged => c = o
     /\ pc[g] \in Charges \cup {"check_key", "check_cached"} => o.status # "paid"
     /\ pc[g] \in {"check_cached", "set_pending", "set_key"} => o.key \in {None, r.key}
     /\ pc[g] \in Charges /\ (storage = "postgres" \/ pc[g] # "put") => o.params = 0
     /\ pc[g] = "set_key" => c = Order("pending", o.key, 0)
     /\ pc[g] = "set_params" => c = Order("pending", r.key, 0)
     /\ pc[g] = "put" => c = Order("pending", r.key, r.n)
     /\ pc[g] = "put_status" => c = Order(r.status, o.key, o.params)
     /\ pc[g] = "encode" => r.op # "pay"
     /\ pc[g] = "reply" /\ r.op = "pay" /\ answer[g].code = 200 =>
          answer[g].params = o.params /\ o.params # 0 /\ r.key = o.key

(* A receipt says what the order says, unless a restart has lost it.       *)
Receipts ==
  \A a \in answered : /\ a.params # 0 /\ a.id \in issued
                      /\ \/ orders[a.id].params = a.params /\ orders[a.id].key = a.key
                         \/ orders[a.id] = NoOrder

Unissued == \A id \in OrderIDs : id \notin issued => orders[id] = NoOrder

(* Pay requests have numbers of their own.                                 *)
Numbered == \A g, h \in Handlers : g # h /\ req[g].op = "pay" /\ req[h].op = "pay" => req[g].n # req[h].n

Serial == Receipts /\ IdempotentPay /\ Unissued /\ Numbered /\ \A g \in Handlers : Faithful(g)

LedgerStep == [Ledger!LedgerNext]_(Ledger!lvars)

(* What a step is to show: it keeps all this, and is one of the ledger.    *)
Good == Serial' /\ (storage = "postgres" => LedgerStep)

(* The setting.                                                            *)
LEMMA Setting ==
  ASSUME NoneFails, TypeOK
  PROVE  /\ storage \in {"memory", "postgres"} /\ ~Fails
         /\ \A id \in OrderIDs : \A o : Saves(id, o) = {[orders EXCEPT ![id] = o]}
<1>1. storage \in {"memory", "postgres"}
  BY OrderAssumption DEF TypeOK
<1>2. ~Fails
  BY DEF NoneFails, TypeOK, Fails
<1> QED
  BY <1>1, <1>2 DEF Saves

(* A handler that does not move, while others write other orders, or keep  *)
(* the key and the parameters of its own.                                  *)
LEMMA Undisturbed ==
  ASSUME UNCHANGED storage, NEW h, Faithful(h),
         pc'[h] = pc[h], req'[h] = req[h], copy'[h] = copy[h], answer'[h] = answer[h],
         Writing(h) => orders'[req[h].id] = orders[req[h].id],
         storage = "postgres" /\ pc[h] \in PayPcs => \A id \in OrderIDs : orders'[id].params # req[h].n,
         pc[h] = "reply" /\ req[h].op = "pay" /\ orders[req[h].id].params # 0 =>
           orders'[req[h].id].params = orders[req[h].id].params /\ orders'[req[h].id].key = orders[req[h].id].key
  PROVE  Faithful(h)'
<1>1. CASE Writing(h)
  <2>1. Current(h)' = Current(h) /\ Writing(h)'
    BY <1>1 DEF Current, Writing
  <2> QED
    BY <1>1, <2>1 DEF Faithful, Writing
<1>2. CASE ~Writing(h)
  <2>1. ~Writing(h)' /\ pc[h] \notin PayPcs \cup CallbackPcs
    BY <1>2 DEF Writing
  <2> QED
    BY <2>1 DEF Faithful, Unchanged, Charges, PayPcs, CallbackPcs
<1> QED
  BY <1>1, <1>2

(* A step that leaves orders and receipts alone.                           *)
LEMMA Quiet ==
  ASSUME Serial, NEW g \in Handlers, UNCHANGED <<storage, orders, answered, issued>>, Numbered', Faithful(g)',
         \A h \in Handlers \ {g} : /\ pc'[h] = pc[h] /\ req'[h] = req[h]
                                   /\ copy'[h] = copy[h] /\ answer'[h] = answer[h]
  PROVE  Good
<1>1. (Receipts /\ IdempotentPay /\ Unissued)'
  BY DEF Serial, Receipts, IdempotentPay, Unissued
<1>2. ASSUME NEW h \in Handlers \ {g} PROVE Faithful(h)'
  <2>1. Faithful(h)
    BY DEF Serial
  <2>2. storage = "postgres" /\ pc[h] \in PayPcs => \A id \in OrderIDs : orders[id].params # req[h].n
    BY <2>1 DEF Faithful
  <2> QED
    BY <2>1, <2>2, Undisturbed
<1>3. LedgerStep
  BY DEF LedgerStep, Ledger!lvars
<1> QED
  BY <1>1, <1>2, <1>3 DEF Serial, Good

(* A request that does not pay leaves the numbers apart.                   *)
LEMMA NumbersKept ==
  ASSUME Numbered, NEW g \in Handlers, req' = req \/ req'[g].op # "pay", \A h \in Handlers \ {g} : req'[h] = req[h]
  PROVE  Numbered'
  BY DEF Numbered

(* What a request writes keeps what was charged, and charges its number.   *)
Keeps(g, new) ==
  LET o == orders[req[g].id]
  IN /\ new \in Orders /\ new.status # "none"
     /\ o.params # 0 => new.params = o.params /\ new.key = o.key
     /\ \/ new.params \in {0, o.params}
        \/ pc[g] \in PayPcs /\ new.params = req[g].n

(* A request that has the order for itself writes it.                      *)
LEMMA Writes ==
  ASSUME Exclusive, Inv, Serial, NEW g \in Handlers, Writing(g),
         UNCHANGED <<storage, req, answered, issued>>, NEW o, Keeps(g, o),
         orders' = [orders EXCEPT ![req[g].id] = o],
         \A h \in Handlers \ {g} : pc'[h] = pc[h] /\ copy'[h] = copy[h] /\ answer'[h] = answer[h],
         Faithful(g)'
  PROVE  Serial'
<1> DEFINE id == req[g].id
<1>1. /\ pc[g] # "idle" /\ id \in OrderIDs /\ id \in issued /\ orders \in [OrderIDs -> Orders]
      /\ orders[id].status # "none" /\ issued \subseteq OrderIDs
  <2>1. pc[g] # "idle" /\ Faithful(g)
    BY DEF Writing, PayPcs, CallbackPcs, Serial
  <2> QED
    BY <2>1, Busy DEF Inv, TypeOK, Faithful
<1>2. /\ o \in Orders /\ o.status # "none"
      /\ orders[id].params # 0 => o.params = orders[id].params /\ o.key = orders[id].key
      /\ \/ o.params \in {0, orders[id].params}
         \/ pc[g] \in PayPcs /\ o.params = req[g].n
  BY DEF Keeps
<1>3. Receipts'
  <2> SUFFICES ASSUME NEW a \in answered
               PROVE  \/ orders'[a.id].params = a.params /\ orders'[a.id].key = a.key
                      \/ orders'[a.id] = NoOrder
    BY DEF Serial, Receipts
  <2>1. /\ a.params # 0 /\ a.id \in OrderIDs
        /\ \/ orders[a.id].params = a.params /\ orders[a.id].key = a.key
           \/ orders[a.id] = NoOrder
    BY <1>1 DEF Serial, Receipts
  <2>2. CASE a.id = id
    BY <1>2, <1>1, <2>1, <2>2 DEF NoOrder
  <2>3. CASE a.id # id
    BY <1>1, <2>1, <2>3
  <2> QED
    BY <2>2, <2>3
<1>4. IdempotentPay' /\ Unissued' /\ Numbered'
  BY <1>1 DEF Serial, IdempotentPay, Unissued, Numbered
<1>5. ASSUME NEW h \in Handlers \ {g} PROVE Faithful(h)'
  <2>1. Faithful(h) /\ (pc[h] \in PayPcs => req[h].op = "pay" /\ req[h].n # 0)
    BY OrderAssumption DEF Serial, Inv, TypeOK, Placed
  <2>2. Writing(h) => orders'[req[h].id] = orders[req[h].id]
    <3>1. Writing(h) => req[h].id # id /\ req[h].id \in OrderIDs
      <4>1. Writing(h) => pc[h] # "idle"
        BY DEF Writing, PayPcs, CallbackPcs
      <4> QED
        BY <4>1, Busy DEF Exclusive, Inv
    <3> QED
      BY <1>1, <3>1
  <2>3. ASSUME storage = "postgres", pc[h] \in PayPcs, NEW x \in OrderIDs PROVE orders'[x].params # req[h].n
    <3>1. orders[x].params # req[h].n /\ orders[id].params # req[h].n
      BY <1>1, <2>1, <2>3 DEF Faithful
    <3>2. pc[g] \in PayPcs => req[g].n # req[h].n
      BY <2>1, <2>3 DEF Serial, Numbered, Inv, TypeOK, Placed
    <3>3. o.params # req[h].n
      BY <1>2, <2>1, <2>3, <3>1, <3>2
    <3> QED
      BY <1>1, <3>1, <3>3
  <2>4. pc[h] = "reply" => req[h].id \in OrderIDs
    BY Busy DEF Inv
  <2>5. pc[h] = "reply" /\ orders[req[h].id].params # 0 =>
          orders'[req[h].id].params = orders[req[h].id].params /\ orders'[req[h].id].key = orders[req[h].id].key
    BY <1>2, <1>1, <2>4
  <2> QED
    BY <2>1, <2>2, <2>3, <2>5, Undisturbed
<1> QED
  BY <1>3, <1>4, <1>5 DEF Serial

----------------------------------------------------------------------------
(* The steps of the ledger.                                                *)
LEMMA LedgerSteps ==
  ASSUME NEW CONSTANT id \in OrderIDs,
         \/ Ledger!Open(id) \/ Ledger!Tell(id)
         \/ \E k \in Keys, n \in 1..MaxPays : Ledger!Charge(id, k, n)
         \/ \E s \in Sent : Ledger!Notice(id, s)
  PROVE  LedgerStep
  BY DEF LedgerStep, Ledger!LedgerNext, Sent

LEMMA Opens ==
  ASSUME NEW CONSTANT id \in OrderIDs, orders \in [OrderIDs -> Orders], orders[id] = NoOrder,
         orders' = [orders EXCEPT ![id] = NewOrder], UNCHANGED answered
  PROVE  LedgerStep
<1>1. [orders[id] EXCEPT !.status = "created"] = [status |-> "created", key |-> orders[id].key, params |-> orders[id].params]
  BY DEF Orders
<1>2. NewOrder = [status |-> "created", key |-> orders[id].key, params |-> orders[id].params] /\ orders[id].status = "none"
  BY DEF NoOrder, NewOrder
<1>3. Ledger!Open(id)
  BY <1>1, <1>2 DEF Ledger!Open, Ledger!Exists
<1> QED
  BY <1>3, LedgerSteps

LEMMA Charging ==
  ASSUME NEW CONSTANT id \in OrderIDs, NEW CONSTANT k \in Keys, NEW CONSTANT n \in 1..MaxPays,
         orders[id].status \notin {"none", "paid"}, orders[id].params = 0,
         \A x \in OrderIDs : orders[x].params # n,
         orders' = [orders EXCEPT ![id] = Order("pending", k, n)],
         UNCHANGED answered
  PROVE  LedgerStep
<1>1. Ledger!Charge(id, k, n)
  BY DEF Ledger!Charge, Ledger!Exists, Order
<1> QED
  BY <1>1, LedgerSteps

LEMMA Notices ==
  ASSUME NEW CONSTANT id \in OrderIDs, NEW CONSTANT s \in Sent,
         orders \in [OrderIDs -> Orders], orders[id].status # "none",
         orders' = [orders EXCEPT ![id] = Order(s, orders[id].key, orders[id].params)],
         UNCHANGED answered
  PROVE  LedgerStep
<1>1. [orders[id] EXCEPT !.status = s] = Order(s, orders[id].key, orders[id].params)
  BY DEF Orders, Order
<1>2. Ledger!Notice(id, s)
  BY <1>1 DEF Ledger!Notice, Ledger!Exists
<1> QED
  BY <1>2, LedgerSteps

LEMMA Tells ==
  ASSUME NEW CONSTANT id \in OrderIDs, orders[id].params # 0, UNCHANGED orders,
         answered' = answered \cup {[id |-> id, key |-> orders[id].key, params |-> orders[id].params]}
  PROVE  LedgerStep
<1>1. Ledger!Tell(id)
  BY DEF Ledger!Tell
<1> QED
  BY <1>1, LedgerSteps

----------------------------------------------------------------------------
(* An answer that hands out no payment parameters.                         *)
LEMMA Refuses ==
  ASSUME TypeOK, NEW g \in Handlers, NEW code, NEW n, Answer(g, code, n), code # 200 \/ req'[g].op # "pay"
  PROVE  Faithful(g)'
<1>1. pc'[g] = "reply" /\ answer'[g].code = code
  BY DEF Answer, Goto, TypeOK
<1> QED
  BY <1>1 DEF Faithful, Writing, Unchanged, Charges, PayPcs, CallbackPcs

(* A handler that starts to write has the order in hand.                   *)
LEMMA InHand ==
  ASSUME TypeOK, TypeOK', NEW g \in Handlers, NEW id \in OrderIDs, Found(id), UNCHANGED <<storage, orders>>,
         req'[g].id = id, copy' = [copy EXCEPT ![g] = Copy(orders[id])]
  PROVE  Current(g)' = orders[id] /\ orders[req[g].id]' = orders[id] /\ orders[id].status # "none"
  BY DEF TypeOK, Current, Copy, Found

(* Creating an order: it is nobody else's.                                 *)
LEMMA SerialCreate ==
  ASSUME NoneFails, UNCHANGED storage, Inv, TypeOK', Serial, NEW g \in Handlers,
         NEW CONSTANT id \in OrderIDs, Create(g, id)
  PROVE  Good
<1>1. /\ id \notin issued /\ issued' = issued \cup {id} /\ answered' = answered
      /\ orders' = [orders EXCEPT ![id] = NewOrder] /\ orders[id] = NoOrder
      /\ orders \in [OrderIDs -> Orders] /\ issued \subseteq OrderIDs /\ req'[g].op = "create"
      /\ \A h \in Handlers \ {g} : /\ pc'[h] = pc[h] /\ req'[h] = req[h]
                                  /\ copy'[h] = copy[h] /\ answer'[h] = answer[h]
  BY Setting DEF Create, Begin, Request, Answer, Goto, Inv, TypeOK, Serial, Unissued
<1>2. Faithful(g)'
  BY <1>1, Refuses DEF Create, Inv
<1>3. Receipts' /\ IdempotentPay' /\ Unissued'
  BY <1>1 DEF Serial, Receipts, IdempotentPay, Unissued
<1>4. Numbered'
  BY <1>1, NumbersKept DEF Serial
<1>5. ASSUME NEW h \in Handlers \ {g} PROVE Faithful(h)'
  <2>1. Faithful(h) /\ (pc[h] \in PayPcs => req[h].n # 0)
    BY OrderAssumption DEF Serial, Inv, TypeOK, Placed
  <2>2. pc[h] # "idle" => req[h].id # id /\ orders'[req[h].id] = orders[req[h].id]
    BY <1>1, Busy DEF Inv
  <2>3. Writing(h) => pc[h] # "idle"
    BY DEF Writing, PayPcs, CallbackPcs
  <2>4. storage = "postgres" /\ pc[h] \in PayPcs => \A x \in OrderIDs : orders'[x].params # req[h].n
    BY <1>1, <2>1 DEF Faithful, NewOrder
  <2> QED
    BY <1>1, <2>1, <2>2, <2>3, <2>4, Undisturbed
<1>6. LedgerStep
  BY <1>1, Opens
<1> QED
  BY <1>2, <1>3, <1>4, <1>5, <1>6 DEF Serial, Good

(* A request begins with what the repository holds.                        *)
LEMMA SerialStart ==
  ASSUME NoneFails, UNCHANGED storage, Inv, TypeOK', Serial, NEW g \in Handlers, Start(g)
  PROVE  Good
<1>1. /\ orders \in [OrderIDs -> Orders] /\ pc \in [Handlers -> Pcs] /\ req \in [Handlers -> Requests]
      /\ copy \in [Handlers -> Orders] /\ answer \in [Handlers -> Answers] /\ pays \in Nat
      /\ \A h \in Handlers : req[h].op = "pay" => req[h].n \in 1..pays
      /\ TypeOK /\ Numbered
  BY OrderAssumption DEF Inv, TypeOK, Params, Placed, Serial
<1>2. ASSUME NEW id \in OrderIDs, GetOrder(g, id) PROVE Good
  <2>1. /\ pc'[g] \in {"encode", "reply"} /\ req'[g].op = "get"
        /\ \A h \in Handlers \ {g} : /\ pc'[h] = pc[h] /\ req'[h] = req[h]
                                    /\ copy'[h] = copy[h] /\ answer'[h] = answer[h]
    BY <1>1, <1>2 DEF GetOrder, Answer, Goto, Begin, Request
  <2>2. Faithful(g)'
    BY <2>1 DEF Faithful, Writing, Unchanged, Charges, PayPcs, CallbackPcs
  <2> QED
    BY <1>1, <1>2, <2>1, <2>2, Quiet, NumbersKept DEF GetOrder, history
<1>3. ASSUME NEW id \in OrderIDs, NEW k, Pay(g, id, k) PROVE Good
  <2>1. /\ req'[g].id = id /\ req'[g].n = pays + 1 /\ UNCHANGED <<orders, answered, issued>>
        /\ \A h \in Handlers \ {g} : /\ pc'[h] = pc[h] /\ req'[h] = req[h]
                                    /\ copy'[h] = copy[h] /\ answer'[h] = answer[h]
    BY <1>1, <1>3 DEF Pay, Begin, Request, Answer, Goto
  <2>2. Numbered'
    BY <1>1, <2>1 DEF Numbered
  <2>3. CASE Answer(g, 404, 0)
    BY <1>1, <2>1, <2>2, <2>3, Refuses, Quiet
  <2>4. CASE Found(id) /\ copy' = [copy EXCEPT ![g] = Copy(orders[id])] /\ Goto(g, "check_paid")
    <3>1. pc'[g] = "check_paid"
      BY <1>1, <2>4 DEF Goto
    <3>2. \A x \in OrderIDs : orders[x].params # pays + 1
      BY <1>1 DEF Inv, PayInv, Binds
    <3>3. Faithful(g)'
      BY <1>1, <2>1, <2>4, <3>1, <3>2, InHand DEF Faithful, Writing, Unchanged, Charges, CallbackPcs
    <3> QED
      BY <2>1, <2>2, <3>3, Quiet
  <2> QED
    BY <1>3, <2>3, <2>4 DEF Pay
<1>4. ASSUME NEW id \in OrderIDs, NEW s, Callback(g, id, s) PROVE Good
  <2>1. /\ req'[g].id = id /\ req'[g].op = "callback" /\ UNCHANGED <<orders, answered, issued>>
        /\ \A h \in Handlers \ {g} : /\ pc'[h] = pc[h] /\ req'[h] = req[h]
                                    /\ copy'[h] = copy[h] /\ answer'[h] = answer[h]
    BY <1>1, <1>4 DEF Callback, Begin, Request, history, Answer, Goto
  <2>2. Numbered'
    BY <1>1, <2>1, NumbersKept
  <2>3. CASE Answer(g, 404, 0)
    BY <1>1, <2>1, <2>2, <2>3, Refuses, Quiet
  <2>4. CASE Found(id) /\ copy' = [copy EXCEPT ![g] = Copy(orders[id])] /\ Goto(g, "set_status")
    <3>1. pc'[g] = "set_status"
      BY <1>1, <2>4 DEF Goto
    <3>2. Faithful(g)'
      BY <1>1, <2>1, <2>4, <3>1, InHand DEF Faithful, Writing, Unchanged, Charges, PayPcs
    <3> QED
      BY <2>1, <2>2, <3>2, Quiet
  <2> QED
    BY <1>4, <2>3, <2>4 DEF Callback
<1> QED
  BY <1>2, <1>3, <1>4, SerialCreate DEF Start

(* The looks of Pay find what the repository holds.                        *)
LEMMA SerialChecks ==
  ASSUME UNCHANGED storage, Inv, TypeOK', Serial, NEW g \in Handlers,
         CheckPaid(g) \/ CheckKey(g) \/ CheckCached(g)
  PROVE  Good
<1> DEFINE c == Current(g)
<1>1. /\ UNCHANGED <<orders, answered, issued, req, copy>> /\ TypeOK
      /\ pc[g] \in {"check_paid", "check_key", "check_cached"} /\ Faithful(g) /\ Numbered'
  BY DEF Inv, CheckPaid, CheckKey, CheckCached, At, history, Serial, Numbered
<1>2. \A h \in Handlers \ {g} : pc'[h] = pc[h] /\ answer'[h] = answer[h]
  BY <1>1 DEF CheckPaid, CheckKey, CheckCached, Answer, Goto, TypeOK
<1>3. Faithful(g)' => Good
  BY <1>1, <1>2, Quiet
<1>4. /\ c = orders[req[g].id] /\ Binds(c) /\ Current(g)' = c /\ orders[req[g].id].status # "none"
      /\ storage = "postgres" => \A id \in OrderIDs : orders[id].params # req[g].n
  <2>1. c = orders[req[g].id] /\ Current(g)' = c /\ req[g].id \in OrderIDs
    BY <1>1, Busy DEF Faithful, Unchanged, Current
  <2>2. Binds(c)
    BY <2>1 DEF Inv, PayInv
  <2> QED
    BY <1>1, <2>1, <2>2 DEF Faithful, Writing, PayPcs
<1> HIDE DEF c
<1>5. CASE CheckPaid(g)
  <2>1. CASE Answer(g, 409, 0)
    BY <1>1, <1>3, <2>1, Refuses
  <2>2. CASE ~IsPaid(c) /\ Goto(g, "check_key")
    <3>1. pc'[g] = "check_key"
      BY <1>1, <2>2 DEF Goto, TypeOK
    <3>2. Faithful(g)'
      BY <1>1, <1>4, <2>2, <3>1 DEF Faithful, Writing, Unchanged, Charges, CallbackPcs, IsPaid
    <3> QED
      BY <1>3, <3>2
  <2> QED
    BY <1>5, <2>1, <2>2 DEF CheckPaid, c
<1>6. CASE CheckKey(g)
  <2>1. CASE Answer(g, 409, 0)
    BY <1>1, <1>3, <2>1, Refuses
  <2>2. CASE ~OtherKey(c, req[g].key) /\ Goto(g, "check_cached")
    <3>1. pc'[g] = "check_cached" /\ orders[req[g].id].status # "paid"
      BY <1>1, <1>6, <2>2 DEF Goto, TypeOK, CheckKey, At, Faithful
    <3>2. Faithful(g)'
      BY <1>1, <1>4, <2>2, <3>1 DEF Faithful, Writing, Unchanged, Charges, CallbackPcs, OtherKey
    <3> QED
      BY <1>3, <3>2
  <2> QED
    BY <1>6, <2>1, <2>2 DEF CheckKey, c
<1>7. CASE CheckCached(g)
  <2>1. orders[req[g].id].status # "paid" /\ orders[req[g].id].key \in {None, req[g].key}
    BY <1>1, <1>7 DEF CheckCached, At, Faithful
  <2>2. CASE Cached(c, req[g].key) /\ Answer(g, 200, c.params)
    <3>1. pc'[g] = "reply" /\ answer'[g].params = c.params
      BY <1>1, <2>2 DEF Answer, Goto, TypeOK
    <3>2. Faithful(g)'
      BY <1>1, <1>4, <2>2, <3>1 DEF Faithful, Writing, Unchanged, Charges, PayPcs, CallbackPcs, Cached
    <3> QED
      BY <1>3, <3>2
  <2>3. CASE ~Cached(c, req[g].key) /\ Goto(g, "set_pending")
    <3>1. pc'[g] = "set_pending"
      BY <1>1, <2>3 DEF Goto, TypeOK
    <3>2. c.params = 0
      BY <1>4, <2>1, <2>3 DEF Binds, Cached
    <3>3. Faithful(g)'
      BY <1>1, <1>4, <2>1, <3>1, <3>2 DEF Faithful, Writing, Unchanged, Charges, CallbackPcs
    <3> QED
      BY <1>3, <3>3
  <2> QED
    BY <1>7, <2>2, <2>3 DEF CheckCached, c
<1> QED
  BY <1>5, <1>6, <1>7

(* An assignment: at once in the order, or in the copy.                    *)
LEMMA Assigned ==
  ASSUME NoneFails, Inv, NEW g \in Handlers, Writing(g), UNCHANGED <<storage, req>>, NEW o, Assign(g, o)
  PROVE  /\ Current(g)' = o
         /\ \A h \in Handlers \ {g} : copy'[h] = copy[h]
         /\ \/ /\ storage = "memory" /\ orders' = [orders EXCEPT ![req[g].id] = o]
               /\ orders'[req[g].id] = o
            \/ storage = "postgres" /\ orders' = orders
<1>1. req[g].id \in OrderIDs /\ TypeOK
  BY Busy DEF Writing, PayPcs, CallbackPcs, Inv
<1> QED
  BY <1>1 DEF Assign, Current, TypeOK

LEMMA AssignedWell ==
  ASSUME Exclusive, NoneFails, Inv, Serial, NEW g \in Handlers, Writing(g),
         UNCHANGED <<storage, req, answered, issued>>, NEW o, Assign(g, o), Keeps(g, o),
         \A h \in Handlers \ {g} : pc'[h] = pc[h] /\ answer'[h] = answer[h],
         Faithful(g)'
  PROVE  Good
<1>1. CASE storage = "memory"
  BY <1>1, Assigned, Writes DEF Good
<1>2. CASE storage = "postgres"
  BY <1>2, Assigned, Quiet, NumbersKept DEF Serial
<1> QED
  BY <1>1, <1>2, Setting DEF Inv

(* The assignments of Pay and Callback.                                    *)
LEMMA SerialAssigns ==
  ASSUME Exclusive, NoneFails, UNCHANGED storage, Inv, TypeOK', Serial, NEW g \in Handlers,
         SetPending(g) \/ SetKey(g) \/ SetParams(g) \/ SetStatus(g)
  PROVE  Good
<1> DEFINE c == Current(g)
           o == orders[req[g].id]
<1>1. /\ UNCHANGED <<answered, issued, req>> /\ answer' = answer /\ TypeOK /\ Writing(g) /\ Faithful(g)
      /\ pc[g] \in {"set_pending", "set_key", "set_params", "set_status"}
      /\ \A h \in Handlers \ {g} : pc'[h] = pc[h]
  BY DEF Inv, TypeOK, SetPending, SetKey, SetParams, SetStatus, At, Goto, history, Serial, Writing, PayPcs, CallbackPcs
<1>2. /\ o.status # "none" /\ o \in Orders /\ c \in Orders /\ req[g].id \in OrderIDs
      /\ storage = "postgres" /\ pc[g] # "set_status" => \A id \in OrderIDs : orders[id].params # req[g].n
      /\ pc[g] # "set_status" => o.status # "paid" /\ o.params = 0
      /\ pc[g] # "set_status" /\ pc[g] # "set_params" => o.key \in {None, req[g].key}
  BY <1>1, Busy DEF Faithful, Writing, PayPcs, CallbackPcs, Charges
<1>3. pc[g] # "set_status" => req[g].key \in Keys /\ req[g].n \in Params
  BY <1>1, Busy DEF TypeOK, Placed, PayPcs
<1>4. CASE SetPending(g)
  <2> DEFINE new == WithPending(c)
  <2>1. pc[g] = "set_pending" /\ pc'[g] = "set_key" /\ Assign(g, new)
    BY <1>1, <1>4 DEF SetPending, At, Goto, TypeOK
  <2>2. new = Order("pending", o.key, 0) /\ new \in Orders
    <3>1. c = o
      BY <1>1, <2>1 DEF Faithful, Unchanged
    <3>2. o = Order(o.status, o.key, 0)
      BY <1>2, <2>1 DEF Orders, Order
    <3>3. WithPending(o) \in Orders
      BY <1>2 DEF WithPending, Orders, Statuses, Sent
    <3> QED
      BY <3>1, <3>2, <3>3 DEF WithPending, Order
  <2> HIDE DEF new
  <2>3. Current(g)' = new /\ orders'[req[g].id] \in {o, new} /\ (storage = "postgres" => orders' = orders)
    BY <1>1, <2>1, Assigned
  <2>4. Faithful(g)'
    BY <1>1, <1>2, <2>1, <2>2, <2>3 DEF Faithful, Writing, Unchanged, Charges, CallbackPcs, Order
  <2>5. Keeps(g, new)
    BY <1>2, <2>1, <2>2 DEF Order, Keeps
  <2> QED
    BY <1>1, <2>1, <2>4, <2>5, AssignedWell
<1>5. CASE SetKey(g)
  <2> DEFINE new == WithKey(c, req[g].key)
  <2>1. pc[g] = "set_key" /\ pc'[g] = "set_params" /\ Assign(g, new)
    BY <1>1, <1>5 DEF SetKey, At, Goto, TypeOK
  <2>2. new = Order("pending", req[g].key, 0) /\ new \in Orders
    <3>1. c = Order("pending", o.key, 0)
      BY <1>1, <2>1 DEF Faithful
    <3>2. WithKey(c, req[g].key) \in Orders
      BY <1>2, <1>3, <2>1 DEF WithKey, Orders
    <3> QED
      BY <3>1, <3>2 DEF WithKey, Order
  <2> HIDE DEF new
  <2>3. Current(g)' = new /\ orders'[req[g].id] \in {o, new} /\ (storage = "postgres" => orders' = orders)
    BY <1>1, <2>1, Assigned
  <2>4. Faithful(g)'
    BY <1>1, <1>2, <2>1, <2>2, <2>3 DEF Faithful, Writing, Unchanged, Charges, CallbackPcs, Order
  <2>5. Keeps(g, new)
    BY <1>2, <2>1, <2>2 DEF Order, Keeps
  <2> QED
    BY <1>1, <2>1, <2>4, <2>5, AssignedWell
<1>6. CASE SetParams(g)
  <2> DEFINE new == WithParams(c, req[g].n)
  <2>1. pc[g] = "set_params" /\ pc'[g] = "put" /\ Assign(g, new)
    BY <1>1, <1>6 DEF SetParams, At, Goto, TypeOK
  <2>2. new = Order("pending", req[g].key, req[g].n) /\ new \in Orders
    <3>1. c = Order("pending", req[g].key, 0)
      BY <1>1, <2>1 DEF Faithful
    <3>2. WithParams(c, req[g].n) \in Orders
      BY <1>2, <1>3, <2>1 DEF WithParams, Orders
    <3> QED
      BY <3>1, <3>2 DEF WithParams, Order
  <2> HIDE DEF new
  <2>3. Current(g)' = new /\ orders'[req[g].id] \in {o, new} /\ (storage = "postgres" => orders' = orders)
    BY <1>1, <2>1, Assigned
  <2>4. Faithful(g)'
    BY <1>1, <1>2, <2>1, <2>2, <2>3 DEF Faithful, Writing, Unchanged, Charges, CallbackPcs, Order
  <2>5. Keeps(g, new)
    BY <1>2, <2>1, <2>2 DEF Order, Keeps, PayPcs
  <2> QED
    BY <1>1, <2>1, <2>4, <2>5, AssignedWell
<1>7. CASE SetStatus(g)
  <2> DEFINE new == WithStatus(c, req[g].status)
  <2>1. pc[g] = "set_status" /\ pc'[g] = "put_status" /\ Assign(g, new) /\ req[g].status \in Sent
    BY <1>1, <1>7 DEF SetStatus, At, Goto, TypeOK
  <2>2. new = Order(req[g].status, o.key, o.params) /\ new \in Orders /\ new.status # "none"
    <3>1. c = o
      BY <1>1, <2>1 DEF Faithful, Unchanged
    <3>2. o = Order(o.status, o.key, o.params)
      BY <1>2 DEF Orders, Order
    <3>3. WithStatus(o, req[g].status) \in Orders
      BY <1>2, <2>1 DEF WithStatus, Orders, Statuses, Sent
    <3>4. WithStatus(o, req[g].status) = Order(req[g].status, o.key, o.params)
      BY <3>2 DEF WithStatus, Order
    <3> QED
      BY <2>1, <3>1, <3>3, <3>4 DEF Order, Sent
  <2> HIDE DEF new
  <2>3. Current(g)' = new /\ orders'[req[g].id] \in {o, new}
    BY <1>1, <2>1, Assigned
  <2>4. Faithful(g)'
    BY <1>1, <1>2, <2>1, <2>2, <2>3 DEF Faithful, Writing, Unchanged, Charges, PayPcs, Order
  <2>5. Keeps(g, new)
    BY <2>2 DEF Order, Keeps
  <2> QED
    BY <1>1, <2>1, <2>4, <2>5, AssignedWell
<1> QED
  BY <1>4, <1>5, <1>6, <1>7

(* Put stores the object: one charge, or one notice.                       *)
LEMMA SerialPuts ==
  ASSUME Exclusive, NoneFails, UNCHANGED storage, Inv, TypeOK', Serial, NEW g \in Handlers,
         PutPay(g) \/ PutStatus(g)
  PROVE  Good
<1> DEFINE c == Current(g)
<1>1. /\ UNCHANGED <<answered, issued, req, copy>> /\ TypeOK /\ Writing(g) /\ Faithful(g) /\ pc[g] # "idle"
      /\ \A h \in Handlers \ {g} : pc'[h] = pc[h] /\ answer'[h] = answer[h]
  BY DEF Inv, TypeOK, PutPay, PutStatus, At, Answer, Goto, history, Serial, Writing, PayPcs, CallbackPcs
<1>2. PICK id \in OrderIDs : id = req[g].id
  BY <1>1, Busy
<1>3. /\ orders \in [OrderIDs -> Orders] /\ orders[id] \in Orders /\ c \in Orders
      /\ orders[id].status # "none"
  BY <1>1, <1>2, Busy DEF TypeOK, Faithful
<1>4. orders' = [orders EXCEPT ![id] = c] /\ orders'[id] = c
  <2>1. CASE storage = "memory"
    BY <1>1, <1>2, <1>3, <2>1 DEF PutPay, PutStatus, PutOrder, Current
  <2>2. CASE storage = "postgres"
    BY <1>1, <1>2, <1>3, <2>2, Setting DEF PutPay, PutStatus, PutOrder, Current
  <2> QED
    BY <1>1, <2>1, <2>2, Setting
<1> HIDE DEF c
<1>5. CASE PutPay(g)
  <2>1. PICK k \in Keys, n \in 1..MaxPays : k = req[g].key /\ n = req[g].n /\ n # 0
    BY <1>1, <1>5, OrderAssumption DEF PutPay, At, PayPcs, TypeOK, Placed, Params
  <2>2. /\ pc[g] = "put" /\ orders[id].status # "paid"
        /\ storage = "postgres" => orders[id].params = 0 /\ \A x \in OrderIDs : orders[x].params # n
        /\ storage = "memory" => orders[id] = c
        /\ c = Order("pending", k, n)
    BY <1>1, <1>2, <1>5, <2>1 DEF PutPay, At, Faithful, Charges, PayPcs, Current, c
  <2>3. storage = "postgres" => LedgerStep
    BY <1>1, <1>3, <1>4, <2>2, Charging
  <2>4. pc'[g] = "reply" /\ answer'[g].params = n
    BY <1>1, <1>5, <2>1 DEF PutPay, Answer, Goto, TypeOK
  <2>5. Faithful(g)'
    BY <1>1, <1>2, <1>4, <2>1, <2>2, <2>4 DEF Faithful, Writing, Unchanged, Charges, PayPcs, CallbackPcs, Order
  <2>6. Keeps(g, c)
    <3>1. orders[id].params # 0 => c.params = orders[id].params /\ c.key = orders[id].key
      BY <1>1, <2>2, Setting
    <3> QED
      BY <1>2, <1>3, <2>1, <2>2, <3>1 DEF Order, PayPcs, Keeps
  <2>7. Serial'
    BY <1>1, <1>2, <1>4, <2>5, <2>6, Writes
  <2> QED
    BY <2>3, <2>7 DEF Good
<1>6. CASE PutStatus(g)
  <2>1. PICK s \in Sent : s = req[g].status
    BY <1>1, <1>6 DEF PutStatus, At, TypeOK, Placed
  <2>2. c = Order(s, orders[id].key, orders[id].params)
    BY <1>1, <1>2, <1>6, <2>1 DEF PutStatus, At, Faithful, c
  <2>3. LedgerStep
    BY <1>1, <1>3, <1>4, <2>2, Notices
  <2>4. req'[g].op # "pay"
    BY <1>1, <1>6 DEF PutStatus, At, CallbackPcs, TypeOK, Placed
  <2>5. Faithful(g)'
    BY <1>1, <1>6, <2>4, Refuses DEF PutStatus
  <2>6. Keeps(g, c)
    BY <1>2, <1>3, <2>2 DEF Order, Sent, Keeps
  <2>7. Serial'
    BY <1>1, <1>2, <1>4, <2>5, <2>6, Writes
  <2> QED
    BY <2>3, <2>7 DEF Good
<1> QED
  BY <1>5, <1>6

(* The answer that is sent says what the order says.                       *)
LEMMA SerialReply ==
  ASSUME UNCHANGED storage, Inv, TypeOK', Serial, NEW g \in Handlers, Reply(g)
  PROVE  Good
<1>1. /\ UNCHANGED <<orders, issued>> /\ Faithful(g) /\ pc[g] = "reply" /\ pc'[g] = "idle" /\ req'[g] = NoRequest
      /\ \A h \in Handlers \ {g} : /\ pc'[h] = pc[h] /\ req'[h] = req[h]
                                  /\ copy'[h] = copy[h] /\ answer'[h] = answer[h]
  BY DEF Inv, TypeOK, Reply, At, Goto, Serial
<1>2. Faithful(g)' /\ Numbered'
  BY <1>1, NumbersKept DEF Serial, Faithful, Writing, Unchanged, Charges, PayPcs, CallbackPcs, NoRequest, Request
<1>3. CASE answered' = answered
  BY <1>1, <1>2, <1>3, Quiet
<1>4. CASE req[g].op = "pay" /\ answer[g].code = 200
  <2>1. PICK id \in OrderIDs : id = req[g].id /\ id \in issued
    BY <1>1, Busy DEF Inv
  <2> DEFINE receipt == [id |-> id, key |-> orders[id].key, params |-> orders[id].params]
  <2>2. /\ orders[id].params # 0 /\ answer[g].params = orders[id].params /\ req[g].key = orders[id].key
    BY <1>1, <1>4, <2>1 DEF Faithful
  <2>3. answered' = answered \cup {receipt}
    BY <1>4, <2>1, <2>2 DEF Reply, Receipt
  <2>4. LedgerStep
    BY <1>1, <2>2, <2>3, Tells
  <2>5. Receipts' /\ Unissued'
    BY <1>1, <2>1, <2>2, <2>3 DEF Serial, Receipts, Unissued
  <2>6. IdempotentPay'
    <3>1. ASSUME NEW a \in answered, a.id = id PROVE a = receipt
      <4>1. orders[id].params = a.params /\ orders[id].key = a.key
        BY <2>2, <3>1 DEF Serial, Receipts, NoOrder
      <4>2. a = [id |-> a.id, key |-> a.key, params |-> a.params]
        BY DEF Inv, TypeOK
      <4> QED
        BY <3>1, <4>1, <4>2
    <3>2. receipt.id = id
      OBVIOUS
    <3> HIDE DEF receipt
    <3> QED
      BY <2>3, <3>1, <3>2 DEF Serial, IdempotentPay
  <2>7. ASSUME NEW h \in Handlers \ {g} PROVE Faithful(h)'
    <3>1. Faithful(h)
      BY DEF Serial
    <3>2. storage = "postgres" /\ pc[h] \in PayPcs => \A x \in OrderIDs : orders[x].params # req[h].n
      BY <3>1 DEF Faithful
    <3> QED
      BY <1>1, <3>1, <3>2, Undisturbed
  <2> QED
    BY <1>2, <2>4, <2>5, <2>6, <2>7 DEF Serial, Good
<1> QED
  BY <1>3, <1>4 DEF Reply

(* Every step is one of the ledger or none, and keeps copies faithful.     *)
LEMMA SerialNext ==
  ASSUME Exclusive, NoneFails, Inv, Serial, [Next]_vars
  PROVE  Good
<1>1. UNCHANGED storage /\ TypeOK' /\ TypeOK /\ Numbered
  BY InvNext DEF Next, vars, Inv, Serial
<1>2. ~\E g, h \in Handlers : TornKey(g, h) \/ TornStatus(g, h) \/ PanicRead(g)
  BY DEF Exclusive, Writing, PayPcs, CallbackPcs, TornKey, TornStatus, PanicRead, Racing
<1>3. ASSUME NEW g \in Handlers, Encode(g) \/ CallbackRefused(g) PROVE Good
  <2>1. /\ UNCHANGED <<orders, answered, issued, req>>
        /\ \A h \in Handlers \ {g} : pc'[h] = pc[h] /\ copy'[h] = copy[h] /\ answer'[h] = answer[h]
    BY <1>1, <1>3 DEF Encode, CallbackRefused, Answer, Goto, history, TypeOK
  <2>2. Numbered'
    BY <1>1, <2>1, NumbersKept
  <2>3. CASE Encode(g)
    <3>1. req'[g].op # "pay"
      BY <2>1, <2>3 DEF Encode, At, Serial, Faithful
    <3>2. Faithful(g)'
      BY <1>1, <2>3, <3>1, Refuses DEF Encode
    <3> QED
      BY <1>1, <2>1, <2>2, <3>2, Quiet
  <2>4. CASE CallbackRefused(g)
    <3>1. Faithful(g)'
      BY <1>1, <2>4, Refuses DEF CallbackRefused
    <3> QED
      BY <1>1, <2>1, <2>2, <3>1, Quiet DEF CallbackRefused
  <2> QED
    BY <1>3, <2>3, <2>4
<1>4. CASE Crash
  <2>1. \A g \in Handlers : Faithful(g)' /\ req'[g] = NoRequest
    BY <1>4 DEF Crash, Faithful, Writing, Unchanged, Charges, PayPcs, CallbackPcs
  <2>2. /\ UNCHANGED <<answered, issued>> /\ answered \subseteq [id : OrderIDs, key : Keys, params : Params]
        /\ \A id \in OrderIDs : orders'[id] = orders[id] \/ orders'[id] = NoOrder
    BY <1>1, <1>4 DEF Crash, history, TypeOK
  <2>3. (Receipts /\ IdempotentPay /\ Unissued)'
    BY <2>2 DEF Serial, Receipts, IdempotentPay, Unissued
  <2>4. Numbered'
    BY <2>1 DEF Numbered, NoRequest, Request
  <2>5. storage = "postgres" => LedgerStep
    BY <1>4, <2>2 DEF Crash, LedgerStep, Ledger!lvars
  <2> QED
    BY <2>1, <2>3, <2>4, <2>5 DEF Serial, Good
<1>5. CASE UNCHANGED vars
  <2>1. \A g \in Handlers : Faithful(g)'
    BY <1>5 DEF vars, history, Serial, Faithful, Writing, Current
  <2>2. (Receipts /\ IdempotentPay /\ Unissued /\ Numbered)'
    BY <1>5 DEF vars, history, Serial, Receipts, IdempotentPay, Unissued, Numbered
  <2>3. LedgerStep
    BY <1>5 DEF vars, history, LedgerStep, Ledger!lvars
  <2> QED
    BY <2>1, <2>2, <2>3 DEF Serial, Good
<1> QED
  BY <1>1, <1>2, <1>3, <1>4, <1>5, SerialStart, SerialChecks, SerialAssigns, SerialPuts, SerialReply
  DEF Next, Step, PayStep, CallbackStep

LEMMA SerialInit == Init => Serial
  BY DEF Init, Serial, Receipts, IdempotentPay, Unissued, Numbered, Faithful, Writing, Unchanged, Charges,
     PayPcs, CallbackPcs, NoRequest, Request

(* No Pay writes an order it knows to be paid.                             *)
LEMMA PaidKept ==
  ASSUME NoneFails, Inv, Serial, UNCHANGED storage, NEW g \in Handlers, NEW id \in OrderIDs,
         PayStep(g), orders[id].status = "paid"
  PROVE  orders'[id].status = "paid"
<1>1. CASE pc[g] \in Charges
  <2>1. Writing(g) /\ orders[req[g].id].status # "paid" /\ pc[g] # "idle"
    BY <1>1 DEF Serial, Faithful, Charges, Writing, PayPcs
  <2>2. req[g].id \in OrderIDs /\ orders \in [OrderIDs -> Orders]
    BY <2>1, Busy DEF Inv, TypeOK
  <2>3. orders' = orders \/ \E o : orders' = [orders EXCEPT ![req[g].id] = o]
    BY <2>2, Setting DEF PayStep, CheckPaid, CheckKey, CheckCached, SetPending, SetKey, SetParams, PutPay, Assign,
       PutOrder, Inv
  <2> QED
    BY <2>1, <2>2, <2>3
<1>2. CASE pc[g] \notin Charges
  BY <1>2 DEF Charges, PayStep, CheckPaid, CheckKey, CheckCached, SetPending, SetKey, SetParams, PutPay, At
<1> QED
  BY <1>1, <1>2

----------------------------------------------------------------------------
(* What the runs of ExclusiveSpec are.                                     *)
LEMMA ExclusiveRuns == ExclusiveSpec => Spec /\ []Exclusive
<1>1. Init => Exclusive
  BY DEF Init, Exclusive, Writing, PayPcs, CallbackPcs
<1>2. Exclusive /\ [Next /\ Exclusive']_vars => Exclusive' /\ [Next]_vars
  BY DEF Exclusive, Writing, vars
<1> QED
  BY <1>1, <1>2, PTL DEF ExclusiveSpec, Spec

(* When a Pay or callback has its order for itself from Get to Put         *)
(* (order_service.go 36-67, 70-88), a Pay can be retried: every answer for *)
(* an order has the same parameters and the same key, for any number of    *)
(* requests at work on other orders, with crashes between Put and the      *)
(* answer and any number of lost answers, in both storages.                *)
THEOREM ExclusivePayIdempotent ==
  ASSUME NoneFails PROVE ExclusiveSpec => []IdempotentPay
<1>1. Init => Inv /\ Serial
  BY InvInit, SerialInit
<1>2. Inv /\ Serial /\ Exclusive /\ [Next]_vars => Inv' /\ Serial'
  BY InvNext, SerialNext DEF Good
<1>3. Inv /\ Serial => IdempotentPay
  BY DEF Serial
<1> QED
  BY <1>1, <1>2, <1>3, ExclusiveRuns, PTL DEF Spec

(* Nor does a Pay then take an order out of paid.                          *)
THEOREM ExclusivePaidStays ==
  ASSUME NoneFails PROVE ExclusiveSpec => PaidNotUndone
<1> DEFINE Kept == \A g \in Handlers, id \in OrderIDs :
                     PayStep(g) /\ orders[id].status = "paid" => orders'[id].status = "paid"
<1>1. Init => Inv /\ Serial
  BY InvInit, SerialInit
<1>2. Inv /\ Serial /\ Exclusive /\ [Next]_vars => Inv' /\ Serial'
  BY InvNext, SerialNext DEF Good
<1>3. Inv /\ Serial /\ [Next]_vars => [Kept]_vars
  <2> SUFFICES ASSUME Inv, Serial, Next PROVE Kept
    BY DEF vars
  <2> QED
    BY PaidKept DEF Next
<1> QED
  BY <1>1, <1>2, <1>3, ExclusiveRuns, PTL DEF Spec, PaidNotUndone

(* In PostgreSQL the service then implements the ledger: an order is       *)
(* charged at most once, and every answer is a receipt of what it says.    *)
THEOREM ExclusiveLedger ==
  ASSUME NoneFails, Storages = {"postgres"} PROVE ExclusiveSpec => ImplementsLedger
<1>1. Init => Inv /\ Serial
  BY InvInit, SerialInit
<1>2. Init => Ledger!LedgerInit
  BY DEF Init, NoOrder, Ledger!LedgerInit, Ledger!Absent
<1>3. Inv /\ Serial /\ Exclusive /\ [Next]_vars => Inv' /\ Serial'
  BY InvNext, SerialNext DEF Good
<1>4. Inv /\ Serial /\ Exclusive /\ [Next]_vars => [Ledger!LedgerNext]_(Ledger!lvars)
  <2>1. Inv => storage = "postgres"
    BY DEF Inv, TypeOK
  <2> QED
    BY <2>1, SerialNext DEF Good, LedgerStep
<1> QED
  BY <1>1, <1>2, <1>3, <1>4, ExclusiveRuns, PTL DEF Spec, ImplementsLedger, Ledger!LedgerSpec

----------------------------------------------------------------------------
(* One request at a time is a case of this.                                *)
LEMMA AloneIsExclusive ==
  ASSUME OneAtATime PROVE NoneFails /\ (Spec => ExclusiveSpec)
<1>1. [Next]_vars => [Next /\ Exclusive']_vars
  BY DEF OneAtATime, Exclusive
<1> QED
  BY <1>1, PTL DEF OneAtATime, Spec, ExclusiveSpec

(* One request at a time, every answer to a Pay of one order is the same.  *)
THEOREM SerialPayIdempotent ==
  ASSUME OneAtATime PROVE Spec => []IdempotentPay
  BY AloneIsExclusive, ExclusivePayIdempotent, PTL

(* One request at a time, no Pay takes an order out of paid.               *)
THEOREM SerialPaidStays ==
  ASSUME OneAtATime PROVE Spec => PaidNotUndone
  BY AloneIsExclusive, ExclusivePaidStays, PTL

(* One request at a time, the service implements the ledger.               *)
THEOREM LedgerImplemented ==
  ASSUME OneAtATime, Storages = {"postgres"} PROVE Spec => ImplementsLedger
  BY AloneIsExclusive, ExclusiveLedger, PTL
=============================================================================
