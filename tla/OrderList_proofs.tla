-------------------------- MODULE OrderList_proofs --------------------------
(* Theorems about OrderList, for every value of its constants. *)
EXTENDS OrderList, FiniteSetTheorems, TLAPS

----------------------------------------------------------------------------
(* A number that an int can hold is not wrapped.                           *)
LEMMA InReach ==
  ASSUME NEW n \in 0..MaxInt
  PROVE  Wrap(n) = n
  BY ListAssumption DEF Wrap

(* The orders are few enough to count.                                     *)
LEMMA Countable ==
  ASSUME NEW S \in SUBSET Stamps
  PROVE  IsFiniteSet(S) /\ Cardinality(S) \in 0..MaxOrders
<1>1. IsFiniteSet(Stamps) /\ Cardinality(Stamps) = MaxOrders
  BY FS_Interval, ListAssumption DEF Stamps
<1>2. IsFiniteSet(S) /\ Cardinality(S) <= MaxOrders
  BY <1>1, FS_Subset
<1> QED
  BY <1>2, FS_CardinalityType, ListAssumption

(* A place in the list is a number up to its length, ...                   *)
LEMMA Places ==
  ASSUME NEW S \in SUBSET Stamps, NEW x
  PROVE  /\ Position(S, x) \in 0..MaxOrders
         /\ Position(S, x) <= Cardinality(S)
         /\ x \in S => Position(S, x) >= 1
<1> DEFINE T == {y \in S : y >= x}
<1>1. Position(S, x) \in 0..MaxOrders /\ IsFiniteSet(T)
  BY Countable DEF Position
<1>2. Position(S, x) <= Cardinality(S)
  BY Countable, FS_Subset DEF Position
<1>3. ASSUME x \in S PROVE Position(S, x) >= 1
  <2>1. {x} \subseteq T
    BY <1>3, ListAssumption DEF Stamps
  <2>2. Cardinality({x}) <= Cardinality(T)
    BY <1>1, <2>1, FS_Subset
  <2>3. Cardinality({x}) = 1
    BY FS_Singleton
  <2> QED
    BY <2>2, <2>3 DEF Position
<1> QED
  BY <1>1, <1>2, <1>3

(* and an insertion anywhere only moves an order towards the end.          *)
LEMMA Shifts ==
  ASSUME NEW S \in SUBSET Stamps, NEW T \in SUBSET Stamps, S \subseteq T, NEW x
  PROVE  Position(S, x) <= Position(T, x)
<1>1. {y \in S : y >= x} \subseteq {y \in T : y >= x} /\ {y \in T : y >= x} \in SUBSET Stamps
  OBVIOUS
<1> QED
  BY <1>1, Countable, FS_Subset DEF Position

----------------------------------------------------------------------------
(* Types, handler by handler.                                              *)
Pcs == {"idle", "put", "list", "count", "reply"}

(* The empty server is well typed.                                         *)
LEMMA TypeInit == Init => TypeOK
  BY ListAssumption DEF Init, ServerInit, Selected, Stores, TypeOK, Jobs, NoJob, Answers, NoAnswer,
     Walks, NoWalk, Walk

(* What a handler starts with, and has in hand.                            *)
LEMMA InHand ==
  ASSUME TypeOK, NEW g \in Handlers
  PROVE  /\ job[g] \in Jobs /\ answer[g] \in Answers /\ walk[g] \in Walks
         /\ storage \in Stores /\ Listed \in SUBSET Stamps
         /\ NoJob \in Jobs /\ NoAnswer \in Answers /\ NoWalk \in Walks
         /\ 0 \in 0..MaxOrders /\ 0 \in 0..MaxInt
         /\ Cardinality(Listed) \in 0..MaxOrders
<1>1. Listed \in SUBSET Stamps
  BY DEF TypeOK, Listed, OrderRepo
<1> QED
  BY <1>1, Countable, ListAssumption DEF TypeOK, NoJob, NoAnswer, NoWalk, Walk, Jobs, Answers, Walks

(* A step of one handler, which has a job for where it goes.               *)
LEMMA TypeMove ==
  ASSUME TypeOK, NEW g \in Handlers, NEW p \in Pcs, Goto(g, p),
         storage' = storage, clock' \in 0..MaxOrders, orders' \in [Stores -> SUBSET Stamps],
         job' \in [Handlers -> Jobs], answer' \in [Handlers -> Answers], walk' \in [Handlers -> Walks],
         \A h \in Handlers \ {g} : job'[h] = job[h],
         p = "put" => job'[g].stamp \in Stamps,
         p \in {"list", "count", "reply"} => job'[g].page \in Pages /\ job'[g].size \in Sizes
  PROVE  TypeOK'
<1>1. /\ pc' \in [Handlers -> Pcs]
      /\ pc'[g] = p /\ \A h \in Handlers \ {g} : pc'[h] = pc[h]
  BY DEF TypeOK, Goto, Pcs
<1> QED
  BY <1>1 DEF TypeOK, Pcs

(* An order is stamped, ...                                                *)
LEMMA TypeStamp ==
  ASSUME TypeOK, NEW g \in Handlers, Stamp(g)
  PROVE  TypeOK'
<1> DEFINE j == [NoJob EXCEPT !.stamp = clock']
<1>1. clock' \in Stamps /\ clock' \in 0..MaxOrders
  BY ListAssumption DEF Stamp, Now, TypeOK, Stamps
<1>2. j \in Jobs /\ j.stamp = clock'
  BY <1>1, InHand DEF NoJob, Jobs, Stamps
<1>3. job' = [job EXCEPT ![g] = j] /\ job \in [Handlers -> Jobs]
  BY DEF Stamp, Now, TypeOK
<1>4. job' \in [Handlers -> Jobs] /\ job'[g].stamp \in Stamps /\ \A h \in Handlers \ {g} : job'[h] = job[h]
  BY <1>1, <1>2, <1>3
<1> QED
  BY <1>1, <1>4, TypeMove DEF Stamp, Now, TypeOK, Pcs

(* and stored.                                                             *)
LEMMA TypePut ==
  ASSUME TypeOK, NEW g \in Handlers, Put(g)
  PROVE  TypeOK'
<1>1. orders' \in [Stores -> SUBSET Stamps]
  BY DEF Put, At, TypeOK, OrderRepo
<1>2. job' \in [Handlers -> Jobs] /\ \A h \in Handlers \ {g} : job'[h] = job[h]
  BY InHand DEF Put, TypeOK
<1> QED
  BY <1>1, <1>2, TypeMove DEF Put, TypeOK, Pcs

(* A page is asked for.                                                    *)
LEMMA TypeAsk ==
  ASSUME TypeOK, NEW g \in Handlers, NEW page \in Pages, NEW size \in Sizes, Ask(g, page, size)
  PROVE  TypeOK'
<1> DEFINE j == [stamp |-> 0, page |-> page, size |-> size]
<1>1. j \in Jobs
  BY InHand, ListAssumption DEF Jobs
<1>2. Walk("on", size, 0, Listed, {}) \in Walks
  BY InHand, ListAssumption DEF Walk, Walks
<1>3. job' = [job EXCEPT ![g] = j] /\ job \in [Handlers -> Jobs] /\ walk \in [Handlers -> Walks]
  BY DEF Ask, TypeOK
<1>4. /\ job' \in [Handlers -> Jobs] /\ job'[g].page \in Pages /\ job'[g].size \in Sizes
      /\ \A h \in Handlers \ {g} : job'[h] = job[h]
  BY <1>1, <1>3
<1>5. walk' \in [Handlers -> Walks]
  BY <1>2, <1>3, InHand DEF Ask
<1> QED
  BY <1>4, <1>5, TypeMove DEF Ask, TypeOK, Pcs

(* What a query answers.                                                   *)
LEMMA TypeAnswered ==
  ASSUME TypeOK, NEW g \in Handlers, NEW code \in {0, 200, 500}, NEW items \in SUBSET Stamps,
         NEW total \in 0..MaxOrders, NEW sort \in {"none", "part", "whole"},
         Answered(g, code, items, total, sort)
  PROVE  answer' \in [Handlers -> Answers]
<1>1. [code |-> code, items |-> items, total |-> total, sort |-> sort] \in Answers
  BY DEF Answers
<1> QED
  BY <1>1 DEF TypeOK, Answered

(* Listing.                                                                *)
LEMMA TypeList ==
  ASSUME TypeOK, NEW g \in Handlers, ListMemory(g) \/ QueryPage(g) \/ QueryTotal(g)
  PROVE  TypeOK'
<1>1. /\ UNCHANGED <<storage, clock, orders, job, walk>>
      /\ job[g].page \in Pages /\ job[g].size \in Sizes
      /\ Goto(g, "count") \/ Goto(g, "reply")
  BY DEF ListMemory, QueryPage, QueryTotal, At, TypeOK
<1>2. ASSUME answer' \in [Handlers -> Answers] PROVE TypeOK'
  <2>1. /\ clock' \in 0..MaxOrders /\ orders' \in [Stores -> SUBSET Stamps]
        /\ job' \in [Handlers -> Jobs] /\ walk' \in [Handlers -> Walks]
        /\ job'[g].page \in Pages /\ job'[g].size \in Sizes
    BY <1>1 DEF TypeOK
  <2>2. ASSUME NEW p \in {"count", "reply"}, Goto(g, p) PROVE TypeOK'
    <3>1. p \in Pcs /\ p # "put"
      BY <2>2 DEF Pcs
    <3> QED
      BY <1>1, <1>2, <2>1, <2>2, <3>1, TypeMove
  <2> QED
    BY <1>1, <2>2
<1>3. CASE ListMemory(g)
  <2>1. PICK code \in {200, 500}, items \in SUBSET Listed, total \in 0..MaxOrders :
          Answered(g, code, items, total, "part")
    <3>1. CASE Answered(g, 500, {}, 0, "part")
      BY <3>1, InHand
    <3>2. CASE \E items \in SUBSET Listed : Answered(g, 200, items, Cardinality(Listed), "part")
      BY <3>2, InHand
    <3> QED
      BY <1>3, <3>1, <3>2 DEF ListMemory
  <2> QED
    BY <1>2, <2>1, InHand, TypeAnswered
<1>4. CASE QueryPage(g)
  <2>1. \A offset, size : Slice(Listed, offset, size) \in SUBSET Stamps
    BY InHand DEF Slice
  <2>2. PICK code \in {0, 200, 500}, items \in SUBSET Stamps : Answered(g, code, items, 0, "part")
    BY <1>4, <2>1 DEF QueryPage
  <2> QED
    BY <1>2, <2>2, InHand, TypeAnswered
<1>5. CASE QueryTotal(g)
  <2>1. answer[g].items \in SUBSET Stamps
    BY InHand DEF Answers
  <2>2. PICK total \in 0..MaxOrders, sort \in {"part", "whole"} : Answered(g, 200, answer[g].items, total, sort)
    BY <1>5, InHand DEF QueryTotal, Total
  <2> QED
    BY <1>2, <2>1, <2>2, TypeAnswered
<1> QED
  BY <1>3, <1>4, <1>5

(* Answering.                                                              *)
LEMMA TypeReply ==
  ASSUME TypeOK, NEW g \in Handlers, Reply(g)
  PROVE  TypeOK'
<1> DEFINE phase == IF job[g].page * job[g].size >= answer[g].total THEN "ended" ELSE "on"
           w == Walk(phase, walk[g].size, job[g].page, walk[g].due, walk[g].seen \cup answer[g].items)
<1>1. /\ phase \in {"on", "ended"} /\ walk[g].size \in 0..MaxInt /\ job[g].page \in 0..MaxInt
      /\ walk[g].due \in SUBSET Stamps /\ walk[g].seen \cup answer[g].items \in SUBSET Stamps
  BY InHand DEF Jobs, Walks, Answers
<1> HIDE DEF phase
<1>2. w \in Walks
  BY <1>1 DEF Walk, Walks
<1>3. walk' = [walk EXCEPT ![g] = w] \/ walk' = [walk EXCEPT ![g] = NoWalk]
  BY DEF Reply, phase, TypeOK
<1> HIDE DEF w
<1>4. /\ walk' \in [Handlers -> Walks] /\ job' \in [Handlers -> Jobs] /\ answer' \in [Handlers -> Answers]
      /\ \A h \in Handlers \ {g} : job'[h] = job[h]
  BY <1>2, <1>3, InHand DEF Reply, TypeOK
<1>5. Goto(g, "idle") /\ storage' = storage /\ clock' \in 0..MaxOrders /\ orders' \in [Stores -> SUBSET Stamps]
  BY DEF Reply, TypeOK
<1> QED
  BY <1>4, <1>5, TypeMove DEF Pcs

(* A restart.                                                              *)
LEMMA TypeRestart ==
  ASSUME TypeOK, Restart
  PROVE  TypeOK'
<1>1. /\ storage' \in Stores /\ pc' = [g \in Handlers |-> "idle"] /\ clock' = clock /\ walk' = walk
      /\ orders' = [orders EXCEPT !["memory"] = {}]
      /\ job' = [g \in Handlers |-> NoJob] /\ answer' = [g \in Handlers |-> NoAnswer]
  BY DEF Restart, Killed, Boot, Selected, Kept, Stores
<1>2. NoJob \in Jobs /\ NoAnswer \in Answers
  BY ListAssumption DEF NoJob, Jobs, NoAnswer, Answers
<1> QED
  BY <1>1, <1>2 DEF TypeOK

(* The types are inductive.                                                *)
LEMMA TypeNext == TypeOK /\ [Next]_vars => TypeOK'
<1> SUFFICES ASSUME TypeOK, [Next]_vars PROVE TypeOK'
  OBVIOUS
<1>1. CASE UNCHANGED vars
  BY <1>1 DEF vars, TypeOK
<1> QED
  BY <1>1, TypeStamp, TypePut, TypeAsk, TypeList, TypeReply, TypeRestart DEF Next

(* Every variable holds what the program can put there, totals included.   *)
THEOREM TypeCorrect == Spec => []TypeOK
  BY TypeInit, TypeNext, PTL DEF Spec

----------------------------------------------------------------------------
(* The walks.  What the invariant says of one handler:                     *)
OnTheWay(g) ==
  /\ pc[g] = "count" => storage = "postgres"
  /\ walk[g].phase # "none" /\ pc[g] \in {"list", "count", "reply"} =>
       walk[g].phase = "on" /\ job[g].size = walk[g].size /\ job[g].page = walk[g].page + 1

Pending(g, x) ==
  /\ walk[g].phase = "on"
  /\ Behind(g, x, walk[g].page)
  /\ pc[g] = "count" /\ x \notin answer[g].items => Behind(g, x, walk[g].page + 1)
  /\ pc[g] = "reply" /\ answer[g].sort = "whole" /\ x \notin answer[g].items =>
       /\ Behind(g, x, walk[g].page + 1)
       /\ answer[g].total > (walk[g].page + 1) * walk[g].size

Local(g) == OnTheWay(g) /\ \A x \in walk[g].due \ walk[g].seen : Pending(g, x)

(* The invariant, handler by handler.                                      *)
LEMMA WalkSplit == WalkInv <=> \A g \in Handlers : Local(g)
  BY DEF WalkInv, Local, OnTheWay, Pending

(* Orders are only added to the table.                                     *)
Grows == orders["postgres"] \subseteq orders'["postgres"]

LEMMA BehindStays ==
  ASSUME TypeOK, TypeOK', Grows, NEW g \in Handlers, walk'[g].size = walk[g].size,
         NEW x, NEW page, Behind(g, x, page), page * walk[g].size \in Int
  PROVE  Behind(g, x, page)'
<1> DEFINE S == orders["postgres"]
           T == orders'["postgres"]
<1>1. S \in SUBSET Stamps /\ T \in SUBSET Stamps /\ S \subseteq T
  BY DEF TypeOK, Stores, Grows
<1>2. Position(S, x) <= Position(T, x) /\ Position(S, x) \in Int /\ Position(T, x) \in Int
  <2> HIDE DEF S, T
  <2>1. Position(S, x) <= Position(T, x)
    BY <1>1, Shifts
  <2>2. Position(S, x) \in 0..MaxOrders /\ Position(T, x) \in 0..MaxOrders
    BY <1>1, Places
  <2> QED
    BY <2>1, <2>2
<1>3. x \in T /\ Position(T, x) > page * walk[g].size
  BY <1>1, <1>2 DEF Behind
<1> QED
  BY <1>3 DEF Behind

(* A handler that does not move keeps its part of the invariant.           *)
LEMMA LocalStays ==
  ASSUME TypeOK, TypeOK', Grows, NEW g \in Handlers, Local(g),
         pc'[g] = pc[g], job'[g] = job[g], answer'[g] = answer[g], walk'[g] = walk[g], storage' = storage
  PROVE  Local(g)'
<1>1. /\ walk[g].page * walk[g].size \in Int /\ (walk[g].page + 1) * walk[g].size \in Int
  BY InHand, ListAssumption DEF Walks
<1>2. OnTheWay(g)'
  BY DEF Local, OnTheWay
<1>3. ASSUME NEW x \in walk[g].due \ walk[g].seen PROVE Pending(g, x)'
  <2>1. /\ Behind(g, x, walk[g].page) => Behind(g, x, walk[g].page)'
        /\ Behind(g, x, walk[g].page + 1) => Behind(g, x, walk[g].page + 1)'
    BY <1>1, BehindStays
  <2> QED
    BY <2>1 DEF Local, Pending
<1> QED
  BY <1>2, <1>3 DEF Local

(* A step of one handler.                                                  *)
LEMMA OneHandler ==
  ASSUME TypeOK, TypeOK', WalkInv, Grows, storage' = storage, NEW g \in Handlers, Local(g)',
         \A h \in Handlers \ {g} : /\ pc'[h] = pc[h] /\ job'[h] = job[h]
                                   /\ answer'[h] = answer[h] /\ walk'[h] = walk[h]
  PROVE  WalkInv'
<1>1. ASSUME NEW h \in Handlers \ {g} PROVE Local(h)'
  BY WalkSplit, LocalStays
<1>2. \A h \in Handlers : Local(h)'
  BY <1>1
<1> QED
  BY <1>2 DEF WalkInv, Local, OnTheWay, Pending

(* Creating an order moves the others towards the end.                     *)
LEMMA WalkCreate ==
  ASSUME TypeOK, TypeOK', WalkInv, NEW g \in Handlers, Stamp(g) \/ Put(g)
  PROVE  WalkInv'
<1>1. /\ pc'[g] \in {"put", "idle"} /\ walk' = walk /\ answer' = answer /\ storage' = storage
      /\ \A h \in Handlers \ {g} : pc'[h] = pc[h] /\ job'[h] = job[h]
  BY DEF Stamp, Put, Goto, TypeOK
<1>2. Grows
  BY DEF Stamp, Put, Grows, TypeOK, Stores, OrderRepo
<1>3. Local(g)
  BY WalkSplit
<1>4. walk[g].page * walk[g].size \in Int
  BY InHand, ListAssumption DEF Walks
<1>5. Local(g)'
  BY <1>1, <1>2, <1>3, <1>4, BehindStays DEF Local, OnTheWay, Pending
<1> QED
  BY <1>1, <1>2, <1>5, OneHandler

(* A walk begins with orders that are all behind page 0, or goes on.       *)
LEMMA WalkAsk ==
  ASSUME TypeOK, TypeOK', WalkInv, NEW g \in Handlers, NEW page \in Pages, NEW size \in Sizes,
         Ask(g, page, size)
  PROVE  WalkInv'
<1>1. /\ pc'[g] = "list" /\ answer' = answer /\ storage' = storage /\ orders' = orders
      /\ job'[g] = [stamp |-> 0, page |-> page, size |-> size]
      /\ \A h \in Handlers \ {g} : pc'[h] = pc[h] /\ job'[h] = job[h] /\ walk'[h] = walk[h]
  BY DEF Ask, Goto, TypeOK
<1>2. Grows /\ size \in Int
  BY <1>1, ListAssumption DEF Grows
<1>3. \/ /\ page = 1 /\ storage = "postgres"
         /\ walk'[g] = Walk("on", size, 0, Listed, {})
      \/ GoesOn(g, page, size) /\ walk'[g] = walk[g]
      \/ walk'[g] = NoWalk
  BY DEF Ask, TypeOK
<1>4. CASE page = 1 /\ storage = "postgres" /\ walk'[g] = Walk("on", size, 0, Listed, {})
  <2>1. OnTheWay(g)'
    BY <1>1, <1>4 DEF OnTheWay, Walk
  <2>2. ASSUME NEW x \in Listed PROVE Pending(g, x)'
    <3>1. x \in orders["postgres"] /\ orders["postgres"] \in SUBSET Stamps
      BY <1>4, <2>2 DEF Listed, OrderRepo, TypeOK, Stores
    <3>2. Position(orders["postgres"], x) > 0 * size
      <4>1. Position(orders["postgres"], x) \in 0..MaxOrders /\ Position(orders["postgres"], x) >= 1
        BY <3>1, Places
      <4>2. 0 * size = 0
        BY <1>2
      <4> QED
        BY <4>1, <4>2
    <3>3. walk'[g].phase = "on" /\ walk'[g].page = 0 /\ walk'[g].size = size
      BY <1>4 DEF Walk
    <3> QED
      BY <1>1, <3>1, <3>2, <3>3 DEF Pending, Behind
  <2>3. Local(g)'
    BY <1>4, <2>1, <2>2 DEF Local, Walk
  <2> QED
    BY <1>1, <1>2, <2>3, OneHandler
<1>5. CASE GoesOn(g, page, size) /\ walk'[g] = walk[g]
  <2>1. Local(g)
    BY WalkSplit
  <2>2. Local(g)'
    BY <1>1, <1>5, <2>1 DEF Local, OnTheWay, Pending, Behind, GoesOn
  <2> QED
    BY <1>1, <1>2, <2>2, OneHandler
<1>6. CASE walk'[g] = NoWalk
  <2>1. Local(g)'
    BY <1>1, <1>6 DEF Local, OnTheWay, NoWalk, Walk
  <2> QED
    BY <1>1, <1>2, <2>1, OneHandler
<1> QED
  BY <1>3, <1>4, <1>5, <1>6

(* In memory no answer is whole; nor is one of a failing query.            *)
LEMMA WalkPart ==
  ASSUME TypeOK, TypeOK', WalkInv, NEW g \in Handlers, pc[g] \in {"list", "count"}, Goto(g, "reply"),
         UNCHANGED <<storage, clock, orders, job, walk>>, answer'[g].sort = "part",
         \A h \in Handlers \ {g} : answer'[h] = answer[h]
  PROVE  WalkInv'
<1>1. pc'[g] = "reply" /\ \A h \in Handlers \ {g} : pc'[h] = pc[h]
  BY DEF Goto, TypeOK
<1>2. Local(g) /\ Grows
  BY WalkSplit DEF Grows
<1>3. Local(g)'
  BY <1>1, <1>2 DEF Local, OnTheWay, Pending, Behind
<1> QED
  BY <1>1, <1>2, <1>3, OneHandler

(* The page: what is pending and not on it is behind it.                   *)
LEMMA WalkPage ==
  ASSUME TypeOK, TypeOK', WalkInv, NEW g \in Handlers, QueryPage(g)
  PROVE  WalkInv'
<1> DEFINE page == job[g].page
           size == job[g].size
           S == orders["postgres"]
<1>1. /\ pc[g] = "list" /\ storage = "postgres" /\ UNCHANGED <<storage, clock, orders, job, walk>>
      /\ Listed = S
  BY DEF QueryPage, At, Listed, OrderRepo
<1>2. /\ page \in 1..MaxInt /\ size \in 1..MaxInt /\ S \in SUBSET Stamps
      /\ walk[g] \in Walks
  BY <1>1, InHand, ListAssumption DEF TypeOK
<1>3. \A h \in Handlers \ {g} : answer'[h] = answer[h]
  BY DEF QueryPage, Answered, TypeOK
<1>4. CASE Goto(g, "reply")
  <2>1. answer'[g].sort = "part"
    BY DEF QueryPage, Answered, TypeOK
  <2> QED
    BY <1>1, <1>3, <1>4, <2>1, WalkPart
<1>5. CASE Goto(g, "count") /\ answer'[g].items = Slice(S, Offset(page, size), size)
  <2>1. pc'[g] = "count" /\ \A h \in Handlers \ {g} : pc'[h] = pc[h]
    BY <1>5 DEF Goto, TypeOK
  <2>2. Local(g) /\ Grows
    BY <1>1, WalkSplit DEF Grows
  <2>3. ASSUME NEW x \in walk[g].due \ walk[g].seen PROVE Pending(g, x)'
    <3>1. Pending(g, x)
      BY <2>2 DEF Local
    <3>2. walk[g].phase = "on" /\ size = walk[g].size /\ page = walk[g].page + 1
      BY <1>1, <2>2, <3>1 DEF Local, OnTheWay, Pending
    <3>3. x \in S /\ Position(S, x) > (page - 1) * size /\ Position(S, x) \in 0..MaxOrders
      <4>1. Position(S, x) \in 0..MaxOrders
        BY <1>2, Places
      <4>2. page - 1 = walk[g].page
        BY <1>2, <3>2 DEF Walks
      <4> QED
        BY <3>1, <3>2, <4>1, <4>2 DEF Pending, Behind
    <3>4. (page - 1) * size \in 0..MaxInt
      BY <1>2, <3>3, ListAssumption
    <3>5. Offset(page, size) = (page - 1) * size
      BY <3>4, InReach DEF Offset
    <3>6. x \notin answer'[g].items => Position(S, x) > (page - 1) * size + size
      BY <1>2, <1>5, <3>3, <3>4, <3>5 DEF Slice
    <3>7. (page - 1) * size + size = (walk[g].page + 1) * walk[g].size
      BY <1>2, <3>2
    <3> QED
      BY <1>1, <2>1, <3>1, <3>3, <3>6, <3>7 DEF Pending, Behind
  <2>4. Local(g)'
    BY <1>1, <2>1, <2>2, <2>3 DEF Local, OnTheWay
  <2> QED
    BY <1>1, <1>3, <2>1, <2>2, <2>4, OneHandler
<1> QED
  BY <1>1, <1>4, <1>5 DEF QueryPage, Answered, TypeOK

(* The total: an order that is still pending is counted.                   *)
LEMMA WalkTotal ==
  ASSUME TypeOK, TypeOK', WalkInv, NEW g \in Handlers, QueryTotal(g)
  PROVE  WalkInv'
<1> DEFINE S == orders["postgres"]
<1>1. /\ pc[g] = "count" /\ pc'[g] = "reply" /\ UNCHANGED <<storage, clock, orders, job, walk>>
      /\ \A h \in Handlers \ {g} : pc'[h] = pc[h] /\ answer'[h] = answer[h]
  BY DEF QueryTotal, At, Goto, Answered, TypeOK
<1>2. Local(g) /\ Grows /\ storage = "postgres" /\ S \in SUBSET Stamps /\ walk[g] \in Walks
  BY <1>1, WalkSplit, InHand DEF Grows, Local, OnTheWay, TypeOK, Stores
<1>3. answer'[g].items = answer[g].items /\ (answer'[g].sort = "whole" => answer'[g].total = Cardinality(S))
  BY <1>2 DEF QueryTotal, Answered, Total, Listed, OrderRepo, TypeOK
<1>4. ASSUME NEW x \in walk[g].due \ walk[g].seen PROVE Pending(g, x)'
  <2>1. Pending(g, x)
    BY <1>2 DEF Local
  <2>2. Position(S, x) \in 0..MaxOrders /\ Position(S, x) <= Cardinality(S) /\ Cardinality(S) \in 0..MaxOrders
    BY <1>2, Places, Countable
  <2>3. (walk[g].page + 1) * walk[g].size \in Int
    BY <1>2, ListAssumption DEF Walks
  <2> HIDE DEF S
  <2>4. Position(S, x) > (walk[g].page + 1) * walk[g].size => Cardinality(S) > (walk[g].page + 1) * walk[g].size
    BY <2>2, <2>3
  <2> QED
    BY <1>1, <1>3, <2>1, <2>4 DEF Pending, Behind, S
<1>5. Local(g)'
  BY <1>1, <1>2, <1>4 DEF Local, OnTheWay
<1> QED
  BY <1>1, <1>2, <1>5, OneHandler

(* The answer: the walk is a page further, and ends only when nothing is   *)
(* pending.                                                                *)
LEMMA WalkReply ==
  ASSUME TypeOK, TypeOK', WalkInv, NEW g \in Handlers, Reply(g)
  PROVE  WalkInv'
<1> DEFINE phase == IF job[g].page * job[g].size >= answer[g].total THEN "ended" ELSE "on"
           w == Walk(phase, walk[g].size, job[g].page, walk[g].due, walk[g].seen \cup answer[g].items)
<1>1. /\ pc[g] = "reply" /\ pc'[g] = "idle" /\ UNCHANGED <<storage, orders>>
      /\ \A h \in Handlers \ {g} : /\ pc'[h] = pc[h] /\ job'[h] = job[h]
                                  /\ answer'[h] = answer[h] /\ walk'[h] = walk[h]
  BY DEF Reply, At, Goto, TypeOK
<1>2. Local(g) /\ Grows
  BY <1>1, WalkSplit DEF Grows
<1>3. \/ walk[g].phase = "on" /\ answer[g].sort = "whole" /\ walk'[g] = w
      \/ walk'[g] = NoWalk
  BY DEF Reply, TypeOK
<1>4. CASE walk[g].phase = "on" /\ answer[g].sort = "whole" /\ walk'[g] = w
  <2>1. job[g].size = walk[g].size /\ job[g].page = walk[g].page + 1
    BY <1>1, <1>2, <1>4 DEF Local, OnTheWay
  <2>2. /\ walk'[g].phase = phase /\ walk'[g].size = walk[g].size /\ walk'[g].page = walk[g].page + 1
        /\ walk'[g].due = walk[g].due /\ walk'[g].seen = walk[g].seen \cup answer[g].items
    BY <1>4, <2>1 DEF Walk
  <2>3. ASSUME NEW x \in walk'[g].due \ walk'[g].seen PROVE Pending(g, x)'
    <3>1. Pending(g, x) /\ x \notin answer[g].items
      BY <1>2, <2>2, <2>3 DEF Local
    <3>2. Behind(g, x, walk[g].page + 1) /\ answer[g].total > (walk[g].page + 1) * walk[g].size
      BY <1>1, <1>4, <3>1 DEF Pending
    <3>3. answer[g].total \in Int /\ (walk[g].page + 1) * walk[g].size \in Int
      BY InHand, ListAssumption DEF Answers, Walks
    <3>4. phase = "on"
      BY <2>1, <3>2, <3>3
    <3> HIDE DEF phase
    <3> QED
      BY <1>1, <2>2, <3>2, <3>4 DEF Pending, Behind
  <2>4. Local(g)'
    BY <1>1, <2>3 DEF Local, OnTheWay
  <2> QED
    BY <1>1, <1>2, <2>4, OneHandler
<1>5. CASE walk'[g] = NoWalk
  <2>1. Local(g)'
    BY <1>1, <1>5 DEF Local, OnTheWay, NoWalk, Walk
  <2> QED
    BY <1>1, <1>2, <2>1, OneHandler
<1> QED
  BY <1>3, <1>4, <1>5

(* A restart ends requests, but neither rows nor walks.                    *)
LEMMA WalkRestart ==
  ASSUME TypeOK, WalkInv, Restart
  PROVE  WalkInv'
<1>1. /\ pc' = [g \in Handlers |-> "idle"] /\ walk' = walk /\ orders'["postgres"] = orders["postgres"]
  BY DEF Restart, Killed, Kept, TypeOK, Stores
<1> QED
  BY <1>1 DEF WalkInv, Behind

(* The invariant is inductive.                                             *)
LEMMA WalkNext == TypeOK /\ WalkInv /\ [Next]_vars => WalkInv'
<1> SUFFICES ASSUME TypeOK, WalkInv, [Next]_vars PROVE WalkInv'
  OBVIOUS
<1>1. TypeOK'
  BY TypeNext
<1>2. ASSUME NEW g \in Handlers, ListMemory(g) PROVE WalkInv'
  <2>1. /\ pc[g] = "list" /\ Goto(g, "reply") /\ UNCHANGED <<storage, clock, orders, job, walk>>
        /\ answer'[g].sort = "part" /\ \A h \in Handlers \ {g} : answer'[h] = answer[h]
    BY <1>2 DEF ListMemory, At, Answered, TypeOK
  <2> QED
    BY <1>1, <2>1, WalkPart
<1>3. CASE UNCHANGED vars
  BY <1>3 DEF vars, WalkInv, Behind
<1> QED
  BY <1>1, <1>2, <1>3, WalkCreate, WalkAsk, WalkPage, WalkTotal, WalkReply, WalkRestart DEF Next

(* Every order that is due is seen or behind the pages so far, and a total *)
(* knows of it, for lists of any length and any number of clients.         *)
THEOREM WalksOnTheWay == Spec => []WalkInv
<1>1. Init => WalkInv
  <2> SUFFICES ASSUME Init PROVE WalkInv
    OBVIOUS
  <2>1. \A g \in Handlers : pc[g] = "idle" /\ walk[g] = NoWalk
    BY DEF Init, ServerInit
  <2>2. NoWalk.phase = "none" /\ NoWalk.due = {}
    BY DEF NoWalk, Walk
  <2> QED
    BY <2>1, <2>2 DEF WalkInv
<1> QED
  BY <1>1, TypeInit, TypeNext, WalkNext, PTL DEF Spec

(* So a client that walks through all pages misses no order.               *)
THEOREM WalksMissNothing == Spec => []WalkMissesNothing
<1>1. WalkInv => WalkMissesNothing
  BY DEF WalkInv, WalkMissesNothing
<1> QED
  BY <1>1, WalksOnTheWay, PTL
----------------------------------------------------------------------------
(* The pages.  Different orders have different places, ...                 *)
LEMMA PlacesDiffer ==
  ASSUME NEW S \in SUBSET Stamps, NEW x \in S, NEW y \in S, x < y
  PROVE  Position(S, x) # Position(S, y)
<1> DEFINE X == {z \in S : z >= x}
           Y == {z \in S : z >= y}
<1>1. x \in Int /\ y \in Int /\ \A z \in S : z \in Int
  BY ListAssumption DEF Stamps
<1>2. Y \subseteq X /\ x \in X /\ x \notin Y
  <2>1. \A z \in S : z >= y => z >= x
    BY <1>1
  <2>2. x >= x /\ ~(x >= y)
    BY <1>1
  <2> QED
    BY <2>1, <2>2
<1>3. IsFiniteSet(X)
  BY Countable
<1>4. Cardinality(X) # Cardinality(Y)
  BY <1>2, <1>3, FS_Subset
<1> QED
  BY <1>4 DEF Position

(* so that a page has no more orders than places.                          *)
LEMMA PageLength ==
  ASSUME NEW S \in SUBSET Stamps, NEW offset \in Nat, NEW size \in Nat, NEW m \in Int,
         m >= offset, m >= Cardinality(S) \/ m >= offset + size
  PROVE  Cardinality(Slice(S, offset, size)) <= m - offset
<1> DEFINE T == Slice(S, offset, size)
           f == [x \in T |-> Position(S, x)]
           places == (offset + 1)..m
<1>1. T \subseteq S /\ \A x \in T : offset < Position(S, x) /\ Position(S, x) <= offset + size
  BY DEF Slice
<1>2. \A x \in T : Position(S, x) \in places
  <2> SUFFICES ASSUME NEW x \in T PROVE Position(S, x) \in places
    OBVIOUS
  <2>1. Position(S, x) \in 0..MaxOrders /\ Position(S, x) <= Cardinality(S) /\ Cardinality(S) \in 0..MaxOrders
    BY Places, Countable
  <2> QED
    BY <1>1, <2>1
<1>3. \A x, y \in T : Position(S, x) = Position(S, y) => x = y
  <2> SUFFICES ASSUME NEW x \in T, NEW y \in T, Position(S, x) = Position(S, y) PROVE x = y
    OBVIOUS
  <2>1. ~(x < y) /\ ~(y < x)
    BY <1>1, PlacesDiffer
  <2>2. x \in Stamps /\ y \in Stamps
    BY <1>1
  <2> QED
    BY <2>1, <2>2, ListAssumption DEF Stamps
<1>4. f \in Injection(T, places)
  BY <1>2, <1>3 DEF Injection, IsInjective
<1>5. IsFiniteSet(places) /\ Cardinality(places) = m - offset
  <2>1. offset + 1 \in Int /\ m - (offset + 1) + 1 = m - offset /\ (offset + 1 > m => m - offset = 0)
    OBVIOUS
  <2> QED
    BY <2>1, FS_Interval
<1>6. Cardinality(T) <= Cardinality(places)
  BY <1>4, <1>5, FS_Injection
<1> QED
  BY <1>5, <1>6

(* What PagesFitTotal says of one answer, and what holds of the page while *)
(* the total is still to be counted.                                       *)
InSight(g) == job[g].page * job[g].size + MaxOrders <= MaxInt /\ job[g].size <= MaxAlloc

Fits(g) ==
  LET page == job[g].page
      size == job[g].size
      n    == Cardinality(answer[g].items)
  IN /\ pc[g] = "count" => storage = "postgres"
     /\ pc[g] = "count" /\ InSight(g) => n <= Share(page, size, Cardinality(orders["postgres"]))
     /\ pc[g] = "reply" /\ InSight(g) =>
          /\ answer[g].code = 200
          /\ answer[g].total # 0 => n <= Share(page, size, answer[g].total)
          /\ storage = "memory" => n = Share(page, size, answer[g].total)

PageInv == \A g \in Handlers : Fits(g)

(* The numbers of a request in sight.                                      *)
LEMMA Sighted ==
  ASSUME TypeOK, NEW g \in Handlers, pc[g] \in {"list", "count", "reply"}, InSight(g)
  PROVE  /\ (job[g].page - 1) * job[g].size \in Nat /\ job[g].size \in Nat
         /\ Offset(job[g].page, job[g].size) = (job[g].page - 1) * job[g].size
         /\ Offset(job[g].page, job[g].size) + job[g].size + MaxOrders <= MaxInt
<1> DEFINE page == job[g].page
           size == job[g].size
<1>1. page \in 1..MaxInt /\ size \in 1..MaxInt /\ MaxInt \in Nat /\ MaxOrders \in Nat
  BY ListAssumption DEF TypeOK
<1>2. page * size + MaxOrders <= MaxInt
  BY DEF InSight
<1> HIDE DEF page, size
<1>3. (page - 1) * size \in Nat /\ page * size = (page - 1) * size + size
  BY <1>1
<1>4. (page - 1) * size \in 0..MaxInt
  BY <1>1, <1>2, <1>3
<1>5. Offset(page, size) = (page - 1) * size
  BY <1>4, InReach DEF Offset
<1> QED
  BY <1>1, <1>2, <1>3, <1>5 DEF page, size

(* A longer list has no shorter pages.                                     *)
LEMMA Shares ==
  ASSUME NEW page, NEW size \in Nat, (page - 1) * size \in Nat, NEW a \in Nat, NEW b \in Nat, a <= b
  PROVE  Share(page, size, a) <= Share(page, size, b) /\ Share(page, size, a) \in Nat /\ Share(page, size, b) \in Nat
<1> DEFINE o == (page - 1) * size
<1>1. o \in Nat
  OBVIOUS
<1>2. /\ Share(page, size, a) = IF a - o <= 0 THEN 0 ELSE IF a - o < size THEN a - o ELSE size
      /\ Share(page, size, b) = IF b - o <= 0 THEN 0 ELSE IF b - o < size THEN b - o ELSE size
  BY DEF Share
<1> HIDE DEF o
<1> QED
  BY <1>1, <1>2

(* A handler that does not move keeps its page, whose list only grows.     *)
LEMMA FitStays ==
  ASSUME TypeOK, TypeOK', Grows, NEW g \in Handlers, Fits(g),
         pc'[g] = pc[g], job'[g] = job[g], answer'[g] = answer[g], storage' = storage
  PROVE  Fits(g)'
<1>1. CASE pc[g] = "count" /\ InSight(g)
  <2> DEFINE a == Cardinality(orders["postgres"])
             b == Cardinality(orders'["postgres"])
  <2>1. a \in Nat /\ b \in Nat /\ a <= b
    <3>1. orders["postgres"] \in SUBSET Stamps /\ orders'["postgres"] \in SUBSET Stamps
      BY DEF TypeOK, Stores
    <3> QED
      BY <3>1, Countable, FS_Subset, ListAssumption DEF Grows
  <2>2. Share(job[g].page, job[g].size, a) <= Share(job[g].page, job[g].size, b)
        /\ Share(job[g].page, job[g].size, a) \in Nat /\ Share(job[g].page, job[g].size, b) \in Nat
    BY <1>1, <2>1, Sighted, Shares
  <2>3. Cardinality(answer[g].items) \in Nat
    BY InHand, Countable, ListAssumption DEF Answers
  <2> HIDE DEF a, b
  <2>4. Cardinality(answer[g].items) <= Share(job[g].page, job[g].size, b)
    BY <1>1, <2>2, <2>3 DEF Fits, a
  <2> QED
    BY <1>1, <2>4 DEF Fits, InSight, b
<1>2. CASE ~(pc[g] = "count" /\ InSight(g))
  BY <1>2 DEF Fits, InSight
<1> QED
  BY <1>1, <1>2

(* A step of one handler.                                                  *)
LEMMA OneFits ==
  ASSUME TypeOK, TypeOK', PageInv, Grows, storage' = storage, NEW g \in Handlers, Fits(g)',
         \A h \in Handlers \ {g} : pc'[h] = pc[h] /\ job'[h] = job[h] /\ answer'[h] = answer[h]
  PROVE  PageInv'
<1>1. ASSUME NEW h \in Handlers \ {g} PROVE Fits(h)'
  BY FitStays DEF PageInv
<1> QED
  BY <1>1 DEF PageInv

(* A slice of the map, in whatever order, is a full page.                  *)
LEMMA PageMemory ==
  ASSUME TypeOK, TypeOK', PageInv, NEW g \in Handlers, ListMemory(g)
  PROVE  PageInv'
<1> DEFINE page == job[g].page
           size == job[g].size
           o == (page - 1) * size
           total == Cardinality(Listed)
           start == Capped(Offset(page, size), total)
           end == End(start, size, total)
<1>1. /\ pc[g] = "list" /\ pc'[g] = "reply" /\ UNCHANGED <<storage, orders, job>> /\ Grows
      /\ \A h \in Handlers \ {g} : pc'[h] = pc[h] /\ answer'[h] = answer[h]
  BY DEF ListMemory, At, Goto, Answered, TypeOK, Grows
<1>2. ASSUME InSight(g)
      PROVE  answer'[g].code = 200 /\ Cardinality(answer'[g].items) = Share(page, size, answer'[g].total)
  <2>1. o \in Nat /\ size \in Nat /\ Offset(page, size) = o /\ o + size + MaxOrders <= MaxInt
    BY <1>1, <1>2, Sighted
  <2>2. total \in 0..MaxOrders
    BY InHand
  <2>3. start = IF o > total THEN total ELSE o
    BY <2>1 DEF Capped
  <2>4. Share(page, size, total) = IF total - o <= 0 THEN 0 ELSE IF total - o < size THEN total - o ELSE size
    BY DEF Share
  <2> HIDE DEF o, total
  <2>5. start \in 0..total /\ start + size \in 0..MaxInt
    BY <2>1, <2>2, <2>3, ListAssumption
  <2>6. end = IF start + size > total THEN total ELSE start + size
    BY <2>5, InReach DEF End, Capped
  <2> HIDE DEF start
  <2>7. start <= end /\ end <= total
    BY <2>1, <2>2, <2>5, <2>6
  <2>8. end - start = Share(page, size, total)
    BY <2>1, <2>2, <2>3, <2>4, <2>6
  <2> HIDE DEF end
  <2>9. PICK items \in SUBSET Listed : Cardinality(items) = end - start /\ Answered(g, 200, items, total, "part")
    BY <2>5, <2>7 DEF ListMemory, total, start, end
  <2>10. answer'[g].code = 200 /\ answer'[g].items = items /\ answer'[g].total = total
    BY <2>9 DEF Answered, TypeOK
  <2> QED
    BY <2>8, <2>9, <2>10
<1>3. ASSUME InSight(g) PROVE Cardinality(answer'[g].items) <= Share(page, size, answer'[g].total)
  <2>1. Cardinality(answer'[g].items) \in Nat
    <3>1. answer'[g].items \in SUBSET Stamps
      BY DEF TypeOK, Answers
    <3> QED
      BY <3>1, Countable, ListAssumption
  <2> QED
    BY <1>2, <1>3, <2>1
<1>4. Fits(g)'
  BY <1>1, <1>2, <1>3 DEF Fits, InSight
<1> QED
  BY <1>1, <1>4, OneFits

(* The rows of a page are a share of the rows there are, ...               *)
LEMMA PageQuery ==
  ASSUME TypeOK, TypeOK', PageInv, NEW g \in Handlers, QueryPage(g)
  PROVE  PageInv'
<1> DEFINE page == job[g].page
           size == job[g].size
           o == (page - 1) * size
           S == orders["postgres"]
<1>1. /\ pc[g] = "list" /\ storage = "postgres" /\ UNCHANGED <<storage, orders, job>> /\ Grows
      /\ \A h \in Handlers \ {g} : answer'[h] = answer[h]
      /\ Listed = S /\ S \in SUBSET Stamps
  BY DEF QueryPage, At, Answered, TypeOK, Grows, Listed, OrderRepo
<1>2. InSight(g) => o \in Nat /\ size \in Nat /\ size <= MaxAlloc /\ Offset(page, size) = o
  BY <1>1, Sighted DEF InSight
<1>3. CASE Goto(g, "reply")
  <2>1. pc'[g] = "reply" /\ \A h \in Handlers \ {g} : pc'[h] = pc[h]
    BY <1>3 DEF Goto, TypeOK
  <2>2. InSight(g) => Offset(page, size) >= 0 /\ ~(size > MaxAlloc)
    <3> HIDE DEF o
    <3> QED
      BY <1>2, ListAssumption
  <2>3. InSight(g) => Answered(g, 200, {}, 0, "part")
    <3>1. "reply" # "count" /\ pc[g] = "list"
      BY <1>1
    <3>2. ~Goto(g, "count")
      BY <2>1 DEF Goto, TypeOK
    <3> QED
      BY <2>2, <3>2 DEF QueryPage
  <2>4. InSight(g) => answer'[g].code = 200 /\ answer'[g].total = 0
    BY <2>3 DEF Answered, TypeOK
  <2>5. Fits(g)'
    BY <1>1, <2>1, <2>4 DEF Fits, InSight
  <2> QED
    BY <1>1, <2>1, <2>5, OneFits
<1>4. CASE Goto(g, "count") /\ answer'[g].items = Slice(S, Offset(page, size), size)
  <2>1. pc'[g] = "count" /\ \A h \in Handlers \ {g} : pc'[h] = pc[h]
    BY <1>4 DEF Goto, TypeOK
  <2>2. ASSUME InSight(g) PROVE Cardinality(answer'[g].items) <= Share(page, size, Cardinality(S))
    <3> DEFINE n == Cardinality(S)
               m == IF n - o <= 0 THEN o ELSE IF n - o < size THEN n ELSE o + size
    <3>1. n \in Nat /\ o \in Nat /\ size \in Nat
      BY <1>1, <1>2, <2>2, Countable, ListAssumption
    <3>2. Share(page, size, n) = IF n - o <= 0 THEN 0 ELSE IF n - o < size THEN n - o ELSE size
      BY DEF Share
    <3>3. answer'[g].items = Slice(S, o, size)
      BY <1>2, <1>4, <2>2
    <3> HIDE DEF o
    <3>4. m \in Int /\ m >= o /\ (m >= n \/ m >= o + size) /\ m - o = Share(page, size, n)
      <4> HIDE DEF n
      <4> QED
        BY <3>1, <3>2
    <3> HIDE DEF m
    <3>5. Cardinality(Slice(S, o, size)) <= m - o
      BY <1>1, <3>1, <3>4, PageLength
    <3> QED
      BY <3>3, <3>4, <3>5
  <2>3. Fits(g)'
    BY <1>1, <2>1, <2>2 DEF Fits, InSight
  <2> QED
    BY <1>1, <2>1, <2>3, OneFits
<1> QED
  BY <1>1, <1>3, <1>4 DEF QueryPage, Answered, TypeOK

(* and no fewer are counted afterwards.                                    *)
LEMMA PageCount ==
  ASSUME TypeOK, TypeOK', PageInv, NEW g \in Handlers, QueryTotal(g)
  PROVE  PageInv'
<1>1. /\ pc[g] = "count" /\ pc'[g] = "reply" /\ UNCHANGED <<storage, orders, job>> /\ Grows
      /\ \A h \in Handlers \ {g} : pc'[h] = pc[h] /\ answer'[h] = answer[h]
      /\ Fits(g)
  BY DEF QueryTotal, At, Goto, Answered, TypeOK, Grows, PageInv
<1>2. storage = "postgres" /\ Total(g) = Cardinality(orders["postgres"])
  BY <1>1 DEF Fits, Total, Listed, OrderRepo
<1>3. /\ answer'[g].code = 200 /\ answer'[g].items = answer[g].items
      /\ answer'[g].total # 0 => answer'[g].total = Cardinality(orders["postgres"])
  BY <1>2 DEF QueryTotal, Answered, TypeOK
<1>4. Fits(g)'
  BY <1>1, <1>2, <1>3 DEF Fits, InSight
<1> QED
  BY <1>1, <1>4, OneFits

(* The pages fit after every step.                                         *)
LEMMA PageNext == TypeOK /\ PageInv /\ [Next]_vars => PageInv'
<1> SUFFICES ASSUME TypeOK, PageInv, [Next]_vars PROVE PageInv'
  OBVIOUS
<1>1. TypeOK'
  BY TypeNext
<1>2. ASSUME NEW g \in Handlers,
             Stamp(g) \/ Put(g) \/ (\E page \in Pages, size \in Sizes : Ask(g, page, size)) \/ Reply(g)
      PROVE  PageInv'
  <2>1. /\ pc'[g] \in {"idle", "put", "list"} /\ storage' = storage
        /\ \A h \in Handlers \ {g} : pc'[h] = pc[h] /\ job'[h] = job[h] /\ answer'[h] = answer[h]
    BY <1>2 DEF Stamp, Put, Ask, Reply, Goto, TypeOK
  <2>2. Grows
    BY <1>2 DEF Stamp, Put, Ask, Reply, Grows, TypeOK, Stores, OrderRepo
  <2>3. Fits(g)'
    BY <2>1 DEF Fits
  <2> QED
    BY <1>1, <2>1, <2>2, <2>3, OneFits
<1>3. ASSUME Restart PROVE PageInv'
  <2>1. \A g \in Handlers : pc'[g] = "idle"
    BY <1>3 DEF Restart, Killed
  <2> QED
    BY <2>1 DEF PageInv, Fits
<1>4. CASE UNCHANGED vars
  BY <1>4 DEF vars, PageInv, Fits, InSight
<1> QED
  BY <1>1, <1>2, <1>3, <1>4, PageMemory, PageQuery, PageCount DEF Next

(* A request whose numbers are in reach is answered a page that is full in *)
(* memory and never longer than its total allows, however many orders are  *)
(* created between the two queries (memory.go 54-71, postgres.go 149-166). *)
THEOREM PagesFit == Spec => []PagesFitTotal
<1>1. Init => PageInv
  BY DEF Init, ServerInit, PageInv, Fits
<1>2. PageInv => PagesFitTotal
  BY DEF PageInv, Fits, InSight, PagesFitTotal
<1> QED
  BY <1>1, <1>2, TypeInit, TypeNext, PageNext, PTL DEF Spec
=============================================================================
