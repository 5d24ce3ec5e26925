----------------------------- MODULE OrderList -----------------------------
(***************************************************************************)
(* GET /api/orders: pages of the order list, while orders are created and  *)
(* the process is restarted.  In memory a page is a slice of the map in    *)
(* whatever order the iteration has, taken under the lock; in PostgreSQL   *)
(* the page and the total are two queries.  An order is the time it was    *)
(* created at, all times being different.  The query parameters are        *)
(* machine integers: they wrap around.                                     *)
(***************************************************************************)
EXTENDS Server, Integers, FiniteSets

CONSTANTS
  MaxOrders,     \* bounds the number of orders ever created
  MaxInt,        \* the largest int
  MaxAlloc,      \* the largest capacity make can serve
  Pages, Sizes   \* the values of page and pageSize clients ask for

ASSUME ListAssumption ==
  /\ MaxOrders \in Nat /\ MaxAlloc \in Nat /\ MaxInt \in Nat
  /\ MaxOrders <= MaxInt
  /\ Pages \subseteq 1..MaxInt /\ Sizes \subseteq 1..MaxInt

VARIABLES
  clock,   \* the latest created_at
  orders,  \* per storage: orders in the repository
  job,     \* per handler: the order it stores, or the page it was asked for
  answer,  \* per handler: the answer
  walk     \* per handler: the client's walk through all pages

vars == <<storage, pc, clock, orders, job, answer, walk>>

Stamps == 1..MaxOrders
Jobs   == [stamp : 0..MaxOrders, page : 0..MaxInt, size : 0..MaxInt]

(* An answer is "whole" when both queries of PostgreSQL went through.      *)
Answers == [code : {0, 200, 500}, items : SUBSET Stamps, total : 0..MaxOrders,
            sort : {"none", "part", "whole"}]

(* A walk asks for pages 1, 2, ... of one size and ends when the total     *)
(* says that there are no more.  It is due the orders that were there when *)
(* it began, and is a walk no more once an answer is not whole.            *)
Walks == [phase : {"none", "on", "ended"}, size : 0..MaxInt, page : 0..MaxInt,
          due : SUBSET Stamps, seen : SUBSET Stamps]

NoJob    == [stamp |-> 0, page |-> 0, size |-> 0]
NoAnswer == [code |-> 0, items |-> {}, total |-> 0, sort |-> "none"]
Walk(phase, size, page, due, seen) ==
  [phase |-> phase, size |-> size, page |-> page, due |-> due, seen |-> seen]

NoWalk   == Walk("none", 0, 0, {}, {})

Init == /\ ServerInit
        /\ clock = 0
        /\ orders = [s \in Stores |-> {}]
        /\ job = [g \in Handlers |-> NoJob]
        /\ answer = [g \in Handlers |-> NoAnswer]
        /\ walk = [g \in Handlers |-> NoWalk]

----------------------------------------------------------------------------
(* int: the result of an addition or a multiplication wraps around.        *)
Wrap(n) == ((n + MaxInt + 1) % (2 * MaxInt + 2)) - MaxInt - 1

NextPage(page, size) == Wrap(page * size)   \* mutant: pages are counted from 0
Offset(page, size)   == Wrap((page - 1) * size)

Capped(n, total) == IF n > total THEN total ELSE n

(* ORDER BY created_at DESC LIMIT size OFFSET offset: the latest come      *)
(* first.                                                                  *)
Position(S, x)       == Cardinality({y \in S : y >= x})
Slice(S, offset, size) == {x \in S : offset < Position(S, x) /\ Position(S, x) <= offset + size}

Listed == orders[OrderRepo]

Answered(g, code, items, total, sort) ==
  answer' = [answer EXCEPT ![g] = [code |-> code, items |-> items, total |-> total, sort |-> sort]]

----------------------------------------------------------------------------
(* POST /api/orders: Create takes the time, ...                            *)
ZeroTime == 0                \* mutant: CreatedAt is not set
Now      == clock + 1

Stamp(g) ==
  /\ At(g, "idle")
  /\ clock < MaxOrders
  /\ clock' = clock + 1
  /\ job' = [job EXCEPT ![g] = [NoJob EXCEPT !.stamp = Now]]
  /\ Goto(g, "put")
  /\ UNCHANGED <<storage, orders, answer, walk>>

(* ... and stores the order; a failing Put is not noticed.                 *)
Put(g) ==
  /\ At(g, "put")
  /\ \/ orders' = [orders EXCEPT ![OrderRepo] = @ \cup {job[g].stamp}]
     \/ Fails /\ UNCHANGED orders
  /\ job' = [job EXCEPT ![g] = NoJob]
  /\ Goto(g, "idle")
  /\ UNCHANGED <<storage, clock, answer, walk>>

(* GET /api/orders with positive numbers; the handler has no upper bound.  *)
GoesOn(g, page, size) == /\ walk[g].phase = "on"
                         /\ page = walk[g].page + 1
                         /\ size = walk[g].size

Ask(g, page, size) ==
  /\ At(g, "idle")
  /\ job' = [job EXCEPT ![g] = [stamp |-> 0, page |-> page, size |-> size]]
  /\ walk' = [walk EXCEPT ![g] =
       IF page = 1 /\ storage = "postgres" THEN Walk("on", size, 0, Listed, {})
       ELSE IF GoesOn(g, page, size) THEN @
       ELSE NoWalk]
  /\ Goto(g, "list")
  /\ UNCHANGED <<storage, clock, orders, answer>>

(* MemoryOrderRepo.List: all[start:end] panics when the bounds are not     *)
(* those of a slice, and gin.Recovery answers 500.                         *)
Uncapped(start, size, total) == Wrap(start + size)  \* mutant: the end is not capped
End(start, size, total)      == Capped(Wrap(start + size), total)

ListMemory(g) ==
  LET total == Cardinality(Listed)
      start == Capped(Offset(job[g].page, job[g].size), total)
      end   == End(start, job[g].size, total)
  IN /\ At(g, "list")
     /\ storage = "memory"
     /\ \/ /\ 0 <= start /\ start <= end /\ end <= total
           /\ \E items \in SUBSET Listed :
                /\ Cardinality(items) = end - start
                /\ Answered(g, 200, items, total, "part")
        \/ /\ ~(0 <= start /\ start <= end /\ end <= total)
           /\ Answered(g, 500, {}, 0, "part")
     /\ Goto(g, "reply")
     /\ UNCHANGED <<storage, clock, orders, job, walk>>

(* PostgresRepo.ListOrders: the page; OFFSET must not be negative, and     *)
(* make panics when it cannot serve the capacity.                          *)
QueryPage(g) ==
  LET offset == Offset(job[g].page, job[g].size) IN
  /\ At(g, "list")
  /\ storage = "postgres"
  /\ \/ /\ offset < 0 \/ Fails
        /\ Answered(g, 200, {}, 0, "part")
        /\ Goto(g, "reply")
     \/ /\ offset >= 0
        /\ job[g].size > MaxAlloc
        /\ Answered(g, 500, {}, 0, "part")
        /\ Goto(g, "reply")
     \/ /\ offset >= 0
        /\ job[g].size <= MaxAlloc
        /\ Answered(g, 0, Slice(Listed, offset, job[g].size), 0, "part")
        /\ Goto(g, "count")
  /\ UNCHANGED <<storage, clock, orders, job, walk>>

(* ... and the total, 0 when the query fails.                              *)
OnlyItems(g) == Cardinality(answer[g].items)   \* mutant: the total is len(out)
Total(g)     == Cardinality(Listed)

QueryTotal(g) ==
  /\ At(g, "count")
  /\ \/ Answered(g, 200, answer[g].items, Total(g), "whole")
     \/ Fails /\ Answered(g, 200, answer[g].items, 0, "part")
  /\ Goto(g, "reply")
  /\ UNCHANGED <<storage, clock, orders, job, walk>>

(* The client has the answer.                                              *)
Reply(g) ==
  /\ At(g, "reply")
  /\ walk' = [walk EXCEPT ![g] =
       IF @.phase = "on" /\ answer[g].sort = "whole"
       THEN Walk(IF job[g].page * job[g].size >= answer[g].total THEN "ended" ELSE "on",
                 @.size, job[g].page, @.due, @.seen \cup answer[g].items)
       ELSE NoWalk]
  /\ job' = [job EXCEPT ![g] = NoJob]
  /\ answer' = [answer EXCEPT ![g] = NoAnswer]
  /\ Goto(g, "idle")
  /\ UNCHANGED <<storage, clock, orders>>

(* Clients go on with their walks after a restart.                         *)
Restart ==
  /\ Killed
  /\ orders' = Kept(orders, {})
  /\ job' = [g \in Handlers |-> NoJob]
  /\ answer' = [g \in Handlers |-> NoAnswer]
  /\ UNCHANGED <<clock, walk>>

Next == \/ \E g \in Handlers :
             \/ Stamp(g) \/ Put(g)
             \/ \E page \in Pages, size \in Sizes : Ask(g, page, size)
             \/ ListMemory(g) \/ QueryPage(g) \/ QueryTotal(g) \/ Reply(g)
        \/ Restart

Spec == Init /\ [][Next]_vars

----------------------------------------------------------------------------
(* Every variable holds what the program can put there.                    *)
TypeOK ==
  /\ storage \in Stores
  /\ clock \in 0..MaxOrders
  /\ orders \in [Stores -> SUBSET Stamps]
  /\ pc \in [Handlers -> {"idle", "put", "list", "count", "reply"}]
  /\ job \in [Handlers -> Jobs]
  /\ answer \in [Handlers -> Answers]
  /\ walk \in [Handlers -> Walks]
  /\ \A g \in Handlers :
       /\ pc[g] = "put" => job[g].stamp \in Stamps
       /\ pc[g] \in {"list", "count", "reply"} => job[g].page \in Pages /\ job[g].size \in Sizes

(* The number of items of a page of a list of n.                           *)
Share(page, size, n) == LET left == n - (page - 1) * size
                        IN IF left <= 0 THEN 0 ELSE IF left < size THEN left ELSE size

(* A request whose numbers are in reach is not met by a panic, a page has  *)
(* as many items as the list has in memory, and never more than the total  *)
(* beside it says, though the two are read apart in PostgreSQL             *)
(* (memory.go 54-71, postgres.go 149-166).                                 *)
PagesFitTotal ==
  \A g \in Handlers :
    LET page == job[g].page
        size == job[g].size
        n    == Cardinality(answer[g].items)
    IN pc[g] = "reply" /\ page * size + MaxOrders <= MaxInt /\ size <= MaxAlloc =>
         /\ answer[g].code = 200
         /\ answer[g].total # 0 => n <= Share(page, size, answer[g].total)
         /\ storage = "memory" => n = Share(page, size, answer[g].total)

(* Who asks for one page after the other until the total is reached has    *)
(* seen every order that was there at the start, though orders are         *)
(* inserted between the pages, late ones among the older, and the server   *)
(* may restart (postgres.go 149-166).  So it is in PostgreSQL as long as   *)
(* no query fails.                                                         *)
WalkMissesNothing ==
  \A g \in Handlers : walk[g].phase = "ended" => walk[g].due \subseteq walk[g].seen

(* The inductive invariant behind it: an order that was due and not seen   *)
(* is behind the pages so far, and the total knows of it.                  *)
Behind(g, x, page) == /\ x \in orders["postgres"]
                      /\ Position(orders["postgres"], x) > page * walk[g].size

WalkInv ==
  \A g \in Handlers :
    /\ pc[g] = "count" => storage = "postgres"
    /\ walk[g].phase # "none" /\ pc[g] \in {"list", "count", "reply"} =>
         walk[g].phase = "on" /\ job[g].size = walk[g].size /\ job[g].page = walk[g].page + 1
    /\ \A x \in walk[g].due \ walk[g].seen :
         /\ walk[g].phase = "on"
         /\ Behind(g, x, walk[g].page)
         /\ pc[g] = "count" /\ x \notin answer[g].items => Behind(g, x, walk[g].page + 1)
         /\ pc[g] = "reply" /\ answer[g].sort = "whole" /\ x \notin answer[g].items =>
              /\ Behind(g, x, walk[g].page + 1)
              /\ answer[g].total > (walk[g].page + 1) * walk[g].size
=============================================================================
