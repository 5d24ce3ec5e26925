------------------------------- MODULE Backend -------------------------------
(***************************************************************************)
(* The server as a client meets it: log in, upload a photo, make a task    *)
(* and order prints, over restarts at which server.New may find the        *)
(* database or not.  Accounts and SpecStore are composed with the upload   *)
(* handler and with one step per task and two per order; what goes on      *)
(* inside a task or a payment is in TaskService and OrderService.          *)
(***************************************************************************)
EXTENDS Accounts, SpecStore

CONSTANTS
  Photos,    \* bounds the number of uploads
  TaskIDs,   \* bounds the number of tasks
  OrderIDs   \* bounds the number of orders

VARIABLES
  uploads,   \* files in the uploads directory: "none", "part" or "whole"
  keys,      \* object keys clients were told
  tasks,     \* per storage: tasks in the repository
  known,     \* task ids clients can have: told, or read in the order list
  orders,    \* per storage: orders in the repository
  placed,    \* order ids clients were told
  job        \* per handler: the photo or the order it has in hand

shopVars == <<uploads, keys, tasks, known, orders, placed, job>>
vars     == <<storage, pc, accountVars, specVars, shopVars>>

Pcs == {"idle", "get_user", "put_user", "sign", "upsert", "copy", "put_order"}

Orders == [id : OrderIDs, task : TaskIDs]
Empty  == [s \in Stores |-> {}]

Jobs  == [photo : Photos \cup {None}, id : OrderIDs \cup {None}, task : TaskIDs \cup {None}]
NoJob == [photo |-> None, id |-> None, task |-> None]

Init == /\ ServerInit
        /\ AccountsInit
        /\ SpecsInit
        /\ uploads = [f \in Photos |-> "none"]
        /\ keys = {}
        /\ tasks = Empty
        /\ known = {}
        /\ orders = Empty
        /\ placed = {}
        /\ job = [g \in Handlers |-> NoJob]

Take(g, f, id, t) == job' = [job EXCEPT ![g] = [photo |-> f, id |-> id, task |-> t]]
Drop(g)           == job' = [job EXCEPT ![g] = NoJob]

(* Inserting a row; the error of Put is dropped.                           *)
Inserts(table, repo, x) == {[table EXCEPT ![repo] = @ \cup {x}]} \cup (IF Fails THEN {table} ELSE {})

----------------------------------------------------------------------------
(* POST /api/upload: create the file, copy the form's photo into it, and   *)
(* tell the key.                                                           *)
Upload(g, f) ==
  /\ At(g, "idle")
  /\ uploads[f] = "none"
  /\ uploads' = [uploads EXCEPT ![f] = "part"]
  /\ Take(g, f, None, None)
  /\ Goto(g, "copy")
  /\ UNCHANGED <<storage, keys, tasks, known, orders, placed>>

TellAnyway(f) == keys \cup {f}   \* mutant: the error of io.Copy is not looked at
AfterFailure(f) == keys

CopyPhoto(g) ==
  /\ At(g, "copy")
  /\ \/ /\ uploads' = [uploads EXCEPT ![job[g].photo] = "whole"]
        /\ keys' = keys \cup {job[g].photo}
     \/ /\ keys' = AfterFailure(job[g].photo)
        /\ UNCHANGED uploads
  /\ Drop(g)
  /\ Goto(g, "idle")
  /\ UNCHANGED <<storage, tasks, known, orders, placed>>

(* POST /api/tasks: the row is stored and the id told, failed or not.      *)
CreateTask(g, t) ==
  /\ At(g, "idle")
  /\ \A s \in Stores : t \notin tasks[s]
  /\ t \notin known
  /\ tasks' \in Inserts(tasks, TaskRepo, t)
  /\ known' = known \cup {t}
  /\ UNCHANGED <<storage, pc, uploads, keys, orders, placed, job>>

(* POST /api/orders looks for the task, ...                                *)
AnyTask(t)  == TRUE          \* mutant: no look at the tasks
HasTask(t)  == t \in tasks[TaskRepo]

FindTask(g, t, id) ==
  /\ At(g, "idle")
  /\ t \in known
  /\ HasTask(t)
  /\ id \notin placed
  /\ \A s \in Stores : \A o \in orders[s] : o.id # id
  /\ \A h \in Handlers : job[h].id # id
  /\ Take(g, None, id, t)
  /\ Goto(g, "put_order")
  /\ UNCHANGED <<storage, uploads, keys, tasks, known, orders, placed>>

(* ... and OrderService.Create stores the order.                           *)
PutOrder(g) ==
  /\ At(g, "put_order")
  /\ orders' \in Inserts(orders, OrderRepo, [id |-> job[g].id, task |-> job[g].task])
  /\ placed' = placed \cup {job[g].id}
  /\ Drop(g)
  /\ Goto(g, "idle")
  /\ UNCHANGED <<storage, uploads, keys, tasks, known>>

----------------------------------------------------------------------------
ShopNext ==
  \E g \in Handlers :
    \/ Authorized /\ \/ \E f \in Photos : Upload(g, f)
                     \/ \E t \in TaskIDs : CreateTask(g, t) \/ \E id \in OrderIDs : FindTask(g, t, id)
    \/ CopyPhoto(g) \/ PutOrder(g)

SpecsStep == SpecsNext \/ (Authorized /\ \E g \in Handlers : BeginUpdate(g))

(* main starts again: files and rows are there, maps are empty.            *)
Restart ==
  /\ Killed
  /\ AccountsRestart
  /\ SpecsRestart
  /\ tasks' = Kept(tasks, {})
  /\ orders' = Kept(orders, {})
  /\ job' = [g \in Handlers |-> NoJob]
  /\ UNCHANGED <<uploads, keys, known, placed>>

Next == \/ AccountsNext /\ UNCHANGED <<specVars, shopVars>>
        \/ SpecsStep /\ UNCHANGED <<accountVars, shopVars>>
        \/ ShopNext /\ UNCHANGED <<accountVars, specVars>>
        \/ Restart

Spec == Init /\ [][Next]_vars

----------------------------------------------------------------------------
(* Every variable holds what the program can put there.                    *)
TypeOK ==
  /\ storage \in Stores
  /\ pc \in [Handlers -> Pcs]
  /\ AccountsTypeOK
  /\ SpecsTypeOK
  /\ uploads \in [Photos -> {"none", "part", "whole"}]
  /\ keys \subseteq Photos
  /\ tasks \in [Stores -> SUBSET TaskIDs]
  /\ known \subseteq TaskIDs
  /\ orders \in [Stores -> SUBSET Orders]
  /\ placed \subseteq OrderIDs
  /\ job \in [Handlers -> Jobs]
  /\ \A g \in Handlers :
       /\ pc[g] = "copy" => job[g].photo \in Photos
       /\ pc[g] = "put_order" => job[g].id \in OrderIDs /\ job[g].task \in TaskIDs

(* A client is told an object key only when its file is whole, and no      *)
(* later upload, failure or restart damages it (server.go 160-178).        *)
ToldPhotosAreWhole == \A f \in keys : uploads[f] = "whole"

(* An order refers to a task of the same storage.  New assigns both        *)
(* repositories together (server.go 44-55), and a restart, which may       *)
(* change the storage, ends the handlers between their look at the task    *)
(* (server.go:356) and their Put (order_service.go:31).                    *)
OrdersHaveTheirTask ==
  \A s \in Stores : \A o \in orders[s] : o.task \in tasks[s]
=============================================================================
