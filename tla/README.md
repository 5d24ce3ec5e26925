# Verification of permit-backend

TLA+ models of the ID-photo back end in `src/`, TLC configurations that check
them on small instances, and TLAPS proofs of their main invariants for every
value of the constants. `PROJECT.json` lists the components, the runs, the
mutants, the source lines of every definition, the findings, the hazards and
the theorems; this file is the guided tour.

## 1. The system

One Go process serves HTTP. Each request is a goroutine of `net/http`; several
requests for one task or one order may run at once, and nothing serialises
them. There are no background jobs, no queues and no retries of the server's
own: whatever is left half done by a failed request or a killed process stays
so until a client sends another request.

| Part | State it keeps | Operations |
|---|---|---|
| Task service, `usecase/task_service.go` | none of its own | `CreateTask`, `GenerateBackground`, `GenerateLayout` |
| Order service, `usecase/order_service.go` | none of its own | `Create`, `Pay`, `Callback` |
| Auth service, `usecase/auth_service.go` | none (tokens are signed, not stored) | `Login`, `Verify` |
| HTTP server, `server/server.go` | the wiring, chosen once per process; `pg` decides where specs come from | 16 routes and the files of `/assets`, middleware, upload |
| Memory repositories, `repo/memory.go` | maps of pointers behind a `RWMutex` each | `Put`, `Get`, `List` |
| PostgreSQL repository, `repo/postgres.go` | tables `tasks`, `orders`, `users`, `specs` | upserts, selects, one transaction (`UpsertSpecs`) |
| Asset writer, `asset/writer.go` | files below the assets directory | `Write`, `WriteFile` |
| Algorithm client, `algo/client.go` | none | `IDPhoto`, `AddBackground`, `GenerateLayout` |
| WeChat client, `wechat/client.go` | none | `Jscode2Session` |
| Configuration, `config`, `env`, `main.go` | the process environment, then one `Config` | `env.Load`, `fromEnv`, the flags |
| `tasks/store.go` | - | imported by nothing |

How they interact. A handler calls a service, the service calls a repository,
the asset writer and the algorithm client, all synchronously. The only shared
state is the repositories and the files.

* **Memory storage.** `Get` returns the pointer that the map holds. The
  `RWMutex` protects the map and not the object, so two requests on one task
  or order write the same fields and the same Go maps, and the JSON encoder
  reads them while they are written.
* **PostgreSQL storage.** `Get` fills a fresh object from the row and `Put`
  upserts *all* its columns. Between the two lie calls of the algorithm service
  that take seconds; what another request stored meanwhile is overwritten. Some
  fields have no column.
* **Choice of storage.** `server.New` opens the database named by
  `POSTGRES_DSN`; when that fails it goes on in memory, until the next restart.
* **Errors of `Put` are dropped** (`_ = s.Repo.Put(t)`), and an error of `Get`
  is the same as "not found".
* **Files** are written by `os.WriteFile` or `io.Copy`: truncate, then write.

What is hard to test, and what correctness means:

| Part | Hard behaviour | What has to hold |
|---|---|---|
| Task service | several requests of one task; stale rows; a file that is truncated while another request reads it; seven calls that can fail; a crash at any of them; Go's fatal "concurrent map" error | a settled status is final; a done task has a whole baseline and at least one whole image, as far as its colours have files of their own; nothing listed dangles; a client's task is settled; the table of tasks is that of `TaskCatalog` |
| Order service | two `Pay` and a callback on one order; strings that are not assigned atomically; a crash between `Put` and the answer; late and repeated callbacks | parameters are bound to an idempotency key; only a notice makes an order paid; a retry is answered as before; the ledger of orders is that of `OrderLedger` |
| Auth service | two first logins of one openid; a failing query between them; a restart that forgets users while tokens stay valid | a token of a login that found or stored its user names the stored user, for good |
| Order list | page numbers that overflow; the page and the total read apart, with orders inserted between them | a page has the size its total asks for; whoever reads all pages has seen every order of the start |
| Specs | one statement of the transaction fails, or the process dies in it; two updates at once; a read that breaks off | all or none advertised, and never rows of both lists; no deadlock |
| Upload | the copy fails or the process dies under the final name | a key a client was told has a whole file |
| Start-up | the database is down when the process starts | an order lies where its task lies |
| Configuration | two files, an environment and flags, of which a name may be in all; a port that cannot be listened on | flag before environment before the last line before the default; a start dies without a `Config` on a lone quote and a bad flag only; a server that is up has a port that can be listened on |

## 2. Modules

    PhotoTask          data of a task: object, row, file contents, algorithm service
      TaskService      requests on tasks, repository, files, crash   -> TaskCatalog (abstract)
        MCTaskService            small instances
        TaskService_proofs       5 theorems: types, ownership, status, baseline, clients
          TaskFiles_proofs       6 theorems: listed files, the image of a done task, requests that do not overlap
            TaskCatalog_proofs   1 theorem: the service implements TaskCatalog
    OrderService       requests on orders, repository, crash         -> OrderLedger (abstract)
      MCOrderService             small instances
      OrderService_proofs        6 theorems: types, keys and parameters, notices
        OrderSerial_proofs       6 theorems: requests that do not overlap, and OrderLedger implemented
    Server             process and choice of storage, kept by the two below
      Accounts         users, login, tokens, middleware
      SpecStore        the spec table and its transaction
        Backend        Accounts + SpecStore + uploads + tasks and orders over restarts
          MCBackend              small instance
          Backend_proofs         6 theorems
      OrderList        the order list with machine integers
        MCOrderList              small instance
        OrderList_proofs         4 theorems
    Configuration      .env, .env.local, environment, flags
      MCConfiguration            small instance
      Configuration_proofs       4 theorems

`Backend` composes components by conjunction: `Accounts` and `SpecStore` declare
their own variables and actions, `Server` the process they share (`storage`,
`pc`), and an action of one says what it leaves alone of the other. In `Backend` a
task and an order are no more than present or absent, since what happens inside
one is the matter of `TaskService` and `OrderService`, which keep one storage for
the whole behaviour.

### How the code became a model

*Handlers.* A handler is a slot that serves one request after another. `pc[g]`
is the place its goroutine has reached, and `req[g]`, `task[g]`, `btask[g]`,
`copy[g]`, `data[g]` and `answer[g]` are its locals. A place ends where the
goroutine touches something shared; what it computes in between is part of the
same action, and so are the trailing `Put` and the answer. Every error return
is a disjunct of an action or an action of its own (`FailTask`, `FailRequest`,
`ComposeRefused`, `RequestRefused`, `GetRefused`, `CallbackRefused`).

*Repositories.* The variable `storage` holds one of `Storages`. In memory
`repo[id]` *is* the shared object, and assignments to fields are visible at once.
In PostgreSQL a handler works on `task[g]`, `btask[g]` or `copy[g]`, and `Put`
stores the whole copy; `Row` drops the fields that have no column. With
`RepoMayFail` (`QueryMayFail` in `Server`), `Put` may store nothing without anyone
noticing and `Get` may miss a row.

*Files.* A file is `none`, `damaged` (truncated and not yet or never written in
full, or made from such a file), `rgba` (the matted baseline) or the hex value
of its background. `Truncated` and `Flushed` are the two halves of
`os.WriteFile`. A file is named by a directory and a name. The baseline and the sheet have
names of their own (`BaselineFile`, `LayoutFile`); the file of a colour is `Joined[id][c]`,
what `filepath.Join` makes of the directory of the task and the colour with `.jpg`
behind it (`writer.go:21`). Nothing validates a colour, so `Joined` is any function: two
names may have one file, a colour named `layout_6inch` has that of the sheet, and a
colour with a path in it may have that of another task, or one that several
tasks share. Only a `baseline.png` is out of reach. The file a client is `Served`
is the one the name leads to; a sheet is told from an image by nothing but its
background.

*Crashes.* `Crash` and `Restart` end all requests at once; memory is lost, rows and
files stay, and start-up repairs nothing. A `Restart` of `Server` chooses the
storage again.

*Undefined behaviour.* In memory the code has data races. Two of them are
visible and are modelled: Go kills the process when it notices two goroutines
in one map (`ConcurrentMapFatal`; it may also not notice, then the writes take
effect one after the other), and a string is a pointer and a length stored
separately, so two writers can leave a string of neither (`TornKey`,
`TornStatus`), and a reader that meets a nil pointer with a length panics, which
`gin.Recovery` turns into a 500 (`PanicRead`). A torn status never reads as
"paid": it has a length no other status has.

| Code | Actions |
|---|---|
| `CreateTask`, lines 40-139 | `Create`, `IDPhoto`, `FlushBaseline`, `AddBackground`, `FlushDefault`, `Finish`, `FailTask` |
| `GenerateBackground`, 141-174 | `GetHit`/`GetMiss`, `RenderColor`, `OpenColor`, `FlushColor`, `PutBackground` (PostgreSQL), `BeginRecord`, `EndRecord` (memory) |
| `GenerateLayout`, 176-226 | `LayoutHit`/`LayoutMiss`, then `GenerateBackground`, `ComposeLayout`, `ComposeRefused`, `OpenLayout`, `FlushLayout`, `PutLayout` (PostgreSQL), `BeginLayoutRecord`, `EndLayoutRecord` (memory) |
| `GET /api/tasks/{id}`, `/api/download/{id}` | `Request`, `Encode` |
| `OrderService.Create` and its handler | `Create` of `OrderService`; `FindTask`, `PutOrder` of `Backend`; `Stamp`, `Put` of `OrderList` |
| `OrderService.Pay`, 35-69 | `Pay`, `CheckPaid`, `CheckKey`, `CheckCached`, `SetPending`, `SetKey`, `SetParams`, `PutPay` |
| `OrderService.Callback`, 71-91 | `Callback`, `SetStatus`, `CallbackRefused`, `PutStatus` |
| `AuthService.Login` and its handler | `Login`, `FindUser`, `MakeUser`, `PutUser`, `Sign` |
| `PostgresRepo.UpsertSpecs`, `ListSpecs` | `BeginUpdate`, `Upsert`, `Commit`, `RollBack`; `ListSpecs`, `Advertised` |
| `handleUpload` | `Upload`, `CopyPhoto` |
| `handleListOrders`, `ListOrders`, `List` | `Ask`, `ListMemory`, `QueryPage`, `QueryTotal`, `Reply` |
| `server.New`, the end of the process | `Killed`, `Restart` |
| `env.Load` | `Start`, `SkipLine`, `Setenv`, `LoadPanics`, `EndFile` |
| `config.fromEnv`, the flags of `main` | `Configure`, `FlagExits` |
| `http.ListenAndServe` in `main` | `Listen`, `ListenFails` |

Ids are 128 random bits (`randomID`), so an id is issued once, and a request
names an id that an earlier answer told some client.

*Abstractions.* A URL is determined by the task and the colour, so a map of URLs
is a set of colours; a colour that leads to no directory is one whose writes
fail, as any write may; `strings.ToLower` is the function `Lower`, and with
`strings.TrimSpace` before it, as `colorHexOf` has it, `Folded`; fields that are only copied are left out; payment
parameters are the number of the `Pay` request that made them, since each has a
fresh prepay id. In `OrderList` an order is its `created_at`, and all times are
different. In `Configuration` the operator's edits (`Export`, `Write`, `GiveFlag`,
`Stop`) enumerate what a start can find; what `strconv` and `flag` make of a string
is a table for each of them, as they do not agree. A broken `ListSpecs` returns any part
of the rows, where the code returns the first ones by name. Listening may fail on any port,
as another process may have it.

## 3. Runs

All passing runs check deadlock. Every property of a passing run has a mutant: a
plausible bug, kept next to the definition it replaces and marked `mutant`,
that TLC finds to violate the property.

| Run | Instance | What it shows |
|---|---|---|
| `task_concurrent` | 2 handlers, 1 task, 2 colours, both storages; failing queries, crashes, the fatal map race; 1.8 million states | a done task has a whole baseline and a whole image, listed files exist, statuses are final, `OwnershipInv` is inductive in reach, and the service implements `TaskCatalog` |
| `task_serial` | 1 handler, 1 task, 4 colours (`Blue`, and `layout_6inch` with the file of the sheet), PostgreSQL, fair; crashes | one request at a time: what is listed in a file of its own is whole, what is answered is listed, an id that a client knows is settled, and every task that somebody works on gets settled |
| `order_concurrent` | 2 handlers, 1 order, 2 keys, 3 payments, both storages; torn strings, failing queries, crashes | parameters have a key, in PostgreSQL the one they were made for, whichever copy was written last; a key is never cleared in memory; only a notice makes an order paid |
| `order_exclusive` | `ExclusiveSpec`: 2 handlers, 2 orders, 2 keys, 2 payments, PostgreSQL; crashes; 1.6 million states | unless two requests write one order at a time, `Pay` is idempotent, only a callback undoes paid, and the service implements `OrderLedger` |
| `backend` | 2 handlers, 1 openid, 3 user ids, 1 photo, 1 task, 2 orders; failing queries, restarts in either storage; 0.8 million states | tokens name the stored user, a spec update is seen whole, or in part by a read that breaks off, and never deadlocks, told photos are whole, an order lies with its task |
| `order_list` | 2 handlers, 3 orders, int up to 15, capacities up to 10, pages 1, 2, 3, 15 of sizes 1, 2, 15; restarts | pages agree with their totals, and a walk through all pages misses no order |
| `configuration` | 2 settings, one with a flag; the flag of the port, of which one value is out of range; three lines over both files; 1.7 million states | the server gets the value that comes first, dies before that only when a line or a flag is unreadable, and is up only on a port that can be listened on |

*Why these bounds.* Handlers of different tasks and of different orders share
nothing, so one id suffices for interference, and the second id of `order_exclusive` shows that one order does not leak into
another. Tasks can, through the files of colours with a path in them: that is
left to the theorems, which are about any `Joined`. Two handlers give
every pairwise race; a slot serves request after request, so a run contains
sequences of any length, and a file damaged by a request that died is met by
later ones. Three payments are one that is stored, one with the same key and
one with another; in `order_exclusive` two are a payment and its retry, or one of
each order. Two colours on different backgrounds tell a wrong colour from
a right one; `task_serial` has besides a name that differs from another in the
case of a letter and one that leads to the file of the sheet. Three user ids are those of two
first logins that race and of one after them. An int of five bits overflows where
one of 64 does: page 15 of size 2 wraps to a negative offset, and page 2 of size 15 to an end of the
slice that is before its start. Three lines are two of one file and one of
the other, so a name is set again in the same file and in the next. Theorems
(below) remove the bounds for the invariants they name. Symmetry is declared for
handlers and for ids and keys that are compared for equality only, and not in the
run with a liveness property.

*Fairness.* `FairSpec` asks for weak fairness of each handler's own steps: the Go
scheduler runs every runnable goroutine. It includes the assumption that the
algorithm service answers, with a result or an error: the client is
`http.DefaultClient`, which has no timeout, so the code itself cannot promise
it. New requests and crashes are not fair. After a crash, in PostgreSQL, a row
really does stay `processing` for ever: `TaskSettles` therefore excepts an `Orphaned`
row, which nobody works on and whose id no client was told, and
`PublishedIsSettled` says that these are the only ones.

*Properties that need their conditions.* These are limits of the code:

* `IdempotentPay`, `PaidNotUndone` and the refinement of `OrderLedger` hold as long as
  no two requests write one order at a time (`Exclusive` of `OrderService`: a `Pay` or
  a callback between its `Get` and its `Put`), and `RecordedIsWhole` as long as no two
  write one task at a time. Clients can see to it, or a lock for each id would;
  the code does not.
* `DoneHasWholeImage` and `RecordedIsWhole` are about colours with a file of their own
  (`Own`): one that no other colour of any task and no sheet leads to. Where two
  names lead to one file, it shows what was written last, whatever is listed.
* `AnsweredIsRecorded` needs more (`Apart`): no two background or layout requests of
  one task from their beginning to their answer. `GenerateLayout` puts its copy of
  the row over the colour that `GenerateBackground` has put within it, and another
  request may have found that colour listed and answered it meanwhile.
* `TaskCatalog` lets a stale row take images away again (`Overwrite`) as long as a
  done task keeps one that was listed before; a table that only grows would be
  refuted by `v_colors_forgotten`.
* `ParamsMatchKey` is stated for PostgreSQL: in memory, two `Pay` requests that
  assign fields alternately leave the key of one with the parameters of the
  other.
* `KeyNeverCleared` is stated for memory: in PostgreSQL a callback that read the
  row before a `Pay` stored it puts back an order with no key. `ParamsMatchKey`
  still holds then, because the parameters disappear with the key.
* `TokensNameTheirUser` speaks of tokens of logins that found or inserted their
  row. The loser of two first logins gets a token whose user id is stored
  nowhere, and so does a login during a failing read.
* `PagesFitTotal` speaks of numbers whose product does not overflow and capacities
  `make` can serve: others are answered 500 or another page.
* `WalkMissesNothing` is claimed for PostgreSQL and walks on which no query failed:
  in memory the pages come in a random order each, and a failed query is
  an empty page with total 0.

### Findings

Five runs show what a document says and the code does not do; `PROJECT.json`
quotes the lines.

| Run | Finding |
|---|---|
| `v_colors_forgotten` | Of two concurrent requests on one task in PostgreSQL one is answered the URL of its colour, and the `Put` of the other, which read the row before, takes the colour off the list. |
| `v_map_race` | Two requests on one task write its Go map with no lock, and the process may end. |
| `v_layout_no_url` | A layout the service refuses is answered with 200 and an empty URL. |
| `v_pay_not_idempotent` | Two concurrent payments with one `Idempotency-Key` are answered different parameters. |
| `v_paid_undone` | A payment that read the row before the paid callback takes the order back to pending. |

Smaller disagreements met while modelling, which the models contain but no run
is spent on:

* `GenerateLayout` stores the row it read before it called `GenerateBackground`, so in
  PostgreSQL one request for a sheet is enough to lose the colour it has just made
  (`:224`; the client is told the URL of the sheet only);
* a cached sheet is answered whatever colour is asked for (`task_service.go:182`),
  a colour with a capital letter is written to one file and read from another
  (`:192`), `baselineUrl` is never shown in PostgreSQL (there is no column), and a
  failing `Put` is answered like a successful one;
* a database that is down at start-up is replaced by memory in silence
  (`server.go:40-47`);
* `main` ends with status 0 when it cannot listen, after it has printed that it does
  (`main.go:51-52`);
* the middleware refuses a request with no token in every environment, where
  the API document says that development may relax this;
* `rows.Err` is not looked at, and a failed list query is an empty list (of specs: the
  list built in);
* `strconv.Atoi` reads `010` as ten and the flag package as eight; an empty or
  unreadable setting hides a good one further down; a line over 64 kB ends a
  file in silence.

## 4. Proofs

The theorems hold for every number of handlers, tasks, orders, users, colours, keys
and lines, both storages, with or without failing queries and crashes. They use only
the assumptions named in the modules, which TLC evaluates in every run:

* `PhotoAssumption`: white is a colour (`CreateTask` falls back on it),
  lower-casing maps colours to colours, and the names of the baseline and of the sheet
  and the empty value are no colours: a colour `c` is the file `c.jpg`, and whether that is the
  file of the sheet is for `Joined` to say.
* `ServiceAssumption`, `OrderAssumption`: `Storages` is a part of the two; the
  switches are Boolean; `Joined` leads to files, of which none is a baseline; the empty value is no id and no key; a torn key is neither a
  key that was sent nor the empty one.
* `ServerAssumption`, `AccountAssumption`: the switches are Boolean; the empty value
  is no openid and no user id.
* `ListAssumption`: the bounds are numbers, and there are no more orders than ints.
* `ConfigurationAssumption`: the port is a setting, "not given" is no string, and `fromEnv` accepts neither
  it nor the empty one.

**Tasks.** `TypeCorrect` is inductive as it stands, since `Placed` ties each place
to its operation. `StatusFinal` and `BaselineNeverTorn` are not: a handler
in `finish` writes `done` whatever the status is, and a stale copy writes back the
status it read. The invariant that excludes both is

    Inv == TypeOK /\ OwnershipInv
    OwnershipInv == Owned /\ BaselineFirst /\ CopiesKeepStatus

`Owned`: until the answer of `POST /api/tasks` is sent, a task has the one handler
that creates it and no other handler, because nobody else can know the id;
afterwards no handler creates it. `BaselineFirst`: the status becomes done only
after the baseline was written in full, and nobody but the creator opens that
file. `CopiesKeepStatus`: a private copy of a row may be as stale as it likes,
its status is the row's, because the status was settled before the copy was
taken. From `Inv` follow `Ownership`, `StatusNeverChanges` (an action property)
and, with the rendered image in hand (`Rendered`), `BaselineSafe`.
`ClientsMeetSettledTasks` proves `PublishedIsSettled` for PostgreSQL while queries
do not fail: a handler of `CreateTask` that is ready to answer has stored a
settled status (`AnsweredIsSettled`), and `StatusMoves` keeps it. A memory server
forgets tasks at a restart, and a failing `Put` answers what was never stored, so
both conditions are needed.

*Files.* `ListedFilesExist` proves `RecordedHasFile` for any `Joined`. A file, once there, is never
removed (`truncate` leaves it there), and every handler puts a URL into its object
behind the write of the file; so every object, stored or private and however
stale, lists existing files only (`Listed`).

*Images.* `DoneTasksHaveAnImage` proves `DoneHasWholeImage`. The existence of *some*
whole image is not inductive, since each of two requests could take the other's
away. The witness is the image that `CreateTask` made: `Lasts(id, c)` says that its
file is whole, and that the row and every copy of it list it. It was listed before
the id was known, so every later copy has it; a request that finds it listed
answers from the cache and never opens its file (`Spares`), and whatever copy is put
back lists it again. No other write reaches the file, since no other name leads to it
(`Own`, `OwnStays`). `FirstImage` establishes it with the `Put` of `CreateTask`.

*Requests that do not overlap.* `ExclusiveListingsAreWhole` proves `RecordedIsWhole` of
all behaviours in which no two requests are between `Get` and `Put` of one task
(`Exclusive`); other tasks, reads of the same task, failing queries and crashes are not
restricted. Its invariant `Exact`: the object that `GenerateBackground` works on
lists what the repository lists, and not the colour it is about to write; the copy of
`GenerateLayout` lists a part of it. So of the files that no other name leads to only those that
are not listed are opened, and what is put lists whole files. A request that does not move keeps its part
of this (`Undisturbed`), as whoever does move writes another task.
`ApartAnswersAreListed` proves `AnsweredIsRecorded` under `Apart`, while queries do not
fail. `SerialListingsAreWhole` and `SerialAnswersAreListed` are the cases of one
handler, which is what `task_serial` checks.

*The table of tasks.* `CatalogImplemented` proves `ImplementsCatalog`: `TaskService`
implements `TaskCatalog` in both storages, with failing queries, crashes and the
fatal map race. Its invariant `Entries` says that an entry is empty until
`CreateTask` saves it, that only found tasks are worked on, and that in memory a
published task is settled; so `Finish` and `FailTask` are `Complete` and `Reject`, and
later writes are `AddImage` and `AddLayout` in memory and `Overwrite` in PostgreSQL.
`Overwrite` asks that a done task keeps an image that was listed, which is what
`Lasts` gives. All other steps leave the table alone.

**Orders.** The invariant is

    Inv == TypeOK /\ PayInv /\ PaidOnlyAfterNotice

`ParamsHaveKey` is not inductive: it says nothing of a private copy that is about to
be stored, or of a `Pay` between the key and the parameters. `PayInv` adds
both: every object, stored or private, binds its parameters to a key (`Binds`), and
a `Pay` past the look in the cache has stored a key before it stores parameters;
in PostgreSQL its copy had none. A copy of a row is then as good as the
row, so it does not matter which one is written last. The proof is by
handler: `Local(g)` and `Sound(id)` split the invariant, and a step of one
handler leaves `Local` of the others alone, unless the shared order loses its
key, which no step does. `PaidOnlyAfterNotice` is part of the same induction,
as copies carry the status as well. `KeysStayBound` proves `KeyNeverCleared` for
memory storage: every assignment to a stored order leaves it a key if it had one
(`KeepsKeys`), and `Create` only takes an id that has no order (`Fresh`).

*Requests that do not overlap.* `OrderSerial_proofs` proves `IdempotentPay` and
`PaidNotUndone` of `ExclusiveSpec` in both storages, and the refinement of `OrderLedger`
in PostgreSQL, while queries do not fail and with crashes at any place. `Faithful` says
what the stored order and the object of a request are at each place: until the
assignments they are the same, then the object has the fields assigned so far, and
the order is not paid and has no parameters where a charge is on its way. `Receipts`
says that every answer ever sent has the key and the parameters of the order, unless
a restart of a memory server has lost it. `Undisturbed` and `Writes` are the frame:
a request that writes an order has it for itself, keeps what was charged
(`Keeps`), and the numbers of two payments differ (`Numbered`), so the others stay
faithful. `PutPay` is then `Charge`, `PutStatus` is `Notice`, the answer of a `Pay` is
`Tell`, and the rest stutters. The theorems on one request at a time are corollaries.
The runs `v_pay_not_idempotent` and `v_paid_undone` show that the condition
cannot be dropped.

**Server.** `Backend_proofs` proves every invariant of `backend`, each from
`TypeCorrect` and an invariant of its own: tokens (a row of `users` is never replaced
by one with another id, and a login that inserted knows the id it inserted), spec
updates (the table changes at `Commit` only and by a whole list, and a broken read
returns rows of the table), freedom from
deadlock (every update begins with the same row of the one list, so of all open
updates at most one holds any row, and that one waits for nobody), uploads (a key is
told after the copy, and a fresh name is never opened again), and orders (an order is
put where its task was found, and no process changes storage).

**Order list.** `WalksMissNothing` proves `WalkMissesNothing` from `WalkInv`: an order
that is due to a walk and not seen yet is behind the pages read so far. Orders are
only ever inserted, and an insertion moves what is behind it further back, never
to the front; so what is not on page n is behind page n, also when orders arrive
between the page and the total, and then the total knows of a further page.
`PagesFit` proves `PagesFitTotal` from `PageInv`: the length of a slice whose bounds do
not overflow is what is left of the list (`PageLength`); the orders a page holds have
places of their own in the list (`PlacesDiffer`), and the list only grows from the
page to the total.

**Configuration.** `Precedence` and `StartsOrDies` follow from `LoadInv`
(`LoadingKeepsOrder`), which is about the scanner half way: a name the process was not started with has the value of its
last line *so far* (`EnvironmentSoFar`), and no line so far was a lone quote. A step
moves one line behind the scanner, and at the end all lines that can be reached are
behind it. `StartsOrDies` says nothing of a start that goes well up to listening: it may
end there.

Not proved, only model-checked: liveness (`TaskSettles`), which is out of the prover's
reach, as is `ENABLED`. Every other property of a passing run is the subject of a
theorem. No module declares a recursive operator.

## 5. Not modelled, and why

* Validation of request bodies, formats, logging, CORS: they change no state.
* Expiry of tokens after seven days and the check of their signature: an expired
  or forged token is only refused.
* Contents of images and of the calls to the algorithm service: external; each
  call succeeds, fails or is refused. The service is assumed to send an image
  when it says OK: the client does not check, and an empty file would be listed.
* The HTTP call to WeChat: external; it answers an openid or an error.
* Two orders of one instant: `ORDER BY created_at` leaves them in any order, and
  the model has distinct times.
* Columns added to an older `orders` table, which hold NULL and make `GetOrder`
  report the order as not found.
* Sizes and colours of the specs, and `findSpec`, which looks in the list built in only: that
  `cn_social_security` is advertised and a task for it gets `passport` instead is plain
  from the two lists.
* `tasks/store.go`: dead code.

## 6. Plan

Done: the task and order services with their abstractions (`TaskService`,
`OrderService`) and the proofs that they implement them, the server around them
(`Backend`), the order list (`OrderList`) and the configuration (`Configuration`),
with the proofs above. Left:

1. NULL in the two columns added to `orders`, as a start of `OrderService` with rows
   of the older table.
2. `ImplementsLedger` in memory, where the three assignments of a payment are seen one
   by one and a restart loses the ledger: the abstract one has neither.
3. The runs of tasks and orders as runs of `Backend`, which needs a coarser
   `TaskService` to stay within reach of TLC.
