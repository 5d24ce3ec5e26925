------------------------- MODULE TaskCatalog_proofs -------------------------
(***************************************************************************)
(* Proof that TaskService implements TaskCatalog: the initial states are   *)
(* those of the table, and every step of a handler, of a crash or of the   *)
(* fatal map race is a step of the table or leaves it alone.               *)
(***************************************************************************)
EXTENDS TaskFiles_proofs

Works(g) == pc[g] \in BackgroundPcs \cup LayoutPcs

(* What the repository holds at each place, so that a step of a handler    *)
(* finds the entry the table wants for it.                                 *)
NothingYet(t) == t.processed = {} /\ t.layout = FALSE

Blank == \A id \in TaskIDs : repo[id].status = "none" => NothingYet(repo[id])

Fresh(g) == pc[g] \in CreatePcs =>
  /\ NothingYet(repo[req[g].id])
  /\ storage = "memory" => repo[req[g].id].status = "processing"
  /\ storage = "postgres" => NothingYet(task[g])

WorksOnFound(g) == Works(g) => Found(req[g].id)

MemorySettles ==
  storage = "memory" =>
    /\ \A id \in published : repo[id].status # "processing"
    /\ \A g \in Handlers : At(g, "reply") /\ Creating(g) => repo[req[g].id].status # "processing"

Entries == /\ Blank
           /\ \A g \in Handlers : Fresh(g) /\ WorksOnFound(g)
           /\ MemorySettles

----------------------------------------------------------------------------
(* What a step that serves a task does to the repository.                  *)
LEMMA ServingPlaces ==
  ASSUME UNCHANGED storage, Inv, NEW g \in Handlers, Serving(g)
  PROVE  /\ Works(g) \/ pc[g] = "encode"
         /\ Works(g)' => Works(g)
         /\ \A id \in TaskIDs \ {req[g].id} : repo'[id] = repo[id]
         /\ ~Works(g) => repo' = repo
         /\ \A h \in Handlers \ {g} : task'[h] = task[h]
<1> USE DEF At, Goto, Works, BackgroundPcs, LayoutPcs, Inv, TypeOK
<1>1. CASE GetHit(g) \/ GetMiss(g) \/ RenderColor(g) \/ OpenColor(g) \/ FlushColor(g) \/ BeginRecord(g)
  BY <1>1 DEF GetHit, GetMiss, RenderColor, OpenColor, FlushColor, BeginRecord
<1>2. CASE PutBackground(g) \/ EndRecord(g)
  BY <1>2 DEF PutBackground, EndRecord, Saves
<1>3. CASE LayoutHit(g) \/ LayoutMiss(g) \/ ComposeLayout(g) \/ ComposeRefused(g) \/ OpenLayout(g) \/ FlushLayout(g)
           \/ BeginLayoutRecord(g)
  BY <1>3 DEF LayoutHit, LayoutMiss, ComposeLayout, ComposeRefused, OpenLayout, FlushLayout, BeginLayoutRecord
<1>4. CASE PutLayout(g) \/ EndLayoutRecord(g)
  BY <1>4 DEF PutLayout, EndLayoutRecord, Saves
<1>5. CASE GetRefused(g) \/ FailRequest(g) \/ Encode(g)
  BY <1>5 DEF GetRefused, FailRequest, Encode, Answer
<1> QED
  BY <1>1, <1>2, <1>3, <1>4, <1>5 DEF Serving, BackgroundStep, LayoutStep

LEMMA EntriesServing ==
  ASSUME UNCHANGED storage, Inv, Entries, NEW g \in Handlers, Serving(g)
  PROVE  Entries'
<1>1. Serves(g)
  BY ServingServes
<1>2. /\ Works(g) \/ pc[g] = "encode"
      /\ Works(g)' => Works(g)
      /\ \A id \in TaskIDs \ {req[g].id} : repo'[id] = repo[id]
      /\ ~Works(g) => repo' = repo
      /\ \A h \in Handlers \ {g} : task'[h] = task[h]
  BY ServingPlaces
<1>3. \A h \in Handlers : pc[h] # "idle" => req[h].id \in TaskIDs
  BY Busy DEF Inv
<1>4. Blank'
  BY <1>1, <1>2, <1>3 DEF Serves, Entries, Blank, WorksOnFound, Found
<1>5. ASSUME NEW h \in Handlers PROVE Fresh(h)'
  <2>1. CASE h = g
    BY <1>1, <2>1 DEF Serves, Fresh
  <2>2. CASE h # g /\ pc[h] \in CreatePcs
    <3>1. pc[h] # "idle" /\ Creating(h)
      BY <2>2, PcsAreBusy DEF Creating, Inv, TypeOK, Placed
    <3>2. req[h].id \in TaskIDs \ {req[g].id}
      BY <1>1, <1>3, <3>1 DEF Serves, Inv, OwnershipInv, Owned
    <3> QED
      BY <1>1, <1>2, <2>2, <3>2 DEF Serves, Entries, Fresh
  <2> QED
    BY <1>1, <2>1, <2>2 DEF Serves, Fresh
<1>6. ASSUME NEW h \in Handlers PROVE WorksOnFound(h)'
  BY <1>1, <1>2, <1>3, PcsAreBusy DEF Serves, Entries, WorksOnFound, Works, Found
<1>7. MemorySettles'
  <2>1. \A id \in published : id \in TaskIDs
    BY DEF Inv, TypeOK
  <2>2. ASSUME NEW h \in Handlers, Creating(h)' PROVE pc'[h] = pc[h] /\ Creating(h) /\ req[h].id \in TaskIDs
    BY <1>1, <1>3, <2>2 DEF Serves, Creating
  <2> QED
    BY <1>1, <2>1, <2>2 DEF Serves, Entries, MemorySettles, At
<1> QED
  BY <1>4, <1>5, <1>6, <1>7 DEF Entries

----------------------------------------------------------------------------
(* CreateTask keeps the entry of its task empty until it is saved.         *)
LEMMA Building ==
  ASSUME UNCHANGED storage, Inv, Entries, NEW g \in Handlers, CreateStep(g)
  PROVE  LET i == req[g].id IN
         /\ \A id \in TaskIDs \ {i} : repo'[id] = repo[id]
         /\ \/ /\ pc'[g] \in CreatePcs
               /\ repo'[i].status = repo[i].status /\ NothingYet(repo'[i])
               /\ NothingYet(task[g]) => NothingYet(task'[g])
            \/ /\ pc'[g] = "reply"
               /\ \E t \in Tasks : /\ repo' \in Saves(i, t)
                                   /\ \/ t.status = "failed" /\ NothingYet(t)
                                      \/ /\ t.status = "done" /\ t.processed = {req[g].color}
                                         /\ t.layout = FALSE
<1> DEFINE i == req[g].id
           k == req[g].color
           t == Object(i, task[g])
<1>1. Builds(g) /\ i \in TaskIDs /\ k \in Colors /\ t \in Tasks /\ repo[i] \in Tasks /\ task[g] \in Tasks
  <2>1. Builds(g)
    BY CreateStepKeeps
  <2>2. i \in TaskIDs /\ k \in Colors
    BY <2>1, Busy, PcsAreBusy DEF Builds, Inv
  <2>3. t \in Tasks
    BY <2>2, Objects DEF Inv, TypeOK
  <2> QED
    BY <2>1, <2>2, <2>3 DEF Inv, TypeOK
<1>2. NothingYet(repo[i]) /\ NothingYet(t)
  BY <1>1, ServiceAssumption DEF Builds, Entries, Fresh, Object, Inv, TypeOK
<1>3. repo \in [TaskIDs -> Tasks] /\ task \in [Handlers -> Tasks] /\ pc \in [Handlers -> Pcs]
  BY DEF Inv, TypeOK
<1>4. CASE IDPhoto(g) \/ AddBackground(g) \/ FlushDefault(g)
  BY <1>2, <1>3, <1>4 DEF IDPhoto, AddBackground, FlushDefault, At, Goto, CreatePcs
<1>5. CASE FlushBaseline(g)
  <2>1. NothingYet(WithBaseline(t)) /\ WithBaseline(t).status = t.status
    BY <1>1, <1>2 DEF NothingYet, WithBaseline, Tasks
  <2>2. /\ repo' = IF storage = "memory" THEN [repo EXCEPT ![i] = WithBaseline(t)] ELSE repo
        /\ task'[g] = Copy(WithBaseline(t)) /\ pc'[g] \in CreatePcs
    BY <1>3, <1>5 DEF FlushBaseline, Goto, CreatePcs
  <2>3. NothingYet(task'[g])
    BY <2>1, <2>2 DEF Copy, NoTask, NothingYet
  <2> QED
    BY <1>1, <1>2, <1>3, <2>1, <2>2, <2>3 DEF Object
<1>6. ASSUME NEW u \in Tasks, SaveAndAnswer(g, u),
             \/ u.status = "failed" /\ NothingYet(u)
             \/ u.status = "done" /\ u.processed = {k} /\ u.layout = FALSE
      PROVE  /\ \A id \in TaskIDs \ {i} : repo'[id] = repo[id]
             /\ pc'[g] = "reply" /\ repo' \in Saves(i, u)
  BY <1>1, <1>3, <1>6 DEF SaveAndAnswer, Answer, Goto, Saves
<1>7. CASE Finish(g)
  <2> DEFINE u == Done(WithColor(t, k))
  <2>1. WithColor(t, k) \in Tasks /\ WithColor(t, k).processed = {k} /\ WithColor(t, k).layout = FALSE
    BY <1>1, <1>2, TaskOperators DEF WithColor, NothingYet, Tasks
  <2>2. u \in Tasks /\ u.status = "done" /\ u.processed = {k} /\ u.layout = FALSE
    BY <1>1, <2>1, TaskOperators DEF Done, Tasks
  <2>3. SaveAndAnswer(g, u)
    BY <1>7 DEF Finish
  <2> QED
    BY <1>6, <2>2, <2>3
<1>8. CASE FailTask(g)
  <2>1. Failed(t) \in Tasks /\ Failed(t).status = "failed" /\ NothingYet(Failed(t))
    BY <1>1, <1>2, TaskOperators DEF Failed, NothingYet, Tasks
  <2>2. SaveAndAnswer(g, Failed(t))
    BY <1>8 DEF FailTask
  <2> QED
    BY <1>6, <2>1, <2>2
<1> QED
  BY <1>4, <1>5, <1>7, <1>8 DEF CreateStep

(* Which entry a Put leaves.                                               *)
LEMMA PutEntry ==
  ASSUME repo \in [TaskIDs -> Tasks], NEW i \in TaskIDs, NEW t \in Tasks, repo' \in Saves(i, t)
  PROVE  \/ Fails /\ repo' = repo
         \/ /\ repo'[i].status = t.status /\ repo'[i].processed = t.processed
            /\ repo'[i].layout = IF storage = "memory" THEN t.layout ELSE FALSE
<1>1. Row(t).status = t.status /\ Row(t).processed = t.processed /\ Row(t).layout = FALSE
  BY DEF Row, Tasks
<1> QED
  BY <1>1 DEF Saves, Stored

LEMMA EntriesCreate ==
  ASSUME UNCHANGED storage, Inv, Entries, NEW g \in Handlers, CreateStep(g)
  PROVE  Entries'
<1> DEFINE i == req[g].id
<1>1. Builds(g) /\ i \in TaskIDs
  BY CreateStepKeeps, Busy, PcsAreBusy DEF Builds, Inv
<1>2. \A id \in TaskIDs \ {i} : repo'[id] = repo[id]
  BY Building
<1>3. NothingYet(repo[i]) /\ (storage = "memory" => repo[i].status = "processing")
      /\ (storage = "postgres" => NothingYet(task[g])) /\ repo \in [TaskIDs -> Tasks]
  BY <1>1 DEF Builds, Entries, Fresh, Inv, TypeOK
<1>4. ASSUME NEW h \in Handlers \ {g}, pc[h] # "idle" PROVE req[h].id \in TaskIDs \ {i}
  BY <1>1, <1>4, Busy DEF Builds, Inv, OwnershipInv, Owned
<1>5. \/ /\ pc'[g] \in CreatePcs
         /\ repo'[i].status = repo[i].status /\ NothingYet(repo'[i])
         /\ NothingYet(task[g]) => NothingYet(task'[g])
      \/ /\ pc'[g] = "reply"
         /\ repo'[i].status \in {"failed", "done"} \/ (repo' = repo /\ Fails)
  <2>1. ASSUME NEW t \in Tasks, repo' \in Saves(i, t), t.status \in {"failed", "done"}
        PROVE  repo'[i].status \in {"failed", "done"} \/ (repo' = repo /\ Fails)
    BY <1>1, <1>3, <2>1, PutEntry
  <2> QED
    BY <2>1, Building
<1>6. Blank'
  BY <1>2, <1>5 DEF Entries, Blank
<1>7. ASSUME NEW h \in Handlers PROVE Fresh(h)' /\ WorksOnFound(h)'
  <2>1. CASE h = g
    <3>1. ~Works(g)'
      BY <1>1 DEF Builds, Works, CreatePcs, BackgroundPcs, LayoutPcs
    <3> QED
      BY <1>1, <1>3, <1>5, <2>1, <3>1, PcsAreBusy DEF Builds, Fresh, WorksOnFound, CreatePcs
  <2>2. CASE h # g
    BY <1>1, <1>2, <1>4, <2>2, PcsAreBusy DEF Builds, Entries, Fresh, WorksOnFound, Works, Found
  <2> QED
    BY <2>1, <2>2
<1>8. MemorySettles'
  <2>1. i \notin published /\ \A id \in published : id \in TaskIDs
    BY <1>1 DEF Builds, Inv, OwnershipInv, Owned, TypeOK
  <2>2. ASSUME storage = "memory", NEW h \in Handlers, (At(h, "reply") /\ Creating(h))'
        PROVE  repo'[req'[h].id].status # "processing"
    <3>1. CASE h = g
      BY <1>1, <1>5, <2>2, <3>1 DEF Builds, At, Fails, CreatePcs
    <3>2. CASE h # g
      BY <1>1, <1>2, <1>4, <2>2, <3>2 DEF Builds, Entries, MemorySettles, At, Creating
    <3> QED
      BY <3>1, <3>2
  <2> QED
    BY <1>1, <1>2, <2>1, <2>2 DEF Builds, Entries, MemorySettles
<1> QED
  BY <1>6, <1>7, <1>8 DEF Entries

----------------------------------------------------------------------------
(* A new request: a new entry is empty, and an old one must be found.      *)
LEMMA EntriesStart ==
  ASSUME UNCHANGED storage, Inv, Entries, NEW g \in Handlers, Start(g)
  PROVE  Entries'
<1> USE DEF At, Goto, Begin
<1>1. \A h \in Handlers : pc[h] # "idle" => req[h].id \in TaskIDs /\ req[h].id \in issued
  BY DEF Inv, TypeOK, Placed
<1>2. published \subseteq issued /\ published \subseteq TaskIDs /\ repo \in [TaskIDs -> Tasks] /\ storage \in {"memory", "postgres"}
  BY ServiceAssumption DEF Inv, TypeOK
<1>3. ASSUME NEW id \in TaskIDs, NEW c \in Colors \cup {None}, Create(g, id, c) PROVE Entries'
  <2>1. /\ id \notin issued /\ pc'[g] = "idphoto" /\ req'[g].id = id /\ task'[g] = Copy(NewTask)
        /\ repo' \in Saves(id, NewTask) /\ published' = published
        /\ \A h \in Handlers \ {g} : pc'[h] = pc[h] /\ req'[h] = req[h] /\ task'[h] = task[h]
    BY <1>3 DEF Create, Inv, TypeOK, history
  <2>2. NewTask \in Tasks /\ NothingYet(NewTask) /\ NewTask.status = "processing"
    BY DEF NewTask, Tasks, NothingYet, Statuses
  <2>3. repo[id].status = "none" /\ NothingYet(repo[id])
    BY <2>1 DEF Inv, OwnershipInv, BaselineFirst, Entries, Blank
  <2>4. /\ NothingYet(repo'[id]) /\ (storage = "memory" => repo'[id].status = "processing")
        /\ \A x \in TaskIDs \ {id} : repo'[x] = repo[x]
    BY <1>2, <2>1, <2>2, <2>3, PutEntry DEF NothingYet, Fails, Saves
  <2>5. Blank'
    BY <2>4 DEF Entries, Blank
  <2>6. Fresh(g)' /\ WorksOnFound(g)'
    BY <2>1, <2>2, <2>4 DEF Fresh, WorksOnFound, Works, BackgroundPcs, LayoutPcs, Copy
  <2>7. ASSUME NEW h \in Handlers \ {g} PROVE Fresh(h)' /\ WorksOnFound(h)'
    <3>1. pc[h] # "idle" => req[h].id \in TaskIDs \ {id}
      BY <1>1, <2>1
    <3> QED
      BY <2>1, <2>4, <3>1, PcsAreBusy DEF Entries, Fresh, WorksOnFound, Works, Found
  <2>8. MemorySettles'
    <3>1. \A x \in published : repo'[x] = repo[x]
      BY <1>2, <2>1, <2>4
    <3>2. ASSUME NEW h \in Handlers, (At(h, "reply") /\ Creating(h))'
          PROVE  h # g /\ At(h, "reply") /\ Creating(h) /\ repo'[req'[h].id] = repo[req[h].id]
      <4>1. h # g
        BY <2>1, <3>2
      <4>2. pc[h] = "reply" /\ req'[h] = req[h] /\ req[h].id \in TaskIDs \ {id}
        BY <1>1, <2>1, <3>2, <4>1
      <4> QED
        BY <2>4, <3>2, <4>1, <4>2 DEF Creating
    <3> QED
      BY <2>1, <3>1, <3>2 DEF Entries, MemorySettles
  <2> QED
    BY <2>5, <2>6, <2>7, <2>8 DEF Entries
<1>4. ASSUME NEW id \in TaskIDs, NEW op \in Ops \ {"create"}, NEW c, Request(g, op, id, c) \/ RequestRefused(g, op, id, c)
      PROVE  Entries'
  <2>1. /\ repo' = repo /\ published' = published /\ req'[g].op = op /\ req'[g].id = id
        /\ \A h \in Handlers \ {g} : pc'[h] = pc[h] /\ req'[h] = req[h] /\ task'[h] = task[h]
    BY <1>4 DEF Request, RequestRefused, Answer, Inv, TypeOK, history
  <2>2. pc'[g] = "reply" \/ (Found(id) /\ pc'[g] \in {"get", "layout_get", "encode"})
    BY <1>4 DEF Request, RequestRefused, Answer, FirstPc, Inv, TypeOK
  <2>3. Blank'
    BY <2>1 DEF Entries, Blank
  <2>4. Fresh(g)' /\ WorksOnFound(g)'
    BY <2>1, <2>2 DEF Fresh, WorksOnFound, Works, BackgroundPcs, LayoutPcs, CreatePcs, Found
  <2>5. ASSUME NEW h \in Handlers \ {g} PROVE Fresh(h)' /\ WorksOnFound(h)'
    BY <2>1 DEF Entries, Fresh, WorksOnFound, Works, Found
  <2>6. MemorySettles'
    BY <2>1 DEF Entries, MemorySettles, Creating
  <2> QED
    BY <2>3, <2>4, <2>5, <2>6 DEF Entries
<1> QED
  BY <1>3, <1>4 DEF Start, Ops

LEMMA EntriesReply ==
  ASSUME UNCHANGED storage, Inv, Entries, NEW g \in Handlers, Reply(g)
  PROVE  Entries'
<1>1. /\ pc[g] = "reply" /\ pc'[g] = "idle" /\ repo' = repo
      /\ published' = IF req[g].op = "create" THEN published \cup {req[g].id} ELSE published
      /\ \A h \in Handlers \ {g} : pc'[h] = pc[h] /\ req'[h] = req[h] /\ task'[h] = task[h]
  BY DEF Reply, At, Goto, Inv, TypeOK
<1>2. Blank'
  BY <1>1 DEF Entries, Blank
<1>3. ASSUME NEW h \in Handlers PROVE Fresh(h)' /\ WorksOnFound(h)'
  BY <1>1, PcsAreBusy DEF Entries, Fresh, WorksOnFound, Works, Found
<1>4. MemorySettles'
  BY <1>1 DEF Entries, MemorySettles, Creating, At
<1> QED
  BY <1>2, <1>3, <1>4 DEF Entries

LEMMA EntriesNext ==
  ASSUME Inv, Entries, [Next]_vars
  PROVE  Entries'
<1>0. UNCHANGED storage
  BY DEF Next, vars
<1>1. CASE ConcurrentMapFatal \/ Crash
  <2>1. /\ \A h \in Handlers : pc'[h] = "idle"
        /\ repo' = IF storage = "memory" THEN [id \in TaskIDs |-> NoTask] ELSE repo
        /\ published' = published
    BY <1>1 DEF ConcurrentMapFatal, Crash, Restart
  <2>2. published \subseteq TaskIDs
    BY DEF Inv, TypeOK
  <2> QED
    BY <1>0, <2>1, <2>2, PcsAreBusy
    DEF Entries, Blank, Fresh, WorksOnFound, Works, MemorySettles, NothingYet, NoTask, At
<1>2. CASE UNCHANGED vars
  BY <1>2 DEF vars, history, Entries, Blank, Fresh, WorksOnFound, Works, MemorySettles, At, Creating, Found
<1> QED
  BY <1>0, <1>1, <1>2, EntriesServing, EntriesCreate, EntriesStart, EntriesReply DEF Next, Step, Serving

----------------------------------------------------------------------------
(* The table a client of the service sees, and how a step on one task of   *)
(* the repository changes it.                                              *)
Entry(t) == [status |-> t.status, images |-> t.processed, layout |-> t.layout]
Table    == [id \in TaskIDs |-> Entry(repo[id])]

LEMMA TableIsCatalog == Table = [id \in TaskIDs |-> [status |-> repo[id].status, images |-> repo[id].processed,
                                                     layout |-> repo[id].layout]]
  BY DEF Table, Entry

LEMMA TableChanges ==
  ASSUME NEW id \in TaskIDs, \A x \in TaskIDs \ {id} : repo'[x] = repo[x]
  PROVE  Table' = [Table EXCEPT ![id] = Entry(repo'[id])]
  BY DEF Table, Entry

LEMMA TableStutters ==
  ASSUME NEW id \in TaskIDs, \A x \in TaskIDs \ {id} : repo'[x] = repo[x], UNCHANGED <<storage, issued>>,
         Entry(repo'[id]) = Entry(repo[id])
  PROVE  UNCHANGED Catalog!cvars
<1>1. Table' = Table
  BY DEF Table
<1> QED
  BY <1>1 DEF Catalog!cvars, Table, Entry

(* What the EXCEPTs of the table's actions come to.                        *)
LEMMA EntryFields ==
  ASSUME NEW t, NEW st, NEW S, NEW l
  PROVE  /\ [Entry(t) EXCEPT !.status = st] = [status |-> st, images |-> t.processed, layout |-> t.layout]
         /\ [Entry(t) EXCEPT !.images = S] = [status |-> t.status, images |-> S, layout |-> t.layout]
         /\ [Entry(t) EXCEPT !.layout = l] = [status |-> t.status, images |-> t.processed, layout |-> l]
<1> DEFINE e == [status |-> t.status, images |-> t.processed, layout |-> t.layout]
<1>1. [e EXCEPT !.status = st] = [status |-> st, images |-> t.processed, layout |-> t.layout]
  OBVIOUS
<1>2. [e EXCEPT !.images = S] = [status |-> t.status, images |-> S, layout |-> t.layout]
  OBVIOUS
<1>3. [e EXCEPT !.layout = l] = [status |-> t.status, images |-> t.processed, layout |-> l]
  OBVIOUS
<1> QED
  BY <1>1, <1>2, <1>3 DEF Entry

LEMMA TableFields ==
  ASSUME NEW id \in TaskIDs, NEW st, NEW S, NEW l
  PROVE  /\ Table[id] = Entry(repo[id])
         /\ [Table EXCEPT ![id].status = st] = [Table EXCEPT ![id] = [Table[id] EXCEPT !.status = st]]
         /\ [Table EXCEPT ![id].images = S] = [Table EXCEPT ![id] = [Table[id] EXCEPT !.images = S]]
         /\ [Table EXCEPT ![id].layout = l] = [Table EXCEPT ![id] = [Table[id] EXCEPT !.layout = l]]
<1>1. Table[id] = Entry(repo[id])
  BY DEF Table
<1>2. /\ [Table EXCEPT ![id].status = st] = [Table EXCEPT ![id] = [Table[id] EXCEPT !.status = st]]
      /\ [Table EXCEPT ![id].images = S] = [Table EXCEPT ![id] = [Table[id] EXCEPT !.images = S]]
      /\ [Table EXCEPT ![id].layout = l] = [Table EXCEPT ![id] = [Table[id] EXCEPT !.layout = l]]
  BY DEF Table, Entry
<1> QED
  BY <1>1, <1>2

(* One entry becomes e.                                                    *)
TableGets(id, e) == issued' = issued /\ Table' = [Table EXCEPT ![id] = e]

LEMMA Overwrites ==
  ASSUME NEW id \in TaskIDs, NEW S \in SUBSET Colors, storage # "memory", repo[id].status # "none",
         repo[id].status = "done" => S \cap repo[id].processed # {},
         TableGets(id, [status |-> repo[id].status, images |-> S, layout |-> repo[id].layout])
  PROVE  Catalog!Overwrite(id, S)
<1>1. Table' = [Table EXCEPT ![id].images = S]
  BY EntryFields, TableFields DEF TableGets
<1> QED
  BY <1>1 DEF TableGets, Catalog!Overwrite, Catalog!Absent, Table, Entry

LEMMA AddsImage ==
  ASSUME NEW id \in TaskIDs, NEW c \in Colors, repo[id].status \in {"done", "failed"},
         TableGets(id, [status |-> repo[id].status, images |-> repo[id].processed \cup {c}, layout |-> repo[id].layout])
  PROVE  Catalog!AddImage(id, c)
<1>1. Table' = [Table EXCEPT ![id].images = repo[id].processed \cup {c}]
  BY EntryFields, TableFields DEF TableGets
<1> QED
  BY <1>1 DEF TableGets, Catalog!AddImage, Catalog!Settled, Table, Entry

LEMMA AddsLayout ==
  ASSUME NEW id \in TaskIDs, repo[id].status \in {"done", "failed"}, storage = "memory",
         TableGets(id, [status |-> repo[id].status, images |-> repo[id].processed, layout |-> TRUE])
  PROVE  Catalog!AddLayout(id)
<1>1. Table' = [Table EXCEPT ![id].layout = TRUE]
  BY EntryFields, TableFields DEF TableGets
<1> QED
  BY <1>1 DEF TableGets, Catalog!AddLayout, Catalog!Settled, Table, Entry

LEMMA EmptyStatus ==
  ASSUME NEW id \in TaskIDs, NothingYet(repo[id]), NEW st
  PROVE  [Table EXCEPT ![id].status = st] = [Table EXCEPT ![id] = [status |-> st, images |-> {}, layout |-> FALSE]]
<1>1. [Entry(repo[id]) EXCEPT !.status = st] = [status |-> st, images |-> repo[id].processed, layout |-> repo[id].layout]
  BY EntryFields
<1>2. [Table[id] EXCEPT !.status = st] = [status |-> st, images |-> {}, layout |-> FALSE]
  BY <1>1, TableFields DEF NothingYet
<1> QED
  BY <1>2, TableFields

(* A task that its creator still has.                                      *)
Unsaved(id) == \/ repo[id].status = "processing"
               \/ storage # "memory" /\ id \in issued /\ repo[id].status = "none"

LEMMA Completes ==
  ASSUME NEW id \in TaskIDs, NEW c \in Colors, Unsaved(id), NothingYet(repo[id]),
         TableGets(id, [status |-> "done", images |-> {c}, layout |-> FALSE])
  PROVE  Catalog!Complete(id, c)
  BY DEF TableGets, Unsaved, NothingYet, Catalog!Complete, Catalog!Unsettled, Catalog!Absent, Table, Entry

LEMMA Rejects ==
  ASSUME NEW id \in TaskIDs, Unsaved(id), NothingYet(repo[id]),
         TableGets(id, [status |-> "failed", images |-> {}, layout |-> FALSE])
  PROVE  Catalog!Reject(id)
<1>1. Table' = [Table EXCEPT ![id].status = "failed"]
  BY EmptyStatus DEF TableGets
<1> QED
  BY <1>1 DEF TableGets, Unsaved, NothingYet, Catalog!Reject, Catalog!Unsettled, Catalog!Absent, Table, Entry

LEMMA Submits ==
  ASSUME NEW id \in TaskIDs, NothingYet(repo[id]), id \notin issued, issued' = issued \cup {id},
         \/ Table' = [Table EXCEPT ![id] = [status |-> "processing", images |-> {}, layout |-> FALSE]]
         \/ storage # "memory" /\ Table' = Table
  PROVE  Catalog!Submit(id)
<1>1. [Table EXCEPT ![id].status = "processing"]
        = [Table EXCEPT ![id] = [status |-> "processing", images |-> {}, layout |-> FALSE]]
  BY EmptyStatus
<1> QED
  BY <1>1 DEF Catalog!Submit, Table, Entry

LEMMA Gets ==
  ASSUME NEW id \in TaskIDs, \A x \in TaskIDs \ {id} : repo'[x] = repo[x], issued' = issued
  PROVE  TableGets(id, Entry(repo'[id]))
  BY TableChanges DEF TableGets

----------------------------------------------------------------------------
CatalogStep == Catalog!CatalogNext \/ UNCHANGED Catalog!cvars

LEMMA CatalogSteps ==
  ASSUME UNCHANGED storage, NEW id \in TaskIDs, NEW c \in Colors,
         \/ Catalog!Submit(id) \/ Catalog!Complete(id, c) \/ Catalog!Reject(id)
         \/ Catalog!AddImage(id, c) \/ Catalog!AddLayout(id)
  PROVE  CatalogStep
  BY DEF CatalogStep, Catalog!CatalogNext

(* A stale row is put back: the status is the same, and a done task keeps  *)
(* an image both rows have.                                                *)
LEMMA PutOverwrites ==
  ASSUME Inv, UNCHANGED <<storage, issued>>, storage = "postgres", NEW id \in TaskIDs, NEW t \in Tasks,
         repo' \in Saves(id, t), t.status = repo[id].status, repo[id].status # "none",
         repo[id].status = "done" => repo[id].processed \cap t.processed # {}
  PROVE  CatalogStep
<1>1. repo \in [TaskIDs -> Tasks] /\ repo[id].layout = FALSE
  BY DEF Inv, TypeOK, Rows
<1>2. \A x \in TaskIDs \ {id} : repo'[x] = repo[x]
  BY <1>1 DEF Saves
<1>3. CASE repo' = repo
  BY <1>3 DEF CatalogStep, Catalog!cvars
<1>4. CASE repo'[id].status = t.status /\ repo'[id].processed = t.processed /\ repo'[id].layout = FALSE
  <2>1. Entry(repo'[id]) = [status |-> repo[id].status, images |-> t.processed, layout |-> repo[id].layout]
    BY <1>1, <1>4 DEF Entry
  <2>2. t.processed \in SUBSET Colors
    BY DEF Tasks
  <2>3. TableGets(id, [status |-> repo[id].status, images |-> t.processed, layout |-> repo[id].layout])
    BY <1>2, <2>1, Gets
  <2>4. Catalog!Overwrite(id, t.processed)
    BY <2>2, <2>3, Overwrites
  <2> QED
    BY <2>2, <2>4 DEF CatalogStep, Catalog!CatalogNext
<1> QED
  BY <1>1, <1>3, <1>4, PutEntry

(* The shared object of a settled task gets a URL. *)
LEMMA SharedGrows ==
  ASSUME UNCHANGED <<storage, issued>>, storage = "memory", repo \in [TaskIDs -> Tasks],
         NEW id \in TaskIDs, NEW c \in Colors, repo[id].status \in {"done", "failed"},
         \/ repo' = [repo EXCEPT ![id] = WithColor(repo[id], c)]
         \/ repo' = [repo EXCEPT ![id] = WithLayout(repo[id])]
  PROVE  CatalogStep
<1>1. \A x \in TaskIDs \ {id} : repo'[x] = repo[x]
  OBVIOUS
<1>2. CASE repo' = [repo EXCEPT ![id] = WithColor(repo[id], c)]
  <2>1. Entry(repo'[id]) = [status |-> repo[id].status, images |-> repo[id].processed \cup {c}, layout |-> repo[id].layout]
    BY <1>2 DEF Entry, WithColor, Tasks
  <2>2. TableGets(id, [status |-> repo[id].status, images |-> repo[id].processed \cup {c}, layout |-> repo[id].layout])
    BY <1>1, <2>1, Gets
  <2>3. Catalog!AddImage(id, c)
    BY <2>2, AddsImage
  <2> QED
    BY <2>3, CatalogSteps
<1>3. CASE repo' = [repo EXCEPT ![id] = WithLayout(repo[id])]
  <2>1. Entry(repo'[id]) = [status |-> repo[id].status, images |-> repo[id].processed, layout |-> TRUE]
    BY <1>3 DEF Entry, WithLayout, Tasks
  <2>2. TableGets(id, [status |-> repo[id].status, images |-> repo[id].processed, layout |-> TRUE])
    BY <1>1, <2>1, Gets
  <2>3. Catalog!AddLayout(id)
    BY <2>2, AddsLayout
  <2> QED
    BY <2>3, CatalogSteps
<1> QED
  BY <1>2, <1>3

(* Serving a task. *)
LEMMA ServingRefines ==
  ASSUME UNCHANGED storage, Inv, Images, Entries, NEW g \in Handlers, Serving(g)
  PROVE  CatalogStep
<1> DEFINE i == req[g].id
           k == req[g].color
<1>1. Serves(g) /\ issued' = issued /\ i \in TaskIDs /\ repo[i] \in Tasks /\ task[g] \in Tasks /\ btask[g] \in Tasks
      /\ repo \in [TaskIDs -> Tasks] /\ (Works(g) => k \in Colors)
  BY ServingServes, Busy DEF Serves, Inv, TypeOK, Works
<1>2. \A x \in TaskIDs \ {i} : repo'[x] = repo[x]
  BY ServingPlaces
<1>3. Works(g) => repo[i].status # "none"
  BY DEF Entries, WorksOnFound, Found
<1>4. repo[i].status = "done" => \E c \in Colors : c \in repo[i].processed /\ Spares(g, c)
  BY <1>1 DEF Serves, Images, ImageLasts, Lasts
<1>5. storage = "memory" /\ Works(g) => repo[i].status \in {"done", "failed"}
  BY <1>1, <1>3 DEF Serves, Inv, OwnershipInv, Owned, Entries, MemorySettles, Tasks, Statuses
<1>6. CASE PutBackground(g)
  <2> DEFINE t == WithColor(btask[g], k)
  <2>1. pc[g] = "record" /\ storage = "postgres" /\ repo' \in Saves(i, t)
    BY <1>6 DEF PutBackground, At
  <2>2. Works(g)
    BY <2>1 DEF Works, BackgroundPcs
  <2>3. t \in Tasks /\ t.processed = btask[g].processed \cup {k} /\ t.status = btask[g].status
    BY <1>1, <2>2, TaskOperators DEF WithColor, Tasks
  <2>4. t.status = repo[i].status
    BY <2>1, <2>3 DEF Inv, OwnershipInv, CopiesKeepStatus
  <2>5. repo[i].status = "done" => repo[i].processed \cap t.processed # {}
    BY <1>4, <2>1, <2>3 DEF Spares
  <2> QED
    BY <1>1, <1>3, <2>1, <2>2, <2>3, <2>4, <2>5, PutOverwrites
<1>7. CASE PutLayout(g)
  <2> DEFINE t == WithLayout(task[g])
  <2>1. pc[g] = "layout_record" /\ storage = "postgres" /\ repo' \in Saves(i, t) /\ req[g].op = "layout"
    BY <1>7 DEF PutLayout, At, LayoutPcs, Inv, TypeOK, Placed
  <2>2. Works(g)
    BY <2>1 DEF Works, LayoutPcs
  <2>3. t \in Tasks /\ t.processed = task[g].processed /\ t.status = task[g].status
    BY <1>1, <2>2, TaskOperators DEF WithLayout, Tasks
  <2>4. t.status = repo[i].status
    BY <2>1, <2>3 DEF Inv, OwnershipInv, CopiesKeepStatus, LayoutPcs
  <2>5. repo[i].status = "done" => repo[i].processed \cap t.processed # {}
    BY <1>4, <2>1, <2>3 DEF Spares, LayoutPcs
  <2> QED
    BY <1>1, <1>3, <2>1, <2>2, <2>3, <2>4, <2>5, PutOverwrites
<1>8. CASE EndRecord(g)
  <2>1. pc[g] = "recording" /\ storage = "memory"
    BY <1>8 DEF EndRecord, At, Inv, TypeOK, Placed
  <2>2. Works(g)
    BY <2>1 DEF Works, BackgroundPcs
  <2>3. CASE repo' = [repo EXCEPT ![i] = WithColor(repo[i], k)]
    BY <1>1, <1>5, <2>1, <2>2, <2>3, SharedGrows
  <2>4. CASE repo' = repo
    BY <1>1, <2>4 DEF CatalogStep, Catalog!cvars
  <2> QED
    BY <1>8, <2>3, <2>4 DEF EndRecord
<1>9. CASE EndLayoutRecord(g)
  <2>1. pc[g] = "layout_recording" /\ storage = "memory" /\ repo' = [repo EXCEPT ![i] = WithLayout(repo[i])]
    BY <1>9 DEF EndLayoutRecord, At, Inv, TypeOK, Placed
  <2>2. Works(g)
    BY <2>1 DEF Works, LayoutPcs
  <2> QED
    BY <1>1, <1>5, <2>1, <2>2, SharedGrows
<1>10. CASE repo' = repo
  BY <1>1, <1>10 DEF CatalogStep, Catalog!cvars
<1>11. \/ PutBackground(g) \/ PutLayout(g) \/ EndRecord(g) \/ EndLayoutRecord(g) \/ repo' = repo
  BY DEF Serving, BackgroundStep, LayoutStep, GetHit, GetMiss, RenderColor, OpenColor, FlushColor, BeginRecord,
     LayoutHit, LayoutMiss, ComposeLayout, ComposeRefused, OpenLayout, FlushLayout, BeginLayoutRecord,
     GetRefused, FailRequest, Encode
<1> QED
  BY <1>6, <1>7, <1>8, <1>9, <1>10, <1>11

----------------------------------------------------------------------------
(* The last Put of CreateTask settles the task, or is lost.                *)
LEMMA SavingRefines ==
  ASSUME UNCHANGED <<storage, issued>>, repo \in [TaskIDs -> Tasks], NEW id \in TaskIDs, NEW c \in Colors, NEW t \in Tasks,
         Unsaved(id), NothingYet(repo[id]), \A x \in TaskIDs \ {id} : repo'[x] = repo[x], repo' \in Saves(id, t),
         \/ t.status = "failed" /\ NothingYet(t)
         \/ t.status = "done" /\ t.processed = {c} /\ t.layout = FALSE
  PROVE  CatalogStep
<1>1. CASE repo' = repo
  BY <1>1 DEF CatalogStep, Catalog!cvars
<1>2. CASE repo'[id].status = t.status /\ repo'[id].processed = t.processed /\ repo'[id].layout = FALSE
  <2>1. CASE t.status = "failed" /\ NothingYet(t)
    <3>1. Entry(repo'[id]) = [status |-> "failed", images |-> {}, layout |-> FALSE]
      BY <1>2, <2>1 DEF Entry, NothingYet
    <3>2. TableGets(id, [status |-> "failed", images |-> {}, layout |-> FALSE])
      BY <3>1, Gets
    <3> QED
      BY <3>2, Rejects, CatalogSteps
  <2>2. CASE t.status = "done" /\ t.processed = {c} /\ t.layout = FALSE
    <3>1. Entry(repo'[id]) = [status |-> "done", images |-> {c}, layout |-> FALSE]
      BY <1>2, <2>2 DEF Entry
    <3>2. TableGets(id, [status |-> "done", images |-> {c}, layout |-> FALSE])
      BY <3>1, Gets
    <3> QED
      BY <3>2, Completes, CatalogSteps
  <2> QED
    BY <2>1, <2>2
<1> QED
  BY <1>1, <1>2, PutEntry DEF NothingYet

LEMMA CreateRefines ==
  ASSUME UNCHANGED storage, Inv, Entries, NEW g \in Handlers, CreateStep(g)
  PROVE  CatalogStep
<1> DEFINE i == req[g].id
           k == req[g].color
<1>1. Builds(g) /\ i \in TaskIDs /\ k \in Colors /\ repo \in [TaskIDs -> Tasks] /\ issued' = issued
  BY CreateStepKeeps, Busy, PcsAreBusy DEF Builds, Inv, TypeOK
<1>2. NothingYet(repo[i]) /\ Unsaved(i)
  BY <1>1 DEF Builds, Entries, Fresh, Unsaved, Inv, OwnershipInv, BaselineFirst, TypeOK, Placed, Creating
<1>3. \A x \in TaskIDs \ {i} : repo'[x] = repo[x]
  BY Building
<1>4. CASE pc'[g] \in CreatePcs
  <2>1. pc'[g] # "reply"
    BY <1>4 DEF CreatePcs
  <2>2. repo'[i].status = repo[i].status /\ NothingYet(repo'[i])
    BY <2>1, Building
  <2>3. Entry(repo'[i]) = Entry(repo[i])
    BY <1>2, <2>2 DEF Entry, NothingYet
  <2> QED
    BY <1>1, <1>3, <2>3, TableStutters DEF CatalogStep
<1>5. CASE pc'[g] \notin CreatePcs
  <2>1. PICK t \in Tasks : /\ repo' \in Saves(i, t)
                           /\ \/ t.status = "failed" /\ NothingYet(t)
                              \/ t.status = "done" /\ t.processed = {k} /\ t.layout = FALSE
    BY <1>5, Building
  <2> QED
    BY <1>1, <1>2, <1>3, <2>1, SavingRefines
<1> QED
  BY <1>4, <1>5

(* A new task, or a new request on an old one. *)
LEMMA StartRefines ==
  ASSUME UNCHANGED storage, Inv, Entries, NEW g \in Handlers, Start(g)
  PROVE  CatalogStep
<1>1. repo \in [TaskIDs -> Tasks] /\ storage \in {"memory", "postgres"}
  BY ServiceAssumption DEF Inv, TypeOK
<1>2. ASSUME NEW id \in TaskIDs, NEW c \in Colors \cup {None}, Create(g, id, c) PROVE CatalogStep
  <2>1. id \notin issued /\ issued' = issued \cup {id} /\ repo' \in Saves(id, NewTask)
    BY <1>2 DEF Create
  <2>2. NothingYet(repo[id])
    BY <2>1 DEF Inv, OwnershipInv, BaselineFirst, Entries, Blank
  <2>3. NewTask \in Tasks /\ NewTask.status = "processing" /\ NewTask.processed = {} /\ NewTask.layout = FALSE
    BY DEF NewTask, Tasks, Statuses
  <2>4. CASE repo' = repo /\ Fails
    BY <2>1, <2>2, <2>4, Submits, PhotoAssumption, CatalogSteps DEF Table, Fails
  <2>5. CASE repo'[id].status = "processing" /\ repo'[id].processed = {} /\ repo'[id].layout = FALSE
    <3>1. Entry(repo'[id]) = [status |-> "processing", images |-> {}, layout |-> FALSE]
      BY <2>5 DEF Entry
    <3>2. \A x \in TaskIDs \ {id} : repo'[x] = repo[x]
      BY <1>1, <2>1 DEF Saves
    <3>3. Catalog!Submit(id)
      BY <2>1, <2>2, <3>1, <3>2, TableChanges, Submits
    <3> QED
      BY <3>3, PhotoAssumption, CatalogSteps
  <2> QED
    BY <1>1, <2>1, <2>3, <2>4, <2>5, PutEntry
<1>3. ASSUME NEW id \in TaskIDs, NEW op \in Ops \ {"create"}, NEW c, Request(g, op, id, c) \/ RequestRefused(g, op, id, c)
      PROVE  CatalogStep
  BY <1>3 DEF Request, RequestRefused, history, CatalogStep, Catalog!cvars
<1> QED
  BY <1>2, <1>3 DEF Start, Ops

LEMMA NextRefines ==
  ASSUME Inv, Images, Entries, [Next]_vars
  PROVE  CatalogStep
<1>0. UNCHANGED storage
  BY DEF Next, vars
<1>1. CASE ConcurrentMapFatal \/ Crash
  <2>1. /\ repo' = IF storage = "memory" THEN [id \in TaskIDs |-> NoTask] ELSE repo
        /\ issued' = issued
    BY <1>1 DEF ConcurrentMapFatal, Crash, Restart
  <2>2. CASE storage = "memory"
    <3>1. \A id \in TaskIDs : Entry(repo'[id]) = [status |-> "none", images |-> {}, layout |-> FALSE]
      BY <2>1, <2>2 DEF Entry, NoTask
    <3>2. Catalog!Forget
      BY <2>1, <2>2, <3>1 DEF Catalog!Forget, Catalog!Absent, Entry
    <3> QED
      BY <1>0, <3>2 DEF CatalogStep, Catalog!CatalogNext
  <2>3. CASE storage # "memory"
    BY <1>0, <2>1, <2>3 DEF CatalogStep, Catalog!cvars
  <2> QED
    BY <2>2, <2>3
<1>2. CASE UNCHANGED vars
  BY <1>2 DEF vars, history, CatalogStep, Catalog!cvars
<1>3. ASSUME NEW g \in Handlers, Reply(g) PROVE CatalogStep
  BY <1>0, <1>3 DEF Reply, CatalogStep, Catalog!cvars
<1> QED
  BY <1>0, <1>1, <1>2, <1>3, ServingRefines, CreateRefines, StartRefines DEF Next, Step, Serving

(* The task service implements the table of TaskCatalog, for any number of *)
(* handlers, tasks and colours, in both storages, with failing queries,    *)
(* crashes and the fatal map race.                                         *)
THEOREM CatalogImplemented == Spec => ImplementsCatalog
<1>1. Init => Inv /\ Images /\ Entries
  <2> SUFFICES ASSUME Init PROVE Inv /\ Images /\ Entries
    OBVIOUS
  <2>1. Images
    BY DEF Init, Images, ImageLasts, FirstImage, NoTask
  <2>2. Entries
    BY PcsAreBusy DEF Init, Entries, Blank, Fresh, WorksOnFound, Works, MemorySettles, NothingYet, NoTask, At
  <2> QED
    BY <2>1, <2>2, InvInit
<1>2. Init => Catalog!CatalogInit
  BY ServiceAssumption DEF Init, NoTask, Catalog!CatalogInit, Catalog!Absent
<1>3. Inv /\ Images /\ Entries /\ [Next]_vars => Inv' /\ Images' /\ Entries'
  BY InvNext, ImagesNext, EntriesNext
<1>4. Inv /\ Images /\ Entries /\ [Next]_vars => [Catalog!CatalogNext]_(Catalog!cvars)
  BY NextRefines DEF CatalogStep
<1> QED
  BY <1>1, <1>2, <1>3, <1>4, PTL DEF Spec, ImplementsCatalog, Catalog!CatalogSpec

=============================================================================
