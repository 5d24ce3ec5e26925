------------------------ MODULE TaskService_proofs -------------------------
(* Theorems about TaskService, for every value of its constants. *)
EXTENDS TaskService, TLAPS

----------------------------------------------------------------------------
(* What the helpers keep.  They are stated once, so that the steps below   *)
(* need not look into the records and the sets of names.                   *)

(* A task object stays a task object; a row keeps no layout and baseline.  *)
LEMMA TaskOperators ==
  ASSUME NEW t \in Tasks, NEW c \in Colors
  PROVE  /\ NoTask \in Tasks /\ NewTask \in Tasks
         /\ Failed(t) \in Tasks /\ Done(t) \in Tasks
         /\ WithBaseline(t) \in Tasks /\ WithColor(t, c) \in Tasks /\ WithLayout(t) \in Tasks
         /\ Stored(t) \in Tasks /\ Copy(t) \in Tasks
         /\ storage = "postgres" => Stored(t).layout = FALSE /\ Stored(t).baseline = FALSE
  BY ServiceAssumption DEF Tasks, NoTask, NewTask, Failed, Done, WithBaseline, WithColor, WithLayout, Stored,
     Copy, Row, Statuses

(* Rendering and composing give the content of a file.                     *)
LEMMA ImageOperators ==
  ASSUME NEW x \in Contents, NEW c \in Colors
  PROVE  /\ colorHexOf(c) \in Hexes
         /\ Render(x, colorHexOf(c)) \in Contents
         /\ Compose(x) \in Contents
         /\ {"none", "damaged", "rgba"} \subseteq Contents
  BY DEF colorHexOf, Hexes, Contents, Render, Compose

(* Every file an action opens, writes or reads is in some task's directory, *)
(* and only that of the baseline has its name.                             *)
Paths == [dir : TaskIDs, name : FileNames]

LEMMA FilePaths ==
  ASSUME NEW id \in TaskIDs
  PROVE  /\ BaselineFile(id) \in Paths /\ BaselineFile(id).dir = id /\ BaselineFile(id).name = Baseline
         /\ LayoutFile(id) \in Paths /\ LayoutFile(id).dir = id /\ LayoutFile(id).name # Baseline
         /\ \A c \in Colors : /\ ColorFile(id, c) \in Paths /\ ColorFile(id, c).name # Baseline
                               /\ LayoutSource(id, c) \in Paths
                               /\ Served(id, c) = ColorFile(id, c)
<1>1. BaselineFile(id) \in Paths /\ LayoutFile(id) \in Paths
  BY DEF BaselineFile, LayoutFile, Paths, FileNames
<1>2. ASSUME NEW c \in Colors
      PROVE  Joined[id][c] \in Paths /\ Joined[id][c].name # Baseline
  <2>1. Joined[id][c] \in [dir : TaskIDs, name : Colors \cup {Layout}]
    BY ServiceAssumption
  <2> QED
    BY <2>1, PhotoAssumption DEF Paths, FileNames
<1>3. \A c \in Colors : Lower[c] \in Colors
  BY PhotoAssumption
<1> QED
  BY <1>1, <1>2, <1>3, PhotoAssumption DEF BaselineFile, LayoutFile, ColorFile, LayoutSource, Served

(* The places, spelled out once for the provers.                           *)
LEMMA PcNames ==
  /\ {"idle", "encode", "reply"} \subseteq Pcs
  /\ {"idphoto", "flush_baseline", "add_background", "flush_default", "finish"} \subseteq Pcs
  /\ {"get", "render", "open_color", "flush_color", "record", "recording"} \subseteq Pcs
  /\ {"layout_get", "compose", "open_layout", "flush_layout", "layout_record", "layout_recording"} \subseteq Pcs
  BY DEF Pcs, CreatePcs, BackgroundPcs, LayoutPcs

(* The places a handler can fail at are not idle. *)
LEMMA PcsAreBusy == "idle" \notin CreatePcs \cup BackgroundPcs \cup LayoutPcs
  BY DEF CreatePcs, BackgroundPcs, LayoutPcs

(* Opening and writing a file keeps the assets directory well formed.      *)
LEMMA Writes ==
  ASSUME files \in [TaskIDs -> [FileNames -> Contents]],
         NEW f \in Paths, NEW x \in Contents
  PROVE  /\ Content(f) \in Contents
         /\ Truncated(f) \in [TaskIDs -> [FileNames -> Contents]]
         /\ Flushed(f, x) \in [TaskIDs -> [FileNames -> Contents]]
  BY DEF Truncated, Flushed, Contents, Content, Paths

(* The repository keeps holding tasks, and rows in PostgreSQL. *)
LEMMA Puts ==
  ASSUME UNCHANGED storage, repo \in [TaskIDs -> Tasks], Rows, NEW id \in TaskIDs, NEW t \in Tasks, repo' \in Saves(id, t)
  PROVE  repo' \in [TaskIDs -> Tasks] /\ Rows'
<1>1. PICK c \in Colors : TRUE
  BY PhotoAssumption
<1>2. Stored(t) \in Tasks /\ (storage = "postgres" => Stored(t).layout = FALSE /\ Stored(t).baseline = FALSE)
  BY <1>1, TaskOperators
<1>3. CASE repo' = [repo EXCEPT ![id] = Stored(t)]
  BY <1>2, <1>3 DEF Rows
<1>4. CASE repo' = repo
  BY <1>4 DEF Rows
<1> QED
  BY <1>3, <1>4 DEF Saves

(* The object a handler works on is a task, shared or private.             *)
LEMMA Objects ==
  ASSUME repo \in [TaskIDs -> Tasks], NEW id \in TaskIDs, NEW t \in Tasks
  PROVE  Object(id, t) \in Tasks
  BY DEF Object

(* Answering moves one handler to reply.                                   *)
LEMMA Answering ==
  ASSUME pc \in [Handlers -> Pcs], answer \in [Handlers -> Answers], NEW g \in Handlers,
         NEW code \in {0, 200, 400, 404, 500}, NEW url \in FileNames \cup {None}, Answer(g, code, url)
  PROVE  /\ pc' \in [Handlers -> Pcs] /\ answer' \in [Handlers -> Answers]
         /\ \A h \in Handlers \ {g} : pc'[h] = pc[h]
<1>1. [code |-> code, url |-> url] \in Answers
  BY DEF Answers
<1> QED
  BY <1>1, PcNames DEF Answer, Goto

(* GenerateBackground returns to its HTTP handler or to GenerateLayout.    *)
LEMMA Returning ==
  ASSUME pc \in [Handlers -> Pcs], answer \in [Handlers -> Answers], NEW g \in Handlers,
         req[g].color \in Colors, BackgroundReturns(g)
  PROVE  /\ pc' \in [Handlers -> Pcs] /\ answer' \in [Handlers -> Answers]
         /\ \A h \in Handlers \ {g} : pc'[h] = pc[h]
<1>1. CASE Goto(g, "compose") /\ UNCHANGED answer
  BY <1>1, PcNames DEF Goto
<1>2. CASE Answer(g, 200, req[g].color)
  <2>1. req[g].color \in FileNames
    BY DEF FileNames
  <2> QED
    BY <1>2, <2>1, Answering
<1> QED
  BY <1>1, <1>2 DEF BackgroundReturns

(* The sheet has a name of its own.                                        *)
LEMMA LayoutName == Layout \in FileNames
  BY DEF FileNames

(* A move of one busy handler to a place of its operation. *)
LEMMA Moves ==
  ASSUME UNCHANGED storage, TypeOK, NEW g \in Handlers, pc[g] # "idle", UNCHANGED <<req, issued>>,
         pc' \in [Handlers -> Pcs], \A h \in Handlers \ {g} : pc'[h] = pc[h],
         \/ pc'[g] = "reply"
         \/ pc'[g] \in CreatePcs /\ req[g].op = "create"
         \/ pc'[g] \in BackgroundPcs /\ req[g].op \in {"background", "layout"}
         \/ pc'[g] \in LayoutPcs /\ req[g].op = "layout",
         pc'[g] \in {"recording", "layout_recording"} => storage = "memory"
  PROVE  Placed'
  BY DEF TypeOK, Placed, CreatePcs, BackgroundPcs, LayoutPcs

(* A step that only answers. *)
LEMMA AnswerOnly ==
  ASSUME UNCHANGED storage, TypeOK, NEW g \in Handlers, pc[g] # "idle", NEW code \in {0, 200, 400, 404, 500},
         NEW url \in FileNames \cup {None}, Answer(g, code, url),
         UNCHANGED <<repo, files, history, req, task, btask, data>>
  PROVE  TypeOK'
<1>1. /\ pc' \in [Handlers -> Pcs] /\ answer' \in [Handlers -> Answers]
      /\ \A h \in Handlers \ {g} : pc'[h] = pc[h]
  BY Answering DEF TypeOK
<1>2. pc'[g] = "reply"
  BY DEF TypeOK, Answer, Goto
<1>3. Placed'
  BY <1>1, <1>2, Moves DEF history
<1> QED
  BY <1>1, <1>3 DEF TypeOK, Rows, history

(* A handler's task is one of the tasks, and its names are in use. *)
LEMMA Busy ==
  ASSUME TypeOK, NEW g \in Handlers, pc[g] # "idle"
  PROVE  /\ req[g].id \in TaskIDs /\ repo[req[g].id] \in Tasks
         /\ \A f \in FileNames : files[req[g].id][f] \in Contents
         /\ pc[g] \in CreatePcs \cup BackgroundPcs \cup LayoutPcs => req[g].color \in Colors
  BY DEF TypeOK, Placed

(* CreateTask saves and answers.                                           *)
LEMMA Saving ==
  ASSUME UNCHANGED storage, TypeOK, NEW g \in Handlers, pc[g] # "idle", NEW t \in Tasks, SaveAndAnswer(g, t)
  PROVE  TypeOK'
<1>1. req[g].id \in TaskIDs
  BY Busy
<1>2. repo' \in [TaskIDs -> Tasks] /\ Rows'
  BY <1>1, Puts DEF TypeOK, SaveAndAnswer
<1>3. /\ pc' \in [Handlers -> Pcs] /\ answer' \in [Handlers -> Answers]
      /\ \A h \in Handlers \ {g} : pc'[h] = pc[h]
  BY Answering DEF TypeOK, SaveAndAnswer
<1>4. pc'[g] = "reply"
  BY DEF TypeOK, SaveAndAnswer, Answer, Goto
<1>5. Placed'
  BY <1>3, <1>4, Moves DEF SaveAndAnswer, history
<1>6. Copy(t) \in Tasks
  BY PhotoAssumption, TaskOperators
<1> QED
  BY <1>2, <1>3, <1>5, <1>6 DEF TypeOK, SaveAndAnswer, history

----------------------------------------------------------------------------
(* Every step of a handler keeps the types.                                *)
LEMMA TypeStep ==
  ASSUME UNCHANGED storage, TypeOK, NEW g \in Handlers, Step(g)
  PROVE  TypeOK'
<1> USE PhotoAssumption, ServiceAssumption
<1> USE DEF TypeOK, At, Goto, history
<1>1. CASE IDPhoto(g)
  <2>1. req[g].id \in TaskIDs /\ req[g].color \in Colors
    BY <1>1, Busy DEF IDPhoto, CreatePcs
  <2>2. files' \in [TaskIDs -> [FileNames -> Contents]]
    BY <1>1, <2>1, FilePaths, Writes, ImageOperators DEF IDPhoto
  <2>3. data' \in [Handlers -> Contents]
    BY <1>1, <2>1, ImageOperators DEF IDPhoto, Hold
  <2> QED
    BY <1>1, <2>2, <2>3, PcNames DEF IDPhoto, Placed, Rows, CreatePcs, BackgroundPcs, LayoutPcs
<1>2. CASE FlushBaseline(g)
  <2> DEFINE id == req[g].id  t == WithBaseline(Object(id, task[g]))
  <2>1. id \in TaskIDs /\ req[g].color \in Colors
    BY <1>2, Busy DEF FlushBaseline, CreatePcs
  <2>2. t \in Tasks /\ Copy(t) \in Tasks
    BY <2>1, Objects, TaskOperators
  <2>3. files' \in [TaskIDs -> [FileNames -> Contents]]
    BY <1>2, <2>1, FilePaths, Writes DEF FlushBaseline
  <2>4. repo' \in [TaskIDs -> Tasks] /\ Rows'
    <3>1. CASE storage = "memory"
      BY <1>2, <2>1, <2>2, <3>1 DEF FlushBaseline, Rows
    <3>2. CASE storage # "memory"
      BY <1>2, <3>2 DEF FlushBaseline, Rows
    <3> QED
      BY <3>1, <3>2
  <2>5. Placed'
    BY <1>2, PcNames, Moves DEF FlushBaseline, CreatePcs, Placed
  <2> QED
    BY <1>2, <2>2, <2>3, <2>4, <2>5, PcNames DEF FlushBaseline
<1>3. CASE AddBackground(g)
  <2>1. req[g].id \in TaskIDs /\ req[g].color \in Colors
    BY <1>3, Busy DEF AddBackground, CreatePcs
  <2>2. files' \in [TaskIDs -> [FileNames -> Contents]]
    BY <1>3, <2>1, FilePaths, Writes, ImageOperators DEF AddBackground
  <2>3. data' \in [Handlers -> Contents]
    BY <1>3, <2>1, ImageOperators DEF AddBackground, Hold
  <2> QED
    BY <1>3, <2>2, <2>3, PcNames DEF AddBackground, Placed, Rows, CreatePcs, BackgroundPcs, LayoutPcs
<1>4. CASE FlushDefault(g)
  <2>1. req[g].id \in TaskIDs /\ req[g].color \in Colors
    BY <1>4, Busy DEF FlushDefault, CreatePcs
  <2>2. files' \in [TaskIDs -> [FileNames -> Contents]]
    BY <1>4, <2>1, FilePaths, Writes, ImageOperators DEF FlushDefault
  <2> QED
    BY <1>4, <2>2, PcNames DEF FlushDefault, Placed, Rows, CreatePcs, BackgroundPcs, LayoutPcs
<1>5. CASE Finish(g)
  <2>1. req[g].id \in TaskIDs /\ req[g].color \in Colors
    BY <1>5, Busy DEF Finish, CreatePcs
  <2>2. Done(WithColor(Object(req[g].id, task[g]), req[g].color)) \in Tasks
    BY <2>1, Objects, TaskOperators
  <2> QED
    BY <1>5, <2>2, Saving DEF Finish
<1>6. CASE FailTask(g)
  <2>1. pc[g] # "idle" /\ req[g].id \in TaskIDs /\ req[g].color \in Colors
    BY <1>6, Busy, PcsAreBusy DEF FailTask
  <2>2. Failed(Object(req[g].id, task[g])) \in Tasks
    BY <2>1, Objects, TaskOperators
  <2> QED
    BY <1>6, <2>1, <2>2, Saving DEF FailTask
<1>7. CASE GetHit(g)
  <2>1. req[g].color \in Colors
    BY <1>7, Busy DEF GetHit, BackgroundPcs
  <2>2. /\ pc' \in [Handlers -> Pcs] /\ answer' \in [Handlers -> Answers]
        /\ \A h \in Handlers \ {g} : pc'[h] = pc[h]
    BY <1>7, <2>1, Returning DEF GetHit
  <2>3. Placed'
    BY <1>7, <2>2, Moves DEF GetHit, BackgroundReturns, Answer, LayoutPcs
  <2> QED
    BY <1>7, <2>2, <2>3 DEF GetHit, Rows
<1>8. CASE GetMiss(g)
  BY <1>8, PcNames, TaskOperators
  DEF GetMiss, Placed, Rows, CreatePcs, BackgroundPcs, LayoutPcs
<1>9. CASE RenderColor(g)
  <2>1. Content(BaselineFile(req[g].id)) \in Contents /\ req[g].color \in Colors
    BY <1>9, Busy, FilePaths, Writes DEF RenderColor, BackgroundPcs
  <2>2. data' \in [Handlers -> Contents]
    BY <1>9, <2>1, ImageOperators DEF RenderColor, Hold
  <2>3. Placed'
    BY <1>9, PcNames, Moves DEF RenderColor, BackgroundPcs, Placed
  <2> QED
    BY <1>9, <2>2, <2>3, PcNames DEF RenderColor, Rows
<1>10. CASE OpenColor(g)
  <2>1. req[g].id \in TaskIDs /\ req[g].color \in Colors
    BY <1>10, Busy DEF OpenColor, BackgroundPcs
  <2>2. files' \in [TaskIDs -> [FileNames -> Contents]]
    BY <1>10, <2>1, FilePaths, Writes, ImageOperators DEF OpenColor
  <2> QED
    BY <1>10, <2>2, PcNames DEF OpenColor, Placed, Rows, CreatePcs, BackgroundPcs, LayoutPcs
<1>11. CASE FlushColor(g)
  <2>1. req[g].id \in TaskIDs /\ req[g].color \in Colors
    BY <1>11, Busy DEF FlushColor, BackgroundPcs
  <2>2. files' \in [TaskIDs -> [FileNames -> Contents]]
    BY <1>11, <2>1, FilePaths, Writes, ImageOperators DEF FlushColor
  <2> QED
    BY <1>11, <2>2, PcNames DEF FlushColor, Placed, Rows, CreatePcs, BackgroundPcs, LayoutPcs
<1>12. CASE PutBackground(g)
  <2>1. req[g].id \in TaskIDs /\ req[g].color \in Colors
    BY <1>12, Busy DEF PutBackground, BackgroundPcs
  <2>2. /\ pc' \in [Handlers -> Pcs] /\ answer' \in [Handlers -> Answers]
        /\ \A h \in Handlers \ {g} : pc'[h] = pc[h]
    BY <1>12, <2>1, Returning DEF PutBackground
  <2>3. Placed'
    BY <1>12, <2>2, Moves DEF PutBackground, BackgroundReturns, Answer, LayoutPcs
  <2>4. WithColor(btask[g], req[g].color) \in Tasks
    BY <2>1, TaskOperators
  <2>5. repo' \in [TaskIDs -> Tasks] /\ Rows'
    BY <1>12, <2>1, <2>4, Puts DEF PutBackground
  <2> QED
    BY <1>12, <2>2, <2>3, <2>5 DEF PutBackground
<1>13. CASE BeginRecord(g)
  BY <1>13, PcNames
  DEF BeginRecord, Placed, Rows, CreatePcs, BackgroundPcs, LayoutPcs
<1>14. CASE EndRecord(g)
  <2>1. req[g].id \in TaskIDs /\ req[g].color \in Colors
    BY <1>14, Busy DEF EndRecord, BackgroundPcs
  <2>2. /\ pc' \in [Handlers -> Pcs] /\ answer' \in [Handlers -> Answers]
        /\ \A h \in Handlers \ {g} : pc'[h] = pc[h]
    BY <1>14, <2>1, Returning DEF EndRecord
  <2>3. Placed'
    BY <1>14, <2>2, Moves DEF EndRecord, BackgroundReturns, Answer, LayoutPcs
  <2>4. WithColor(repo[req[g].id], req[g].color) \in Tasks
    BY <2>1, TaskOperators
  <2>5. repo' \in [TaskIDs -> Tasks]
    BY <1>14, <2>1, <2>4 DEF EndRecord
  <2>6. Rows'
    BY <1>14 DEF EndRecord, Rows, Placed
  <2> QED
    BY <1>14, <2>2, <2>3, <2>5, <2>6 DEF EndRecord
<1>15. CASE LayoutHit(g)
  BY <1>15, AnswerOnly, LayoutName DEF LayoutHit
<1>16. CASE LayoutMiss(g)
  BY <1>16, PcNames, TaskOperators
  DEF LayoutMiss, Placed, Rows, CreatePcs, BackgroundPcs, LayoutPcs
<1>17. CASE ComposeLayout(g)
  <2>1. req[g].color \in Colors
    BY <1>17, Busy DEF ComposeLayout, LayoutPcs
  <2>2. Content(LayoutSource(req[g].id, req[g].color)) \in Contents
    BY <1>17, <2>1, Busy, FilePaths, Writes DEF ComposeLayout
  <2>3. data' \in [Handlers -> Contents]
    BY <1>17, <2>1, <2>2, ImageOperators DEF ComposeLayout, Hold
  <2>4. Placed'
    BY <1>17, PcNames, Moves DEF ComposeLayout, LayoutPcs, Placed
  <2> QED
    BY <1>17, <2>3, <2>4, PcNames DEF ComposeLayout, Rows
<1>18. CASE ComposeRefused(g)
  BY <1>18, AnswerOnly, LayoutName DEF ComposeRefused
<1>19. CASE OpenLayout(g)
  <2>1. req[g].id \in TaskIDs /\ req[g].color \in Colors
    BY <1>19, Busy DEF OpenLayout, LayoutPcs
  <2>2. files' \in [TaskIDs -> [FileNames -> Contents]]
    BY <1>19, <2>1, FilePaths, Writes, ImageOperators DEF OpenLayout
  <2> QED
    BY <1>19, <2>2, PcNames DEF OpenLayout, Placed, Rows, CreatePcs, BackgroundPcs, LayoutPcs
<1>20. CASE FlushLayout(g)
  <2>1. req[g].id \in TaskIDs /\ req[g].color \in Colors
    BY <1>20, Busy DEF FlushLayout, LayoutPcs
  <2>2. files' \in [TaskIDs -> [FileNames -> Contents]]
    BY <1>20, <2>1, FilePaths, Writes, ImageOperators DEF FlushLayout
  <2> QED
    BY <1>20, <2>2, PcNames DEF FlushLayout, Placed, Rows, CreatePcs, BackgroundPcs, LayoutPcs
<1>21. CASE PutLayout(g)
  <2>1. req[g].id \in TaskIDs /\ req[g].color \in Colors
    BY <1>21, Busy DEF PutLayout, LayoutPcs
  <2>2. WithLayout(task[g]) \in Tasks
    BY <2>1, TaskOperators
  <2>3. repo' \in [TaskIDs -> Tasks] /\ Rows'
    BY <1>21, <2>1, <2>2, Puts DEF PutLayout
  <2>4. /\ pc' \in [Handlers -> Pcs] /\ answer' \in [Handlers -> Answers]
        /\ \A h \in Handlers \ {g} : pc'[h] = pc[h]
    BY <1>21, Answering, LayoutName DEF PutLayout
  <2>5. Placed'
    BY <1>21, <2>4, Moves DEF PutLayout, Answer
  <2> QED
    BY <1>21, <2>3, <2>4, <2>5 DEF PutLayout
<1>22. CASE BeginLayoutRecord(g)
  BY <1>22, PcNames
  DEF BeginLayoutRecord, Placed, Rows, CreatePcs, BackgroundPcs, LayoutPcs
<1>23. CASE EndLayoutRecord(g)
  <2>1. req[g].id \in TaskIDs /\ req[g].color \in Colors
    BY <1>23, Busy DEF EndLayoutRecord, LayoutPcs
  <2>2. WithLayout(repo[req[g].id]) \in Tasks
    BY <2>1, TaskOperators
  <2>3. repo' \in [TaskIDs -> Tasks] /\ Rows'
    BY <1>23, <2>1, <2>2 DEF EndLayoutRecord, Rows, Placed
  <2>4. /\ pc' \in [Handlers -> Pcs] /\ answer' \in [Handlers -> Answers]
        /\ \A h \in Handlers \ {g} : pc'[h] = pc[h]
    BY <1>23, Answering, LayoutName DEF EndLayoutRecord
  <2>5. Placed'
    BY <1>23, <2>4, Moves DEF EndLayoutRecord, Answer
  <2> QED
    BY <1>23, <2>3, <2>4, <2>5 DEF EndLayoutRecord
<1>24. CASE GetRefused(g)
  BY <1>24, AnswerOnly DEF GetRefused
<1>25. CASE FailRequest(g)
  <2>1. pc[g] # "idle"
    BY <1>25 DEF FailRequest
  <2> QED
    BY <1>25, <2>1, AnswerOnly DEF FailRequest
<1>26. CASE Encode(g)
  <2>1. Object(req[g].id, task[g]) \in Tasks
    BY <1>26, Busy, Objects DEF Encode
  <2>2. /\ pc' \in [Handlers -> Pcs] /\ answer' \in [Handlers -> Answers]
        /\ \A h \in Handlers \ {g} : pc'[h] = pc[h]
    BY <1>26, Answering DEF Encode
  <2>3. Placed'
    BY <1>26, <2>2, Moves DEF Encode, Answer
  <2> QED
    BY <1>26, <2>1, <2>2, <2>3 DEF Encode, Rows
<1>27. CASE Reply(g)
  <2>1. NoTask \in Tasks /\ NoRequest \in Requests /\ NoAnswer \in Answers /\ "none" \in Contents
    BY DEF Tasks, NoTask, Statuses, Requests, NoRequest, Answers, NoAnswer, Contents
  <2>2. published' \subseteq issued'
    BY <1>27 DEF Reply, Placed
  <2>3. Placed'
    BY <1>27 DEF Reply, Placed, CreatePcs, BackgroundPcs, LayoutPcs
  <2> QED
    BY <1>27, <2>1, <2>2, <2>3, PcNames DEF Reply, Hold, Rows
<1> QED
  BY <1>1, <1>2, <1>3, <1>4, <1>5, <1>6, <1>7, <1>8, <1>9, <1>10, <1>11, <1>12, <1>13, <1>14,
     <1>15, <1>16, <1>17, <1>18, <1>19, <1>20, <1>21, <1>22, <1>23, <1>24, <1>25, <1>26, <1>27
  DEF Step, CreateStep, BackgroundStep, LayoutStep

(* A request that begins keeps the types.                                  *)
LEMMA TypeStart ==
  ASSUME UNCHANGED storage, TypeOK, NEW g \in Handlers, Start(g)
  PROVE  TypeOK'
<1> USE PhotoAssumption, ServiceAssumption
<1> USE DEF TypeOK, At, Goto, history, Begin
<1>1. ASSUME NEW id \in TaskIDs, NEW c \in Colors \cup {None}, Create(g, id, c) PROVE TypeOK'
  <2>1. BgColor(c) \in Colors
    BY DEF BgColor
  <2>2. repo' \in [TaskIDs -> Tasks] /\ Rows' /\ Copy(NewTask) \in Tasks
    BY <1>1, TaskOperators, Puts DEF Create
  <2>3. [op |-> "create", id |-> id, color |-> BgColor(c)] \in Requests
    BY <2>1 DEF Requests, Ops
  <2>4. req' \in [Handlers -> Requests]
    BY <1>1, <2>3 DEF Create
  <2>5. Placed'
    BY <1>1, <2>1 DEF Create, Placed, CreatePcs, BackgroundPcs, LayoutPcs, Ops
  <2> QED
    BY <1>1, <2>2, <2>4, <2>5, PcNames DEF Create
<1>2. ASSUME NEW id \in TaskIDs, NEW op \in Ops \ {"create"}, NEW c \in Colors \cup {None},
             op \in {"background", "layout"} => c \in Colors
      PROVE  /\ Request(g, op, id, c) => TypeOK'
             /\ RequestRefused(g, op, id, c) => TypeOK'
  <2>1. [op |-> op, id |-> id, color |-> c] \in Requests
    BY DEF Requests
  <2>2. FirstPc(op) \in Pcs
    BY PcNames DEF FirstPc
  <2>3. ASSUME Request(g, op, id, c) PROVE TypeOK'
    <3>1. req' \in [Handlers -> Requests] /\ pc' \in [Handlers -> Pcs]
      BY <2>1, <2>2, <2>3 DEF Request
    <3>2. Copy(repo[id]) \in Tasks /\ NoTask \in Tasks
      BY TaskOperators
    <3>3. Placed'
      BY <1>2, <2>3 DEF Request, Placed, FirstPc, CreatePcs, BackgroundPcs, LayoutPcs, Ops
    <3> QED
      BY <2>3, <3>1, <3>2, <3>3 DEF Request, Rows
  <2>4. ASSUME RequestRefused(g, op, id, c) PROVE TypeOK'
    <3>1. req' \in [Handlers -> Requests]
      BY <2>1, <2>4 DEF RequestRefused
    <3>2. pc' \in [Handlers -> Pcs] /\ answer' \in [Handlers -> Answers]
      BY <2>4, Answering DEF RequestRefused
    <3>3. Placed'
      BY <1>2, <2>4 DEF RequestRefused, Answer, Placed, CreatePcs, BackgroundPcs, LayoutPcs, Ops
    <3> QED
      BY <2>4, <3>1, <3>2, <3>3 DEF RequestRefused, Rows
  <2> QED
    BY <2>3, <2>4
<1> QED
  BY <1>1, <1>2 DEF Start, Ops

(* So does a restart, after a crash or a fatal map race.                   *)
LEMMA TypeRestart ==
  ASSUME UNCHANGED storage, TypeOK, Restart, fatal' \in BOOLEAN
  PROVE  TypeOK'
<1>1. NoTask \in Tasks /\ NoRequest \in Requests /\ NoAnswer \in Answers /\ "none" \in Contents
  BY DEF Tasks, NoTask, Statuses, Requests, NoRequest, Answers, NoAnswer, Contents
<1>2. Placed'
  BY DEF Restart, Placed, CreatePcs, BackgroundPcs, LayoutPcs
<1>3. repo' \in [TaskIDs -> Tasks] /\ Rows'
  BY <1>1 DEF Restart, TypeOK, Rows
<1> QED
  BY <1>1, <1>2, <1>3, PcNames DEF Restart, TypeOK

(* The empty server is well typed.                                         *)
LEMMA TypeInit == Init => TypeOK
<1>1. NoTask \in Tasks /\ NoRequest \in Requests /\ NoAnswer \in Answers /\ "none" \in Contents
  BY DEF Tasks, NoTask, Statuses, Requests, NoRequest, Answers, NoAnswer, Contents
<1>2. ASSUME Init PROVE Rows /\ Placed
  BY <1>2 DEF Init, Rows, NoTask, Placed, CreatePcs, BackgroundPcs, LayoutPcs
<1>3. ASSUME Init PROVE TypeOK
  <2>1. /\ repo \in [TaskIDs -> Tasks]
        /\ files \in [TaskIDs -> [FileNames -> Contents]]
    BY <1>1, <1>3 DEF Init
  <2>2. /\ pc \in [Handlers -> Pcs]
        /\ req \in [Handlers -> Requests]
        /\ answer \in [Handlers -> Answers]
    BY <1>1, <1>3, PcNames DEF Init
  <2> QED
    BY <1>1, <1>2, <1>3, <2>1, <2>2 DEF Init, TypeOK
<1> QED
  BY <1>3

(* The variables hold what the program can put there (every handler, every *)
(* repository operation and every asset write of the task service).        *)
THEOREM TypeCorrect == Spec => []TypeOK
<1>1. Init => TypeOK
  BY TypeInit
<1>2. TypeOK /\ [Next]_vars => TypeOK'
  <2> SUFFICES ASSUME TypeOK, [Next]_vars PROVE TypeOK'
    OBVIOUS
  <2>0. UNCHANGED storage
    BY DEF Next, vars
  <2>1. ASSUME NEW g \in Handlers, Start(g) \/ Step(g) PROVE TypeOK'
    BY <2>0, <2>1, TypeStart, TypeStep
  <2>2. CASE ConcurrentMapFatal
    BY <2>0, <2>2, TypeRestart DEF ConcurrentMapFatal
  <2>3. CASE Crash
    BY <2>0, <2>3, TypeRestart DEF Crash, TypeOK
  <2>4. CASE UNCHANGED vars
    BY <2>4 DEF vars, history, TypeOK, Placed, Rows
  <2> QED
    BY <2>1, <2>2, <2>3, <2>4 DEF Next
<1> QED
  BY <1>1, <1>2, PTL DEF Spec
----------------------------------------------------------------------------
(* The inductive invariant.  A step of a request that serves a known task  *)
(* moves no status and no baseline; a step of CreateTask only touches the  *)
(* task that no other handler can have.                                    *)

Inv == TypeOK /\ OwnershipInv

(* What the assignments of the handlers do to the status.                  *)
LEMMA StatusOf ==
  ASSUME NEW t \in Tasks, NEW c \in Colors
  PROVE  /\ NewTask.status = "processing" /\ NoTask.status = "none"
         /\ Failed(t).status = "failed" /\ Done(t).status = "done"
         /\ WithBaseline(t).status = t.status /\ WithColor(t, c).status = t.status
         /\ WithLayout(t).status = t.status
         /\ Stored(t).status = t.status
         /\ storage = "postgres" => Copy(t) = t /\ Object(c, t) = t
  BY ServiceAssumption DEF Tasks, NoTask, NewTask, Failed, Done, WithBaseline, WithColor, WithLayout,
     Stored, Copy, Row, Object

(* A write to one file leaves the others alone.                            *)
LEMMA OtherFiles ==
  ASSUME files \in [TaskIDs -> [FileNames -> Contents]],
         NEW f \in Paths, NEW x \in Contents,
         files' = Truncated(f) \/ files' = Flushed(f, x)
  PROVE  \A h \in Paths : h # f => Content(h)' = Content(h)
<1> SUFFICES ASSUME NEW h \in Paths, h # f PROVE files'[h.dir][h.name] = files[h.dir][h.name]
  BY DEF Content
<1>1. h.dir \in TaskIDs /\ h.name \in FileNames /\ f.dir \in TaskIDs /\ f.name \in FileNames
  BY DEF Paths
<1>2. h.dir # f.dir \/ h.name # f.name
  BY DEF Paths
<1> QED
  BY <1>1, <1>2 DEF Truncated, Flushed

(* A write to the file of a colour or to a sheet leaves every baseline.    *)
LEMMA BaselinesStay ==
  ASSUME files \in [TaskIDs -> [FileNames -> Contents]],
         NEW f \in Paths, f.name # Baseline, NEW x \in Contents,
         files' = Truncated(f) \/ files' = Flushed(f, x)
  PROVE  \A id \in TaskIDs : files'[id][Baseline] = files[id][Baseline]
<1>1. Baseline \in FileNames
  BY DEF FileNames
<1>2. f.dir \in TaskIDs /\ f.name \in FileNames
  BY DEF Paths
<1> QED
  BY <1>1, <1>2 DEF Truncated, Flushed

(* A Put of an object with the stored status leaves every status alone. *)
LEMMA PutsStatus ==
  ASSUME repo \in [TaskIDs -> Tasks], NEW i \in TaskIDs, NEW t \in Tasks, repo' \in Saves(i, t)
  PROVE  /\ \A id \in TaskIDs \ {i} : repo'[id].status = repo[id].status
         /\ repo'[i].status \in {t.status, repo[i].status}
         /\ t.status = repo[i].status => \A id \in TaskIDs : repo'[id].status = repo[id].status
<1>1. PICK c \in Colors : TRUE
  BY PhotoAssumption
<1>2. Stored(t).status = t.status
  BY <1>1, StatusOf
<1>3. CASE repo' = [repo EXCEPT ![i] = Stored(t)]
  BY <1>2, <1>3
<1>4. CASE repo' = repo
  BY <1>4
<1> QED
  BY <1>3, <1>4 DEF Saves

Serving(g) == BackgroundStep(g) \/ LayoutStep(g) \/ GetRefused(g) \/ FailRequest(g) \/ Encode(g)

(* What serving a request does not do. *)
Serves(g) ==
  /\ \A id \in TaskIDs : repo'[id].status = repo[id].status
  /\ \A id \in TaskIDs : files'[id][Baseline] = files[id][Baseline]
  /\ UNCHANGED <<req, issued, published>>
  /\ ~Creating(g) /\ pc[g] # "idle" /\ pc'[g] # "idle" /\ pc'[g] \notin CreatePcs
  /\ \A h \in Handlers \ {g} : pc'[h] = pc[h] /\ data'[h] = data[h]
                               /\ task'[h] = task[h] /\ btask'[h] = btask[h]

(* Each step of background, layout and GET is a step that serves.          *)
LEMMA ServingServes ==
  ASSUME UNCHANGED storage, Inv, NEW g \in Handlers, Serving(g)
  PROVE  Serves(g)
<1>0. /\ pc[g] # "idle" => req[g].id \in TaskIDs
      /\ pc[g] \in CreatePcs \cup BackgroundPcs \cup LayoutPcs => req[g].color \in Colors
  BY Busy, PcsAreBusy DEF Inv
<1> USE DEF Inv, At, Goto, Hold, history, Serves, CreatePcs, TypeOK
<1>a. ASSUME pc[g] \in BackgroundPcs \cup LayoutPcs \cup {"encode"} PROVE ~Creating(g) /\ pc[g] # "idle"
  BY <1>a DEF Creating, Placed, BackgroundPcs, LayoutPcs
<1>1. CASE GetHit(g)
  BY <1>1, <1>a DEF GetHit, BackgroundReturns, Answer, BackgroundPcs
<1>2. CASE GetMiss(g)
  BY <1>2, <1>a DEF GetMiss, BackgroundPcs, LayoutPcs
<1>3. CASE RenderColor(g)
  BY <1>3, <1>a DEF RenderColor, BackgroundPcs, LayoutPcs
<1>4. CASE OpenColor(g)
  <2>1. req[g].id \in TaskIDs /\ req[g].color \in Colors
    BY <1>4, <1>0 DEF OpenColor, BackgroundPcs, LayoutPcs
  <2>2. ColorFile(req[g].id, req[g].color) \in Paths /\ ColorFile(req[g].id, req[g].color).name # Baseline
    BY <2>1, FilePaths
  <2>3. \A id \in TaskIDs : files'[id][Baseline] = files[id][Baseline]
    BY <1>4, <2>2, <2>1, ImageOperators, BaselinesStay DEF OpenColor
  <2> QED
    BY <1>4, <1>a, <2>3 DEF OpenColor, BackgroundPcs, LayoutPcs
<1>5. CASE FlushColor(g)
  <2>1. req[g].id \in TaskIDs /\ req[g].color \in Colors
    BY <1>5, <1>0 DEF FlushColor, BackgroundPcs, LayoutPcs
  <2>2. ColorFile(req[g].id, req[g].color) \in Paths /\ ColorFile(req[g].id, req[g].color).name # Baseline
    BY <2>1, FilePaths
  <2>3. \A id \in TaskIDs : files'[id][Baseline] = files[id][Baseline]
    BY <1>5, <2>2, BaselinesStay DEF FlushColor
  <2> QED
    BY <1>5, <1>a, <2>3 DEF FlushColor, BackgroundPcs, LayoutPcs
<1>6. CASE PutBackground(g)
  <2>1. req[g].id \in TaskIDs /\ req[g].color \in Colors
    BY <1>6, <1>0 DEF PutBackground, BackgroundPcs
  <2>2. WithColor(btask[g], req[g].color) \in Tasks
    BY <2>1, TaskOperators
  <2>3. WithColor(btask[g], req[g].color).status = repo[req[g].id].status
    BY <1>6, <2>1, StatusOf DEF PutBackground, OwnershipInv, CopiesKeepStatus
  <2>4. \A id \in TaskIDs : repo'[id].status = repo[id].status
    BY <1>6, <2>1, <2>2, <2>3, PutsStatus DEF PutBackground
  <2> QED
    BY <1>6, <1>a, <2>4 DEF PutBackground, BackgroundReturns, Answer, BackgroundPcs
<1>7. CASE BeginRecord(g)
  BY <1>7, <1>a DEF BeginRecord, BackgroundPcs, LayoutPcs
<1>8. CASE EndRecord(g)
  <2>1. req[g].id \in TaskIDs /\ req[g].color \in Colors
    BY <1>8, <1>0 DEF EndRecord, BackgroundPcs
  <2>2. WithColor(repo[req[g].id], req[g].color).status = repo[req[g].id].status
    BY <2>1, StatusOf
  <2>3. \A id \in TaskIDs : repo'[id].status = repo[id].status
    BY <1>8, <2>1, <2>2 DEF EndRecord
  <2> QED
    BY <1>8, <1>a, <2>3 DEF EndRecord, BackgroundReturns, Answer, BackgroundPcs
<1>9. CASE LayoutHit(g)
  BY <1>9, <1>a DEF LayoutHit, Answer, BackgroundPcs, LayoutPcs
<1>10. CASE LayoutMiss(g)
  BY <1>10, <1>a DEF LayoutMiss, BackgroundPcs, LayoutPcs
<1>11. CASE ComposeLayout(g)
  BY <1>11, <1>a DEF ComposeLayout, BackgroundPcs, LayoutPcs
<1>12. CASE ComposeRefused(g)
  BY <1>12, <1>a DEF ComposeRefused, Answer, BackgroundPcs, LayoutPcs
<1>13. CASE OpenLayout(g)
  <2>1. req[g].id \in TaskIDs /\ req[g].color \in Colors
    BY <1>13, <1>0 DEF OpenLayout, BackgroundPcs, LayoutPcs
  <2>2. LayoutFile(req[g].id) \in Paths /\ LayoutFile(req[g].id).name # Baseline
    BY <2>1, FilePaths
  <2>3. \A id \in TaskIDs : files'[id][Baseline] = files[id][Baseline]
    BY <1>13, <2>2, <2>1, ImageOperators, BaselinesStay DEF OpenLayout
  <2> QED
    BY <1>13, <1>a, <2>3 DEF OpenLayout, BackgroundPcs, LayoutPcs
<1>14. CASE FlushLayout(g)
  <2>1. req[g].id \in TaskIDs /\ req[g].color \in Colors
    BY <1>14, <1>0 DEF FlushLayout, BackgroundPcs, LayoutPcs
  <2>2. LayoutFile(req[g].id) \in Paths /\ LayoutFile(req[g].id).name # Baseline
    BY <2>1, FilePaths
  <2>3. \A id \in TaskIDs : files'[id][Baseline] = files[id][Baseline]
    BY <1>14, <2>2, BaselinesStay DEF FlushLayout
  <2> QED
    BY <1>14, <1>a, <2>3 DEF FlushLayout, BackgroundPcs, LayoutPcs
<1>15. CASE PutLayout(g)
  <2>1. req[g].id \in TaskIDs /\ req[g].color \in Colors
    BY <1>15, <1>0 DEF PutLayout, LayoutPcs
  <2>2. WithLayout(task[g]) \in Tasks
    BY <2>1, TaskOperators
  <2>3. WithLayout(task[g]).status = repo[req[g].id].status
    BY <1>15, <2>1, StatusOf DEF PutLayout, OwnershipInv, CopiesKeepStatus, Placed, LayoutPcs
  <2>4. \A id \in TaskIDs : repo'[id].status = repo[id].status
    BY <1>15, <2>1, <2>2, <2>3, PutsStatus DEF PutLayout
  <2> QED
    BY <1>15, <1>a, <2>4 DEF PutLayout, Answer, LayoutPcs
<1>16. CASE BeginLayoutRecord(g)
  BY <1>16, <1>a DEF BeginLayoutRecord, BackgroundPcs, LayoutPcs
<1>17. CASE EndLayoutRecord(g)
  <2>1. req[g].id \in TaskIDs /\ req[g].color \in Colors
    BY <1>17, <1>0 DEF EndLayoutRecord, LayoutPcs
  <2>2. WithLayout(repo[req[g].id]).status = repo[req[g].id].status
    BY <2>1, StatusOf
  <2>3. \A id \in TaskIDs : repo'[id].status = repo[id].status
    BY <1>17, <2>1, <2>2 DEF EndLayoutRecord
  <2> QED
    BY <1>17, <1>a, <2>3 DEF EndLayoutRecord, Answer, LayoutPcs
<1>18. CASE GetRefused(g)
  BY <1>18, <1>a DEF GetRefused, Answer, BackgroundPcs, LayoutPcs
<1>19. CASE FailRequest(g)
  BY <1>19, <1>a DEF FailRequest, Answer, BackgroundPcs, LayoutPcs
<1>20. CASE Encode(g)
  BY <1>20, <1>a DEF Encode, Answer
<1> QED
  BY <1>1, <1>2, <1>3, <1>4, <1>5, <1>6, <1>7, <1>8, <1>9, <1>10, <1>11, <1>12, <1>13,
     <1>14, <1>15, <1>16, <1>17, <1>18, <1>19, <1>20
  DEF Serving, BackgroundStep, LayoutStep

(* A step that serves leaves the ownership of tasks as it is.              *)
LEMMA ServesOwned ==
  ASSUME UNCHANGED storage, Inv, NEW g \in Handlers, Serves(g)
  PROVE  Owned' /\ BaselineFirst'
<1>1. \A h \in Handlers : pc[h] # "idle" => req[h].id \in TaskIDs
  BY Busy DEF Inv
<1>2. Owned'
  BY DEF Inv, OwnershipInv, Owned, Serves, Creating
<1>3. BaselineFirst'
  <2>1. \A h \in Handlers : pc'[h] \in CreatePcs => h # g
    BY DEF Serves
  <2>2. \A h \in Handlers : pc'[h] \in {"flush_baseline", "add_background", "flush_default", "finish"} => h # g
    BY DEF Serves, CreatePcs
  <2>3. \A id \in TaskIDs : /\ id \notin issued' => repo'[id].status = "none"
                            /\ repo'[id].status = "done" => files'[id][Baseline] = "rgba"
    BY DEF Inv, OwnershipInv, BaselineFirst, Serves
  <2>4. \A h \in Handlers : pc'[h] \in CreatePcs => repo'[req'[h].id].status \in {"none", "processing"}
    BY <1>1, <2>1, PcsAreBusy DEF Inv, OwnershipInv, BaselineFirst, Serves
  <2>5. \A h \in Handlers : pc'[h] = "flush_baseline" => data'[h] = "rgba"
    BY <2>2 DEF Inv, OwnershipInv, BaselineFirst, Serves
  <2>6. \A h \in Handlers : pc'[h] \in {"add_background", "flush_default", "finish"}
                              => files'[req'[h].id][Baseline] = "rgba"
    BY <1>1, <2>2 DEF Inv, OwnershipInv, BaselineFirst, Serves
  <2> QED
    BY <2>3, <2>4, <2>5, <2>6 DEF BaselineFirst
<1> QED
  BY <1>2, <1>3

(* The copies of the other handlers need only be looked at when a status   *)
(* moves, and those of g when g takes one.                                 *)
LEMMA ServesCopies ==
  ASSUME UNCHANGED storage, Inv, NEW g \in Handlers, Serving(g), Serves(g)
  PROVE  CopiesKeepStatus'
<1> SUFFICES ASSUME storage = "postgres", NEW h \in Handlers
             PROVE  /\ pc'[h] \in {"render", "open_color", "flush_color", "record"}
                         => btask'[h].status = repo'[req'[h].id].status
                    /\ pc'[h] \in (BackgroundPcs \cup LayoutPcs) \ {"layout_get"} /\ req'[h].op = "layout"
                         => task'[h].status = repo'[req'[h].id].status
  BY DEF CopiesKeepStatus
<1> USE DEF Inv, OwnershipInv, CopiesKeepStatus, Serves, BackgroundPcs, LayoutPcs
<1>1. \A i \in Handlers : pc[i] # "idle" => req[i].id \in TaskIDs /\ repo[req[i].id] \in Tasks
  BY Busy
<1>2. CASE h # g
  BY <1>1, <1>2
<1>3. CASE h = g
  <2> USE <1>3 DEF At, Goto, TypeOK
  <2>1. \A t \in Tasks : Copy(t) = t
    BY ServiceAssumption DEF Copy
  <2>2. req[g].id \in TaskIDs /\ repo[req[g].id] \in Tasks /\ repo'[req[g].id].status = repo[req[g].id].status
    BY <1>1
  <2>3. CASE GetMiss(g)
    BY <2>1, <2>2, <2>3 DEF GetMiss
  <2>4. CASE LayoutMiss(g)
    BY <2>1, <2>2, <2>4 DEF LayoutMiss
  <2>5. CASE RenderColor(g) \/ OpenColor(g) \/ FlushColor(g)
    BY <2>2, <2>5 DEF RenderColor, OpenColor, FlushColor
  <2>6. CASE GetHit(g) \/ PutBackground(g)
    BY <2>2, <2>6 DEF GetHit, PutBackground, BackgroundReturns, Answer
  <2>7. CASE ComposeLayout(g) \/ OpenLayout(g) \/ FlushLayout(g)
    BY <2>2, <2>7 DEF ComposeLayout, OpenLayout, FlushLayout
  <2>8. CASE LayoutHit(g) \/ ComposeRefused(g) \/ PutLayout(g) \/ GetRefused(g) \/ FailRequest(g) \/ Encode(g)
    BY <2>2, <2>8 DEF LayoutHit, ComposeRefused, PutLayout, GetRefused, FailRequest, Encode, Answer
  <2>9. CASE BeginRecord(g) \/ EndRecord(g) \/ BeginLayoutRecord(g) \/ EndLayoutRecord(g)
    BY <2>9 DEF BeginRecord, EndRecord, BeginLayoutRecord, EndLayoutRecord, Placed
  <2> QED
    BY <2>3, <2>4, <2>5, <2>6, <2>7, <2>8, <2>9 DEF Serving, BackgroundStep, LayoutStep
<1> QED
  BY <1>2, <1>3

(* What a step of CreateTask does not do. *)
Builds(g) ==
  /\ Creating(g) /\ pc[g] \in CreatePcs /\ pc'[g] \in CreatePcs \cup {"reply"}
  /\ UNCHANGED <<req, issued, published>>
  /\ \A id \in TaskIDs \ {req[g].id} : /\ repo'[id].status = repo[id].status
                                        /\ files'[id][Baseline] = files[id][Baseline]
  /\ \A h \in Handlers \ {g} : pc'[h] = pc[h] /\ data'[h] = data[h]
                               /\ task'[h] = task[h] /\ btask'[h] = btask[h]

(* A step that creates disturbs no handler but its own.                    *)
LEMMA BuildsRest ==
  ASSUME UNCHANGED storage, Inv, NEW g \in Handlers, Builds(g),
         LET i == req[g].id IN
           /\ repo'[i].status = "done" => files'[i][Baseline] = "rgba"
           /\ pc'[g] \in CreatePcs => repo'[i].status \in {"none", "processing"}
           /\ pc'[g] = "flush_baseline" => data'[g] = "rgba"
           /\ pc'[g] \in {"add_background", "flush_default", "finish"} => files'[i][Baseline] = "rgba"
  PROVE  OwnershipInv'
<1>1. \A h \in Handlers : pc[h] # "idle" => req[h].id \in TaskIDs /\ req[h].id \in issued
  BY Busy DEF Inv, TypeOK, Placed
<1>2. \A h \in Handlers \ {g} : pc[h] # "idle" => req[h].id # req[g].id
  BY DEF Inv, OwnershipInv, Owned, Builds, Creating
<1>3. Owned'
  BY DEF Inv, OwnershipInv, Owned, Builds, Creating, CreatePcs
<1>4. BaselineFirst'
  <2>1. \A id \in TaskIDs : /\ id \notin issued' => repo'[id].status = "none"
                            /\ repo'[id].status = "done" => files'[id][Baseline] = "rgba"
    BY <1>1 DEF Inv, OwnershipInv, BaselineFirst, Builds, Creating
  <2>2. ASSUME NEW h \in Handlers
        PROVE  /\ pc'[h] \in CreatePcs => repo'[req'[h].id].status \in {"none", "processing"}
               /\ pc'[h] = "flush_baseline" => data'[h] = "rgba"
               /\ pc'[h] \in {"add_background", "flush_default", "finish"}
                    => files'[req'[h].id][Baseline] = "rgba"
    <3>1. CASE h = g
      BY <3>1 DEF Builds
    <3>2. CASE h # g
      BY <1>1, <1>2, <3>2, PcsAreBusy DEF Inv, OwnershipInv, BaselineFirst, Builds
    <3> QED
      BY <3>1, <3>2
  <2> QED
    BY <2>1, <2>2 DEF BaselineFirst
<1>5. CopiesKeepStatus'
  <2> SUFFICES ASSUME storage = "postgres", NEW h \in Handlers
               PROVE  /\ pc'[h] \in {"render", "open_color", "flush_color", "record"}
                           => btask'[h].status = repo'[req'[h].id].status
                      /\ pc'[h] \in (BackgroundPcs \cup LayoutPcs) \ {"layout_get"} /\ req'[h].op = "layout"
                           => task'[h].status = repo'[req'[h].id].status
    BY DEF CopiesKeepStatus
  <2>1. CASE h = g
    BY <2>1 DEF Builds, CreatePcs, BackgroundPcs, LayoutPcs
  <2>2. CASE h # g
    BY <1>1, <1>2, <2>2 DEF Inv, OwnershipInv, CopiesKeepStatus, Builds, BackgroundPcs, LayoutPcs
  <2> QED
    BY <2>1, <2>2
<1> QED
  BY <1>3, <1>4, <1>5 DEF OwnershipInv

(* Every step of CreateTask keeps the invariant.                           *)
LEMMA CreateStepKeeps ==
  ASSUME UNCHANGED storage, Inv, NEW g \in Handlers, CreateStep(g)
  PROVE  Builds(g) /\ OwnershipInv'
<1> DEFINE i == req[g].id
<1>1. /\ pc[g] \in CreatePcs /\ Creating(g)
      /\ i \in TaskIDs /\ req[g].color \in Colors /\ repo[i] \in Tasks
  <2>1. pc[g] \in CreatePcs
    BY DEF CreateStep, IDPhoto, FlushBaseline, AddBackground, FlushDefault, Finish, FailTask, At, CreatePcs
  <2> QED
    BY <2>1, Busy, PcsAreBusy DEF Inv, TypeOK, Placed, Creating
<1>2. /\ repo[i].status \in {"none", "processing"}
      /\ pc[g] = "flush_baseline" => data[g] = "rgba"
      /\ pc[g] \in {"add_background", "flush_default", "finish"} => files[i][Baseline] = "rgba"
  BY <1>1 DEF Inv, OwnershipInv, BaselineFirst
<1>3. /\ Baseline \in FileNames /\ BaselineFile(i).dir = i /\ BaselineFile(i).name = Baseline
      /\ ColorFile(i, req[g].color) \in Paths /\ ColorFile(i, req[g].color).name # Baseline
      /\ data[g] \in Contents /\ files \in [TaskIDs -> [FileNames -> Contents]]
  BY <1>1, FilePaths DEF FileNames, Inv, TypeOK
<1> USE DEF At, Goto, Hold, history, CreatePcs
<1>4. CASE IDPhoto(g)
  <2>1. Builds(g)
    BY <1>1, <1>3, <1>4 DEF IDPhoto, Builds, Truncated, Inv, TypeOK
  <2> QED
    BY <1>1, <1>2, <1>4, <2>1, BuildsRest DEF IDPhoto, Inv, TypeOK
<1>5. CASE FlushBaseline(g)
  <2>1. WithBaseline(Object(i, task[g])).status = Object(i, task[g]).status
    <3>1. Object(i, task[g]) \in Tasks
      BY <1>1, Objects DEF Inv, TypeOK
    <3> QED
      BY <1>1, <3>1, StatusOf
  <2>2. repo'[i].status = repo[i].status /\ \A id \in TaskIDs \ {i} : repo'[id].status = repo[id].status
    BY <1>1, <1>5, <2>1 DEF FlushBaseline, Object, Inv, TypeOK
  <2>3. Builds(g)
    BY <1>1, <1>3, <1>5, <2>2 DEF FlushBaseline, Builds, Flushed, Inv, TypeOK
  <2>4. files'[i][Baseline] = "rgba"
    BY <1>1, <1>2, <1>3, <1>5 DEF FlushBaseline, Flushed, Inv, TypeOK
  <2> QED
    BY <1>1, <1>2, <1>5, <2>2, <2>3, <2>4, BuildsRest DEF FlushBaseline, Inv, TypeOK
<1>6. CASE AddBackground(g) \/ FlushDefault(g)
  <2>1. \A id \in TaskIDs : files'[id][Baseline] = files[id][Baseline]
    BY <1>3, <1>6, BaselinesStay DEF AddBackground, FlushDefault
  <2>2. Builds(g)
    BY <1>1, <1>6, <2>1 DEF AddBackground, FlushDefault, Builds, Inv, TypeOK
  <2> QED
    BY <1>1, <1>2, <1>6, <2>1, <2>2, BuildsRest DEF AddBackground, FlushDefault, Inv, TypeOK
<1>7. ASSUME NEW t \in Tasks, SaveAndAnswer(g, t), t.status = "failed" \/ pc[g] = "finish"
      PROVE  Builds(g) /\ OwnershipInv'
  <2>1. /\ \A id \in TaskIDs \ {i} : repo'[id].status = repo[id].status
        /\ repo'[i].status \in {t.status, repo[i].status}
    BY <1>1, <1>7, PutsStatus DEF SaveAndAnswer, Inv, TypeOK
  <2>2. Builds(g)
    BY <1>1, <1>7, <2>1 DEF SaveAndAnswer, Answer, Builds, Inv, TypeOK
  <2> QED
    BY <1>1, <1>2, <1>7, <2>1, <2>2, BuildsRest DEF SaveAndAnswer, Answer, Inv, TypeOK
<1>8. Object(i, task[g]) \in Tasks
  BY <1>1, Objects DEF Inv, TypeOK
<1>9. CASE Finish(g)
  <2>1. Done(WithColor(Object(i, task[g]), req[g].color)) \in Tasks
    BY <1>1, <1>8, TaskOperators
  <2> QED
    BY <1>7, <1>9, <2>1 DEF Finish
<1>10. CASE FailTask(g)
  <2>1. Failed(Object(i, task[g])) \in Tasks /\ Failed(Object(i, task[g])).status = "failed"
    BY <1>1, <1>8, TaskOperators, StatusOf
  <2> QED
    BY <1>7, <1>10, <2>1 DEF FailTask
<1> QED
  BY <1>4, <1>5, <1>6, <1>9, <1>10 DEF CreateStep

(* A request that begins: CreateTask takes a fresh id, the others one that *)
(* is already settled with its creator.                                    *)
LEMMA StartKeeps ==
  ASSUME UNCHANGED storage, Inv, NEW g \in Handlers, Start(g)
  PROVE  /\ OwnershipInv'
         /\ \A id \in issued : repo'[id].status = repo[id].status
<1> USE DEF At, Goto, history, Begin
<1>1. \A h \in Handlers : pc[h] # "idle" => req[h].id \in TaskIDs /\ req[h].id \in issued
  BY Busy DEF Inv, TypeOK, Placed
<1>2. ASSUME NEW i \in TaskIDs, NEW c \in Colors \cup {None}, Create(g, i, c)
      PROVE  OwnershipInv' /\ \A id \in issued : repo'[id].status = repo[id].status
  <2>1. NewTask \in Tasks /\ NewTask.status = "processing"
    BY DEF NewTask, Tasks, Statuses
  <2>2. /\ \A id \in TaskIDs \ {i} : repo'[id].status = repo[id].status
        /\ repo'[i].status \in {"processing", repo[i].status}
    BY <1>2, <2>1, PutsStatus DEF Create, Inv, TypeOK
  <2>3. \A h \in Handlers \ {g} : req'[h] = req[h] /\ pc'[h] = pc[h]
    BY <1>2 DEF Create, Inv, TypeOK
  <2>4. req'[g].id = i /\ req'[g].op = "create" /\ pc'[g] = "idphoto"
    BY <1>2 DEF Create, Inv, TypeOK
  <2>5. Owned'
    BY <1>1, <1>2, <2>3, <2>4 DEF Create, Inv, TypeOK, OwnershipInv, Owned, Creating
  <2>6. BaselineFirst'
    <3>1. repo[i].status = "none" /\ files' = files /\ data' = data /\ issued' = issued \cup {i}
      BY <1>2 DEF Create, Inv, OwnershipInv, BaselineFirst
    <3>2. \A id \in TaskIDs : /\ id \notin issued' => repo'[id].status = "none"
                              /\ repo'[id].status = "done" => files'[id][Baseline] = "rgba"
      BY <2>2, <3>1 DEF Inv, OwnershipInv, BaselineFirst
    <3>3. \A h \in Handlers \ {g} : pc[h] # "idle" => req[h].id # i
      BY <1>1, <1>2 DEF Create
    <3>4. ASSUME NEW h \in Handlers
          PROVE  /\ pc'[h] \in CreatePcs => repo'[req'[h].id].status \in {"none", "processing"}
                 /\ pc'[h] = "flush_baseline" => data'[h] = "rgba"
                 /\ pc'[h] \in {"add_background", "flush_default", "finish"}
                      => files'[req'[h].id][Baseline] = "rgba"
      <4>1. CASE h = g
        BY <2>2, <2>4, <3>1, <4>1
      <4>2. CASE h # g
        BY <1>1, <2>2, <2>3, <3>1, <3>3, <4>2, PcsAreBusy DEF Inv, OwnershipInv, BaselineFirst
      <4> QED
        BY <4>1, <4>2
    <3> QED
      BY <3>2, <3>4 DEF BaselineFirst
  <2>7. CopiesKeepStatus'
    <3>1. ASSUME NEW h \in Handlers, pc'[h] \in BackgroundPcs \cup LayoutPcs
          PROVE  /\ h # g /\ pc'[h] = pc[h] /\ req'[h] = req[h] /\ btask'[h] = btask[h] /\ task'[h] = task[h]
                 /\ repo'[req[h].id].status = repo[req[h].id].status
      BY <1>1, <1>2, <2>2, <2>3, <2>4, <3>1, PcsAreBusy DEF Create, Inv, TypeOK, BackgroundPcs, LayoutPcs
    <3> QED
      BY <3>1 DEF Inv, OwnershipInv, CopiesKeepStatus, BackgroundPcs, LayoutPcs
  <2> QED
    BY <1>2, <2>2, <2>5, <2>6, <2>7 DEF OwnershipInv, Create, Inv, TypeOK
<1>3. ASSUME NEW i \in TaskIDs, NEW op \in Ops \ {"create"}, NEW c,
             Request(g, op, i, c) \/ RequestRefused(g, op, i, c)
      PROVE  OwnershipInv' /\ \A id \in issued : repo'[id].status = repo[id].status
  <2>1. \A h \in Handlers \ {g} : req'[h] = req[h] /\ pc'[h] = pc[h] /\ task'[h] = task[h]
    BY <1>3 DEF Request, RequestRefused, Answer, Inv, TypeOK
  <2>2. /\ req'[g].id = i /\ req'[g].op = op /\ i \in published
        /\ pc'[g] \in {"get", "layout_get", "encode", "reply"}
        /\ pc'[g] = "get" => op = "background"
    BY <1>3 DEF Request, RequestRefused, Answer, FirstPc, Inv, TypeOK
  <2>3. UNCHANGED <<repo, files, issued, published, btask, data>>
    BY <1>3 DEF Request, RequestRefused
  <2>4. Owned'
    <3>1. req'[g].op # "create" /\ req'[g].id \in published'
      BY <2>2, <2>3
    <3> QED
      BY <2>1, <2>3, <3>1 DEF Inv, OwnershipInv, Owned, Creating
  <2>5. BaselineFirst'
    BY <2>1, <2>2, <2>3 DEF Inv, TypeOK, OwnershipInv, BaselineFirst, CreatePcs
  <2>6. CopiesKeepStatus'
    BY <2>1, <2>2, <2>3 DEF Inv, TypeOK, OwnershipInv, CopiesKeepStatus, BackgroundPcs, LayoutPcs
  <2> QED
    BY <2>3, <2>4, <2>5, <2>6 DEF OwnershipInv
<1> QED
  BY <1>2, <1>3 DEF Start, Ops

(* The answer of POST /api/tasks is what makes an id known; its handler is *)
(* done with the task then.                                                *)
LEMMA ReplyKeeps ==
  ASSUME UNCHANGED storage, Inv, NEW g \in Handlers, Reply(g)
  PROVE  OwnershipInv'
<1> USE DEF At, Goto, Hold, history, Inv, TypeOK
<1>1. /\ \A h \in Handlers \ {g} : /\ req'[h] = req[h] /\ pc'[h] = pc[h] /\ data'[h] = data[h]
                                   /\ task'[h] = task[h] /\ btask'[h] = btask[h]
      /\ pc'[g] = "idle" /\ pc[g] = "reply"
      /\ published' \subseteq published \cup (IF Creating(g) THEN {req[g].id} ELSE {})
      /\ published \subseteq published'
      /\ UNCHANGED <<repo, files, issued>>
  BY DEF Reply, Creating
<1>2. Owned'
  BY <1>1 DEF OwnershipInv, Owned, Creating
<1>3. BaselineFirst'
  BY <1>1 DEF OwnershipInv, BaselineFirst, CreatePcs
<1>4. CopiesKeepStatus'
  BY <1>1 DEF OwnershipInv, CopiesKeepStatus, BackgroundPcs, LayoutPcs
<1> QED
  BY <1>2, <1>3, <1>4 DEF OwnershipInv

(* So does a restart: no handler is left to own a task.                    *)
LEMMA RestartKeeps ==
  ASSUME UNCHANGED storage, Inv, Restart
  PROVE  OwnershipInv'
<1>1. \A h \in Handlers : pc'[h] = "idle"
  BY DEF Restart
<1>2. \A id \in TaskIDs : repo'[id].status \in {"none", repo[id].status}
  BY DEF Restart, NoTask
<1> QED
  BY <1>1, <1>2 DEF Restart, Inv, OwnershipInv, Owned, Creating, BaselineFirst, CopiesKeepStatus,
                    CreatePcs, BackgroundPcs, LayoutPcs

(* What any step may do to the status of a task. *)
StatusMoves(id) ==
  repo[id].status \in {"done", "failed"} =>
    \/ repo'[id].status = repo[id].status
    \/ storage = "memory" /\ repo'[id] = NoTask /\ pc' = [g \in Handlers |-> "idle"]

(* The invariant is inductive.                                             *)
LEMMA InvNext ==
  ASSUME Inv, [Next]_vars
  PROVE  Inv' /\ \A id \in TaskIDs : StatusMoves(id)
<1> USE DEF StatusMoves
<1>0. UNCHANGED storage
  BY DEF Next, vars
<1>1. ASSUME NEW g \in Handlers, Start(g) PROVE Inv' /\ \A id \in TaskIDs : StatusMoves(id)
  BY <1>0, <1>1, TypeStart, StartKeeps DEF Inv, OwnershipInv, BaselineFirst
<1>2. ASSUME NEW g \in Handlers, Step(g) PROVE Inv' /\ \A id \in TaskIDs : StatusMoves(id)
  <2>1. TypeOK'
    BY <1>0, <1>2, TypeStep DEF Inv
  <2>2. CASE Serving(g)
    BY <1>0, <2>1, <2>2, ServingServes, ServesOwned, ServesCopies DEF Inv, OwnershipInv, Serves
  <2>3. CASE CreateStep(g)
    <3>1. Builds(g) /\ OwnershipInv'
      BY <1>0, <2>3, CreateStepKeeps
    <3>2. repo[req[g].id].status \in {"none", "processing"}
      BY <3>1 DEF Builds, Inv, OwnershipInv, BaselineFirst
    <3> QED
      BY <2>1, <3>1, <3>2 DEF Builds, Inv
  <2>4. CASE Reply(g)
    BY <1>0, <2>1, <2>4, ReplyKeeps DEF Inv, Reply
  <2> QED
    BY <1>2, <2>2, <2>3, <2>4 DEF Step, Serving
<1>3. CASE ConcurrentMapFatal \/ Crash
  <2>1. Restart /\ fatal' \in BOOLEAN
    BY <1>3 DEF ConcurrentMapFatal, Crash, Inv, TypeOK
  <2> QED
    BY <1>0, <2>1, TypeRestart, RestartKeeps DEF Inv, Restart
<1>4. CASE UNCHANGED vars
  BY <1>4 DEF vars, history, Inv, TypeOK, Placed, Rows, OwnershipInv, Owned, Creating,
              BaselineFirst, CopiesKeepStatus
<1> QED
  BY <1>1, <1>2, <1>3, <1>4 DEF Next

(* And it holds of the empty server.                                       *)
LEMMA InvInit == Init => Inv
<1> SUFFICES ASSUME Init PROVE Inv
  OBVIOUS
<1>1. TypeOK
  BY TypeInit
<1>2. OwnershipInv
  BY DEF Init, NoTask, OwnershipInv, Owned, Creating, BaselineFirst, CopiesKeepStatus,
         CreatePcs, BackgroundPcs, LayoutPcs
<1> QED
  BY <1>1, <1>2 DEF Inv

(* One handler at a time creates a task, the baseline is whole before the  *)
(* task is done, and stale copies never carry a stale status.              *)
THEOREM Ownership == Spec => []OwnershipInv
<1>1. Inv /\ [Next]_vars => Inv'
  BY InvNext
<1>2. Inv => OwnershipInv
  BY DEF Inv
<1> QED
  BY InvInit, <1>1, <1>2, PTL DEF Spec

(* A settled status is never changed by a later request, however requests  *)
(* interleave, rows go stale, queries fail and the process crashes.        *)
THEOREM StatusNeverChanges == Spec => StatusFinal
<1>1. Inv /\ [Next]_vars => Inv'
  BY InvNext
<1>2. Inv /\ [Next]_vars =>
        [\A id \in TaskIDs : repo[id].status \in {"done", "failed"} =>
           \/ repo'[id].status = repo[id].status
           \/ storage = "memory" /\ repo'[id] = NoTask /\ pc' = [g \in Handlers |-> "idle"]]_vars
  BY InvNext DEF StatusMoves
<1> QED
  BY InvInit, <1>1, <1>2, PTL DEF Spec, StatusFinal

(* The image in hand for a task that is done is on the background asked    *)
(* for: RenderColor read a whole baseline.                                 *)
Rendered ==
  \A g \in Handlers :
    pc[g] \in {"open_color", "flush_color"} /\ repo[req[g].id].status = "done"
      => data[g] = colorHexOf(req[g].color)

(* What is rendered for a finished task stays on the colour asked for.     *)
LEMMA RenderedNext ==
  ASSUME Inv, Rendered, [Next]_vars
  PROVE  Rendered'
<1> SUFFICES ASSUME NEW h \in Handlers, pc'[h] \in {"open_color", "flush_color"},
                    repo'[req'[h].id].status = "done"
             PROVE  data'[h] = colorHexOf(req'[h].color)
  BY DEF Rendered
<1> USE DEF At, Goto, Hold, history
<1>0. UNCHANGED storage
  BY DEF Next, vars
<1>1. pc[h] # "idle" => req[h].id \in TaskIDs /\ req[h].id \in issued
  BY Busy DEF Inv, TypeOK, Placed
<1>2. ASSUME NEW g \in Handlers, Start(g) PROVE data'[h] = colorHexOf(req'[h].color)
  <2>1. /\ \A id \in issued : repo'[id].status = repo[id].status
        /\ data' = data
    BY <1>0, <1>2, StartKeeps DEF Start, Create, Request, RequestRefused
  <2>2. /\ \A k \in Handlers \ {g} : pc'[k] = pc[k] /\ req'[k] = req[k]
        /\ pc'[g] \notin {"open_color", "flush_color"}
    BY <1>2 DEF Start, Create, Request, RequestRefused, Begin, Answer, FirstPc, Inv, TypeOK
  <2> QED
    BY <1>1, <2>1, <2>2 DEF Rendered
<1>3. ASSUME NEW g \in Handlers, Serving(g) PROVE data'[h] = colorHexOf(req'[h].color)
  <2>1. Serves(g)
    BY <1>0, <1>3, ServingServes
  <2>2. CASE h # g
    BY <1>1, <2>1, <2>2 DEF Serves, Rendered
  <2>3. CASE h = g
    <3>1. req[g].id \in TaskIDs /\ repo[req[g].id].status = "done" /\ req' = req
      BY <1>1, <2>1, <2>3 DEF Serves
    <3>2. CASE RenderColor(g)
      BY <2>3, <3>1, <3>2, FilePaths DEF RenderColor, Render, Content, Inv, TypeOK, OwnershipInv, BaselineFirst
    <3>3. CASE OpenColor(g)
      BY <2>3, <3>1, <3>3 DEF OpenColor, Rendered
    <3>4. pc'[g] \in {"open_color", "flush_color"}
      BY <2>3
    <3>5. ~RenderColor(g) /\ ~OpenColor(g) => pc'[g] \notin {"open_color", "flush_color"}
      BY <1>3 DEF Serving, BackgroundStep, LayoutStep, GetHit, GetMiss, FlushColor, PutBackground, BeginRecord,
        EndRecord, LayoutHit, LayoutMiss, ComposeLayout, ComposeRefused, OpenLayout, FlushLayout, PutLayout,
        BeginLayoutRecord, EndLayoutRecord, GetRefused, FailRequest, Encode, Answer, BackgroundReturns, Inv, TypeOK
    <3> QED
      BY <3>2, <3>3, <3>4, <3>5
  <2> QED
    BY <2>2, <2>3
<1>4. ASSUME NEW g \in Handlers, CreateStep(g) PROVE data'[h] = colorHexOf(req'[h].color)
  <2>1. Builds(g)
    BY <1>0, <1>4, CreateStepKeeps
  <2>2. h # g
    BY <2>1 DEF Builds, CreatePcs
  <2>3. pc[h] \in {"open_color", "flush_color"} /\ req[h].id # req[g].id
    BY <2>1, <2>2 DEF Builds, Inv, OwnershipInv, Owned, Creating
  <2> QED
    BY <1>1, <2>1, <2>2, <2>3 DEF Builds, Rendered
<1>5. ASSUME NEW g \in Handlers, Reply(g) PROVE data'[h] = colorHexOf(req'[h].color)
  BY <1>5 DEF Reply, Rendered, Inv, TypeOK
<1>6. CASE ConcurrentMapFatal \/ Crash
  BY <1>6 DEF ConcurrentMapFatal, Crash, Restart
<1>7. CASE UNCHANGED vars
  BY <1>7 DEF vars, Rendered
<1> QED
  BY <1>2, <1>3, <1>4, <1>5, <1>6, <1>7 DEF Next, Step, Serving

(* No request for a finished task ever meets a torn baseline. *)
THEOREM BaselineSafe == Spec => []BaselineNeverTorn
<1>1. Init => Inv /\ Rendered
  BY InvInit DEF Init, Rendered
<1>2. Inv /\ Rendered /\ [Next]_vars => Inv' /\ Rendered'
  BY InvNext, RenderedNext
<1>3. Inv /\ Rendered => BaselineNeverTorn
  BY DEF Inv, TypeOK, OwnershipInv, BaselineFirst, Rendered, BaselineNeverTorn
<1> QED
  BY <1>1, <1>2, <1>3, PTL DEF Spec

----------------------------------------------------------------------------
(* What PublishedIsSettled needs besides: a task is settled when the answer *)
(* that will tell its id is ready.                                         *)
AnsweredIsSettled ==
  \A g \in Handlers : pc[g] = "reply" /\ Creating(g) => repo[req[g].id].status \in {"done", "failed"}

(* CreateTask answers when it has saved a settled status.                  *)
LEMMA AnswersSettled ==
  ASSUME UNCHANGED storage, storage = "postgres", ~RepoMayFail, Inv, NEW g \in Handlers, CreateStep(g), pc'[g] = "reply"
  PROVE  repo'[req[g].id].status \in {"done", "failed"}
<1>1. req[g].id \in TaskIDs /\ req[g].color \in Colors
  BY Busy, PcsAreBusy, CreateStepKeeps DEF Builds, Inv
<1>2. task[g] \in Tasks /\ WithColor(task[g], req[g].color) \in Tasks
  BY <1>1, TaskOperators DEF Inv, TypeOK
<1>3. Object(req[g].id, task[g]) = task[g]
  BY ServiceAssumption DEF Object
<1>4. ASSUME NEW t \in Tasks, t.status \in {"done", "failed"}, SaveAndAnswer(g, t)
      PROVE  repo'[req[g].id].status \in {"done", "failed"}
  <2>1. repo' = [repo EXCEPT ![req[g].id] = Stored(t)]
    BY <1>4 DEF SaveAndAnswer, Saves, Fails
  <2>2. Stored(t).status = t.status
    BY <1>1, StatusOf
  <2> QED
    BY <1>1, <1>4, <2>1, <2>2 DEF Inv, TypeOK
<1>5. CASE Finish(g)
  <2> DEFINE t == Done(WithColor(task[g], req[g].color))
  <2>1. t \in Tasks /\ t.status = "done"
    BY <1>1, <1>2, TaskOperators, StatusOf
  <2>2. SaveAndAnswer(g, t)
    BY <1>3, <1>5 DEF Finish
  <2> QED
    BY <1>4, <2>1, <2>2
<1>6. CASE FailTask(g)
  <2>1. Failed(task[g]) \in Tasks /\ Failed(task[g]).status = "failed"
    BY <1>1, <1>2, TaskOperators, StatusOf
  <2>2. SaveAndAnswer(g, Failed(task[g]))
    BY <1>3, <1>6 DEF FailTask
  <2> QED
    BY <1>4, <2>1, <2>2
<1>7. CASE IDPhoto(g) \/ FlushBaseline(g) \/ AddBackground(g) \/ FlushDefault(g)
  BY <1>7 DEF IDPhoto, FlushBaseline, AddBackground, FlushDefault, Goto, Inv, TypeOK
<1> QED
  BY <1>5, <1>6, <1>7 DEF CreateStep

(* Being settled, once published or about to be, is inductive.             *)
LEMMA SettledNext ==
  ASSUME storage = "postgres", ~RepoMayFail, Inv, PublishedIsSettled, AnsweredIsSettled, [Next]_vars
  PROVE  PublishedIsSettled' /\ AnsweredIsSettled'
<1> DEFINE Settled(id) == repo[id].status \in {"done", "failed"}
<1>0. UNCHANGED storage
  BY DEF Next, vars
<1>1. \A id \in TaskIDs : Settled(id) => Settled(id)'
  BY InvNext, ServiceAssumption DEF StatusMoves
<1>2. \A h \in Handlers : pc[h] # "idle" => req[h].id \in TaskIDs
  BY Busy DEF Inv
<1>3. published \subseteq TaskIDs
  BY DEF Inv, TypeOK
<1>4. ASSUME published' = published PROVE PublishedIsSettled'
  BY <1>1, <1>3, <1>4 DEF PublishedIsSettled
<1>5. ASSUME NEW h \in Handlers, pc[h] = "reply", Creating(h), req'[h] = req[h]
      PROVE  repo'[req'[h].id].status \in {"done", "failed"}
  BY <1>1, <1>2, <1>5 DEF AnsweredIsSettled, Creating
<1>6. ASSUME NEW g \in Handlers, Start(g) PROVE PublishedIsSettled' /\ AnsweredIsSettled'
  <2>1. published' = published /\ \A h \in Handlers \ {g} : pc'[h] = pc[h] /\ req'[h] = req[h]
    BY <1>6 DEF Start, Create, Request, RequestRefused, Begin, Answer, Goto, history, Inv, TypeOK
  <2>2. ~(pc'[g] = "reply" /\ Creating(g)')
    BY <1>6 DEF Start, Create, Request, RequestRefused, Begin, Answer, Goto, Creating, Inv, TypeOK
  <2> QED
    BY <1>4, <1>5, <2>1, <2>2 DEF AnsweredIsSettled, Creating
<1>7. ASSUME NEW g \in Handlers, Serving(g) PROVE PublishedIsSettled' /\ AnsweredIsSettled'
  <2>1. Serves(g)
    BY <1>0, <1>7, ServingServes
  <2> QED
    BY <1>4, <1>5, <2>1 DEF Serves, AnsweredIsSettled, Creating
<1>8. ASSUME NEW g \in Handlers, CreateStep(g) PROVE PublishedIsSettled' /\ AnsweredIsSettled'
  <2>1. Builds(g) /\ (pc'[g] = "reply" => repo'[req'[g].id].status \in {"done", "failed"})
    BY <1>0, <1>8, CreateStepKeeps, AnswersSettled DEF Builds
  <2> QED
    BY <1>4, <1>5, <2>1 DEF Builds, AnsweredIsSettled, Creating
<1>9. ASSUME NEW g \in Handlers, Reply(g) PROVE PublishedIsSettled' /\ AnsweredIsSettled'
  <2>1. repo' = repo /\ pc[g] = "reply" /\ pc'[g] = "idle"
        /\ \A h \in Handlers \ {g} : pc'[h] = pc[h] /\ req'[h] = req[h]
    BY <1>9 DEF Reply, At, Goto, Inv, TypeOK
  <2>2. PublishedIsSettled'
    BY <1>9, <2>1 DEF Reply, PublishedIsSettled, AnsweredIsSettled, Creating
  <2> QED
    BY <1>5, <2>1, <2>2 DEF AnsweredIsSettled, Creating
<1>10. CASE ConcurrentMapFatal \/ Crash
  BY <1>4, <1>10 DEF ConcurrentMapFatal, Crash, Restart, AnsweredIsSettled
<1>11. CASE UNCHANGED vars
  BY <1>11 DEF vars, history, PublishedIsSettled, AnsweredIsSettled, Creating
<1> QED
  BY <1>6, <1>7, <1>8, <1>9, <1>10, <1>11 DEF Next, Step, Serving

(* In PostgreSQL, and while queries do not fail, a client never meets a    *)
(* task that is still processing or unknown, whatever crashes happen: POST *)
(* answers after the last Put, and later Puts keep the status.             *)
THEOREM ClientsMeetSettledTasks ==
  ASSUME Storages = {"postgres"}, ~RepoMayFail
  PROVE  Spec => []PublishedIsSettled
<1>0. Inv => storage = "postgres"
  BY DEF Inv, TypeOK
<1>1. Init => Inv /\ PublishedIsSettled /\ AnsweredIsSettled
  BY InvInit DEF Init, PublishedIsSettled, AnsweredIsSettled
<1>2. Inv /\ PublishedIsSettled /\ AnsweredIsSettled /\ [Next]_vars
        => Inv' /\ PublishedIsSettled' /\ AnsweredIsSettled'
  BY <1>0, InvNext, SettledNext
<1> QED
  BY <1>1, <1>2, PTL DEF Spec
=============================================================================
