---------------------------- MODULE TaskService ----------------------------
(***************************************************************************)
(* The ID-photo task service: the HTTP handlers of internal/server for     *)
(* tasks, internal/usecase/task_service.go, the task repositories and the  *)
(* asset writer.                                                           *)
(*                                                                         *)
(* A handler is the goroutine of one request; pc[g] is the place it has    *)
(* reached and the other functions of g are its locals.  A place ends      *)
(* where the goroutine touches something shared (the repository, a file),  *)
(* so everything between two places is local.  In memory, Repo.Get hands   *)
(* out a pointer to the shared task object, and the object is repo[id]     *)
(* itself; in PostgreSQL it fills a fresh object from the row, and Put     *)
(* writes every column of it back.                                         *)
(*                                                                         *)
(* Task ids are 128 random bits: an id is issued once, and a client can    *)
(* only ask about one that an answer told it.  GET of an order tells ids   *)
(* as well, but an order is made with an id its client already knows.      *)
(*                                                                         *)
(* The file of a colour is what filepath.Join makes of the directory of    *)
(* the task and the colour with ".jpg" behind it, and nothing validates a  *)
(* colour: two names may lead to one file, to the sheet, or into the       *)
(* directory of another task, but never to a baseline.png.  Joined is any  *)
(* such choice; a name that leads to no directory only ever fails.         *)
(***************************************************************************)
EXTENDS PhotoTask

CONSTANTS
  Handlers,     \* goroutines; a slot serves one request after the other
  TaskIDs,      \* bounds the number of tasks ever created
  Joined,       \* filepath.Join of a task's directory and a colour's name
  Storages,     \* what the repository may keep tasks in: "memory", "postgres"
  RepoMayFail,  \* a database may answer a query with an error
  MayCrash      \* the process may be killed and started again

ASSUME ServiceAssumption ==
  /\ Storages \subseteq {"memory", "postgres"}
  /\ RepoMayFail \in BOOLEAN
  /\ MayCrash \in BOOLEAN
  /\ None \notin TaskIDs
  /\ Joined \in [TaskIDs -> [Colors -> [dir : TaskIDs, name : Colors \cup {Layout}]]]

VARIABLES
  storage,    \* what the repository keeps tasks in
  repo,       \* task objects of the memory repository, or rows of table tasks
  files,      \* what is in the files of each task's directory
  issued,     \* ids randomID has returned
  published,  \* ids an answer of POST /api/tasks has told a client
  fatal,      \* Go's "fatal error: concurrent map ..." has killed the process
  pc,         \* per handler: the place it has reached
  req,        \*   the operation and its arguments
  task,       \*   a private task object: t of CreateTask, GenerateLayout or a GET
  btask,      \*   the private t of GenerateBackground
  data,       \*   the image in memory
  answer      \*   the status code and the file whose URL is answered

history == <<issued, published, fatal>>
vars    == <<storage, repo, files, history, pc, req, task, btask, data, answer>>

Ops == {"create", "background", "layout", "get", "download"}

CreatePcs     == {"idphoto", "flush_baseline", "add_background", "flush_default", "finish"}
BackgroundPcs == {"get", "render", "open_color", "flush_color", "record", "recording"}
LayoutPcs     == {"layout_get", "compose", "open_layout", "flush_layout",
                  "layout_record", "layout_recording"}
Pcs           == {"idle", "encode", "reply"} \cup CreatePcs \cup BackgroundPcs \cup LayoutPcs

Requests == [op : Ops \cup {None}, id : TaskIDs \cup {None}, color : Colors \cup {None}]
Answers  == [code : {0, 200, 400, 404, 500}, url : FileNames \cup {None}]

NoRequest == [op |-> None, id |-> None, color |-> None]
NoAnswer  == [code |-> 0, url |-> None]

Init == /\ storage \in Storages
        /\ repo = [id \in TaskIDs |-> NoTask]
        /\ files = [id \in TaskIDs |-> [f \in FileNames |-> "none"]]
        /\ issued = {}
        /\ published = {}
        /\ fatal = FALSE
        /\ pc     = [g \in Handlers |-> "idle"]
        /\ req    = [g \in Handlers |-> NoRequest]
        /\ task   = [g \in Handlers |-> NoTask]
        /\ btask  = [g \in Handlers |-> NoTask]
        /\ data   = [g \in Handlers |-> "none"]
        /\ answer = [g \in Handlers |-> NoAnswer]

----------------------------------------------------------------------------
(* Repository.  A copy is only kept where the program has one: the memory  *)
(* repository shares the object.  A failing Put is not noticed, and a      *)
(* failing Get is "not found".                                             *)
Fails == RepoMayFail /\ storage = "postgres"

Copy(t)          == IF storage = "memory" THEN NoTask ELSE t
Object(id, copy) == IF storage = "memory" THEN repo[id] ELSE copy
Stored(t)        == IF storage = "memory" THEN t ELSE Row(t)
Saves(id, t)     == {[repo EXCEPT ![id] = Stored(t)]} \cup (IF Fails THEN {repo} ELSE {})

Found(id)   == repo[id].status # "none"
Missing(id) == ~Found(id) \/ Fails

(* Assets.  os.WriteFile truncates the file and then writes it; the static *)
(* handler serves under a colour's URL the file that its name leads to.    *)
BaselineFile(id)        == [dir |-> id, name |-> Baseline]
LayoutFile(id)          == [dir |-> id, name |-> Layout]
DefaultColorFile(id, c) == Joined[id]["white"]   \* mutant: every colour is written to one file
ColorFile(id, c)        == Joined[id][c]
LayoutSource(id, c)     == Joined[id][Lower[c]]
Served(id, c)           == Joined[id][c]
Content(f)              == files[f.dir][f.name]
Truncated(f)            == [files EXCEPT ![f.dir][f.name] = "damaged"]
Flushed(f, x)           == [files EXCEPT ![f.dir][f.name] = x]

(* What the handlers do to a task object.  The operators marked "mutant"   *)
(* are used nowhere: each is a plausible bug in the next definition, and   *)
(* shows that a property would notice it.                                  *)
NeverHasColor(t, c) == FALSE                                \* mutant: no look in ProcessedUrls
HasColor(t, c)   == c \in t.processed

FailureDropped(t) == t                                      \* mutant: the status is not set
FailureIgnored(t) == [t EXCEPT !.status = "done"]           \* mutant: the error is not looked at
FailureMisnamed(t) == [t EXCEPT !.status = "error"]         \* mutant: not a domain.Status
Failed(t)        == [t EXCEPT !.status = "failed"]

WithBaseline(t)  == [t EXCEPT !.baseline = TRUE]

ColorSettles(t, c)   == [t EXCEPT !.processed = @ \cup {c}, !.status = "done"]  \* mutant: as CreateTask does
ColorReplaces(t, c)  == [t EXCEPT !.processed = {c}]        \* mutant: a new map for every colour
ColorDropped(t, c)   == t                                   \* mutant: the URL is not recorded
WithColor(t, c)  == [t EXCEPT !.processed = @ \cup {c}]

WithLayout(t)    == [t EXCEPT !.layout = TRUE]
Done(t)          == [t EXCEPT !.status = "done"]

At(g, p)   == pc[g] = p
Goto(g, p) == pc' = [pc EXCEPT ![g] = p]
Hold(g, x) == data' = [data EXCEPT ![g] = x]
Answer(g, code, url) == /\ answer' = [answer EXCEPT ![g] = [code |-> code, url |-> url]]
                        /\ Goto(g, "reply")
Begin(g, op, id, c)  == req' = [req EXCEPT ![g] = [op |-> op, id |-> id, color |-> c]]

(* The return of GenerateBackground: to its HTTP handler, or into          *)
(* GenerateLayout, which goes on to compose the sheet.                     *)
BackgroundReturns(g) ==
  \/ req[g].op = "layout" /\ Goto(g, "compose") /\ UNCHANGED answer
  \/ req[g].op # "layout" /\ Answer(g, 200, req[g].color)

----------------------------------------------------------------------------
(* POST /api/tasks: CreateTask.  c = None is an empty defaultBackground.   *)
BgColor(c) == IF c = None THEN "white" ELSE c

Create(g, id, c) ==
  /\ At(g, "idle")
  /\ id \notin issued
  /\ issued' = issued \cup {id}
  /\ repo' \in Saves(id, NewTask)
  /\ Begin(g, "create", id, BgColor(c))
  /\ task' = [task EXCEPT ![g] = Copy(NewTask)]
  /\ Goto(g, "idphoto")
  /\ UNCHANGED <<files, published, fatal, btask, data, answer>>

(* The algorithm service returns the matted image; baseline.png is opened. *)
IDPhoto(g) ==
  /\ At(g, "idphoto")
  /\ files' = Truncated(BaselineFile(req[g].id))
  /\ Hold(g, "rgba")
  /\ Goto(g, "flush_baseline")
  /\ UNCHANGED <<repo, history, req, task, btask, answer>>

FlushBaseline(g) ==
  LET id == req[g].id t == WithBaseline(Object(id, task[g])) IN
  /\ At(g, "flush_baseline")
  /\ files' = Flushed(BaselineFile(id), data[g])
  /\ repo' = IF storage = "memory" THEN [repo EXCEPT ![id] = t] ELSE repo
  /\ task' = [task EXCEPT ![g] = Copy(t)]
  /\ Goto(g, "add_background")
  /\ UNCHANGED <<history, req, btask, data, answer>>

AddBackground(g) ==
  LET c == req[g].color IN
  /\ At(g, "add_background")
  /\ files' = Truncated(ColorFile(req[g].id, c))
  /\ Hold(g, Render(data[g], colorHexOf(c)))
  /\ Goto(g, "flush_default")
  /\ UNCHANGED <<repo, history, req, task, btask, answer>>

FlushDefault(g) ==
  /\ At(g, "flush_default")
  /\ files' = Flushed(ColorFile(req[g].id, req[g].color), data[g])
  /\ Goto(g, "finish")
  /\ UNCHANGED <<repo, history, req, task, btask, data, answer>>

(* Save the task and answer it with 200, whatever its status and whatever  *)
(* Put returned.                                                           *)
SaveAndAnswer(g, t) ==
  /\ repo' \in Saves(req[g].id, t)
  /\ task' = [task EXCEPT ![g] = Copy(t)]
  /\ Answer(g, 200, None)
  /\ UNCHANGED <<files, history, req, btask, data>>

Finish(g) ==
  /\ At(g, "finish")
  /\ SaveAndAnswer(g, Done(WithColor(Object(req[g].id, task[g]), req[g].color)))

(* An algorithm call, a decoding or a write fails.                         *)
FailTask(g) ==
  /\ pc[g] \in CreatePcs \ {"finish"}
  /\ SaveAndAnswer(g, Failed(Object(req[g].id, task[g])))

----------------------------------------------------------------------------
(* The other handlers first look the task up.                              *)
FirstPc(op) == IF op = "background" THEN "get" ELSE IF op = "layout" THEN "layout_get" ELSE "encode"

Request(g, op, id, c) ==
  /\ At(g, "idle")
  /\ id \in published
  /\ Found(id)
  /\ op = "download" => repo[id].status = "done"
  /\ Begin(g, op, id, c)
  /\ task' = [task EXCEPT ![g] = IF op \in {"get", "download"} THEN Copy(repo[id]) ELSE NoTask]
  /\ Goto(g, FirstPc(op))
  /\ UNCHANGED <<repo, files, history, btask, data, answer>>

(* 404, or 400 for a download, which also wants the task to be done.       *)
RequestRefused(g, op, id, c) ==
  /\ At(g, "idle")
  /\ id \in published
  /\ Missing(id) \/ (op = "download" /\ repo[id].status # "done")
  /\ Begin(g, op, id, c)
  /\ Answer(g, IF op = "download" THEN 400 ELSE 404, None)
  /\ UNCHANGED <<repo, files, history, task, btask, data>>

(* GET /api/tasks/{id} and /api/download/{id}: the JSON encoder reads the  *)
(* object after Get has released the lock.                                 *)
Encode(g) ==
  /\ At(g, "encode")
  /\ task' = [task EXCEPT ![g] = Object(req[g].id, @)]
  /\ Answer(g, 200, None)
  /\ UNCHANGED <<repo, files, history, req, btask, data>>

(* The second Get, of GenerateBackground or GenerateLayout, finds nothing. *)
GetRefused(g) ==
  /\ pc[g] \in {"get", "layout_get"}
  /\ Missing(req[g].id)
  /\ Answer(g, 404, None)
  /\ UNCHANGED <<repo, files, history, req, task, btask, data>>

(* POST /api/tasks/{id}/background: GenerateBackground.                    *)
GetHit(g) ==
  /\ At(g, "get")
  /\ Found(req[g].id)
  /\ HasColor(repo[req[g].id], req[g].color)
  /\ BackgroundReturns(g)
  /\ UNCHANGED <<repo, files, history, req, task, btask, data>>

GetMiss(g) ==
  /\ At(g, "get")
  /\ Found(req[g].id)
  /\ ~HasColor(repo[req[g].id], req[g].color)
  /\ btask' = [btask EXCEPT ![g] = Copy(repo[req[g].id])]
  /\ Goto(g, "render")
  /\ UNCHANGED <<repo, files, history, req, task, data, answer>>

RenderColor(g) ==
  LET image == Content(BaselineFile(req[g].id)) IN
  /\ At(g, "render")
  /\ image # "none"
  /\ Hold(g, Render(image, colorHexOf(req[g].color)))
  /\ Goto(g, "open_color")
  /\ UNCHANGED <<repo, files, history, req, task, btask, answer>>

OpenColor(g) ==
  /\ At(g, "open_color")
  /\ files' = Truncated(ColorFile(req[g].id, req[g].color))
  /\ Goto(g, "flush_color")
  /\ UNCHANGED <<repo, history, req, task, btask, data, answer>>

FlushColor(g) ==
  /\ At(g, "flush_color")
  /\ files' = Flushed(ColorFile(req[g].id, req[g].color), data[g])
  /\ Goto(g, "record")
  /\ UNCHANGED <<repo, history, req, task, btask, data, answer>>

(* PostgreSQL: the private object gets the colour and the row is           *)
(* overwritten with it, stale columns and all.                             *)
PutBackground(g) ==
  /\ At(g, "record")
  /\ storage = "postgres"
  /\ repo' \in Saves(req[g].id, WithColor(btask[g], req[g].color))
  /\ BackgroundReturns(g)
  /\ UNCHANGED <<files, history, req, task, btask, data>>

(* Memory: the shared map is written with no lock held, so the write has a *)
(* beginning and an end.                                                   *)
BeginRecord(g) ==
  /\ At(g, "record")
  /\ storage = "memory"
  /\ Goto(g, "recording")
  /\ UNCHANGED <<repo, files, history, req, task, btask, data, answer>>

(* Another handler is at that place of the same task.                      *)
Meets(g, h, p) == h # g /\ pc[h] = p /\ req[h].id = req[g].id

EndRecord(g) ==
  LET id == req[g].id IN
  /\ At(g, "recording")
  /\ \/ repo' = [repo EXCEPT ![id] = WithColor(repo[id], req[g].color)]
     \/ /\ \E h \in Handlers : Meets(g, h, "recording")   \* both took the same free slot
        /\ UNCHANGED repo
  /\ BackgroundReturns(g)
  /\ UNCHANGED <<files, history, req, task, btask, data>>

(* POST /api/tasks/{id}/layout: GenerateLayout.                            *)
LayoutHit(g) ==
  /\ At(g, "layout_get")
  /\ Found(req[g].id)
  /\ repo[req[g].id].layout
  /\ Answer(g, 200, Layout)
  /\ UNCHANGED <<repo, files, history, req, task, btask, data>>

LayoutMiss(g) ==
  LET t == repo[req[g].id] IN
  /\ At(g, "layout_get")
  /\ Found(req[g].id)
  /\ ~t.layout
  /\ task' = [task EXCEPT ![g] = Copy(t)]
  /\ Goto(g, IF HasColor(t, req[g].color) THEN "compose" ELSE "get")
  /\ UNCHANGED <<repo, files, history, req, btask, data, answer>>

ComposeLayout(g) ==
  LET image == Content(LayoutSource(req[g].id, req[g].color)) IN
  /\ At(g, "compose")
  /\ image # "none"
  /\ Hold(g, Compose(image))
  /\ Goto(g, "open_layout")
  /\ UNCHANGED <<repo, files, history, req, task, btask, answer>>

(* The service answers but not OK: GenerateLayout returns "" and no error. *)
ComposeRefused(g) ==
  /\ At(g, "compose")
  /\ Content(LayoutSource(req[g].id, req[g].color)) # "none"
  /\ Answer(g, 200, None)
  /\ UNCHANGED <<repo, files, history, req, task, btask, data>>

OpenLayout(g) ==
  /\ At(g, "open_layout")
  /\ files' = Truncated(LayoutFile(req[g].id))
  /\ Goto(g, "flush_layout")
  /\ UNCHANGED <<repo, history, req, task, btask, data, answer>>

FlushLayout(g) ==
  /\ At(g, "flush_layout")
  /\ files' = Flushed(LayoutFile(req[g].id), data[g])
  /\ Goto(g, "layout_record")
  /\ UNCHANGED <<repo, history, req, task, btask, data, answer>>

PutLayout(g) ==
  /\ At(g, "layout_record")
  /\ storage = "postgres"
  /\ repo' \in Saves(req[g].id, WithLayout(task[g]))
  /\ Answer(g, 200, Layout)
  /\ UNCHANGED <<files, history, req, task, btask, data>>

BeginLayoutRecord(g) ==
  /\ At(g, "layout_record")
  /\ storage = "memory"
  /\ Goto(g, "layout_recording")
  /\ UNCHANGED <<repo, files, history, req, task, btask, data, answer>>

EndLayoutRecord(g) ==
  LET id == req[g].id IN
  /\ At(g, "layout_recording")
  /\ repo' = [repo EXCEPT ![id] = WithLayout(repo[id])]
  /\ Answer(g, 200, Layout)
  /\ UNCHANGED <<files, history, req, task, btask, data>>

(* A read, an algorithm call, a decoding or a write fails.  Only a refused *)
(* /add_background is mapped to 404.                                       *)
FailRequest(g) ==
  /\ pc[g] \in {"render", "open_color", "flush_color", "compose", "open_layout", "flush_layout"}
  /\ Answer(g, 500, None) \/ (At(g, "render") /\ Answer(g, 404, None))
  /\ UNCHANGED <<repo, files, history, req, task, btask, data>>

----------------------------------------------------------------------------
(* The answer is sent and the goroutine ends.                              *)
Reply(g) ==
  /\ At(g, "reply")
  /\ published' = IF req[g].op = "create" THEN published \cup {req[g].id} ELSE published
  /\ Goto(g, "idle")
  /\ req' = [req EXCEPT ![g] = NoRequest]
  /\ task' = [task EXCEPT ![g] = NoTask]
  /\ btask' = [btask EXCEPT ![g] = NoTask]
  /\ Hold(g, "none")
  /\ answer' = [answer EXCEPT ![g] = NoAnswer]
  /\ UNCHANGED <<repo, files, issued, fatal>>

(* The process dies and starts again: requests and memory are gone, files  *)
(* and rows stay.  Nothing is repaired at start-up.                        *)
Restart ==
  /\ pc'     = [g \in Handlers |-> "idle"]
  /\ req'    = [g \in Handlers |-> NoRequest]
  /\ task'   = [g \in Handlers |-> NoTask]
  /\ btask'  = [g \in Handlers |-> NoTask]
  /\ data'   = [g \in Handlers |-> "none"]
  /\ answer' = [g \in Handlers |-> NoAnswer]
  /\ repo' = IF storage = "memory" THEN [id \in TaskIDs |-> NoTask] ELSE repo
  /\ UNCHANGED <<files, issued, published>>

Crash == MayCrash /\ Restart /\ UNCHANGED fatal

(* Go ends the process, past every recover, when it notices that a map is  *)
(* touched while it is being written.                                      *)
TouchesProcessed(g) == pc[g] \in {"get", "layout_get", "record", "recording", "encode"}
TouchesLayouts(g)   == \/ pc[g] \in {"layout_get", "layout_record", "layout_recording"}
                       \/ At(g, "encode") /\ req[g].op = "get"

ConcurrentMapFatal ==
  /\ storage = "memory"
  /\ \E g, h \in Handlers : \/ Meets(g, h, "recording") /\ TouchesProcessed(g)
                            \/ Meets(g, h, "layout_recording") /\ TouchesLayouts(g)
  /\ fatal' = TRUE
  /\ Restart

CreateStep(g) == \/ IDPhoto(g) \/ FlushBaseline(g) \/ AddBackground(g)
                 \/ FlushDefault(g) \/ Finish(g) \/ FailTask(g)

BackgroundStep(g) == \/ GetHit(g) \/ GetMiss(g) \/ RenderColor(g) \/ OpenColor(g)
                     \/ FlushColor(g) \/ PutBackground(g) \/ BeginRecord(g) \/ EndRecord(g)

LayoutStep(g) == \/ LayoutHit(g) \/ LayoutMiss(g) \/ ComposeLayout(g) \/ ComposeRefused(g)
                 \/ OpenLayout(g) \/ FlushLayout(g) \/ PutLayout(g)
                 \/ BeginLayoutRecord(g) \/ EndLayoutRecord(g)

Step(g) == \/ CreateStep(g) \/ BackgroundStep(g) \/ LayoutStep(g)
           \/ GetRefused(g) \/ FailRequest(g) \/ Encode(g) \/ Reply(g)

Start(g) == \E id \in TaskIDs :
              \/ \E c \in Colors \cup {None} : Create(g, id, c)
              \/ \E op \in {"background", "layout"}, c \in Colors :
                   Request(g, op, id, c) \/ RequestRefused(g, op, id, c)
              \/ \E op \in {"get", "download"} :
                   Request(g, op, id, None) \/ RequestRefused(g, op, id, None)

Next == /\ \/ \E g \in Handlers : Start(g) \/ Step(g)
           \/ ConcurrentMapFatal
           \/ Crash
        /\ UNCHANGED storage

Spec == Init /\ [][Next]_vars

(* net/http runs every goroutine, and the algorithm service is assumed to  *)
(* answer: http.DefaultClient sets no timeout, so the code itself does not *)
(* make sure of it.  Clients owe nothing.                                  *)
FairSpec == Spec /\ \A g \in Handlers : WF_vars(Step(g) /\ UNCHANGED storage)

----------------------------------------------------------------------------
(* The places of an operation are only reached by its requests.            *)
Placed ==
  \A g \in Handlers :
    /\ pc[g] # "idle" => req[g].id \in issued /\ req[g].op \in Ops
    /\ pc[g] \in CreatePcs => req[g].op = "create"
    /\ pc[g] \in BackgroundPcs => req[g].op \in {"background", "layout"}
    /\ pc[g] \in LayoutPcs => req[g].op = "layout"
    /\ pc[g] = "encode" => req[g].op \in {"get", "download"}
    /\ pc[g] \in {"recording", "layout_recording"} => storage = "memory"
    /\ pc[g] # "idle" /\ req[g].op \in {"create", "background", "layout"} => req[g].color \in Colors

(* A row has no column for the layout and the baseline URL.                *)
Rows == storage = "postgres" => \A id \in TaskIDs : repo[id].layout = FALSE /\ repo[id].baseline = FALSE

(* Every variable holds what the program can put there.                    *)
TypeOK ==
  /\ storage \in Storages
  /\ repo \in [TaskIDs -> Tasks]
  /\ files \in [TaskIDs -> [FileNames -> Contents]]
  /\ issued \subseteq TaskIDs
  /\ published \subseteq issued
  /\ fatal \in BOOLEAN
  /\ pc \in [Handlers -> Pcs]
  /\ req \in [Handlers -> Requests]
  /\ task \in [Handlers -> Tasks]
  /\ btask \in [Handlers -> Tasks]
  /\ data \in [Handlers -> Contents]
  /\ answer \in [Handlers -> Answers]
  /\ Placed
  /\ Rows

(* Serving a finished task never meets a torn baseline: once a client      *)
(* knows the id of a done task, baseline.png is whole, and every image     *)
(* GenerateBackground has in hand for it is on the background asked for    *)
(* (task_service.go 86-94, 149-155).                                       *)
BaselineNeverTorn ==
  /\ \A id \in published : repo[id].status = "done" => files[id][Baseline] = "rgba"
  /\ \A g \in Handlers :
       pc[g] \in {"open_color", "flush_color"} /\ repo[req[g].id].status = "done"
         => data[g] = colorHexOf(req[g].color)

(* A colour whose file no other colour of any task, and no sheet, leads to. *)
Own(id, c) == /\ \A i \in TaskIDs, d \in Colors : Joined[i][d] = Joined[id][c] => i = id /\ d = c
              /\ \A i \in TaskIDs : LayoutFile(i) # Joined[id][c]

(* Unless some listed colour shares its file, a done task always has an    *)
(* image to download that is whole and on the right background, whatever   *)
(* the other handlers truncate, overwrite with stale rows or leave half    *)
(* written: the look in ProcessedUrls (146-148) keeps everyone off the     *)
(* file CreateTask wrote (125-137).                                        *)
DoneHasWholeImage ==
  \A id \in TaskIDs :
    repo[id].status = "done" /\ (\A c \in repo[id].processed : Own(id, c)) =>
      \E c \in repo[id].processed : Content(Served(id, c)) = colorHexOf(c)

(* No URL dangles: what the repository lists exists under /assets, whatever *)
(* the names lead to (166-172, 215-224).                                   *)
RecordedHasFile ==
  \A id \in TaskIDs :
    /\ \A c \in repo[id].processed : Content(Served(id, c)) # "none"
    /\ repo[id].layout => Content(LayoutFile(id)) # "none"

(* A settled status is never changed by a later request, though every Put  *)
(* writes the status column of an object read earlier (172, 224); only the *)
(* restart of a memory server loses it.                                    *)
StatusFinal ==
  [][\A id \in TaskIDs : repo[id].status \in {"done", "failed"} =>
       \/ repo'[id].status = repo[id].status
       \/ storage = "memory" /\ repo'[id] = NoTask /\ pc' = [g \in Handlers |-> "idle"]]_vars

(* While the database works, a client that knows an id finds the task      *)
(* settled, even after crashes: POST answers after the last Put (56-138).  *)
PublishedIsSettled ==
  \A id \in published : repo[id].status \in {"done", "failed"}

(* Unless two requests write a task at a time, every image the repository  *)
(* lists for a done one is whole and right, with failed writes and crashes *)
(* (146-172), except those that share their file with another name.        *)
RecordedIsWhole ==
  \A id \in TaskIDs, c \in Colors :
    repo[id].status = "done" /\ c \in repo[id].processed /\ Own(id, c)
      => Content(Served(id, c)) = colorHexOf(c)

(* Unless requests overlap on a task, the URL POST .../background answers  *)
(* is recorded, so that GET and download show it as well (170-173).        *)
AnsweredIsRecorded ==
  \A g \in Handlers :
    pc[g] = "reply" /\ req[g].op = "background" /\ answer[g].code = 200
      => req[g].color \in repo[req[g].id].processed

Creating(g) == pc[g] # "idle" /\ req[g].op = "create"

(* A task does not stay in processing: all paths of CreateTask save done   *)
(* or failed (59-138), except that a crash leaves a row nobody works on    *)
(* and no client has been told of.                                         *)
Orphaned(id) == id \notin published /\ \A g \in Handlers : Creating(g) => req[g].id # id

TaskSettles ==
  \A id \in TaskIDs :
    (repo[id].status = "processing") ~> (repo[id].status # "processing" \/ Orphaned(id))

(* The inductive invariant behind StatusFinal and BaselineNeverTorn.  Until *)
(* a client is told its id, a task belongs to the one handler that creates *)
(* it; afterwards no handler creates it any more.                          *)
Owned ==
  /\ \A g \in Handlers : Creating(g) => req[g].id \notin published
  /\ \A g, h \in Handlers : g # h /\ Creating(g) /\ Creating(h) => req[g].id # req[h].id
  /\ \A g \in Handlers : pc[g] # "idle" /\ ~Creating(g) => req[g].id \in published

(* The baseline is written in full before the status can become done.      *)
BaselineFirst ==
  /\ \A id \in TaskIDs : id \notin issued => repo[id].status = "none"
  /\ \A id \in TaskIDs : repo[id].status = "done" => files[id][Baseline] = "rgba"
  /\ \A g \in Handlers :
       /\ pc[g] \in CreatePcs => repo[req[g].id].status \in {"none", "processing"}
       /\ pc[g] = "flush_baseline" => data[g] = "rgba"
       /\ pc[g] \in {"add_background", "flush_default", "finish"} => files[req[g].id][Baseline] = "rgba"

(* However stale a private copy of a row is, its status is not.            *)
CopiesKeepStatus ==
  storage = "postgres" => \A g \in Handlers :
    /\ pc[g] \in {"render", "open_color", "flush_color", "record"}
         => btask[g].status = repo[req[g].id].status
    /\ pc[g] \in (BackgroundPcs \cup LayoutPcs) \ {"layout_get"} /\ req[g].op = "layout"
         => task[g].status = repo[req[g].id].status

OwnershipInv == Owned /\ BaselineFirst /\ CopiesKeepStatus

(* The service implements the table of TaskCatalog in both storages.       *)
Catalog == INSTANCE TaskCatalog WITH
  volatile <- (storage = "memory"),
  used     <- issued,
  catalog  <- [id \in TaskIDs |-> [status |-> repo[id].status, images |-> repo[id].processed,
                                   layout |-> repo[id].layout]]
ImplementsCatalog == Catalog!CatalogSpec

----------------------------------------------------------------------------
(* What the documents say and the code does not do.                        *)

(* docs/开发架构规范.md:115-117: no panic; memory is guarded by a RWMutex. *)
NoMapRace == ~fatal

(* docs/API对接文档_V1.md:92-93: a layout answer carries its URL.          *)
LayoutAnswerHasUrl ==
  \A g \in Handlers : pc[g] = "reply" /\ req[g].op = "layout" /\ answer[g].code = 200
                        => answer[g].url # None
=============================================================================
