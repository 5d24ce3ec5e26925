-------------------------- MODULE TaskFiles_proofs --------------------------
(***************************************************************************)
(* Proofs about TaskService and its files.                                 *)
(*                                                                         *)
(* What the repository lists is in the directory of the task.  No file     *)
(* ever goes away, and a URL is put into an object, shared or private,     *)
(* behind the write of its file; so every object a handler holds only      *)
(* lists files that exist, however stale it is, and so does whatever Put   *)
(* makes of it.                                                            *)
(*                                                                         *)
(* A done task has an image to download.  The one that stays is the image  *)
(* CreateTask made: it is listed before the task is done, so               *)
(* GenerateBackground finds it in every object it reads and keeps off its  *)
(* file, and every stale copy that is put back lists it.  It stays whole if *)
(* no other name leads to its file: no step for another colour, another    *)
(* task or a sheet can reach it then (OwnStays).                           *)
(*                                                                         *)
(* Unless two requests write one task at a time, all that is listed of a   *)
(* done task in a file of its own is whole: a request writes only the file *)
(* of a colour that is not listed, and nobody else can list it before the  *)
(* file is complete.                                                       *)
(***************************************************************************)
EXTENDS TaskService_proofs

(* An object of task i that lists no missing file. *)
There(F, f) == F[f.dir][f.name] # "none"

Named(i, F, t) == /\ \A c \in t.processed : There(F, ColorFile(i, c))
                  /\ t.layout => There(F, LayoutFile(i))

Grown(F, G) == \A f \in Paths : There(F, f) => There(G, f)

Holding == {"flush_baseline", "add_background", "flush_default", "open_color", "flush_color",
            "open_layout", "flush_layout"}

(* What a handler holds: no missing file is listed, the file it is about   *)
(* to list is there, and the image it is about to write is one.            *)
HandlerListed(g) ==
  LET i == req[g].id IN
  /\ pc[g] = "idle" => task[g] = NoTask /\ btask[g] = NoTask
  /\ pc[g] # "idle" => Named(i, files, task[g]) /\ Named(i, files, btask[g])
  /\ pc[g] \in {"finish", "record", "recording"} => There(files, ColorFile(i, req[g].color))
  /\ pc[g] \in {"layout_record", "layout_recording"} => There(files, LayoutFile(i))
  /\ pc[g] \in Holding => data[g] # "none"

Listed == /\ \A id \in TaskIDs : Named(id, files, repo[id])
          /\ \A g \in Handlers : HandlerListed(g)

LEMMA NamedOperators ==
  ASSUME NEW i, NEW F, NEW t \in Tasks, Named(i, F, t)
  PROVE  /\ Named(i, F, NoTask) /\ Named(i, F, NewTask)
         /\ Named(i, F, Failed(t)) /\ Named(i, F, Done(t)) /\ Named(i, F, WithBaseline(t))
         /\ Named(i, F, Copy(t)) /\ Named(i, F, Stored(t))
         /\ \A c \in Colors : There(F, ColorFile(i, c)) => Named(i, F, WithColor(t, c))
         /\ There(F, LayoutFile(i)) => Named(i, F, WithLayout(t))
  BY DEF Named, Tasks, NoTask, NewTask, Failed, Done, WithBaseline, Copy, Stored, Row, WithColor, WithLayout

LEMMA NamedGrows ==
  ASSUME NEW i \in TaskIDs, NEW F, NEW G, Grown(F, G), NEW t \in Tasks, Named(i, F, t)
  PROVE  Named(i, G, t)
  BY FilePaths DEF Named, Grown, Tasks

(* Opening a file keeps it there; writing an image into it does.           *)
LEMMA FilesGrow ==
  ASSUME files \in [TaskIDs -> [FileNames -> Contents]], NEW f \in Paths, NEW x, x # "none",
         files' = Truncated(f) \/ files' = Flushed(f, x)
  PROVE  Grown(files, files') /\ There(files', f)
<1>1. f.dir \in TaskIDs /\ f.name \in FileNames
  BY DEF Paths
<1>2. There(files', f)
  BY <1>1 DEF Truncated, Flushed, There
<1>3. ASSUME NEW h \in Paths, There(files, h) PROVE There(files', h)
  <2>1. h.dir \in TaskIDs /\ h.name \in FileNames
    BY DEF Paths
  <2> QED
    BY <1>1, <1>3, <2>1 DEF Truncated, Flushed, There
<1> QED
  BY <1>2, <1>3 DEF Grown

LEMMA PutsNamed ==
  ASSUME TypeOK, NEW i \in TaskIDs, NEW t \in Tasks, repo' \in Saves(i, t),
         \A id \in TaskIDs : Named(id, files, repo[id]), Named(i, files, t)
  PROVE  \A id \in TaskIDs : Named(id, files, repo'[id])
<1>1. Named(i, files, Stored(t))
  BY NamedOperators
<1> QED
  BY <1>1 DEF Saves, TypeOK

Alone(g) == \A h \in Handlers \ {g} : /\ pc'[h] = pc[h] /\ req'[h] = req[h] /\ data'[h] = data[h]
                                      /\ task'[h] = task[h] /\ btask'[h] = btask[h]

(* The objects of the other handlers stay as good as they were.            *)
LEMMA ListedRest ==
  ASSUME Inv, Listed, NEW g \in Handlers, Alone(g),
         Grown(files, files') /\ \A id \in TaskIDs : Named(id, files', repo'[id]), HandlerListed(g)'
  PROVE  Listed'
<1>1. ASSUME NEW h \in Handlers \ {g} PROVE HandlerListed(h)'
  <2>1. HandlerListed(h) /\ task[h] \in Tasks /\ btask[h] \in Tasks
    BY DEF Listed, Inv, TypeOK
  <2>2. CASE pc[h] = "idle"
    BY <1>1, <2>1, <2>2 DEF Alone, HandlerListed, Holding
  <2>3. CASE pc[h] # "idle"
    <3>1. req[h].id \in TaskIDs /\ (pc[h] \in CreatePcs \cup BackgroundPcs \cup LayoutPcs => req[h].color \in Colors)
      BY <2>3, Busy DEF Inv
    <3>2. Grown(files, files')
      BY <3>1
    <3>3. Named(req[h].id, files', task[h]) /\ Named(req[h].id, files', btask[h])
      BY <2>1, <2>3, <3>1, <3>2, NamedGrows DEF HandlerListed
    <3>4. pc[h] \in {"finish", "record", "recording"} => There(files', ColorFile(req[h].id, req[h].color))
      BY <2>1, <3>1, <3>2, FilePaths DEF HandlerListed, Grown, CreatePcs, BackgroundPcs
    <3>5. pc[h] \in {"layout_record", "layout_recording"} => There(files', LayoutFile(req[h].id))
      BY <2>1, <3>1, <3>2, FilePaths DEF HandlerListed, Grown
    <3> QED
      BY <1>1, <2>1, <2>3, <3>3, <3>4, <3>5 DEF Alone, HandlerListed
  <2> QED
    BY <2>2, <2>3
<1> QED
  BY <1>1 DEF Listed

(* A step that touches neither files nor objects. *)
LEMMA ListedQuiet ==
  ASSUME Inv, Listed, NEW g \in Handlers, pc[g] # "idle", pc'[g] # "idle", UNCHANGED <<repo, files, req, task, btask>>,
         \A h \in Handlers \ {g} : pc'[h] = pc[h] /\ data'[h] = data[h],
         pc'[g] \in {"finish", "record", "recording"} => pc[g] \in {"record", "recording"},
         pc'[g] \in {"layout_record", "layout_recording"} => pc[g] \in {"layout_record", "layout_recording"},
         pc'[g] \in Holding => data'[g] # "none"
  PROVE  Listed'
<1>1. Alone(g) /\ HandlerListed(g)'
  BY DEF Alone, Listed, HandlerListed
<1>2. Grown(files, files') /\ \A id \in TaskIDs : Named(id, files', repo'[id])
  BY DEF Grown, Listed
<1> QED
  BY <1>1, <1>2, ListedRest

LEMMA RenderedIsSome ==
  ASSUME NEW x \in Contents, NEW c \in Colors
  PROVE  Render(x, colorHexOf(c)) # "none"
  BY DEF Render, colorHexOf

----------------------------------------------------------------------------
(* The steps, one by one.                                                  *)
LEMMA ListedCreateStep ==
  ASSUME UNCHANGED storage, Inv, Listed, NEW g \in Handlers, CreateStep(g)
  PROVE  Listed'
<1> DEFINE i == req[g].id
           c == req[g].color
<1>1. /\ i \in TaskIDs /\ c \in Colors /\ repo[i] \in Tasks /\ task[g] \in Tasks /\ btask[g] \in Tasks
      /\ pc[g] \in CreatePcs /\ pc[g] # "idle" /\ Alone(g) /\ req' = req
  <2>1. pc[g] \in CreatePcs /\ pc[g] # "idle" /\ Builds(g)
    BY CreateStepKeeps, PcsAreBusy DEF Builds
  <2> QED
    BY <2>1, Busy DEF Builds, Alone, Inv, TypeOK
<1>2. /\ Named(i, files, repo[i]) /\ Named(i, files, task[g]) /\ Named(i, files, btask[g])
      /\ pc[g] = "finish" => There(files, ColorFile(i, c))
      /\ pc[g] \in Holding => data[g] # "none"
  BY <1>1 DEF Listed, HandlerListed
<1>3. /\ ColorFile(i, c) \in Paths /\ BaselineFile(i) \in Paths
      /\ files \in [TaskIDs -> [FileNames -> Contents]] /\ data[g] \in Contents
  BY <1>1, FilePaths DEF Inv, TypeOK
<1>4. \A id \in TaskIDs : repo[id] \in Tasks /\ Named(id, files, repo[id])
  BY DEF Listed, Inv, TypeOK
<1>5. Object(i, task[g]) \in Tasks /\ Named(i, files, Object(i, task[g]))
  BY <1>1, <1>2 DEF Object
<1> USE DEF At, Goto, Hold
<1>6. CASE IDPhoto(g) \/ AddBackground(g)
  <2>1. \/ files' = Truncated(BaselineFile(i)) /\ data'[g] = "rgba" /\ pc'[g] = "flush_baseline"
        \/ /\ files' = Truncated(ColorFile(i, c)) /\ data'[g] = Render(data[g], colorHexOf(c))
           /\ pc'[g] = "flush_default"
    BY <1>6 DEF IDPhoto, AddBackground, Inv, TypeOK
  <2>2. Grown(files, files')
    BY <1>1, <1>3, <2>1, FilesGrow
  <2>3. data'[g] # "none"
    BY <1>1, <1>3, <2>1, RenderedIsSome
  <2>4. repo' = repo /\ task' = task /\ btask' = btask
    BY <1>6 DEF IDPhoto, AddBackground
  <2>5. \A id \in TaskIDs : Named(id, files', repo'[id])
    BY <1>4, <2>2, <2>4, NamedGrows
  <2>6. Named(i, files', task[g]) /\ Named(i, files', btask[g])
    BY <1>1, <1>2, <2>2, NamedGrows
  <2>7. HandlerListed(g)'
    BY <1>1, <2>1, <2>3, <2>4, <2>6 DEF HandlerListed
  <2> QED
    BY <1>1, <2>2, <2>5, <2>7, ListedRest
<1>7. CASE FlushBaseline(g)
  <2> DEFINE t == WithBaseline(Object(i, task[g]))
  <2>1. files' = Flushed(BaselineFile(i), data[g]) /\ data[g] # "none" /\ pc'[g] = "add_background" /\ data' = data
    BY <1>2, <1>7 DEF FlushBaseline, Holding, Inv, TypeOK
  <2>2. Grown(files, files')
    BY <1>1, <1>3, <2>1, FilesGrow
  <2>3. t \in Tasks /\ Named(i, files, t) /\ Copy(t) \in Tasks /\ Named(i, files, Copy(t))
    <3>1. t \in Tasks /\ Named(i, files, t)
      BY <1>1, <1>5, TaskOperators, NamedOperators
    <3> QED
      BY <1>1, <3>1, TaskOperators, NamedOperators
  <2>4. repo' = IF storage = "memory" THEN [repo EXCEPT ![i] = t] ELSE repo
    BY <1>7 DEF FlushBaseline
  <2>5. \A id \in TaskIDs : repo'[id] \in Tasks /\ Named(id, files, repo'[id])
    BY <1>1, <1>4, <2>3, <2>4 DEF Inv, TypeOK
  <2>6. \A id \in TaskIDs : Named(id, files', repo'[id])
    BY <2>2, <2>5, NamedGrows
  <2>7. task'[g] = Copy(t) /\ btask' = btask
    BY <1>7 DEF FlushBaseline, Inv, TypeOK
  <2>8. Named(i, files', task'[g]) /\ Named(i, files', btask[g])
    BY <1>1, <1>2, <2>2, <2>3, <2>7, NamedGrows
  <2>9. HandlerListed(g)'
    BY <1>1, <2>1, <2>7, <2>8 DEF HandlerListed
  <2> QED
    BY <1>1, <2>2, <2>6, <2>9, ListedRest
<1>8. CASE FlushDefault(g)
  <2>1. files' = Flushed(ColorFile(i, c), data[g]) /\ data[g] # "none" /\ pc'[g] = "finish"
    BY <1>2, <1>8 DEF FlushDefault, Holding, Inv, TypeOK
  <2>2. Grown(files, files') /\ There(files', ColorFile(i, c))
    BY <1>1, <1>3, <2>1, FilesGrow
  <2>3. repo' = repo /\ task' = task /\ btask' = btask
    BY <1>8 DEF FlushDefault
  <2>4. \A id \in TaskIDs : Named(id, files', repo'[id])
    BY <1>4, <2>2, <2>3, NamedGrows
  <2>5. Named(i, files', task[g]) /\ Named(i, files', btask[g])
    BY <1>1, <1>2, <2>2, NamedGrows
  <2>6. HandlerListed(g)'
    BY <1>1, <2>1, <2>2, <2>3, <2>5 DEF HandlerListed, Holding
  <2> QED
    BY <1>1, <2>2, <2>4, <2>6, ListedRest
<1>9. ASSUME NEW t \in Tasks, Named(i, files, t), SaveAndAnswer(g, t) PROVE Listed'
  <2>1. \A id \in TaskIDs : Named(id, files, repo'[id])
    BY <1>1, <1>4, <1>9, PutsNamed DEF SaveAndAnswer, Inv
  <2>2. files' = files /\ btask' = btask /\ task'[g] = Copy(t) /\ pc'[g] = "reply"
    BY <1>9 DEF SaveAndAnswer, Answer, Inv, TypeOK
  <2>3. Named(i, files, Copy(t))
    BY <1>9, NamedOperators
  <2>4. HandlerListed(g)'
    BY <1>1, <1>2, <2>2, <2>3 DEF HandlerListed, Holding
  <2>5. Grown(files, files')
    BY <2>2 DEF Grown
  <2> QED
    BY <1>1, <2>1, <2>2, <2>4, <2>5, ListedRest
<1>10. CASE Finish(g)
  <2> DEFINE t == WithColor(Object(i, task[g]), c)
  <2>1. t \in Tasks /\ Named(i, files, t)
    BY <1>1, <1>2, <1>5, <1>10, TaskOperators, NamedOperators DEF Finish
  <2>2. Done(t) \in Tasks /\ Named(i, files, Done(t))
    BY <1>1, <2>1, TaskOperators, NamedOperators
  <2> QED
    BY <1>9, <1>10, <2>2 DEF Finish
<1>11. CASE FailTask(g)
  <2>1. Failed(Object(i, task[g])) \in Tasks /\ Named(i, files, Failed(Object(i, task[g])))
    BY <1>1, <1>5, TaskOperators, NamedOperators
  <2> QED
    BY <1>9, <1>11, <2>1 DEF FailTask
<1> QED
  BY <1>6, <1>7, <1>8, <1>10, <1>11 DEF CreateStep

LEMMA ListedServing ==
  ASSUME UNCHANGED storage, Inv, Listed, NEW g \in Handlers, Serving(g)
  PROVE  Listed'
<1> DEFINE i == req[g].id
           c == req[g].color
<1>1. /\ i \in TaskIDs /\ repo[i] \in Tasks /\ task[g] \in Tasks /\ btask[g] \in Tasks
      /\ (pc[g] \in BackgroundPcs \cup LayoutPcs => c \in Colors)
      /\ pc[g] # "idle" /\ pc'[g] # "idle" /\ req' = req
      /\ Alone(g)
  <2>1. Serves(g)
    BY ServingServes
  <2> QED
    BY <2>1, Busy DEF Serves, Alone, Inv, TypeOK
<1>2. /\ Named(i, files, repo[i]) /\ Named(i, files, task[g]) /\ Named(i, files, btask[g])
      /\ pc[g] \in {"record", "recording"} => There(files, ColorFile(i, c))
      /\ pc[g] \in {"layout_record", "layout_recording"} => There(files, LayoutFile(i))
      /\ pc[g] \in Holding => data[g] # "none"
  BY <1>1 DEF Listed, HandlerListed
<1>3. /\ LayoutFile(i) \in Paths /\ BaselineFile(i) \in Paths /\ (c \in Colors => ColorFile(i, c) \in Paths)
      /\ files \in [TaskIDs -> [FileNames -> Contents]] /\ data[g] \in Contents
  BY <1>1, FilePaths DEF Inv, TypeOK
<1>4. \A id \in TaskIDs : repo[id] \in Tasks /\ Named(id, files, repo[id])
  BY DEF Listed, Inv, TypeOK
<1>5. \A h \in Handlers \ {g} : pc'[h] = pc[h] /\ data'[h] = data[h]
  BY <1>1 DEF Alone
<1> USE DEF At, Goto, Hold
<1>6. CASE GetHit(g)
  BY <1>1, <1>5, <1>6, ListedQuiet DEF GetHit, BackgroundReturns, Answer, Holding, Inv, TypeOK
<1>7. CASE LayoutHit(g) \/ ComposeRefused(g) \/ GetRefused(g) \/ FailRequest(g)
  <2>1. pc'[g] = "reply" /\ UNCHANGED <<repo, files, req, task, btask>>
    BY <1>7 DEF LayoutHit, ComposeRefused, GetRefused, FailRequest, Answer, Inv, TypeOK
  <2> QED
    BY <1>1, <1>5, <2>1, ListedQuiet DEF Holding
<1>8. CASE BeginRecord(g) \/ BeginLayoutRecord(g)
  BY <1>1, <1>5, <1>8, ListedQuiet DEF BeginRecord, BeginLayoutRecord, Holding, Inv, TypeOK
<1>9. CASE RenderColor(g)
  <2>1. c \in Colors /\ Content(BaselineFile(i)) \in Contents /\ pc'[g] = "open_color"
    BY <1>1, <1>3, <1>9, Writes DEF RenderColor, BackgroundPcs, Inv, TypeOK
  <2>2. data'[g] # "none"
    BY <1>9, <2>1, RenderedIsSome DEF RenderColor, Inv, TypeOK
  <2> QED
    BY <1>1, <1>5, <1>9, <2>1, <2>2, ListedQuiet DEF RenderColor
<1>10. CASE ComposeLayout(g)
  <2>1. data'[g] # "none" /\ pc'[g] = "open_layout"
    BY <1>10 DEF ComposeLayout, Compose, Inv, TypeOK
  <2> QED
    BY <1>1, <1>5, <1>10, <2>1, ListedQuiet DEF ComposeLayout
(* A private object is filled. *)
<1>11. ASSUME UNCHANGED <<repo, files>>, Named(i, files, task'[g]), Named(i, files, btask'[g]),
              pc'[g] \notin {"finish", "record", "recording", "layout_record", "layout_recording"} \cup Holding
       PROVE  Listed'
  <2>1. HandlerListed(g)'
    BY <1>1, <1>11 DEF HandlerListed
  <2>2. Grown(files, files') /\ \A id \in TaskIDs : Named(id, files', repo'[id])
    BY <1>4, <1>11 DEF Grown
  <2> QED
    BY <1>1, <2>1, <2>2, ListedRest
<1>12. CASE GetMiss(g)
  BY <1>1, <1>2, <1>11, <1>12, NamedOperators DEF GetMiss, Holding, Inv, TypeOK
<1>13. CASE LayoutMiss(g)
  <2>1. task'[g] = Copy(repo[i]) /\ pc'[g] \in {"compose", "get"} /\ UNCHANGED <<repo, files, btask>>
    BY <1>13 DEF LayoutMiss, Inv, TypeOK
  <2> QED
    BY <1>1, <1>2, <1>11, <2>1, NamedOperators DEF Holding
<1>14. CASE Encode(g)
  <2>1. task'[g] = Object(i, task[g]) /\ pc'[g] = "reply" /\ UNCHANGED <<repo, files, btask>>
    BY <1>14 DEF Encode, Answer, Inv, TypeOK
  <2>2. Named(i, files, task'[g])
    BY <1>2, <2>1 DEF Object
  <2> QED
    BY <1>2, <1>11, <2>1, <2>2 DEF Holding
(* A file is opened or written. *)
<1>15. ASSUME UNCHANGED <<repo, task, btask>>, NEW f \in Paths, NEW x, x # "none",
              files' = Truncated(f) \/ files' = Flushed(f, x),
              pc'[g] \in {"finish", "record", "recording"} => f = ColorFile(i, c),
              pc'[g] \in {"layout_record", "layout_recording"} => f = LayoutFile(i),
              pc'[g] \in Holding => data'[g] # "none"
       PROVE  Listed'
  <2>1. Grown(files, files') /\ There(files', f)
    BY <1>1, <1>3, <1>15, FilesGrow
  <2>2. \A id \in TaskIDs : Named(id, files', repo'[id])
    BY <1>4, <1>15, <2>1, NamedGrows
  <2>3. Named(i, files', task[g]) /\ Named(i, files', btask[g])
    BY <1>1, <1>2, <2>1, NamedGrows
  <2>4. HandlerListed(g)'
    BY <1>1, <1>15, <2>1, <2>3 DEF HandlerListed
  <2> QED
    BY <1>1, <2>1, <2>2, <2>4, ListedRest
<1>16. CASE OpenColor(g) \/ FlushColor(g)
  <2>1. ColorFile(i, c) \in Paths /\ data[g] # "none" /\ data' = data /\ UNCHANGED <<repo, task, btask>>
    BY <1>1, <1>2, <1>3, <1>16 DEF OpenColor, FlushColor, BackgroundPcs, Holding
  <2>2. files' = Truncated(ColorFile(i, c)) \/ files' = Flushed(ColorFile(i, c), data[g])
    BY <1>16 DEF OpenColor, FlushColor
  <2>3. pc'[g] \in {"flush_color", "record"}
    BY <1>16 DEF OpenColor, FlushColor, Inv, TypeOK
  <2> QED
    BY <1>15, <2>1, <2>2, <2>3
<1>17. CASE OpenLayout(g) \/ FlushLayout(g)
  <2>1. data[g] # "none" /\ data' = data /\ UNCHANGED <<repo, task, btask>>
    BY <1>2, <1>17 DEF OpenLayout, FlushLayout, Holding
  <2>2. files' = Truncated(LayoutFile(i)) \/ files' = Flushed(LayoutFile(i), data[g])
    BY <1>17 DEF OpenLayout, FlushLayout
  <2>3. pc'[g] \in {"flush_layout", "layout_record"}
    BY <1>17 DEF OpenLayout, FlushLayout, Inv, TypeOK
  <2> QED
    BY <1>3, <1>15, <2>1, <2>2, <2>3
(* An object is stored. *)
<1>18. ASSUME UNCHANGED <<files, task, btask>>, \A id \in TaskIDs : Named(id, files, repo'[id]),
              pc'[g] \in {"reply", "compose"}
       PROVE  Listed'
  <2>1. HandlerListed(g)'
    BY <1>1, <1>2, <1>18 DEF HandlerListed, Holding
  <2>2. Grown(files, files') /\ \A id \in TaskIDs : Named(id, files', repo'[id])
    BY <1>18 DEF Grown
  <2> QED
    BY <1>1, <2>1, <2>2, ListedRest
<1>19. CASE PutBackground(g)
  <2>1. WithColor(btask[g], c) \in Tasks /\ Named(i, files, WithColor(btask[g], c))
    BY <1>1, <1>2, <1>19, TaskOperators, NamedOperators DEF PutBackground, BackgroundPcs
  <2>2. \A id \in TaskIDs : Named(id, files, repo'[id])
    BY <1>1, <1>4, <1>19, <2>1, PutsNamed DEF PutBackground, Inv
  <2>3. pc'[g] \in {"reply", "compose"} /\ UNCHANGED <<files, task, btask>>
    BY <1>19 DEF PutBackground, BackgroundReturns, Answer, Inv, TypeOK
  <2> QED
    BY <1>18, <2>2, <2>3
<1>20. CASE EndRecord(g)
  <2>1. Named(i, files, WithColor(repo[i], c))
    BY <1>1, <1>2, <1>20, NamedOperators DEF EndRecord, BackgroundPcs
  <2>2. \A id \in TaskIDs : Named(id, files, repo'[id])
    BY <1>1, <1>4, <1>20, <2>1 DEF EndRecord, Inv, TypeOK
  <2>3. pc'[g] \in {"reply", "compose"} /\ UNCHANGED <<files, task, btask>>
    BY <1>20 DEF EndRecord, BackgroundReturns, Answer, Inv, TypeOK
  <2> QED
    BY <1>18, <2>2, <2>3
<1>21. CASE PutLayout(g)
  <2>1. WithLayout(task[g]) \in Tasks /\ Named(i, files, WithLayout(task[g]))
    BY <1>1, <1>2, <1>21, TaskOperators, NamedOperators DEF PutLayout, LayoutPcs
  <2>2. \A id \in TaskIDs : Named(id, files, repo'[id])
    BY <1>1, <1>4, <1>21, <2>1, PutsNamed DEF PutLayout, Inv
  <2>3. pc'[g] = "reply" /\ UNCHANGED <<files, task, btask>>
    BY <1>21 DEF PutLayout, Answer, Inv, TypeOK
  <2> QED
    BY <1>18, <2>2, <2>3
<1>22. CASE EndLayoutRecord(g)
  <2>1. Named(i, files, WithLayout(repo[i]))
    BY <1>1, <1>2, <1>22, NamedOperators DEF EndLayoutRecord
  <2>2. \A id \in TaskIDs : Named(id, files, repo'[id])
    BY <1>1, <1>4, <1>22, <2>1 DEF EndLayoutRecord, Inv, TypeOK
  <2>3. pc'[g] = "reply" /\ UNCHANGED <<files, task, btask>>
    BY <1>22 DEF EndLayoutRecord, Answer, Inv, TypeOK
  <2> QED
    BY <1>18, <2>2, <2>3
<1> QED
  BY <1>6, <1>7, <1>8, <1>9, <1>10, <1>12, <1>13, <1>14, <1>16, <1>17, <1>19, <1>20, <1>21, <1>22
  DEF Serving, BackgroundStep, LayoutStep

LEMMA ListedStart ==
  ASSUME UNCHANGED storage, Inv, Listed, NEW g \in Handlers, Start(g)
  PROVE  Listed'
<1>1. pc[g] = "idle" /\ task[g] = NoTask /\ btask[g] = NoTask /\ NoTask \in Tasks
  BY DEF Start, Create, Request, RequestRefused, At, Listed, HandlerListed, Inv, TypeOK
<1>2. Alone(g) /\ files' = files /\ btask' = btask
  BY DEF Start, Create, Request, RequestRefused, Begin, Goto, Answer, Alone, Inv, TypeOK
<1>3. Grown(files, files')
  BY <1>2 DEF Grown
<1>4. \A i, F : Named(i, F, NoTask) /\ Named(i, F, NewTask) /\ NewTask \in Tasks
  BY DEF Named, NoTask, NewTask, Tasks, Statuses
<1> USE DEF Begin, Goto, Answer
<1>5. ASSUME NEW i \in TaskIDs, NEW c \in Colors \cup {None}, Create(g, i, c) PROVE Listed'
  <2>1. \A id \in TaskIDs : Named(id, files', repo'[id])
    BY <1>2, <1>4, <1>5, PutsNamed DEF Create, Listed, Inv
  <2>2. req'[g].id = i /\ task'[g] = Copy(NewTask) /\ pc'[g] = "idphoto"
    BY <1>5 DEF Create, Inv, TypeOK
  <2>3. \A F : Named(i, F, Copy(NewTask))
    BY <1>4 DEF Copy
  <2>4. HandlerListed(g)'
    BY <1>1, <1>2, <1>4, <2>2, <2>3 DEF HandlerListed, Holding
  <2> QED
    BY <1>2, <1>3, <2>1, <2>4, ListedRest
<1>6. ASSUME NEW i \in TaskIDs, NEW op \in Ops \ {"create"}, NEW c,
             Request(g, op, i, c) \/ RequestRefused(g, op, i, c)
      PROVE  Listed'
  <2>1. /\ repo' = repo /\ req'[g].id = i /\ pc'[g] \in {"get", "layout_get", "encode", "reply"}
        /\ task'[g] \in {NoTask, Copy(repo[i])}
    BY <1>1, <1>6 DEF Request, RequestRefused, FirstPc, Inv, TypeOK
  <2>2. Named(i, files, repo[i]) /\ repo[i] \in Tasks
    BY DEF Listed, Inv, TypeOK
  <2>3. Named(i, files, task'[g])
    BY <1>4, <2>1, <2>2, NamedOperators
  <2>4. HandlerListed(g)'
    BY <1>1, <1>2, <1>4, <2>1, <2>3 DEF HandlerListed, Holding
  <2>5. \A id \in TaskIDs : Named(id, files', repo'[id])
    BY <1>2, <2>1 DEF Listed
  <2> QED
    BY <1>2, <1>3, <2>4, <2>5, ListedRest
<1> QED
  BY <1>5, <1>6 DEF Start, Ops

LEMMA ListedNext == Inv /\ Listed /\ [Next]_vars => Listed'
<1> SUFFICES ASSUME Inv, Listed, [Next]_vars PROVE Listed'
  OBVIOUS
<1>0. UNCHANGED storage
  BY DEF Next, vars
<1>1. ASSUME NEW g \in Handlers, Start(g) PROVE Listed'
  BY <1>0, <1>1, ListedStart
<1>2. ASSUME NEW g \in Handlers, Serving(g) PROVE Listed'
  BY <1>0, <1>2, ListedServing
<1>3. ASSUME NEW g \in Handlers, CreateStep(g) PROVE Listed'
  BY <1>0, <1>3, ListedCreateStep
<1>4. ASSUME NEW g \in Handlers, Reply(g) PROVE Listed'
  <2>1. Alone(g) /\ HandlerListed(g)'
    BY <1>4 DEF Reply, Goto, Hold, Alone, HandlerListed, Holding, Inv, TypeOK
  <2>2. Grown(files, files') /\ \A id \in TaskIDs : Named(id, files', repo'[id])
    BY <1>4 DEF Reply, Grown, Listed
  <2> QED
    BY <2>1, <2>2, ListedRest
<1>5. CASE ConcurrentMapFatal \/ Crash
  <2>1. Restart
    BY <1>5 DEF ConcurrentMapFatal, Crash
  <2> QED
    BY <2>1 DEF Restart, Listed, HandlerListed, Holding, Named, NoTask
<1>6. CASE UNCHANGED vars
  BY <1>6 DEF vars, Listed, HandlerListed
<1> QED
  BY <1>1, <1>2, <1>3, <1>4, <1>5, <1>6 DEF Next, Step, Serving

(* No URL dangles, whatever the interleaving, the stale rows, the failing  *)
(* queries and the crashes, and wherever the names of colours lead to.      *)
THEOREM ListedFilesExist == Spec => []RecordedHasFile
<1>1. Init => Inv /\ Listed
  BY InvInit DEF Init, Listed, HandlerListed, Named, NoTask, Holding
<1>2. Inv /\ Listed /\ [Next]_vars => Inv' /\ Listed'
  BY InvNext, ListedNext
<1>3. Inv /\ Listed => RecordedHasFile
  <2> SUFFICES ASSUME Inv, Listed, NEW id \in TaskIDs
               PROVE  /\ \A c \in repo[id].processed : Content(Served(id, c)) # "none"
                      /\ repo[id].layout => Content(LayoutFile(id)) # "none"
    BY DEF RecordedHasFile
  <2>1. Named(id, files, repo[id]) /\ repo[id].processed \subseteq Colors
    BY DEF Listed, Inv, TypeOK, Tasks
  <2> QED
    BY <2>1, FilePaths DEF Named, There, Content
<1> QED
  BY <1>1, <1>2, <1>3, PTL DEF Spec

----------------------------------------------------------------------------
(* Image c of a task is whole, unless its file is that of another name too. *)
Unspoilt(id, c) == Own(id, c) => Content(ColorFile(id, c)) = colorHexOf(c)

StaysUnspoilt(id) == \A c \in Colors : Unspoilt(id, c) => Unspoilt(id, c)'

ColorPcs == {"add_background", "flush_default", "open_color", "flush_color"}

(* Only a handler that writes this very image can spoil it.                *)
LEMMA OwnStays ==
  ASSUME Inv, NEW g \in Handlers, Serving(g) \/ CreateStep(g), req[g].id \in TaskIDs,
         pc[g] \in CreatePcs \cup BackgroundPcs \cup LayoutPcs => req[g].color \in Colors,
         NEW id \in TaskIDs, NEW c \in Colors, Unspoilt(id, c),
         req[g].id # id \/ req[g].color # c \/ pc[g] \notin ColorPcs
  PROVE  Unspoilt(id, c)'
<1> DEFINE i == req[g].id
           k == req[g].color
<1>1. files \in [TaskIDs -> [FileNames -> Contents]] /\ data[g] \in Contents /\ "damaged" \in Contents
  BY DEF Inv, TypeOK, Contents
<1>2. CASE files' = files
  BY <1>2 DEF Unspoilt, Content
<1>3. ASSUME NEW f \in Paths, files' = Truncated(f) \/ files' = Flushed(f, data[g]), Own(id, c) => f # ColorFile(id, c)
      PROVE  Unspoilt(id, c)'
  BY <1>1, <1>3, FilePaths, OtherFiles DEF Unspoilt
<1>4. ASSUME files' = Truncated(BaselineFile(i)) \/ files' = Flushed(BaselineFile(i), data[g]) PROVE Unspoilt(id, c)'
  BY <1>3, <1>4, FilePaths
<1>5. ASSUME files' = Truncated(LayoutFile(i)) \/ files' = Flushed(LayoutFile(i), data[g]) PROVE Unspoilt(id, c)'
  <2>1. Own(id, c) => LayoutFile(i) # ColorFile(id, c)
    BY DEF Own, ColorFile
  <2> QED
    BY <1>3, <1>5, <2>1, FilePaths
<1>6. ASSUME pc[g] \in ColorPcs, files' = Truncated(ColorFile(i, k)) \/ files' = Flushed(ColorFile(i, k), data[g])
      PROVE  Unspoilt(id, c)'
  <2>1. k \in Colors
    BY <1>6 DEF ColorPcs, CreatePcs, BackgroundPcs
  <2>2. Own(id, c) => ColorFile(i, k) # ColorFile(id, c)
    BY <1>6, <2>1 DEF Own, ColorFile
  <2> QED
    BY <1>3, <1>6, <2>1, <2>2, FilePaths
<1>7. CASE IDPhoto(g) \/ FlushBaseline(g)
  BY <1>4, <1>7 DEF IDPhoto, FlushBaseline
<1>8. CASE AddBackground(g) \/ FlushDefault(g) \/ OpenColor(g) \/ FlushColor(g)
  BY <1>6, <1>8 DEF AddBackground, FlushDefault, OpenColor, FlushColor, At, ColorPcs
<1>9. CASE OpenLayout(g) \/ FlushLayout(g)
  BY <1>5, <1>9 DEF OpenLayout, FlushLayout
<1>10. \/ IDPhoto(g) \/ FlushBaseline(g) \/ AddBackground(g) \/ FlushDefault(g) \/ OpenColor(g) \/ FlushColor(g)
       \/ OpenLayout(g) \/ FlushLayout(g) \/ files' = files
  BY DEF Serving, CreateStep, BackgroundStep, LayoutStep, GetHit, GetMiss, RenderColor, PutBackground, BeginRecord, EndRecord,
     LayoutHit, LayoutMiss, ComposeLayout, ComposeRefused, PutLayout, BeginLayoutRecord, EndLayoutRecord, GetRefused,
     FailRequest, Encode, Finish, FailTask, SaveAndAnswer
<1> QED
  BY <1>2, <1>7, <1>8, <1>9, <1>10

(* What is written in full is what the file holds. *)
LEMMA FlushedHolds ==
  ASSUME files \in [TaskIDs -> [FileNames -> Contents]], NEW id \in TaskIDs, NEW c \in Colors, NEW x,
         files' = Flushed(ColorFile(id, c), x)
  PROVE  Content(ColorFile(id, c))' = x
<1>1. ColorFile(id, c).dir \in TaskIDs /\ ColorFile(id, c).name \in FileNames
  BY FilePaths DEF Paths
<1> QED
  BY <1>1 DEF Flushed, Content

(* A handler at work on a task leaves image c alone and keeps it listed.   *)
Spares(g, c) ==
  /\ pc[g] \in {"render", "open_color", "flush_color", "record"} =>
       /\ req[g].color # c
       /\ storage = "postgres" => c \in btask[g].processed
  /\ pc[g] \in (BackgroundPcs \cup LayoutPcs) \ {"layout_get"} /\ req[g].op = "layout" /\ storage = "postgres"
       => c \in task[g].processed

Lasts(id, c) ==
  /\ c \in repo[id].processed
  /\ Unspoilt(id, c)
  /\ \A g \in Handlers : pc[g] # "idle" /\ req[g].id = id => Spares(g, c)

ImageLasts == \A id \in TaskIDs : repo[id].status = "done" => \E c \in Colors : Lasts(id, c)

(* CreateTask on the way to it.                                            *)
FirstImage ==
  \A g \in Handlers :
    /\ pc[g] = "add_background" => data[g] = "rgba"
    /\ pc[g] = "flush_default" => data[g] = colorHexOf(req[g].color)
    /\ pc[g] = "finish" => Unspoilt(req[g].id, req[g].color)

Images == ImageLasts /\ FirstImage

(* What a step that serves a task does to it and to its files. *)
LEMMA ServingSpares ==
  ASSUME UNCHANGED storage, Inv, NEW g \in Handlers, Serving(g),
         NEW id \in TaskIDs, NEW c \in Colors, Lasts(id, c)
  PROVE  Lasts(id, c)'
<1> DEFINE i == req[g].id
           k == req[g].color
<1>1. /\ i \in TaskIDs /\ repo[i] \in Tasks /\ task[g] \in Tasks /\ btask[g] \in Tasks
      /\ (pc[g] \in BackgroundPcs \cup LayoutPcs => k \in Colors)
      /\ pc[g] # "idle" /\ req' = req
      /\ \A h \in Handlers \ {g} : pc'[h] = pc[h] /\ task'[h] = task[h] /\ btask'[h] = btask[h]
  <2>1. Serves(g)
    BY ServingServes
  <2> QED
    BY <2>1, Busy DEF Serves, Inv, TypeOK
<1>2. c \in repo[id].processed /\ Unspoilt(id, c) /\ (i = id => Spares(g, c))
  BY <1>1 DEF Lasts
<1>3. repo \in [TaskIDs -> Tasks] /\ (pc[g] \notin CreatePcs)
  <2>1. Serves(g)
    BY ServingServes
  <2> QED
    BY <2>1 DEF Serves, Creating, Inv, TypeOK, Placed
<1>4. ASSUME c \in repo'[id].processed, Unspoilt(id, c)', i = id => Spares(g, c)'
      PROVE  Lasts(id, c)'
  BY <1>1, <1>2, <1>4 DEF Lasts, Spares
<1> USE DEF At, Goto, Hold
(* Nothing shared is touched.                                              *)
<1>a. files' = files => Unspoilt(id, c)'
  BY <1>2 DEF Unspoilt, Content
<1>5. ASSUME UNCHANGED <<repo, files>>, i = id => Spares(g, c)' PROVE Lasts(id, c)'
  BY <1>2, <1>4, <1>5, <1>a
<1>6. CASE GetHit(g)
  <2>1. UNCHANGED <<repo, files, task, btask>> /\ pc'[g] \in {"compose", "reply"} /\ pc[g] = "get"
        /\ (pc'[g] = "compose" => req[g].op = "layout")
    BY <1>6 DEF GetHit, BackgroundReturns, Answer, Inv, TypeOK
  <2> QED
    BY <1>1, <1>2, <1>5, <2>1 DEF Spares, BackgroundPcs, LayoutPcs
<1>7. CASE GetMiss(g)
  <2>1. /\ UNCHANGED <<repo, files, task>> /\ btask'[g] = Copy(repo[i]) /\ pc'[g] = "render" /\ pc[g] = "get"
        /\ k \notin repo[i].processed
    BY <1>7 DEF GetMiss, HasColor, Inv, TypeOK
  <2>2. storage = "postgres" => Copy(repo[i]) = repo[i]
    BY DEF Copy
  <2> QED
    BY <1>1, <1>2, <1>5, <2>1, <2>2 DEF Spares, BackgroundPcs, LayoutPcs
<1>8. CASE RenderColor(g)
  BY <1>1, <1>2, <1>5, <1>8 DEF RenderColor, Spares, BackgroundPcs, LayoutPcs, Inv, TypeOK
<1>9. CASE OpenColor(g) \/ FlushColor(g)
  <2>1. /\ UNCHANGED <<repo, task, btask>> /\ pc[g] \in {"open_color", "flush_color"}
        /\ pc'[g] \in {"flush_color", "record"} /\ k \in Colors
    BY <1>1, <1>9 DEF OpenColor, FlushColor, BackgroundPcs, Inv, TypeOK
  <2>2. i = id => k # c
    BY <1>2, <2>1 DEF Spares
  <2>3. Unspoilt(id, c)'
    BY <1>1, <1>2, <1>3, <2>1, <2>2, OwnStays
  <2>4. i = id => Spares(g, c)'
    BY <1>1, <1>2, <2>1 DEF Spares, BackgroundPcs, LayoutPcs
  <2> QED
    BY <1>2, <1>4, <2>1, <2>3, <2>4
(* An object is put: it lists c, shared or stale. *)
<1>10. ASSUME UNCHANGED <<files, task>>, NEW t \in Tasks, i = id => c \in t.processed, repo' \in Saves(i, t),
              pc'[g] \in {"reply", "compose"}, pc'[g] = "compose" => pc[g] = "record" /\ req[g].op = "layout"
       PROVE  Lasts(id, c)'
  <2>1. Stored(t).processed = t.processed
    BY DEF Stored, Row, Tasks
  <2>2. c \in repo'[id].processed
    BY <1>1, <1>2, <1>3, <1>10, <2>1 DEF Saves
  <2>3. i = id => Spares(g, c)'
    BY <1>1, <1>2, <1>10 DEF Spares, BackgroundPcs, LayoutPcs
  <2> QED
    BY <1>4, <1>10, <1>a, <2>2, <2>3
<1>11. CASE PutBackground(g)
  <2>1. pc[g] = "record" /\ storage = "postgres" /\ k \in Colors /\ WithColor(btask[g], k) \in Tasks
    BY <1>1, <1>11, TaskOperators DEF PutBackground, BackgroundPcs
  <2>2. i = id => c \in WithColor(btask[g], k).processed
    BY <1>1, <1>2, <2>1 DEF Spares, WithColor, Tasks
  <2>3. UNCHANGED <<files, task>> /\ pc'[g] \in {"reply", "compose"} /\ (pc'[g] = "compose" => req[g].op = "layout")
    BY <1>11 DEF PutBackground, BackgroundReturns, Answer, Inv, TypeOK
  <2> QED
    BY <1>10, <1>11, <2>1, <2>2, <2>3 DEF PutBackground
<1>12. CASE PutLayout(g)
  <2>1. pc[g] = "layout_record" /\ storage = "postgres" /\ WithLayout(task[g]) \in Tasks /\ req[g].op = "layout"
    BY <1>1, <1>12, TaskOperators, PhotoAssumption DEF PutLayout, LayoutPcs, Inv, TypeOK, Placed
  <2>2. i = id => c \in WithLayout(task[g]).processed
    BY <1>1, <1>2, <2>1 DEF Spares, WithLayout, Tasks, LayoutPcs
  <2>3. UNCHANGED <<files, task>> /\ pc'[g] = "reply"
    BY <1>12 DEF PutLayout, Answer, Inv, TypeOK
  <2> QED
    BY <1>10, <1>12, <2>1, <2>2, <2>3 DEF PutLayout
<1>13. CASE EndRecord(g) \/ EndLayoutRecord(g)
  <2>1. /\ files' = files /\ pc[g] \in {"recording", "layout_recording"} /\ storage = "memory"
        /\ c \in repo'[id].processed
    <3>1. WithColor(repo[i], k).processed = repo[i].processed \cup {k} /\ WithLayout(repo[i]).processed = repo[i].processed
      BY <1>1 DEF WithColor, WithLayout, Tasks
    <3> QED
      BY <1>1, <1>2, <1>3, <1>13, <3>1 DEF EndRecord, EndLayoutRecord, Inv, TypeOK, Placed
  <2>2. pc'[g] \in {"reply", "compose"}
    BY <1>13 DEF EndRecord, EndLayoutRecord, BackgroundReturns, Answer, Inv, TypeOK
  <2> QED
    BY <1>4, <1>a, <2>1, <2>2 DEF Spares
<1>14. CASE BeginRecord(g) \/ BeginLayoutRecord(g)
  <2>1. storage = "memory" /\ UNCHANGED <<repo, files>> /\ pc'[g] \in {"recording", "layout_recording"}
    BY <1>14 DEF BeginRecord, BeginLayoutRecord, Inv, TypeOK
  <2> QED
    BY <1>5, <2>1 DEF Spares
<1>15. CASE LayoutMiss(g)
  <2>1. UNCHANGED <<repo, files>> /\ task'[g] = Copy(repo[i]) /\ pc'[g] \in {"compose", "get"}
    BY <1>15 DEF LayoutMiss, Inv, TypeOK
  <2>2. storage = "postgres" => Copy(repo[i]) = repo[i]
    BY DEF Copy
  <2> QED
    BY <1>1, <1>2, <1>5, <2>1, <2>2 DEF Spares
<1>16. CASE ComposeLayout(g)
  BY <1>1, <1>2, <1>5, <1>16 DEF ComposeLayout, Spares, BackgroundPcs, LayoutPcs, Inv, TypeOK
<1>17. CASE OpenLayout(g) \/ FlushLayout(g)
  <2>1. /\ UNCHANGED <<repo, task, btask>> /\ pc[g] \in {"open_layout", "flush_layout"}
        /\ pc'[g] \in {"flush_layout", "layout_record"}
    BY <1>17 DEF OpenLayout, FlushLayout, Inv, TypeOK
  <2>2. Unspoilt(id, c)'
    BY <1>1, <1>2, <1>3, <2>1, OwnStays DEF ColorPcs
  <2>3. i = id => Spares(g, c)'
    BY <1>1, <1>2, <2>1 DEF Spares, BackgroundPcs, LayoutPcs
  <2> QED
    BY <1>2, <1>4, <2>1, <2>2, <2>3
<1>18. CASE LayoutHit(g) \/ ComposeRefused(g) \/ GetRefused(g) \/ FailRequest(g) \/ Encode(g)
  <2>1. UNCHANGED <<repo, files>> /\ pc'[g] = "reply"
    BY <1>18 DEF LayoutHit, ComposeRefused, GetRefused, FailRequest, Encode, Answer, Inv, TypeOK
  <2> QED
    BY <1>5, <2>1 DEF Spares, BackgroundPcs, LayoutPcs
<1> QED
  BY <1>6, <1>7, <1>8, <1>9, <1>11, <1>12, <1>13, <1>14, <1>15, <1>16, <1>17, <1>18
  DEF Serving, BackgroundStep, LayoutStep

----------------------------------------------------------------------------
(* What any other step does to it: the handlers at work on a finished task *)
(* go on as they were, or end, or begin with a Get.                        *)
LEMMA OthersSpare ==
  ASSUME UNCHANGED storage, NEW id \in TaskIDs, NEW c \in Colors, Lasts(id, c), repo'[id] = repo[id],
         Unspoilt(id, c)',
         \A h \in Handlers :
           \/ pc'[h] \in {"idle", "reply", "encode", "layout_get"}
           \/ pc'[h] = "get" /\ req'[h].op # "layout"
           \/ req'[h].id # id
           \/ pc[h] # "idle" /\ pc'[h] = pc[h] /\ req'[h] = req[h] /\ task'[h] = task[h] /\ btask'[h] = btask[h]
  PROVE  Lasts(id, c)'
<1>1. ASSUME NEW h \in Handlers, pc'[h] # "idle", req'[h].id = id PROVE Spares(h, c)'
  <2>1. CASE pc'[h] \in {"reply", "encode", "layout_get"} \/ (pc'[h] = "get" /\ req'[h].op # "layout")
    BY <2>1 DEF Spares, BackgroundPcs, LayoutPcs
  <2>2. CASE /\ pc[h] # "idle" /\ pc'[h] = pc[h] /\ req'[h] = req[h]
             /\ task'[h] = task[h] /\ btask'[h] = btask[h]
    BY <1>1, <2>2 DEF Lasts, Spares
  <2> QED
    BY <1>1, <2>1, <2>2
<1> QED
  BY <1>1 DEF Lasts

LEMMA LastsNext ==
  ASSUME Inv, ImageLasts, [Next]_vars, NEW id \in TaskIDs, repo[id].status = "done", repo'[id].status = "done"
  PROVE  \E c \in Colors : Lasts(id, c)'
<1>0. UNCHANGED storage
  BY DEF Next, vars
<1>1. PICK c \in Colors : Lasts(id, c)
  BY DEF ImageLasts
<1>2. repo \in [TaskIDs -> Tasks] /\ Unspoilt(id, c)
  BY <1>1 DEF Lasts, Inv, TypeOK
<1>a. files' = files => Unspoilt(id, c)'
  BY <1>2 DEF Unspoilt, Content
<1> SUFFICES Lasts(id, c)'
  OBVIOUS
<1>3. ASSUME NEW g \in Handlers, Serving(g) PROVE Lasts(id, c)'
  BY <1>0, <1>1, <1>3, ServingSpares
<1>4. ASSUME NEW g \in Handlers, CreateStep(g) PROVE Lasts(id, c)'
  <2>1. Builds(g)
    BY <1>0, <1>4, CreateStepKeeps
  <2>2. req[g].id \in TaskIDs /\ req[g].color \in Colors /\ repo[req[g].id].status \in {"none", "processing"}
    BY <2>1, Busy, PcsAreBusy DEF Builds, Inv, OwnershipInv, BaselineFirst
  <2>3. repo'[id] = repo[id]
    BY <1>2, <1>4, <2>1, <2>2 DEF Builds, CreateStep, IDPhoto, FlushBaseline, AddBackground, FlushDefault, Finish,
       FailTask, SaveAndAnswer, Saves
  <2>5. Unspoilt(id, c)'
    BY <1>2, <1>4, <2>2, OwnStays
  <2>4. ASSUME NEW h \in Handlers
        PROVE  \/ pc'[h] \in {"idle", "reply"} \/ req'[h].id # id
               \/ /\ pc[h] # "idle" /\ pc'[h] = pc[h] /\ req'[h] = req[h]
                  /\ task'[h] = task[h] /\ btask'[h] = btask[h]
    BY <2>1, <2>2 DEF Builds
  <2> QED
    BY <1>0, <1>1, <2>3, <2>4, <2>5, OthersSpare
<1>5. ASSUME NEW g \in Handlers, Start(g) PROVE Lasts(id, c)'
  <2>1. \A h \in Handlers \ {g} : pc'[h] = pc[h] /\ req'[h] = req[h] /\ task'[h] = task[h] /\ btask'[h] = btask[h]
    BY <1>5 DEF Start, Create, Request, RequestRefused, Begin, Goto, Answer, Inv, TypeOK
  <2>2. files' = files
    BY <1>5 DEF Start, Create, Request, RequestRefused
  <2>3. ASSUME NEW i \in TaskIDs, NEW k \in Colors \cup {None}, Create(g, i, k) PROVE Lasts(id, c)'
    <3>1. i # id
      BY <2>3 DEF Create, Inv, OwnershipInv, BaselineFirst
    <3>2. repo'[id] = repo[id] /\ req'[g].id # id
      BY <1>2, <2>3, <3>1 DEF Create, Begin, Saves, Inv, TypeOK
    <3> QED
      BY <1>0, <1>1, <1>a, <2>1, <2>2, <3>2, OthersSpare
  <2>4. ASSUME NEW i \in TaskIDs, NEW op \in Ops \ {"create"}, NEW k, Request(g, op, i, k) \/ RequestRefused(g, op, i, k)
        PROVE  Lasts(id, c)'
    <3>1. /\ repo' = repo /\ pc'[g] \in {"get", "layout_get", "encode", "reply"}
          /\ pc'[g] = "get" => req'[g].op # "layout"
      BY <2>4 DEF Request, RequestRefused, Begin, Goto, Answer, FirstPc, Inv, TypeOK
    <3> QED
      BY <1>0, <1>1, <1>a, <2>1, <2>2, <3>1, OthersSpare
  <2> QED
    BY <1>5, <2>3, <2>4 DEF Start, Ops
<1>6. ASSUME NEW g \in Handlers, Reply(g) PROVE Lasts(id, c)'
  <2>1. /\ pc'[g] = "idle" /\ repo' = repo /\ files' = files
        /\ \A h \in Handlers \ {g} : pc'[h] = pc[h] /\ req'[h] = req[h] /\ task'[h] = task[h] /\ btask'[h] = btask[h]
    BY <1>6 DEF Reply, Goto, Inv, TypeOK
  <2> QED
    BY <1>0, <1>1, <1>a, <2>1, OthersSpare
<1>7. CASE ConcurrentMapFatal \/ Crash
  <2>1. repo'[id] = repo[id] /\ files' = files /\ \A h \in Handlers : pc'[h] = "idle"
    BY <1>7 DEF ConcurrentMapFatal, Crash, Restart, NoTask
  <2> QED
    BY <1>0, <1>1, <1>a, <2>1, OthersSpare
<1>8. CASE UNCHANGED vars
  BY <1>0, <1>1, <1>a, <1>8, OthersSpare DEF vars
<1> QED
  BY <1>3, <1>4, <1>5, <1>6, <1>7, <1>8 DEF Next, Step, Serving

(* The step that makes a task done saves the image it has just written.    *)
LEMMA FinishLasts ==
  ASSUME Inv, FirstImage, [Next]_vars, NEW id \in TaskIDs, repo[id].status # "done", repo'[id].status = "done"
  PROVE  \E c \in Colors : Lasts(id, c)'
<1>0. UNCHANGED storage
  BY DEF Next, vars
<1>1. PICK g \in Handlers : CreateStep(g)
  <2>1. ASSUME NEW g \in Handlers, Serving(g) PROVE FALSE
    BY <1>0, <2>1, ServingServes DEF Serves
  <2>2. ASSUME NEW g \in Handlers, Start(g) PROVE FALSE
    <3>1. ASSUME NEW i \in TaskIDs, NEW k \in Colors \cup {None}, Create(g, i, k) PROVE FALSE
      <4>1. NewTask \in Tasks /\ NewTask.status = "processing"
        BY DEF NewTask, Tasks, Statuses
      <4>2. repo'[id].status \in {"processing", repo[id].status}
        BY <3>1, <4>1, PutsStatus DEF Create, Inv, TypeOK
      <4> QED
        BY <4>2
    <3>2. ASSUME NEW i \in TaskIDs, NEW op \in Ops, NEW k, Request(g, op, i, k) \/ RequestRefused(g, op, i, k) PROVE FALSE
      BY <3>2 DEF Request, RequestRefused
    <3> QED
      BY <2>2, <3>1, <3>2 DEF Start, Ops
  <2>3. ASSUME NEW g \in Handlers, Reply(g) PROVE FALSE
    BY <2>3 DEF Reply
  <2>4. CASE ConcurrentMapFatal \/ Crash
    BY <2>4 DEF ConcurrentMapFatal, Crash, Restart, NoTask
  <2>5. CASE UNCHANGED vars
    BY <2>5 DEF vars
  <2> QED
    BY <2>1, <2>2, <2>3, <2>4, <2>5 DEF Next, Step, Serving
<1> DEFINE i == req[g].id
           c == req[g].color
           t == Object(i, task[g])
<1>2. Builds(g) /\ i \in TaskIDs /\ c \in Colors /\ t \in Tasks /\ i = id
  <2>1. Builds(g)
    BY <1>0, <1>1, CreateStepKeeps
  <2>2. i \in TaskIDs /\ c \in Colors
    BY <2>1, Busy, PcsAreBusy DEF Builds, Inv
  <2>3. t \in Tasks
    BY <2>2, Objects DEF Inv, TypeOK
  <2> QED
    BY <2>1, <2>2, <2>3 DEF Builds
<1>3. repo \in [TaskIDs -> Tasks]
  BY DEF Inv, TypeOK
<1>4. CASE Finish(g)
  <2> DEFINE done == Done(WithColor(t, c))
  <2>1. done \in Tasks /\ c \in done.processed /\ c \in Stored(done).processed
    <3>1. WithColor(t, c) \in Tasks /\ c \in WithColor(t, c).processed
      BY <1>2, TaskOperators DEF WithColor, Tasks
    <3>2. done \in Tasks /\ c \in done.processed
      BY <1>2, <3>1, TaskOperators DEF Done, Tasks
    <3> QED
      BY <3>2 DEF Stored, Row, Tasks
  <2>2. repo' \in Saves(i, done) /\ files' = files /\ pc'[g] = "reply" /\ pc[g] = "finish"
    BY <1>4 DEF Finish, SaveAndAnswer, Answer, At, Goto, Inv, TypeOK
  <2>3. repo'[id] = Stored(done)
    BY <1>2, <1>3, <2>2 DEF Saves
  <2>4. Unspoilt(id, c)
    BY <1>2, <2>2 DEF FirstImage
  <2>5. ASSUME NEW h \in Handlers, pc'[h] # "idle", req'[h].id = id PROVE h = g
    BY <1>2, <2>5 DEF Builds, Inv, OwnershipInv, Owned, Creating
  <2>6. \A k \in Colors : Spares(g, k)'
    BY <2>2 DEF Spares, BackgroundPcs, LayoutPcs
  <2>7. ASSUME NEW k \in Colors, k = c PROVE Lasts(id, k)'
    <3>1. k \in repo'[id].processed /\ Unspoilt(id, k)'
      BY <2>1, <2>2, <2>3, <2>4, <2>7 DEF Unspoilt, Content
    <3>2. \A h \in Handlers : pc'[h] # "idle" /\ req'[h].id = id => Spares(h, k)'
      BY <2>5, <2>6
    <3> QED
      BY <3>1, <3>2 DEF Lasts
  <2> QED
    BY <1>2, <2>7
<1>5. CASE FailTask(g)
  <2>1. Failed(t) \in Tasks /\ Failed(t).status = "failed"
    BY <1>2, TaskOperators, StatusOf
  <2>2. repo' \in Saves(i, Failed(t))
    BY <1>5 DEF FailTask, SaveAndAnswer
  <2> QED
    BY <1>2, <1>3, <2>1, <2>2, PutsStatus
<1>6. CASE IDPhoto(g) \/ AddBackground(g) \/ FlushDefault(g)
  BY <1>6 DEF IDPhoto, AddBackground, FlushDefault
<1>7. CASE FlushBaseline(g)
  <2>1. WithBaseline(t).status = t.status
    BY <1>2, StatusOf
  <2> QED
    BY <1>2, <1>3, <1>7, <2>1 DEF FlushBaseline, Object
<1> QED
  BY <1>1, <1>4, <1>5, <1>6, <1>7 DEF CreateStep

LEMMA FirstNext ==
  ASSUME Inv, FirstImage, [Next]_vars
  PROVE  FirstImage'
<1>0. UNCHANGED storage
  BY DEF Next, vars
<1> SUFFICES ASSUME NEW h \in Handlers, pc'[h] \in {"add_background", "flush_default", "finish"}
             PROVE  /\ pc'[h] = "add_background" => data'[h] = "rgba"
                    /\ pc'[h] = "flush_default" => data'[h] = colorHexOf(req'[h].color)
                    /\ pc'[h] = "finish" => Unspoilt(req[h].id, req[h].color)'
  BY DEF FirstImage
<1> DEFINE Goal == /\ pc'[h] = "add_background" => data'[h] = "rgba"
                   /\ pc'[h] = "flush_default" => data'[h] = colorHexOf(req'[h].color)
                   /\ pc'[h] = "finish" => Unspoilt(req[h].id, req[h].color)'
<1>1. /\ pc[h] # "idle" => req[h].id \in TaskIDs
      /\ pc[h] \in CreatePcs => req[h].color \in Colors /\ Creating(h)
  BY Busy, PcsAreBusy DEF Inv, TypeOK, Placed, Creating
<1>2. files \in [TaskIDs -> [FileNames -> Contents]]
  BY DEF Inv, TypeOK
(* Another handler, on another task. *)
<1>3. ASSUME pc'[h] = pc[h], data'[h] = data[h], req'[h] = req[h],
             pc[h] \in CreatePcs /\ Unspoilt(req[h].id, req[h].color)
               => files' = files \/ \A i, c : i = req[h].id /\ c = req[h].color => Unspoilt(i, c)'
      PROVE  Goal
  <2>1. CASE pc[h] = "finish"
    <3>1. \A i, c : Unspoilt(i, c) /\ files' = files => Unspoilt(i, c)'
      BY DEF Unspoilt, Content
    <3>2. \A i, c : i = req[h].id /\ c = req[h].color => Unspoilt(i, c)'
      BY <1>3, <2>1, <3>1 DEF FirstImage, CreatePcs
    <3> QED
      BY <1>3, <2>1, <3>2 DEF Unspoilt
  <2>2. CASE pc[h] # "finish"
    BY <1>3, <2>2 DEF FirstImage
  <2> QED
    BY <2>1, <2>2
<1>4. ASSUME NEW g \in Handlers, Serving(g) PROVE Goal
  <2>1. Serves(g)
    BY <1>0, <1>4, ServingServes
  <2>2. h # g /\ pc[h] \in CreatePcs
    BY <2>1 DEF Serves, CreatePcs
  <2>3. req[g].id # req[h].id /\ req[g].id \in TaskIDs /\ (pc[g] \in BackgroundPcs \cup LayoutPcs => req[g].color \in Colors)
    BY <1>1, <2>1, <2>2, Busy DEF Serves, Inv, OwnershipInv, Owned
  <2>4. ~Creating(g) /\ pc[g] \notin CreatePcs
    BY <2>1 DEF Serves, Creating, Inv, TypeOK, Placed
  <2>5. ASSUME NEW i, NEW c, i = req[h].id, c = req[h].color, Unspoilt(i, c) PROVE Unspoilt(i, c)'
    BY <1>1, <1>4, <2>2, <2>3, <2>4, <2>5, PcsAreBusy, OwnStays
  <2> QED
    BY <1>3, <2>1, <2>2, <2>5 DEF Serves
<1>5. ASSUME NEW g \in Handlers, CreateStep(g) PROVE Goal
  <2>1. Builds(g)
    BY <1>0, <1>5, CreateStepKeeps
  <2>2. CASE h # g
    <3>1. req[g].id # req[h].id /\ pc[h] \in CreatePcs
      BY <1>1, <2>1, <2>2 DEF Builds, Inv, OwnershipInv, Owned, CreatePcs
    <3>2. req[g].id \in TaskIDs /\ req[g].color \in Colors
      BY <2>1, Busy, PcsAreBusy DEF Builds, Inv
    <3>3. ASSUME NEW i, NEW c, i = req[h].id, c = req[h].color, Unspoilt(i, c) PROVE Unspoilt(i, c)'
      BY <1>1, <1>5, <3>1, <3>2, <3>3, PcsAreBusy, OwnStays
    <3> QED
      BY <1>3, <2>1, <2>2, <3>1, <3>3 DEF Builds
  <2>3. CASE h = g
    <3>1. req' = req /\ req[g].id \in TaskIDs /\ req[g].color \in Colors
      BY <1>1, <2>1, <2>3, PcsAreBusy DEF Builds
    <3>2. CASE AddBackground(g)
      <4>1. data[g] = "rgba"
        BY <3>2 DEF AddBackground, At, FirstImage
      <4>2. data'[g] = Render(data[g], colorHexOf(req[g].color)) /\ pc'[g] = "flush_default"
        BY <3>2 DEF AddBackground, Hold, Goto, Inv, TypeOK
      <4> QED
        BY <2>3, <3>1, <4>1, <4>2 DEF Render
    <3>3. CASE FlushDefault(g)
      <4>1. pc[g] = "flush_default" /\ pc'[g] = "finish" /\ files' = Flushed(ColorFile(req[g].id, req[g].color), data[g])
        BY <3>3 DEF FlushDefault, At, Goto, Inv, TypeOK
      <4>2. data[g] = colorHexOf(req[g].color)
        BY <4>1 DEF FirstImage
      <4>3. ASSUME NEW i \in TaskIDs, NEW c \in Colors, i = req[g].id, c = req[g].color PROVE Unspoilt(i, c)'
        BY <1>2, <4>1, <4>2, <4>3, FlushedHolds DEF Unspoilt
      <4> QED
        BY <2>3, <3>1, <4>1, <4>3 DEF Unspoilt
    <3>4. CASE FlushBaseline(g)
      BY <2>3, <3>4 DEF FlushBaseline, At, Goto, Inv, TypeOK, OwnershipInv, BaselineFirst
    <3>5. CASE IDPhoto(g) \/ Finish(g) \/ FailTask(g)
      BY <2>3, <3>5 DEF IDPhoto, Finish, FailTask, SaveAndAnswer, Answer, Goto, Inv, TypeOK
    <3> QED
      BY <1>5, <3>2, <3>3, <3>4, <3>5 DEF CreateStep
  <2> QED
    BY <2>2, <2>3
<1>6. ASSUME NEW g \in Handlers, Start(g) PROVE Goal
  <2>1. files' = files /\ data' = data
    BY <1>6 DEF Start, Create, Request, RequestRefused
  <2>2. /\ \A k \in Handlers \ {g} : pc'[k] = pc[k] /\ req'[k] = req[k]
        /\ pc'[g] \notin {"add_background", "flush_default", "finish"}
    BY <1>6 DEF Start, Create, Request, RequestRefused, Begin, Goto, Answer, FirstPc, Inv, TypeOK
  <2> QED
    BY <1>3, <2>1, <2>2
<1>7. ASSUME NEW g \in Handlers, Reply(g) PROVE Goal
  <2>1. /\ \A k \in Handlers \ {g} : pc'[k] = pc[k] /\ req'[k] = req[k] /\ data'[k] = data[k]
        /\ pc'[g] = "idle" /\ files' = files
    BY <1>7 DEF Reply, Goto, Hold, Inv, TypeOK
  <2> QED
    BY <1>3, <2>1
<1>8. CASE ConcurrentMapFatal \/ Crash
  BY <1>8 DEF ConcurrentMapFatal, Crash, Restart
<1>9. CASE UNCHANGED vars
  BY <1>3, <1>9 DEF vars
<1> QED
  BY <1>4, <1>5, <1>6, <1>7, <1>8, <1>9 DEF Next, Step, Serving

LEMMA ImagesNext ==
  ASSUME Inv, Images, [Next]_vars
  PROVE  Images'
<1>1. ASSUME NEW id \in TaskIDs, repo'[id].status = "done" PROVE \E c \in Colors : Lasts(id, c)'
  BY <1>1, LastsNext, FinishLasts DEF Images
<1> QED
  BY <1>1, FirstNext DEF Images, ImageLasts

(* A done task that lists no colour with a file it shares (with another    *)
(* colour of any task, or with a sheet) has a whole image on the right     *)
(* background, for any number of requests, colours, stale rows, failing    *)
(* queries and crashes, and whatever requests for shared files write.      *)
THEOREM DoneTasksHaveAnImage == Spec => []DoneHasWholeImage
<1>1. Init => Inv /\ Images
  BY InvInit DEF Init, Images, ImageLasts, FirstImage, NoTask
<1>2. Inv /\ Images /\ [Next]_vars => Inv' /\ Images'
  BY InvNext, ImagesNext
<1>3. Images => DoneHasWholeImage
  BY FilePaths DEF Images, ImageLasts, Lasts, Unspoilt, DoneHasWholeImage
<1> QED
  BY <1>1, <1>2, <1>3, PTL DEF Spec

----------------------------------------------------------------------------
(* No two requests that write a task are at work on the same one.  Between *)
(* GenerateBackground's or GenerateLayout's Get of a task and its Put, the *)
(* request then has the task for itself, and its copy is never stale,      *)
(* except that GenerateLayout's lacks the colour GenerateBackground has    *)
(* put.  Handlers, requests on other tasks, reads of the same one, failing *)
(* queries and crashes are unlimited.                                      *)
Writing(g) == \/ pc[g] \in (BackgroundPcs \cup LayoutPcs) \ {"get", "layout_get"}
              \/ pc[g] = "get" /\ req[g].op = "layout"
Exclusive  == \A g, h \in Handlers : g # h /\ Writing(g) /\ Writing(h) => req[g].id # req[h].id

(* What is listed of a done task in a file of its own is whole.            *)
Whole(id) == repo[id].status = "done" => \A c \in repo[id].processed : Unspoilt(id, c)

Rendering == {"render", "open_color", "flush_color", "record", "recording"}

Faithful(g) ==
  LET i == req[g].id
      c == req[g].color
  IN /\ pc[g] \in CreatePcs => Object(i, task[g]).processed = {}
     /\ pc[g] \in Rendering => c \notin repo[i].processed /\ Object(i, btask[g]).processed = repo[i].processed
     /\ pc[g] \in {"record", "recording"} /\ repo[i].status = "done" => Unspoilt(i, c)
     /\ Writing(g) /\ req[g].op = "layout" => Object(i, task[g]).processed \subseteq repo[i].processed

Exact == (\A id \in TaskIDs : Whole(id)) /\ \A g \in Handlers : Faithful(g)

(* A handler that has no task in hand.                                     *)
LEMMA NothingInHand ==
  ASSUME NEW g \in Handlers, pc'[g] \in {"reply", "encode", "get", "layout_get", "idle"},
         pc'[g] = "get" => req'[g].op # "layout"
  PROVE  Faithful(g)'
  BY DEF Faithful, CreatePcs, Rendering, Writing, BackgroundPcs, LayoutPcs

(* A handler that does not move, while others write other tasks.           *)
LEMMA Undisturbed ==
  ASSUME UNCHANGED storage, Inv, NEW h \in Handlers, Faithful(h),
         pc'[h] = pc[h], req'[h] = req[h], task'[h] = task[h], btask'[h] = btask[h],
         Writing(h) \/ pc[h] \in CreatePcs =>
           repo'[req[h].id] = repo[req[h].id] /\ \A i : i = req[h].id => StaysUnspoilt(i)
  PROVE  Faithful(h)'
<1>1. CASE Writing(h) \/ pc[h] \in CreatePcs
  <2>1. pc[h] \in {"record", "recording"} => req[h].color \in Colors
    BY Busy DEF Inv, BackgroundPcs
  <2>2. ASSUME NEW i, i = req[h].id, NEW c \in Colors, c = req[h].color, Unspoilt(i, c) PROVE Unspoilt(i, c)'
    BY <1>1, <2>2 DEF StaysUnspoilt
  <2>3. pc'[h] \in {"record", "recording"} /\ repo'[req'[h].id].status = "done" => Unspoilt(req[h].id, req[h].color)'
    BY <1>1, <2>1, <2>2 DEF Faithful, Unspoilt
  <2> QED
    BY <1>1, <2>3 DEF Faithful, Writing, Object
<1>2. CASE ~(Writing(h) \/ pc[h] \in CreatePcs)
  BY <1>2 DEF Faithful, Writing, Rendering, BackgroundPcs, LayoutPcs
<1> QED
  BY <1>1, <1>2

(* A request that has a task for itself leaves it exact.                   *)
LEMMA ExactRest ==
  ASSUME UNCHANGED storage, Exclusive, Inv, Exact, NEW g \in Handlers, pc[g] # "idle", Alone(g), req' = req,
         \/ UNCHANGED <<repo, files>>
         \/ /\ Writing(g) \/ Creating(g)
            /\ \A id \in TaskIDs \ {req[g].id} : repo'[id] = repo[id] /\ StaysUnspoilt(id),
         Whole(req[g].id)', Faithful(g)'
  PROVE  Exact'
<1> DEFINE i == req[g].id
<1>1. i \in TaskIDs /\ \A id \in TaskIDs : repo[id].processed \subseteq Colors
  BY Busy DEF Inv, TypeOK, Tasks
<1>a. files' = files => \A id \in TaskIDs : StaysUnspoilt(id)
  BY DEF StaysUnspoilt, Unspoilt, Content
<1>2. \A id \in TaskIDs : Whole(id)'
  <2>1. ASSUME NEW id \in TaskIDs, id # i PROVE Whole(id)'
    BY <1>1, <1>a, <2>1 DEF Exact, Whole, StaysUnspoilt
  <2>2. ASSUME NEW id \in TaskIDs, id = i PROVE Whole(id)'
    BY <2>2 DEF Whole
  <2> QED
    BY <2>1, <2>2
<1>3. ASSUME NEW h \in Handlers \ {g} PROVE Faithful(h)'
  <2>1. ASSUME Writing(h) \/ pc[h] \in CreatePcs, Writing(g) \/ Creating(g)
        PROVE  req[h].id # i /\ req[h].id \in TaskIDs
    <3>1. pc[h] # "idle" /\ (Writing(h) => ~Creating(h)) /\ (pc[h] \in CreatePcs => Creating(h))
      BY <2>1 DEF Writing, Creating, CreatePcs, BackgroundPcs, LayoutPcs, Inv, TypeOK, Placed
    <3>2. Writing(g) => ~Creating(g)
      BY DEF Writing, Creating, BackgroundPcs, LayoutPcs, Inv, TypeOK, Placed
    <3>3. req[h].id \in TaskIDs
      BY <3>1, Busy DEF Inv
    <3>4. req[h].id # i
      BY <2>1, <3>1, <3>2 DEF Exclusive, Inv, OwnershipInv, Owned
    <3> QED
      BY <3>3, <3>4
  <2>2. Writing(h) \/ pc[h] \in CreatePcs =>
          repo'[req[h].id] = repo[req[h].id] /\ \A id : id = req[h].id => StaysUnspoilt(id)
    <3>1. CASE UNCHANGED <<repo, files>>
      <4>1. Writing(h) \/ pc[h] \in CreatePcs => req[h].id \in TaskIDs
        BY Busy DEF Inv, Writing, CreatePcs, BackgroundPcs, LayoutPcs
      <4> QED
        BY <1>a, <3>1, <4>1
    <3>2. CASE ~UNCHANGED <<repo, files>>
      BY <2>1, <3>2
    <3> QED
      BY <3>1, <3>2
  <2> QED
    BY <1>3, <2>2, Undisturbed DEF Alone, Exact
<1> QED
  BY <1>2, <1>3 DEF Exact

(* Putting a task whose images are those listed, or new and whole.         *)
LEMMA PutsWhole ==
  ASSUME Exact, repo \in [TaskIDs -> Tasks], NEW i \in TaskIDs, NEW t \in Tasks, repo' \in Saves(i, t), UNCHANGED files,
         repo'[i].status = "done" => \A c \in t.processed : c \in repo[i].processed \/ Unspoilt(i, c),
         repo'[i].status = "done" => repo[i].status = "done" \/ \A c \in t.processed : Unspoilt(i, c)
  PROVE  Whole(i)' /\ \A id \in TaskIDs \ {i} : repo'[id] = repo[id] /\ StaysUnspoilt(id)
<1>1. Stored(t).processed = t.processed /\ Stored(t).status = t.status
  BY DEF Stored, Row, Tasks
<1>2. repo' = repo \/ (repo'[i] = Stored(t) /\ \A id \in TaskIDs \ {i} : repo'[id] = repo[id])
  BY DEF Saves
<1>3. \A id, c : Unspoilt(id, c) => Unspoilt(id, c)'
  BY DEF Unspoilt, Content
<1> QED
  BY <1>1, <1>2, <1>3 DEF Exact, Whole, StaysUnspoilt

(* CreateTask lists the one image it has just written.                     *)
LEMMA ExactCreateStep ==
  ASSUME Exclusive, UNCHANGED storage, Inv, FirstImage, Exact, NEW g \in Handlers, CreateStep(g)
  PROVE  Exact'
<1> DEFINE i == req[g].id
           c == req[g].color
           t == Object(i, task[g])
<1>1. /\ i \in TaskIDs /\ c \in Colors /\ pc[g] \in CreatePcs /\ pc[g] # "idle" /\ req' = req
      /\ Creating(g) /\ repo[i].status # "done" /\ Alone(g) /\ storage \in {"memory", "postgres"}
  <2>1. Builds(g)
    BY CreateStepKeeps
  <2> QED
    BY <2>1, Busy, PcsAreBusy, ServiceAssumption DEF Builds, Alone, Inv, TypeOK, OwnershipInv, BaselineFirst
<1>2. /\ t.processed = {} /\ t \in Tasks /\ repo \in [TaskIDs -> Tasks]
      /\ files \in [TaskIDs -> [FileNames -> Contents]] /\ task \in [Handlers -> Tasks]
  <2>1. t.processed = {}
    BY <1>1 DEF Exact, Faithful
  <2> QED
    BY <1>1, <2>1, Objects DEF Inv, TypeOK
<1>a. ASSUME NEW id \in TaskIDs \ {i} PROVE StaysUnspoilt(id)
  BY <1>1, <1>a, PcsAreBusy, OwnStays DEF StaysUnspoilt
<1>3. ASSUME \A id \in TaskIDs \ {i} : repo'[id] = repo[id], repo'[i].status # "done", Faithful(g)'
      PROVE  Exact'
  BY <1>1, <1>3, <1>a, ExactRest DEF Whole
(* The task is saved. *)
<1>4. ASSUME NEW s \in Tasks, SaveAndAnswer(g, s), \A k \in s.processed : Unspoilt(i, k)
      PROVE  Exact'
  <2>1. repo' \in Saves(i, s) /\ files' = files /\ pc'[g] = "reply"
    BY <1>4 DEF SaveAndAnswer, Answer, Goto, Inv, TypeOK
  <2>2. Whole(i)' /\ \A id \in TaskIDs \ {i} : repo'[id] = repo[id] /\ StaysUnspoilt(id)
    BY <1>1, <1>2, <1>4, <2>1, PutsWhole DEF Whole
  <2>3. Faithful(g)'
    BY <2>1, NothingInHand
  <2> QED
    BY <1>1, <2>2, <2>3, ExactRest
<1>5. CASE Finish(g)
  <2>1. pc[g] = "finish" /\ SaveAndAnswer(g, Done(WithColor(t, c)))
    BY <1>5 DEF Finish, At
  <2>2. WithColor(t, c) \in Tasks /\ Done(WithColor(t, c)) \in Tasks /\ Done(WithColor(t, c)).processed = {c}
    <3>1. WithColor(t, c) \in Tasks /\ WithColor(t, c).processed = {c}
      BY <1>1, <1>2, TaskOperators DEF WithColor, Tasks
    <3> QED
      BY <1>1, <3>1, TaskOperators DEF Done, Tasks
  <2>3. Unspoilt(i, c)
    BY <2>1 DEF FirstImage
  <2> QED
    BY <1>4, <2>1, <2>2, <2>3
<1>6. CASE FailTask(g)
  <2>1. Failed(t) \in Tasks /\ Failed(t).processed = {}
    BY <1>1, <1>2, TaskOperators DEF Failed, Tasks
  <2> QED
    BY <1>4, <1>6, <2>1 DEF FailTask
(* A file of the task is opened or written. *)
<1>7. CASE IDPhoto(g) \/ AddBackground(g) \/ FlushDefault(g)
  <2>1. UNCHANGED <<repo, task>> /\ pc'[g] \in CreatePcs
    BY <1>1, <1>2, <1>7 DEF IDPhoto, AddBackground, FlushDefault, Goto, CreatePcs, Inv, TypeOK
  <2>2. Faithful(g)'
    BY <1>1, <1>2, <2>1 DEF Faithful, CreatePcs, Rendering, Writing, BackgroundPcs, LayoutPcs, Object
  <2> QED
    BY <1>1, <1>3, <2>1, <2>2
<1>8. CASE FlushBaseline(g)
  <2> DEFINE s == WithBaseline(t)
  <2>1. /\ repo' = IF storage = "memory" THEN [repo EXCEPT ![i] = s] ELSE repo
        /\ task' = [task EXCEPT ![g] = Copy(s)] /\ pc'[g] \in CreatePcs
    BY <1>1, <1>2, <1>8 DEF FlushBaseline, Goto, CreatePcs, Inv, TypeOK
  <2>2. s.processed = {} /\ s.status = t.status
    BY <1>2 DEF WithBaseline, Tasks
  <2>3. repo'[i].status # "done" /\ \A id \in TaskIDs \ {i} : repo'[id] = repo[id]
    BY <1>1, <1>2, <2>1, <2>2 DEF Object
  <2>4. Object(i, task[g])'.processed = {}
    BY <1>1, <1>2, <2>1, <2>2 DEF Object, Copy
  <2>5. Faithful(g)'
    BY <1>1, <2>1, <2>4 DEF Faithful, CreatePcs, Rendering, Writing, BackgroundPcs, LayoutPcs
  <2> QED
    BY <1>3, <2>1, <2>3, <2>5
<1> QED
  BY <1>5, <1>6, <1>7, <1>8 DEF CreateStep

(* A request begins: a task that is created is nobody else's.              *)
LEMMA ExactStart ==
  ASSUME UNCHANGED storage, Inv, Exact, NEW g \in Handlers, Start(g)
  PROVE  Exact'
<1>1. /\ repo \in [TaskIDs -> Tasks] /\ pc \in [Handlers -> Pcs] /\ req \in [Handlers -> Requests]
      /\ task \in [Handlers -> Tasks] /\ storage \in {"memory", "postgres"}
  BY ServiceAssumption DEF Inv, TypeOK
<1>2. /\ files' = files
      /\ \A h \in Handlers \ {g} : pc'[h] = pc[h] /\ req'[h] = req[h] /\ task'[h] = task[h] /\ btask'[h] = btask[h]
  BY <1>1 DEF Start, Create, Request, RequestRefused, Begin, Goto, Answer
<1>3. ASSUME \A h \in Handlers : pc[h] # "idle" => repo'[req[h].id] = repo[req[h].id],
             \A id \in TaskIDs : repo'[id] = repo[id] \/ repo'[id].status # "done",
             Faithful(g)'
      PROVE  Exact'
  <2>a. \A id, c : Unspoilt(id, c) => Unspoilt(id, c)'
    BY <1>2 DEF Unspoilt, Content
  <2>1. \A id \in TaskIDs : Whole(id)'
    BY <1>3, <2>a DEF Exact, Whole
  <2>2. ASSUME NEW h \in Handlers \ {g} PROVE Faithful(h)'
    <3>1. Writing(h) \/ pc[h] \in CreatePcs => pc[h] # "idle"
      BY DEF Writing, CreatePcs, BackgroundPcs, LayoutPcs
    <3> QED
      BY <1>2, <1>3, <2>a, <3>1, Undisturbed DEF Exact, StaysUnspoilt
  <2> QED
    BY <1>3, <2>1, <2>2 DEF Exact
<1>4. ASSUME NEW i \in TaskIDs, NEW k \in Colors \cup {None}, Create(g, i, k) PROVE Exact'
  <2>1. /\ repo' \in Saves(i, NewTask) /\ task'[g] = Copy(NewTask) /\ pc'[g] = "idphoto" /\ req'[g].id = i
        /\ i \notin issued
    BY <1>1, <1>4 DEF Create, Begin, Goto
  <2>2. Stored(NewTask).status # "done" /\ Stored(NewTask).processed = {} /\ NewTask.processed = {}
    BY DEF Stored, Row, NewTask
  <2>3. /\ \A id \in TaskIDs : id # i => repo'[id] = repo[id]
        /\ repo'[i] = repo[i] \/ repo'[i] = Stored(NewTask)
    BY <1>1, <2>1 DEF Saves
  <2>4. storage = "memory" => repo'[i] = Stored(NewTask)
    BY <1>1, <2>1 DEF Saves, Fails
  <2>5. Faithful(g)'
    <3>1. Object(req[g].id, task[g])'.processed = {}
      BY <1>1, <2>1, <2>2, <2>4 DEF Object, Copy
    <3> QED
      BY <2>1, <3>1 DEF Faithful, CreatePcs, Rendering, Writing, BackgroundPcs, LayoutPcs
  <2>6. \A h \in Handlers : pc[h] # "idle" => req[h].id # i /\ req[h].id \in TaskIDs
    BY <2>1, Busy DEF Inv, TypeOK, Placed
  <2> QED
    BY <1>3, <2>2, <2>3, <2>5, <2>6
<1>5. ASSUME NEW i \in TaskIDs, NEW op \in Ops \ {"create"}, NEW k, Request(g, op, i, k) \/ RequestRefused(g, op, i, k)
      PROVE  Exact'
  <2>1. /\ repo' = repo /\ pc'[g] \in {"reply", "encode", "get", "layout_get"} /\ req'[g].op = op
        /\ pc'[g] = "get" => op # "layout"
    BY <1>1, <1>5 DEF Request, RequestRefused, Begin, Goto, Answer, FirstPc
  <2>2. Faithful(g)'
    BY <2>1, NothingInHand
  <2> QED
    BY <1>3, <2>1, <2>2
<1> QED
  BY <1>4, <1>5 DEF Start, Ops

(* Serving a task writes the file of a colour before it lists it, and none *)
(* that is listed.                                                         *)
LEMMA ExactServing ==
  ASSUME Exclusive, UNCHANGED storage, Inv, Rendered, Exact, NEW g \in Handlers, Serving(g)
  PROVE  Exact'
<1> DEFINE i == req[g].id
           c == req[g].color
<1>1. /\ i \in TaskIDs /\ req' = req /\ pc[g] # "idle" /\ Alone(g) /\ storage \in {"memory", "postgres"}
      /\ (pc[g] \in BackgroundPcs \cup LayoutPcs => c \in Colors)
      /\ \A id \in TaskIDs : repo'[id].status = repo[id].status
  <2>1. Serves(g)
    BY ServingServes
  <2> QED
    BY <2>1, Busy, ServiceAssumption DEF Serves, Alone, Inv, TypeOK
<1>2. /\ task[g] \in Tasks /\ btask[g] \in Tasks /\ repo \in [TaskIDs -> Tasks]
      /\ files \in [TaskIDs -> [FileNames -> Contents]] /\ pc[g] \notin CreatePcs
  <2>1. Serves(g)
    BY ServingServes
  <2> QED
    BY <2>1 DEF Serves, Creating, Inv, TypeOK, Placed
<1>a. ASSUME NEW id \in TaskIDs, NEW k \in Colors, Unspoilt(id, k), id # i \/ k # c \/ pc[g] \notin ColorPcs
      PROVE  Unspoilt(id, k)'
  BY <1>1, <1>2, <1>a, OwnStays
<1>b. \A id \in TaskIDs \ {i} : StaysUnspoilt(id)
  BY <1>a DEF StaysUnspoilt
<1>3. (\A id \in TaskIDs : Whole(id)) /\ Faithful(g)
  BY DEF Exact
<1>4. ASSUME UNCHANGED <<repo, files>>, Faithful(g)' PROVE Exact'
  <2>1. Whole(req[g].id)'
    BY <1>1, <1>3, <1>4 DEF Whole, Unspoilt, Content
  <2> QED
    BY <1>1, <1>4, <2>1, ExactRest
<1>5. ASSUME Writing(g), \A id \in TaskIDs \ {i} : repo'[id] = repo[id],
             repo[i].status = "done" => \A k \in repo'[i].processed : Unspoilt(i, k)', Faithful(g)'
      PROVE  Exact'
  BY <1>1, <1>5, <1>b, ExactRest DEF Whole
<1> USE DEF At, Goto, Hold
<1>6. CASE GetHit(g)
  <2>1. /\ UNCHANGED <<repo, files, task, btask>> /\ pc[g] = "get"
        /\ pc'[g] \in {"compose", "reply"} /\ (pc'[g] = "compose" => req[g].op = "layout")
    BY <1>6 DEF GetHit, BackgroundReturns, Answer, Inv, TypeOK
  <2>2. Faithful(g)'
    BY <1>1, <1>3, <2>1 DEF Faithful, CreatePcs, Rendering, Writing, BackgroundPcs, LayoutPcs, Object
  <2> QED
    BY <1>4, <2>1, <2>2
<1>7. CASE GetMiss(g)
  <2>1. /\ UNCHANGED <<repo, files, task>> /\ c \notin repo[i].processed /\ pc[g] = "get"
        /\ pc'[g] = "render" /\ btask'[g] = Copy(repo[i])
    BY <1>7 DEF GetMiss, HasColor, Inv, TypeOK
  <2>2. Object(i, btask'[g]) = repo[i]
    BY <2>1 DEF Object, Copy
  <2>3. Object(req[g].id, btask[g])' = repo[i]
    BY <1>1, <2>1, <2>2 DEF Object
  <2>4. Object(req[g].id, task[g])' = Object(i, task[g])
    BY <1>1, <2>1 DEF Object
  <2>5. Faithful(g)'
    BY <1>1, <1>3, <2>1, <2>3, <2>4 DEF Faithful, CreatePcs, Rendering, Writing, BackgroundPcs, LayoutPcs
  <2> QED
    BY <1>4, <2>1, <2>5
<1>8. CASE RenderColor(g) \/ ComposeLayout(g) \/ BeginRecord(g) \/ BeginLayoutRecord(g)
  <2>1. /\ UNCHANGED <<repo, files, task, btask>>
        /\ \/ pc[g] = "render" /\ pc'[g] = "open_color"
           \/ pc[g] = "compose" /\ pc'[g] = "open_layout"
           \/ pc[g] = "record" /\ pc'[g] = "recording"
           \/ pc[g] = "layout_record" /\ pc'[g] = "layout_recording"
    BY <1>8 DEF RenderColor, ComposeLayout, BeginRecord, BeginLayoutRecord, Inv, TypeOK
  <2>2. Faithful(g)'
    BY <1>1, <1>3, <2>1 DEF Faithful, CreatePcs, Rendering, Writing, BackgroundPcs, LayoutPcs, Object, Unspoilt, Content
  <2> QED
    BY <1>4, <2>1, <2>2
<1>9. CASE OpenColor(g) \/ FlushColor(g)
  <2>1. /\ UNCHANGED <<repo, task, btask>> /\ c \in Colors
        /\ \/ pc[g] = "open_color" /\ pc'[g] = "flush_color"
           \/ pc[g] = "flush_color" /\ pc'[g] = "record" /\ files' = Flushed(ColorFile(i, c), data[g])
    BY <1>1, <1>9 DEF OpenColor, FlushColor, BackgroundPcs, Inv, TypeOK
  <2>2. c \notin repo[i].processed
    BY <1>3, <2>1 DEF Faithful, Rendering
  <2>5. repo[i].status = "done" => \A k \in repo'[i].processed : Unspoilt(i, k)'
    <3>1. \A k \in repo[i].processed : k \in Colors /\ k # c
      BY <1>1, <1>2, <2>2 DEF Tasks
    <3> QED
      BY <1>1, <1>3, <1>a, <2>1, <3>1 DEF Whole
  <2>6. pc'[g] = "record" /\ repo[i].status = "done" => Unspoilt(req[g].id, req[g].color)'
    <3>1. ASSUME pc'[g] = "record", repo[i].status = "done", NEW id \in TaskIDs, NEW k \in Colors, id = i, k = c
          PROVE  Unspoilt(id, k)'
      <4>1. data[g] = colorHexOf(k) /\ files' = Flushed(ColorFile(id, k), data[g])
        BY <2>1, <3>1 DEF Rendered
      <4> QED
        BY <1>2, <4>1, FlushedHolds DEF Unspoilt
    <3> QED
      BY <1>1, <2>1, <3>1 DEF Unspoilt
  <2>7. Faithful(g)'
    BY <1>1, <1>3, <2>1, <2>6 DEF Faithful, CreatePcs, Rendering, Writing, BackgroundPcs, LayoutPcs, Object
  <2>8. Writing(g)
    BY <2>1 DEF Writing, BackgroundPcs
  <2> QED
    BY <1>5, <2>1, <2>5, <2>7, <2>8
<1>10. CASE OpenLayout(g) \/ FlushLayout(g)
  <2>1. /\ UNCHANGED <<repo, task, btask>> /\ pc[g] \in {"open_layout", "flush_layout"}
        /\ pc'[g] \in {"flush_layout", "layout_record"}
    BY <1>10 DEF OpenLayout, FlushLayout, Inv, TypeOK
  <2>2. \A k \in Colors : Unspoilt(i, k) => Unspoilt(i, k)'
    BY <1>1, <1>a, <2>1 DEF ColorPcs
  <2>4. repo[i].status = "done" => \A k \in repo'[i].processed : Unspoilt(i, k)'
    BY <1>1, <1>2, <1>3, <2>1, <2>2 DEF Whole, Tasks
  <2>5. Faithful(g)'
    BY <1>1, <1>3, <2>1 DEF Faithful, CreatePcs, Rendering, Writing, BackgroundPcs, LayoutPcs, Object
  <2>6. Writing(g)
    BY <2>1 DEF Writing, LayoutPcs
  <2> QED
    BY <1>5, <2>1, <2>4, <2>5, <2>6
(* An object is put, or the shared one has changed. *)
<1>11. ASSUME Writing(g), NEW t \in Tasks, UNCHANGED files, repo' \in Saves(i, t),
              \A k \in t.processed : k \in repo[i].processed \/ (repo[i].status = "done" => Unspoilt(i, k)),
              Faithful(g)'
       PROVE  Exact'
  <2>1. Whole(i)' /\ \A id \in TaskIDs \ {i} : repo'[id] = repo[id] /\ StaysUnspoilt(id)
    BY <1>1, <1>2, <1>11, PutsWhole DEF Whole
  <2> QED
    BY <1>1, <1>11, <2>1, ExactRest
<1>12. CASE PutBackground(g) \/ EndRecord(g)
  <2>1. /\ pc[g] \in {"record", "recording"} /\ c \in Colors /\ Writing(g) /\ UNCHANGED <<files, task, btask>>
        /\ pc'[g] \in {"compose", "reply"} /\ (pc'[g] = "compose" => req[g].op = "layout")
    BY <1>1, <1>12 DEF PutBackground, EndRecord, BackgroundReturns, Answer, Writing, BackgroundPcs, Inv, TypeOK
  <2> DEFINE s == Object(i, btask[g])
             t == WithColor(s, c)
  <2>2. /\ s \in Tasks /\ t \in Tasks /\ t.processed = s.processed \cup {c}
    BY <1>1, <1>2, <2>1, TaskOperators, Objects DEF WithColor, Tasks
  <2>3. /\ s.processed = repo[i].processed
        /\ repo[i].status = "done" => Unspoilt(i, c)
    BY <1>3, <2>1 DEF Faithful, Rendering
  <2>4. repo' \in Saves(i, t)
    <3>1. CASE PutBackground(g)
      BY <3>1 DEF PutBackground, Object
    <3>2. CASE EndRecord(g)
      <4>1. storage = "memory" /\ pc[g] = "recording"
        BY <3>2 DEF EndRecord, Inv, TypeOK, Placed
      <4>2. ~\E h \in Handlers : Meets(g, h, "recording")
        BY <2>1, <4>1 DEF Meets, Exclusive, Writing, BackgroundPcs
      <4> QED
        BY <3>2, <4>1, <4>2 DEF EndRecord, Saves, Stored, Object
    <3> QED
      BY <1>12, <3>1, <3>2
  <2>5. req[g].op = "layout" => Object(i, task[g]).processed \subseteq repo[i].processed
    BY <1>3, <2>1 DEF Faithful
  <2>6. repo'[i] = repo[i] \/ repo'[i].processed = t.processed
    <3>1. Stored(t).processed = t.processed
      BY <2>2 DEF Stored, Row, Tasks
    <3> QED
      BY <1>1, <1>2, <2>4, <3>1 DEF Saves
  <2>7. req[g].op = "layout" => Object(req[g].id, task[g])'.processed \subseteq repo'[i].processed
    <3>1. repo[i].processed \subseteq repo'[i].processed
      BY <2>2, <2>3, <2>6
    <3>2. Object(req[g].id, task[g])' = IF storage = "memory" THEN repo'[i] ELSE task[g]
      BY <1>1, <2>1 DEF Object
    <3> QED
      BY <2>5, <3>1, <3>2 DEF Object
  <2>8. Faithful(g)'
    BY <1>1, <2>1, <2>7 DEF Faithful, CreatePcs, Rendering, Writing, BackgroundPcs, LayoutPcs
  <2> HIDE DEF t, s
  <2> QED
    BY <1>11, <2>1, <2>2, <2>3, <2>4, <2>8
<1>13. CASE PutLayout(g) \/ EndLayoutRecord(g)
  <2> DEFINE s == Object(i, task[g])
             t == WithLayout(s)
  <2>1. /\ pc[g] \in {"layout_record", "layout_recording"} /\ pc'[g] = "reply" /\ req[g].op = "layout" /\ UNCHANGED files
        /\ Writing(g)
    BY <1>1, <1>13 DEF PutLayout, EndLayoutRecord, Answer, LayoutPcs, Writing, Inv, TypeOK, Placed
  <2>2. s \in Tasks /\ s.processed \subseteq repo[i].processed
    BY <1>1, <1>2, <1>3, <2>1, Objects DEF Faithful
  <2>3. t \in Tasks /\ t.processed = s.processed
    BY <2>2, TaskOperators, PhotoAssumption DEF WithLayout, Tasks
  <2>4. repo' \in Saves(i, t)
    <3>1. EndLayoutRecord(g) => storage = "memory"
      BY DEF EndLayoutRecord, Inv, TypeOK, Placed
    <3> QED
      BY <1>13, <3>1 DEF PutLayout, EndLayoutRecord, Object, Saves, Stored
  <2>5. Faithful(g)'
    BY <2>1, NothingInHand
  <2> HIDE DEF t, s
  <2> QED
    BY <1>11, <2>1, <2>2, <2>3, <2>4, <2>5
<1>14. CASE LayoutMiss(g)
  <2>1. /\ UNCHANGED <<repo, files>> /\ pc'[g] \in {"compose", "get"} /\ task'[g] = Copy(repo[i])
    BY <1>14 DEF LayoutMiss, Inv, TypeOK
  <2>2. Object(req[g].id, task[g])' = repo[i]
    BY <1>1, <2>1 DEF Object, Copy
  <2>3. Faithful(g)'
    BY <1>1, <2>1, <2>2 DEF Faithful, CreatePcs, Rendering, Writing, BackgroundPcs, LayoutPcs
  <2> QED
    BY <1>4, <2>1, <2>3
<1>15. CASE LayoutHit(g) \/ ComposeRefused(g) \/ GetRefused(g) \/ FailRequest(g) \/ Encode(g)
  <2>1. UNCHANGED <<repo, files>> /\ pc'[g] = "reply"
    BY <1>15 DEF LayoutHit, ComposeRefused, GetRefused, FailRequest, Encode, Answer, Inv, TypeOK
  <2>2. Faithful(g)'
    BY <2>1, NothingInHand
  <2> QED
    BY <1>4, <2>1, <2>2
<1> QED
  BY <1>6, <1>7, <1>8, <1>9, <1>10, <1>12, <1>13, <1>14, <1>15 DEF Serving, BackgroundStep, LayoutStep

LEMMA ExactNext ==
  ASSUME Exclusive, Inv, Rendered, FirstImage, Exact, [Next]_vars
  PROVE  Exact'
<1>0. UNCHANGED storage /\ TypeOK
  BY DEF Next, vars, Inv
<1>1. ASSUME NEW g \in Handlers, Reply(g) PROVE Exact'
  <2>1. /\ UNCHANGED <<repo, files>> /\ pc'[g] = "idle"
        /\ \A h \in Handlers \ {g} : pc'[h] = pc[h] /\ req'[h] = req[h] /\ task'[h] = task[h] /\ btask'[h] = btask[h]
    BY <1>0, <1>1 DEF Reply, Goto, TypeOK
  <2>2. \A id, c : Unspoilt(id, c) => Unspoilt(id, c)'
    BY <2>1 DEF Unspoilt, Content
  <2>3. \A h \in Handlers : Faithful(h)'
    BY <1>0, <2>1, <2>2, NothingInHand, Undisturbed DEF Exact, StaysUnspoilt
  <2> QED
    BY <2>1, <2>2, <2>3 DEF Exact, Whole
<1>2. CASE ConcurrentMapFatal \/ Crash
  <2>1. files' = files /\ \A id \in TaskIDs : repo'[id] \in {NoTask, repo[id]}
    BY <1>0, <1>2 DEF ConcurrentMapFatal, Crash, Restart, TypeOK
  <2>2. \A h \in Handlers : pc'[h] = "idle"
    BY <1>2 DEF ConcurrentMapFatal, Crash, Restart
  <2>3. \A h \in Handlers : Faithful(h)'
    BY <2>2, NothingInHand
  <2>4. \A id \in TaskIDs : Whole(id)'
    BY <2>1 DEF Exact, Whole, Unspoilt, Content, NoTask
  <2> QED
    BY <2>3, <2>4 DEF Exact
<1>3. CASE UNCHANGED vars
  BY <1>3 DEF vars, history, Exact, Whole, Unspoilt, Content, Faithful, Object, Writing
<1> QED
  BY <1>0, <1>1, <1>2, <1>3, ExactServing, ExactCreateStep, ExactStart DEF Next, Step, Serving

LEMMA ExactInit == Init => Inv /\ Rendered /\ Images /\ Exact
<1> SUFFICES ASSUME Init PROVE Rendered /\ Images /\ Exact
  BY InvInit
<1>1. Images /\ Rendered
  BY DEF Init, Images, ImageLasts, FirstImage, Rendered, NoTask
<1>2. Exact
  BY DEF Init, Exact, Whole, Faithful, CreatePcs, Rendering, Writing, BackgroundPcs, LayoutPcs, NoTask
<1> QED
  BY <1>1, <1>2

(* As long as no two requests write one task at a time, every image the    *)
(* repository lists of a done task is whole and on its background, for any *)
(* number of requests, with failed writes, failed algorithm calls, failing *)
(* queries and crashes at any place, in both storages.                     *)
THEOREM ExclusiveListingsAreWhole == Spec /\ []Exclusive => []RecordedIsWhole
<1>1. Inv /\ Rendered /\ Images /\ Exact /\ Exclusive /\ [Next]_vars => Inv' /\ Rendered' /\ Images' /\ Exact'
  BY InvNext, RenderedNext, ImagesNext, ExactNext DEF Images
<1>2. Exact => RecordedIsWhole
  BY FilePaths DEF Exact, Whole, Unspoilt, RecordedIsWhole
<1> QED
  BY <1>1, <1>2, ExactInit, PTL DEF Spec

----------------------------------------------------------------------------
(* A background that is answered is listed, as long as no two requests     *)
(* that may write are in progress on one task, from their beginning to     *)
(* their answer, and queries do not fail.  Between Get and Put would not   *)
(* do: GenerateLayout puts its copy over a colour that GenerateBackground  *)
(* has put meanwhile, and another request may have found it there.         *)
NoneFails == ~RepoMayFail \/ "postgres" \notin Storages

InProgress(g) == pc[g] # "idle" /\ req[g].op \in {"background", "layout"}
Apart         == \A g, h \in Handlers : g # h /\ InProgress(g) /\ InProgress(h) => req[g].id # req[h].id

LEMMA ApartIsExclusive ==
  ASSUME TypeOK, Apart PROVE Exclusive
<1>1. \A g \in Handlers : Writing(g) => InProgress(g)
  BY DEF Writing, InProgress, BackgroundPcs, LayoutPcs, TypeOK, Placed
<1> QED
  BY <1>1 DEF Apart, Exclusive

(* A handler that has just returned from GenerateBackground has its colour *)
(* listed.                                                                 *)
LEMMA AnswerListed ==
  ASSUME NoneFails, Apart, UNCHANGED storage, Inv, NEW g \in Handlers, Serving(g), req[g].op = "background",
         pc'[g] = "reply", answer'[g].code = 200
  PROVE  req[g].color \in repo'[req[g].id].processed
<1> DEFINE i == req[g].id
           c == req[g].color
<1>1. /\ i \in TaskIDs /\ repo \in [TaskIDs -> Tasks] /\ pc[g] # "idle" /\ btask[g] \in Tasks
      /\ (pc[g] \in BackgroundPcs => c \in Colors)
  <2>1. Serves(g)
    BY ServingServes
  <2> QED
    BY <2>1, Busy DEF Serves, Inv, TypeOK
<1> USE DEF At, Goto
<1>2. CASE GetHit(g)
  BY <1>2 DEF GetHit, HasColor
<1>3. CASE PutBackground(g)
  <2>1. storage = "postgres" /\ repo' \in Saves(i, WithColor(btask[g], c)) /\ c \in Colors /\ ~Fails
    BY <1>1, <1>3 DEF PutBackground, BackgroundPcs, NoneFails, Fails, Inv, TypeOK
  <2>2. c \in Row(WithColor(btask[g], c)).processed
    BY <1>1, <2>1 DEF WithColor, Row, Tasks
  <2> QED
    BY <1>1, <2>1, <2>2 DEF Saves, Stored
<1>4. CASE EndRecord(g)
  <2>1. ~\E h \in Handlers : Meets(g, h, "recording")
    BY <1>1, <1>4 DEF EndRecord, Meets, Apart, InProgress, BackgroundPcs, Inv, TypeOK, Placed
  <2>2. repo' = [repo EXCEPT ![i] = WithColor(repo[i], c)] /\ c \in Colors
    BY <1>1, <1>4, <2>1 DEF EndRecord, BackgroundPcs
  <2>3. c \in WithColor(repo[i], c).processed
    BY <1>1, <2>2 DEF WithColor, Tasks
  <2> QED
    BY <1>1, <2>2, <2>3
<1>5. CASE GetRefused(g) \/ FailRequest(g)
  BY <1>5 DEF GetRefused, FailRequest, Answer, Inv, TypeOK
<1>6. CASE Encode(g) \/ LayoutStep(g)
  BY <1>6 DEF Encode, LayoutStep, LayoutHit, LayoutMiss, ComposeLayout, ComposeRefused, OpenLayout, FlushLayout, PutLayout,
     BeginLayoutRecord, EndLayoutRecord, LayoutPcs, Inv, TypeOK, Placed
<1>7. CASE GetMiss(g) \/ RenderColor(g) \/ OpenColor(g) \/ FlushColor(g) \/ BeginRecord(g)
  BY <1>7 DEF GetMiss, RenderColor, OpenColor, FlushColor, BeginRecord, Inv, TypeOK
<1> QED
  BY <1>2, <1>3, <1>4, <1>5, <1>6, <1>7 DEF Serving, BackgroundStep

LEMMA AnsweredNext ==
  ASSUME NoneFails, Apart, Inv, AnsweredIsRecorded, [Next]_vars
  PROVE  AnsweredIsRecorded'
<1>0. UNCHANGED storage /\ TypeOK
  BY DEF Next, vars, Inv
<1> SUFFICES ASSUME NEW h \in Handlers, pc'[h] = "reply", req'[h].op = "background", answer'[h].code = 200
             PROVE  req'[h].color \in repo'[req'[h].id].processed
  BY DEF AnsweredIsRecorded
(* A handler that waits at its answer, while others write other tasks.     *)
<1>1. ASSUME pc'[h] = pc[h], req'[h] = req[h], answer'[h] = answer[h], repo'[req[h].id] = repo[req[h].id]
      PROVE  req'[h].color \in repo'[req'[h].id].processed
  BY <1>1 DEF AnsweredIsRecorded
<1>2. ASSUME NEW g \in Handlers, Serving(g) PROVE req'[h].color \in repo'[req'[h].id].processed
  <2>1. Serves(g)
    BY <1>0, <1>2, ServingServes
  <2>2. CASE g = h
    BY <1>0, <1>2, <2>1, <2>2, AnswerListed DEF Serves
  <2>3. CASE g # h
    <3>1. pc'[h] = pc[h] /\ req' = req /\ pc[h] # "idle" /\ req[h].op = "background" /\ req[h].id \in TaskIDs
      BY <1>0, <2>1, <2>3, Busy DEF Serves
    <3>2. answer'[h] = answer[h]
      BY <1>0, <1>2, <2>3 DEF TypeOK, Serving, BackgroundStep, LayoutStep, GetHit, GetMiss, RenderColor, OpenColor, FlushColor,
         PutBackground, BeginRecord, EndRecord, LayoutHit, LayoutMiss, ComposeLayout, ComposeRefused, OpenLayout,
         FlushLayout, PutLayout, BeginLayoutRecord, EndLayoutRecord, GetRefused, FailRequest, Encode, BackgroundReturns, Answer
    <3>3. repo'[req[h].id] = repo[req[h].id]
      <4>1. CASE InProgress(g)
        <5>1. req[g].id # req[h].id /\ repo \in [TaskIDs -> Tasks]
          BY <1>0, <2>3, <3>1, <4>1 DEF Apart, InProgress, TypeOK
        <5> QED
          BY <1>2, <3>1, <5>1 DEF Serving, BackgroundStep, LayoutStep, GetHit, GetMiss, RenderColor, OpenColor, FlushColor,
             PutBackground, BeginRecord, EndRecord, LayoutHit, LayoutMiss, ComposeLayout, ComposeRefused, OpenLayout,
             FlushLayout, PutLayout, BeginLayoutRecord, EndLayoutRecord, GetRefused, FailRequest, Encode, Saves
      <4>2. CASE ~InProgress(g)
        <5>1. pc[g] \notin BackgroundPcs \cup LayoutPcs
          BY <1>0, <4>2, <2>1 DEF InProgress, Serves, TypeOK, Placed, LayoutPcs, BackgroundPcs
        <5>2. repo' = repo
          BY <1>2, <5>1 DEF Serving, BackgroundStep, LayoutStep, GetHit, GetMiss, RenderColor, OpenColor, FlushColor,
             PutBackground, BeginRecord, EndRecord, LayoutHit, LayoutMiss, ComposeLayout, ComposeRefused, OpenLayout,
             FlushLayout, PutLayout, BeginLayoutRecord, EndLayoutRecord, GetRefused, FailRequest, Encode, BackgroundPcs, LayoutPcs, At
        <5> QED
          BY <5>2
      <4> QED
        BY <4>1, <4>2
    <3> QED
      BY <1>1, <3>1, <3>2, <3>3
  <2> QED
    BY <2>2, <2>3
<1>3. ASSUME NEW g \in Handlers, CreateStep(g) PROVE req'[h].color \in repo'[req'[h].id].processed
  <2>1. Builds(g)
    BY <1>0, <1>3, CreateStepKeeps
  <2>2. h # g /\ pc'[h] = pc[h] /\ req' = req
    BY <2>1 DEF Builds, Creating
  <2>3. answer'[h] = answer[h]
    BY <1>0, <1>3, <2>2 DEF TypeOK, CreateStep, IDPhoto, FlushBaseline, AddBackground, FlushDefault, Finish, FailTask, SaveAndAnswer,
       Answer
  <2>4. req[g].id # req[h].id /\ req[h].id \in TaskIDs /\ req[g].id \in TaskIDs
    BY <2>1, <2>2, Busy, PcsAreBusy DEF Builds, Inv, OwnershipInv, Owned, Creating
  <2>5. repo'[req[h].id] = repo[req[h].id]
    BY <1>0, <1>3, <2>4 DEF TypeOK, CreateStep, IDPhoto, FlushBaseline, AddBackground, FlushDefault, Finish, FailTask, SaveAndAnswer,
       Saves
  <2> QED
    BY <1>1, <2>2, <2>3, <2>5
<1>4. ASSUME NEW g \in Handlers, Start(g) PROVE req'[h].color \in repo'[req'[h].id].processed
  <2>1. h # g
    BY <1>0, <1>4 DEF TypeOK, Start, Create, Request, RequestRefused, Begin, Goto, Answer, FirstPc
  <2>2. pc'[h] = pc[h] /\ req'[h] = req[h] /\ answer'[h] = answer[h]
    BY <1>0, <1>4, <2>1 DEF TypeOK, Start, Create, Request, RequestRefused, Begin, Goto, Answer
  <2>3. req[h].id \in issued /\ req[h].id \in TaskIDs
    BY <1>0, <2>2, Busy DEF TypeOK, Placed
  <2>4. repo'[req[h].id] = repo[req[h].id]
    BY <1>0, <1>4, <2>3 DEF TypeOK, Start, Create, Request, RequestRefused, Saves
  <2> QED
    BY <1>1, <2>2, <2>4
<1>5. ASSUME NEW g \in Handlers, Reply(g) PROVE req'[h].color \in repo'[req'[h].id].processed
  <2>1. pc'[h] = pc[h] /\ req'[h] = req[h] /\ answer'[h] = answer[h] /\ repo' = repo
    BY <1>0, <1>5 DEF TypeOK, Reply, Goto
  <2> QED
    BY <1>1, <2>1
<1>6. CASE ConcurrentMapFatal \/ Crash
  BY <1>6 DEF ConcurrentMapFatal, Crash, Restart
<1>7. CASE UNCHANGED vars
  BY <1>1, <1>7 DEF vars
<1> QED
  BY <1>2, <1>3, <1>4, <1>5, <1>6, <1>7 DEF Next, Step, Serving

(* As long as no two background or layout requests overlap on one task,    *)
(* and queries do not fail, a background that is answered with its URL is  *)
(* listed until the answer has been sent, whatever is done to other tasks, *)
(* in both storages.                                                       *)
THEOREM ApartAnswersAreListed ==
  ASSUME NoneFails PROVE Spec /\ []Apart => []AnsweredIsRecorded
<1>1. Init => Inv /\ AnsweredIsRecorded
  BY InvInit DEF Init, AnsweredIsRecorded
<1>2. Inv /\ AnsweredIsRecorded /\ Apart /\ [Next]_vars => Inv' /\ AnsweredIsRecorded'
  BY InvNext, AnsweredNext
<1> QED
  BY <1>1, <1>2, PTL DEF Spec

----------------------------------------------------------------------------
(* One request at a time is a case of both.                                *)
OneAtATime == \A g, h \in Handlers : g = h

LEMMA AloneIsApart == OneAtATime => Exclusive /\ Apart
  BY DEF OneAtATime, Exclusive, Apart

(* One request at a time, every listed image of a done task is whole.      *)
THEOREM SerialListingsAreWhole ==
  ASSUME OneAtATime PROVE Spec => []RecordedIsWhole
<1>1. Exclusive
  BY AloneIsApart
<1> QED
  BY <1>1, ExclusiveListingsAreWhole, PTL

(* One request at a time, a background that is answered is listed.         *)
THEOREM SerialAnswersAreListed ==
  ASSUME OneAtATime, NoneFails PROVE Spec => []AnsweredIsRecorded
<1>1. Apart
  BY AloneIsApart
<1>2. Spec /\ []Apart => []AnsweredIsRecorded
  BY ApartAnswersAreListed
<1> QED
  BY <1>1, <1>2, PTL

=============================================================================
