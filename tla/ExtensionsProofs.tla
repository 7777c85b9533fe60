--------------------------- MODULE ExtensionsProofs ---------------------------
(***************************************************************************)
(* Proofs about ConfigFiles with one writer of php.ini at a time: what a   *)
(* user who waits for each toggle, change of version or start of PHP can   *)
(* rely on, for any number of versions, extensions, threads that list      *)
(* extensions, sessions and changes of ports.                              *)
(***************************************************************************)
EXTENDS ConfigFilesProofs

(* The stages of each kind of thread. *)
AfterStatus == {"drop", "dropping", "spawn", "wait", "record", "recording"}

Shape(t) ==
  /\ t.kind = "none"    => t.pc = "idle"
  /\ t.kind = "list"    => t.pc \in {"path", "read", "emit"}
  /\ t.kind = "start"   => t.pc \in {"spawn", "wait", "record", "recording"}
  /\ t.kind = "stop"    => t.pc \in {"status", "drop", "dropping"}
  /\ t.kind = "version" => t.pc \in {"save", "saving", "status"} \cup AfterStatus
  /\ t.kind = "toggle"  =>
       t.pc \in {"path", "read", "open", "flush", "close", "status"} \cup AfterStatus

ShapeInv == \A w \in Workers : Shape(task[w])

LEMMA TaskTypes ==
  ASSUME FilesTypeOK, NEW w \in Workers
  PROVE  /\ task \in [Workers -> Tasks] /\ task[w] \in Tasks
         /\ task[w].kind \in {"none", "toggle", "list", "version", "start", "stop"}
         /\ task[w].ver \in Versions /\ task[w].buf \in Texts
         /\ task[w].ext \in Extensions \cup {Nothing}
BY DEF FilesTypeOK, Tasks

-----------------------------------------------------------------------------
(* What each step of a thread does to its own task and to the files.        *)

Others(w) == \A x \in Workers : x # w => task'[x] = task[x]

(* What a thread was started for does not change. *)
Same(w) ==
  /\ task'[w].kind = task[w].kind /\ task'[w].ext = task[w].ext /\ task'[w].on = task[w].on

Window == UNCHANGED <<active, tab, boxes, editor, asked>>

LEMMA ThreadWindow ==
  ASSUME NEW w, ThreadStep(w)
  PROVE  /\ Window /\ races \subseteq races'
         /\ task[w].pc # "spawn" => unread' = unread
BY DEF ThreadStep, Path, ReadIni, OpenIni, FlushIni, CloseIni, Restart, OpenDrop, WriteDrop, SpawnPhp,
       WaitPhp, OpenEntry, WriteEntry, ThreadFails, OnlyThread, windowVars, history, Window, At

LEMMA GoEffect ==
  ASSUME FilesTypeOK, NEW w \in Workers, NEW pc \in PCs, Go(w, pc)
  PROVE  /\ Others(w) /\ Same(w) /\ task'[w].pc = pc /\ task'[w].ver = task[w].ver
         /\ task'[w].buf = task[w].buf /\ task'[w].snap = task[w].snap
<1>1. /\ task'[w] = [task[w] EXCEPT !.pc = pc] /\ Others(w)
  BY GoTyped DEF Others
<1>2. task[w] \in Tasks
  BY TaskTypes
<1>3. /\ task'[w].pc = pc /\ task'[w].ver = task[w].ver
      /\ task'[w].buf = task[w].buf /\ task'[w].snap = task[w].snap
  BY <1>1, <1>2 DEF Tasks
<1>4. Same(w)
  BY <1>1, <1>2 DEF Tasks, Same
<1> QED
  BY <1>1, <1>3, <1>4

LEMMA EndsEffect ==
  ASSUME FilesTypeOK, NEW w \in Workers, Ends(w)
  PROVE  Others(w) /\ task'[w] = NoTask /\ task'[w].pc = "idle" /\ task'[w].kind = "none"
<1>1. task'[w] = NoTask /\ Others(w)
  BY EndsTyped DEF Others
<1>2. NoTask.pc = "idle" /\ NoTask.kind = "none"
  BY DEF NoTask
<1> QED
  BY <1>1, <1>2

LEMMA PathEffect ==
  ASSUME FilesTypeOK, NEW w \in Workers, Path(w)
  PROVE  /\ Others(w) /\ Same(w) /\ task[w].pc = "path" /\ task'[w].pc = "read"
         /\ task'[w].ver = get_current_php_version /\ UNCHANGED <<ini, entry, php>>
<1>1. PICK v \in Versions : v = get_current_php_version
  BY CurrentTyped
<1>2. task' = [task EXCEPT ![w] = [task[w] EXCEPT !.ver = v, !.pc = "read"]]
  BY <1>1, TaskTypes DEF Path
<1>3. task'[w] = [task[w] EXCEPT !.ver = v, !.pc = "read"] /\ Others(w)
  BY <1>2, TaskTypes DEF Others
<1> QED
  BY <1>1, <1>3, TaskTypes DEF Path, At, phpVars, Tasks, Same

LEMMA ReadEffect ==
  ASSUME FilesTypeOK, NEW w \in Workers, ReadIni(w)
  PROVE  /\ Others(w) /\ task[w].pc = "read" /\ UNCHANGED <<ini, entry, php>>
         /\ \/ /\ task[w].kind = "list" /\ Same(w) /\ task'[w].pc = "emit"
               /\ task'[w].ver = task[w].ver /\ task'[w].buf = ini[task[w].ver]
            \/ /\ task[w].kind = "toggle" /\ Same(w) /\ task'[w].pc = "open"
               /\ task[w].ext \in ini[task[w].ver].has
               /\ task'[w].ver = task[w].ver
               /\ task'[w].buf = Toggled(ini[task[w].ver], task[w])
            \/ /\ task[w].kind = "toggle" /\ task'[w] = NoTask
               /\ task[w].ext \notin ini[task[w].ver].has
<1>1. task[w].pc = "read" /\ UNCHANGED <<ini, entry, php>>
  BY DEF ReadIni, At, phpVars
<1>2. PICK text : text = ini[task[w].ver]
  OBVIOUS
<1>3. PICK new : new = Toggled(text, task[w])
  OBVIOUS
<1>4. CASE task[w].kind = "list" /\ task' = [task EXCEPT ![w].buf = text, ![w].pc = "emit"]
  <2>1. task' = [task EXCEPT ![w] = [task[w] EXCEPT !.buf = text, !.pc = "emit"]]
    BY <1>4, TaskTypes
  <2>2. task'[w] = [task[w] EXCEPT !.buf = text, !.pc = "emit"] /\ Others(w)
    BY <2>1, TaskTypes DEF Others
  <2> QED
    BY <1>1, <1>2, <1>4, <2>2, TaskTypes DEF Tasks, Same
<1>5. CASE /\ task[w].kind = "toggle" /\ task[w].ext \in text.has
           /\ task' = [task EXCEPT ![w].buf = new, ![w].pc = "open"]
  <2>1. task' = [task EXCEPT ![w] = [task[w] EXCEPT !.buf = new, !.pc = "open"]]
    BY <1>5, TaskTypes
  <2>2. task'[w] = [task[w] EXCEPT !.buf = new, !.pc = "open"] /\ Others(w)
    BY <2>1, TaskTypes DEF Others
  <2> QED
    BY <1>1, <1>2, <1>3, <1>5, <2>2, TaskTypes DEF Tasks, Same
<1>6. CASE task[w].kind = "toggle" /\ task[w].ext \notin text.has /\ Ends(w)
  BY <1>1, <1>2, <1>6, EndsEffect
<1> QED
  BY <1>2, <1>3, <1>4, <1>5, <1>6 DEF ReadIni

LEMMA OpenIniEffect ==
  ASSUME FilesTypeOK, NEW w \in Workers, OpenIni(w)
  PROVE  /\ Others(w) /\ Same(w) /\ task[w].pc = "open" /\ task'[w].pc = "flush"
         /\ task'[w].ver = task[w].ver /\ task'[w].buf = task[w].buf
         /\ \A v \in Versions : v # task[w].ver => ini'[v] = ini[v]
         /\ UNCHANGED <<entry, php>>
<1>1. Go(w, "flush") /\ "flush" \in PCs
  BY DEF OpenIni, PCs
<1> QED
  BY <1>1, GoEffect DEF OpenIni, At, FilesTypeOK

LEMMA FlushIniEffect ==
  ASSUME FilesTypeOK, NEW w \in Workers, FlushIni(w)
  PROVE  /\ Others(w) /\ Same(w) /\ task[w].pc = "flush" /\ task'[w].pc = "close"
         /\ task'[w].ver = task[w].ver /\ task'[w].buf = task[w].buf
         /\ \A v \in Versions : v # task[w].ver => ini'[v] = ini[v]
         /\ UNCHANGED <<entry, php>>
<1>1. Go(w, "close") /\ "close" \in PCs
  BY DEF FlushIni, PCs
<1> QED
  BY <1>1, GoEffect DEF FlushIni, At, FilesTypeOK

LEMMA CloseIniEffect ==
  ASSUME FilesTypeOK, NEW w \in Workers, CloseIni(w)
  PROVE  /\ Others(w) /\ Same(w) /\ task[w].pc = "close" /\ task'[w].pc = "status"
         /\ task'[w].ver = task[w].ver
         /\ ini'[task[w].ver] = task[w].buf
         /\ \A v \in Versions : v # task[w].ver => ini'[v] = ini[v]
         /\ UNCHANGED <<entry, php>>
<1>1. task' = [task EXCEPT ![w] = [task[w] EXCEPT !.buf = Emptied, !.pc = "status"]]
  BY TaskTypes DEF CloseIni
<1>2. task'[w] = [task[w] EXCEPT !.buf = Emptied, !.pc = "status"] /\ Others(w)
  BY <1>1, TaskTypes DEF Others
<1>3. /\ task[w].pc = "close" /\ UNCHANGED <<entry, php>>
      /\ ini' = [ini EXCEPT ![task[w].ver] = task[w].buf]
  BY DEF CloseIni, At
<1>4. ini \in [Versions -> Texts]
  BY DEF FilesTypeOK
<1> QED
  BY <1>2, <1>3, <1>4, TaskTypes DEF Tasks, Same

LEMMA RestartEffect ==
  ASSUME FilesTypeOK, NEW w \in Workers, Restart(w)
  PROVE  /\ Others(w) /\ task[w].pc = "status" /\ UNCHANGED <<ini, entry>>
         /\ \/ /\ php.state = "up" /\ php'.state = "down" /\ Same(w)
               /\ task'[w].pc = "drop" /\ task'[w].ver = task[w].ver
            \/ php.state # "up" /\ php' = php /\ task'[w] = NoTask
<1>1. PhpDown.state = "down" /\ "drop" \in PCs
  BY DEF PhpDown, PCs
<1> QED
  BY <1>1, GoEffect, EndsEffect DEF Restart, At

LEMMA OpenDropEffect ==
  ASSUME FilesTypeOK, NEW w \in Workers, OpenDrop(w)
  PROVE  /\ Others(w) /\ Same(w) /\ task[w].pc = "drop" /\ task'[w].pc = "dropping"
         /\ task'[w].ver = task[w].ver /\ task'[w].snap = entry
         /\ entry' = Nothing /\ UNCHANGED <<ini, php>>
<1>1. task' = [task EXCEPT ![w] = [task[w] EXCEPT !.snap = entry, !.pc = "dropping"]]
  BY TaskTypes DEF OpenDrop
<1>2. task'[w] = [task[w] EXCEPT !.snap = entry, !.pc = "dropping"] /\ Others(w)
  BY <1>1, TaskTypes DEF Others
<1> QED
  BY <1>2, TaskTypes DEF OpenDrop, At, Tasks, Same

LEMMA AfterDropEffect ==
  ASSUME FilesTypeOK, NEW w \in Workers, AfterDrop(w)
  PROVE  /\ Others(w)
         /\ \/ task[w].kind = "stop" /\ task'[w] = NoTask
            \/ /\ task[w].kind # "stop" /\ Same(w) /\ task'[w].pc = "spawn"
               /\ task'[w].ver = task[w].ver
<1>1. CASE task[w].kind = "stop"
  BY <1>1, EndsEffect DEF AfterDrop
<1>2. CASE task[w].kind # "stop"
  <2>1. task' = [task EXCEPT ![w] = [task[w] EXCEPT !.snap = Nothing, !.pc = "spawn"]]
    BY <1>2, TaskTypes DEF AfterDrop
  <2>2. task'[w] = [task[w] EXCEPT !.snap = Nothing, !.pc = "spawn"] /\ Others(w)
    BY <2>1, TaskTypes DEF Others
  <2> QED
    BY <1>2, <2>2, TaskTypes DEF Tasks, Same
<1> QED
  BY <1>1, <1>2

LEMMA WriteDropEffect ==
  ASSUME FilesTypeOK, NEW w \in Workers, WriteDrop(w)
  PROVE  /\ Others(w) /\ task[w].pc = "dropping" /\ entry' = task[w].snap /\ UNCHANGED <<ini, php>>
         /\ \/ task[w].kind = "stop" /\ task'[w] = NoTask
            \/ /\ task[w].kind # "stop" /\ Same(w) /\ task'[w].pc = "spawn"
               /\ task'[w].ver = task[w].ver
BY AfterDropEffect DEF WriteDrop, At

LEMMA SpawnEffect ==
  ASSUME FilesTypeOK, NEW w \in Workers, SpawnPhp(w), php.state = "down"
  PROVE  /\ Others(w) /\ Same(w) /\ task[w].pc = "spawn" /\ task'[w].pc = "wait"
         /\ task'[w].ver = Chosen(w)
         /\ php' = [state |-> "starting", ver |-> Chosen(w), loaded |-> ini[Chosen(w)], by |-> w]
         /\ UNCHANGED <<ini, entry>>
<1>1. PICK v : v = Chosen(w)
  OBVIOUS
<1>2. task' = [task EXCEPT ![w] = [task[w] EXCEPT !.ver = v, !.pc = "wait"]]
  BY <1>1, TaskTypes DEF SpawnPhp
<1>3. task'[w] = [task[w] EXCEPT !.ver = v, !.pc = "wait"] /\ Others(w)
  BY <1>2, TaskTypes DEF Others
<1> QED
  BY <1>1, <1>3, TaskTypes DEF SpawnPhp, At, Tasks, Same

LEMMA WaitEffect ==
  ASSUME FilesTypeOK, NEW w \in Workers, WaitPhp(w)
  PROVE  /\ Others(w) /\ task[w].pc = "wait" /\ UNCHANGED <<ini, entry>>
         /\ \/ /\ php.state = "up" /\ php' = php /\ Same(w) /\ task'[w].pc = "record"
               /\ task'[w].ver = task[w].ver
            \/ /\ php.state # "up" /\ task'[w] = NoTask
               /\ php'.state = "down" \/ (php' = php /\ php.by # w)
<1>1. PhpDown.state = "down" /\ "record" \in PCs
  BY DEF PhpDown, PCs
<1> QED
  BY <1>1, GoEffect, EndsEffect DEF WaitPhp, At

LEMMA OpenEntryEffect ==
  ASSUME FilesTypeOK, NEW w \in Workers, OpenEntry(w)
  PROVE  /\ Others(w) /\ Same(w) /\ entry' = Nothing /\ UNCHANGED <<ini, php>>
         /\ task'[w].ver = task[w].ver
         /\ \/ task[w].pc = "save" /\ task'[w].pc = "saving"
            \/ task[w].pc = "record" /\ task'[w].pc = "recording"
<1>1. "saving" \in PCs /\ "recording" \in PCs
  BY DEF PCs
<1> QED
  BY <1>1, GoEffect DEF OpenEntry, At

LEMMA AfterEntryEffect ==
  ASSUME FilesTypeOK, NEW w \in Workers, AfterEntry(w)
  PROVE  /\ Others(w)
         /\ \/ /\ task[w].pc \in {"save", "saving"} /\ task'[w].pc = "status" /\ Same(w)
               /\ task'[w].ver = task[w].ver
            \/ task[w].pc \notin {"save", "saving"} /\ task'[w] = NoTask
<1>1. "status" \in PCs
  BY DEF PCs
<1> QED
  BY <1>1, GoEffect, EndsEffect DEF AfterEntry

LEMMA WriteEntryEffect ==
  ASSUME FilesTypeOK, NEW w \in Workers, WriteEntry(w)
  PROVE  /\ Others(w) /\ entry' = task[w].ver /\ UNCHANGED <<ini, php>>
         /\ \/ /\ task[w].pc = "saving" /\ task'[w].pc = "status" /\ Same(w)
               /\ task'[w].ver = task[w].ver
            \/ task[w].pc = "recording" /\ task'[w] = NoTask
BY AfterEntryEffect DEF WriteEntry

(* A thread that fails ends, or goes on as if it had not; only where PHP   *)
(* cannot be started is nothing left undone.                               *)
LEMMA FailsEffect ==
  ASSUME FilesTypeOK, NEW w \in Workers, ThreadFails(w)
  PROVE  /\ Others(w) /\ UNCHANGED <<ini, entry, php>>
         /\ \/ task'[w] = NoTask
            \/ task[w].kind = "list" /\ Same(w) /\ task'[w].pc = "emit"
            \/ /\ task[w].kind # "stop" /\ task[w].pc \in {"drop", "dropping"}
               /\ Same(w) /\ task'[w].pc = "spawn"
            \/ task[w].pc \in {"save", "saving"} /\ Same(w) /\ task'[w].pc = "status"
         /\ "error" \in races' \/ (task[w].pc = "spawn" /\ task'[w] = NoTask)
<1>1. UNCHANGED <<ini, entry, php>>
  BY DEF ThreadFails, phpVars
<1>2. CASE Ends(w) /\ (task[w].pc = "spawn" \/ "error" \in races')
  BY <1>1, <1>2, EndsEffect
<1>3. CASE task[w].kind = "list" /\ Go(w, "emit") /\ "error" \in races'
  <2>1. "emit" \in PCs
    BY DEF PCs
  <2> QED
    BY <1>1, <1>3, <2>1, GoEffect
<1>4. CASE task[w].pc \in {"drop", "dropping"} /\ AfterDrop(w) /\ "error" \in races'
  BY <1>1, <1>4, AfterDropEffect
<1>5. CASE AfterEntry(w) /\ "error" \in races'
  BY <1>1, <1>5, AfterEntryEffect
<1> QED
  BY <1>2, <1>3, <1>4, <1>5 DEF ThreadFails, At

-----------------------------------------------------------------------------
(* The stages are kept. *)

LEMMA ShapeThread ==
  ASSUME FilesTypeOK, ShapeInv, NEW w \in Workers, ThreadStep(w)
  PROVE  Others(w) /\ Shape(task'[w])
<1>0. Shape(task[w]) /\ Shape(NoTask)
  BY DEF ShapeInv, Shape, NoTask
<1>1. CASE Path(w)
  BY <1>0, <1>1, PathEffect DEF Shape, Same, AfterStatus
<1>2. CASE ReadIni(w)
  BY <1>0, <1>2, ReadEffect DEF Shape, Same, AfterStatus
<1>3. CASE OpenIni(w)
  BY <1>0, <1>3, OpenIniEffect DEF Shape, Same, AfterStatus
<1>4. CASE FlushIni(w)
  BY <1>0, <1>4, FlushIniEffect DEF Shape, Same, AfterStatus
<1>5. CASE CloseIni(w)
  BY <1>0, <1>5, CloseIniEffect DEF Shape, Same, AfterStatus
<1>6. CASE Restart(w)
  BY <1>0, <1>6, RestartEffect DEF Shape, Same, AfterStatus
<1>7. CASE OpenDrop(w)
  BY <1>0, <1>7, OpenDropEffect DEF Shape, Same, AfterStatus
<1>8. CASE WriteDrop(w)
  BY <1>0, <1>8, WriteDropEffect DEF Shape, Same, AfterStatus
<1>9. CASE SpawnPhp(w)
  <2>1. CASE Ends(w)
    BY <1>0, <2>1, EndsEffect
  <2>2. CASE ~Ends(w)
    <3>1. PICK v : v = Chosen(w)
      OBVIOUS
    <3>2. task' = [task EXCEPT ![w] = [task[w] EXCEPT !.ver = v, !.pc = "wait"]]
      BY <1>9, <2>2, <3>1, TaskTypes DEF SpawnPhp
    <3>3. task'[w] = [task[w] EXCEPT !.ver = v, !.pc = "wait"] /\ Others(w)
      BY <3>2, TaskTypes DEF Others
    <3>4. task'[w].kind = task[w].kind /\ task'[w].pc = "wait" /\ task[w].pc = "spawn"
      BY <1>9, <3>3, TaskTypes DEF Tasks, SpawnPhp, At
    <3> QED
      BY <1>0, <3>3, <3>4 DEF Shape, AfterStatus
  <2> QED
    BY <2>1, <2>2
<1>10. CASE WaitPhp(w)
  BY <1>0, <1>10, WaitEffect DEF Shape, Same, AfterStatus
<1>11. CASE OpenEntry(w)
  BY <1>0, <1>11, OpenEntryEffect DEF Shape, Same, AfterStatus
<1>12. CASE WriteEntry(w)
  BY <1>0, <1>12, WriteEntryEffect DEF Shape, Same, AfterStatus
<1>13. CASE ThreadFails(w)
  BY <1>0, <1>13, FailsEffect DEF Shape, Same, AfterStatus
<1> QED
  BY <1>1, <1>2, <1>3, <1>4, <1>5, <1>6, <1>7, <1>8, <1>9, <1>10, <1>11, <1>12, <1>13 DEF ThreadStep

(* Everyone who has something to do is a writer or a lister. *)
LEMMA Idle ==
  ASSUME FilesTypeOK, ShapeInv, NEW w \in Workers
  PROVE  /\ ~Busy(w) <=> task[w].kind = "none"
         /\ w \in Writers <=> task[w].kind \notin {"none", "list"}
         /\ w \in Listers <=> task[w].kind = "list"
<1>1. Shape(task[w])
  BY DEF ShapeInv
<1>2. task[w].kind \in {"none", "toggle", "list", "version", "start", "stop"}
  BY TaskTypes
<1>3. ~Busy(w) <=> task[w].kind = "none"
  BY <1>1, <1>2 DEF Shape, AfterStatus, Busy
<1> QED
  BY <1>2, <1>3 DEF Writers, Listers

LEMMA PressEffect ==
  ASSUME FilesTypeOK, NEW w \in Workers, NEW t, Press(w, t)
  PROVE  /\ task'[w] = t /\ Others(w) /\ ~Busy(w)
         /\ editor.path = Nothing /\ UNCHANGED <<ini, entry, php, editor, unread>>
         /\ races' = races \cup Races(t.kind)
BY DEF Press, FilesTypeOK, Others, Free, WindowFree, phpVars

(* What the buttons start. *)
ToggleTask(x, on) == [NoTask EXCEPT !.kind = "toggle", !.pc = "path", !.ext = x, !.on = on]
ListTask          == [NoTask EXCEPT !.kind = "list", !.pc = "path"]
VersionTask(v)    == [NoTask EXCEPT !.kind = "version", !.pc = "save", !.ver = v]
StopTask          == [NoTask EXCEPT !.kind = "stop", !.pc = "status"]
StartTask         == [NoTask EXCEPT !.kind = "start", !.pc = "spawn"]

LEMMA NewTasks ==
  /\ ListTask.kind = "list" /\ ListTask.pc = "path"
  /\ StopTask.kind = "stop" /\ StopTask.pc = "status"
  /\ StartTask.kind = "start" /\ StartTask.pc = "spawn"
  /\ \A v : VersionTask(v).kind = "version" /\ VersionTask(v).pc = "save" /\ VersionTask(v).ver = v
  /\ \A x, on : /\ ToggleTask(x, on).kind = "toggle" /\ ToggleTask(x, on).pc = "path"
                /\ ToggleTask(x, on).ext = x /\ ToggleTask(x, on).on = on
BY DEF ListTask, StopTask, StartTask, VersionTask, ToggleTask, NoTask

(* The five buttons, told by the task they start. *)
LEMMA Presses ==
  ASSUME NEW w \in Workers
  PROVE  /\ load_extensions_list(w) => Press(w, ListTask) /\ active' = active /\ asked' = asked
         /\ TogglePhp(w) =>
              /\ \/ Press(w, StopTask)
                 \/ php.state # "up" /\ Press(w, StartTask)
              /\ tab' = "another" /\ UNCHANGED <<active, asked>>
         /\ \A v \in Versions : change_php_version(w, v) =>
              Press(w, VersionTask(v)) /\ active' = v /\ tab' = "another" /\ asked' = asked
         /\ \A x \in Extensions : toggle_extension(w, x) =>
              Press(w, ToggleTask(x, x \notin boxes.on)) /\ UNCHANGED <<active, tab>>
BY DEF load_extensions_list, TogglePhp, change_php_version, toggle_extension,
       ListTask, StopTask, StartTask, VersionTask, ToggleTask

LEMMA ShapeOthers ==
  ASSUME ShapeInv, NEW w \in Workers, Others(w), Shape(task'[w])
  PROVE  ShapeInv'
<1>1. ASSUME NEW x \in Workers PROVE Shape(task'[x])
  BY <1>1 DEF ShapeInv, Others
<1> QED
  BY <1>1 DEF ShapeInv

LEMMA ShapeNext == FilesTypeOK /\ ShapeInv /\ [FilesNext]_filesVars => ShapeInv'
<1> SUFFICES ASSUME FilesTypeOK, ShapeInv, [FilesNext]_filesVars PROVE ShapeInv'
  OBVIOUS
<1>1. CASE task' = task
  BY <1>1 DEF ShapeInv
<1>2. ASSUME NEW w \in Workers, ThreadStep(w) PROVE ShapeInv'
  BY <1>2, ShapeThread, ShapeOthers
<1>3. Shape(NoTask)
  BY DEF Shape, NoTask
<1>4. ASSUME NEW w \in Workers, display_extensions_list(w) PROVE ShapeInv'
  BY <1>3, <1>4, EndsEffect, ShapeOthers DEF display_extensions_list
<1>5. ASSUME NEW w \in Workers, NEW t, Press(w, t), Shape(t) PROVE ShapeInv'
  BY <1>5, PressEffect, ShapeOthers
<1>6. Shape(ListTask) /\ Shape(StopTask) /\ Shape(StartTask)
  BY NewTasks DEF Shape, AfterStatus
<1>7. \A v : Shape(VersionTask(v))
  BY NewTasks DEF Shape, AfterStatus
<1>8. \A x, on : Shape(ToggleTask(x, on))
  BY NewTasks DEF Shape, AfterStatus
<1>9. ASSUME NEW w \in Workers, load_extensions_list(w) \/ TogglePhp(w) PROVE ShapeInv'
  BY <1>5, <1>6, <1>9, Presses
<1>10. ASSUME NEW w \in Workers, NEW v \in Versions, change_php_version(w, v) PROVE ShapeInv'
  BY <1>5, <1>7, <1>10, Presses
<1>11. ASSUME NEW w \in Workers, NEW x \in Extensions, toggle_extension(w, x) PROVE ShapeInv'
  BY <1>5, <1>8, <1>11, Presses
<1>12. CASE Launched
  BY <1>3, <1>12 DEF Launched, ShapeInv
<1>13. CASE Killed \/ KilledInSave \/ Reopened
  BY <1>12, <1>13 DEF Killed, KilledInSave, Reopened
<1>14. ASSUME NEW A, PortsPress(A) PROVE ShapeInv'
  BY <1>1, <1>14 DEF PortsPress
<1>15. ASSUME NEW svc \in Editable, load_config_content(svc) PROVE ShapeInv'
  BY <1>1, <1>15 DEF load_config_content
<1>16. CASE BindPhp \/ OpenByEditor \/ WriteByEditor \/ WriteByEditorFails
  BY <1>1, <1>16 DEF BindPhp, OpenByEditor, WriteByEditor, WriteByEditorFails
<1>18. ASSUME NEW text, save_config_content(text) \/ SaveFails(text) PROVE ShapeInv'
  BY <1>1, <1>18 DEF save_config_content, SaveFails, SaveServerFile
<1>17. CASE FilesQuiet \/ UNCHANGED filesVars
  BY <1>1, <1>17 DEF FilesQuiet, filesVars
<1> QED
  BY <1>1, <1>2, <1>4, <1>9, <1>10, <1>11, <1>13, <1>14, <1>15, <1>16, <1>17, <1>18 DEF FilesNext

LEMMA ShapeFirst == FilesInit => ShapeInv
<1>1. Shape(NoTask)
  BY DEF Shape, NoTask
<1> QED
  BY <1>1 DEF FilesInit, ShapeInv

-----------------------------------------------------------------------------
(* As long as no thread has been started beside another that writes, no    *)
(* save of the editor rested on an older text, no kill met a thread and no *)
(* thread failed at a file: there is one writer at most, it knows the      *)
(* version the window shows, and PHP has read what will be in that         *)
(* version's php.ini, unless the writer is still to restart it or the      *)
(* editor changed it since.                                                *)

(* What is in the php.ini of v, or will be when the editor has saved it. *)
Will(v) == IF editor.path = v THEN editor.text ELSE ini[v]

Stale(t) ==
  \/ t.pc \in {"flush", "close", "save", "saving"}
  \/ t.pc = "status" /\ t.kind # "stop"

WriterInv(w) ==
  /\ task[w].pc \notin {"save", "saving", "dropping", "recording"} => entry = active
  /\ task[w].pc = "dropping" => task[w].snap = active
  /\ task[w].pc \in {"read", "open", "flush", "close", "wait", "record", "recording"} =>
       task[w].ver = active
  /\ task[w].kind = "version" => task[w].ver = active
  /\ task[w].pc \in {"drop", "dropping", "spawn"} => php.state = "down"
  /\ task[w].pc # "wait" => php.state # "starting"
  /\ task[w].pc = "wait" /\ php.state = "starting" => php.by = w

Followed ==
  php.state # "down" /\ (\A w \in Writers : ~Stale(task[w])) =>
    php.ver = active /\ (active \in unread \/ php.loaded = Will(active))

Order ==
  /\ \A w, x \in Writers : w = x
  /\ editor.path # Nothing => Writers = {}
  /\ \A w \in Writers : WriterInv(w)
  /\ Writers = {} => entry = active /\ php.state # "starting"
  /\ Followed

Orderly  == races \cap {"rewrite", "kill", "error"} = {}
OrderInv == Orderly => Order

(* The threads that write stay as they are. *)
LEMMA OrderIdle ==
  ASSUME Order, Writers' = Writers, \A w \in Writers : task'[w] = task[w],
         UNCHANGED <<entry, php, active, unread>>, editor.path = Nothing, editor'.path = Nothing,
         UNCHANGED ini, active \in Versions
  PROVE  Order'
<1>1. \A w \in Writers : WriterInv(w)'
  BY DEF Order, WriterInv
<1>2. Will(active)' = Will(active)
  BY ConfigFilesAssumption DEF Will
<1>3. Followed'
  <2>1. ASSUME php'.state # "down", \A w \in Writers' : ~Stale(task[w])'
        PROVE  php'.ver = active' /\ (active' \in unread' \/ php'.loaded = Will(active)')
    <3>1. \A w \in Writers : ~Stale(task[w])
      BY <2>1 DEF Stale
    <3> QED
      BY <1>2, <2>1, <3>1 DEF Order, Followed
  <2> QED
    BY <2>1 DEF Followed
<1> QED
  BY <1>1, <1>3 DEF Order

(* One that lists extensions, before or after, is no writer. *)
LEMMA OrderAside ==
  ASSUME FilesTypeOK, Order, NEW w \in Workers, w \notin Writers, Others(w),
         task'[w].pc = "idle" \/ task'[w].kind = "list",
         UNCHANGED <<ini, entry, php, active, unread>>, editor.path = Nothing, editor'.path = Nothing
  PROVE  Order' /\ Writers' = Writers
<1>1. Writers' = Writers
  BY DEF Writers, Busy, Others
<1>2. \A x \in Writers : task'[x] = task[x]
  BY DEF Writers, Others
<1>3. active \in Versions
  BY DEF FilesTypeOK
<1> QED
  BY <1>1, <1>2, <1>3, OrderIdle

(* The one that writes makes a step. *)
LEMMA OrderKept ==
  ASSUME FilesTypeOK, Order, NEW w \in Writers, Others(w), Window,
         task'[w].pc # "idle" => task'[w].kind # "list" /\ WriterInv(w)',
         task'[w].pc = "idle" => entry' = active /\ php'.state # "starting",
         php'.state # "down" /\ ~Stale(task[w])' =>
           php'.ver = active /\ (active \in unread' \/ php'.loaded = ini'[active])
  PROVE  Order'
<1>1. /\ active' = active /\ editor' = editor /\ editor.path = Nothing
      /\ active \in Versions
  BY DEF Window, Order, FilesTypeOK
<1>2. Will(active)' = ini'[active]
  BY <1>1, ConfigFilesAssumption DEF Will
<1>3. \A x \in Writers' : x = w /\ task'[w].pc # "idle"
  BY DEF Order, Writers, Busy, Others
<1>4. Followed'
  <2>1. ASSUME php'.state # "down", \A x \in Writers' : ~Stale(task[x])'
        PROVE  php'.ver = active' /\ (active' \in unread' \/ php'.loaded = Will(active)')
    <3>1. ~Stale(task[w])'
      <4>1. CASE w \in Writers'
        BY <2>1, <4>1
      <4>2. CASE w \notin Writers'
        <5>1. task'[w].pc = "idle"
          BY <4>2 DEF Writers, Busy
        <5> QED
          BY <5>1 DEF Stale
      <4> QED
        BY <4>1, <4>2
    <3> QED
      BY <1>1, <1>2, <2>1, <3>1
  <2> QED
    BY <2>1 DEF Followed
<1>5. Writers' = {} => entry' = active' /\ php'.state # "starting"
  <2>1. Writers' = {} => task'[w].pc = "idle"
    BY DEF Writers, Busy
  <2> QED
    BY <1>1, <2>1
<1>6. \A x \in Writers' : WriterInv(x)'
  BY <1>3
<1> QED
  BY <1>1, <1>3, <1>4, <1>5, <1>6 DEF Order

LEMMA OrderThread ==
  ASSUME FilesTypeOK, ShapeInv, Order, Orderly', NEW w \in Workers, ThreadStep(w)
  PROVE  Order'
<1>0. /\ Shape(task[w]) /\ Window /\ Others(w)
      /\ task[w].pc # "spawn" => unread' = unread
      /\ task[w].kind \in {"none", "toggle", "list", "version", "start", "stop"}
  BY ShapeThread, ThreadWindow, TaskTypes DEF ShapeInv
<1>f. ThreadFails(w) => task[w].pc = "spawn" /\ task'[w] = NoTask /\ UNCHANGED <<ini, entry, php>>
  BY FailsEffect DEF Orderly
<1>1. CASE task[w].kind = "list"
  <2>1. Path(w) \/ ReadIni(w)
    <3>1. task[w].pc \in {"path", "read", "emit"}
      BY <1>0, <1>1 DEF Shape
    <3> QED
      BY <1>f, <3>1 DEF ThreadStep, OpenIni, FlushIni, CloseIni, Restart, OpenDrop, WriteDrop, SpawnPhp,
                        WaitPhp, OpenEntry, WriteEntry, At
  <2>2. task'[w].kind = "list" /\ UNCHANGED <<ini, entry, php, unread>>
    <3>1. CASE Path(w)
      BY <1>0, <1>1, <3>1, PathEffect DEF Same
    <3>2. CASE ReadIni(w)
      BY <1>0, <1>1, <3>2, ReadEffect DEF Same
    <3> QED
      BY <2>1, <3>1, <3>2
  <2>4. CASE editor.path = Nothing
    BY <1>0, <1>1, <2>2, <2>4, OrderAside DEF Window, Writers
  <2>5. CASE editor.path # Nothing
    <3>1. Writers = {} /\ Writers' = {}
      BY <1>0, <1>1, <2>2, <2>5 DEF Order, Writers, Busy, Others
    <3>2. Will(active)' = Will(active)
      BY <1>0, <2>2 DEF Will, Window
    <3> QED
      BY <1>0, <2>2, <3>1, <3>2 DEF Order, Followed, Window
  <2> QED
    BY <2>4, <2>5
<1>2. CASE task[w].kind # "list"
  <2>0. /\ w \in Writers /\ WriterInv(w) /\ active \in Versions /\ active # Nothing
        /\ editor.path = Nothing /\ Will(active) = ini[active]
        /\ active' = active
    <3>1. Busy(w)
      BY <1>f DEF ThreadStep, Path, ReadIni, OpenIni, FlushIni, CloseIni, Restart, OpenDrop, WriteDrop,
                  SpawnPhp, WaitPhp, OpenEntry, WriteEntry, At, Busy
    <3>2. w \in Writers
      BY <1>2, <3>1 DEF Writers
    <3> QED
      BY <1>0, <3>2, ConfigFilesAssumption DEF Order, FilesTypeOK, Will, Window
  <2>f. php.state # "down" /\ ~Stale(task[w]) /\ task[w].pc # "spawn" =>
          php.ver = active /\ (active \in unread' \/ php.loaded = ini[active])
    BY <1>0, <2>0 DEF Order, Followed
  <2>p. php.state \in {"down", "starting", "up"}
    BY DEF FilesTypeOK
  <2>1. CASE Path(w)
    <3>1. get_current_php_version = active
      BY <2>0, <2>1, PathEffect DEF WriterInv, get_current_php_version
    <3>2. WriterInv(w)'
      BY <2>0, <2>1, <3>1, PathEffect DEF WriterInv, Same
    <3> QED
      BY <1>0, <1>2, <2>0, <2>1, <2>f, <3>2, PathEffect, OrderKept DEF Same, Stale
  <2>2. CASE ReadIni(w)
    <3>1. CASE task'[w] = NoTask
      BY <1>0, <2>0, <2>2, <2>f, <3>1, ReadEffect, OrderKept DEF NoTask, Stale, WriterInv
    <3>2. CASE task'[w] # NoTask
      <4>1. task'[w].pc = "open" /\ Same(w) /\ task'[w].ver = task[w].ver
        BY <1>2, <2>2, <3>2, ReadEffect
      <4>2. WriterInv(w)'
        BY <2>0, <2>2, <4>1, ReadEffect DEF WriterInv, Same
      <4> QED
        BY <1>0, <1>2, <2>0, <2>2, <2>f, <4>1, <4>2, ReadEffect, OrderKept DEF Same, Stale
    <3> QED
      BY <3>1, <3>2
  <2>3. CASE OpenIni(w)
    <3>2. WriterInv(w)'
      BY <2>0, <2>3, OpenIniEffect DEF WriterInv, Same
    <3> QED
      BY <1>0, <1>2, <2>0, <2>3, <3>2, OpenIniEffect, OrderKept DEF Same, Stale
  <2>4. CASE FlushIni(w)
    <3>2. WriterInv(w)'
      BY <2>0, <2>4, FlushIniEffect DEF WriterInv, Same
    <3> QED
      BY <1>0, <1>2, <2>0, <2>4, <3>2, FlushIniEffect, OrderKept DEF Same, Stale
  <2>5. CASE CloseIni(w)
    <3>1. task[w].kind = "toggle"
      BY <1>0, <1>2, <2>5, CloseIniEffect DEF Shape, AfterStatus
    <3>2. WriterInv(w)'
      BY <2>0, <2>5, CloseIniEffect DEF WriterInv, Same
    <3> QED
      BY <1>0, <1>2, <2>0, <2>5, <3>1, <3>2, CloseIniEffect, OrderKept DEF Same, Stale
  <2>6. CASE Restart(w)
    <3>1. CASE php.state = "up"
      <4>1. WriterInv(w)'
        BY <2>0, <2>6, <3>1, RestartEffect DEF WriterInv, Same
      <4> QED
        BY <1>0, <1>2, <2>0, <2>6, <3>1, <4>1, RestartEffect, OrderKept DEF Same, Stale
    <3>2. CASE php.state # "up"
      <4>1. php.state = "down" /\ php' = php /\ task'[w] = NoTask /\ task[w].pc = "status" /\ entry' = entry
        BY <2>0, <2>6, <2>p, <3>2, RestartEffect DEF WriterInv
      <4>2. entry = active
        BY <2>0, <4>1 DEF WriterInv
      <4> QED
        BY <1>0, <2>0, <4>1, <4>2, OrderKept DEF NoTask
    <3> QED
      BY <3>1, <3>2
  <2>7. CASE OpenDrop(w)
    <3>2. WriterInv(w)'
      BY <2>0, <2>7, OpenDropEffect DEF WriterInv, Same
    <3>3. php'.state = "down"
      BY <2>0, <2>7, OpenDropEffect DEF WriterInv
    <3> QED
      BY <1>0, <1>2, <2>0, <2>7, <3>2, <3>3, OpenDropEffect, OrderKept DEF Same
  <2>8. CASE WriteDrop(w)
    <3>1. php'.state = "down" /\ entry' = active
      BY <2>0, <2>8, WriteDropEffect DEF WriterInv
    <3>2. CASE task[w].kind = "stop"
      BY <1>0, <2>0, <2>8, <3>1, <3>2, WriteDropEffect, OrderKept DEF NoTask
    <3>3. CASE task[w].kind # "stop"
      <4>1. WriterInv(w)'
        BY <2>0, <2>8, <3>1, <3>3, WriteDropEffect DEF WriterInv, Same
      <4> QED
        BY <1>0, <1>2, <2>0, <2>8, <3>1, <3>3, <4>1, WriteDropEffect, OrderKept DEF Same
    <3> QED
      BY <3>2, <3>3
  <2>9. CASE SpawnPhp(w)
    <3>1. php.state = "down" /\ task[w].pc = "spawn" /\ entry = active
      BY <2>0, <2>9 DEF WriterInv, SpawnPhp, At
    <3>2. Chosen(w) = active
      BY <2>0 DEF WriterInv, Chosen
    <3>3. /\ Same(w) /\ task'[w].pc = "wait" /\ task'[w].ver = active
          /\ php' = [state |-> "starting", ver |-> active, loaded |-> ini[active], by |-> w]
          /\ UNCHANGED <<ini, entry>>
      BY <2>9, <3>1, <3>2, SpawnEffect
    <3>4. php'.state = "starting" /\ php'.ver = active /\ php'.loaded = ini'[active] /\ php'.by = w
      BY <3>3
    <3>5. WriterInv(w)'
      BY <2>0, <3>1, <3>3, <3>4 DEF WriterInv, Same
    <3> QED
      BY <1>0, <1>2, <2>0, <3>3, <3>4, <3>5, OrderKept DEF Same
  <2>10. CASE WaitPhp(w)
    <3>1. CASE php.state = "up"
      <4>1. WriterInv(w)'
        BY <2>0, <2>10, <3>1, WaitEffect DEF WriterInv, Same
      <4> QED
        BY <1>0, <1>2, <2>0, <2>10, <2>f, <3>1, <4>1, WaitEffect, OrderKept DEF Same, Stale
    <3>2. CASE php.state # "up"
      <4>1. php'.state = "down" /\ entry' = active /\ task'[w] = NoTask
        BY <2>0, <2>10, <2>p, <3>2, WaitEffect DEF WriterInv
      <4> QED
        BY <1>0, <2>0, <4>1, OrderKept DEF NoTask
    <3> QED
      BY <3>1, <3>2
  <2>11. CASE OpenEntry(w)
    <3>1. task[w].pc = "save" => task[w].ver = active
      BY <1>0, <1>2, <2>0 DEF Shape, AfterStatus, WriterInv
    <3>2. WriterInv(w)'
      BY <2>0, <2>11, <3>1, OpenEntryEffect DEF WriterInv, Same
    <3> QED
      BY <1>0, <1>2, <2>0, <2>11, <2>f, <3>2, OpenEntryEffect, OrderKept DEF Same, Stale
  <2>12. CASE WriteEntry(w)
    <3>1. task[w].pc = "saving" => task[w].kind = "version"
      BY <1>0, <1>2 DEF Shape, AfterStatus
    <3>2. entry' = active /\ php.state # "starting" /\ UNCHANGED <<ini, php>>
      BY <2>0, <2>12, <3>1, WriteEntryEffect DEF WriterInv
    <3>3. CASE task[w].pc = "saving"
      <4>1. /\ task'[w].pc = "status" /\ Same(w) /\ task'[w].ver = task[w].ver
        BY <2>12, <3>3, WriteEntryEffect
      <4>2. WriterInv(w)'
        BY <2>0, <3>2, <4>1 DEF WriterInv, Same
      <4> QED
        BY <1>0, <1>2, <2>0, <3>1, <3>2, <3>3, <4>1, <4>2, OrderKept DEF Same, Stale
    <3>4. CASE task[w].pc = "recording"
      <4>1. task'[w] = NoTask
        BY <2>12, <3>4, WriteEntryEffect
      <4> QED
        BY <1>0, <2>0, <2>f, <3>2, <3>4, <4>1, OrderKept DEF NoTask, Stale
    <3> QED
      BY <2>12, <3>3, <3>4, WriteEntryEffect
  <2>13. CASE ThreadFails(w)
    <3>1. php'.state = "down" /\ entry' = active
      BY <1>f, <2>0, <2>13 DEF WriterInv
    <3> QED
      BY <1>0, <1>f, <2>0, <2>13, <3>1, OrderKept DEF NoTask
  <2> QED
    BY <2>1, <2>2, <2>3, <2>4, <2>5, <2>6, <2>7, <2>8, <2>9, <2>10, <2>11, <2>12, <2>13 DEF ThreadStep
<1> QED
  BY <1>1, <1>2

(* A thread that writes is started, when nobody writes. *)
LEMMA OrderPress ==
  ASSUME FilesTypeOK, Order, Writers = {}, NEW w \in Workers, NEW t, Press(w, t),
         t.kind # "list", t.pc # "idle", WriterInv(w)',
         php.state # "down" => Stale(t) \/ active' = active
  PROVE  Order'
<1>1. /\ task'[w] = t /\ Others(w) /\ editor.path = Nothing
      /\ UNCHANGED <<ini, entry, php, editor, unread>>
  BY PressEffect
<1>2. w \in Writers' /\ \A x \in Writers' : x = w
  BY <1>1 DEF Writers, Busy, Others
<1>3. Followed'
  <2>1. ASSUME php'.state # "down", \A x \in Writers' : ~Stale(task[x])'
        PROVE  php'.ver = active' /\ (active' \in unread' \/ php'.loaded = Will(active)')
    <3>1. ~Stale(t)
      BY <1>1, <1>2, <2>1 DEF Stale
    <3>2. active' = active /\ Will(active)' = Will(active)
      BY <1>1, <2>1, <3>1 DEF Will
    <3> QED
      BY <1>1, <2>1, <3>2 DEF Order, Followed
  <2> QED
    BY <2>1 DEF Followed
<1> QED
  BY <1>1, <1>2, <1>3 DEF Order

LEMMA RacesGrow ==
  ASSUME [FilesNext]_filesVars
  PROVE  races \subseteq races'
<1>1. CASE UNCHANGED filesVars \/ FilesQuiet
  BY <1>1 DEF filesVars, history, FilesQuiet
<1>2. ASSUME NEW A, PortsPress(A) PROVE races' = races
  BY <1>2 DEF PortsPress, history
<1>3. ASSUME NEW w \in Workers, ThreadStep(w) PROVE races \subseteq races'
  BY <1>3, ThreadWindow
<1>4. ASSUME NEW w \in Workers, NEW t, Press(w, t) PROVE races \subseteq races'
  BY <1>4 DEF Press
<1>5. ASSUME NEW w \in Workers,
             \/ load_extensions_list(w) \/ TogglePhp(w)
             \/ \E x \in Extensions : toggle_extension(w, x)
             \/ \E v \in Versions : change_php_version(w, v)
      PROVE  races \subseteq races'
  BY <1>4, <1>5, Presses
<1>6. ASSUME NEW w \in Workers, display_extensions_list(w) PROVE races' = races
  BY <1>6 DEF display_extensions_list, history
<1>7. ASSUME NEW svc \in Editable, load_config_content(svc) PROVE races' = races
  BY <1>7 DEF load_config_content, history
<1>8. CASE BindPhp \/ OpenByEditor \/ WriteByEditor \/ WriteByEditorFails
  BY <1>8 DEF BindPhp, OnlyThread, OpenByEditor, WriteByEditor, WriteByEditorFails, history
<1>11. ASSUME NEW text, save_config_content(text) \/ SaveFails(text) PROVE races' = races
  BY <1>11 DEF save_config_content, SaveFails, SaveServerFile, history
<1>9. CASE Killed \/ KilledInSave \/ Reopened
  BY <1>9 DEF Killed, KilledInSave, Reopened
<1>10. CASE UNCHANGED <<phpVars, windowVars, task, history>>
  BY <1>10 DEF history
<1> QED
  BY <1>1, <1>2, <1>3, <1>5, <1>6, <1>7, <1>8, <1>9, <1>10, <1>11 DEF FilesNext

(* A press that would start a second writer is a race. *)
LEMMA PressAlone ==
  ASSUME FilesTypeOK, NEW w \in Workers, NEW t, Press(w, t), t.kind # "list", Orderly'
  PROVE  Writers = {}
BY PressEffect DEF Orderly, Races

LEMMA OrderWindow ==
  ASSUME FilesTypeOK, ShapeInv, Order, Orderly', NEW w \in Workers,
         \/ load_extensions_list(w) \/ display_extensions_list(w) \/ TogglePhp(w)
         \/ \E x \in Extensions : toggle_extension(w, x)
         \/ \E v \in Versions : change_php_version(w, v)
  PROVE  Order'
<1>1. CASE load_extensions_list(w)
  <2>1. Press(w, ListTask) /\ active' = active
    BY <1>1, Presses
  <2>2. w \notin Writers
    BY <2>1, PressEffect DEF Writers
  <2> QED
    BY <2>1, <2>2, PressEffect, NewTasks, OrderAside
<1>2. CASE display_extensions_list(w)
  <2>1. /\ task[w].pc = "emit" /\ Ends(w) /\ editor.path = Nothing
        /\ UNCHANGED <<ini, entry, php, active, editor, unread>>
    BY <1>2 DEF display_extensions_list, At, WindowFree, phpVars, history
  <2>2. w \notin Writers
    <3>1. Shape(task[w]) /\ task[w].kind \in {"none", "toggle", "list", "version", "start", "stop"}
      BY TaskTypes DEF ShapeInv
    <3>2. task[w].kind = "list"
      BY <2>1, <3>1 DEF Shape, AfterStatus
    <3> QED
      BY <3>2 DEF Writers
  <2> QED
    BY <2>1, <2>2, EndsEffect, OrderAside
<1>3. CASE TogglePhp(w)
  <2>1. active' = active
    BY <1>3, Presses
  <2>2. CASE Press(w, StopTask)
    <3>1. Writers = {}
      BY <2>2, PressAlone, NewTasks
    <3>2. task'[w] = StopTask /\ UNCHANGED <<entry, php>>
      BY <2>2, PressEffect
    <3>3. WriterInv(w)'
      BY <2>1, <3>1, <3>2, NewTasks DEF Order, WriterInv
    <3> QED
      BY <2>1, <2>2, <3>1, <3>3, NewTasks, OrderPress
  <2>3. CASE php.state # "up" /\ Press(w, StartTask)
    <3>1. Writers = {}
      BY <2>3, PressAlone, NewTasks
    <3>2. task'[w] = StartTask /\ UNCHANGED <<entry, php>>
      BY <2>3, PressEffect
    <3>3. php.state = "down"
      BY <2>3, <3>1 DEF Order, FilesTypeOK
    <3>4. WriterInv(w)'
      BY <2>1, <3>1, <3>2, <3>3, NewTasks DEF Order, WriterInv
    <3> QED
      BY <2>1, <2>3, <3>1, <3>4, NewTasks, OrderPress
  <2> QED
    BY <1>3, <2>2, <2>3, Presses
<1>4. ASSUME NEW x \in Extensions, toggle_extension(w, x) PROVE Order'
  <2>1. PICK t : t = ToggleTask(x, x \notin boxes.on)
    OBVIOUS
  <2>2. t.kind = "toggle" /\ t.pc = "path" /\ Press(w, t) /\ active' = active
    BY <1>4, <2>1, NewTasks, Presses
  <2>3. Writers = {}
    BY <2>2, PressAlone
  <2>4. task'[w] = t /\ UNCHANGED <<entry, php>>
    BY <2>2, PressEffect
  <2>5. WriterInv(w)'
    BY <2>2, <2>3, <2>4 DEF Order, WriterInv
  <2> QED
    BY <2>2, <2>3, <2>5, OrderPress
<1>5. ASSUME NEW v \in Versions, change_php_version(w, v) PROVE Order'
  <2>1. Press(w, VersionTask(v)) /\ active' = v
    BY <1>5, Presses
  <2>2. Writers = {}
    BY <2>1, PressAlone, NewTasks
  <2>3. task'[w] = VersionTask(v) /\ UNCHANGED <<entry, php>>
    BY <2>1, PressEffect
  <2>4. WriterInv(w)'
    BY <2>1, <2>2, <2>3, NewTasks DEF Order, WriterInv
  <2>5. Stale(VersionTask(v))
    BY NewTasks DEF Stale
  <2> QED
    BY <2>1, <2>2, <2>4, <2>5, NewTasks, OrderPress
<1> QED
  BY <1>1, <1>2, <1>3, <1>4, <1>5

(* The window's own steps and a new session leave what will be in each     *)
(* file as it is.                                                          *)
LEMMA EditorOpens ==
  ASSUME FilesTypeOK, Order, Orderly', OpenByEditor
  PROVE  /\ Writers = {} /\ unread \subseteq unread'
         /\ \A v \in Versions : v \in unread' \/ Will(v)' = Will(v)
         /\ \A v \in Versions :
              Will(v)' = asked'[v] \/ (Will(v)' = Will(v) /\ asked'[v] = asked[v])
         /\ UNCHANGED <<entry, php, active, task>>
<1>1. PICK v \in Versions : v = get_current_php_version
  BY CurrentTyped
<1>2. PICK text \in Edited(editor.text) :
        /\ editor' = [editor EXCEPT !.text = text, !.path = v]
        /\ ini' = [ini EXCEPT ![v] = Emptied]
        /\ asked' = [asked EXCEPT ![v] = text]
        /\ unread' = IF text = ini[v] THEN unread ELSE unread \cup {v}
  BY <1>1 DEF OpenByEditor
<1>3. Writers = {} /\ editor.path = Nothing /\ UNCHANGED <<entry, php, active, task>>
  BY DEF OpenByEditor, Orderly, WindowFree
<1>4. editor'.path = v /\ editor'.text = text
  BY <1>2 DEF FilesTypeOK
<1>5. Will(v)' = text /\ asked'[v] = text
  BY <1>2, <1>4 DEF Will, FilesTypeOK
<1>6. ASSUME NEW x \in Versions, x # v PROVE Will(x)' = Will(x) /\ asked'[x] = asked[x]
  BY <1>2, <1>3, <1>4, <1>6, ConfigFilesAssumption DEF Will, FilesTypeOK
<1>7. Will(v) = ini[v]
  BY <1>3, ConfigFilesAssumption DEF Will
<1> QED
  BY <1>2, <1>3, <1>5, <1>6, <1>7

LEMMA EditorWrites ==
  ASSUME FilesTypeOK, WriteByEditor
  PROVE  /\ editor.path # Nothing /\ editor'.path = Nothing
         /\ \A v \in Versions : Will(v)' = Will(v)
         /\ UNCHANGED <<entry, php, active, tab, boxes, task, asked, unread, races>>
<1>1. /\ editor.path \in Versions /\ editor.path # Nothing
      /\ ini' = [ini EXCEPT ![editor.path] = editor.text]
      /\ editor' = [editor EXCEPT !.path = Nothing]
      /\ UNCHANGED <<entry, php, active, tab, boxes, task, asked, unread, races>>
  BY DEF WriteByEditor, FilesTypeOK
<1>2. editor'.path = Nothing
  BY <1>1 DEF FilesTypeOK
<1>3. ASSUME NEW x \in Versions PROVE Will(x)' = Will(x)
  BY <1>1, <1>2, ConfigFilesAssumption DEF Will, FilesTypeOK
<1> QED
  BY <1>1, <1>2, <1>3

LEMMA SessionBegins ==
  ASSUME FilesTypeOK, Order, Orderly', Killed \/ KilledInSave \/ Reopened
  PROVE  /\ editor.path = Nothing /\ \A w \in Workers : ~Busy(w)
         /\ active' = active /\ tab' = "another" /\ editor'.path = Nothing
         /\ \A w \in Workers : task'[w] = NoTask
         /\ UNCHANGED <<ini, entry, asked, unread>>
         /\ php'.state = "down" \/ php' = [php EXCEPT !.by = Nothing]
<1>1. editor.path = Nothing /\ \A w \in Workers : ~Busy(w)
  BY DEF Killed, KilledInSave, Reopened, Orderly, WindowFree
<1>2. Launched
  BY DEF Killed, KilledInSave, Reopened
<1>3. php'.state = "down" \/ php' = [php EXCEPT !.by = Nothing]
  BY DEF Killed, KilledInSave, Reopened, PhpDown
<1>4. Writers = {}
  BY <1>1 DEF Writers
<1>5. entry = active /\ active \in Versions
  BY <1>4 DEF Order, FilesTypeOK
<1>6. editor'.path = Nothing
  BY <1>2 DEF Launched, Loaded
<1> QED
  BY <1>1, <1>2, <1>3, <1>5, <1>6, ConfigFilesAssumption DEF Launched, get_current_php_version

LEMMA OrderNext ==
  ASSUME FilesTypeOK, ShapeInv, OrderInv, [FilesNext]_filesVars
  PROVE  OrderInv'
<1> SUFFICES ASSUME Orderly' PROVE Order'
  BY DEF OrderInv
<1>0. Order /\ active \in Versions
  BY RacesGrow DEF OrderInv, Orderly, FilesTypeOK
<1>1. CASE /\ UNCHANGED <<entry, php, active, task>> /\ unread \subseteq unread'
           /\ \A v \in Versions : v \in unread' \/ Will(v)' = Will(v)
           /\ editor'.path # Nothing => Writers = {}
  <2>1. Writers' = Writers
    BY <1>1 DEF Writers, Busy
  <2>2. Followed'
    BY <1>0, <1>1, <2>1 DEF Order, Followed, Stale
  <2>3. \A w \in Writers : WriterInv(w)'
    BY <1>0, <1>1 DEF Order, WriterInv
  <2> QED
    BY <1>0, <1>1, <2>1, <2>2, <2>3 DEF Order
<1>2. CASE UNCHANGED <<ini, entry, php, active, task, editor, unread>>
  BY <1>0, <1>1, <1>2 DEF Will, Order
<1>3. ASSUME NEW A, PortsPress(A) PROVE Order'
  BY <1>2, <1>3 DEF PortsPress, phpVars, history
<1>4. ASSUME NEW svc \in Editable, load_config_content(svc) PROVE Order'
  <2>1. /\ UNCHANGED <<ini, entry, php, active, task, unread>> /\ editor.path = Nothing
        /\ editor'.path = Nothing
    BY <1>4 DEF load_config_content, phpVars, WindowFree, Loaded, Unloaded, history
  <2> QED
    BY <1>1, <2>1, ConfigFilesAssumption DEF Will
<1>5. ASSUME NEW text \in Contents, save_config_content(text) \/ SaveFails(text) PROVE Order'
  <2>1. /\ UNCHANGED <<ini, entry, php, active, task, unread>> /\ editor.path = Nothing
        /\ editor' = [editor EXCEPT !.text = text]
    BY <1>5 DEF save_config_content, SaveFails, SaveServerFile, WindowFree, phpVars, history
  <2>2. editor'.path = Nothing
    BY <2>1 DEF FilesTypeOK
  <2> QED
    BY <1>1, <2>1, <2>2, ConfigFilesAssumption DEF Will
<1>6. CASE OpenByEditor
  BY <1>0, <1>1, <1>6, EditorOpens
<1>7. CASE WriteByEditor
  BY <1>1, <1>7, EditorWrites
<1>13. CASE WriteByEditorFails
  BY <1>13 DEF WriteByEditorFails, Orderly
<1>8. CASE BindPhp
  <2>1. /\ php.state = "starting" /\ php' = [php EXCEPT !.state = "up", !.by = Nothing]
        /\ UNCHANGED <<ini, entry, task, active, editor, unread>>
    BY <1>8 DEF BindPhp, OnlyThread, windowVars, history
  <2>2. php'.state = "up" /\ php'.ver = php.ver /\ php'.loaded = php.loaded
    BY <2>1 DEF FilesTypeOK
  <2>3. Writers' = Writers /\ Will(active)' = Will(active)
    BY <2>1 DEF Writers, Busy, Will
  <2>4. \A w \in Writers : WriterInv(w)'
    BY <1>0, <2>1, <2>2 DEF Order, WriterInv
  <2>5. Followed'
    BY <1>0, <2>1, <2>2, <2>3 DEF Order, Followed, Stale
  <2> QED
    BY <1>0, <2>1, <2>2, <2>3, <2>4, <2>5 DEF Order
<1>9. CASE Killed \/ KilledInSave \/ Reopened
  <2>1. /\ editor.path = Nothing /\ \A w \in Workers : ~Busy(w)
        /\ active' = active /\ editor'.path = Nothing
        /\ \A w \in Workers : task'[w] = NoTask
        /\ UNCHANGED <<ini, entry, asked, unread>>
        /\ php'.state = "down" \/ php' = [php EXCEPT !.by = Nothing]
    BY <1>0, <1>9, SessionBegins
  <2>2. Writers = {} /\ Writers' = {}
    BY <2>1 DEF Writers, Busy, NoTask
  <2>3. php'.state \in {"down", php.state}
        /\ (php'.state # "down" => php'.ver = php.ver /\ php'.loaded = php.loaded)
    BY <2>1 DEF FilesTypeOK
  <2>4. Will(active)' = Will(active)
    BY <1>0, <2>1, ConfigFilesAssumption DEF Will
  <2>5. Followed'
    BY <1>0, <2>1, <2>2, <2>3, <2>4 DEF Order, Followed
  <2> QED
    BY <1>0, <2>1, <2>2, <2>3, <2>5 DEF Order
<1>10. CASE FilesQuiet \/ UNCHANGED filesVars
  BY <1>2, <1>10 DEF FilesQuiet, filesVars, phpVars, windowVars, history
<1>11. CASE UNCHANGED <<phpVars, windowVars, task, history>>
  BY <1>2, <1>11 DEF phpVars, windowVars, history
<1>12. ASSUME NEW w \in Workers, ThreadStep(w) PROVE Order'
  BY <1>0, <1>12, OrderThread
<1> QED
  BY <1>0, <1>3, <1>4, <1>5, <1>6, <1>7, <1>8, <1>9, <1>10, <1>11, <1>12, <1>13, OrderWindow DEF FilesNext

LEMMA OrderFirst == FilesInit => OrderInv
<1> SUFFICES ASSUME FilesInit PROVE Order
  BY DEF OrderInv
<1>1. /\ Writers = {} /\ entry = active /\ php.state = "down"
      /\ editor.path = Nothing
  BY DEF FilesInit, Writers, Busy, NoTask, PhpDown
<1> QED
  BY <1>1 DEF Order, Followed

InOrder == FilesInv /\ ShapeInv /\ OrderInv

LEMMA InOrderFirst == FilesInit => InOrder
BY FilesInitInv, ShapeFirst, OrderFirst DEF InOrder

LEMMA InOrderNext == InOrder /\ [FilesNext]_filesVars => InOrder'
BY FilesNextInv, ShapeNext, OrderNext DEF InOrder, FilesInv

(* For any number of versions, extensions and threads: if the user waits   *)
(* for each toggle, change of version, start and stop, a PHP that serves   *)
(* is of the version the window shows and has read that version's php.ini  *)
(* as it is, unless a save of the editor changed it since PHP was started: *)
(* a save restarts nothing (app.py 2276-2290), a toggle and a change of    *)
(* version restart PHP (app.py 673-713), whatever lists are loaded, ports  *)
(* changed and starts of PHP fail meanwhile.                               *)
THEOREM PhpServesTheFile == FilesSpec => []PhpFollowsIni
<1>1. InOrder => PhpFollowsIni
  <2> SUFFICES ASSUME InOrder, AllDone, races \cap {"rewrite", "kill", "error"} = {}, php.state = "up"
               PROVE  php.ver = active /\ (active \notin unread => php.loaded = ini[active])
    BY DEF PhpFollowsIni
  <2>1. Order /\ Writers = {} /\ editor.path = Nothing /\ active \in Versions
    BY DEF InOrder, FilesInv, FilesTypeOK, OrderInv, Orderly, AllDone, Writers, WindowFree
  <2> QED
    BY <2>1, ConfigFilesAssumption DEF Order, Followed, Will
<1> QED
  BY <1>1, InOrderFirst, InOrderNext, PTL DEF FilesSpec

-----------------------------------------------------------------------------
(* If no list was loaded beside a writer either, every php.ini is as the   *)
(* user left it, but for the one a toggle is at work on, and lists show    *)
(* what is in the file.                                                    *)

Toggling(t) == t.kind = "toggle" /\ t.pc \in {"path", "read", "open", "flush", "close"}

ToggleInv(t) ==
  /\ t.pc \in {"path", "read"} =>
       /\ t.ext \in ini[active].has
       /\ Toggled(ini[active], t) = asked[active]
  /\ t.pc \in {"open", "flush", "close"} => t.buf = asked[active]

ListInv(t) ==
  /\ t.pc = "read" => t.ver = active
  /\ t.pc = "emit" => t.buf = asked[active]

TaskInv(w) ==
  /\ task[w].kind = "toggle" => ToggleInv(task[w])
  /\ task[w].kind = "list" => ListInv(task[w])

Kept(v) == (v # active \/ (\A w \in Workers : ~Toggling(task[w]))) => Will(v) = asked[v]

Shown == tab = "extensions" => Listers # {} \/ boxes = asked[active]

AsAsked ==
  /\ Writers # {} \/ editor.path # Nothing => Listers = {}
  /\ \A v \in Versions : Kept(v)
  /\ \A w \in Workers : TaskInv(w)
  /\ Shown

AskedInv == races = {} => AsAsked

(* Who toggles is a writer. *)
LEMMA Togglers ==
  ASSUME NEW w \in Workers, Toggling(task[w])
  PROVE  w \in Writers
BY DEF Toggling, Writers, Busy

(* Where nobody writes, every file is as asked. *)
LEMMA AllAsked ==
  ASSUME AsAsked, Writers = {}, NEW v \in Versions
  PROVE  Will(v) = asked[v]
BY Togglers DEF AsAsked, Kept

LEMMA SameWill ==
  ASSUME UNCHANGED <<ini, editor>>, NEW v \in Versions
  PROVE  Will(v)' = Will(v)
BY DEF Will

(* One that lists extensions makes a step. *)
LEMMA ListStep ==
  ASSUME FilesTypeOK, ShapeInv, Order, AsAsked, races' = {}, NEW w \in Workers, ThreadStep(w),
         task[w].kind = "list"
  PROVE  AsAsked'
<1>0. /\ Shape(task[w]) /\ Window /\ Others(w) /\ w \in Listers
  BY ShapeThread, ThreadWindow, Idle DEF ShapeInv
<1>1. Writers = {} /\ editor.path = Nothing /\ entry = active /\ active \in Versions /\ active # Nothing
  BY <1>0, ConfigFilesAssumption DEF AsAsked, Order, FilesTypeOK
<1>2. ini[active] = asked[active]
  BY <1>1, AllAsked DEF Will
<1>3. Path(w) \/ ReadIni(w)
  <2>1. task[w].pc \in {"path", "read", "emit"}
    BY <1>0 DEF Shape
  <2> QED
    BY <2>1, FailsEffect DEF ThreadStep, OpenIni, FlushIni, CloseIni, Restart, OpenDrop, WriteDrop, SpawnPhp,
                WaitPhp, OpenEntry, WriteEntry, At
<1>4. /\ task'[w].kind = "list" /\ task'[w].pc # "idle" /\ UNCHANGED <<ini, entry, php>>
      /\ task'[w].pc \in {"read", "emit"}
      /\ task'[w].pc = "read" => task'[w].ver = active
      /\ task'[w].pc = "emit" => task'[w].buf = asked[active]
  <2>1. CASE Path(w)
    BY <1>1, <2>1, PathEffect DEF Same, get_current_php_version
  <2>2. CASE ReadIni(w)
    <3>1. task[w].ver = active
      BY <2>2, ReadEffect DEF AsAsked, TaskInv, ListInv
    <3> QED
      BY <1>2, <2>2, <3>1, ReadEffect DEF Same
  <2> QED
    BY <1>3, <2>1, <2>2
<1>5. UNCHANGED <<active, tab, boxes, editor, asked>>
  BY <1>0 DEF Window
<1>6. Writers' = {} /\ w \in Listers'
  BY <1>0, <1>1, <1>4 DEF Writers, Listers, Busy, Others
<1>7. ASSUME NEW v \in Versions PROVE Kept(v)'
  <2>1. Will(v)' = Will(v) /\ asked[v]' = asked[v]
    BY <1>4, <1>5, SameWill
  <2> QED
    BY <1>1, <2>1, AllAsked DEF Kept
<1>8. ASSUME NEW x \in Workers PROVE TaskInv(x)'
  <2>1. CASE x = w
    BY <1>4, <1>5, <2>1 DEF TaskInv, ListInv
  <2>2. CASE x # w
    <3>1. task'[x] = task[x] /\ TaskInv(x)
      BY <1>0, <2>2 DEF Others, AsAsked
    <3> QED
      BY <1>4, <1>5, <3>1 DEF TaskInv, ToggleInv, ListInv
  <2> QED
    BY <2>1, <2>2
<1> QED
  BY <1>1, <1>5, <1>6, <1>7, <1>8 DEF AsAsked, Shown

(* The one that writes makes a step. *)
LEMMA AskedKept ==
  ASSUME FilesTypeOK, ShapeInv, Order, AsAsked, NEW w \in Writers, Others(w), Window,
         task'[w].kind # "list",
         \A v \in Versions : v # active \/ ~Toggling(task[w])' => ini'[v] = asked[v],
         task'[w].kind = "toggle" => ToggleInv(task[w])'
  PROVE  AsAsked'
<1>1. /\ UNCHANGED <<active, tab, boxes, editor, asked>> /\ w \in Workers
      /\ Listers = {} /\ editor.path = Nothing
  BY DEF Window, AsAsked, Order, Writers
<1>2. \A v \in Versions : asked[v]' = asked[v] /\ Will(v)' = ini'[v]
  BY <1>1, ConfigFilesAssumption DEF Will
<1>3. ASSUME NEW v \in Versions PROVE Kept(v)'
  BY <1>1, <1>2 DEF Kept
<1>4. ASSUME NEW x \in Workers, x # w PROVE task'[x] = task[x] /\ task[x].kind = "none"
  <2>1. x \notin Writers /\ x \notin Listers
    BY <1>1, <1>4 DEF Order
  <2> QED
    BY <1>4, <2>1, Idle DEF Others
<1>5. ASSUME NEW x \in Workers PROVE TaskInv(x)'
  <2>1. CASE x = w
    BY <2>1 DEF TaskInv
  <2>2. CASE x # w
    BY <1>4, <2>2 DEF TaskInv
  <2> QED
    BY <2>1, <2>2
<1>6. Listers' = {}
  BY <1>4 DEF Listers
<1>7. Shown'
  <2>1. active \in Versions
    BY DEF FilesTypeOK
  <2> QED
    BY <1>1, <1>2, <2>1 DEF AsAsked, Shown
<1> QED
  BY <1>3, <1>5, <1>6, <1>7 DEF AsAsked

LEMMA WriteStep ==
  ASSUME FilesTypeOK, ShapeInv, Order, AsAsked, races' = {}, NEW w \in Workers, ThreadStep(w),
         task[w].kind # "list"
  PROVE  AsAsked'
<1>0. /\ Shape(task[w]) /\ Shape(task'[w]) /\ Window /\ Others(w)
      /\ w \in Writers /\ WriterInv(w) /\ active \in Versions /\ active # Nothing
      /\ editor.path = Nothing /\ UNCHANGED <<active, asked>>
      /\ task[w].kind \in {"none", "toggle", "list", "version", "start", "stop"}
  <2>1. Busy(w)
    BY FailsEffect DEF ThreadStep, Path, ReadIni, OpenIni, FlushIni, CloseIni, Restart, OpenDrop,
                       WriteDrop, SpawnPhp, WaitPhp, OpenEntry, WriteEntry, At, Busy
  <2>2. w \in Writers
    BY <2>1 DEF Writers
  <2> QED
    BY <2>2, ShapeThread, ThreadWindow, TaskTypes, ConfigFilesAssumption
       DEF ShapeInv, Order, FilesTypeOK, Window
<1>1. ASSUME NEW v \in Versions, v # active \/ ~Toggling(task[w]) PROVE ini[v] = asked[v]
  <2>1. \A x \in Workers : Toggling(task[x]) => x = w
    BY <1>0, Togglers DEF Order
  <2>2. Will(v) = asked[v]
    BY <1>1, <2>1 DEF AsAsked, Kept
  <2>3. editor.path # v
    BY <1>0, ConfigFilesAssumption
  <2> QED
    BY <2>2, <2>3 DEF Will
<1>2. task[w].kind = "toggle" => ToggleInv(task[w])
  BY DEF AsAsked, TaskInv
<1>a. asked[active]' = asked[active]
  BY <1>0
(* A step outside the stages of a toggle. *)
<1>3. CASE /\ ini' = ini /\ ~Toggling(task[w]) /\ ~Toggling(task[w])' /\ task'[w].kind # "list"
  <2>1. task'[w].kind = "toggle" => ToggleInv(task[w])'
    BY <1>3 DEF Toggling, ToggleInv
  <2> QED
    BY <1>0, <1>1, <1>3, <2>1, AskedKept
<1>4. CASE Path(w)
  <2>1. /\ task[w].kind = "toggle" /\ task'[w].kind = "toggle" /\ task'[w].pc = "read" /\ ini' = ini
        /\ task'[w].ext = task[w].ext /\ task'[w].on = task[w].on /\ task[w].pc = "path"
    BY <1>0, <1>4, PathEffect DEF Shape, AfterStatus, Same
  <2>2. Toggled(ini[active], task[w])' = Toggled(ini[active], task[w])
    BY <1>0, <2>1 DEF Toggled
  <2>3. ToggleInv(task[w])'
    BY <1>0, <1>2, <1>a, <2>1, <2>2 DEF ToggleInv
  <2>4. Toggling(task[w])'
    BY <2>1 DEF Toggling
  <2> QED
    BY <1>0, <1>1, <2>1, <2>3, <2>4, AskedKept
<1>5. CASE ReadIni(w)
  <2>1. task[w].kind = "toggle" /\ task[w].pc = "read" /\ task[w].ver = active /\ ini' = ini
    BY <1>0, <1>5, ReadEffect DEF Shape, AfterStatus, WriterInv
  <2>2. task[w].ext \in ini[active].has
    BY <1>2, <2>1 DEF ToggleInv
  <2>3. /\ task'[w].kind = "toggle" /\ task'[w].pc = "open"
        /\ task'[w].buf = Toggled(ini[active], task[w])
    BY <1>5, <2>1, <2>2, ReadEffect DEF Same
  <2>4. ToggleInv(task[w])' /\ Toggling(task[w])'
    BY <1>2, <1>a, <2>1, <2>3 DEF ToggleInv, Toggling
  <2> QED
    BY <1>0, <1>1, <2>1, <2>3, <2>4, AskedKept
<1>6. CASE OpenIni(w) \/ FlushIni(w)
  <2>1. /\ task[w].pc \in {"open", "flush"} /\ Same(w) /\ task'[w].pc \in {"flush", "close"}
        /\ task'[w].buf = task[w].buf
        /\ \A v \in Versions : v # task[w].ver => ini'[v] = ini[v]
    BY <1>6, OpenIniEffect, FlushIniEffect
  <2>2. task[w].kind = "toggle" /\ task[w].ver = active /\ task'[w].kind = "toggle"
    BY <1>0, <2>1 DEF Shape, AfterStatus, WriterInv, Same
  <2>3. ToggleInv(task[w])' /\ Toggling(task[w])'
    BY <1>2, <1>a, <2>1, <2>2 DEF ToggleInv, Toggling
  <2> QED
    BY <1>0, <1>1, <2>1, <2>2, <2>3, AskedKept
<1>7. CASE CloseIni(w)
  <2>1. /\ task[w].pc = "close" /\ Same(w) /\ task'[w].pc = "status"
        /\ ini'[task[w].ver] = task[w].buf
        /\ \A v \in Versions : v # task[w].ver => ini'[v] = ini[v]
    BY <1>7, CloseIniEffect
  <2>2. task[w].kind = "toggle" /\ task[w].ver = active /\ task'[w].kind = "toggle"
    BY <1>0, <2>1 DEF Shape, AfterStatus, WriterInv, Same
  <2>3. ini'[active] = asked[active]
    BY <1>2, <2>1, <2>2 DEF ToggleInv
  <2>4. ToggleInv(task[w])'
    BY <2>1 DEF ToggleInv
  <2>5. \A v \in Versions : ini'[v] = asked[v]
    BY <1>1, <2>1, <2>2, <2>3
  <2> QED
    BY <1>0, <2>2, <2>4, <2>5, AskedKept
<1>8. CASE Restart(w)
  BY <1>0, <1>3, <1>8, RestartEffect DEF Same, Toggling, NoTask
<1>9. CASE OpenDrop(w)
  BY <1>0, <1>3, <1>9, OpenDropEffect DEF Same, Toggling
<1>10. CASE WriteDrop(w)
  BY <1>0, <1>3, <1>10, WriteDropEffect DEF Same, Toggling, NoTask
<1>11. CASE SpawnPhp(w)
  <2>1. php.state = "down"
    BY <1>0, <1>11 DEF WriterInv, SpawnPhp, At
  <2> QED
    BY <1>0, <1>3, <1>11, <2>1, SpawnEffect DEF Same, Toggling
<1>12. CASE WaitPhp(w)
  BY <1>0, <1>3, <1>12, WaitEffect DEF Same, Toggling, NoTask
<1>13. CASE OpenEntry(w)
  BY <1>0, <1>3, <1>13, OpenEntryEffect DEF Same, Toggling
<1>14. CASE WriteEntry(w)
  BY <1>0, <1>3, <1>14, WriteEntryEffect DEF Same, Toggling, NoTask
<1>15. CASE ThreadFails(w)
  <2>1. task[w].pc = "spawn" /\ task'[w] = NoTask /\ ini' = ini
    BY <1>15, FailsEffect
  <2> QED
    BY <1>0, <1>3, <2>1 DEF Toggling, NoTask
<1> QED
  BY <1>4, <1>5, <1>6, <1>7, <1>8, <1>9, <1>10, <1>11, <1>12, <1>13, <1>14, <1>15 DEF ThreadStep

(* A press that starts a list beside a writer, or a writer beside a list,  *)
(* is a race.                                                              *)
LEMMA PressQuiet ==
  ASSUME FilesTypeOK, NEW w \in Workers, NEW t, Press(w, t), races' = {}
  PROVE  Writers = {} /\ (t.kind # "list" => Listers = {})
BY PressEffect DEF Races

(* A button that starts a writer. *)
LEMMA AskedPress ==
  ASSUME FilesTypeOK, ShapeInv, Order, AsAsked, races' = {}, NEW w \in Workers, NEW t, Press(w, t),
         t.kind # "list", t.kind = "toggle" => ToggleInv(t)',
         \A v \in Versions : v # active' \/ ~Toggling(t) => ini[v] = asked[v]',
         tab' = "extensions" => boxes' = asked[active]'
  PROVE  AsAsked'
<1>1. /\ task'[w] = t /\ Others(w) /\ editor.path = Nothing
      /\ UNCHANGED <<ini, entry, php, editor>> /\ Writers = {} /\ Listers = {}
  BY PressEffect, PressQuiet
<1>2. ASSUME NEW x \in Workers, x # w PROVE task'[x] = task[x] /\ task[x].kind = "none"
  BY <1>1, <1>2, Idle DEF Others
<1>3. Listers' = {}
  BY <1>1, <1>2 DEF Listers
<1>4. ASSUME NEW x \in Workers PROVE TaskInv(x)'
  <2>1. CASE x = w
    BY <1>1, <2>1 DEF TaskInv
  <2>2. CASE x # w
    BY <1>2, <2>2 DEF TaskInv
  <2> QED
    BY <2>1, <2>2
<1>5. ASSUME NEW v \in Versions PROVE Kept(v)'
  <2>1. Will(v)' = ini[v]
    BY <1>1, ConfigFilesAssumption DEF Will
  <2> QED
    BY <1>1, <2>1 DEF Kept
<1> QED
  BY <1>3, <1>4, <1>5 DEF AsAsked, Shown

LEMMA FilesAsked ==
  ASSUME AsAsked, Writers = {}, editor.path = Nothing, NEW v \in Versions
  PROVE  ini[v] = asked[v]
BY AllAsked, ConfigFilesAssumption DEF Will

(* A check box is pressed: what is shown is what is in the file. *)
LEMMA AskedToggle ==
  ASSUME FilesTypeOK, ShapeInv, Order, AsAsked, races' = {},
         NEW w \in Workers, NEW x \in Extensions, toggle_extension(w, x)
  PROVE  AsAsked'
<1>1. PICK t : t = ToggleTask(x, x \notin boxes.on)
  OBVIOUS
<1>2. /\ t.kind = "toggle" /\ t.pc = "path" /\ t.ext = x /\ Press(w, t)
      /\ UNCHANGED <<active, tab>> /\ tab = "extensions" /\ x \in boxes.has
      /\ boxes' = Toggled(boxes, t)
      /\ asked' = [asked EXCEPT ![active] = Toggled(asked[active], t)]
  <2>1. t.kind = "toggle" /\ t.pc = "path" /\ t.ext = x /\ Press(w, t)
    BY <1>1, NewTasks, Presses
  <2> QED
    BY <1>1, <2>1 DEF toggle_extension, ToggleTask
<1>3. /\ Writers = {} /\ Listers = {} /\ editor.path = Nothing /\ ini' = ini /\ active \in Versions
  BY <1>2, PressQuiet, PressEffect DEF FilesTypeOK
<1>4. boxes = asked[active] /\ ini[active] = asked[active]
  BY <1>2, <1>3, FilesAsked DEF AsAsked, Shown
<1>5. PICK new : new = Toggled(asked[active], t)
  OBVIOUS
<1>6. /\ asked'[active] = new
      /\ \A v \in Versions : v # active => asked'[v] = asked[v]
  BY <1>2, <1>3, <1>5 DEF FilesTypeOK
<1>7. ToggleInv(t)'
  <2>1. Toggled(ini[active], t)' = asked[active]'
    BY <1>2, <1>3, <1>4, <1>5, <1>6 DEF Toggled
  <2> QED
    BY <1>2, <1>3, <1>4, <2>1 DEF ToggleInv
<1>8. \A v \in Versions : v # active => ini[v] = asked'[v]
  BY <1>3, <1>6, FilesAsked
<1>9. boxes' = asked'[active]
  BY <1>2, <1>4, <1>5, <1>6
<1>10. Toggling(t)
  BY <1>2 DEF Toggling
<1> QED
  BY <1>2, <1>7, <1>8, <1>9, <1>10, AskedPress

LEMMA AskedWindow ==
  ASSUME FilesTypeOK, ShapeInv, Order, AsAsked, races' = {}, NEW w \in Workers,
         \/ load_extensions_list(w) \/ display_extensions_list(w) \/ TogglePhp(w)
         \/ \E x \in Extensions : toggle_extension(w, x)
         \/ \E v \in Versions : change_php_version(w, v)
  PROVE  AsAsked'
<1>1. CASE load_extensions_list(w)
  <2>1. Press(w, ListTask) /\ UNCHANGED <<active, asked>>
    BY <1>1, Presses
  <2>2. /\ Writers = {} /\ editor.path = Nothing /\ UNCHANGED <<ini, editor>>
        /\ task'[w] = ListTask /\ Others(w)
    BY <2>1, PressQuiet, PressEffect
  <2>3. /\ task'[w].kind = "list" /\ task'[w].pc = "path"
    BY <2>2, NewTasks
  <2>4. Writers' = {} /\ w \in Listers'
    BY <2>2, <2>3 DEF Writers, Listers, Busy, Others
  <2>5. ASSUME NEW v \in Versions PROVE Kept(v)'
    <3>1. Will(v)' = Will(v) /\ asked[v]' = asked[v]
      BY <2>1, <2>2, SameWill
    <3> QED
      BY <2>2, <3>1, AllAsked DEF Kept
  <2>6. ASSUME NEW x \in Workers PROVE TaskInv(x)'
    <3>1. CASE x = w
      BY <2>3, <3>1 DEF TaskInv, ListInv
    <3>2. CASE x # w
      <4>1. task'[x] = task[x] /\ TaskInv(x)
        BY <2>2, <3>2 DEF Others, AsAsked
      <4> QED
        BY <2>1, <2>2, <4>1 DEF TaskInv, ToggleInv, ListInv
    <3> QED
      BY <3>1, <3>2
  <2> QED
    BY <2>2, <2>4, <2>5, <2>6 DEF AsAsked, Shown
<1>2. CASE display_extensions_list(w)
  <2>1. /\ task[w].pc = "emit" /\ Ends(w) /\ editor.path = Nothing
        /\ boxes' = task[w].buf
        /\ UNCHANGED <<ini, active, tab, asked, editor>>
    BY <1>2 DEF display_extensions_list, At, WindowFree, phpVars, history
  <2>2. task[w].kind = "list" /\ w \in Listers
    <3>1. Shape(task[w]) /\ task[w].kind \in {"none", "toggle", "list", "version", "start", "stop"}
      BY TaskTypes DEF ShapeInv
    <3>2. task[w].kind = "list"
      BY <2>1, <3>1 DEF Shape, AfterStatus
    <3> QED
      BY <3>2, Idle
  <2>3. Writers = {} /\ boxes' = asked[active]
    BY <2>1, <2>2 DEF AsAsked, TaskInv, ListInv
  <2>4. task'[w].kind = "none" /\ task'[w].pc = "idle" /\ Others(w)
    BY <2>1, EndsEffect
  <2>5. Writers' = {}
    BY <2>3, <2>4 DEF Writers, Busy, Others
  <2>6. ASSUME NEW v \in Versions PROVE Kept(v)'
    <3>1. Will(v)' = Will(v) /\ asked[v]' = asked[v]
      BY <2>1, SameWill
    <3> QED
      BY <2>1, <2>3, <3>1, AllAsked DEF Kept
  <2>7. ASSUME NEW x \in Workers PROVE TaskInv(x)'
    <3>1. CASE x = w
      BY <2>4, <3>1 DEF TaskInv
    <3>2. CASE x # w
      <4>1. task'[x] = task[x] /\ TaskInv(x)
        BY <2>4, <3>2 DEF Others, AsAsked
      <4> QED
        BY <2>1, <4>1 DEF TaskInv, ToggleInv, ListInv
    <3> QED
      BY <3>1, <3>2
  <2>8. Shown'
    BY <2>1, <2>3 DEF Shown
  <2> QED
    BY <2>1, <2>5, <2>6, <2>7, <2>8 DEF AsAsked
<1>3. CASE TogglePhp(w)
  <2>1. UNCHANGED <<active, asked>> /\ tab' = "another"
    BY <1>3, Presses
  <2>2. ASSUME NEW t, Press(w, t), t.kind \in {"stop", "start"} PROVE AsAsked'
    <3>1. /\ Writers = {} /\ editor.path = Nothing
      BY <2>2, PressQuiet, PressEffect
    <3>2. \A v \in Versions : ini[v] = asked[v]'
      BY <2>1, <3>1, FilesAsked
    <3> QED
      BY <2>1, <2>2, <3>2, AskedPress
  <2> QED
    BY <1>3, <2>2, Presses, NewTasks
<1>4. ASSUME NEW v \in Versions, change_php_version(w, v) PROVE AsAsked'
  <2>1. PICK t : t = VersionTask(v)
    OBVIOUS
  <2>2. Press(w, t) /\ t.kind = "version" /\ tab' = "another" /\ asked' = asked
    BY <1>4, <2>1, Presses, NewTasks
  <2>3. /\ Writers = {} /\ editor.path = Nothing
    BY <2>2, PressQuiet, PressEffect
  <2>4. \A x \in Versions : ini[x] = asked[x]'
    BY <2>2, <2>3, FilesAsked
  <2> QED
    BY <2>2, <2>4, AskedPress
<1> QED
  BY <1>1, <1>2, <1>3, <1>4, AskedToggle

LEMMA AskedNext ==
  ASSUME FilesTypeOK, ShapeInv, OrderInv, AskedInv, [FilesNext]_filesVars
  PROVE  AskedInv'
<1> SUFFICES ASSUME races' = {} PROVE AsAsked'
  BY DEF AskedInv
<1>0. Order /\ AsAsked /\ Orderly'
  BY RacesGrow DEF OrderInv, AskedInv, Orderly
(* No thread moves, and no file will change. *)
<1>1. CASE /\ UNCHANGED <<active, task, asked>> /\ \A v \in Versions : Will(v)' = Will(v)
           /\ tab' = "another" \/ UNCHANGED <<tab, boxes>>
           /\ editor'.path # Nothing => Listers = {}
           /\ ini' = ini \/ Writers = {}
  <2>1. Writers' = Writers /\ Listers' = Listers
    BY <1>1 DEF Writers, Listers, Busy
  <2>2. ASSUME NEW v \in Versions PROVE Kept(v)'
    <3>1. Kept(v)
      BY <1>0 DEF AsAsked
    <3> QED
      BY <1>1, <3>1 DEF Kept
  <2>3. ASSUME NEW w \in Workers PROVE TaskInv(w)'
    <3>1. TaskInv(w)
      BY <1>0 DEF AsAsked
    <3>2. CASE ini' = ini
      BY <1>1, <3>1, <3>2 DEF TaskInv, ToggleInv, ListInv
    <3>3. CASE Writers = {}
      <4>1. task[w].kind # "toggle"
        BY <3>3, Idle
      <4> QED
        BY <1>1, <3>1, <4>1 DEF TaskInv, ListInv
    <3> QED
      BY <1>1, <3>2, <3>3
  <2>4. Shown'
    BY <1>0, <1>1, <2>1 DEF AsAsked, Shown
  <2> QED
    BY <1>0, <1>1, <2>1, <2>2, <2>3, <2>4 DEF AsAsked
<1>2. CASE /\ UNCHANGED <<ini, active, task, editor, asked>>
           /\ tab' = "another" \/ UNCHANGED <<tab, boxes>>
  <2>1. editor'.path # Nothing => Listers = {}
    BY <1>0, <1>2 DEF AsAsked
  <2> QED
    BY <1>1, <1>2, <2>1, SameWill
<1>3. ASSUME NEW A, PortsPress(A) PROVE AsAsked'
  BY <1>2, <1>3 DEF PortsPress, phpVars, history
<1>4. ASSUME NEW svc \in Editable, load_config_content(svc) PROVE AsAsked'
  <2>1. /\ UNCHANGED <<ini, active, task, asked>> /\ editor.path = Nothing
        /\ editor'.path = Nothing /\ tab' = "another"
    BY <1>4 DEF load_config_content, phpVars, WindowFree, Loaded, Unloaded, history
  <2> QED
    BY <1>1, <2>1, ConfigFilesAssumption DEF Will
<1>5. ASSUME NEW text \in Contents, save_config_content(text) \/ SaveFails(text) PROVE AsAsked'
  <2>1. /\ UNCHANGED <<ini, active, task, asked>> /\ editor.path = Nothing
        /\ editor' = [editor EXCEPT !.text = text] /\ tab' = "another"
    BY <1>5 DEF save_config_content, SaveFails, SaveServerFile, WindowFree, phpVars, history
  <2>2. editor'.path = Nothing
    BY <2>1 DEF FilesTypeOK
  <2> QED
    BY <1>1, <2>1, <2>2, ConfigFilesAssumption DEF Will
<1>6. CASE OpenByEditor
  <2>1. /\ Listers = {} /\ tab' = "another" /\ Writers = {} /\ UNCHANGED <<active, task>>
        /\ \A v \in Versions :
             Will(v)' = asked'[v] \/ (Will(v)' = Will(v) /\ asked'[v] = asked[v])
    BY <1>0, <1>6, EditorOpens DEF OpenByEditor
  <2>2. Writers' = {} /\ Listers' = {}
    BY <2>1 DEF Writers, Listers, Busy
  <2>3. ASSUME NEW v \in Versions PROVE Kept(v)'
    BY <1>0, <2>1, AllAsked DEF Kept
  <2>4. ASSUME NEW w \in Workers PROVE TaskInv(w)'
    <3>1. task[w].kind = "none"
      BY <2>1, Idle
    <3> QED
      BY <2>1, <3>1 DEF TaskInv
  <2> QED
    BY <2>1, <2>2, <2>3, <2>4 DEF AsAsked, Shown
<1>13. CASE WriteByEditorFails
  BY <1>13 DEF WriteByEditorFails
<1>7. CASE WriteByEditor
  <2>1. Writers = {}
    BY <1>0, <1>7, EditorWrites DEF Order
  <2> QED
    BY <1>1, <1>7, <2>1, EditorWrites
<1>8. CASE BindPhp
  BY <1>2, <1>8 DEF BindPhp, OnlyThread, windowVars, history
<1>9. CASE Killed \/ KilledInSave \/ Reopened
  <2>1. /\ editor.path = Nothing /\ \A w \in Workers : ~Busy(w)
        /\ active' = active /\ editor'.path = Nothing /\ tab' = "another"
        /\ \A w \in Workers : task'[w] = NoTask
        /\ UNCHANGED <<ini, entry, asked>>
    BY <1>0, <1>9, SessionBegins
  <2>2. /\ Writers = {} /\ Listers' = {}
        /\ \A w \in Workers : task'[w].kind = "none"
    BY <2>1 DEF Writers, Listers, Busy, NoTask
  <2>3. ASSUME NEW v \in Versions PROVE Kept(v)'
    <3>1. ini[v] = asked[v] /\ Will(v)' = ini[v]
      BY <1>0, <2>1, <2>2, FilesAsked, ConfigFilesAssumption DEF Will
    <3> QED
      BY <2>1, <3>1 DEF Kept
  <2> QED
    BY <2>1, <2>2, <2>3 DEF AsAsked, TaskInv, Shown
<1>10. CASE FilesQuiet \/ UNCHANGED filesVars
  BY <1>2, <1>10 DEF FilesQuiet, filesVars, phpVars, windowVars, history
<1>11. CASE UNCHANGED <<phpVars, windowVars, task, history>>
  BY <1>2, <1>11 DEF phpVars, windowVars, history
<1>12. ASSUME NEW w \in Workers, ThreadStep(w) PROVE AsAsked'
  BY <1>0, <1>12, ListStep, WriteStep
<1> QED
  BY <1>0, <1>3, <1>4, <1>5, <1>6, <1>7, <1>8, <1>9, <1>10, <1>11, <1>12, <1>13, AskedWindow DEF FilesNext

LEMMA AskedFirst == FilesInit => AskedInv
<1> SUFFICES ASSUME FilesInit PROVE AsAsked
  BY DEF AskedInv
<1>1. /\ editor.path = Nothing /\ tab = "another"
      /\ \A v \in Versions : ini[v] = asked[v]
      /\ \A w \in Workers : task[w].kind = "none"
  BY DEF FilesInit, NoTask
<1>2. Listers = {}
  BY <1>1 DEF Listers
<1>3. ASSUME NEW v \in Versions PROVE Kept(v)
  BY <1>1, ConfigFilesAssumption DEF Kept, Will
<1> QED
  BY <1>1, <1>2, <1>3 DEF AsAsked, TaskInv, Shown

Kempt == InOrder /\ AskedInv

LEMMA KemptFirst == FilesInit => Kempt
BY InOrderFirst, AskedFirst DEF Kempt

LEMMA KemptNext == Kempt /\ [FilesNext]_filesVars => Kempt'
BY InOrderNext, AskedNext DEF Kempt, InOrder, FilesInv

LEMMA KemptAtRest ==
  ASSUME Kempt, AllDone, races = {}
  PROVE  /\ FilesTypeOK /\ Order /\ AsAsked /\ Writers = {} /\ Listers = {}
         /\ \A v \in Versions : ini[v] = asked[v]
<1>1. /\ FilesTypeOK /\ Order /\ AsAsked /\ Writers = {} /\ Listers = {}
      /\ editor.path = Nothing
  BY DEF Kempt, InOrder, FilesInv, OrderInv, Orderly, AskedInv, AllDone, Writers, Listers, WindowFree
<1> QED
  BY <1>1, FilesAsked

(* For any number of versions, extensions, threads and sessions: if the    *)
(* user waits for each of them, toggles and edited saves end up in the     *)
(* php.ini of the version the window shows, last across changes of         *)
(* version, starts of PHP and sessions, and leave no file with a line more *)
(* or less (toggle_extension_internal, app.py 673-713;                     *)
(* save_config_content, app.py 2276-2290).                                 *)
THEOREM TogglesStay == FilesSpec => []TogglesLast
<1>1. Kempt => TogglesLast
  <2> SUFFICES ASSUME Kempt, AllDone, races = {}
               PROVE  ini = asked
    BY DEF TogglesLast
  <2>1. /\ ini \in [Versions -> Texts] /\ asked \in [Versions -> Texts]
        /\ \A v \in Versions : ini[v] = asked[v]
    BY KemptAtRest DEF FilesTypeOK
  <2> QED
    BY <2>1
<1> QED
  BY <1>1, KemptFirst, KemptNext, PTL DEF FilesSpec

(* For any number of versions, extensions, threads and sessions: if no     *)
(* list was read while a file or the version changed, the check boxes are  *)
(* those of the php.ini that a toggle would change now, which the thread   *)
(* asks services_pids.json for (load_extensions_list, app.py 2440-2490).   *)
THEOREM BoxesAreTheFile == FilesSpec => []ListIsCurrent
<1>1. Kempt => ListIsCurrent
  <2> SUFFICES ASSUME Kempt, AllDone, races = {}, tab = "extensions"
               PROVE  boxes = ini[get_current_php_version]
    BY DEF ListIsCurrent
  <2>1. /\ boxes = asked[active] /\ entry = active /\ active \in Versions
        /\ ini[active] = asked[active]
    BY KemptAtRest DEF AsAsked, Shown, Order, FilesTypeOK
  <2> QED
    BY <2>1, ConfigFilesAssumption DEF get_current_php_version
<1> QED
  BY <1>1, KemptFirst, KemptNext, PTL DEF FilesSpec
=============================================================================
