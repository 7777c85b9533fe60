-------------------------- MODULE ConfigFilesProofs --------------------------
(***************************************************************************)
(* Proofs about ConfigFiles for every number of threads, every set of PHP  *)
(* versions and extensions, and every bound.                               *)
(***************************************************************************)
EXTENDS ConfigFiles, PortSettingsProofs

(* The steps PortSettings knows, and those it does not. *)
PortsIdle ==
  /\ UNCHANGED <<PORTS, portsFile, file, saving, job, harmed, mending>>
  /\ events' \in {events, events + 1} /\ (events' # events => events < MaxEvents)

LEMMA StepSides ==
  ASSUME [FilesNext]_filesVars
  PROVE  \/ [Next]_vars \/ PortsIdle \/ KilledInSave
         \/ \E text \in Contents : save_config_content(text) \/ SaveFails(text)
<1>1. CASE UNCHANGED filesVars
  BY <1>1 DEF filesVars
<1>2. ASSUME NEW w \in Workers, WorkerStep(w) PROVE Next
  BY <1>2 DEF Next
<1>3. ASSUME NEW w \in Workers,
             StartApache(w) \/ \E new \in Settings : save_port_settings(w, new) \/ SettingsUnsaved(w, new)
      PROVE  Next
  BY <1>3 DEF Next
<1>13. ASSUME NEW w \in Workers, ThreadFails(w) PROVE PortsIdle
  BY <1>13 DEF ThreadFails, Error, PortsAlone, PortsIdle
<1>4. ASSUME NEW w \in Workers, ThreadStep(w), ~ThreadFails(w) PROVE UNCHANGED vars
  BY <1>4 DEF ThreadStep, Path, ReadIni, OpenIni, FlushIni, CloseIni, Restart, OpenDrop, WriteDrop, SpawnPhp,
              WaitPhp, OpenEntry, WriteEntry, OnlyThread
<1>5. ASSUME NEW w, NEW t, Press(w, t) PROVE PortsIdle
  BY <1>5 DEF Press, PortsAlone, PortsIdle
<1>6. ASSUME NEW w \in Workers,
             \/ load_extensions_list(w) \/ TogglePhp(w)
             \/ \E x \in Extensions : toggle_extension(w, x)
             \/ \E v \in Versions : change_php_version(w, v)
      PROVE  PortsIdle
  BY <1>5, <1>6 DEF load_extensions_list, TogglePhp, toggle_extension, change_php_version
<1>7. ASSUME NEW w \in Workers, display_extensions_list(w) PROVE UNCHANGED vars
  BY <1>7 DEF display_extensions_list
<1>8. ASSUME NEW svc \in Editable, load_config_content(svc) PROVE PortsIdle
  BY <1>8 DEF load_config_content, PortsAlone, PortsIdle
<1>9. CASE BindPhp \/ WriteByEditor
  BY <1>9 DEF BindPhp, OnlyThread, WriteByEditor
<1>10. CASE OpenByEditor \/ WriteByEditorFails
  BY <1>10 DEF OpenByEditor, WriteByEditorFails, Error, PortsAlone, PortsIdle
<1>11. CASE Killed \/ Reopened
  BY <1>11 DEF Killed, Reopened, Next
<1>12. CASE FilesQuiet
  BY <1>12 DEF FilesQuiet, filesVars
<1> QED
  BY <1>1, <1>2, <1>3, <1>4, <1>6, <1>7, <1>8, <1>9, <1>10, <1>11, <1>12, <1>13 DEF FilesNext, PortsPress

-----------------------------------------------------------------------------
(* Types *)

LEMMA EmptiedTyped == Emptied \in Texts
BY DEF Emptied, Texts

LEMMA WholeTyped ==
  ASSUME NEW v \in Versions, NEW on \in SUBSET Extensions PROVE Whole(v, on) \in Texts
BY ConfigFilesAssumption DEF Whole, Texts

LEMMA NoTaskTyped == NoTask \in Tasks
BY EmptiedTyped, ConfigFilesAssumption DEF NoTask, Tasks

LEMMA CurrentTyped == FilesTypeOK => get_current_php_version \in Versions
BY ConfigFilesAssumption DEF FilesTypeOK, get_current_php_version

LEMMA ToggledTyped ==
  ASSUME NEW text \in Texts, NEW t, t.ext \in Extensions
  PROVE  /\ Toggled(text, t) \in Texts
         /\ Toggled(text, t).of = text.of /\ Toggled(text, t).has = text.has
<1> DEFINE on == IF t.on THEN text.on \cup {t.ext} ELSE text.on \ {t.ext}
<1>1. on \subseteq Extensions
  BY DEF Texts
<1>2. Toggled(text, t) = [text EXCEPT !.on = on]
  BY DEF Toggled, Texts
<1> HIDE DEF on
<1> QED
  BY <1>1, <1>2 DEF Texts

(* Every way a thread's task is replaced keeps the type of task. *)
LEMMA TaskUpdate ==
  ASSUME FilesTypeOK, NEW w \in Workers, NEW t \in Tasks, task' = [task EXCEPT ![w] = t]
  PROVE  /\ task' \in [Workers -> Tasks]
         /\ task'[w] = t /\ \A x \in Workers : x # w => task'[x] = task[x]
BY DEF FilesTypeOK

PCs == {"idle", "path", "read", "open", "flush", "close", "status", "drop", "dropping",
        "spawn", "wait", "save", "saving", "record", "recording", "emit"}

LEMMA GoTyped ==
  ASSUME FilesTypeOK, NEW w \in Workers, NEW pc \in PCs, Go(w, pc)
  PROVE  /\ task' \in [Workers -> Tasks]
         /\ task'[w] = [task[w] EXCEPT !.pc = pc]
         /\ \A x \in Workers : x # w => task'[x] = task[x]
<1> DEFINE t == [task[w] EXCEPT !.pc = pc]
<1>1. task[w] \in Tasks
  BY DEF FilesTypeOK
<1>2. t \in Tasks
  BY <1>1 DEF Tasks, PCs
<1>3. task' = [task EXCEPT ![w] = t]
  BY DEF Go, FilesTypeOK
<1> QED
  BY <1>2, <1>3, TaskUpdate

LEMMA EndsTyped ==
  ASSUME FilesTypeOK, NEW w \in Workers, Ends(w)
  PROVE  /\ task' \in [Workers -> Tasks]
         /\ task'[w] = NoTask
         /\ \A x \in Workers : x # w => task'[x] = task[x]
BY NoTaskTyped, TaskUpdate DEF Ends

PhpTypes ==
  [state : {"down", "starting", "up"}, ver : Versions, loaded : Texts, by : Workers \cup {Nothing}]

LEMMA PhpDownTyped == PhpDown \in PhpTypes
BY EmptiedTyped, ConfigFilesAssumption DEF PhpDown, PhpTypes

EditorTypes ==
  [svc : {"php"}, text : Texts, path : Versions \cup {Nothing}]
    \cup [svc : Editable \ {"php"}, text : Contents, path : {Nothing}]

LEMMA LoadedTyped ==
  ASSUME TypeOK, FilesTypeOK, NEW svc \in Editable
  PROVE  Loaded(svc) \in EditorTypes
<1>1. CASE svc = "php"
  <2>1. ini[get_current_php_version] \in Texts
    BY CurrentTyped DEF FilesTypeOK
  <2> QED
    BY <1>1, <2>1 DEF Loaded, EditorTypes
<1>2. CASE svc # "php"
  <2>1. ConfigFile[svc] \in Files
    BY <1>2 DEF Editable, ConfigFile, Files
  <2>2. file[ConfigFile[svc]] \in Contents
    BY <2>1 DEF TypeOK
  <2> QED
    BY <1>2, <2>2 DEF Loaded, EditorTypes
<1> QED
  BY <1>1, <1>2

LEMMA UnloadedTyped == ASSUME NEW svc \in Editable PROVE Unloaded(svc) \in EditorTypes
BY EmptyTyped, EmptiedTyped DEF Unloaded, EditorTypes

LEMMA EditedTyped ==
  ASSUME NEW text \in Texts, NEW new \in Edited(text)
  PROVE  new \in Texts /\ new.of = text.of
<1>1. PICK has \in SUBSET text.has, on \in SUBSET text.has :
        new = [of |-> text.of, has |-> has, on |-> has \cap on]
  BY DEF Edited
<1> QED
  BY <1>1 DEF Texts

Excuses == {"rewrite", "list", "kill", "error"}

LEMMA FilesInitType == FilesInit => FilesTypeOK
<1> SUFFICES ASSUME FilesInit PROVE FilesTypeOK
  OBVIOUS
<1>1. ini \in [Versions -> Texts]
  BY WholeTyped DEF FilesInit
<1>2. editor \in EditorTypes
  BY <1>1 DEF FilesInit, EditorTypes
<1>3. php \in PhpTypes
  BY PhpDownTyped DEF FilesInit
<1>4. task \in [Workers -> Tasks]
  BY NoTaskTyped DEF FilesInit
<1> QED
  BY <1>1, <1>2, <1>3, <1>4 DEF FilesInit, FilesTypeOK, EditorTypes, PhpTypes

(* The part of FilesTypeOK that a thread can disturb. *)
LEMMA ThreadTyped ==
  ASSUME FilesTypeOK, UNCHANGED <<windowVars, asked, crossed>>,
         unread' \subseteq Versions, races' \subseteq Excuses, ini' \in [Versions -> Texts],
         entry' \in Versions \cup {Nothing}, php' \in PhpTypes, task' \in [Workers -> Tasks]
  PROVE  FilesTypeOK'
BY DEF windowVars, FilesTypeOK, PhpTypes, Excuses

LEMMA AfterDropTyped ==
  ASSUME FilesTypeOK, NEW w \in Workers, AfterDrop(w)
  PROVE  /\ task' \in [Workers -> Tasks]
         /\ task'[w].pc \in {"idle", "spawn"}
         /\ \A x \in Workers : x # w => task'[x] = task[x]
<1>1. CASE task[w].kind = "stop"
  BY <1>1, EndsTyped DEF AfterDrop, NoTask
<1>2. CASE task[w].kind # "stop"
  <2> DEFINE t == [task[w] EXCEPT !.snap = Nothing, !.pc = "spawn"]
  <2>1. t \in Tasks /\ t.pc = "spawn"
    BY DEF FilesTypeOK, Tasks
  <2>2. task' = [task EXCEPT ![w] = t]
    BY <1>2 DEF AfterDrop, FilesTypeOK
  <2> HIDE DEF t
  <2> QED
    BY <2>1, <2>2, TaskUpdate
<1> QED
  BY <1>1, <1>2

LEMMA AfterEntryTyped ==
  ASSUME FilesTypeOK, NEW w \in Workers, AfterEntry(w)
  PROVE  /\ task' \in [Workers -> Tasks]
         /\ task'[w].pc \in {"idle", "status"}
         /\ \A x \in Workers : x # w => task'[x] = task[x]
<1>1. CASE Ends(w)
  BY <1>1, EndsTyped DEF NoTask
<1>2. CASE Go(w, "status")
  <2>1. /\ task' \in [Workers -> Tasks] /\ task'[w] = [task[w] EXCEPT !.pc = "status"]
        /\ \A x \in Workers : x # w => task'[x] = task[x]
    BY <1>2, GoTyped DEF PCs
  <2> QED
    BY <2>1 DEF FilesTypeOK, Tasks
<1> QED
  BY <1>1, <1>2 DEF AfterEntry

(* A step that fails ends the thread or has it go on with what follows. *)
LEMMA ThreadFailsTyped ==
  ASSUME FilesTypeOK, NEW w \in Workers, ThreadFails(w)
  PROVE  /\ task' \in [Workers -> Tasks]
         /\ task'[w].pc \in {"idle", "emit", "spawn", "status"}
         /\ \A x \in Workers : x # w => task'[x] = task[x]
<1>1. CASE Ends(w)
  BY <1>1, EndsTyped DEF NoTask
<1>2. CASE Go(w, "emit")
  <2>1. /\ task' \in [Workers -> Tasks] /\ task'[w] = [task[w] EXCEPT !.pc = "emit"]
        /\ \A x \in Workers : x # w => task'[x] = task[x]
    BY <1>2, GoTyped DEF PCs
  <2> QED
    BY <2>1 DEF FilesTypeOK, Tasks
<1> QED
  BY <1>1, <1>2, AfterDropTyped, AfterEntryTyped DEF ThreadFails

LEMMA ThreadStepType ==
  ASSUME FilesTypeOK, NEW w \in Workers, ThreadStep(w)
  PROVE  FilesTypeOK'
<1>h. OnlyThread => /\ UNCHANGED <<windowVars, asked, crossed>>
                    /\ unread' \subseteq Versions /\ races' \subseteq Excuses
  BY DEF OnlyThread, history, FilesTypeOK, Excuses
<1>0. /\ ini \in [Versions -> Texts] /\ entry \in Versions \cup {Nothing}
      /\ php \in PhpTypes /\ task \in [Workers -> Tasks] /\ active \in Versions
  BY DEF FilesTypeOK, PhpTypes
<1>t. /\ task[w] \in Tasks /\ task[w].ver \in Versions
      /\ task[w].buf \in Texts /\ task[w].ext \in Extensions \cup {Nothing}
  BY <1>0 DEF Tasks
<1>i. \A v \in Versions : ini[v] \in Texts
  BY <1>0
<1>1. CASE Path(w)
  <2> DEFINE t == [task[w] EXCEPT !.ver = get_current_php_version, !.pc = "read"]
  <2>1. t \in Tasks
    BY <1>t, CurrentTyped DEF Tasks
  <2>2. task' = [task EXCEPT ![w] = t]
    BY <1>0, <1>h, <1>1 DEF Path
  <2> QED
    BY <1>0, <1>h, <1>1, <2>1, <2>2, TaskUpdate, ThreadTyped DEF Path, phpVars
<1>2. CASE ReadIni(w)
  <2> DEFINE text == ini[task[w].ver]
  <2>1. text \in Texts
    BY <1>t, <1>i
  <2>2. task' \in [Workers -> Tasks]
    <3>1. CASE task' = [task EXCEPT ![w].buf = text, ![w].pc = "emit"]
      <4> DEFINE t == [task[w] EXCEPT !.buf = text, !.pc = "emit"]
      <4>1. t \in Tasks
        BY <1>t, <2>1 DEF Tasks
      <4>2. task' = [task EXCEPT ![w] = t]
        BY <1>0, <3>1
      <4> QED
        BY <4>1, <4>2, TaskUpdate
    <3>2. CASE /\ task[w].ext \in text.has
               /\ task' = [task EXCEPT ![w].buf = Toggled(text, task[w]), ![w].pc = "open"]
      <4>1. PICK new : new = Toggled(text, task[w])
        OBVIOUS
      <4>2. new \in Texts
        <5>1. task[w].ext \in Extensions
          BY <2>1, <3>2 DEF Texts
        <5> QED
          BY <2>1, <4>1, <5>1, ToggledTyped
      <4> DEFINE t == [task[w] EXCEPT !.buf = new, !.pc = "open"]
      <4>3. t \in Tasks
        BY <1>t, <4>2 DEF Tasks
      <4>4. task' = [task EXCEPT ![w] = t]
        BY <1>0, <3>2, <4>1
      <4> QED
        BY <4>3, <4>4, TaskUpdate
    <3>3. CASE Ends(w)
      BY <3>3, EndsTyped
    <3> QED
      BY <1>2, <3>1, <3>2, <3>3 DEF ReadIni
  <2> QED
    BY <1>0, <1>h, <1>2, <2>2, ThreadTyped DEF ReadIni, phpVars
<1>3. CASE OpenIni(w)
  <2>1. task' \in [Workers -> Tasks]
    BY <1>3, GoTyped DEF OpenIni, PCs
  <2>2. ini' \in [Versions -> Texts]
    BY <1>0, <1>h, <1>3, EmptiedTyped DEF OpenIni
  <2> QED
    BY <1>0, <1>h, <1>3, <2>1, <2>2, ThreadTyped DEF OpenIni
<1>4. CASE FlushIni(w)
  <2>1. task' \in [Workers -> Tasks]
    BY <1>4, GoTyped DEF FlushIni, PCs
  <2>2. PICK S \in SUBSET task[w].buf.has :
          ini' = [ini EXCEPT ![task[w].ver] =
                    [of |-> task[w].buf.of, has |-> S, on |-> S \cap task[w].buf.on]]
    BY <1>4 DEF FlushIni
  <2>3. [of |-> task[w].buf.of, has |-> S, on |-> S \cap task[w].buf.on] \in Texts
    BY <1>t DEF Texts
  <2>4. ini' \in [Versions -> Texts]
    BY <1>0, <2>2, <2>3
  <2> QED
    BY <1>0, <1>h, <1>4, <2>1, <2>4, ThreadTyped DEF FlushIni
<1>5. CASE CloseIni(w)
  <2> DEFINE t == [task[w] EXCEPT !.buf = Emptied, !.pc = "status"]
  <2>1. t \in Tasks
    BY <1>t, EmptiedTyped DEF Tasks
  <2>2. task' = [task EXCEPT ![w] = t]
    BY <1>0, <1>h, <1>5 DEF CloseIni
  <2>3. ini' \in [Versions -> Texts]
    BY <1>0, <1>h, <1>t, <1>5 DEF CloseIni
  <2> QED
    BY <1>0, <1>h, <1>5, <2>1, <2>2, <2>3, TaskUpdate, ThreadTyped DEF CloseIni
<1>6. CASE Restart(w)
  <2>1. task' \in [Workers -> Tasks]
    BY <1>6, GoTyped, EndsTyped DEF Restart, PCs
  <2>2. php' \in PhpTypes
    BY <1>0, <1>h, <1>6, PhpDownTyped DEF Restart
  <2> QED
    BY <1>0, <1>h, <1>6, <2>1, <2>2, ThreadTyped DEF Restart
<1>7. CASE OpenDrop(w)
  <2> DEFINE t == [task[w] EXCEPT !.snap = entry, !.pc = "dropping"]
  <2>1. t \in Tasks
    BY <1>0, <1>h, <1>t DEF Tasks
  <2>2. task' = [task EXCEPT ![w] = t]
    BY <1>0, <1>h, <1>7 DEF OpenDrop
  <2> QED
    BY <1>0, <1>h, <1>7, <2>1, <2>2, TaskUpdate, ThreadTyped DEF OpenDrop
<1>12. CASE WriteDrop(w)
  <2>1. task[w].snap \in Versions \cup {Nothing}
    BY <1>t DEF Tasks
  <2> QED
    BY <1>0, <1>h, <1>12, <2>1, AfterDropTyped, ThreadTyped DEF WriteDrop
<1>8. CASE SpawnPhp(w)
  <2>1. Chosen(w) \in Versions
    BY <1>0, <1>h, <1>t DEF Chosen
  <2>2. PICK v \in Versions : v = Chosen(w)
    BY <2>1
  <2> DEFINE t   == [task[w] EXCEPT !.ver = v, !.pc = "wait"]
             new == [state |-> "starting", ver |-> v, loaded |-> ini[v], by |-> w]
  <2>3. t \in Tasks
    BY <1>t DEF Tasks
  <2>4. new \in PhpTypes
    BY <1>i DEF PhpTypes
  <2>5. /\ UNCHANGED <<ini, entry, windowVars, asked, crossed, races>>
        /\ unread' \subseteq Versions /\ races' \subseteq Excuses
    BY <1>8 DEF SpawnPhp, FilesTypeOK, Excuses
  <2>6. CASE php.state = "up"
    BY <1>0, <1>8, <2>5, <2>6, EndsTyped, ThreadTyped DEF SpawnPhp
  <2>7. CASE php.state # "up"
    <3>1. php' \in {new, php} /\ task' = [task EXCEPT ![w] = t]
      BY <1>0, <1>8, <2>2, <2>7 DEF SpawnPhp
    <3>2. task' \in [Workers -> Tasks]
      BY <2>3, <3>1, TaskUpdate
    <3>3. php' \in PhpTypes
      BY <1>0, <2>4, <3>1
    <3> QED
      BY <1>0, <2>5, <3>2, <3>3, ThreadTyped
  <2> QED
    BY <2>6, <2>7
<1>9. CASE WaitPhp(w)
  <2>1. task' \in [Workers -> Tasks]
    BY <1>9, GoTyped, EndsTyped DEF WaitPhp, PCs
  <2>2. php' \in PhpTypes
    BY <1>0, <1>h, <1>9, PhpDownTyped DEF WaitPhp
  <2> QED
    BY <1>0, <1>h, <1>9, <2>1, <2>2, ThreadTyped DEF WaitPhp
<1>10. CASE OpenEntry(w)
  <2>1. task' \in [Workers -> Tasks]
    BY <1>10, GoTyped DEF OpenEntry, PCs
  <2> QED
    BY <1>0, <1>h, <1>10, <2>1, ThreadTyped DEF OpenEntry
<1>11. CASE WriteEntry(w)
  <2>1. task' \in [Workers -> Tasks]
    BY <1>11, AfterEntryTyped DEF WriteEntry
  <2> QED
    BY <1>0, <1>h, <1>t, <1>11, <2>1, ThreadTyped DEF WriteEntry
<1>13. CASE ThreadFails(w)
  <2>1. UNCHANGED <<phpVars, windowVars, asked, unread, crossed>> /\ races' \subseteq Excuses
    BY <1>13 DEF ThreadFails, FilesTypeOK, Excuses
  <2>2. unread' \subseteq Versions
    BY <2>1 DEF FilesTypeOK
  <2> QED
    BY <1>0, <1>13, <2>1, <2>2, ThreadFailsTyped, ThreadTyped DEF phpVars
<1> QED
  BY <1>1, <1>2, <1>3, <1>4, <1>5, <1>6, <1>7, <1>8, <1>9, <1>10, <1>11, <1>12,
     <1>13 DEF ThreadStep

LEMMA RacesTyped == ASSUME NEW kind PROVE Races(kind) \subseteq Excuses
BY DEF Races, Excuses

(* A press of a button starts a thread and leaves the editor alone. *)
LEMMA PressTyped ==
  ASSUME FilesTypeOK, NEW w \in Workers, NEW t \in Tasks, Press(w, t),
         active' \in Versions, tab' \in {"extensions", "another"},
         boxes' \in Texts \cup {Nothing}, asked' \in [Versions -> Texts]
  PROVE  FilesTypeOK'
<1>1. task' \in [Workers -> Tasks]
  BY TaskUpdate DEF Press
<1>2. races' \subseteq Excuses
  BY RacesTyped DEF Press, FilesTypeOK, Excuses
<1> QED
  BY <1>1, <1>2 DEF Press, phpVars, FilesTypeOK, Excuses

LEMMA WindowStepType ==
  ASSUME FilesTypeOK, NEW w \in Workers,
         \/ load_extensions_list(w) \/ display_extensions_list(w) \/ TogglePhp(w)
         \/ \E x \in Extensions : toggle_extension(w, x)
         \/ \E v \in Versions : change_php_version(w, v)
  PROVE  FilesTypeOK'
<1>0. /\ active \in Versions /\ boxes \in Texts \cup {Nothing} /\ task[w] \in Tasks
      /\ asked \in [Versions -> Texts]
  BY DEF FilesTypeOK
<1>1. CASE load_extensions_list(w)
  <2>1. [NoTask EXCEPT !.kind = "list", !.pc = "path"] \in Tasks
    BY NoTaskTyped DEF Tasks
  <2> QED
    BY <1>0, <1>1, <2>1, PressTyped DEF load_extensions_list
<1>2. CASE display_extensions_list(w)
  <2>1. task' \in [Workers -> Tasks]
    BY <1>2, EndsTyped DEF display_extensions_list
  <2>2. boxes' \in Texts
    BY <1>0, <1>2 DEF display_extensions_list, Tasks
  <2> QED
    BY <1>2, <2>1, <2>2 DEF display_extensions_list, phpVars, history, FilesTypeOK
<1>3. CASE TogglePhp(w)
  <2>1. /\ [NoTask EXCEPT !.kind = "stop", !.pc = "status"] \in Tasks
        /\ [NoTask EXCEPT !.kind = "start", !.pc = "spawn"] \in Tasks
    BY NoTaskTyped DEF Tasks
  <2> QED
    BY <1>0, <1>3, <2>1, PressTyped DEF TogglePhp
<1>4. ASSUME NEW x \in Extensions, toggle_extension(w, x) PROVE FilesTypeOK'
  <2> DEFINE t == [NoTask EXCEPT !.kind = "toggle", !.pc = "path", !.ext = x,
                                 !.on = x \notin boxes.on]
  <2>1. t \in Tasks /\ t.ext \in Extensions
    BY NoTaskTyped DEF Tasks
  <2>2. /\ boxes # Nothing /\ boxes' = Toggled(boxes, t) /\ Press(w, t)
        /\ asked' = [asked EXCEPT ![active] = Toggled(@, t)]
        /\ UNCHANGED <<active, tab>>
    BY <1>4 DEF toggle_extension
  <2>3. boxes' \in Texts
    BY <1>0, <2>1, <2>2, ToggledTyped
  <2>4. asked' \in [Versions -> Texts]
    <3>1. Toggled(asked[active], t) \in Texts
      BY <1>0, <2>1, ToggledTyped
    <3> QED
      BY <1>0, <2>2, <3>1
  <2>5. tab' \in {"extensions", "another"}
    BY <2>2 DEF FilesTypeOK
  <2> HIDE DEF t
  <2> QED
    BY <1>0, <2>1, <2>2, <2>3, <2>4, <2>5, PressTyped
<1>5. ASSUME NEW v \in Versions, change_php_version(w, v) PROVE FilesTypeOK'
  <2>1. [NoTask EXCEPT !.kind = "version", !.pc = "save", !.ver = v] \in Tasks
    BY NoTaskTyped DEF Tasks
  <2> QED
    BY <1>0, <1>5, <2>1, PressTyped DEF change_php_version
<1> QED
  BY <1>1, <1>2, <1>3, <1>4, <1>5

LEMMA LaunchedTyped ==
  ASSUME TypeOK, FilesTypeOK, Launched, php' \in PhpTypes,
         races' \subseteq Excuses
  PROVE  FilesTypeOK'
<1>1. active' \in Versions
  BY CurrentTyped DEF Launched
<1>2. editor' \in EditorTypes
  BY LoadedTyped DEF Launched, Editable
<1>3. task' \in [Workers -> Tasks]
  BY NoTaskTyped DEF Launched
<1> QED
  BY <1>1, <1>2, <1>3 DEF Launched, FilesTypeOK, EditorTypes, PhpTypes, Excuses

LEMMA FilesNextType == TypeInv /\ FilesTypeOK /\ [FilesNext]_filesVars => FilesTypeOK'
<1> SUFFICES ASSUME TypeInv, FilesTypeOK, [FilesNext]_filesVars PROVE FilesTypeOK'
  OBVIOUS
<1>0. TypeOK
  BY DEF TypeInv
<1>1. CASE UNCHANGED <<phpVars, windowVars, task, history>>
  BY <1>1 DEF phpVars, windowVars, history, FilesTypeOK
<1>2. ASSUME NEW A, PortsPress(A) PROVE FilesTypeOK'
  BY <1>2 DEF PortsPress, phpVars, history, FilesTypeOK
<1>3. CASE BindPhp
  <2>1. php' \in PhpTypes
    BY <1>3 DEF BindPhp, FilesTypeOK, PhpTypes
  <2>2. /\ UNCHANGED <<windowVars, asked, crossed>>
        /\ unread' \subseteq Versions /\ races' \subseteq Excuses
    BY <1>3 DEF BindPhp, OnlyThread, history, FilesTypeOK, Excuses
  <2> QED
    BY <1>3, <2>1, <2>2, ThreadTyped DEF BindPhp, FilesTypeOK
<1>4. ASSUME NEW svc \in Editable, load_config_content(svc) PROVE FilesTypeOK'
  <2>1. editor' \in EditorTypes
    BY <1>0, <1>4, LoadedTyped, UnloadedTyped DEF load_config_content
  <2> QED
    BY <1>4, <2>1 DEF load_config_content, phpVars, history, FilesTypeOK, EditorTypes
<1>5. ASSUME NEW text \in Contents, save_config_content(text) \/ SaveFails(text) PROVE FilesTypeOK'
  <2>1. /\ editor.svc # "php" /\ tab' = "another" /\ editor' = [editor EXCEPT !.text = text]
        /\ UNCHANGED <<phpVars, active, boxes, task, history>>
    BY <1>5 DEF save_config_content, SaveFails, SaveServerFile
  <2>2. editor' \in EditorTypes
    BY <2>1 DEF FilesTypeOK, EditorTypes
  <2> QED
    BY <2>1, <2>2 DEF phpVars, history, FilesTypeOK, EditorTypes
<1>6. CASE OpenByEditor
  <2>1. PICK v \in Versions : v = get_current_php_version
    BY CurrentTyped
  <2>2. PICK text \in Edited(editor.text) :
          /\ editor' = [editor EXCEPT !.text = text, !.path = v]
          /\ ini' = [ini EXCEPT ![v] = Emptied]
          /\ asked' = [asked EXCEPT ![v] = text]
          /\ unread' \subseteq unread \cup {v}
          /\ races' \subseteq races \cup {"rewrite", "list"}
    BY <1>6, <2>1 DEF OpenByEditor
  <2>3. text \in Texts
    BY <1>6, EditedTyped DEF OpenByEditor, FilesTypeOK
  <2>4. editor' \in EditorTypes
    BY <1>6, <2>2, <2>3 DEF OpenByEditor, FilesTypeOK, EditorTypes
  <2>5. ini' \in [Versions -> Texts] /\ asked' \in [Versions -> Texts]
    BY <2>2, <2>3, EmptiedTyped DEF FilesTypeOK
  <2>6. races' \subseteq Excuses /\ unread' \subseteq Versions
    BY <2>2 DEF FilesTypeOK, Excuses
  <2> QED
    BY <1>6, <2>4, <2>5, <2>6 DEF OpenByEditor, FilesTypeOK, EditorTypes, Excuses
<1>13. CASE WriteByEditorFails
  <2>1. editor' \in EditorTypes
    BY <1>13 DEF WriteByEditorFails, FilesTypeOK, EditorTypes
  <2> QED
    BY <1>13, <2>1 DEF WriteByEditorFails, phpVars, FilesTypeOK, EditorTypes
<1>7. CASE WriteByEditor
  <2>1. editor.path \in Versions /\ editor.text \in Texts
    BY <1>7 DEF WriteByEditor, FilesTypeOK
  <2>2. editor' \in EditorTypes
    BY <1>7, <2>1 DEF WriteByEditor, FilesTypeOK, EditorTypes
  <2>3. ini' \in [Versions -> Texts]
    BY <1>7, <2>1 DEF WriteByEditor, FilesTypeOK
  <2>4. crossed' \subseteq Versions
    BY <1>7, <2>1 DEF WriteByEditor, FilesTypeOK
  <2> QED
    BY <1>7, <2>2, <2>3, <2>4 DEF WriteByEditor, FilesTypeOK, EditorTypes
<1>8. [php EXCEPT !.by = Nothing] \in PhpTypes
  BY DEF FilesTypeOK, PhpTypes
<1>9. CASE Killed
  BY <1>0, <1>8, <1>9, LaunchedTyped DEF Killed, FilesTypeOK, Excuses
<1>10. CASE KilledInSave
  BY <1>0, <1>8, <1>10, LaunchedTyped DEF KilledInSave, FilesTypeOK, Excuses
<1>11. CASE Reopened
  BY <1>0, <1>11, PhpDownTyped, LaunchedTyped DEF Reopened, FilesTypeOK, Excuses
<1>12. CASE FilesQuiet \/ UNCHANGED filesVars
  BY <1>1, <1>12 DEF FilesQuiet, filesVars
<1> QED
  BY <1>1, <1>2, <1>3, <1>4, <1>5, <1>6, <1>7, <1>9, <1>10, <1>11, <1>12, <1>13,
     ThreadStepType, WindowStepType DEF FilesNext

-----------------------------------------------------------------------------
(* FilesFollowPorts beside the editor *)

(* Only the clock of the bound moves. *)
LEMMA IdleFollows == FollowInv /\ PortsIdle => FollowInv'
<1> SUFFICES ASSUME FollowInv, PortsIdle PROVE FollowInv'
  OBVIOUS
<1>0. UNCHANGED <<PORTS, portsFile, file, saving, job, harmed, mending>>
  BY DEF PortsIdle
<1>1. events' \in 0..MaxEvents
  BY PortSettingsAssumption DEF FollowInv, TypeInv, TypeOK, PortsIdle
<1>2. TypeInv'
  BY <1>0, <1>1 DEF FollowInv, TypeInv, TypeOK
<1>3. SaveInv'
  BY <1>0, SaveStays DEF FollowInv
<1>4. ASSUME NEW f \in Files, f \notin harmed' PROVE Calm(f, FALSE)'
  <2>1. Calm(f, FALSE) /\ FALSE \in BOOLEAN
    BY <1>0, <1>4 DEF FollowInv
  <2> QED
    BY <1>0, <2>1, StillCalm
<1> QED
  BY <1>2, <1>3, <1>4 DEF FollowInv

(* What a save of the editor does to the ports: one file has the text, and *)
(* is harmed unless it is what the file says already.                      *)
LEMMA SaveDisturbs ==
  ASSUME TypeOK, FilesTypeOK, NEW text \in Contents, save_config_content(text) \/ SaveFails(text)
  PROVE  \E f \in Files, written \in Contents, fs \in SUBSET Files :
           /\ file' = [file EXCEPT ![f] = written]
           /\ f \in fs \/ written = file[f]
           /\ Harm(fs)
           /\ events' = events + 1 /\ events < MaxEvents
           /\ UNCHANGED <<PORTS, portsFile, saving, job>>
<1> DEFINE f == ConfigFile[editor.svc]
<1>1. f \in Files
  BY DEF save_config_content, SaveFails, SaveServerFile, FilesTypeOK, Editable, ConfigFile, Files
<1>2. CASE save_config_content(text)
  <2>1. Disturbed(f, text) \in SUBSET Files /\ (f \in Disturbed(f, text) \/ text = file[f])
    BY <1>1 DEF Disturbed
  <2> HIDE DEF f
  <2> QED
    BY <1>1, <1>2, <2>1 DEF save_config_content, SaveServerFile, f
<1>3. CASE SaveFails(text)
  <2>1. {f} \in SUBSET Files /\ f \in {f}
    BY <1>1
  <2> HIDE DEF f
  <2> QED
    BY <1>1, <1>3, <2>1, EmptyTyped DEF SaveFails, SaveServerFile, f
<1> QED
  BY <1>2, <1>3

LEMMA SaveFollows ==
  ASSUME FollowInv, FilesTypeOK,
         NEW text \in Contents, save_config_content(text) \/ SaveFails(text)
  PROVE  FollowInv'
<1>0. TypeInv /\ TypeOK /\ file \in [Files -> Contents]
  BY DEF FollowInv, TypeInv, TypeOK
<1>1. PICK f \in Files, written \in Contents, fs \in SUBSET Files :
        /\ file' = [file EXCEPT ![f] = written]
        /\ f \in fs \/ written = file[f]
        /\ Harm(fs)
        /\ events' = events + 1 /\ events < MaxEvents
        /\ UNCHANGED <<PORTS, portsFile, saving, job>>
  BY <1>0, SaveDisturbs
<1>2. TypeInv'
  <2>1. file' \in [Files -> Contents]
    BY <1>0, <1>1
  <2>2. events' \in 0..MaxEvents
    BY <1>0, <1>1, PortSettingsAssumption DEF TypeOK
  <2>3. harmed' \subseteq Harmable /\ mending' \in {"no", "begun", "done"}
    BY <1>0, <1>1, HarmTyped DEF Harmable
  <2> QED
    BY <1>0, <1>1, <2>1, <2>2, <2>3 DEF TypeInv, TypeOK, Harmable
<1>3. SaveInv'
  BY <1>1, SaveStays DEF FollowInv, Harm
<1>4. ASSUME NEW g \in Files, g \notin harmed' PROVE Calm(g, FALSE)'
  <2>1. Calm(g, FALSE) /\ FALSE \in BOOLEAN
    BY <1>1, <1>4 DEF FollowInv, Harm
  <2>2. file'[g] = file[g]
    BY <1>0, <1>1, <1>4 DEF Harm
  <2> QED
    BY <1>1, <2>1, <2>2, StillCalm
<1> QED
  BY <1>2, <1>3, <1>4 DEF FollowInv

LEMMA KilledInSaveFollows ==
  ASSUME FollowInv, FilesTypeOK, KilledInSave
  PROVE  FollowInv'
<1> DEFINE f == ConfigFile[editor.svc]
<1>0. TypeInv /\ TypeOK /\ file \in [Files -> Contents]
  BY DEF FollowInv, TypeInv, TypeOK
<1>1. f \in Files
  BY DEF KilledInSave, FilesTypeOK, Editable, ConfigFile, Files
<1>2. /\ file' = [file EXCEPT ![f] = Empty]
      /\ PORTS' = load_ports /\ job' = [w \in Workers |-> NoJob]
      /\ harmed' = HarmedNext \cup {f} /\ mending' = "no"
      /\ events' = events + 1 /\ events < MaxEvents
      /\ ~saving /\ UNCHANGED <<portsFile, saving>>
  BY DEF KilledInSave, WindowFree
<1> HIDE DEF f
<1>3. TypeInv'
  <2>1. file' \in [Files -> Contents]
    BY <1>0, <1>1, <1>2, EmptyTyped
  <2>2. PORTS' \in Settings
    BY <1>0, <1>2, PortSettingsAssumption DEF load_ports, TypeOK
  <2>3. job' \in [Workers -> Jobs] /\ \A w \in Workers : Formed(job'[w])
    BY <1>2, NoJobTyped DEF NoJob, Formed
  <2>4. events' \in 0..MaxEvents
    BY <1>0, <1>2, PortSettingsAssumption DEF TypeOK
  <2>5. harmed' \subseteq Harmable
    BY <1>0, <1>1, <1>2, UnfinishedTyped DEF HarmedNext, Harmable, TypeOK
  <2> QED
    BY <1>0, <1>2, <2>1, <2>2, <2>3, <2>4, <2>5 DEF TypeInv, TypeOK, Harmable
<1>4. SaveInv'
  BY <1>2 DEF SaveInv, load_ports
<1>5. ASSUME NEW g \in Files, g \notin harmed' PROVE Calm(g, FALSE)'
  <2>1. g # f /\ g # "ports_config.json" /\ g \notin HarmedNext
    BY <1>2, <1>5 DEF Files
  <2>2. g \notin Unfinished /\ load_ports = PORTS /\ g \notin harmed
    BY <2>1 DEF HarmedNext
  <2>3. file'[g] = file[g] /\ Calm(g, FALSE) /\ FALSE \in BOOLEAN
    BY <1>0, <1>2, <2>1, <2>2 DEF FollowInv
  <2> QED
    BY <1>0, <1>2, <2>2, <2>3, RestartCalm
<1> QED
  BY <1>3, <1>4, <1>5 DEF FollowInv

FilesInv == FollowInv /\ FilesTypeOK

LEMMA FilesInitInv == FilesInit => FilesInv
BY FilesInitType, InitFollows DEF FilesInit, FilesInv

LEMMA FilesNextInv == FilesInv /\ [FilesNext]_filesVars => FilesInv'
<1> SUFFICES ASSUME FilesInv, [FilesNext]_filesVars PROVE FilesInv'
  OBVIOUS
<1>1. FollowInv /\ FilesTypeOK /\ TypeInv
  BY DEF FilesInv, FollowInv
<1>2. FilesTypeOK'
  BY <1>1, FilesNextType
<1>3. FollowInv'
  BY <1>1, StepSides, NextFollows, IdleFollows, SaveFollows, KilledInSaveFollows
<1> QED
  BY <1>2, <1>3 DEF FilesInv

(* The variables of both modules keep their types, whatever the two tabs,  *)
(* the editor, the threads and a kill of the program do.                   *)
THEOREM FilesTypeCorrect == FilesSpec => [](TypeOK /\ FilesTypeOK)
<1>1. FilesInv => TypeOK /\ FilesTypeOK
  BY DEF FilesInv, FollowInv, TypeInv
<1> QED
  BY <1>1, FilesInitInv, FilesNextInv, PTL DEF FilesSpec

(* The servers' files follow the ports beside the editor, too, whatever    *)
(* the user makes of a file there: a save harms the file it gives another  *)
(* text, or that a thread is at work on, and no other file                 *)
(* (save_config_content, app.py 2276-2290).                                *)
THEOREM ConfigurationsAgreeBesideEditor == FilesSpec => []FilesFollowPorts
<1>1. FilesInv => FilesFollowPorts
  BY FollowImplies DEF FilesInv
<1> QED
  BY <1>1, FilesInitInv, FilesNextInv, PTL DEF FilesSpec

-----------------------------------------------------------------------------
(* IniKeepsVersion.  A php.ini gets its text from a toggle or the editor;  *)
(* what a toggle carries was read from the file it will write, for it asks *)
(* for the path once.                                                      *)

Carries(w) ==
  /\ task[w].pc \in {"open", "flush", "close"}
  /\ task[w].ver \notin crossed

OwnText ==
  /\ IniKeepsVersion
  /\ \A w \in Workers : Carries(w) => task[w].buf.of \in {task[w].ver, Nothing}

(* A thread that does not move keeps what it carries. *)
LEMMA OthersCarry ==
  ASSUME OwnText, NEW x \in Workers, task'[x] = task[x], crossed \subseteq crossed', Carries(x)'
  PROVE  task'[x].buf.of \in {task'[x].ver, Nothing}
BY DEF OwnText, Carries

(* A step after which nobody new has a text in hand. *)
LEMMA NobodyNew ==
  ASSUME OwnText, crossed \subseteq crossed',
         \A w \in Workers : task'[w] = task[w] \/ task'[w].pc \notin {"open", "flush", "close"}
  PROVE  \A w \in Workers : Carries(w)' => task'[w].buf.of \in {task'[w].ver, Nothing}
<1> TAKE w \in Workers
<1>1. CASE task'[w] = task[w]
  BY <1>1, OthersCarry
<1>2. CASE task'[w].pc \notin {"open", "flush", "close"}
  BY <1>2 DEF Carries
<1> QED
  BY <1>1, <1>2

LEMMA ThreadStepOwn ==
  ASSUME FilesTypeOK, OwnText, NEW w \in Workers, ThreadStep(w)
  PROVE  OwnText'
<1>0. /\ ini \in [Versions -> Texts] /\ task \in [Workers -> Tasks]
      /\ task[w] \in Tasks /\ task[w].ver \in Versions
  BY DEF FilesTypeOK, Tasks
<1>c. crossed' = crossed
  BY DEF ThreadStep, Path, ReadIni, OpenIni, FlushIni, CloseIni, Restart, OpenDrop, WriteDrop, SpawnPhp,
         WaitPhp, OpenEntry, WriteEntry, ThreadFails, OnlyThread, history
<1>1. CASE ReadIni(w) /\ task'[w].pc = "open"
  <2> DEFINE text == ini[task[w].ver]
  <2>1. text \in Texts
    BY <1>0
  <2>2. /\ task[w].ext \in text.has /\ ini' = ini
        /\ task' = [task EXCEPT ![w].buf = Toggled(text, task[w]), ![w].pc = "open"]
    <3>1. task'[w].pc # "emit" /\ ini' = ini
      BY <1>1 DEF ReadIni, phpVars
    <3>2. ASSUME task' = [task EXCEPT ![w].buf = text, ![w].pc = "emit"]
          PROVE  FALSE
      <4>1. PICK new : new = text
        OBVIOUS
      <4>2. task' = [task EXCEPT ![w] = [task[w] EXCEPT !.buf = new, !.pc = "emit"]]
        BY <1>0, <3>2, <4>1
      <4>3. task'[w] = [task[w] EXCEPT !.buf = new, !.pc = "emit"]
        BY <1>0, <4>2
      <4>4. task'[w].pc = "emit"
        BY <1>0, <4>3 DEF Tasks
      <4> QED
        BY <3>1, <4>4
    <3>3. ~Ends(w)
      BY <1>0, <1>1, EndsTyped DEF NoTask
    <3> QED
      BY <1>1, <3>1, <3>2, <3>3 DEF ReadIni
  <2>3. task[w].ext \in Extensions
    BY <2>1, <2>2 DEF Texts
  <2>4. Toggled(text, task[w]).of = text.of
    BY <2>1, <2>3, ToggledTyped
  <2>5. /\ task'[w].buf.of = text.of /\ task'[w].ver = task[w].ver
        /\ \A x \in Workers : x # w => task'[x] = task[x]
    <3>1. PICK new : new = Toggled(text, task[w])
      OBVIOUS
    <3>2. task' = [task EXCEPT ![w] = [task[w] EXCEPT !.buf = new, !.pc = "open"]]
      BY <1>0, <2>2, <3>1
    <3>3. task'[w] = [task[w] EXCEPT !.buf = new, !.pc = "open"]
      BY <1>0, <3>2
    <3> QED
      BY <1>0, <2>4, <3>1, <3>2, <3>3 DEF Tasks
  <2>6. ASSUME NEW x \in Workers, Carries(x)'
        PROVE  task'[x].buf.of \in {task'[x].ver, Nothing}
    <3>1. CASE x = w
      BY <1>0, <1>c, <2>5, <2>6, <3>1 DEF OwnText, IniKeepsVersion, Carries
    <3>2. CASE x # w
      BY <1>c, <2>5, <2>6, <3>2, OthersCarry
    <3> QED
      BY <3>1, <3>2
  <2> QED
    BY <1>c, <2>2, <2>6 DEF OwnText, IniKeepsVersion
<1>2. CASE OpenIni(w)
  <2>1. /\ task[w].pc = "open" /\ ini' = [ini EXCEPT ![task[w].ver] = Emptied]
        /\ task'[w] = [task[w] EXCEPT !.pc = "flush"]
        /\ \A x \in Workers : x # w => task'[x] = task[x]
    BY <1>2, GoTyped DEF OpenIni, At, PCs
  <2>2. IniKeepsVersion'
    BY <1>0, <1>c, <2>1 DEF OwnText, IniKeepsVersion, Emptied
  <2>3. task'[w].buf = task[w].buf /\ task'[w].ver = task[w].ver
    BY <1>0, <2>1 DEF Tasks
  <2>4. ASSUME NEW x \in Workers, Carries(x)'
        PROVE  task'[x].buf.of \in {task'[x].ver, Nothing}
    BY <1>c, <2>1, <2>3, <2>4, OthersCarry DEF OwnText, Carries
  <2> QED
    BY <2>2, <2>4 DEF OwnText
<1>3. CASE FlushIni(w)
  <2>1. PICK S \in SUBSET task[w].buf.has :
          ini' = [ini EXCEPT ![task[w].ver] =
                    [of |-> task[w].buf.of, has |-> S, on |-> S \cap task[w].buf.on]]
    BY <1>3 DEF FlushIni
  <2>2. /\ task[w].pc = "flush"
        /\ task'[w] = [task[w] EXCEPT !.pc = "close"]
        /\ \A x \in Workers : x # w => task'[x] = task[x]
    BY <1>3, GoTyped DEF FlushIni, At, PCs
  <2>3. task[w].ver \notin crossed => task[w].buf.of \in {task[w].ver, Nothing}
    BY <2>2 DEF OwnText, Carries
  <2>4. ASSUME NEW v \in Versions \ crossed' PROVE ini'[v].of \in {v, Nothing}
    BY <1>0, <1>c, <2>1, <2>3, <2>4 DEF OwnText, IniKeepsVersion
  <2>5. task'[w].buf = task[w].buf /\ task'[w].ver = task[w].ver
    BY <1>0, <2>2 DEF Tasks
  <2>6. ASSUME NEW x \in Workers, Carries(x)'
        PROVE  task'[x].buf.of \in {task'[x].ver, Nothing}
    BY <1>c, <2>2, <2>3, <2>5, <2>6, OthersCarry DEF Carries
  <2> QED
    BY <2>4, <2>6 DEF OwnText, IniKeepsVersion
<1>4. CASE CloseIni(w)
  <2>1. /\ task[w].pc = "close" /\ ini' = [ini EXCEPT ![task[w].ver] = task[w].buf]
        /\ task' = [task EXCEPT ![w].buf = Emptied, ![w].pc = "status"]
    BY <1>4 DEF CloseIni, At
  <2>2. task[w].ver \notin crossed => task[w].buf.of \in {task[w].ver, Nothing}
    BY <2>1 DEF OwnText, Carries
  <2>3. ASSUME NEW v \in Versions \ crossed' PROVE ini'[v].of \in {v, Nothing}
    BY <1>0, <1>c, <2>1, <2>2, <2>3 DEF OwnText, IniKeepsVersion
  <2>4. \A x \in Workers : task'[x] = task[x] \/ task'[x].pc \notin {"open", "flush", "close"}
    <3>1. task' = [task EXCEPT ![w] = [task[w] EXCEPT !.buf = Emptied, !.pc = "status"]]
      BY <1>0, <2>1
    <3>2. task'[w] = [task[w] EXCEPT !.buf = Emptied, !.pc = "status"]
      BY <1>0, <3>1
    <3> QED
      BY <1>0, <3>1, <3>2 DEF Tasks
  <2> QED
    BY <1>c, <2>3, <2>4, NobodyNew DEF OwnText, IniKeepsVersion
<1>5. CASE /\ ini' = ini
           /\ \A x \in Workers : x # w => task'[x] = task[x]
           /\ task'[w].pc \notin {"open", "flush", "close"}
  <2>1. \A x \in Workers : task'[x] = task[x] \/ task'[x].pc \notin {"open", "flush", "close"}
    BY <1>5
  <2> QED
    BY <1>c, <1>5, <2>1, NobodyNew DEF OwnText, IniKeepsVersion
<1>6. CASE Path(w) \/ SpawnPhp(w)
  <2>1. /\ ini' = ini /\ \A x \in Workers : x # w => task'[x] = task[x]
    BY <1>0, <1>6, EndsTyped DEF Path, SpawnPhp, phpVars
  <2>2. task'[w].pc \in {"idle", "read", "wait"}
    <3>1. CASE Path(w)
      BY <1>0, <3>1 DEF Path, Tasks
    <3>2. CASE SpawnPhp(w)
      <4>1. CASE Ends(w)
        BY <4>1, EndsTyped DEF NoTask
      <4>2. CASE task' = [task EXCEPT ![w].ver = Chosen(w), ![w].pc = "wait"]
        BY <1>0, <4>2 DEF Tasks
      <4> QED
        BY <3>2, <4>1, <4>2 DEF SpawnPhp
    <3> QED
      BY <1>6, <3>1, <3>2
  <2> QED
    BY <1>5, <2>1, <2>2
<1>7. CASE ReadIni(w) /\ task'[w].pc # "open"
  <2>1. ini' = ini /\ \A x \in Workers : x # w => task'[x] = task[x]
    BY <1>0, <1>7, EndsTyped DEF ReadIni, phpVars
  <2>2. task'[w].pc \in {"idle", "emit", "open"}
    <3>1. CASE Ends(w)
      BY <3>1, EndsTyped DEF NoTask
    <3>2. CASE ~Ends(w)
      BY <1>0, <1>7, <3>2 DEF ReadIni, Tasks
    <3> QED
      BY <3>1, <3>2
  <2> QED
    BY <1>5, <1>7, <2>1, <2>2
<1>8. CASE Restart(w) \/ WaitPhp(w) \/ OpenEntry(w)
  <2>1. ini' = ini
    BY <1>8 DEF Restart, WaitPhp, OpenEntry
  <2>2. Ends(w) \/ \E pc \in {"drop", "record", "saving", "recording"} : Go(w, pc)
    BY <1>8 DEF Restart, WaitPhp, OpenEntry
  <2>3. CASE Ends(w)
    BY <1>5, <2>1, <2>3, EndsTyped DEF NoTask
  <2>4. ASSUME NEW pc \in {"drop", "record", "saving", "recording"}, Go(w, pc)
        PROVE  OwnText'
    <3>1. /\ task'[w] = [task[w] EXCEPT !.pc = pc]
          /\ \A x \in Workers : x # w => task'[x] = task[x]
      BY <2>4, GoTyped DEF PCs
    <3>2. task'[w].pc = pc
      BY <1>0, <3>1 DEF Tasks
    <3> QED
      BY <1>5, <2>1, <3>1, <3>2
  <2> QED
    BY <2>2, <2>3, <2>4
<1>9. CASE OpenDrop(w)
  <2>1. ini' = ini /\ task' = [task EXCEPT ![w].snap = entry, ![w].pc = "dropping"]
    BY <1>9 DEF OpenDrop
  <2>2. task'[w].pc = "dropping" /\ \A x \in Workers : x # w => task'[x] = task[x]
    BY <1>0, <2>1 DEF Tasks
  <2> QED
    BY <1>5, <2>1, <2>2
<1>10. CASE WriteDrop(w)
  BY <1>5, <1>10, AfterDropTyped DEF WriteDrop
<1>11. CASE WriteEntry(w)
  BY <1>5, <1>11, AfterEntryTyped DEF WriteEntry
<1>12. CASE ThreadFails(w)
  <2>1. ini' = ini
    BY <1>12 DEF ThreadFails, phpVars
  <2> QED
    BY <1>5, <1>12, <2>1, ThreadFailsTyped
<1> QED
  BY <1>1, <1>2, <1>3, <1>4, <1>6, <1>7, <1>8, <1>9, <1>10, <1>11, <1>12 DEF ThreadStep

(* A press of a button: whoever starts has nothing in hand yet. *)
LEMMA PressOwn ==
  ASSUME FilesTypeOK, OwnText, NEW w \in Workers, NEW t, Press(w, t),
         t.pc \notin {"open", "flush", "close"}
  PROVE  OwnText'
<1>1. task'[w] = t /\ \A x \in Workers : x # w => task'[x] = task[x]
  BY DEF Press, FilesTypeOK
<1>2. ini' = ini /\ crossed' = crossed
  BY DEF Press, phpVars
<1> QED
  BY <1>1, <1>2, NobodyNew DEF OwnText, IniKeepsVersion

LEMMA WindowStepOwn ==
  ASSUME FilesTypeOK, OwnText, NEW w \in Workers,
         \/ load_extensions_list(w) \/ display_extensions_list(w) \/ TogglePhp(w)
         \/ \E x \in Extensions : toggle_extension(w, x)
         \/ \E v \in Versions : change_php_version(w, v)
  PROVE  OwnText'
<1>1. CASE load_extensions_list(w)
  BY <1>1, PressOwn DEF load_extensions_list, NoTask
<1>2. CASE display_extensions_list(w)
  <2>1. /\ task'[w] = NoTask /\ \A x \in Workers : x # w => task'[x] = task[x]
        /\ ini' = ini /\ crossed' = crossed
    BY <1>2, EndsTyped DEF display_extensions_list, phpVars, history
  <2> QED
    BY <2>1, NobodyNew DEF NoTask, OwnText, IniKeepsVersion
<1>3. CASE TogglePhp(w)
  BY <1>3, PressOwn DEF TogglePhp, NoTask
<1>4. ASSUME NEW x \in Extensions, toggle_extension(w, x) PROVE OwnText'
  <2> DEFINE t == [NoTask EXCEPT !.kind = "toggle", !.pc = "path", !.ext = x,
                                 !.on = x \notin boxes.on]
  <2>1. Press(w, t)
    BY <1>4 DEF toggle_extension
  <2>2. t.pc = "path"
    BY DEF NoTask
  <2> HIDE DEF t
  <2> QED
    BY <2>1, <2>2, PressOwn
<1>5. ASSUME NEW v \in Versions, change_php_version(w, v) PROVE OwnText'
  BY <1>5, PressOwn DEF change_php_version, NoTask
<1> QED
  BY <1>1, <1>2, <1>3, <1>4, <1>5

(* The editor writes to a php.ini what it read of another one only if that *)
(* version is counted as crossed from then on.                             *)
LEMMA WriteByEditorOwn ==
  ASSUME FilesTypeOK, OwnText, WriteByEditor
  PROVE  OwnText'
<1>1. /\ editor.path \in Versions /\ ini' = [ini EXCEPT ![editor.path] = editor.text]
      /\ crossed \subseteq crossed' /\ task' = task
      /\ editor.path \in crossed' \/ editor.text.of \in {editor.path, Nothing}
  BY DEF WriteByEditor, FilesTypeOK
<1>2. ASSUME NEW v \in Versions \ crossed' PROVE ini'[v].of \in {v, Nothing}
  BY <1>1, <1>2 DEF OwnText, IniKeepsVersion, FilesTypeOK
<1>3. \A w \in Workers : Carries(w)' => task'[w].buf.of \in {task'[w].ver, Nothing}
  BY <1>1, NobodyNew
<1> QED
  BY <1>2, <1>3 DEF OwnText, IniKeepsVersion

LEMMA FilesInitOwn == FilesInit => OwnText
BY DEF FilesInit, Whole, OwnText, IniKeepsVersion, Carries, NoTask

LEMMA FilesNextOwn == FilesTypeOK /\ OwnText /\ [FilesNext]_filesVars => OwnText'
<1> SUFFICES ASSUME FilesTypeOK, OwnText, [FilesNext]_filesVars PROVE OwnText'
  OBVIOUS
<1>1. CASE ini' = ini /\ crossed' = crossed /\ task' = task
  BY <1>1, NobodyNew DEF OwnText, IniKeepsVersion
<1>2. ASSUME NEW A, PortsPress(A) PROVE OwnText'
  BY <1>1, <1>2 DEF PortsPress, phpVars, history
<1>3. CASE OpenByEditor
  <2>1. PICK v \in Versions : v = get_current_php_version
    BY CurrentTyped
  <2>2. ini' = [ini EXCEPT ![v] = Emptied] /\ crossed' = crossed /\ task' = task
    BY <1>3, <2>1 DEF OpenByEditor
  <2>3. IniKeepsVersion'
    BY <2>2 DEF OwnText, IniKeepsVersion, Emptied, FilesTypeOK
  <2> QED
    BY <2>2, <2>3, NobodyNew DEF OwnText
<1>4. CASE Launched
  <2>1. ini' = ini /\ crossed' = crossed /\ \A w \in Workers : task'[w].pc = "idle"
    BY <1>4 DEF Launched, NoTask
  <2> QED
    BY <2>1, NobodyNew DEF OwnText, IniKeepsVersion
<1>5. CASE UNCHANGED <<phpVars, windowVars, task, history>>
  BY <1>1, <1>5 DEF phpVars, history
<1>6. ASSUME NEW svc \in Editable, load_config_content(svc) PROVE OwnText'
  BY <1>1, <1>6 DEF load_config_content, phpVars, history
<1>7. CASE BindPhp \/ WriteByEditorFails
  BY <1>1, <1>7 DEF BindPhp, WriteByEditorFails, OnlyThread, phpVars, history
<1>10. ASSUME NEW text, save_config_content(text) \/ SaveFails(text) PROVE OwnText'
  BY <1>1, <1>10 DEF save_config_content, SaveFails, SaveServerFile, phpVars, history
<1>8. CASE Killed \/ KilledInSave \/ Reopened
  BY <1>4, <1>8 DEF Killed, KilledInSave, Reopened
<1>9. CASE FilesQuiet \/ UNCHANGED filesVars
  BY <1>5, <1>9 DEF FilesQuiet, filesVars
<1> QED
  BY <1>2, <1>3, <1>5, <1>6, <1>7, <1>8, <1>9, <1>10, ThreadStepOwn, WindowStepOwn, WriteByEditorOwn
     DEF FilesNext

(* For every number of threads, versions and extensions: nothing but the   *)
(* editor, used across a change of version, gives the php.ini of a version *)
(* the text of another, whatever toggles, changes of version, starts of    *)
(* PHP and kills of the program meet (app.py 673-713, 2155-2174).          *)
THEOREM IniStaysOfItsVersion == FilesSpec => []IniKeepsVersion
<1>1. FilesInit => FilesInv /\ OwnText
  BY FilesInitInv, FilesInitOwn
<1>2. FilesInv => FilesTypeOK
  BY DEF FilesInv
<1>3. FilesInv /\ OwnText /\ [FilesNext]_filesVars => (FilesInv /\ OwnText)'
  BY <1>2, FilesNextInv, FilesNextOwn
<1>4. OwnText => IniKeepsVersion
  BY DEF OwnText
<1> QED
  BY <1>1, <1>3, <1>4, PTL DEF FilesSpec

-----------------------------------------------------------------------------
(* ApacheStartRepairs beside the editor, which ends the repair where it    *)
(* gives httpd.conf another text or meets a thread there.                  *)

(* A step that leaves the threads and httpd.conf alone. *)
LEMMA RepairStays ==
  ASSUME RepairInv, TypeInv', UNCHANGED <<PORTS, job>>, mending' \in {"no", mending},
         mending' = "done" => file'[Httpd] = file[Httpd]
  PROVE  RepairInv'
<1>1. ASSUME NEW w \in Workers, Begun(w) PROVE Begun(w)'
  BY <1>1, BegunKept, OtherThread
<1>2. Httpd \in Files /\ TRUE \in BOOLEAN
  BY HttpdFile
<1> QED
  BY <1>1, <1>2, StillCalm DEF RepairInv

LEMMA FilesNextRepairs == RepairInv /\ FilesInv /\ [FilesNext]_filesVars => RepairInv'
<1> SUFFICES ASSUME RepairInv, FilesInv, [FilesNext]_filesVars PROVE RepairInv'
  OBVIOUS
<1>1. TypeInv' /\ TypeOK /\ FilesTypeOK
  BY FilesNextInv DEF FilesInv, FollowInv, RepairInv, TypeInv
<1>2. CASE PortsIdle
  BY <1>1, <1>2, RepairStays DEF PortsIdle
<1>3. ASSUME NEW text \in Contents, save_config_content(text) \/ SaveFails(text) PROVE RepairInv'
  <2>1. PICK f \in Files, written \in Contents, fs \in SUBSET Files :
          /\ file' = [file EXCEPT ![f] = written]
          /\ f \in fs \/ written = file[f]
          /\ Harm(fs)
          /\ events' = events + 1 /\ events < MaxEvents
          /\ UNCHANGED <<PORTS, portsFile, saving, job>>
    BY <1>1, <1>3, SaveDisturbs
  <2>2. mending' \in {"no", mending} /\ (mending' = "done" => Httpd \notin fs)
    BY <2>1 DEF Harm, Httpd
  <2>3. mending' = "done" => file'[Httpd] = file[Httpd]
    BY <1>1, <2>1, <2>2 DEF TypeOK
  <2> QED
    BY <1>1, <2>1, <2>2, <2>3, RepairStays
<1>4. CASE KilledInSave
  BY <1>1, <1>4 DEF KilledInSave, RepairInv
<1> QED
  BY <1>2, <1>3, <1>4, StepSides, NextRepairs

(* A start of Apache repairs httpd.conf beside the editor, too, and it     *)
(* stays repaired until a save there changes its text, or meets a thread   *)
(* that rewrites it (setup_apache_internal, app.py 418;                    *)
(* save_config_content, app.py 2276).                                      *)
THEOREM StartOfApacheRepairsBesideEditor == FilesSpec => []ApacheStartRepairs
<1>1. FilesInit => FilesInv /\ RepairInv
  BY FilesInitInv, InitRepairs DEF FilesInit
<1>2. FilesInv /\ RepairInv /\ [FilesNext]_filesVars => (FilesInv /\ RepairInv)'
  BY FilesNextInv, FilesNextRepairs
<1> QED
  BY <1>1, <1>2, RepairImplies, PTL DEF FilesSpec
=============================================================================
