----------------------------- MODULE ConfigFiles -----------------------------
(***************************************************************************)
(* All that rewrites configuration files: the port settings, and, in this  *)
(* module, the extensions tab and the configuration editor.                *)
(*                                                                         *)
(* php.ini exists once per PHP version.  Which of them is meant is asked   *)
(* anew, of services_pids.json, by every thread that lists or toggles      *)
(* extensions, and by every load and every save of the editor; the window  *)
(* has the version in active_php_version besides.  A toggle reads the      *)
(* file, empties it, writes it in pieces, and restarts a PHP that runs.    *)
(* The editor writes back the text it read whenever it was last loaded.    *)
(* What the starts of other services do to services_pids.json is in        *)
(* ServiceControl and left out here.                                       *)
(***************************************************************************)
EXTENDS PortSettings

CONSTANTS
  Versions,       \* folders bin/php/php-*
  NewestVersion,  \* the first of them in descending order
  Extensions,     \* names in the extension lines
  LinesOf,        \* LinesOf[v]: the extensions that have a line in v's php.ini
  Typed           \* what the user may make of the text of a server's file

ASSUME ConfigFilesAssumption ==
  /\ NewestVersion \in Versions
  /\ LinesOf \in [Versions -> SUBSET Extensions]
  /\ Nothing \notin Versions
  /\ Typed \subseteq Contents

(* A php.ini, or what has been read of one: the version its text was made  *)
(* for, the extension lines that are in it, those that are not commented.  *)
Texts == [of : Versions \cup {Nothing}, has : SUBSET Extensions, on : SUBSET Extensions]

Emptied      == [of |-> Nothing, has |-> {}, on |-> {}]
Whole(v, on) == [of |-> v, has |-> LinesOf[v], on |-> on]

VARIABLES
  ini,     \* ini[v]: the php.ini of version v
  entry,   \* php_version in services_pids.json, Nothing while that is empty
  active,  \* active_php_version
  php,     \* the PHP process: [state, ver, loaded, by], by the thread that
           \* started it; loaded is the php.ini it read
  tab,     \* the tab that is shown; a press on another one shows that first
  boxes,   \* the check boxes of the extensions tab; Nothing while it loads
  editor,  \* [svc, text, path]: what is selected, the text in the box, and the
           \* version whose php.ini a save has emptied, Nothing otherwise
  task,    \* task[w]: [kind, ver, ext, on, buf, snap, pc] of a daemon thread;
           \* snap is the php_version of the table a stop writes back
  asked,   \* history: asked[v], the php.ini of v as the user left it
  unread,  \* history: versions whose php.ini the editor changed since a PHP of
           \* that version was started
  crossed, \* history: versions the editor gave the php.ini of another one
  races    \* history: what excuses a php.ini or a list that is not as asked

phpVars   == <<ini, entry, php>>
history   == <<asked, unread, crossed, races>>
windowVars == <<active, tab, boxes, editor>>
filesVars == <<vars, phpVars, windowVars, task, history>>

Tasks ==
  [kind : {"none", "toggle", "list", "version", "start", "stop"},
   ver : Versions, ext : Extensions \cup {Nothing}, on : BOOLEAN, buf : Texts,
   snap : Versions \cup {Nothing},
   pc : {"idle", "path", "read", "open", "flush", "close", "status", "drop", "dropping",
         "spawn", "wait", "save", "saving", "record", "recording", "emit"}]

NoTask == [kind |-> "none", ver |-> NewestVersion, ext |-> Nothing, on |-> FALSE,
           buf |-> Emptied, snap |-> Nothing, pc |-> "idle"]

PhpDown == [state |-> "down", ver |-> NewestVersion, loaded |-> Emptied, by |-> Nothing]

Editable == {"php", "nginx", "apache", "mysql"}
ConfigFile == [nginx |-> "nginx.conf", apache |-> "httpd.conf", mysql |-> "my.ini"]

FilesTypeOK ==
  /\ ini \in [Versions -> Texts]
  /\ entry \in Versions \cup {Nothing}
  /\ active \in Versions
  /\ php \in [state : {"down", "starting", "up"}, ver : Versions, loaded : Texts,
              by : Workers \cup {Nothing}]
  /\ tab \in {"extensions", "another"}
  /\ boxes \in Texts \cup {Nothing}
  /\ editor \in [svc : {"php"}, text : Texts, path : Versions \cup {Nothing}]
           \cup [svc : Editable \ {"php"}, text : Contents, path : {Nothing}]
  /\ task \in [Workers -> Tasks]
  /\ asked \in [Versions -> Texts]
  /\ unread \subseteq Versions /\ crossed \subseteq Versions
  /\ races \subseteq {"rewrite", "list", "kill", "error"}

get_current_php_version == IF entry = Nothing THEN NewestVersion ELSE entry

(* Mutant: the text box is not cleared. *)
Loaded_KeepsText(svc) == [editor EXCEPT !.svc = svc]

(* load_config_content *)
Loaded(svc) ==
  [svc |-> svc, path |-> Nothing,
   text |-> IF svc = "php" THEN ini[get_current_php_version] ELSE file[ConfigFile[svc]]]

(* A file that is missing or cannot be read leaves a box without any of    *)
(* its lines.                                                              *)
Unloaded(svc) ==
  [svc |-> svc, path |-> Nothing, text |-> IF svc = "php" THEN Emptied ELSE Empty]

(* No PHP runs; one that outlives the program comes with Killed. *)
FilesInit ==
  /\ Init
  /\ ini = [v \in Versions |-> Whole(v, {})]
  /\ entry \in Versions /\ active = entry
  /\ php = PhpDown
  /\ tab = "another" /\ boxes = Nothing
  /\ editor = [svc |-> "php", text |-> ini[entry], path |-> Nothing]
  /\ task = [w \in Workers |-> NoTask]
  /\ asked = ini /\ unread = {} /\ crossed = {} /\ races = {}

-----------------------------------------------------------------------------
(* The threads *)

At(w, pc) == task[w].pc = pc
Busy(w)   == task[w].pc # "idle"
Free(w)   == ~Busy(w) /\ ~Working(w)

Go(w, pc) == task' = [task EXCEPT ![w].pc = pc]

(* The thread ends, with a message or a line in the status bar. *)
Ends(w) == task' = [task EXCEPT ![w] = NoTask]

OnlyThread == UNCHANGED <<vars, windowVars, history>>

PortsAlone == UNCHANGED <<PORTS, portsFile, file, saving, job, harmed, mending>>

(* CONFIG_FILES['php'](): asked once per toggle and once per list. *)
Path(w) ==
  /\ At(w, "path")
  /\ task' = [task EXCEPT ![w].ver = get_current_php_version, ![w].pc = "read"]
  /\ UNCHANGED phpVars /\ OnlyThread

(* The line of the extension with its semicolon removed or put in front. *)
Toggled(text, t) ==
  [text EXCEPT !.on = IF t.on THEN @ \cup {t.ext} ELSE @ \ {t.ext}]

(* A toggle that does not find its line writes nothing, and says so.  What *)
(* a list has read is emitted.                                             *)
ReadIni(w) ==
  /\ At(w, "read")
  /\ LET text == ini[task[w].ver]
     IN  \/ /\ task[w].kind = "list"
            /\ task' = [task EXCEPT ![w].buf = text, ![w].pc = "emit"]
         \/ /\ task[w].kind = "toggle" /\ task[w].ext \in text.has
            /\ task' = [task EXCEPT ![w].buf = Toggled(text, task[w]), ![w].pc = "open"]
         \/ task[w].kind = "toggle" /\ task[w].ext \notin text.has /\ Ends(w)
  /\ UNCHANGED phpVars /\ OnlyThread

(* Mutant: the path is asked for again before the file is written. *)
OpenIni_AsksAgain(w) ==
  /\ At(w, "open")
  /\ ini' = [ini EXCEPT ![get_current_php_version] = Emptied]
  /\ task' = [task EXCEPT ![w].ver = get_current_php_version, ![w].pc = "flush"]
  /\ UNCHANGED <<entry, php>> /\ OnlyThread

OpenIni(w) ==
  /\ At(w, "open")
  /\ ini' = [ini EXCEPT ![task[w].ver] = Emptied]
  /\ Go(w, "flush")
  /\ UNCHANGED <<entry, php>> /\ OnlyThread

(* writelines hands over what fills a buffer, the rest goes with close(). *)
(* Which of the lines come first is left open.                             *)
FlushIni(w) ==
  /\ At(w, "flush")
  /\ \E S \in SUBSET task[w].buf.has :
       ini' = [ini EXCEPT ![task[w].ver] =
                 [of |-> task[w].buf.of, has |-> S, on |-> S \cap task[w].buf.on]]
  /\ Go(w, "close")
  /\ UNCHANGED <<entry, php>> /\ OnlyThread

(* Mutant: the file is not closed before PHP is started. *)
CloseIni_Left(w) ==
  /\ At(w, "close")
  /\ task' = [task EXCEPT ![w].buf = Emptied, ![w].pc = "status"]
  /\ UNCHANGED <<ini, entry, php>> /\ OnlyThread

CloseIni(w) ==
  /\ At(w, "close")
  /\ ini' = [ini EXCEPT ![task[w].ver] = task[w].buf]
  /\ task' = [task EXCEPT ![w].buf = Emptied, ![w].pc = "status"]
  /\ UNCHANGED <<entry, php>> /\ OnlyThread

(* Mutant: an extension that is switched off needs no restart. *)
Restart_OnlyOn(w) ==
  /\ At(w, "status")
  /\ IF php.state = "up" /\ (task[w].kind = "toggle" => task[w].on)
     THEN php' = PhpDown /\ Go(w, "drop")
     ELSE php' = php /\ Ends(w)
  /\ UNCHANGED <<ini, entry>> /\ OnlyThread

(* get_service_status, and the kills of stop_service_internal: a PHP that  *)
(* has no port yet counts as stopped.                                      *)
Restart(w) ==
  /\ At(w, "status")
  /\ IF php.state = "up" THEN php' = PhpDown /\ Go(w, "drop")
                         ELSE php' = php /\ Ends(w)
  /\ UNCHANGED <<ini, entry>> /\ OnlyThread

(* The rest of stop_service_internal: load_pids and save_pids. *)
OpenDrop(w) ==
  /\ At(w, "drop")
  /\ entry' = Nothing
  /\ task' = [task EXCEPT ![w].snap = entry, ![w].pc = "dropping"]
  /\ UNCHANGED <<ini, php>> /\ OnlyThread

AfterDrop(w) ==
  IF task[w].kind = "stop" THEN Ends(w)
  ELSE task' = [task EXCEPT ![w].snap = Nothing, ![w].pc = "spawn"]

WriteDrop(w) ==
  /\ At(w, "dropping")
  /\ entry' = task[w].snap
  /\ AfterDrop(w)
  /\ UNCHANGED <<ini, php>> /\ OnlyThread

(* start_php_internal: which version, and Popen, after which PHP reads its *)
(* php.ini.  Of two that are starting one gets the port, the other exits.  *)
Chosen(w) == IF task[w].kind = "version" THEN task[w].ver ELSE active

SpawnPhp(w) ==
  /\ At(w, "spawn")
  /\ IF php.state = "up"
     THEN UNCHANGED <<php, unread>> /\ Ends(w)
     ELSE LET new == [state |-> "starting", ver |-> Chosen(w), loaded |-> ini[Chosen(w)], by |-> w]
          IN  /\ php' \in {new} \cup (IF php.state = "starting" THEN {php} ELSE {})
              /\ task' = [task EXCEPT ![w].ver = Chosen(w), ![w].pc = "wait"]
              /\ unread' = unread \ {Chosen(w)}
  /\ UNCHANGED <<ini, entry, vars, windowVars, asked, crossed, races>>

BindPhp ==
  /\ php.state = "starting"
  /\ php' = [php EXCEPT !.state = "up", !.by = Nothing]
  /\ UNCHANGED <<ini, entry, task>> /\ OnlyThread

WaitPhp(w) ==
  /\ At(w, "wait")
  /\ IF php.state = "up" THEN php' = php /\ Go(w, "record")
     ELSE php' = (IF php.by = w THEN PhpDown ELSE php) /\ Ends(w)  \* timed out
  /\ UNCHANGED <<ini, entry>> /\ OnlyThread

(* save_pids, after a change of version and after a start *)
OpenEntry(w) ==
  /\ task[w].pc \in {"save", "record"}
  /\ entry' = Nothing
  /\ Go(w, IF At(w, "save") THEN "saving" ELSE "recording")
  /\ UNCHANGED <<ini, php>> /\ OnlyThread

AfterEntry(w) == IF task[w].pc \in {"save", "saving"} THEN Go(w, "status") ELSE Ends(w)

WriteEntry(w) ==
  /\ task[w].pc \in {"saving", "recording"}
  /\ entry' = task[w].ver
  /\ AfterEntry(w)
  /\ UNCHANGED <<ini, php>> /\ OnlyThread

(* What may fail: a toggle at its php.ini, which it leaves as it is then   *)
(* and reports; a list, which is empty; Popen, or the program is missing;  *)
(* save_pids, which says nothing, and the thread goes on.                  *)
ThreadFails(w) ==
  /\ Error
  /\ \/ task[w].kind = "toggle" /\ task[w].pc \in {"read", "open", "flush", "close"} /\ Ends(w)
     \/ task[w].kind = "list" /\ At(w, "read") /\ Go(w, "emit")
     \/ At(w, "spawn") /\ Ends(w)
     \/ task[w].pc \in {"drop", "dropping"} /\ AfterDrop(w)
     \/ task[w].pc \in {"save", "saving", "record", "recording"} /\ AfterEntry(w)
  /\ races' = IF At(w, "spawn") THEN races ELSE races \cup {"error"}
  /\ PortsAlone
  /\ UNCHANGED <<phpVars, windowVars, asked, unread, crossed>>

ThreadStep(w) ==
  \/ Path(w) \/ ReadIni(w) \/ OpenIni(w) \/ FlushIni(w) \/ CloseIni(w)
  \/ Restart(w) \/ OpenDrop(w) \/ WriteDrop(w) \/ SpawnPhp(w) \/ WaitPhp(w)
  \/ OpenEntry(w) \/ WriteEntry(w) \/ ThreadFails(w)

-----------------------------------------------------------------------------
(* The window *)

WindowFree == ~saving /\ editor.path = Nothing

Writers == {w \in Workers : Busy(w) /\ task[w].kind # "list"}
Listers == {w \in Workers : Busy(w) /\ task[w].kind = "list"}

(* Two threads at the same time, of which one may change what the other    *)
(* goes by.                                                                *)
Races(kind) ==
  (IF kind # "list" /\ Writers # {} THEN {"rewrite"} ELSE {}) \cup
  (IF (kind = "list" /\ Writers # {}) \/ (kind # "list" /\ Listers # {}) THEN {"list"} ELSE {})

Press(w, t) ==
  /\ WindowFree /\ events < MaxEvents /\ Free(w)
  /\ task' = [task EXCEPT ![w] = t]
  /\ events' = events + 1
  /\ races' = races \cup Races(t.kind)
  /\ PortsAlone
  /\ UNCHANGED <<phpVars, editor, unread, crossed>>

(* Mutant: the list is loaded the first time only. *)
load_extensions_list_Once(w) ==
  /\ tab # "extensions"
  /\ tab' = "extensions" /\ boxes' = boxes
  /\ Press(w, IF boxes = Nothing THEN [NoTask EXCEPT !.kind = "list", !.pc = "path"]
                                 ELSE NoTask)
  /\ UNCHANGED <<active, asked>>

(* show_tab("extensions"), also when it is shown already *)
load_extensions_list(w) ==
  /\ tab' = "extensions" /\ boxes' = Nothing
  /\ Press(w, [NoTask EXCEPT !.kind = "list", !.pc = "path"])
  /\ UNCHANGED <<active, asked>>

(* The signal extensions_loaded: the answers come in any order. *)
display_extensions_list(w) ==
  /\ WindowFree
  /\ At(w, "emit")
  /\ boxes' = task[w].buf
  /\ Ends(w)
  /\ UNCHANGED <<vars, phpVars, active, tab, editor, history>>

toggle_extension(w, x) ==
  /\ tab = "extensions" /\ boxes # Nothing /\ x \in boxes.has
  /\ LET t == [NoTask EXCEPT !.kind = "toggle", !.pc = "path", !.ext = x, !.on = x \notin boxes.on]
     IN  /\ boxes' = Toggled(boxes, t)
         /\ asked' = [asked EXCEPT ![active] = Toggled(@, t)]
         /\ Press(w, t)
  /\ UNCHANGED <<active, tab>>

change_php_version(w, v) ==
  /\ v # active
  /\ active' = v /\ tab' = "another"
  /\ Press(w, [NoTask EXCEPT !.kind = "version", !.pc = "save", !.ver = v])
  /\ UNCHANGED <<boxes, asked>>

(* toggle_service("php") *)
TogglePhp(w) ==
  /\ tab' = "another"
  /\ Press(w, IF php.state = "up" THEN [NoTask EXCEPT !.kind = "stop", !.pc = "status"]
                                  ELSE [NoTask EXCEPT !.kind = "start", !.pc = "spawn"])
  /\ UNCHANGED <<active, boxes, asked>>

-----------------------------------------------------------------------------
(* The editor, in the window's thread *)

(* Another entry of the combo box; nothing else loads a text. *)
load_config_content(svc) ==
  /\ WindowFree /\ events < MaxEvents
  /\ svc # editor.svc
  /\ editor' \in {Loaded(svc)} \cup (IF "error" \in Faults THEN {Unloaded(svc)} ELSE {})
  /\ tab' = "another"
  /\ events' = events + 1
  /\ PortsAlone
  /\ UNCHANGED <<phpVars, active, boxes, task, history>>

(* The user saves what has become of the text of a server's file, in one   *)
(* step, which leaves that file with what is written: a thread that could  *)
(* see the emptied file is at work on it, and that is a harm.              *)
SaveServerFile(text, written, harm) ==
  /\ WindowFree /\ events < MaxEvents
  /\ editor.svc # "php" /\ text \in {editor.text} \cup Typed
  /\ tab' = "another" /\ editor' = [editor EXCEPT !.text = text]
  /\ file' = [file EXCEPT ![ConfigFile[editor.svc]] = written]
  /\ Harm(harm)
  /\ events' = events + 1
  /\ UNCHANGED <<PORTS, portsFile, saving, job, phpVars, active, boxes, task, history>>

(* What is saved is not what the file says, or the file is being rewritten. *)
Disturbed(f, text) == IF text # file[f] \/ f \in Unfinished THEN {f} ELSE {}

save_config_content(text) ==
  SaveServerFile(text, text, Disturbed(ConfigFile[editor.svc], text))

SaveFails(text) ==
  /\ "error" \in Faults
  /\ SaveServerFile(text, Empty, {ConfigFile[editor.svc]})

(* What the user makes of the text of a php.ini: lines are switched or go. *)
Edited(text) ==
  {[of |-> text.of, has |-> has, on |-> has \cap on] : has, on \in SUBSET text.has}

(* For php the path is asked for again, then the file is emptied... *)
OpenByEditor ==
  /\ WindowFree /\ events < MaxEvents
  /\ editor.svc = "php"
  /\ tab' = "another"
  /\ \E text \in Edited(editor.text) :
       LET v == get_current_php_version
       IN  /\ editor' = [editor EXCEPT !.text = text, !.path = v]
           /\ ini' = [ini EXCEPT ![v] = Emptied]
           /\ asked' = [asked EXCEPT ![v] = text]
           /\ unread' = IF text = ini[v] THEN unread ELSE unread \cup {v}
           /\ races' = races \cup (IF editor.text # ini[v] \/ Writers # {} THEN {"rewrite"} ELSE {})
                             \cup (IF Listers # {} THEN {"list"} ELSE {})
  /\ events' = events + 1
  /\ PortsAlone
  /\ UNCHANGED <<entry, php, active, boxes, task, crossed>>

(* ...and written.  PHP is not restarted. *)
WriteByEditor ==
  /\ editor.path # Nothing
  /\ ini' = [ini EXCEPT ![editor.path] = editor.text]
  /\ crossed' = IF editor.text.of \in {editor.path, Nothing} THEN crossed
                ELSE crossed \cup {editor.path}
  /\ editor' = [editor EXCEPT !.path = Nothing]
  /\ UNCHANGED <<vars, entry, php, active, tab, boxes, task, asked, unread, races>>

WriteByEditorFails ==
  /\ Error
  /\ editor.path # Nothing
  /\ editor' = [editor EXCEPT !.path = Nothing]
  /\ races' = races \cup {"error"}
  /\ PortsAlone
  /\ UNCHANGED <<phpVars, active, tab, boxes, task, asked, unread, crossed>>

-----------------------------------------------------------------------------
(* The whole *)

PortsPress(A) ==
  /\ WindowFree /\ A
  /\ tab' = "another"
  /\ UNCHANGED <<phpVars, active, boxes, editor, task, history>>

(* Start of the program *)
Launched ==
  /\ active' = get_current_php_version
  /\ tab' = "another" /\ boxes' = Nothing
  /\ editor' = Loaded("php")
  /\ task' = [w \in Workers |-> NoTask]
  /\ UNCHANGED <<ini, entry, asked, unread, crossed>>

Killed ==
  /\ AppCrash /\ Launched
  /\ races' = races \cup (IF editor.path # Nothing \/ \E w \in Workers : Busy(w) THEN {"kill"} ELSE {})
  /\ php' = [php EXCEPT !.by = Nothing]

(* The program is killed while the editor's text is half written. *)
KilledInSave ==
  /\ "app" \in Faults /\ events < MaxEvents
  /\ WindowFree /\ editor.svc # "php"
  /\ file' = [file EXCEPT ![ConfigFile[editor.svc]] = Empty]
  /\ PORTS' = load_ports /\ job' = [w \in Workers |-> NoJob]
  /\ harmed' = HarmedNext \cup {ConfigFile[editor.svc]} /\ mending' = "no"
  /\ events' = events + 1
  /\ Launched
  /\ races' = races \cup (IF \E w \in Workers : Busy(w) THEN {"kill"} ELSE {})
  /\ php' = [php EXCEPT !.by = Nothing]
  /\ UNCHANGED <<portsFile, saving>>

(* The exit dialog stops PHP. *)
Reopened ==
  /\ WindowFree /\ \A w \in Workers : ~Busy(w)
  /\ Relaunch /\ Launched
  /\ php' = PhpDown
  /\ UNCHANGED races

FilesQuiet ==
  /\ Quiet /\ WindowFree /\ php.state # "starting"
  /\ \A w \in Workers : ~Busy(w)
  /\ UNCHANGED filesVars

FilesNext ==
  \/ \E w \in Workers :
       \/ WorkerStep(w) /\ UNCHANGED <<phpVars, windowVars, task, history>>
       \/ ~Busy(w) /\ PortsPress(\/ StartApache(w)
                                \/ \E new \in Settings : save_port_settings(w, new)
                                                         \/ SettingsUnsaved(w, new))
       \/ ThreadStep(w) \/ load_extensions_list(w) \/ display_extensions_list(w) \/ TogglePhp(w)
       \/ \E x \in Extensions : toggle_extension(w, x)
       \/ \E v \in Versions : change_php_version(w, v)
  \/ \E svc \in Editable : load_config_content(svc)
  \/ \E text \in Contents : save_config_content(text) \/ SaveFails(text)
  \/ BindPhp \/ OpenByEditor \/ WriteByEditor \/ WriteByEditorFails
  \/ Killed \/ KilledInSave \/ Reopened \/ FilesQuiet

FilesSpec == FilesInit /\ [][FilesNext]_filesVars

-----------------------------------------------------------------------------
(* Properties *)

AllDone == WindowFree /\ \A w \in Workers : ~Busy(w)

(* Whatever threads toggle extensions, change versions, start PHP or are   *)
(* killed at the same time, no php.ini ever becomes that of another        *)
(* version: the path is asked for once per toggle.  Only the editor, which *)
(* asks once to load and once more to save, can do that (app.py:2278).     *)
IniKeepsVersion == \A v \in Versions \ crossed : ini[v].of \in {v, Nothing}

(* One at a time, toggles and saves of the editor end up in the php.ini of *)
(* the version the window shows, they last across changes of version,      *)
(* sessions and starts of PHP, and no file ever loses or regains a line    *)
(* but by the user's hand (app.py 673-713, 2276-2290).                     *)
TogglesLast ==
  AllDone /\ races = {} => ini = asked

(* "Extension {name} updated." (app.py:2501): one at a time, the PHP that  *)
(* serves is of the version the window shows and has read the php.ini of   *)
(* that version as it is now, unless the editor changed it since: saving   *)
(* there restarts nothing (app.py:2276-2290), while the next toggle or     *)
(* change of version makes up for it.                                      *)
PhpFollowsIni ==
  AllDone /\ races \cap {"rewrite", "kill", "error"} = {} /\ php.state = "up" =>
    /\ php.ver = active
    /\ active \notin unread => php.loaded = ini[active]

(* The check boxes a user looks at are those of the php.ini a toggle would *)
(* change, if no list was being read while a file or the version changed   *)
(* (app.py 1930, 2440-2490).                                               *)
ListIsCurrent ==
  AllDone /\ races = {} /\ tab = "extensions" => boxes = ini[get_current_php_version]
=============================================================================
