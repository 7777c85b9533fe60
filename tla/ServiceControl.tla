--------------------------- MODULE ServiceControl ---------------------------
(***************************************************************************)
(* The control centre of app.py: what the buttons of the dashboard, the    *)
(* tray menu and the exit dialog do to the four services.  Every button    *)
(* starts a daemon thread; threads share bin/services_pids.json, the       *)
(* process table and the window's active_* attributes without any lock.    *)
(*                                                                         *)
(* A thread works through a list of calls, the next one first.  A nested   *)
(* call is put in front of what is left of its caller: a start of nginx    *)
(* becomes the stop of apache, the start of PHP and the rest of the start. *)
(***************************************************************************)
EXTENDS PidFile, Sequences, Integers

CONSTANTS
  Threads,    \* bound on the threads that work at the same time
  Active,     \* stands for self.active_web_server / self.active_php_version,
              \* which a thread reads when it makes the call
  AdminLogin, \* whether "mysqladmin -u root shutdown", which gives no
              \* password, is let in
  Requests,   \* the buttons of this instance
  Faults,     \* subset of {"process", "app", "save"}: what may die by itself,
              \* and whether writing services_pids.json may fail
  MaxEvents   \* bound on button presses and faults together

ASSUME ServiceControlAssumption ==
  /\ Active \notin Versions \cup {None} \cup Services
  /\ AdminLogin \in BOOLEAN
  /\ Faults \subseteq {"process", "app", "save"}
  /\ MaxEvents \in Nat

VARIABLES
  th,        \* th[t]: [todo, pc, pid, snap, buf] of a daemon thread
  gui,       \* "down", "up", or "exiting" inside real_exit
  activeWeb, \* self.active_web_server
  activePhp, \* self.active_php_version
  events

appVars == <<th, gui, activeWeb, activePhp, events>>
vars    == <<procVars, pidFile, appVars>>

Ops   == {"stop", "start", "spawn", "php", "phpSpawn", "setver", "restart", "exit"}
PCs   == {"begin", "wait", "kill", "write", "flush"}

(* A call that has been made has its arguments; only one that is yet to be *)
(* made may still say Active.                                              *)
Calls ==
  {c \in [op : Ops, svc : Services \cup {Active, None}, ver : Versions \cup {Active, None}] :
     /\ c.op \in {"stop", "spawn", "phpSpawn"} => c.svc \in Services
     /\ c.op = "php" => c.svc = "php"
     /\ c.op = "start" => c.svc # None
     /\ c.op \in {"spawn", "phpSpawn", "setver"} => c.ver # Active}

Call(op, svc, ver) == [op |-> op, svc |-> svc, ver |-> ver]

ThreadStates == [todo : Seq(Calls), pc : PCs, pid : Pids \cup {None},
                 snap : PidTable, buf : PidTable]

IdleThread == [todo |-> <<>>, pc |-> "begin", pid |-> None, snap |-> NoPids, buf |-> NoPids]

TypeOK ==
  /\ ProcTypeOK /\ PidFileTypeOK
  /\ th \in [Threads -> ThreadStates]
  /\ gui \in {"down", "up", "exiting"}
  /\ activeWeb \in Web /\ activePhp \in Versions
  /\ events \in 0..MaxEvents

Init ==
  /\ ProcInit /\ PidFileInit
  /\ th = [t \in Threads |-> IdleThread]
  /\ gui = "down" /\ activeWeb = "nginx" /\ activePhp = NewestVersion
  /\ events = 0

-----------------------------------------------------------------------------
(* get_service_status *)

Running(tbl, s) ==
  \/ tbl.pid[s] # None /\ is_pid_running(tbl.pid[s])
  \/ is_process_running_by_name(s) /\ is_port_open(PortOf[s])

(* Mutant: nginx.pid stands in for any service's missing entry. *)
StatusPid_AnyService(s) ==
  IF load_pids.pid[s] = None THEN nginxPid ELSE load_pids.pid[s]

StatusPid(s) ==
  IF load_pids.pid[s] = None /\ s = "nginx" THEN nginxPid ELSE load_pids.pid[s]

-----------------------------------------------------------------------------
(* Threads *)

Idle(t) == th[t].todo = <<>>
Me(t)   == Head(th[t].todo)
Rest(t) == Tail(th[t].todo)

At(t, pc, ops) == ~Idle(t) /\ th[t].pc = pc /\ Me(t).op \in ops

Ver(t) == IF Me(t).ver = Active THEN activePhp ELSE Me(t).ver

(* The current call is over, or is replaced by the calls of seq.  The      *)
(* locals of a finished call are dead; the snapshot of a start that still  *)
(* waits for its nested calls is not.                                      *)
KeptSnapshot(t, seq) ==
  IF \E i \in DOMAIN seq : seq[i].op = "spawn" THEN th[t].snap ELSE NoPids

Continue(t, seq) ==
  th' = [th EXCEPT ![t] = [IdleThread EXCEPT !.todo = seq, !.snap = KeptSnapshot(t, seq)]]

Return(t) == Continue(t, Rest(t))

OnlyThreads == UNCHANGED <<gui, activeWeb, activePhp, events>>

(* stop_service_internal: status *)
StopCheck(t) ==
  /\ At(t, "begin", {"stop"})
  /\ IF Running(load_pids, Me(t).svc)
     THEN th' = [th EXCEPT ![t].pc = "kill", ![t].pid = StatusPid(Me(t).svc)]
     ELSE Return(t)
  /\ UNCHANGED <<procVars, pidFile>> /\ OnlyThreads

(* Mutant: without taskkill /IM. *)
KillSet_PidOnly(t) == {th[t].pid} \ {None}

(* stop_service_internal: what each service is stopped with, and the       *)
(* load_pids after it.  nginx -s stop removes nginx.pid if nginx has the   *)
(* time to; mysqladmin returns before mysqld is gone.                      *)
KillSet(t) ==
  LET s == Me(t).svc
      known == {th[t].pid} \ {None}
  IN  IF s = "mysql" THEN known ELSE known \cup AliveOf(s)

ShutdownHeard == AdminLogin /\ \E p \in AliveOf("mysql") : phase[p] = "listening"

Kill(t) ==
  /\ At(t, "kill", {"stop"})
  /\ IF Me(t).svc = "mysql" /\ ShutdownHeard
     THEN phase' = [p \in Pids |-> IF image[p] = "mysql" /\ phase[p] = "listening"
                                   THEN "closing" ELSE phase[p]]
     ELSE phase' = Killed(KillSet(t))
  /\ nginxPid' \in IF Me(t).svc = "nginx" THEN {nginxPid, None} ELSE {nginxPid}
  /\ th' = [th EXCEPT ![t].pc = "write", ![t].pid = None,
                      ![t].buf = [load_pids EXCEPT !.pid[Me(t).svc] = None]]
  /\ UNCHANGED <<image, pidFile>> /\ OnlyThreads

(* save_pids *)
Write(t) ==
  /\ At(t, "write", Ops)
  /\ OpenForWrite
  /\ th' = [th EXCEPT ![t].pc = "flush", ![t].pid = None]
  /\ UNCHANGED procVars /\ OnlyThreads

Flush(t) ==
  /\ At(t, "flush", Ops)
  /\ WriteTable(th[t].buf)
  /\ Return(t)
  /\ UNCHANGED procVars /\ OnlyThreads

(* What open or write raises is swallowed: the caller goes on, with the    *)
(* file as it is or with a part of the text in it.                         *)
SaveFails(t) ==
  /\ "save" \in Faults /\ events < MaxEvents
  /\ \/ At(t, "write", Ops) /\ UNCHANGED pidFile
     \/ At(t, "flush", Ops) /\ pidFile' \in {pidFile, GarbledFile}
  /\ Return(t)
  /\ events' = events + 1
  /\ UNCHANGED <<procVars, gui, activeWeb, activePhp>>

(* Mutant: the other web server is not stopped. *)
Nested_NoStop(s, v) == IF s \in Web THEN <<Call("php", "php", v)>> ELSE <<>>

(* start_service_internal: status, load_pids, and the other web server.    *)
(* The table read here is the one written at the end.                      *)
Nested(s, v) ==
  IF s \in Web THEN <<Call("stop", OtherWeb(s), None), Call("php", "php", v)>> ELSE <<>>

StartCheck(t) ==
  /\ At(t, "begin", {"start"})
  /\ LET s == IF Me(t).svc = Active THEN activeWeb ELSE Me(t).svc
     IN  IF Running(load_pids, s)
         THEN Return(t)
         ELSE th' = [th EXCEPT ![t].snap = load_pids,
                ![t].todo = Nested(s, Ver(t)) \o <<Call("spawn", s, Ver(t))>> \o Rest(t)]
  /\ UNCHANGED <<procVars, pidFile>> /\ OnlyThreads

(* start_php_internal: status *)
PhpCheck(t) ==
  /\ At(t, "begin", {"php"})
  /\ IF Running(load_pids, "php")
     THEN Return(t)
     ELSE th' = [th EXCEPT ![t].todo = <<Call("phpSpawn", "php", Ver(t))>> \o Rest(t)]
  /\ UNCHANGED <<procVars, pidFile>> /\ OnlyThreads

(* Popen of either function *)
ChosenVersion(t) ==
  CASE Me(t).svc # "php"  -> None
    [] Me(t).ver # None   -> Me(t).ver
    [] OTHER              -> get_current_php_version

Spawn(t) ==
  /\ At(t, "begin", {"spawn", "phpSpawn"})
  /\ \E p \in Pids :
       /\ Popen(p, Me(t).svc)
       /\ th' = [th EXCEPT ![t].pc = "wait", ![t].pid = p,
                   ![t].todo = <<Call(Me(t).op, Me(t).svc, ChosenVersion(t))>> \o Rest(t)]
  /\ UNCHANGED pidFile /\ OnlyThreads

(* The executable is not there, or Popen raises. *)
SpawnFails(t) ==
  /\ At(t, "begin", {"spawn", "phpSpawn"})
  /\ Return(t)
  /\ UNCHANGED <<procVars, pidFile>> /\ OnlyThreads

(* Mutant: Apache's start reads nginx.pid, too. *)
PidFound_AnyWeb(t) == IF Me(t).svc \in Web /\ nginxPid # None THEN nginxPid ELSE th[t].pid

(* The port is open: the pid to record.  start_service_internal prefers    *)
(* nginx.pid for nginx and writes the table it read at its start;          *)
(* start_php_internal reads the table now.                                 *)
PidFound(t) == IF Me(t).svc = "nginx" /\ nginxPid # None THEN nginxPid ELSE th[t].pid

(* Mutant: a start begins with an empty table. *)
TableRead_Empty(t) == IF Me(t).op = "phpSpawn" THEN load_pids ELSE NoPids

TableRead(t) == IF Me(t).op = "phpSpawn" THEN load_pids ELSE th[t].snap

WaitOk(t) ==
  /\ At(t, "wait", {"spawn", "phpSpawn"})
  /\ is_port_open(PortOf[Me(t).svc])
  /\ LET v == IF Me(t).svc = "php" THEN Me(t).ver ELSE TableRead(t).ver
     IN  th' = [th EXCEPT ![t].pc = "write", ![t].pid = PidFound(t),
                  ![t].buf = [pid |-> [TableRead(t).pid EXCEPT ![Me(t).svc] = PidFound(t)],
                              ver |-> v]]
  /\ UNCHANGED <<procVars, pidFile>> /\ OnlyThreads

(* Mutant: the process that did not bind in time is left alone. *)
WaitTimeout_Leaves(t) ==
  /\ At(t, "wait", {"spawn", "phpSpawn"})
  /\ ~is_port_open(PortOf[Me(t).svc])
  /\ Return(t)
  /\ UNCHANGED <<procVars, pidFile>> /\ OnlyThreads

(* Mutant: the polls are not counted. *)
WaitTimeout_Polls(t) ==
  /\ At(t, "wait", {"spawn", "phpSpawn"})
  /\ ~is_port_open(PortOf[Me(t).svc])
  /\ UNCHANGED vars

(* 25 (15 for PHP) polls of 200 ms found the port closed. *)
WaitTimeout(t) ==
  /\ At(t, "wait", {"spawn", "phpSpawn"})
  /\ ~is_port_open(PortOf[Me(t).svc])
  /\ taskkill({th[t].pid})
  /\ Return(t)
  /\ UNCHANGED pidFile /\ OnlyThreads

(* perform_version_change: the new version goes to the table *)
SetVersion(t) ==
  /\ At(t, "begin", {"setver"})
  /\ th' = [th EXCEPT ![t].pc = "write", ![t].buf = [load_pids EXCEPT !.ver = Me(t).ver]]
  /\ UNCHANGED <<procVars, pidFile>> /\ OnlyThreads

(* perform_version_change and toggle_extension: a running PHP is restarted *)
Restart(t) ==
  /\ At(t, "begin", {"restart"})
  /\ Continue(t, (IF Running(load_pids, "php")
                  THEN <<Call("stop", "php", None), Call("php", "php", Me(t).ver)>>
                  ELSE <<>>) \o Rest(t))
  /\ UNCHANGED <<procVars, pidFile>> /\ OnlyThreads

(* real_exit: os._exit ends every thread where it stands *)
FinishExit(t) ==
  /\ At(t, "begin", {"exit"})
  /\ gui' = "down"
  /\ th' = [u \in Threads |-> IdleThread]
  /\ UNCHANGED <<procVars, pidFile, activeWeb, activePhp, events>>

ThreadStep(t) ==
  \/ StopCheck(t) \/ Kill(t) \/ Write(t) \/ Flush(t)
  \/ StartCheck(t) \/ PhpCheck(t) \/ Spawn(t) \/ SpawnFails(t)
  \/ WaitOk(t) \/ WaitTimeout(t)
  \/ SetVersion(t) \/ Restart(t) \/ FinishExit(t)

-----------------------------------------------------------------------------
(* Buttons.  Each runs in the window's thread and starts a daemon thread.  *)

Press(t, request, todo) ==
  /\ request \in Requests /\ events < MaxEvents
  /\ gui = "up" /\ Idle(t)
  /\ th' = [th EXCEPT ![t].todo = todo]
  /\ events' = events + 1
  /\ UNCHANGED <<procVars, pidFile>>

(* toggle_service reads the status before it starts the thread *)
ToggleService(t, s) ==
  /\ Press(t, "toggle", IF Running(load_pids, s) THEN <<Call("stop", s, None)>>
                                                 ELSE <<Call("start", s, Active)>>)
  /\ UNCHANGED <<gui, activeWeb, activePhp>>

SwitchServer(t, w) ==
  /\ activeWeb # w
  /\ Press(t, "switch", <<Call("stop", OtherWeb(w), None), Call("start", w, Active)>>)
  /\ activeWeb' = w
  /\ UNCHANGED <<gui, activePhp>>

StartAll(t) ==
  /\ Press(t, "all", <<Call("start", "mysql", None), Call("start", Active, Active)>>)
  /\ UNCHANGED <<gui, activeWeb, activePhp>>

(* Mutant: PHP is forgotten. *)
StopEach_NoPhp == <<Call("stop", "nginx", None), Call("stop", "apache", None),
                    Call("stop", "mysql", None)>>

StopEach == <<Call("stop", "nginx", None), Call("stop", "apache", None),
              Call("stop", "mysql", None), Call("stop", "php", None)>>

StopAll(t) ==
  /\ Press(t, "all", StopEach)
  /\ UNCHANGED <<gui, activeWeb, activePhp>>

ChangePhpVersion(t, v) ==
  /\ v # activePhp
  /\ Press(t, "version", <<Call("setver", None, v), Call("restart", None, v)>>)
  /\ activePhp' = v
  /\ UNCHANGED <<gui, activeWeb>>

(* The edit of php.ini has succeeded. *)
ToggleExtension(t) ==
  /\ Press(t, "extension", <<Call("restart", None, Active)>>)
  /\ UNCHANGED <<gui, activeWeb, activePhp>>

(* closeEvent and the tray's exit entry.  The loop runs in the window's    *)
(* own thread; here it takes the place of a daemon thread.                 *)
RealExit(t) ==
  /\ Press(t, "exit", StopEach \o <<Call("exit", None, None)>>)
  /\ gui' = "exiting"
  /\ UNCHANGED <<activeWeb, activePhp>>

Button(t) ==
  \/ \E s \in Services : ToggleService(t, s)
  \/ \E w \in Web : SwitchServer(t, w)
  \/ StartAll(t) \/ StopAll(t)
  \/ \E v \in Versions : ChangePhpVersion(t, v)
  \/ ToggleExtension(t) \/ RealExit(t)

-----------------------------------------------------------------------------
(* The window comes up: pids whose port is closed are dropped, then the    *)
(* PHP version and the web server are taken from what is found.            *)
Cleaned(tbl) ==
  [tbl EXCEPT !.pid = [s \in Services |-> IF is_port_open(PortOf[s]) THEN tbl.pid[s] ELSE None]]

LaunchWith(tbl) ==
  /\ gui' = "up"
  /\ activePhp' = VersionIn(tbl)
  /\ activeWeb' = IF Running(tbl, "apache") THEN "apache" ELSE "nginx"
  /\ UNCHANGED <<procVars, th>>

Launch ==
  /\ gui = "down"
  /\ pidFile' = IF Cleaned(load_pids) # load_pids
                THEN [state |-> "json", data |-> Cleaned(load_pids)] ELSE pidFile
  /\ LaunchWith(Cleaned(load_pids))
  /\ UNCHANGED events

(* The same, when the cleaned table cannot be saved. *)
LaunchUnsaved ==
  /\ "save" \in Faults
  /\ gui = "down" /\ Cleaned(load_pids) # load_pids
  /\ \/ UNCHANGED pidFile /\ LaunchWith(load_pids)
     \/ pidFile' \in {EmptyFile, GarbledFile} /\ LaunchWith(NoPids)
  /\ UNCHANGED events

(* The application is killed; the services are detached and go on. *)
AppCrash ==
  /\ "app" \in Faults /\ gui # "down" /\ events < MaxEvents
  /\ gui' = "down"
  /\ th' = [t \in Threads |-> IdleThread]
  /\ events' = events + 1
  /\ UNCHANGED <<procVars, pidFile, activeWeb, activePhp>>

ServiceCrash(p) ==
  /\ "process" \in Faults /\ events < MaxEvents
  /\ ProcCrash(p)
  /\ events' = events + 1
  /\ UNCHANGED <<pidFile, th, gui, activeWeb, activePhp>>

Environment ==
  \/ \E p \in Pids : /\ Bind(p) \/ WriteNginxPid(p) \/ CloseDown(p) \/ ReusePid(p)
                    /\ UNCHANGED <<pidFile, appVars>>
  \/ \E p \in Pids : ServiceCrash(p)

(* Every press of this instance is used up and its threads are done. *)
Quiet ==
  /\ events = MaxEvents /\ \A t \in Threads : Idle(t)
  /\ UNCHANGED vars

Next ==
  \/ \E t \in Threads : ThreadStep(t) \/ SaveFails(t) \/ Button(t)
  \/ Launch \/ LaunchUnsaved \/ AppCrash \/ Environment \/ Quiet

Spec == Init /\ [][Next]_vars

(* Threads run on: no step of theirs waits for another thread, and the     *)
(* polls are bounded.  A process started or told to shut down gets there.  *)
Fairness ==
  /\ \A t \in Threads : WF_vars(ThreadStep(t))
  /\ \A p \in Pids : WF_vars((Bind(p) \/ CloseDown(p)) /\ UNCHANGED <<pidFile, appVars>>)

FairSpec == Spec /\ Fairness

-----------------------------------------------------------------------------
(* Properties *)

Listening(s) == \E p \in AliveOf(s) : phase[p] = "listening"

(* One web server serves at a time ("Enforce web server mutual exclusion", *)
(* app.py:476): whatever is pressed, in whatever order, Nginx and Apache   *)
(* never both listen, also when they are configured to different ports.    *)
WebServersExclusive == ~(Listening("nginx") /\ Listening("apache"))

(* A start that is about to record its pid and report success: the service *)
(* listens, so that the port probe of "Wait up to 5 seconds for port bind" *)
(* (app.py:551) answered for it and not for another server, and the pid is *)
(* that of the listening process.  For nginx the pid read from its pid     *)
(* file may be that of an nginx of an earlier run, never that of another   *)
(* service.                                                                *)
StartedMeansUp ==
  \A t \in Threads : At(t, "write", {"spawn", "phpSpawn"}) =>
    /\ Listening(Me(t).svc)
    /\ image[th[t].pid] = Me(t).svc
    /\ Me(t).svc # "nginx" => phase[th[t].pid] = "listening"

(* When no thread is at work, the version the window shows is the one in   *)
(* the table: the choice made with the combo box is not lost to the        *)
(* snapshot some start wrote back, and the next session begins with it.    *)
VersionDurable ==
  gui = "up" /\ (\A t \in Threads : Idle(t)) => load_pids.ver = activePhp

(* When the window is gone by its exit dialog ("Shutting down background   *)
(* services...", app.py:3496), no service serves or is about to, except a  *)
(* mysqld that is shutting down.                                           *)
ExitLeavesNothing ==
  gui = "down" => \A p \in Pids : image[p] \in Services => phase[p] \notin {"live", "listening"}

(* A stop that is about to clear the entry and report "stopped"            *)
(* (app.py:2144) leaves no listening process of the service: mysqladmin,   *)
(* taskkill by pid or taskkill by name has reached it.                     *)
StoppedMeansDown ==
  \A t \in Threads : At(t, "write", {"stop"}) => ~Listening(Me(t).svc)

(* After a start, PHP listens and the table says which process it is, as   *)
(* the dashboard needs to "monitor" it (README.md:13): whenever no thread  *)
(* is at work a listening PHP has an entry.                                *)
PhpPidTracked ==
  gui = "up" /\ (\A t \in Threads : Idle(t)) /\ Listening("php") => load_pids.pid["php"] # None

(* No entry of the table ever names a process of another service, whatever *)
(* threads, crashes and torn writes do, as long as Windows does not hand a *)
(* dead process's id out again: a stale entry may name a dead process, it  *)
(* never names the wrong one.                                              *)
RecordedPidIsOwn ==
  \A s \in Services : pidFile.data.pid[s] # None => image[pidFile.data.pid[s]] = s

(* A thread that stops or gives up on a service never kills a process of   *)
(* any other program.                                                      *)
KillsOnlyOwn ==
  [][\A p \in Pids : Alive(p) /\ phase'[p] = "dead" =>
       \A t \in Threads : th'[t] # th[t] => image[p] = Me(t).svc]_vars

(* Every press is carried out to its end: whatever a thread waits for, the *)
(* polls are bounded and it gets to the end of its calls.                  *)
RequestsFinish == \A t \in Threads : ~Idle(t) ~> Idle(t)

(* After the exit dialog every service process is gone for good, mysqld    *)
(* included, unless the window is opened again.                            *)
ShutdownCompletes ==
  gui = "exiting" ~> (\A s \in Services : AliveOf(s) = {}) \/ gui = "up"

-----------------------------------------------------------------------------
(* With one press at a time the control centre implements ServiceBoard.    *)

(* The services a call is about; a start that has not looked yet may mean  *)
(* either web server.                                                      *)
About(c) == IF c.svc = Active THEN Web ELSE {c.svc}

MayCome(c) ==
  {s \in Services : \/ c.op \in {"start", "spawn", "php", "phpSpawn"} /\ s \in About(c)
                    \/ c.op = "start" /\ About(c) \subseteq Web /\ s = "php"
                    \/ c.op = "restart" /\ s = "php"}

MayGo(c) ==
  {s \in Services : \/ c.op = "stop" /\ s \in About(c)
                    \/ c.op = "start" /\ s \in Web /\ OtherWeb(s) \in About(c)
                    \/ c.op = "restart" /\ s = "php"}

Pending == UNION {{th[t].todo[i] : i \in DOMAIN th[t].todo} : t \in Threads}

Board == INSTANCE ServiceBoard WITH
  BoardServices <- Services,
  Exclusive     <- Web,
  up            <- {s \in Services : Listening(s)},
  mayCome       <- UNION {MayCome(c) : c \in Pending},
  mayGo         <- UNION {MayGo(c) : c \in Pending}

(* A press touches the services it is about and no other; web servers are  *)
(* exclusive; between presses nothing comes or goes.                       *)
ImplementsBoard == Board!BoardSpec
=============================================================================
