---------------------------- MODULE CommandLine ----------------------------
(***************************************************************************)
(* cli.ps1, the console behind server.bat: the commands start, stop,       *)
(* restart, web and php.  It has no part of app.py in it, does the same    *)
(* work once more, and shares with it the processes and the file           *)
(* bin/services_pids.json, which the two write in different ways:          *)
(*   - WriteAllText(..., UTF8) puts a byte order mark in front, and then   *)
(*     json.load of app.py raises and load_pids answers {};                *)
(*   - a property of an object read by ConvertFrom-Json can be assigned    *)
(*     only if it is there, so a key app.py left out stays missing.        *)
(* One command runs at a time; app.py may write the file between its       *)
(* steps, one handler at a time (ServiceControl has the steps of those).   *)
(***************************************************************************)
EXTENDS Processes, Sequences, Naturals

CONSTANTS
  Missing,        \* what a key has for a value that is not in the file
  Versions,       \* folders bin/php/php-*
  NewestVersion,  \* the first of them in descending order
  AppUsed,        \* whether app.py is used beside the console
  SaveMayFail,    \* whether services_pids.json may refuse to be written
  MaxEvents       \* bound on commands and handlers of app.py together

ASSUME CommandLineAssumption ==
  /\ {None, Missing} \cap (Versions \cup Pids) = {} /\ None # Missing
  /\ NewestVersion \in Versions
  /\ AppUsed \in BOOLEAN /\ SaveMayFail \in BOOLEAN
  /\ MaxEvents \in Nat

VARIABLES
  table,  \* services_pids.json: [pid, ver, bom]
  cli,    \* the console: [pid, todo, pc, snap, buf]
  last,   \* the version the last command switched to, None if it did not or
          \* its save failed with a warning
  events

vars == <<procVars, table, cli, last, events>>

Tables == [pid : [Services -> Pids \cup {None, Missing}],
           ver : Versions \cup {None, Missing}, bom : BOOLEAN]

AllKeys(x) == [pid |-> [s \in Services |-> x], ver |-> x, bom |-> FALSE]

(* A call: what to do, to which service, with which PHP version. *)
Ops   == {"stop", "start", "spawn", "php", "phpSpawn", "setver", "restartPhp", "startActive"}
Calls == [ver : Versions \cup {None}, op : Ops, svc : Services \cup {None}]

Call(op, svc, ver) == [ver |-> ver, op |-> op, svc |-> svc]

CliIdle == [pid |-> None, todo |-> <<>>, pc |-> "begin",
            snap |-> AllKeys(None), buf |-> AllKeys(None)]

TypeOK ==
  /\ ProcTypeOK
  /\ table \in Tables
  /\ cli \in [todo : Seq(Calls), pc : {"begin", "kill", "wait", "write"},
              pid : Pids \cup {None}, snap : Tables, buf : Tables]
  /\ last \in Versions \cup {None}
  /\ events \in 0..MaxEvents

Init ==
  /\ ProcInit
  /\ \E v \in Versions : table = [AllKeys(None) EXCEPT !.ver = v]
  /\ cli = CliIdle /\ last = None
  /\ events = 0

-----------------------------------------------------------------------------
(* Load-Pids, Get-ServiceStatus *)

(* $pids.<key> = value: an error, and no change, when there is no such key *)
SetPid(tbl, s, p) == IF tbl.pid[s] = Missing THEN tbl ELSE [tbl EXCEPT !.pid[s] = p]

SetVer(tbl, v) == IF tbl.ver = Missing THEN tbl ELSE [tbl EXCEPT !.ver = v]

(* Mutant: without the fallback to the newest version. *)
PhpVersionOf_Raw(tbl) == tbl.ver

PhpVersionOf(tbl) == IF tbl.ver \in Versions THEN tbl.ver ELSE NewestVersion

GetCurrentPhpVersion == PhpVersionOf(table)

PidRunning(s) == table.pid[s] \in Pids /\ Alive(table.pid[s])

Running(s) == PidRunning(s) \/ (AliveOf(s) # {} /\ is_port_open(PortOf[s]))

Listening(s) == \E p \in AliveOf(s) : phase[p] = "listening"

(* A dead entry gives way to nginx.pid; without any, one of the processes  *)
(* of that name is taken.                                                  *)
StatusPids(s) ==
  LET known == IF ~PidRunning(s) /\ s = "nginx" /\ nginxPid # None THEN nginxPid
                                                                   ELSE table.pid[s]
  IN  IF known \in Pids THEN {known} ELSE AliveOf(s)

GetActiveWebServer == IF Running("apache") THEN "apache" ELSE "nginx"

-----------------------------------------------------------------------------
(* The console's steps *)

Idle == cli.todo = <<>>
Me   == Head(cli.todo)
Rest == Tail(cli.todo)

At(pc, ops) == ~Idle /\ cli.pc = pc /\ Me.op \in ops

(* What is not used any more is forgotten; the table a start has read is   *)
(* used until its spawn is over.                                           *)
Continue(seq) ==
  cli' = [CliIdle EXCEPT !.todo = seq,
            !.snap = IF \E i \in DOMAIN seq : seq[i].op = "spawn" THEN cli.snap ELSE @]

OnlyCli == UNCHANGED <<table, last, events>>

(* Stop-ServiceInternal: status; a stopped service is cleared and saved *)
StopCheck ==
  /\ At("begin", {"stop"})
  /\ IF Running(Me.svc)
     THEN \E p \in StatusPids(Me.svc) : cli' = [cli EXCEPT !.pc = "kill", !.pid = p]
     ELSE cli' = [cli EXCEPT !.pc = "write", !.buf = SetPid(table, Me.svc, None)]
  /\ UNCHANGED procVars /\ OnlyCli

(* Mutant: mysqld is left to mysqladmin, which it does not hear. *)
Kill_NotMysql ==
  /\ At("kill", {"stop"})
  /\ phase' = Killed(IF Me.svc = "mysql" THEN {} ELSE {cli.pid} \cup AliveOf(Me.svc))
  /\ nginxPid' \in IF Me.svc = "nginx" THEN {nginxPid, None} ELSE {nginxPid}
  /\ cli' = [cli EXCEPT !.pc = "write", !.pid = None, !.buf = SetPid(table, Me.svc, None)]
  /\ UNCHANGED image /\ OnlyCli

(* Stop-ServiceInternal: taskkill by pid, Stop-Process by name, which also *)
(* ends a mysqld that mysqladmin has just told to shut down               *)
Kill ==
  /\ At("kill", {"stop"})
  /\ phase' = Killed({cli.pid} \cup AliveOf(Me.svc))
  /\ nginxPid' \in IF Me.svc = "nginx" THEN {nginxPid, None} ELSE {nginxPid}
  /\ cli' = [cli EXCEPT !.pc = "write", !.pid = None, !.buf = SetPid(table, Me.svc, None)]
  /\ UNCHANGED image /\ OnlyCli

(* Save-Pids *)
Write ==
  /\ At("write", Ops)
  /\ table' = [cli.buf EXCEPT !.bom = TRUE]
  /\ Continue(Rest)
  /\ UNCHANGED <<procVars, last, events>>

(* A text that was cut off: Load-Pids answers its default object, or none  *)
(* for a file that is empty, and load_pids of app.py answers {}.           *)
CutOff == {[AllKeys(x) EXCEPT !.bom = TRUE] : x \in {None, Missing}}

(* Save-Pids' catch: a warning, and the caller goes on                     *)
WriteFails ==
  /\ SaveMayFail /\ events < MaxEvents
  /\ At("write", Ops)
  /\ \/ UNCHANGED table /\ last' = IF Me.op = "setver" THEN None ELSE last
     \/ table' \in CutOff /\ last' = None
  /\ Continue(Rest)
  /\ events' = events + 1
  /\ UNCHANGED procVars

(* Mutant: the other web server is not stopped. *)
Nested_NoStop(s, v) == IF s \in Web THEN <<Call("php", "php", v)>> ELSE <<>>

(* Start-ServiceInternal: status, Load-Pids, the other web server, PHP *)
Nested(s, v) ==
  IF s \in Web THEN <<Call("stop", OtherWeb(s), None), Call("php", "php", v)>> ELSE <<>>

StartCheck ==
  /\ At("begin", {"start"})
  /\ IF Running(Me.svc)
     THEN Continue(Rest)
     ELSE cli' = [cli EXCEPT !.snap = table,
                    !.todo = Nested(Me.svc, Me.ver) \o <<Call("spawn", Me.svc, Me.ver)>> \o Rest]
  /\ UNCHANGED procVars /\ OnlyCli

(* Start-PhpInternal: status *)
PhpCheck ==
  /\ At("begin", {"php"})
  /\ IF Running("php") THEN Continue(Rest)
                       ELSE Continue(<<Call("phpSpawn", "php", Me.ver)>> \o Rest)
  /\ UNCHANGED procVars /\ OnlyCli

Spawn ==
  /\ At("begin", {"spawn", "phpSpawn"})
  /\ \E p \in Pids : Popen(p, Me.svc) /\ cli' = [cli EXCEPT !.pc = "wait", !.pid = p]
  /\ OnlyCli

(* No executable, or Process.Start raises. *)
SpawnFails ==
  /\ At("begin", {"spawn", "phpSpawn"})
  /\ Continue(Rest)
  /\ UNCHANGED procVars /\ OnlyCli

(* The table a start saves is the one it read first, PHP's the present one *)
TableRead == IF Me.op = "phpSpawn" THEN table ELSE cli.snap

(* Mutant: Apache's start reads nginx.pid, too. *)
PidFound_AnyWeb == IF Me.op = "spawn" /\ Me.svc \in Web /\ nginxPid # None THEN nginxPid
                                                                           ELSE cli.pid

PidFound == IF Me.op = "spawn" /\ Me.svc = "nginx" /\ nginxPid # None THEN nginxPid ELSE cli.pid

WaitOk ==
  /\ At("wait", {"spawn", "phpSpawn"})
  /\ is_port_open(PortOf[Me.svc])
  /\ LET tbl == IF Me.svc = "php" THEN SetVer(TableRead, Me.ver) ELSE TableRead
     IN  cli' = [cli EXCEPT !.pc = "write", !.pid = PidFound,
                            !.buf = SetPid(tbl, Me.svc, PidFound)]
  /\ UNCHANGED procVars /\ OnlyCli

WaitTimeout ==
  /\ At("wait", {"spawn", "phpSpawn"})
  /\ ~is_port_open(PortOf[Me.svc])
  /\ taskkill({cli.pid})
  /\ Continue(Rest)
  /\ OnlyCli

(* Mutant: PHP's restart is given the version before. *)
SetVersion_Late ==
  /\ At("begin", {"setver"})
  /\ cli' = [cli EXCEPT !.pc = "write", !.buf = SetVer(table, GetCurrentPhpVersion)]
  /\ UNCHANGED procVars /\ OnlyCli

(* server.bat php: the version is saved, a PHP that runs is restarted *)
SetVersion ==
  /\ At("begin", {"setver"})
  /\ cli' = [cli EXCEPT !.pc = "write", !.buf = SetVer(table, Me.ver)]
  /\ UNCHANGED procVars /\ OnlyCli

RestartPhp ==
  /\ At("begin", {"restartPhp"})
  /\ Continue((IF Running("php") THEN <<Call("stop", "php", None), Call("php", "php", Me.ver)>>
                                 ELSE <<>>) \o Rest)
  /\ UNCHANGED procVars /\ OnlyCli

(* server.bat restart: what to start is decided after everything stopped *)
StartActive ==
  /\ At("begin", {"startActive"})
  /\ Continue(<<Call("start", "mysql", GetCurrentPhpVersion),
                Call("start", GetActiveWebServer, GetCurrentPhpVersion)>> \o Rest)
  /\ UNCHANGED procVars /\ OnlyCli

CliStep ==
  \/ StopCheck \/ Kill \/ Write \/ WriteFails \/ StartCheck \/ PhpCheck \/ Spawn \/ SpawnFails
  \/ WaitOk \/ WaitTimeout \/ SetVersion \/ RestartPhp \/ StartActive

-----------------------------------------------------------------------------
(* Main: the commands *)

Command(v, todo) ==
  /\ Idle /\ events < MaxEvents
  /\ cli' = [CliIdle EXCEPT !.todo = todo]
  /\ last' = v
  /\ events' = events + 1
  /\ UNCHANGED <<procVars, table>>

StopEach == <<Call("stop", "nginx", None), Call("stop", "apache", None),
              Call("stop", "mysql", None), Call("stop", "php", None)>>

StartAll == Command(None, <<Call("startActive", None, None)>>)

StartOne(s) == Command(None, <<Call("start", s, GetCurrentPhpVersion)>>)

StopAll == Command(None, StopEach)

StopOne(s) == Command(None, <<Call("stop", s, None)>>)

RestartAll == Command(None, StopEach \o <<Call("startActive", None, None)>>)

RestartOne(s) ==
  Command(None, <<Call("stop", s, None), Call("start", s, GetCurrentPhpVersion)>>)

SwitchWeb(w) ==
  /\ w # GetActiveWebServer
  /\ Command(None, <<Call("stop", OtherWeb(w), None),
                            Call("start", w, GetCurrentPhpVersion)>>)

SwitchPhp(v) ==
  /\ v # GetCurrentPhpVersion
  /\ Command(v, <<Call("setver", None, v), Call("restartPhp", None, v)>>)

Commands ==
  \/ StartAll \/ StopAll \/ RestartAll
  \/ \E s \in Services : StartOne(s) \/ StopOne(s) \/ RestartOne(s)
  \/ \E w \in Web : SwitchWeb(w)
  \/ \E v \in Versions : SwitchPhp(v)

-----------------------------------------------------------------------------
(* Handlers of app.py.  They are not answerable for the last command.      *)

AppLoadPids == IF table.bom THEN AllKeys(Missing) ELSE table

AppHandler ==
  /\ AppUsed /\ events < MaxEvents
  /\ events' = events + 1 /\ last' = None
  /\ UNCHANGED cli

(* app.py's stop of a service: get_service_status, kill, load_pids, save_pids *)
AppStop(s) ==
  LET tbl == AppLoadPids
  IN  /\ AppHandler
      /\ \/ tbl.pid[s] \in Pids /\ is_pid_running(tbl.pid[s])
         \/ AliveOf(s) # {} /\ is_port_open(PortOf[s])
      /\ \/ s # "mysql" /\ taskkill(AliveOf(s))
         \/ s = "mysql" /\ taskkill({tbl.pid[s]} \cap Pids)
         \/ s = "mysql" /\ taskkill(AliveOf(s))  \* mysqladmin was let in
      /\ table' = [tbl EXCEPT !.pid[s] = None]

(* app.py's change of the PHP version while PHP does not run *)
AppChangePhpVersion(v) ==
  LET tbl == AppLoadPids
  IN  /\ AppHandler
      /\ AliveOf("php") = {}
      /\ table' = [tbl EXCEPT !.ver = v]
      /\ UNCHANGED procVars

AppHandlers ==
  \/ \E s \in Services : AppStop(s)
  \/ \E v \in Versions : AppChangePhpVersion(v)

Environment ==
  /\ \E p \in Pids : Bind(p) \/ WriteNginxPid(p)
  /\ UNCHANGED <<table, cli, last, events>>

Quiet == events = MaxEvents /\ Idle /\ UNCHANGED vars

Next == CliStep \/ Commands \/ AppHandlers \/ Environment \/ Quiet

Spec == Init /\ [][Next]_vars

-----------------------------------------------------------------------------
(* Properties *)

(* "Enforce web server mutual exclusion" (cli.ps1:406): whatever commands  *)
(* are given one after another, Nginx and Apache never both listen.        *)
WebServersExclusive == ~(Listening("nginx") /\ Listening("apache"))

(* "Service ... stopped." (cli.ps1:1097): a stop that is about to clear    *)
(* the entry has ended every process of the service, mysqld included,      *)
(* whether or not the table knew of it.                                    *)
StoppedMeansGone ==
  At("write", {"stop"}) => AliveOf(Me.svc) = {}

(* "Successfully switched active PHP version" (cli.ps1:1242) is the truth: *)
(* the console's next command uses that version, unless the window had     *)
(* left the key out of the file, for then it cannot be assigned.           *)
SwitchedPhpIsCurrent ==
  Idle /\ last # None /\ table.ver # Missing => GetCurrentPhpVersion = last

(* No entry names a process of another service, whoever wrote the table.   *)
RecordedPidIsOwn ==
  \A s \in Services : table.pid[s] \in Pids => image[table.pid[s]] = s

(* "Successfully switched active PHP version" (cli.ps1:1242) holds for the *)
(* other program, too: the window, opened next, starts the version chosen. *)
WindowUsesSwitchedPhp ==
  Idle /\ last # None => PhpVersionOf(AppLoadPids) = last
=============================================================================
