------------------------------ MODULE Processes ------------------------------
(***************************************************************************)
(* The Windows side of WinPHP, as app.py and cli.ps1 use it: the process   *)
(* table, the loopback ports and nginx's own logs/nginx.pid.  None of it   *)
(* is code of the repository, except the two probes is_pid_running and     *)
(* is_port_open; the rest is modelled from the commands the code runs      *)
(* (Popen, taskkill, nginx -s stop, mysqladmin shutdown).                  *)
(***************************************************************************)
EXTENDS FiniteSets

CONSTANTS
  Pids,       \* process ids Windows may hand out (a bound: Popen needs one)
  None,       \* JSON null / Python None
  PortOf,     \* PORTS: the port each service is configured to listen on
  BusyPorts,  \* ports some program outside WinPHP already listens on
  ReusePids,  \* whether Windows gives the id of a dead process out again
  PidProbe    \* whether os.kill(pid, 0) finds a live process: on Windows 0 is
              \* CTRL_C_EVENT, and a process of another console may refuse it

Web      == {"nginx", "apache"}
Services == Web \cup {"mysql", "php"}
OtherWeb(w) == IF w = "nginx" THEN "apache" ELSE "nginx"

ASSUME ProcessesAssumption ==
  /\ None \notin Pids \cup Services
  /\ DOMAIN PortOf = Services
  /\ ReusePids \in BOOLEAN /\ PidProbe \in BOOLEAN

VARIABLES
  image,    \* image[p]: the service whose executable p runs, or "other"
  phase,    \* phase[p]: where process p is in its life
  nginxPid  \* content of bin/nginx/logs/nginx.pid, None when there is none

procVars == <<image, phase, nginxPid>>

(* "live": started and not listening; "closing": mysqld told to shut down, *)
(* still alive and still listening.                                        *)
Phases == {"free", "live", "listening", "closing", "dead"}

ProcTypeOK ==
  /\ image \in [Pids -> Services \cup {"other"}]
  /\ phase \in [Pids -> Phases]
  /\ nginxPid \in Pids \cup {None}

ProcInit ==
  /\ image = [p \in Pids |-> "other"]
  /\ phase = [p \in Pids |-> "free"]
  /\ nginxPid = None

Alive(p) == phase[p] \in {"live", "listening", "closing"}

is_pid_running(p) == PidProbe /\ Alive(p)

AliveOf(s) == {p \in Pids : image[p] = s /\ Alive(p)}

is_process_running_by_name(s) == AliveOf(s) # {}

Listeners(port) ==
  {p \in Pids : /\ image[p] \in Services
                /\ phase[p] \in {"listening", "closing"}
                /\ PortOf[image[p]] = port}

is_port_open(port) == port \in BusyPorts \/ Listeners(port) # {}

(* Popen([...]): Windows chooses the id. *)
Popen(p, s) ==
  /\ phase[p] = "free" \/ (ReusePids /\ phase[p] = "dead")
  /\ image' = [image EXCEPT ![p] = s]
  /\ phase' = [phase EXCEPT ![p] = "live"]
  /\ UNCHANGED nginxPid

(* taskkill /F on every process of K that is still alive. *)
Killed(K) == [p \in Pids |-> IF p \in K /\ Alive(p) THEN "dead" ELSE phase[p]]

taskkill(K) == phase' = Killed(K) /\ UNCHANGED <<image, nginxPid>>

-----------------------------------------------------------------------------
(* What the service processes do by themselves. *)

(* A started server takes its port; one that finds it taken exits.         *)
Bind(p) ==
  /\ image[p] \in Services /\ phase[p] = "live"
  /\ phase' = [phase EXCEPT ![p] = IF is_port_open(PortOf[image[p]]) THEN "dead" ELSE "listening"]
  /\ UNCHANGED <<image, nginxPid>>

(* nginx writes its pid file some time after it listens.  Until then, and  *)
(* after a taskkill /F for good, the file names an nginx of an earlier run. *)
WriteNginxPid(p) ==
  /\ image[p] = "nginx" /\ phase[p] = "listening" /\ nginxPid # p
  /\ nginxPid' = p
  /\ UNCHANGED <<image, phase>>

(* mysqladmin's shutdown request has been carried out. *)
CloseDown(p) ==
  /\ phase[p] = "closing"
  /\ phase' = [phase EXCEPT ![p] = "dead"]
  /\ UNCHANGED <<image, nginxPid>>

(* A service process dies for a reason of its own. *)
ProcCrash(p) ==
  /\ image[p] \in Services /\ Alive(p)
  /\ phase' = [phase EXCEPT ![p] = "dead"]
  /\ UNCHANGED <<image, nginxPid>>

(* The id of a dead process now names a program WinPHP knows nothing of. *)
ReusePid(p) ==
  /\ ReusePids /\ phase[p] = "dead"
  /\ image' = [image EXCEPT ![p] = "other"]
  /\ phase' = [phase EXCEPT ![p] = "live"]
  /\ UNCHANGED nginxPid

=============================================================================
