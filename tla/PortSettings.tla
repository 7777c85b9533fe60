---------------------------- MODULE PortSettings ----------------------------
(***************************************************************************)
(* The settings tab of app.py: save_port_settings changes PORTS and        *)
(* ports_config.json in the window's thread and leaves the configuration   *)
(* files of the servers to a daemon thread, which rewrites those whose     *)
(* port changed.  A start of Apache rewrites httpd.conf in full, from      *)
(* PORTS.  Every rewrite reads the file, empties it and writes it back,    *)
(* and no two of them exclude each other.  What fails is printed, passed   *)
(* over and reported as done: a file that is missing, or that cannot be    *)
(* read, emptied or written.                                               *)
(***************************************************************************)
EXTENDS Sequences, Naturals

CONSTANTS
  Workers,      \* bound on the threads that work at the same time
  Settings,     \* port assignments that may be typed into the four fields
  DefaultPorts, \* DEFAULT_PORTS
  Nothing,      \* what an emptied file says about a port
  Faults,       \* subset of {"app", "error"}
  MaxEvents     \* bound on button presses and faults together

Services == {"nginx", "apache", "mysql", "php"}
Files    == {"nginx.conf", "httpd.conf", "my.ini"}

(* What a file says: the port its server listens on, and the port at which *)
(* the server looks for PHP (of no interest in my.ini).                    *)
Empty == [listen |-> Nothing, fcgi |-> Nothing]

ASSUME PortSettingsAssumption ==
  /\ DefaultPorts \in Settings
  /\ Settings \subseteq [Services -> Nat]
  /\ Nothing \notin Nat \cup Settings
  /\ MaxEvents \in Nat

PortsUsed == UNION {{f[s] : s \in Services} : f \in Settings}
Contents  == [listen : PortsUsed \cup {Nothing}, fcgi : PortsUsed \cup {Nothing}]

VARIABLES
  PORTS,      \* the global of that name
  portsFile,  \* ports_config.json, or Nothing while it is empty
  file,       \* file[f]: what configuration file f says
  saving,     \* TRUE while the window's thread is inside save_ports
  job,        \* job[w]: [kind, new, todo, pc, buf] of a daemon thread
  harmed,     \* history: the files two threads had to rewrite at the same time,
              \* that an error or a kill kept from being rewritten, or that were
              \* written for ports the next session did not find
  mending,    \* history: how far a start of Apache is that httpd.conf can rely on
  events

vars == <<PORTS, portsFile, file, saving, job, harmed, mending, events>>

(* An edit of a configuration file: which file, and which service's port.  *)
Edits == [file : Files, svc : Services]

Edit(f, s) == [file |-> f, svc |-> s]

Jobs ==
  [kind : {"none", "ports", "apache"}, new : Settings, todo : Seq(Edits),
   pc : {"idle", "save", "read", "open", "write"}, buf : Contents]

NoJob == [kind |-> "none", new |-> DefaultPorts, todo |-> <<>>, pc |-> "idle", buf |-> Empty]

TypeOK ==
  /\ PORTS \in Settings
  /\ portsFile \in Settings \cup {Nothing}
  /\ file \in [Files -> Contents]
  /\ saving \in BOOLEAN
  /\ job \in [Workers -> Jobs]
  /\ harmed \subseteq Files \cup {"ports_config.json"}
  /\ mending \in {"no", "begun", "done"}
  /\ events \in 0..MaxEvents

(* What the installers wrote: every file follows PORTS. *)
Said(p) ==
  [f \in Files |->
     CASE f = "nginx.conf" -> [listen |-> p["nginx"],  fcgi |-> p["php"]]
       [] f = "httpd.conf" -> [listen |-> p["apache"], fcgi |-> p["php"]]
       [] OTHER            -> [listen |-> p["mysql"],  fcgi |-> Nothing]]

Init ==
  /\ PORTS = DefaultPorts /\ portsFile = DefaultPorts
  /\ file = Said(DefaultPorts)
  /\ saving = FALSE
  /\ job = [w \in Workers |-> NoJob]
  /\ harmed = {} /\ mending = "no"
  /\ events = 0

-----------------------------------------------------------------------------
(* save_port_settings *)

Working(w) == job[w].pc \in {"save", "read", "open", "write"}

(* The files apply_changes rewrites, in the order of its loop. *)
EditsFor(s) ==
  CASE s = "nginx"  -> <<Edit("nginx.conf", s)>>
    [] s = "apache" -> <<Edit("httpd.conf", s)>>
    [] s = "mysql"  -> <<Edit("my.ini", s)>>
    [] s = "php"    -> <<Edit("nginx.conf", s), Edit("httpd.conf", s)>>

Changed(s, old, new) == IF old[s] # new[s] THEN EditsFor(s) ELSE <<>>

(* Mutant: PHP's port is looked up in nginx.conf only. *)
Plan_PhpNginxOnly(old, new) ==
  Changed("nginx", old, new) \o Changed("apache", old, new) \o Changed("mysql", old, new)
    \o (IF old["php"] # new["php"] THEN <<Edit("nginx.conf", "php")>> ELSE <<>>)

Plan(old, new) ==
  Changed("nginx", old, new) \o Changed("apache", old, new) \o
  Changed("mysql", old, new) \o Changed("php", old, new)

FilesOf(todo) == {todo[i].file : i \in DOMAIN todo}

(* What the threads at work still have to rewrite. *)
Unfinished == UNION {FilesOf(job[x].todo) : x \in {y \in Workers : Working(y)}}

Shared(todo) == FilesOf(todo) \cap Unfinished

Harm(fs) ==
  /\ harmed' = harmed \cup fs
  /\ mending' = IF "httpd.conf" \in fs THEN "no" ELSE mending

Valid(new) == \A s \in Services : new[s] \in 1..65535

(* A thread that has the edits todo before it, or is done. *)
Begin(j, todo) ==
  IF todo = <<>> THEN NoJob ELSE [j EXCEPT !.todo = todo, !.buf = Empty, !.pc = "read"]

(* Ports are valid (a conflict is only warned about), and PORTS changes.   *)
ChangePorts(w, new, lost) ==
  /\ events < MaxEvents /\ ~saving /\ ~Working(w)
  /\ Valid(new)
  /\ PORTS' = new
  /\ Harm(Shared(Plan(PORTS, new)) \cup lost)
  /\ events' = events + 1
  /\ UNCHANGED file

(* save_ports empties its file; the thread is started when it returns. *)
save_port_settings(w, new) ==
  /\ ChangePorts(w, new, {})
  /\ portsFile' = Nothing /\ saving' = TRUE
  /\ job' = [job EXCEPT ![w] = [NoJob EXCEPT !.kind = "ports", !.new = new, !.pc = "save",
                                             !.todo = Plan(PORTS, new)]]

(* save_ports cannot open its file, and the thread is started all the same. *)
SettingsUnsaved(w, new) ==
  /\ "error" \in Faults
  /\ ChangePorts(w, new, {"ports_config.json"})
  /\ job' = [job EXCEPT ![w] = Begin([NoJob EXCEPT !.kind = "ports", !.new = new], Plan(PORTS, new))]
  /\ UNCHANGED <<portsFile, saving>>

AfterSave(w) ==
  /\ job[w].pc = "save"
  /\ saving' = FALSE
  /\ job' = [job EXCEPT ![w] = Begin(@, @.todo)]
  /\ UNCHANGED <<PORTS, file>>

save_ports(w) ==
  /\ AfterSave(w)
  /\ portsFile' = PORTS /\ harmed' = harmed \ {"ports_config.json"}
  /\ UNCHANGED <<mending, events>>

(* Something fails, at the price of an event. *)
Error ==
  /\ "error" \in Faults /\ events < MaxEvents
  /\ events' = events + 1

(* The file save_ports has emptied cannot be written. *)
SavePortsFails(w) ==
  /\ Error /\ AfterSave(w)
  /\ Harm({"ports_config.json"})
  /\ UNCHANGED portsFile

(* A start of Apache has come to setup_apache_internal. *)
StartApache(w) ==
  /\ events < MaxEvents /\ ~Working(w)
  /\ LET todo == <<Edit("httpd.conf", "apache")>>
     IN  /\ job' = [job EXCEPT ![w] = Begin([NoJob EXCEPT !.kind = "apache"], todo)]
         /\ harmed' = harmed \cup Shared(todo)
         /\ mending' = IF Shared(todo) = {} THEN "begun" ELSE "no"
  /\ events' = events + 1
  /\ UNCHANGED <<PORTS, portsFile, file, saving>>

-----------------------------------------------------------------------------
(* update_service_port_in_config and setup_apache_internal: a pattern that *)
(* is not found in the text is not replaced.  The proxy section for PHP    *)
(* is the exception, which setup_apache_internal appends.                  *)
Replaced(old, port) == IF old = Nothing THEN Nothing ELSE port

(* Mutant: the proxy section for PHP is only added, never replaced. *)
Rewritten_AddsOnly(w, c) ==
  CASE job[w].kind = "apache"     -> [listen |-> Replaced(c.listen, PORTS["apache"]),
                                      fcgi |-> IF c.fcgi = Nothing THEN PORTS["php"] ELSE c.fcgi]
    [] Head(job[w].todo).svc = "php" -> [c EXCEPT !.fcgi = Replaced(@, job[w].new["php"])]
    [] OTHER -> [c EXCEPT !.listen = Replaced(@, job[w].new[Head(job[w].todo).svc])]

Rewritten(w, c) ==
  CASE job[w].kind = "apache"     -> [listen |-> Replaced(c.listen, PORTS["apache"]),
                                      fcgi   |-> PORTS["php"]]
    [] Head(job[w].todo).svc = "php" -> [c EXCEPT !.fcgi = Replaced(@, job[w].new["php"])]
    [] OTHER -> [c EXCEPT !.listen = Replaced(@, job[w].new[Head(job[w].todo).svc])]

Target(w) == Head(job[w].todo).file

ReadConfig(w) ==
  /\ job[w].pc = "read"
  /\ job' = [job EXCEPT ![w].buf = Rewritten(w, file[Target(w)]), ![w].pc = "open"]
  /\ UNCHANGED <<PORTS, portsFile, file, saving, harmed, mending, events>>

OpenConfig(w) ==
  /\ job[w].pc = "open"
  /\ file' = [file EXCEPT ![Target(w)] = Empty]
  /\ job' = [job EXCEPT ![w].pc = "write"]
  /\ UNCHANGED <<PORTS, portsFile, saving, harmed, mending, events>>

(* The thread turns to its next edit. *)
NextEdit(w) == job' = [job EXCEPT ![w] = Begin(@, Tail(@.todo))]

WriteConfig(w) ==
  /\ job[w].pc = "write"
  /\ file' = [file EXCEPT ![Target(w)] = job[w].buf]
  /\ NextEdit(w)
  /\ mending' = IF job[w].kind = "apache" /\ mending = "begun" THEN "done" ELSE mending
  /\ UNCHANGED <<PORTS, portsFile, saving, harmed, events>>

(* The file is missing, or cannot be read or emptied: it stays as it is.   *)
EditSkipped(w) ==
  /\ Error
  /\ job[w].pc \in {"read", "open"}
  /\ NextEdit(w) /\ Harm({Target(w)})
  /\ UNCHANGED <<PORTS, portsFile, file, saving>>

(* It cannot be written, or only the first part of it, and stays so. *)
EditCut(w) ==
  /\ Error
  /\ job[w].pc = "write"
  /\ \E part \in {Empty, [job[w].buf EXCEPT !.fcgi = Nothing]} :
       file' = [file EXCEPT ![Target(w)] = part]
  /\ NextEdit(w) /\ Harm({Target(w)})
  /\ UNCHANGED <<PORTS, portsFile, saving>>

WorkerStep(w) ==
  \/ save_ports(w) \/ ReadConfig(w) \/ OpenConfig(w) \/ WriteConfig(w)
  \/ SavePortsFails(w) \/ EditSkipped(w) \/ EditCut(w)

(* Mutant: without the fallback to the defaults. *)
load_ports_Raw == portsFile

load_ports == IF portsFile = Nothing THEN DefaultPorts ELSE portsFile

(* The next session has the ports it finds, for which the files may not    *)
(* have been written, and nobody goes on with what was left unfinished.    *)
HarmedNext ==
  Unfinished \cup (IF load_ports = PORTS THEN harmed \ {"ports_config.json"} ELSE Files)

Restarted ==
  /\ PORTS' = load_ports
  /\ job' = [w \in Workers |-> NoJob]
  /\ harmed' = HarmedNext /\ mending' = "no"

(* The application is killed and opened again. *)
AppCrash ==
  /\ "app" \in Faults /\ events < MaxEvents
  /\ Restarted
  /\ saving' = FALSE
  /\ events' = events + 1
  /\ UNCHANGED <<portsFile, file>>

(* It is closed by its user when nothing is going on, and opened again. *)
Relaunch ==
  /\ events < MaxEvents /\ \A w \in Workers : ~Working(w)
  /\ Restarted
  /\ events' = events + 1
  /\ UNCHANGED <<portsFile, file, saving>>

Quiet ==
  /\ events = MaxEvents /\ \A w \in Workers : ~Working(w)
  /\ UNCHANGED vars

Next ==
  \/ \E w \in Workers :
       \/ WorkerStep(w) \/ StartApache(w)
       \/ \E new \in Settings : save_port_settings(w, new) \/ SettingsUnsaved(w, new)
  \/ AppCrash \/ Relaunch \/ Quiet

Spec == Init /\ [][Next]_vars

-----------------------------------------------------------------------------
(* Properties *)

Rest == \A w \in Workers : ~Working(w)

(* Whenever no thread is at work, every server is configured for the port  *)
(* at which the dashboard looks for it, web servers look for PHP where it  *)
(* listens, and the next session will use the same ports.  Threads at the  *)
(* same time do no harm if their files differ, nor does a start of Apache  *)
(* beside a change that leaves httpd.conf alone; an error or a kill harms  *)
(* the files that were still to be rewritten, and no other, though the     *)
(* code passes over errors (app.py:101, 117, 466) and reports success.     *)
FilesFollowPorts ==
  Rest =>
    /\ \A f \in Files \ harmed : file[f] = Said(PORTS)[f]
    /\ "ports_config.json" \in harmed \/ load_ports = PORTS

(* A start of Apache repairs whatever kills, errors and threads at the     *)
(* same time have left in httpd.conf, and it stays repaired until one of   *)
(* them happens to httpd.conf again; only a text that lost its Listen line *)
(* stays without one.  A start whose own rewrite fails repairs nothing     *)
(* (setup_apache_internal, app.py:418-467).                                *)
ApacheStartRepairs ==
  Rest /\ mending = "done" =>
    /\ file["httpd.conf"].listen \in {PORTS["apache"], Nothing}
    /\ file["httpd.conf"].fcgi = PORTS["php"]
=============================================================================
