# WinPHP: specifications, model checking and proofs

WinPHP is a Windows control panel for Nginx, Apache, MariaDB and PHP FastCGI. It
has two programs: `src/app.py` (a PySide window with daemon threads) and
`src/cli.ps1` (a console behind `server.bat`). Both start and stop the same
servers and share one small file, `bin/services_pids.json`. This directory holds
TLA+ modules for the parts of the two programs that keep state, TLC
configurations that check them on small instances, and proofs for all of them: the
core, the console, the packages, the configuration files and the database tab.

Of the files below `src/`, `app.py` and `cli.ps1` (started by `server.bat`)
are WinPHP. Everything else is what it runs: `bin/` and `tools/`
hold third-party servers with their headers, modules and documentation, and phpMyAdmin.
The modules translate the two programs; the servers appear as external definitions.

Nothing in the code takes a lock. What is hard about it is hard for that reason:
every button starts a daemon thread, threads hold tables they read seconds ago,
every save of a file empties it first, and the servers, the other program and a
kill of the application come in between.

## 1. Inventory

| Component | State it keeps | Operations | Talks to | Hard behaviour | What makes it correct |
|---|---|---|---|---|---|
| Service control (`app.py` 178-575, 2115-2215, 3478-3534) | `services_pids.json`, `active_web_server`, `active_php_version`, daemon threads | toggle, switch server, start all, stop all, change PHP version, toggle extension, exit, launch | processes and ports, pid file | threads interleave between status, stop, Popen, port polls, save; crash between Popen and save; exit against a start | one web server at a time; a pid names its own service; kills hit the service only; reports are true; the chosen PHP version lasts; every press ends; exit leaves nothing |
| Pid file (`load_pids`, `save_pids`) | one JSON table | read, empty, write | both programs | torn reads, overlapping writes, two formats | entries never name a stranger's process |
| Windows processes and ports (external) | process table, listeners, `nginx.pid` | Popen, taskkill, bind, crash, reuse of ids | everything above | asynchronous start and shutdown, ids reused | - |
| Console (`cli.ps1`) | none beyond the file | start, stop, restart, web, php | pid file, processes | the window writes between its steps, in another format | same promises as the window, and a PHP switch that holds |
| Package installation (`app.py` 901-1160, 1220-1360, 3356-3380) | `downloads/`, the package folders, MariaDB's data folder, `installed_packages.json`, version lists | install, initialise data, select, new lists, record | service control (stop), network, disk | an exception or a kill at any step, some of them swallowed, one shared temp folder, locked executables, a data folder half made | what is announced is installed, configured and has data; the record is true |
| Port settings (`app.py` 76-176, 418-467, 3114-3160) | `PORTS`, `ports_config.json`, three configuration files | save ports, start of Apache, launch | configuration files | save first and rewrite later in a thread; read, truncate, write; kills; errors that are passed over | files follow the ports |
| Database tab (`app.py` 579-642, 2667-2762) | `db_config.json`, phpMyAdmin's `config.inc.php`; the server's accounts | root password, database and user | `mysql.exe` | each query logs in anew with what the file says; time-outs after the fact; server goes away; failing saves that are passed over | reports are true |
| PHP extensions (`app.py` 644-716, 2440-2505) | `php.ini` of each version, check boxes | list, toggle with restart of PHP | PHP, pid file (which version) | the version changes between tick and toggle, two toggles rewrite one file, lists answer in any order | toggles last and reach the running PHP; a file stays that of its version |
| Configuration editor (`app.py` 2257-2291) | text box, the entry selected | load, save | the four configuration files | writes back the text of its last load, changed or not, to a path asked for again; a running PHP is not restarted | what the user saved lasts; a start of Apache repairs what was saved as `httpd.conf` |
| Status and metrics, log viewer, projects, tray, start with Windows | display only | - | - | - | - |
| Bundled servers, phpMyAdmin, sample sites (`bin/`, `tools/`, `www/`) | third party | - | - | - | - |

`PROJECT.json` lists the components with their status, and under `hazards` each
place where the code can go wrong in a way a unit test would hardly reach.

## 2. Modules

```
Processes  <- PidFile <- ServiceControl <- ServiceControlProofs <- OneThreadProofs
    ^                        |  implements
    |                        v
    |                    ServiceBoard
    +------ CommandLine <- CommandLineProofs
PortSettings <- PortSettingsProofs            PackageInstall <- PackageInstallProofs
    ^
    +--- ConfigFiles <- ConfigFilesProofs <- ExtensionsProofs
Database <- DatabaseProofs
```

`MC<Module>` gives TLC the values of the constants, each `MC*.cfg` is a run.

**Processes** (external, except the probes). A process has an `image` and a
`phase`: free, live (started, does not listen yet), listening, closing (mysqld
told to shut down), dead. A started server takes its port, or exits if it is
taken; nginx writes `nginx.pid` some time after it listens (`WriteNginxPid`), and a
`taskkill /F` leaves it, so that the file may name an nginx of an earlier run. `PidProbe` says whether
`os.kill(pid, 0)` works: on Windows 0 is `CTRL_C_EVENT`, and for a process of
another console it may fail, so both values are allowed. `ReusePids` lets Windows
hand out the id of a dead process again.

**PidFile**. `load_pids` reads `{}` from anything that does not parse;
`save_pids` has two steps, `OpenForWrite` and `WriteTable`, and two overlapping
writers may leave a text that does not parse. `save_pids` swallows what fails: `SaveFails` of
ServiceControl leaves the old, an empty or a cut-off text, and the thread goes on.

**ServiceControl**. A thread is a list of calls still to make, with a program
counter inside the first of them. Correspondence:

| Model | Code |
|---|---|
| `StopCheck`, `Kill`, `Write`, `Flush` | `stop_service_internal`: status; the kills and `load_pids`; `save_pids` in two steps |
| `StartCheck`, `Nested`, `Spawn`, `SpawnFails`, `WaitOk`, `WaitTimeout` | `start_service_internal` and, with the calls `php`, `phpSpawn`, `start_php_internal` |
| `snap` | the table read at `app.py:474` and written at 572 |
| `SetVersion`, `Restart` | `perform_version_change`, `toggle_extension` |
| `ToggleService` ... `RealExit` | the buttons; what they read in the window's thread is in the press |
| `FinishExit` | `os._exit`, which ends every thread where it stands |
| `SaveFails`, `LaunchUnsaved` | the `except` of `save_pids`, for a thread and for the clean-up at launch |
| `Launch`, `Cleaned` | start of the program, with the clean-up of dead entries |
| `AppCrash`, `ServiceCrash` | the application is killed; a server dies |

Merged steps: `get_service_status` is one step (it only reads), `nginx -s stop`
is merged with the `taskkill` that follows it, `mysqladmin` with the kill of
mysqld. The exit loop runs in the window's thread; the model gives it the slot
of a daemon thread. The choice of a pid by Windows is free, so `\E p \in Pids`.

**ServiceBoard** is the abstract specification of the dashboard: a set of
services that serve, and what the present press may bring up or take down. It
knows no process, pid, port or file. `ServiceControl!ImplementsBoard` is the
refinement: `up` is the set of listening services, the two other variables are
computed from the calls still to make.

**CommandLine** is the console, step by step, with the window beside it by two
of its handlers (a stop, a version change), each in one step: ServiceControl has
their steps, here only their effect on the shared file matters. The file has a
byte order mark after the console wrote it, and keys may be missing.
Get-ServiceStatus has one peculiarity that the model keeps: when no pid is known
it takes one of the processes of that name. `WriteFails` is the `catch` of Save-Pids, a warning.

**PackageInstall** is `PackageInstallWorker.run` with one action per call that
can fail, the record in `installed_packages.json`, and version lists that arrive
whenever they like. A zip is a set of item names; two names per package are
enough to tell a whole package from half of one (the part a running service
keeps locked, and the part the post-install setup looks for). An exception is
the action `Error` or the failing branch of a step. The post-install setup of a card is
`Setup`, which opens and so empties the configuration file if there is none (Apache's: in any
case), and `WriteConfig`; MariaDB has a third step, `InitData` (mysql_install_db, whose
return code nobody looks at), and `data` is what the data folder holds. An exception in the
setup of Apache is swallowed by `setup_apache_internal`, and the installation goes on
to its announcement (`Swallowed`). `on_finished` writes the record, `RecordFails` is the
save whose exception is swallowed; a kill may come between the emptying and the write, too. Then
`load_installed_packages` guesses. History variables: `spoiled`, the
folders whose configuration file a kill or an error left emptied, or Apache's unfinished;
`broken`, whether the last mysql_install_db failed or was cut off; and `claim`, whether a
card's record comes from its own last installation and was not emptied since, or a new
list changed the selection while it ran.

**PortSettings** has `save_port_settings` (window's thread), the thread that
rewrites the files, and `setup_apache_internal` in a start of Apache. A
configuration file is what it says about the two ports. What fails is passed over, as in the
code: `EditSkipped` is a file that is missing or that cannot be read or emptied, `EditCut` one
that cannot be written in full, `SettingsUnsaved` and `SavePortsFails` are the `except` of
`save_ports`. Two history variables: `harmed` holds the files that two threads had to rewrite at the
same time, that an error or a kill kept from being rewritten, or that were written for
ports the next session did not find; `mending`, how far a start of Apache is whose rewrite
of `httpd.conf` nothing of that kind has met.

**ConfigFiles** extends PortSettings by the extensions tab, the configuration
editor, and as much of PHP's life as they need (which version is recorded, which
runs, and with which `php.ini`). A `php.ini` is the version its text was made for,
the extension lines it has, and those that are switched on.

| Model | Code |
|---|---|
| `load_extensions_list`, `Path`, `ReadIni`, `display_extensions_list` | showing the tab; the thread that reads; its signal, in any order with others |
| `toggle_extension`, `Path`, `ReadIni`, `OpenIni`, `FlushIni`, `CloseIni` | the check box; `toggle_php_extension_in_ini`: path, `readlines`, `open('w')`, a buffer, `close` |
| `Restart`, `OpenDrop`, `WriteDrop`, `SpawnPhp`, `WaitPhp`, `OpenEntry`, `WriteEntry` | status and kill, `save_pids` of the stop, `start_php_internal`, its poll, `save_pids` |
| `change_php_version`, `TogglePhp` | the combo box and PHP's button on the dashboard |
| `ThreadFails` | the `except` branches of these, and a missing `php-cgi.exe` |
| `load_config_content`, `OpenByEditor`, `WriteByEditor`, `save_config_content` | the editor; for `php.ini` the path is asked for again and the file emptied first |
| `Edited`, `Typed` | what the user makes of the text: lines of `php.ini` switched or taken out; any of `Typed` for the other files |
| `Unloaded`, `SaveFails`, `WriteByEditorFails` | a file that is missing or cannot be read; one that cannot be written |
| `Killed`, `KilledInSave`, `Reopened` | the application is killed, also inside a save of the editor; it is closed and opened |

For the three server files a save of the editor is one step, with `KilledInSave`
for a kill in the middle: a thread that could read the emptied file has that file to
rewrite, and then it counts as `harmed` anyway. A press outside the tab that is
shown leaves the tab, as the window's buttons do. The effect of other services' starts on
the `php_version` entry is in ServiceControl (`VersionDurable`) and left out here;
`load_pids` and the emptying `open` of a stop are one step (`OpenDrop`). Four history variables say
what is to be expected: `asked`, what the user last made of each version's file, by toggles
and in the editor; `unread`, the versions whose file the editor changed since a PHP of that version was
started, for a save there restarts nothing; `crossed`, the versions into whose file the editor
put another version's text; `races`, whether two writers of one `php.ini`, or a writer and a list,
were ever at work at the same time, a save of the editor went over a text it had not read, or a
kill or an error met one.

**Database** has a thread per button, one action per query, time-outs whose query
may have run, and the two files. Login (reading `db_config.json`) and query are
one step. `LoginHost` is the account a login from 127.0.0.1 meets. `Awkward`
holds the passwords that change the meaning of the `re.subn` template. What the code passes
over has actions of its own: `ConfigUnsaved` (`save_db_config`), `PhpMyAdminUnwritten` and the
condition `Matches` (no file, no match, or an exception, after each of which success is reported);
`pma` is `Absent` when `config.inc.php` is missing, empty or without the line. `forked` is a
history variable: the users who were given two different passwords.

## 3. Runs

`tlc -config MCSequential.cfg MCServiceControl`, and so on.

| Run | Instance | Shows |
|---|---|---|
| `sequential` | 1 thread, 5 pids, 2 PHP versions, 4 presses of any button; the least helpful Windows: `os.kill` finds nothing, `mysqladmin` is refused, `nginx.pid` may be stale | `WebServersExclusive`, `StartedMeansUp`, `VersionDurable`, `StoppedMeansDown`, `ExitLeavesNothing`, and that the code implements ServiceBoard |
| `concurrent` | 2 threads, 3 pids, 3 events (presses, crashes of services and of the application, saves that fail), another program on Apache's port | `TypeOK`, `RecordedPidIsOwn`, `KillsOnlyOwn` |
| `shutdown` | `FairSpec`, 1 thread, 2 pids that are reused, services crash, 3 events | `RequestsFinish`, `ShutdownCompletes`, and exclusion in spite of stale entries |
| `exclusion_broken` | 2 threads, 2 presses | violation of `WebServersExclusive` |
| `php_untracked` | 1 thread, 1 press | violation of `PhpPidTracked` |
| `command_line` | 5 pids, 3 commands, handlers of the window or failing saves | `TypeOK`, `RecordedPidIsOwn`, `WebServersExclusive`, `StoppedMeansGone`, `SwitchedPhpIsCurrent` |
| `byte_order_mark` | 1 command | violation of `WindowUsesSwitchedPhp` |
| `install` | 4 cards, 6 packages, one card at work at a time, 4 events (installs, errors of steps, setups and records, kills, new lists, starts) | `TypeOK`, `InstalledAsAnnounced`, `ConfiguredWhenAnnounced`, `DataWhenAnnounced`, `RecordTellsTheTruth` |
| `stock_nginx` | the Nginx card, 1 install | violation of `ConfiguredWhenAnnounced` |
| `ports` | 2 threads, 3 settings and one that is refused, 2 PHP versions, an extension, a text that may be typed, 4 events (presses of any kind, errors, kills, restarts); no PHP runs at first; not both halves at once (see below) | `TypeOK`, `FilesFollowPorts`, `ApacheStartRepairs`; `FilesTypeOK`, `IniKeepsVersion`, `TogglesLast`, `PhpFollowsIni`, `ListIsCurrent` |
| `database` | 2 threads, 2 passwords, one of them awkward, 4 events (presses, time-outs, files that cannot be written, kills, mysqld up or down) | `TypeOK`, `OnlyOldPasswordSaved`, `GrantedWhenReported`, `PasswordAsTyped` |
| `password_lockout` | 1 thread, 1 press | violation of `FailedMeansUnaltered` |

**Bounds.** `MaxEvents` bounds what comes from outside (presses, faults, lists).
Three events are what the interesting cases of the service control take: start,
something in between, and the press that meets its consequence; with one thread
four fit. `Pids` bounds the processes ever started (without reuse of ids); a
start of a web server needs two, `sequential` has five. Two PHP versions and two
passwords suffice to tell an old from a new one. Two threads suffice for every
race of a snapshot against a write. Symmetry is used over pids, threads and
workers, which the specifications never order, and not in the runs with
liveness or refinement checks under fairness. In `ports` the settings change
the port of Nginx, which has a file of its own as any server has, and PHP's, of which two servers have
to be told, beside starts of Apache; for other settings there are the proofs. Four events there are a toggle, a change
of version or a load of the editor, and the presses, errors and kills that meet its consequence.
`ports` has a state constraint, `OneSide`: what
rewrites files for ports and what rewrites `php.ini` for extensions share no variable but the tab, the
editor and `events`, and every property is about one of the two, so a run goes no further once
both halves have been touched. A behaviour that violates a property of one half does so
without the presses of the other; the proofs of section 4 need no such constraint.
Every module has the disjunct `Quiet`, a stuttering step that is enabled only
when all events of the instance are used up and no thread works; so deadlock
checking stays on and a thread that is stuck shows.

**Fairness.** `FairSpec` has weak fairness for every step of a thread: threads
of the operating system are scheduled, no step waits for another thread, and
each poll loop is counted (25 polls, 15 for PHP, `app.py` 552 and 391), which
is why `WaitTimeout` is enabled whenever the port is closed. It has weak fairness for a
server that was started (it binds or exits) and for a mysqld that was told to
shut down. Nothing is assumed about presses, crashes or the network.

## 4. What is proved

`ServiceControlProofs` proves, with TLAPS, for any numbers of threads, pids,
versions and events, any ports and any faults:

- `TypeCorrect`: `Spec => []TypeOK`.
- `PidsAreOwn`: `ReusePids = FALSE => (Spec => []RecordedPidIsOwn)`.
- `KillsAreOwn`: under the same assumption `Spec => KillsOnlyOwn`.

The assumptions are the named ones of the modules (`ProcessesAssumption`,
`PidFileAssumption`, `ServiceControlAssumption`), which TLC evaluates in every run.
Ids that are not reused is a true restriction: with reused ids the second and
third statements are false, for the code has nothing by which it could tell.

`RecordedPidIsOwn` is not inductive: an entry of the file comes from a thread's
buffer, a buffer from its snapshot, from the pid it spawned, or from `nginx.pid`. The
inductive invariant `OwnInv` therefore says of every table anywhere (file,
snapshot, buffer), of `nginx.pid` and of the pid a thread is holding that they
name processes of their own service. That is stable because an image changes
only when an unused id is given out, and no table names an unused id, which is
the other part of `OwnInv`. The proof has one step per action; `KillsAreOwn` needs only
`OwnInv` and a look at the two actions that kill.

`OneThreadProofs` proves what a user can rely on who waits for each press to be
carried out, for any numbers of processes, versions and presses, with `mysqladmin` and
`os.kill` succeeding or not:

| Theorem | States | Assumes, besides one thread |
|---|---|---|
| `ChosenVersionLasts` | `Spec => []VersionDurable` | no kill of the application, no failing save |
| `OneWebServer` | `Spec => []WebServersExclusive` | the same, `Apart` |
| `StopsReach` | `Spec => []StoppedMeansDown` | the same, `Apart` |
| `ExitIsClean` | `Spec => []ExitLeavesNothing` | the same, `Apart` |
| `StartsReach` | `Spec => []StartedMeansUp` | `Faults = {}`, `Apart`, `Free`, ids not reused |
| `BoardImplemented` | `Spec => ImplementsBoard` | `Faults = {}`, `Apart`, ids not reused |

Each assumption is a true restriction. With two threads `exclusion_broken` refutes the
second statement and section 5 tells how the others fail. A kill between Popen and
`save_pids` leaves a process that no entry names, and one between the two halves
of a save an empty file; so does a save that fails. Services that share a port (`Apart` says that only
the two web servers may) answer for each other. A port held by another program
(`Free` says there is none) answers for a start, and a service that dies after it answered
is recorded as up. A service that crashes is outside what the board describes;
with reused ids a stop can end another service's process through a stale entry. The first
four theorems hold with crashing services, taken ports and reused ids, so more widely than the
run `sequential`, which has none of these, shows.

The argument goes in layers, each an inductive invariant relative to those
before it. `TypeInv` adds to the types that the counter fits the call at work. `VerInv`:
file, snapshot, buffer and the calls still to make carry the chosen PHP version, except
between the choice and its save, which must not fail; the snapshot matters because the start of a web
server writes it back after its nested PHP start has written the same file. `ProcInv`:
a live process that does not listen is the one the thread waits for, unless its
port is taken (`Settled`), and what the calls still to make need is true when they get
their turn (`Left`: a spawn of a web server comes with the other one gone). `TrackInv`:
mysqld, the only service that is not killed by name, is named by every table a stop may
read, except while the thread waits for one of its own. `ExitInv`: inside `real_exit`
every service is over or its stop is still on the list. `UpInv`: the pid about to be saved is
that of a listening process of its service, or for nginx one that `nginx.pid` named; that such a
pid is an nginx's, though perhaps of a dead one, comes from `OwnInv`, which is why ids
must not be reused. For the refinement every step is shown to be a `Request`, a `Proceed`, one `Come`,
one `Go` or a stutter of the board; a kill takes down its own service because of
`OwnInv`. Each action has a lemma that says what it does (`StopCheckEffect`, ...).

`CommandLineProofs` proves, for any numbers of processes, versions and commands,
beside the window's handlers:

- `TypeCorrect`: `Spec => []TypeOK`, by `TypeInv`: besides the types, each call on the
  list has the service and the version its operation needs.
- `PidsAreOwn`: `ReusePids = FALSE => (Spec => []RecordedPidIsOwn)`, by an `OwnInv` like
  that of the window, over the console's one snapshot and buffer.
- `SwitchesHold`: `Spec => []SwitchedPhpIsCurrent`. The invariant `VerInv`: until the window
  writes, the calls still to make are of the chosen version, and the file and the buffer
  have it or no such key.
- `StopsAreComplete`: `Separate => (Spec => []StoppedMeansGone)`.
- `OneWebServer`: `Separate => (Spec => []WebServersExclusive)`.

`Separate` says that ids are not reused, that no other program has one of the
ports, and that no two services share one, except Nginx and Apache, which may. Both
statements follow from `ProcInv`. At the start of a call every process that is alive
listens (`AllListen`): a start that waits in vain kills what it started, and a wait that
succeeds was answered by the process just started, because the start began
with none of its name alive (`Waiting`). So "not running" means that there is none.
What a start puts on the list before its spawn is carried in `Ready`, `AfterStop` and
`AfterPhp`: when the other web server's stop is over both are down, and the
PHP start in between brings neither back. Each action has a lemma that says what it does
to the list (`StartCheckEffect`, ...); the proofs of the three invariants use these and not
the actions. Without the assumption on foreign listeners a wait is answered by somebody
else and a process may be left alive that does not listen.

`PortSettingsProofs` proves, for any number of threads, any set of port
assignments and any number of events:

- `TypeCorrect`: `Spec => []TypeOK`.
- `ConfigurationsAgree`: `Spec => []FilesFollowPorts`.
- `StartOfApacheRepairs`: `Spec => []ApacheStartRepairs`.

The assumption is `PortSettingsAssumption`: ports are numbers, and what an emptied file
says is none. `FilesFollowPorts` speaks of moments at which nobody works and says
nothing in between, so `FollowInv` adds, file by file and for every file that is not `harmed`
(`Calm`): at most one working thread has it to rewrite (`ApartAt`); each edit a thread still
has to make carries the port in use (`Fresh`); what it is about to write into the emptied file
is right but for its own further edits (`Carried`); and a file nobody has in hand is right
wherever no edit is pending (`FileInv`). `SaveInv` says that `ports_config.json` follows `PORTS` but
for the one thread that saves. A change of ports keeps this because its
plan holds an edit for everything a file will have to say differently
(`ChangePlanned`), and because an edit in somebody's hands whose port changes
would be in the plan as well (`PlannedChange`), which is an overlap and harms that file. An error
harms the file at hand only: the thread's other edits stay planned.

`ApacheStartRepairs` also speaks of an `httpd.conf` that was harmed, where `FollowInv` says nothing.
`RepairInv` is about `httpd.conf` alone: while a start of Apache is `mending`, the file, or what the
thread that has it in hand is about to write, is right wherever no edit is pending, or has no
Listen line. An error, a kill or a crossing thread at `httpd.conf` ends the mending, and
with it what is claimed, until the next start of Apache.

`ConfigFilesProofs` proves, for any numbers of threads, versions, extensions
and events, and any lines in any `php.ini`:

- `FilesTypeCorrect`: `FilesSpec => []FilesTypeOK` (and PortSettings' `TypeOK`).
- `ConfigurationsAgreeBesideEditor`: `FilesSpec => []FilesFollowPorts`. A step of
  ConfigFiles is a step of PortSettings, leaves its variables alone, or is a save
  of the editor; a save that is not `Disturbed` writes what the file says already, and so
  keeps `FollowInv`, any other harms its file.
- `StartOfApacheRepairsBesideEditor`: `FilesSpec => []ApacheStartRepairs`, in the same way
  from `RepairInv`: whatever text the user saved as `httpd.conf`.
- `IniStaysOfItsVersion`: `FilesSpec => []IniKeepsVersion`. The invariant
  `OwnText` adds that what a thread is about to write is of the version
  whose path it holds, and that the text in the editor is of one version or
  none.

`ExtensionsProofs` proves, for the same instances and without further assumptions:

- `PhpServesTheFile`: `FilesSpec => []PhpFollowsIni`.
- `TogglesStay`: `FilesSpec => []TogglesLast`.
- `BoxesAreTheFile`: `FilesSpec => []ListIsCurrent`.

The properties excuse what happened after two writers, a writer and a list, or a kill or an error
and a writer met (`races`); all the rest of the history is theirs, saves of an edited text
included: such a text is what was `asked`, and a PHP that runs has read it only if it was started
since (`unread`). `ShapeInv` says which stages
each kind of thread goes through. `OrderInv`, as long as no two writers and no kill met: there is
one writer at most; the recorded version is the one shown; and a PHP that runs has
read what is, or will be once the editor has filled the file it emptied (`Will`), in that version's
`php.ini`, unless the writer is still to restart it (`Stale`). `AskedInv`, as
long as nothing met: each `php.ini` has what was last asked of its version, but
for the one a thread is toggling, whose toggled text or buffer has it; and a thread that lists
carries the text the file has. That the version cannot change under a toggle, between
tick and `get_current_php_version`, is part of `OrderInv`.

`DatabaseProofs` proves, for any numbers of threads, users, passwords, databases
and events, with every fault:

- `TypeCorrect`: `Spec => []TypeOK`, by `TypeInv`: besides the types, the queries a
  thread still has to run are among those of its button.
- `GrantsHold`: `Spec => []GrantedWhenReported`. The invariant `GrantInv` says of every
  thread that creates a user: what its user has not got yet it still asks for.
- `PasswordsHold`: `Spec => []PasswordAsTyped`. `AccountInv` says that each account of
  a user who is not forked has the thread's password, or is absent and still to
  be created by this thread; `OnePassword`, that two threads for such a user carry the same one,
  without which a thread could find the account another has just created with another
  password.
- `OnlyOldPasswordIsSaved`: `LoginHost \in Hosts => (Spec => OnlyOldPasswordSaved)`. Each query logs in
  with what `db_config.json` says, and the first one changes the account it logs in
  as. `RootInv` says: a root job that has altered that account finds its own password there
  whenever the file would let it log in (`Own`, `Altered`); a job past its queries (`Saved`) has the
  password the file has, or had until it was emptied; and all such jobs have the same one.
  So a job with another password than the file's is turned away at its next query. The assumption
  says that a login from 127.0.0.1 meets one of the two accounts that are altered. If it
  met a third, two jobs with two passwords could both succeed.

Every step of the database falls under one of three shapes (`StepShape`: a thread moves on
without a query, a query is run, a user job starts), and the invariants are
shown for the shapes, not for the actions.

`PackageInstallProofs` proves, for any packages, version lists and numbers of
events, with every fault:

- `TypeCorrect`: `Spec => []TypeOK`, for any number of cards at work. `WorkInv` adds that a
  worker has a package of its card and extracts items of it.
- `InstallsAreWhole`: `AtATime = 1 => (Spec => []InstalledAsAnnounced)`.
- `DataIsWhole`: `AtATime = 1 => (Spec => []DataWhenAnnounced)`.
- `OthersAreConfigured`: `AtATime = 1 /\ "nginx" \notin Cards => (Spec => []ConfiguredWhenAnnounced)`.
- `RecordsAreTrue`: `AtATime = 1 => (Spec => []RecordTellsTheTruth)`.

One card at a time is a true restriction, not a convenience: two workers share
`downloads/temp_extract`, and the first statement is false for two. Nginx is left out of
the fourth because the run `stock_nginx` refutes it; what a kill or an error leaves of a
configuration file, and a record whose save fails, are excepted by the properties themselves. `InstalledAsAnnounced` looks at the
last moment only; `InstallInv` says for each stage what has to be true on the way
(`Unpacked`): after the removal, `temp_extract` holds items of this zip and no others
(`OnlyOwn`), each item is there or still to be extracted; the list of what is to be moved
is the whole zip (`ListedIsZip`, where the three rules for a root folder are told apart);
and each item is in place or still to be moved. Its other part,
`OneAtWork`, says that no other worker interferes. `DataInv` adds that half a data folder comes from a
failed mysql_install_db only, `ConfiguredInv` that the setup found the sample it
needs, which follows from `InstallInv`. `RecordInv` adds that, unless a list misled it, a
card at work shows the package it installs, so that what `on_finished` reads
from the list is what was moved, and that what is claimed is in a record that can be read. The steps of a worker fall under `Prepares` (nothing
is moved), `Extract` and `Move`, each with a lemma that says what it does.

Trying to prove the refinement showed that the definitions it maps by, `MayCome` and
`MayGo`, were CASE expressions with arms that overlap, of which TLC takes the first and
the logic any; they are sets now.
A theorem that phpMyAdmin's password follows `db_config.json` had been proved before the
proof of `OnlyOldPasswordIsSaved` showed how little it says: no other password than the old one
gets there.

Not proved, and why: liveness and everything with ENABLED is beyond the prover,
so `RequestsFinish` and `ShutdownCompletes` stay with TLC, under the fairness of section
3. Every other property of a passing run is stated by a theorem. `sequential`,
`install` and `ports` are still worth running: they evaluate the assumptions, and
the theorems rest on the same translation of the code as they do.

## 5. What the models made visible

With a run in this project:

- `exclusion_broken`: "Enforce web server mutual exclusion" (`app.py:476`) holds
  for one press at a time; two threads stop each other's server before it exists.
- `php_untracked`: a start of a web server writes back the table it read before
  PHP was started, and PHP's pid is gone from it (`app.py` 474 and 572).
- `byte_order_mark`: the console's file cannot be read by the window
  (`cli.ps1:77`), which then uses the newest PHP version.
- `stock_nginx`: an installed Nginx runs with the configuration of its zip,
  because `setup_nginx` leaves an existing file alone (`app.py:1066`).
- `password_lockout`: the first `ALTER USER` changes the very account the next query
  logs in as. A change of root's password to another one fails halfway, always, and
  leaves `db_config.json` with a password that no longer works (`app.py:2686`).

Without a run of their own; where a constant or a condition is named, changing it shows them:

- `sequential` with two threads: the version change of one press is lost to the
  snapshot of another (`VersionDurable`), and a service whose start thread is
  between Popen and the port outlives the exit dialog (`ExitLeavesNothing`).
- `sequential` with `Faults = {"app"}`: after a kill between Popen and the save,
  a mysqld that refuses `mysqladmin` can no longer be stopped, and "stopped" is
  shown (`StoppedMeansDown`). With `BusyPorts = {80}` a start reports success for
  a process that does not listen (`StartedMeansUp`).
- The web server chosen in one session is not that of the next, in spite of
  README.md:63: it is kept nowhere, and is guessed from what runs.
- The console's `restart` decides which web server to start after it has stopped
  all (`cli.ps1:1115`), so Apache's place is taken by Nginx.
- `command_line` without `table.ver # Missing`: when the window had left
  `php_version` out of the file, the console announces a switch it cannot store.
- `install` with `AtATime = 2`: two workers share `downloads/temp_extract`, and
  one announces a package whose files another has taken or deleted.
- The recorded version is the one the list shows at the end of an installation;
  without a record, Apache is taken for 2.4.62 while 2.4.67 is shipped.
- `ports` without `harmed`: two threads on one file can leave it empty; after a
  kill, saving the same ports again rewrites nothing; and a file that is missing, or that could not be
  read or written, is passed over while "configuration files written" is reported
  (`app.py` 101, 109, 117, 3157). The same holds for the rewrite of a start of Apache
  (466), which then starts with what the file says.
- `ports` without `unread`: a save of the editor changes `php.ini` under a running PHP and
  does not restart it, as a toggle does (`app.py:2276`).
- `sequential` with `phase[th[t].pid] = "listening"` asked of Nginx, too, in `StartedMeansUp`: its
  pid is taken from `nginx.pid`, which may still be that of an nginx a `taskkill /F` ended, and then
  the dashboard records a dead pid (`app.py` 554-565). Stops find Nginx by name all the same.
- `sequential` with `Faults = {"save"}`: `save_pids` swallows what fails, and a chosen PHP version is
  lost without a word (`app.py:194`).
- `OnlyOldPasswordSaved` says that a change of root's password is only ever saved and reported
  when it was none. What comes after is therefore modelled but has no property: a failing save of
  `db_config.json`, a `config.inc.php` that is missing or does not match, and a password with a
  leading digit, which becomes part of a group number in `\1<password>\2`, are all reported as
  success (`app.py` 593, 629, 638, 2702).
- `database` without `forked`: `CREATE USER IF NOT EXISTS` leaves an existing account as it was, so a press
  that was cut off, repeated with another password, leaves one user with two
  passwords, one per host, and success is reported (`app.py:2733`).
- `ports` without `crossed` or `races`: the editor asks for `php.ini`'s path again
  when it saves, so a text loaded under one version replaces the file of another
  (`app.py:2278`); a toggle whose thread asks after a change of version changes the other
  version's file (674); a PHP that is between Popen and its port counts as
  stopped and keeps the extensions it has read (2497); and the check boxes may be
  those of the list that was read first (2453).
- `install` without `broken`: a data folder mysql_install_db left half made is taken for
  complete ever after, since only its absence is looked at (`app.py:1142`).
- `install` without `spoiled`: a kill between the emptying and the write of `my.ini`, `php.ini` or
  `config.inc.php` leaves an empty file, which the next installation takes for a configuration
  (`app.py` 1054, 1122, 1147); and an error in Apache's setup is swallowed and the package
  announced all the same (466).
- `install` without the exception of a failing save in `claim`: `save_installed_packages` empties the file first and
  swallows errors (`app.py:764`); what is left cannot be parsed, and all cards' records give way to the guess.
- `install` without `claim`: a version list that arrives during an installation
  moves the selection, and that is what gets recorded (`app.py:1351`).

## 6. What is not modelled

The console's menu (same helpers, one at a time), its status, log and tuning
output; the display of status, metrics, logs and projects; scraping of version
pages; the registry entry; the text of
configuration files beyond their ports, their version and their extension lines. The default `www/index.php` is
shipped, so the branch that writes it is never taken.
An `urlopen` that never answers has no time-out in the code, so nothing is
claimed about an installation ending.

## 7. Plan

1. (done) Service control with pid file and processes; abstract board; proofs of
   types and of pid ownership.
2. (done) Console, packages, ports, database, each model-checked; proofs of types
   and `FilesFollowPorts` for ports.
3. (done) Configuration files: `php.ini` toggles and the editor beside the port
   settings, with proofs of types, `FilesFollowPorts` and `IniKeepsVersion`; MariaDB's first start;
   the record of packages; proofs for the database tab, the console and the
   packages.
4. The handlers of the window in CommandLine in steps, with ServiceControl's threads,
   as a composition over one file.
5. (done) Proofs for one thread of the window, with the refinement of ServiceBoard; for
   the extensions tab, root's password and the repair by a start of Apache. Errors the code
   passes over, an edited text in the editor and a late `nginx.pid` in the modules and the proofs.
6. Proofs for the composition of 4, once it is modelled: which of the promises for
   one thread survive a console that writes the same file.
