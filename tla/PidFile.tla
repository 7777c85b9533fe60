------------------------------- MODULE PidFile -------------------------------
(***************************************************************************)
(* bin/services_pids.json: the only record of which process serves what,   *)
(* and of the chosen PHP version.  Readers and writers share it without a  *)
(* lock.  load_pids answers {} for anything json.load rejects; save_pids   *)
(* is open(..., 'w'), which empties the file, followed by the write, so    *)
(* every save has two steps and any reader may come between them.          *)
(*                                                                         *)
(* A key that is absent and one that is null read the same through         *)
(* pids.get, so a table has every key.                                     *)
(***************************************************************************)
EXTENDS Processes

CONSTANTS
  Versions,      \* names the php_version entry may hold
  NewestVersion  \* get_php_versions()[0]: first of bin/php/php-* in reverse order

ASSUME PidFileAssumption == None \notin Versions /\ NewestVersion \in Versions

VARIABLE pidFile  \* [state, data]: whether the text parses, and the table it holds

PidTable == [pid : [Services -> Pids \cup {None}], ver : Versions \cup {None}]

NoPids == [pid |-> [s \in Services |-> None], ver |-> None]

PidFileTypeOK ==
  pidFile \in [state : {"json", "empty", "garbled"}, data : PidTable]

(* The file the repository ships: every pid null, one PHP version chosen. *)
PidFileInit ==
  \E v \in Versions : pidFile = [state |-> "json", data |-> [NoPids EXCEPT !.ver = v]]

load_pids == IF pidFile.state = "json" THEN pidFile.data ELSE NoPids

(* save_pids, first half: open(PID_FILE, 'w') leaves an empty file. *)
EmptyFile   == [state |-> "empty", data |-> NoPids]
GarbledFile == [state |-> "garbled", data |-> NoPids]

OpenForWrite == pidFile' = EmptyFile

(* save_pids, second half: the text goes to the start of the file.  On a   *)
(* file that another writer filled in the meantime the tail of a longer    *)
(* text may remain behind it, and then nothing parses.                     *)
WriteTable(d) ==
  \/ pidFile' = [state |-> "json", data |-> d]
  \/ pidFile.state # "empty" /\ pidFile' = GarbledFile

(* Mutant: without the fallback to an installed version. *)
VersionIn_Raw(tbl) == tbl.ver

(* What get_current_php_version answers when load_pids answers tbl. *)
VersionIn(tbl) == IF tbl.ver # None THEN tbl.ver ELSE NewestVersion

get_current_php_version == VersionIn(load_pids)

=============================================================================
