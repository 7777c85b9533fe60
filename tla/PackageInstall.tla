--------------------------- MODULE PackageInstall ---------------------------
(***************************************************************************)
(* The packages tab of app.py.  Each card runs at most one                 *)
(* PackageInstallWorker, but all workers share the folder downloads/ and   *)
(* the folder downloads/temp_extract inside it.  The version lists of the  *)
(* cards are replaced by VersionCheckWorker whenever its answer arrives.   *)
(*                                                                         *)
(* A package is a pair of a card and a version.  What its zip holds is a   *)
(* set of names; two packages may hold the same name ("conf", "bin"), and  *)
(* then one replaces the other.  A zip of PHP has no root folder; the      *)
(* others have one, whose content the worker moves.                        *)
(***************************************************************************)
EXTENDS FiniteSets, Naturals

CONSTANTS
  Packages,  \* the packages that may be offered, or are there at first
  Shipped,   \* those the repository brings in bin/ and tools/
  None,
  AtATime,   \* how many cards the user sets to work at the same time
  Faults,    \* subset of {"error", "app", "lists"}: a step or a write fails,
             \* the application dies, new version lists arrive
  MaxEvents  \* bound on presses, faults, dashboard starts and new lists

Cards == {p[1] : p \in Packages}
Of(c) == {p \in Packages : p[1] = c}

(* What the zips hold, as far as the worker and the services care: the     *)
(* part a running service keeps locked, and the part the post-install      *)
(* setup looks for.                                                        *)
Main == [nginx |-> "nginx.exe", apache |-> "bin", mysql |-> "bin",
         php |-> "php-cgi.exe", phpmyadmin |-> "index.php"]

Sample == [nginx |-> "conf", apache |-> "conf", mysql |-> "bin",
           php |-> "php.ini-development", phpmyadmin |-> "config.sample.inc.php"]

ItemsOf(p) == {Main[p[1]], Sample[p[1]]}
Names      == UNION {ItemsOf(p) : p \in Packages}

(* dest: PHP versions live side by side, any other card has one folder.    *)
Dir(p)  == IF p[1] = "php" THEN p ELSE <<p[1], "any">>
Dirs    == {Dir(p) : p \in Packages}
PhpDirs == {d \in Dirs : d[1] = "php"}

(* load_installed_packages: the versions it takes for granted *)
Detected ==
  [nginx |-> <<"nginx", "1.26.3">>, apache |-> <<"apache", "2.4.62">>,
   mysql |-> <<"mysql", "10.11.8">>, phpmyadmin |-> <<"phpmyadmin", "5.2.3">>]

Labels  == {Detected[c] : c \in DOMAIN Detected}
Records == [Cards -> Packages \cup Labels \cup {None}]

ASSUME PackageInstallAssumption ==
  /\ Cards \subseteq {"nginx", "apache", "mysql", "php", "phpmyadmin"}
  /\ None \notin Packages \cup Names \cup Records
  /\ Shipped \subseteq Packages
  /\ \A p, q \in Shipped : Dir(p) = Dir(q) => p = q
  /\ MaxEvents \in Nat

VARIABLES
  dest,       \* dest[d][n]: the package item n of folder d came from, or None
  made,       \* the folders that exist
  ready,      \* the folders whose configuration file is WinPHP's own
  spoiled,    \* the folders whose configuration file was emptied and not written
              \* since, or left as it came by a setup whose error was swallowed
  data,       \* MariaDB's data folder: "none", "half" or "whole"
  downloads,  \* whether downloads/ exists
  zips,       \* the files in it
  temp,       \* temp_extract: whether it exists, the root folders in it, and
              \* has[p], the items of package p that are there
  running,    \* the folders a service runs from
  card,       \* card[c]: [pc, pkg, left] of the worker of card c
  offer,      \* offer[c]: the packages on the list of card c, and the one selected
  recorded,   \* installed_packages.json, None while no such file can be read
  php,        \* the php_version entry of services_pids.json
  broken,     \* history: the last mysql_install_db failed or was cut off
  claim,      \* claim[c], history: "own" if the record of card c is by its own last
              \* installation and was not emptied since, "misled" if a list changed
              \* its selection meanwhile
  events

folder == <<downloads, zips, temp>>
disk   == <<dest, made, ready, spoiled, data, folder>>
vars   == <<disk, running, card, offer, recorded, php, broken, claim, events>>

NoTemp   == [dir |-> FALSE, roots |-> {}, has |-> [p \in Packages |-> {}]]
CardIdle == [pc |-> "idle", pkg |-> None, left |-> {}]

(* left: the items that are still to be extracted or moved; None instead   *)
(* of an item stands for the whole root folder of a package.               *)
Moves == Packages \X (Names \cup {None})

(* A list holds packages of its card; one of them is selected. *)
OffersOf(c) == UNION {{[list |-> l, sel |-> p] : p \in l} : l \in SUBSET Of(c)}

OfferLists ==
  {o \in [Cards -> UNION {OffersOf(c) : c \in Cards}] : \A c \in Cards : o[c] \in OffersOf(c)}

PCs == {"idle", "stop", "open", "read", "clean", "remake", "extract", "list", "move", "tidy",
        "setup", "config", "initdb", "clear", "done", "failed"}

TypeOK ==
  /\ dest \in [Dirs -> [Names -> Packages \cup {None}]]
  /\ made \subseteq Dirs /\ ready \subseteq Dirs /\ spoiled \subseteq Dirs
  /\ downloads \in BOOLEAN /\ zips \subseteq Packages
  /\ temp \in [dir : BOOLEAN, roots : SUBSET Packages, has : [Packages -> SUBSET Names]]
  /\ running \subseteq Dirs
  /\ card \in [Cards -> [pc : PCs, pkg : Packages \cup {None}, left : SUBSET Moves]]
  /\ offer \in OfferLists
  /\ recorded \in {None} \cup Records
  /\ php \in PhpDirs \cup {None}
  /\ data \in {"none", "half", "whole"} /\ broken \in BOOLEAN
  /\ claim \in [Cards -> {"none", "own", "misled"}]
  /\ events \in 0..MaxEvents

(* What the repository brings is unpacked and configured. *)
Init ==
  /\ dest = [d \in Dirs |-> [n \in Names |->
               IF \E p \in Shipped : Dir(p) = d /\ n \in ItemsOf(p)
               THEN CHOOSE p \in Shipped : Dir(p) = d
               ELSE None]]
  /\ made = {Dir(p) : p \in Shipped} /\ ready = made /\ spoiled = {}
  /\ data = (IF <<"mysql", "any">> \in made THEN "whole" ELSE "none") /\ broken = FALSE
  /\ claim = [c \in Cards |-> "none"]
  /\ downloads = FALSE /\ zips = {} /\ temp = NoTemp
  /\ running = {}
  /\ card = [c \in Cards |-> CardIdle]
  /\ offer \in OfferLists
  /\ recorded = None
  /\ php \in IF made \cap PhpDirs = {} THEN {None} ELSE made \cap PhpDirs
  /\ events = 0

(* load_installed_packages *)
InstalledPackages ==
  IF recorded # None THEN recorded
  ELSE [c \in Cards |-> IF c # "php" /\ dest[<<c, "any">>][Main[c]] # None
                        THEN Detected[c] ELSE None]

-----------------------------------------------------------------------------
(* PackageInstallWorker.run, step by step.  Any exception ends it.         *)

At(c, pc) == card[c].pc = pc
Pkg(c)    == card[c].pkg
Dest(c)   == Dir(Pkg(c))

Go(c, pc)         == card' = [card EXCEPT ![c].pc = pc]
GoWith(c, pc, S)  == card' = [card EXCEPT ![c].pc = pc, ![c].left = S]

OnlyWorkers == UNCHANGED <<data, offer, recorded, php, broken, claim, events>>

(* os.makedirs(downloads) and stop_service_internal.  mysqld may go on: it *)
(* shuts down by itself, or does not hear mysqladmin at all.               *)
StopService(c) ==
  /\ At(c, "stop")
  /\ downloads' = TRUE
  /\ running' \in {{d \in running : d[1] # c}} \cup (IF c = "mysql" THEN {running} ELSE {})
  /\ Go(c, "open")
  /\ UNCHANGED <<dest, made, ready, spoiled, zips, temp>> /\ OnlyWorkers

(* open(zip_path, 'wb') *)
OpenZip(c) ==
  /\ At(c, "open")
  /\ IF downloads THEN zips' = zips \cup {Pkg(c)} /\ Go(c, "read")
                  ELSE zips' = zips /\ Go(c, "failed")
  /\ UNCHANGED <<dest, made, ready, spoiled, downloads, temp, running>> /\ OnlyWorkers

(* The last chunk is written; os.makedirs(dest_dir). *)
Download(c) ==
  /\ At(c, "read")
  /\ made' = made \cup {Dest(c)}
  /\ Go(c, "clean")
  /\ UNCHANGED <<dest, ready, spoiled, folder, running>> /\ OnlyWorkers

(* Mutant: what an earlier install left in temp_extract stays. *)
CleanTemp_Keeps(c) ==
  /\ At(c, "clean")
  /\ Go(c, "remake")
  /\ UNCHANGED <<disk, running>> /\ OnlyWorkers

(* shutil.rmtree(temp_extract) *)
CleanTemp(c) ==
  /\ At(c, "clean")
  /\ temp' = NoTemp
  /\ Go(c, "remake")
  /\ UNCHANGED <<dest, made, ready, spoiled, downloads, zips, running>> /\ OnlyWorkers

(* os.makedirs(temp_extract), zipfile.ZipFile(zip_path) *)
OpenTemp(c) ==
  /\ At(c, "remake")
  /\ downloads' = TRUE /\ temp' = [temp EXCEPT !.dir = TRUE]
  /\ IF Pkg(c) \in zips THEN GoWith(c, "extract", {Pkg(c)} \X ItemsOf(Pkg(c)))
                        ELSE Go(c, "failed")
  /\ UNCHANGED <<dest, made, ready, spoiled, zips, running>> /\ OnlyWorkers

(* extractall: makes the folders that are missing on the way *)
Extract(c) ==
  /\ At(c, "extract")
  /\ \E m \in card[c].left :
       /\ GoWith(c, IF card[c].left = {m} THEN "list" ELSE "extract", card[c].left \ {m})
       /\ downloads' = TRUE
       /\ temp' = [dir   |-> TRUE,
                   roots |-> temp.roots \cup (IF c = "php" THEN {} ELSE {Pkg(c)}),
                   has   |-> [temp.has EXCEPT ![Pkg(c)] = @ \cup {m[2]}]]
  /\ UNCHANGED <<dest, made, ready, spoiled, zips, running>> /\ OnlyWorkers

(* os.listdir(root_src): the nested folder Apache24, the only entry of     *)
(* temp_extract if that is a folder, or temp_extract itself.               *)
InRoot(q) == {q} \X temp.has[q]

TopLevel == (temp.roots \X {None}) \cup UNION {InRoot(q) : q \in Of("php")}

Stripped(c) ==
  IF c = "apache" /\ \E q \in temp.roots : q[1] = c
  THEN {q \in temp.roots : q[1] = c}
  ELSE IF Cardinality(TopLevel) = 1 THEN temp.roots ELSE {}

RootSrc(c) ==
  IF c # "php" /\ Stripped(c) # {} THEN UNION {InRoot(q) : q \in Stripped(c)} ELSE TopLevel

List(c) ==
  /\ At(c, "list")
  /\ IF temp.dir THEN GoWith(c, "move", RootSrc(c)) ELSE Go(c, "failed")
  /\ UNCHANGED <<disk, running>> /\ OnlyWorkers

(* One turn of the loop: what is in the way is removed, then shutil.move.  *)
(* A running service keeps its executable locked; an item another worker   *)
(* has taken away is missed only after the old one was removed.            *)
Locked(d, n) == d \in running /\ n = Main[d[1]] /\ dest[d][n] # None

Put(d, n, q) ==
  /\ dest' = [dest EXCEPT ![d][n] = q]
  /\ ready'   = IF n = "conf" THEN ready \ {d} ELSE ready
  /\ spoiled' = IF n = "conf" THEN spoiled \ {d} ELSE spoiled

MoveItem(c, m) ==
  /\ IF Locked(Dest(c), m[2])
     THEN UNCHANGED <<dest, ready, spoiled, temp>> /\ Go(c, "failed")
     ELSE IF m[2] \in temp.has[m[1]]
     THEN /\ Put(Dest(c), m[2], m[1])
          /\ temp' = [temp EXCEPT !.has[m[1]] = @ \ {m[2]}]
          /\ GoWith(c, "move", card[c].left \ {m})
     ELSE Put(Dest(c), m[2], None) /\ temp' = temp /\ Go(c, "failed")

(* A whole root folder: it lands beside what is there. *)
MoveRoot(c, m) ==
  /\ UNCHANGED <<dest, ready, spoiled>>
  /\ IF m[1] \in temp.roots
     THEN /\ temp' = [temp EXCEPT !.roots = @ \ {m[1]}, !.has[m[1]] = {}]
          /\ GoWith(c, "move", card[c].left \ {m})
     ELSE temp' = temp /\ Go(c, "failed")

Move(c) ==
  /\ At(c, "move") /\ card[c].left # {}
  /\ \E m \in card[c].left : IF m[2] = None THEN MoveRoot(c, m) ELSE MoveItem(c, m)
  /\ claim' = [claim EXCEPT ![c] = IF @ = "own" THEN "none" ELSE @]
  /\ UNCHANGED <<made, data, downloads, zips, running, offer, recorded, php, broken, events>>

(* shutil.rmtree(temp_extract), os.remove(zip_path) *)
Tidy(c) ==
  /\ At(c, "move") /\ card[c].left = {}
  /\ IF temp.dir THEN temp' = NoTemp /\ zips' = zips \ {Pkg(c)} /\ Go(c, "setup")
                 ELSE UNCHANGED <<temp, zips>> /\ Go(c, "failed")
  /\ UNCHANGED <<dest, made, ready, spoiled, downloads, running>> /\ OnlyWorkers

(* setup_nginx leaves an existing conf/nginx.conf alone, and cannot write  *)
(* one without the folder; setup_apache_internal rewrites the httpd.conf   *)
(* that is there; the others write their file, from a sample or not, if    *)
(* there is no file of that name, whatever is in it.                       *)
Present(c) == dest[Dest(c)][Sample[c]] # None
Exists(c)  == Dest(c) \in ready \cup spoiled

(* Mutant: no setup when the card was installed before. *)
NeedsConfig_Once(c) ==
  /\ InstalledPackages[c] = None
  /\ c # "nginx" /\ (Present(c) \/ c = "mysql") /\ (~Exists(c) \/ c = "apache")

NeedsConfig(c) ==
  c # "nginx" /\ (Present(c) \/ c = "mysql") /\ (~Exists(c) \/ c = "apache")

(* Mutant: only after my.ini was written, too. *)
NeedsData_WithIni(c) == c = "mysql" /\ data = "none" /\ Present(c) /\ At(c, "config")

(* MariaDB's data folder is initialised whenever it is missing. *)
NeedsData(c) == c = "mysql" /\ data = "none" /\ Present(c)

(* The file is opened, and thereby emptied, or there is nothing to write.  *)
Setup(c) ==
  /\ At(c, "setup")
  /\ IF NeedsConfig(c)
     THEN /\ ready' = ready \ {Dest(c)} /\ spoiled' = spoiled \cup {Dest(c)}
          /\ Go(c, "config")
     ELSE /\ UNCHANGED <<ready, spoiled>>
          /\ Go(c, CASE c = "nginx" /\ ~Present(c) -> "failed"
                     [] NeedsData(c)               -> "initdb"
                     [] OTHER                      -> "clear")
  /\ UNCHANGED <<dest, made, folder, running>> /\ OnlyWorkers

(* Its text is written. *)
WriteConfig(c) ==
  /\ At(c, "config")
  /\ ready' = ready \cup {Dest(c)} /\ spoiled' = spoiled \ {Dest(c)}
  /\ Go(c, IF NeedsData(c) THEN "initdb" ELSE "clear")
  /\ UNCHANGED <<dest, made, folder, running>> /\ OnlyWorkers

(* mysql_install_db: nobody looks at its return code. *)
InitData(c) ==
  /\ At(c, "initdb")
  /\ data' \in IF "error" \in Faults THEN {"none", "half", "whole"} ELSE {"whole"}
  /\ broken' = (data' # "whole")
  /\ Go(c, "clear")
  /\ UNCHANGED <<dest, made, ready, spoiled, folder, running, offer, recorded, php, claim, events>>

(* shutil.rmtree(downloads), errors ignored.  Windows refuses to delete a  *)
(* file another worker has open; what was visited before it is gone.       *)
OpenFiles == {Pkg(e) : e \in {e \in Cards : card[e].pc \in {"read", "extract"}}}

Clear(c) ==
  /\ At(c, "clear")
  /\ IF OpenFiles \cap zips = {}
     THEN downloads' = FALSE /\ zips' = {} /\ temp' = NoTemp
     ELSE /\ UNCHANGED downloads
          /\ \E Z \in SUBSET (zips \ OpenFiles) : zips' = zips \ Z
          /\ temp' \in {temp, NoTemp}
  /\ Go(c, "done")
  /\ UNCHANGED <<dest, made, ready, spoiled, running>> /\ OnlyWorkers

(* Network, disk or antivirus: any step may raise.  setup_apache_internal  *)
(* swallows what its reading and writing of httpd.conf raises.             *)
Swallowed(c) == c = "apache" /\ card[c].pc \in {"setup", "config"}

Error(c) ==
  /\ "error" \in Faults /\ events < MaxEvents
  /\ card[c].pc \notin {"idle", "done", "failed"}
  /\ Go(c, IF Swallowed(c) THEN "clear" ELSE "failed")
  /\ spoiled' = IF Swallowed(c) THEN spoiled \cup {Dest(c)} ELSE spoiled
  /\ events' = events + 1
  /\ UNCHANGED <<dest, made, ready, data, folder, running, offer, recorded, php, broken, claim>>

WorkerStep(c) ==
  \/ StopService(c) \/ OpenZip(c) \/ Download(c) \/ CleanTemp(c) \/ OpenTemp(c)
  \/ Extract(c) \/ List(c) \/ Move(c) \/ Tidy(c) \/ Setup(c) \/ WriteConfig(c)
  \/ InitData(c) \/ Clear(c) \/ Error(c)

-----------------------------------------------------------------------------
(* The window *)

start_installation(c) ==
  /\ At(c, "idle") /\ events < MaxEvents
  /\ Cardinality({e \in Cards : ~At(e, "idle")}) < AtATime
  /\ card' = [card EXCEPT ![c] = [pc |-> "stop", pkg |-> offer[c].sel, left |-> {}]]
  /\ events' = events + 1
  /\ UNCHANGED <<disk, running, offer, recorded, php, broken, claim>>

(* The card is idle again.  A PHP version that was chosen and is not there *)
(* gives way to the first of those that are (on_package_installed).        *)
End(c) ==
  /\ card' = [card EXCEPT ![c] = CardIdle]
  /\ php' \in IF At(c, "done") /\ c = "php" /\ php \notin made \cup {None}
              THEN made \cap PhpDirs ELSE {php}

(* on_finished: the version recorded is the one the list shows now; the    *)
(* versions of the others are kept, or guessed for good.                   *)
on_finished(c) ==
  /\ card[c].pc \in {"done", "failed"} /\ End(c)
  /\ recorded' = IF At(c, "done") THEN [InstalledPackages EXCEPT ![c] = offer[c].sel] ELSE recorded
  /\ claim' = [claim EXCEPT ![c] = IF At(c, "done") /\ @ # "misled" THEN "own"
                                   ELSE IF @ = "misled" THEN "none" ELSE @]
  /\ UNCHANGED <<disk, running, offer, broken, events>>

(* What all own records become when the file is emptied. *)
Forgotten == [c \in Cards |-> IF claim[c] = "own" THEN "none" ELSE claim[c]]

(* save_installed_packages swallows what open or the write raises: the old *)
(* record stays, or an empty file that load_installed_packages cannot read.*)
RecordFails(c) ==
  /\ "error" \in Faults /\ events < MaxEvents
  /\ At(c, "done") /\ End(c)
  /\ \/ recorded' = recorded /\ claim' = [claim EXCEPT ![c] = "none"]
     \/ recorded' = None /\ claim' = [Forgotten EXCEPT ![c] = "none"]
  /\ events' = events + 1
  /\ UNCHANGED <<disk, running, offer, broken>>

(* Mutant: an empty list replaces the old one, too. *)
on_versions_fetched_Empty ==
  /\ "lists" \in Faults /\ events < MaxEvents
  /\ \E c \in Cards : offer' = [offer EXCEPT ![c] = [list |-> {}, sel |-> None]]
  /\ events' = events + 1
  /\ UNCHANGED <<disk, running, card, recorded, php, broken, claim>>

(* on_versions_fetched: lists that are not empty replace the old ones; a   *)
(* selection that is no longer offered becomes the first entry.            *)
Replace(c, L) ==
  IF L = {} THEN offer[c]
  ELSE [list |-> L, sel |-> IF offer[c].sel \in L THEN offer[c].sel ELSE CHOOSE p \in L : TRUE]

on_versions_fetched ==
  /\ "lists" \in Faults /\ events < MaxEvents
  /\ \E L \in SUBSET Packages : offer' = [c \in Cards |-> Replace(c, Of(c) \cap L)]
  /\ claim' = [c \in Cards |-> IF ~At(c, "idle") /\ offer'[c].sel # offer[c].sel
                               THEN "misled" ELSE claim[c]]
  /\ events' = events + 1
  /\ UNCHANGED <<disk, running, card, recorded, php, broken>>

(* Mutant: the list stays enabled while its card is at work. *)
select_Anytime(c) ==
  /\ \E p \in offer[c].list \ {offer[c].sel} : offer' = [offer EXCEPT ![c].sel = p]
  /\ UNCHANGED <<disk, running, card, recorded, php, broken, claim, events>>

select(c) ==
  /\ At(c, "idle")
  /\ \E p \in offer[c].list \ {offer[c].sel} : offer' = [offer EXCEPT ![c].sel = p]
  /\ UNCHANGED <<disk, running, card, recorded, php, broken, claim, events>>

(* The dashboard starts a service from whatever is in its folder; mysqld   *)
(* does not come up without data.                                          *)
StartService(d) ==
  /\ events < MaxEvents
  /\ d \notin running /\ dest[d][Main[d[1]]] # None /\ d[1] # "phpmyadmin"
  /\ d[1] = "mysql" => data # "none"
  /\ running' = running \cup {d}
  /\ php' = IF d[1] = "php" THEN d ELSE php
  /\ events' = events + 1
  /\ UNCHANGED <<disk, card, offer, recorded, broken, claim>>

(* The application dies and is opened again.  mysql_install_db has not     *)
(* been started yet, or ends by itself, or goes down, too; the record of a *)
(* card that is done may have been emptied and not been written yet.       *)
AppCrash ==
  /\ "app" \in Faults /\ events < MaxEvents
  /\ card' = [c \in Cards |-> CardIdle]
  /\ \/ UNCHANGED <<data, broken>>
     \/ /\ \E c \in Cards : At(c, "initdb")
        /\ data' \in {"half", "whole"} /\ broken' = (data' = "half")
  /\ \/ /\ recorded' = recorded
        /\ claim' = [c \in Cards |-> IF claim[c] = "misled" THEN "none" ELSE claim[c]]
     \/ /\ \E c \in Cards : At(c, "done")
        /\ recorded' = None
        /\ claim' = [c \in Cards |-> "none"]
  /\ events' = events + 1
  /\ UNCHANGED <<dest, made, ready, spoiled, folder, running, offer, php>>

Quiet ==
  /\ events = MaxEvents /\ \A c \in Cards : At(c, "idle")
  /\ UNCHANGED vars

Next ==
  \/ \E c \in Cards : \/ WorkerStep(c) \/ start_installation(c) \/ select(c)
                      \/ on_finished(c) \/ RecordFails(c)
  \/ \E d \in Dirs : StartService(d)
  \/ on_versions_fetched \/ AppCrash \/ Quiet

Spec == Init /\ [][Next]_vars

-----------------------------------------------------------------------------
(* Properties *)

(* "{service} {version} successfully installed!" (app.py:1047) is emitted  *)
(* only when every item of that package is in the package's folder.        *)
InstalledAsAnnounced ==
  \A c \in Cards : At(c, "done") => \A n \in ItemsOf(Pkg(c)) : dest[Dest(c)][n] = Pkg(c)

(* "Configuring package..." (app.py:1002) comes before that message: a      *)
(* package is announced with a configuration file of WinPHP's, also when   *)
(* another version or a part of one was moved over it before.  What a kill *)
(* or an error leaves of the file (an empty one is never written again,    *)
(* app.py 1054, 1122, 1147; Apache's error is swallowed, 466) is excepted. *)
ConfiguredWhenAnnounced ==
  \A c \in Cards : At(c, "done") /\ Dest(c) \notin spoiled => Dest(c) \in ready

(* MariaDB is announced with a data folder that can be used, also after an *)
(* installation that was killed between my.ini and mysql_install_db: only  *)
(* a failure of that program itself goes unnoticed, and what it leaves     *)
(* behind is never repaired (app.py 1137-1142).                            *)
DataWhenAnnounced ==
  \A c \in Cards : At(c, "done") /\ c = "mysql" /\ ~broken => data = "whole"

(* After an installation installed_packages.json names the package that is *)
(* in the folder, until files of the next one are moved in, failed         *)
(* installations and kills in between included.  The exceptions: new lists *)
(* that change the selection of a card at work (app.py 1351, 3357-3380),   *)
(* and a save, of any card, that fails or is cut off (app.py 764-769).     *)
RecordTellsTheTruth ==
  \A c \in Cards : claim[c] = "own" =>
    /\ recorded # None /\ recorded[c] \in Packages
    /\ \A n \in ItemsOf(recorded[c]) : dest[Dir(recorded[c])][n] = recorded[c]
=============================================================================
