------------------------------ MODULE Database ------------------------------
(***************************************************************************)
(* The database tab of app.py: changing root's password and creating a     *)
(* database with its user.  Each button starts a daemon thread that runs   *)
(* mysql.exe once per query; every run reads db_config.json and logs in as *)
(* root with the password it finds there, so a thread depends on what its  *)
(* own earlier queries, and those of other threads, did to root.           *)
(***************************************************************************)
EXTENDS Sequences, Naturals

CONSTANTS
  Workers,     \* bound on the threads that work at the same time
  Passwords,   \* what may be typed into a password field
  NoPassword,  \* the empty password
  Absent,      \* what account says of an account that does not exist, and
               \* pma of a config.inc.php without a line for the password
  Awkward,     \* the passwords that break the re.subn template \1<pw>\2,
               \* such as one with a leading digit
  Users,       \* what may be typed into the user name field
  Databases,   \* what may be typed into the database name field
  Everything,  \* the scope *.*, taken when that field is empty
  LoginHost,   \* the host of the root account a login from 127.0.0.1 meets
  Faults,      \* subset of {"timeout", "mysqld", "app", "error"}
  MaxEvents    \* bound on button presses and faults together

Hosts    == {"localhost", "127.0.0.1"}
Accounts == (Users \cup {"root"}) \X (Hosts \cup {LoginHost})
Root     == <<"root", LoginHost>>

ASSUME DatabaseAssumption ==
  /\ {NoPassword, Absent} \cap Passwords = {} /\ NoPassword # Absent
  /\ Everything \notin Databases
  /\ Awkward \subseteq Passwords
  /\ MaxEvents \in Nat

VARIABLES
  mysqld,   \* whether mysqld runs
  account,  \* account[a]: the password of a, or Absent
  granted,  \* pairs of an account and a scope it has all privileges on
  schemas,  \* the databases that exist
  config,   \* root_password as load_db_config reads it from db_config.json
  pma,      \* root's password in phpMyAdmin's config.inc.php, Absent if that
            \* file is missing, was emptied, or has no line for it
  job,      \* job[w]: [kind, todo, pw, user, db, pc]
  forked,   \* history: users that were given two passwords
  events

serverVars == <<account, granted, schemas>>
vars       == <<mysqld, serverVars, config, pma, job, forked, events>>

(* A query is a record of its kind and the account it is about. *)
Alter(h)     == [kind |-> "alter", acct |-> <<"root", h>>]
Create(u, h) == [kind |-> "user",  acct |-> <<u, h>>]
Grant(u, h)  == [kind |-> "grant", acct |-> <<u, h>>]
Flush        == [kind |-> "flush", acct |-> Root]
CreateDb     == [kind |-> "db",    acct |-> Root]

(* Mutant: the account logged in with is the last to be altered. *)
RootQueries_LocalhostLast == <<Alter("127.0.0.1"), Alter("localhost")>>

(* update_root_db_pass: queries *)
RootQueries == <<Alter("localhost"), Alter("127.0.0.1"), Flush>>

(* create_db_and_user: queries *)
UserQueries(u, d) ==
  (IF d = Everything THEN <<>> ELSE <<CreateDb>>) \o
  <<Create(u, "localhost"), Create(u, "127.0.0.1"),
    Grant(u, "localhost"), Grant(u, "127.0.0.1"), Flush>>

Queries ==
  [kind : {"alter", "user", "grant", "flush", "db"}, acct : Accounts]

Jobs ==
  [kind : {"root", "user"}, todo : Seq(Queries), pw : Passwords \cup {NoPassword},
   user : Users \cup {"root"}, db : Databases \cup {Everything},
   pc : {"none", "query", "open", "save", "pma", "ok", "failed"}]

NoJob == [kind |-> "root", todo |-> <<>>, pw |-> NoPassword, user |-> "root",
          db |-> Everything, pc |-> "none"]

TypeOK ==
  /\ mysqld \in BOOLEAN
  /\ account \in [Accounts -> Passwords \cup {NoPassword, Absent}]
  /\ granted \subseteq Accounts \X (Databases \cup {Everything})
  /\ schemas \subseteq Databases
  /\ config \in Passwords \cup {NoPassword}
  /\ pma \in Passwords \cup {NoPassword, Absent}
  /\ job \in [Workers -> Jobs]
  /\ forked \subseteq Users
  /\ events \in 0..MaxEvents

(* db_config.json opens the server, as after an installation with no       *)
(* password.  Which root accounts there are depends on the server that     *)
(* initialised the data.                                                   *)
Init ==
  /\ mysqld = TRUE
  /\ config \in Passwords \cup {NoPassword}
  /\ \E R \in SUBSET Hosts :
       account = [a \in Accounts |->
                    IF a = Root \/ (a[1] = "root" /\ a[2] \in R) THEN config ELSE Absent]
  /\ granted = {} /\ schemas = {}
  /\ pma \in Passwords \cup {NoPassword, Absent}
  /\ job = [w \in Workers |-> NoJob]
  /\ forked = {}
  /\ events = 0

-----------------------------------------------------------------------------
(* run_mysql_query *)

At(w, pc) == job[w].pc = pc

Working(w) == job[w].pc \in {"query", "open", "save", "pma"}

LoggedIn == mysqld /\ account[Root] = config

(* Mutant: users get the password of db_config.json. *)
Identified_AsRoot(q, j) == IF q.kind = "user" THEN config ELSE j.pw

(* IDENTIFIED BY *)
Identified(q, j) == j.pw

(* What the server does with a query; it refuses to alter an account, or   *)
(* to grant to one, that is not there.                                     *)
Run(q, j) ==
  \/ /\ q.kind = "alter" /\ account[q.acct] # Absent
     /\ account' = [account EXCEPT ![q.acct] = Identified(q, j)]
     /\ UNCHANGED <<granted, schemas>>
  \/ /\ q.kind = "user"  \* CREATE USER IF NOT EXISTS
     /\ account' = IF account[q.acct] = Absent
                   THEN [account EXCEPT ![q.acct] = Identified(q, j)] ELSE account
     /\ UNCHANGED <<granted, schemas>>
  \/ /\ q.kind = "grant" /\ account[q.acct] # Absent
     /\ granted' = granted \cup {<<q.acct, j.db>>}
     /\ UNCHANGED <<account, schemas>>
  \/ /\ q.kind = "db"
     /\ schemas' = schemas \cup {j.db}
     /\ UNCHANGED <<account, granted>>
  \/ /\ q.kind = "flush"
     /\ UNCHANGED serverVars

(* After the last query: a new root password is saved, a user job is done. *)
AfterQueries(j) == IF j.kind = "root" THEN "open" ELSE "ok"

Advance(j) ==
  [j EXCEPT !.todo = Tail(j.todo),
            !.pc = IF Len(j.todo) = 1 THEN AfterQueries(j) ELSE "query"]

QueryOk(w) ==
  /\ At(w, "query") /\ LoggedIn
  /\ Run(Head(job[w].todo), job[w])
  /\ job' = [job EXCEPT ![w] = Advance(job[w])]
  /\ UNCHANGED <<mysqld, config, pma, forked, events>>

Refused(q) == q.kind \in {"alter", "grant"} /\ account[q.acct] = Absent

(* Mutant: the loop over the queries goes on after an error. *)
QueryFails_GoesOn(w) ==
  /\ At(w, "query")
  /\ ~LoggedIn \/ Refused(Head(job[w].todo))
  /\ job' = [job EXCEPT ![w] = Advance(job[w])]
  /\ UNCHANGED <<mysqld, serverVars, config, pma, forked, events>>

(* No server, login refused, query refused. *)
QueryFails(w) ==
  /\ At(w, "query")
  /\ ~LoggedIn \/ Refused(Head(job[w].todo))
  /\ job' = [job EXCEPT ![w].pc = "failed"]
  /\ UNCHANGED <<mysqld, serverVars, config, pma, forked, events>>

(* No answer within 10 seconds, or mysql.exe itself failed: the server may *)
(* have run the query all the same.                                        *)
QueryTimesOut(w) ==
  /\ "timeout" \in Faults /\ events < MaxEvents
  /\ At(w, "query")
  /\ \/ UNCHANGED serverVars
     \/ LoggedIn /\ Run(Head(job[w].todo), job[w])
  /\ job' = [job EXCEPT ![w].pc = "failed"]
  /\ events' = events + 1
  /\ UNCHANGED <<mysqld, config, pma, forked>>

-----------------------------------------------------------------------------
(* Mutant: load_db_config has no fallback for a file it cannot parse. *)
OpenConfig_NoFallback(w) ==
  /\ At(w, "open")
  /\ config' = Absent
  /\ job' = [job EXCEPT ![w].pc = "save"]
  /\ UNCHANGED <<mysqld, serverVars, pma, forked, events>>

(* save_db_config: open(..., 'w') empties the file, and an empty file is   *)
(* read as no password.                                                    *)
OpenConfig(w) ==
  /\ At(w, "open")
  /\ config' = NoPassword
  /\ job' = [job EXCEPT ![w].pc = "save"]
  /\ UNCHANGED <<mysqld, serverVars, pma, forked, events>>

SaveConfig(w) ==
  /\ At(w, "save")
  /\ config' = job[w].pw
  /\ job' = [job EXCEPT ![w].pc = "pma"]
  /\ UNCHANGED <<mysqld, serverVars, pma, forked, events>>

(* It swallows what open or the write raises: the file is as it was, or    *)
(* as emptied as it is by now.                                             *)
ConfigUnsaved(w) ==
  /\ "error" \in Faults /\ events < MaxEvents
  /\ At(w, "open") \/ At(w, "save")
  /\ \/ config' = config
     \/ At(w, "open") /\ config' = NoPassword
  /\ job' = [job EXCEPT ![w].pc = "pma"]
  /\ events' = events + 1
  /\ UNCHANGED <<mysqld, serverVars, pma, forked>>

(* update_phpmyadmin_password returns without a file, writes nothing when  *)
(* the pattern does not match, and re.subn raises on an awkward password;  *)
(* the caller prints the exception and goes on to report success.          *)
Matches(w) == pma # Absent /\ job[w].pw \notin Awkward

UpdatePhpMyAdmin(w) ==
  /\ At(w, "pma")
  /\ pma' = IF Matches(w) THEN job[w].pw ELSE pma
  /\ job' = [job EXCEPT ![w].pc = "ok"]
  /\ UNCHANGED <<mysqld, serverVars, config, forked, events>>

(* So it does when reading or writing the file raises, which may leave it  *)
(* empty.                                                                  *)
PhpMyAdminUnwritten(w) ==
  /\ "error" \in Faults /\ events < MaxEvents
  /\ At(w, "pma")
  /\ pma' = pma \/ (Matches(w) /\ pma' = Absent)
  /\ job' = [job EXCEPT ![w].pc = "ok"]
  /\ events' = events + 1
  /\ UNCHANGED <<mysqld, serverVars, config, forked>>

WorkerStep(w) ==
  \/ QueryOk(w) \/ QueryFails(w) \/ QueryTimesOut(w)
  \/ OpenConfig(w) \/ SaveConfig(w) \/ ConfigUnsaved(w)
  \/ UpdatePhpMyAdmin(w) \/ PhpMyAdminUnwritten(w)

-----------------------------------------------------------------------------
(* The buttons, which ask for a running server first.                      *)
Press(w, j) ==
  /\ events < MaxEvents /\ ~Working(w) /\ mysqld
  /\ job' = [job EXCEPT ![w] = j]
  /\ events' = events + 1
  /\ UNCHANGED <<mysqld, serverVars, config, pma>>

update_root_db_pass(w, pw) ==
  /\ Press(w, [NoJob EXCEPT !.kind = "root", !.pw = pw, !.todo = RootQueries, !.pc = "query"])
  /\ UNCHANGED forked

(* The user has, or another thread is giving it, another password. *)
Forks(u, pw) ==
  \/ \E h \in Hosts : account[<<u, h>>] \notin {Absent, pw}
  \/ \E x \in Workers : Working(x) /\ job[x].kind = "user" /\ job[x].user = u /\ job[x].pw # pw

create_db_and_user(w, u, pw, d) ==
  /\ Press(w, [kind |-> "user", todo |-> UserQueries(u, d), pw |-> pw,
               user |-> u, db |-> d, pc |-> "query"])
  /\ forked' = IF Forks(u, pw) THEN forked \cup {u} ELSE forked

(* mysqld goes down, or is started again, while threads are at work.       *)
ServerToggles ==
  /\ "mysqld" \in Faults /\ events < MaxEvents
  /\ mysqld' = ~mysqld
  /\ events' = events + 1
  /\ UNCHANGED <<serverVars, config, pma, job, forked>>

(* The application ends, with every thread of it, and is started again;    *)
(* config.inc.php may have been opened and not been written yet.           *)
AppCrash ==
  /\ "app" \in Faults /\ events < MaxEvents
  /\ \E w \in Workers : Working(w)
  /\ job' = [w \in Workers |-> NoJob]
  /\ pma' = pma \/ ((\E w \in Workers : At(w, "pma") /\ Matches(w)) /\ pma' = Absent)
  /\ events' = events + 1
  /\ UNCHANGED <<mysqld, serverVars, config, forked>>

Quiet ==
  /\ events = MaxEvents /\ \A w \in Workers : ~Working(w)
  /\ UNCHANGED vars

Next ==
  \/ \E w \in Workers :
       \/ WorkerStep(w)
       \/ \E pw \in Passwords :
            \/ update_root_db_pass(w, pw)
            \/ \E u \in Users, d \in Databases \cup {Everything} : create_db_and_user(w, u, pw, d)
  \/ ServerToggles \/ AppCrash \/ Quiet

Spec == Init /\ [][Next]_vars

-----------------------------------------------------------------------------
(* Properties *)

(* A change of root's password gets past its queries, to be saved and      *)
(* reported (app.py 2696-2705), only if it was none: every query logs in   *)
(* with the password of db_config.json, the first that alters root's       *)
(* account shuts the rest out, and no interleaving with another change, a  *)
(* time-out, a kill or a lost save lets one through.                       *)
OnlyOldPasswordSaved ==
  [][\A w \in Workers : At(w, "query") /\ At(w, "open")' => job[w].pw = config]_vars

(* "Database + User '{user}' initialized." (app.py:2753) is said only when *)
(* the database is there and the user has its privileges from both hosts,  *)
(* whatever other threads, the server or the clock did meanwhile.          *)
GrantedWhenReported ==
  \A w \in Workers : At(w, "ok") /\ job[w].kind = "user" =>
    /\ job[w].db \in schemas \cup {Everything}
    /\ \A h \in Hosts : <<<<job[w].user, h>>, job[w].db>> \in granted

(* When that is said, the user logs in with the password that was typed,   *)
(* from either host, also when earlier presses were cut off between the    *)
(* two accounts by a time-out, the server or a kill: CREATE USER IF NOT    *)
(* EXISTS completes what they left, as long as every press for that user   *)
(* gave the same password (app.py 2733-2734).                              *)
PasswordAsTyped ==
  \A w \in Workers :
    At(w, "ok") /\ job[w].kind = "user" /\ job[w].user \notin forked \cup {"root"} =>
      \A h \in Hosts : account[<<job[w].user, h>>] = job[w].pw

(* "Failed root pass alteration." (app.py:2710) means what it says: root's *)
(* password is as before, and db_config.json still opens the server.       *)
FailedMeansUnaltered ==
  \A w \in Workers : At(w, "failed") /\ job[w].kind = "root" => account[Root] = config
=============================================================================
