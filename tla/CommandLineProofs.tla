-------------------------- MODULE CommandLineProofs --------------------------
(***************************************************************************)
(* Proofs about CommandLine for every number of processes and commands,    *)
(* all PHP versions and port settings, beside the window's handlers.       *)
(***************************************************************************)
EXTENDS CommandLine, TLAPS

(* Sequences, one call at a time. *)
LEMMA FirstCall ==
  ASSUME NEW S, NEW q \in Seq(S), q # <<>>
  PROVE  Head(q) \in S /\ Tail(q) \in Seq(S)
OBVIOUS

LEMMA OneMore ==
  ASSUME NEW S, NEW c \in S, NEW q \in Seq(S)
  PROVE  /\ <<c>> \o q \in Seq(S) /\ <<c>> \o q # <<>>
         /\ Head(<<c>> \o q) = c /\ Tail(<<c>> \o q) = q
<1>1. <<c>> \in Seq(S)
  OBVIOUS
<1> QED
  BY <1>1

(* The calls a command makes: each has the service and the version it needs. *)
GoodCalls ==
  {c \in Calls :
     /\ c.op \in {"stop", "start", "spawn", "php", "phpSpawn"} => c.svc \in Services
     /\ c.op \in {"php", "phpSpawn"} => c.svc = "php"
     /\ c.op \notin {"stop", "startActive"} => c.ver \in Versions}

Starts == {"spawn", "phpSpawn"}

CliStates ==
  [todo : Seq(Calls), pc : {"begin", "kill", "wait", "write"},
   pid : Pids \cup {None}, snap : Tables, buf : Tables]

TypeInv ==
  /\ TypeOK
  /\ cli.todo \in Seq(GoodCalls)
  /\ cli.pc # "begin" => ~Idle
  /\ cli.pc = "kill" => Me.op = "stop"
  /\ cli.pc = "wait" => Me.op \in Starts /\ cli.pid \in Pids
  /\ cli.pc = "write" => Me.op \in Starts \cup {"stop", "setver"}

LEMMA GoodCall ==
  /\ \A s \in Services : Call("stop", s, None) \in GoodCalls
  /\ \A v \in Versions : /\ \A s \in Services : /\ Call("start", s, v) \in GoodCalls
                                                /\ Call("spawn", s, v) \in GoodCalls
                         /\ Call("php", "php", v) \in GoodCalls
                         /\ Call("phpSpawn", "php", v) \in GoodCalls
                         /\ Call("setver", None, v) \in GoodCalls
                         /\ Call("restartPhp", None, v) \in GoodCalls
  /\ Call("startActive", None, None) \in GoodCalls
BY DEF Call, GoodCalls, Calls, Ops, Services

LEMMA GoodInCalls == \A q \in Seq(GoodCalls) : q \in Seq(Calls)
BY DEF GoodCalls

LEMMA CallFields ==
  ASSUME NEW c \in GoodCalls
  PROVE  /\ c.op \in Ops
         /\ c.op \in {"stop", "start", "spawn", "php", "phpSpawn"} => c.svc \in Services
         /\ c.op \in {"php", "phpSpawn"} => c.svc = "php"
         /\ c.op \notin {"stop", "startActive"} => c.ver \in Versions
BY DEF GoodCalls, Calls

LEMMA MeGood ==
  ASSUME TypeInv, ~Idle
  PROVE  Me \in GoodCalls /\ Rest \in Seq(GoodCalls) /\ cli.todo = <<Me>> \o Rest
<1>1. cli.todo \in Seq(GoodCalls) /\ cli.todo # <<>>
  BY DEF TypeInv, Idle
<1> HIDE DEF TypeInv
<1>2. Head(cli.todo) \in GoodCalls /\ Tail(cli.todo) \in Seq(GoodCalls)
  BY <1>1, FirstCall
<1>3. cli.todo = <<Head(cli.todo)>> \o Tail(cli.todo)
  BY <1>1
<1> QED
  BY <1>2, <1>3 DEF Me, Rest

LEMMA TableFields ==
  ASSUME NEW tbl \in Tables
  PROVE  /\ tbl.pid \in [Services -> Pids \cup {None, Missing}]
         /\ tbl.ver \in Versions \cup {None, Missing} /\ tbl.bom \in BOOLEAN
         /\ \A s \in Services, p \in Pids \cup {None} : SetPid(tbl, s, p) \in Tables
         /\ \A v \in Versions : SetVer(tbl, v) \in Tables
         /\ [tbl EXCEPT !.bom = TRUE] \in Tables
BY DEF Tables, SetPid, SetVer

LEMMA EmptyTable ==
  /\ AllKeys(None) \in Tables /\ AllKeys(Missing) \in Tables
  /\ \A s \in Services : AllKeys(None).pid[s] = None /\ AllKeys(Missing).pid[s] = Missing
  /\ AllKeys(None).ver = None /\ AllKeys(Missing).ver = Missing
BY DEF AllKeys, Tables

LEMMA Versioned ==
  ASSUME NEW tbl
  PROVE  PhpVersionOf(tbl) \in Versions
BY CommandLineAssumption DEF PhpVersionOf

-----------------------------------------------------------------------------
(* The effect of each step on the console's state, written out.             *)

LEMMA ContinueEffect ==
  ASSUME TypeInv, NEW seq \in Seq(GoodCalls), Continue(seq)
  PROVE  /\ cli' \in CliStates /\ cli'.todo = seq /\ cli'.pc = "begin"
         /\ cli'.pid = None /\ cli'.buf = AllKeys(None)
         /\ cli'.snap = cli.snap \/ cli'.snap = AllKeys(None)
<1> DEFINE kept == IF \E i \in DOMAIN seq : seq[i].op = "spawn" THEN cli.snap ELSE AllKeys(None)
<1>1. seq \in Seq(Calls)
  BY GoodInCalls
<1>2. cli.snap \in Tables
  BY DEF TypeInv, TypeOK
<1>3. kept \in Tables /\ (kept = cli.snap \/ kept = AllKeys(None))
  BY <1>2, EmptyTable
<1>4. cli' = [pid |-> None, todo |-> seq, pc |-> "begin", snap |-> kept, buf |-> AllKeys(None)]
  BY DEF Continue, CliIdle
<1> HIDE DEF kept
<1> QED
  BY <1>1, <1>3, <1>4, EmptyTable DEF CliStates

(* A step inside the first call. *)
Inside(pc) ==
  /\ cli' \in CliStates /\ cli'.todo = cli.todo /\ cli'.pc = pc /\ cli'.snap = cli.snap

LEMMA StopCheckEffect ==
  ASSUME TypeInv, StopCheck
  PROVE  /\ ~Idle /\ Me.op = "stop" /\ Me.svc \in Services /\ cli.pc = "begin"
         /\ UNCHANGED <<procVars, table, last, events>>
         /\ \/ /\ Running(Me.svc) /\ Inside("kill") /\ cli'.buf = cli.buf
               /\ \E p \in StatusPids(Me.svc) : cli'.pid = p /\ p \in Pids
            \/ /\ ~Running(Me.svc) /\ Inside("write") /\ cli'.pid = cli.pid
               /\ cli'.buf = SetPid(table, Me.svc, None)
<1>1. /\ ~Idle /\ Me.op = "stop" /\ cli.pc = "begin" /\ UNCHANGED <<procVars, table, last, events>>
  BY DEF StopCheck, At, OnlyCli
<1>2. Me.svc \in Services
  BY <1>1, MeGood, CallFields
<1>3. cli \in CliStates /\ table \in Tables
  BY DEF TypeInv, TypeOK, CliStates
<1>4. CASE Running(Me.svc)
  <2>1. PICK p \in StatusPids(Me.svc) : cli' = [cli EXCEPT !.pc = "kill", !.pid = p]
    BY <1>4 DEF StopCheck
  <2>2. p \in Pids
    BY <2>1 DEF StatusPids, AliveOf
  <2> QED
    BY <1>1, <1>2, <1>3, <1>4, <2>1, <2>2 DEF CliStates, Inside
<1>5. CASE ~Running(Me.svc)
  <2> DEFINE b == SetPid(table, Me.svc, None)
  <2>1. b \in Tables
    BY <1>2, <1>3, TableFields
  <2>2. cli' = [cli EXCEPT !.pc = "write", !.buf = b]
    BY <1>5 DEF StopCheck
  <2> HIDE DEF b
  <2>3. Inside("write") /\ cli'.pid = cli.pid /\ cli'.buf = b
    BY <1>3, <2>1, <2>2 DEF CliStates, Inside
  <2> QED
    BY <1>1, <1>2, <1>5, <2>3 DEF b
<1> QED
  BY <1>4, <1>5

LEMMA KillEffect ==
  ASSUME TypeInv, Kill
  PROVE  /\ ~Idle /\ Me.op = "stop" /\ Me.svc \in Services /\ cli.pc = "kill"
         /\ phase' = Killed({cli.pid} \cup AliveOf(Me.svc)) /\ UNCHANGED <<image, table, last, events>>
         /\ nginxPid' \in {nginxPid, None}
         /\ Inside("write") /\ cli'.buf = SetPid(table, Me.svc, None)
<1>1. /\ ~Idle /\ Me.op = "stop" /\ cli.pc = "kill" /\ UNCHANGED <<image, table, last, events>>
      /\ phase' = Killed({cli.pid} \cup AliveOf(Me.svc)) /\ nginxPid' \in {nginxPid, None}
  BY DEF Kill, At, OnlyCli
<1>2. Me.svc \in Services
  BY <1>1, MeGood, CallFields
<1>3. cli \in CliStates /\ table \in Tables
  BY DEF TypeInv, TypeOK, CliStates
<1> DEFINE b == SetPid(table, Me.svc, None)
<1>4. b \in Tables
  BY <1>2, <1>3, TableFields
<1>5. cli' = [cli EXCEPT !.pc = "write", !.pid = None, !.buf = b]
  BY DEF Kill
<1> HIDE DEF b
<1>6. Inside("write") /\ cli'.buf = b
  BY <1>3, <1>4, <1>5 DEF CliStates, Inside
<1> QED
  BY <1>1, <1>2, <1>6 DEF b

LEMMA SpawnEffect ==
  ASSUME TypeInv, Spawn
  PROVE  /\ ~Idle /\ Me.op \in Starts /\ Me.svc \in Services /\ cli.pc = "begin"
         /\ UNCHANGED <<table, last, events>>
         /\ Inside("wait") /\ cli'.buf = cli.buf
         /\ cli'.pid \in Pids /\ Popen(cli'.pid, Me.svc)
<1>1. ~Idle /\ Me.op \in Starts /\ cli.pc = "begin" /\ UNCHANGED <<table, last, events>>
  BY DEF Spawn, At, OnlyCli, Starts
<1>2. Me.svc \in Services
  BY <1>1, MeGood, CallFields DEF Starts
<1>3. cli \in CliStates
  BY DEF TypeInv, TypeOK, CliStates
<1>4. PICK p \in Pids : Popen(p, Me.svc) /\ cli' = [cli EXCEPT !.pc = "wait", !.pid = p]
  BY DEF Spawn
<1>5. Inside("wait") /\ cli'.buf = cli.buf /\ cli'.pid = p
  BY <1>3, <1>4 DEF CliStates, Inside
<1> QED
  BY <1>1, <1>2, <1>4, <1>5

LEMMA WaitOkEffect ==
  ASSUME TypeInv, WaitOk
  PROVE  /\ ~Idle /\ Me.op \in Starts /\ Me.svc \in Services /\ cli.pc = "wait"
         /\ is_port_open(PortOf[Me.svc])
         /\ UNCHANGED <<procVars, table, last, events>>
         /\ Inside("write") /\ PidFound \in Pids /\ TableRead \in Tables
         /\ Me.ver \in Versions
         /\ cli'.buf = SetPid(IF Me.svc = "php" THEN SetVer(TableRead, Me.ver) ELSE TableRead,
                              Me.svc, PidFound)
<1>1. /\ ~Idle /\ Me.op \in Starts /\ cli.pc = "wait" /\ is_port_open(PortOf[Me.svc])
      /\ UNCHANGED <<procVars, table, last, events>>
  BY DEF WaitOk, At, OnlyCli, Starts
<1>2. Me.svc \in Services /\ Me.ver \in Versions
  BY <1>1, MeGood, CallFields DEF Starts
<1>3. cli \in CliStates /\ table \in Tables /\ cli.pid \in Pids /\ nginxPid \in Pids \cup {None}
  BY <1>1 DEF TypeInv, TypeOK, CliStates, ProcTypeOK
<1>4. PidFound \in Pids /\ TableRead \in Tables
  BY <1>3 DEF PidFound, TableRead, CliStates
<1> DEFINE tbl == IF Me.svc = "php" THEN SetVer(TableRead, Me.ver) ELSE TableRead
           b == SetPid(tbl, Me.svc, PidFound)
<1>5. tbl \in Tables
  BY <1>2, <1>4, TableFields
<1>6. cli' = [cli EXCEPT !.pc = "write", !.pid = PidFound, !.buf = b]
  BY DEF WaitOk
<1> HIDE DEF tbl
<1>7. b \in Tables
  BY <1>2, <1>4, <1>5, TableFields
<1> HIDE DEF b
<1>8. Inside("write") /\ cli'.buf = b
  BY <1>3, <1>4, <1>6, <1>7 DEF CliStates, Inside
<1> QED
  BY <1>1, <1>2, <1>4, <1>8 DEF b, tbl

LEMMA SetVersionEffect ==
  ASSUME TypeInv, SetVersion
  PROVE  /\ ~Idle /\ Me.op = "setver" /\ Me.ver \in Versions /\ cli.pc = "begin"
         /\ UNCHANGED <<procVars, table, last, events>>
         /\ Inside("write") /\ cli'.buf = SetVer(table, Me.ver)
<1>1. /\ ~Idle /\ Me.op = "setver" /\ cli.pc = "begin" /\ UNCHANGED <<procVars, table, last, events>>
  BY DEF SetVersion, At, OnlyCli
<1>2. Me.ver \in Versions
  BY <1>1, MeGood, CallFields
<1>3. cli \in CliStates /\ table \in Tables
  BY DEF TypeInv, TypeOK, CliStates
<1> DEFINE b == SetVer(table, Me.ver)
<1>4. b \in Tables
  BY <1>2, <1>3, TableFields
<1>5. cli' = [cli EXCEPT !.pc = "write", !.buf = b]
  BY DEF SetVersion
<1> HIDE DEF b
<1>6. Inside("write") /\ cli'.buf = b
  BY <1>3, <1>4, <1>5 DEF CliStates, Inside
<1> QED
  BY <1>1, <1>2, <1>6 DEF b

LEMMA WriteEffect ==
  ASSUME TypeInv, Write
  PROVE  /\ ~Idle /\ cli.pc = "write" /\ Rest \in Seq(GoodCalls)
         /\ table' = [cli.buf EXCEPT !.bom = TRUE] /\ table' \in Tables
         /\ table'.pid = cli.buf.pid /\ table'.ver = cli.buf.ver
         /\ Continue(Rest) /\ UNCHANGED <<procVars, last, events>>
<1>1. /\ ~Idle /\ cli.pc = "write" /\ table' = [cli.buf EXCEPT !.bom = TRUE]
      /\ Continue(Rest) /\ UNCHANGED <<procVars, last, events>>
  BY DEF Write, At
<1>2. cli.buf \in Tables
  BY DEF TypeInv, TypeOK
<1>3. table' \in Tables /\ table'.pid = cli.buf.pid /\ table'.ver = cli.buf.ver
  BY <1>1, <1>2 DEF Tables
<1> QED
  BY <1>1, <1>3, MeGood

LEMMA WriteFailsEffect ==
  ASSUME TypeInv, WriteFails
  PROVE  /\ ~Idle /\ cli.pc = "write" /\ Rest \in Seq(GoodCalls)
         /\ table' \in Tables /\ table' \in {table} \cup CutOff
         /\ last' = None \/ (last' = last /\ table' = table /\ Me.op # "setver")
         /\ Continue(Rest) /\ UNCHANGED procVars /\ events' \in 0..MaxEvents
<1>1. AllKeys(None) \in Tables /\ AllKeys(Missing) \in Tables
  BY EmptyTable
<1>2. CutOff \subseteq Tables
  BY <1>1 DEF CutOff, Tables
<1>3. table \in Tables /\ events \in 0..MaxEvents
  BY DEF TypeInv, TypeOK
<1>4. events' \in 0..MaxEvents
  BY <1>3, CommandLineAssumption DEF WriteFails
<1> QED
  BY <1>2, <1>3, <1>4, MeGood DEF WriteFails, At

(* The list a start becomes. *)
LEMMA NestedLists ==
  ASSUME NEW s \in Services, NEW v \in Versions, NEW q \in Seq(GoodCalls)
  PROVE  (Nested(s, v) \o <<Call("spawn", s, v)>>) \o q =
           IF s \in Web
           THEN <<Call("stop", OtherWeb(s), None)>> \o
                  (<<Call("php", "php", v)>> \o (<<Call("spawn", s, v)>> \o q))
           ELSE <<Call("spawn", s, v)>> \o q
<1> DEFINE c == Call("spawn", s, v)
           p == Call("php", "php", v)
           o == Call("stop", OtherWeb(s), None)
<1>0. c \in GoodCalls /\ p \in GoodCalls /\ o \in GoodCalls
  BY GoodCall DEF Services, Web, OtherWeb
<1> HIDE DEF c, p, o
<1>1. CASE s \in Web
  <2>1. Nested(s, v) = <<o, p>>
    BY <1>1 DEF Nested, o, p
  <2>2. (<<o, p>> \o <<c>>) \o q = <<o>> \o (<<p>> \o (<<c>> \o q))
    BY <1>0
  <2> QED
    BY <1>1, <2>1, <2>2 DEF c, p, o
<1>2. CASE s \notin Web
  <2>1. Nested(s, v) = <<>>
    BY <1>2 DEF Nested
  <2>2. (<<>> \o <<c>>) \o q = <<c>> \o q
    BY <1>0
  <2> QED
    BY <1>2, <2>1, <2>2 DEF c
<1> QED
  BY <1>1, <1>2

StartList(s, v, q) ==
  IF s \in Web
  THEN <<Call("stop", OtherWeb(s), None)>> \o
         (<<Call("php", "php", v)>> \o (<<Call("spawn", s, v)>> \o q))
  ELSE <<Call("spawn", s, v)>> \o q

LEMMA StartListGood ==
  ASSUME NEW s \in Services, NEW v \in Versions, NEW q \in Seq(GoodCalls)
  PROVE  StartList(s, v, q) \in Seq(GoodCalls) /\ StartList(s, v, q) # <<>>
<1>0. /\ Call("spawn", s, v) \in GoodCalls /\ Call("php", "php", v) \in GoodCalls
      /\ Call("stop", OtherWeb(s), None) \in GoodCalls
  BY GoodCall DEF Services, Web, OtherWeb
<1>1. <<Call("spawn", s, v)>> \o q \in Seq(GoodCalls) /\ <<Call("spawn", s, v)>> \o q # <<>>
  BY <1>0, OneMore
<1>2. <<Call("php", "php", v)>> \o (<<Call("spawn", s, v)>> \o q) \in Seq(GoodCalls)
  BY <1>0, <1>1, OneMore
<1>3. StartList(s, v, q) \in Seq(GoodCalls) /\ StartList(s, v, q) # <<>>
  BY <1>0, <1>1, <1>2, OneMore DEF StartList
<1> QED
  BY <1>3

LEMMA StartCheckEffect ==
  ASSUME TypeInv, StartCheck
  PROVE  /\ ~Idle /\ Me.op = "start" /\ Me.svc \in Services /\ Me.ver \in Versions
         /\ cli.pc = "begin" /\ Rest \in Seq(GoodCalls)
         /\ UNCHANGED <<procVars, table, last, events>>
         /\ \/ Running(Me.svc) /\ Continue(Rest)
            \/ /\ ~Running(Me.svc) /\ cli' \in CliStates /\ cli'.pc = "begin"
               /\ cli'.snap = table /\ cli'.buf = cli.buf
               /\ cli'.todo = StartList(Me.svc, Me.ver, Rest)
<1>1. /\ ~Idle /\ Me.op = "start" /\ cli.pc = "begin" /\ UNCHANGED <<procVars, table, last, events>>
  BY DEF StartCheck, At, OnlyCli
<1>2. Me.svc \in Services /\ Me.ver \in Versions /\ Rest \in Seq(GoodCalls)
  BY <1>1, MeGood, CallFields
<1>3. cli \in CliStates /\ table \in Tables
  BY DEF TypeInv, TypeOK, CliStates
<1>4. CASE ~Running(Me.svc)
  <2> DEFINE q == (Nested(Me.svc, Me.ver) \o <<Call("spawn", Me.svc, Me.ver)>>) \o Rest
  <2>1. cli' = [cli EXCEPT !.snap = table, !.todo = q]
    BY <1>4 DEF StartCheck
  <2>2. q = StartList(Me.svc, Me.ver, Rest)
    BY <1>2, NestedLists DEF StartList
  <2>3. q \in Seq(Calls)
    BY <1>2, <2>2, StartListGood, GoodInCalls
  <2> HIDE DEF q
  <2>4. cli' \in CliStates /\ cli'.pc = cli.pc /\ cli'.snap = table /\ cli'.buf = cli.buf /\ cli'.todo = q
    BY <1>3, <2>1, <2>3 DEF CliStates
  <2> QED
    BY <1>1, <1>2, <1>4, <2>2, <2>4
<1>5. CASE Running(Me.svc)
  BY <1>1, <1>2, <1>5 DEF StartCheck
<1> QED
  BY <1>4, <1>5

(* The steps that only go on to another list. *)
LEMMA ListEffect ==
  ASSUME TypeInv, PhpCheck \/ SpawnFails \/ WaitTimeout \/ RestartPhp \/ StartActive
  PROVE  /\ ~Idle /\ Rest \in Seq(GoodCalls) /\ UNCHANGED <<table, last, events, image, nginxPid>>
         /\ \E seq \in Seq(GoodCalls) :
              /\ Continue(seq)
              /\ \/ seq = Rest /\ Me.op \in Starts \cup {"php", "restartPhp"}
                 \/ /\ Me.op = "php" /\ ~Running("php") /\ UNCHANGED procVars
                    /\ seq = <<Call("phpSpawn", "php", Me.ver)>> \o Rest /\ Me.ver \in Versions
                 \/ /\ Me.op = "restartPhp" /\ Me.ver \in Versions /\ UNCHANGED procVars
                    /\ seq = <<Call("stop", "php", None), Call("php", "php", Me.ver)>> \o Rest
                 \/ /\ Me.op = "startActive" /\ UNCHANGED procVars
                    /\ \E w \in Web, v \in Versions :
                         seq = <<Call("start", "mysql", v), Call("start", w, v)>> \o Rest
         /\ \/ UNCHANGED phase /\ cli.pc = "begin"
            \/ /\ cli.pc = "wait" /\ phase' = Killed({cli.pid})
               /\ Me.op \in Starts /\ ~is_port_open(PortOf[Me.svc])
<1>0. ASSUME ~Idle PROVE Rest \in Seq(GoodCalls) /\ Me \in GoodCalls
  BY <1>0, MeGood
<1>1. CASE PhpCheck
  <2>1. ~Idle /\ Me.op = "php" /\ cli.pc = "begin" /\ UNCHANGED <<procVars, table, last, events>>
    BY <1>1 DEF PhpCheck, At, OnlyCli
  <2>2. Me.ver \in Versions /\ Rest \in Seq(GoodCalls)
    BY <1>0, <2>1, CallFields
  <2>3. <<Call("phpSpawn", "php", Me.ver)>> \o Rest \in Seq(GoodCalls)
    BY <2>2, GoodCall, OneMore
  <2> QED
    BY <1>1, <2>1, <2>2, <2>3 DEF PhpCheck, procVars
<1>2. CASE SpawnFails
  BY <1>0, <1>2 DEF SpawnFails, At, OnlyCli, procVars, Starts
<1>3. CASE WaitTimeout
  BY <1>0, <1>3 DEF WaitTimeout, At, OnlyCli, taskkill, Starts
<1>4. CASE RestartPhp
  <2>1. ~Idle /\ Me.op = "restartPhp" /\ cli.pc = "begin" /\ UNCHANGED <<procVars, table, last, events>>
    BY <1>4 DEF RestartPhp, At, OnlyCli
  <2>2. Me.ver \in Versions /\ Rest \in Seq(GoodCalls)
    BY <1>0, <2>1, CallFields
  <2>3. <<Call("stop", "php", None), Call("php", "php", Me.ver)>> \in Seq(GoodCalls)
    BY <2>2, GoodCall DEF Services
  <2>4. <<Call("stop", "php", None), Call("php", "php", Me.ver)>> \o Rest \in Seq(GoodCalls)
    BY <2>2, <2>3
  <2>5. <<>> \o Rest = Rest
    BY <2>2
  <2> QED
    BY <1>4, <2>1, <2>2, <2>4, <2>5 DEF RestartPhp, procVars
<1>5. CASE StartActive
  <2>1. ~Idle /\ Me.op = "startActive" /\ cli.pc = "begin" /\ UNCHANGED <<procVars, table, last, events>>
    BY <1>5 DEF StartActive, At, OnlyCli
  <2> DEFINE v == GetCurrentPhpVersion
             w == GetActiveWebServer
             q == <<Call("start", "mysql", v), Call("start", w, v)>>
  <2>2. v \in Versions /\ w \in Web /\ Rest \in Seq(GoodCalls)
    BY <1>0, <2>1, Versioned DEF GetCurrentPhpVersion, GetActiveWebServer, Web
  <2>3. Continue(q \o Rest)
    BY <1>5 DEF StartActive
  <2> HIDE DEF v, w
  <2>4. q \in Seq(GoodCalls)
    BY <2>2, GoodCall DEF Services
  <2>5. q \o Rest \in Seq(GoodCalls)
    BY <2>2, <2>4
  <2> QED
    BY <2>1, <2>2, <2>3, <2>5 DEF procVars
<1> QED
  BY <1>1, <1>2, <1>3, <1>4, <1>5

(* A list in which no process is started yet. *)
Plain(q) == \A i \in DOMAIN q : q[i].op \notin Starts

SwitchList(v) == <<Call("setver", None, v), Call("restartPhp", None, v)>>

LEMMA CommandEffect ==
  ASSUME TypeInv, Commands
  PROVE  /\ Idle /\ UNCHANGED <<procVars, table>> /\ events' \in 0..MaxEvents
         /\ cli' \in CliStates /\ cli'.pc = "begin" /\ cli'.snap = AllKeys(None)
         /\ cli'.buf = AllKeys(None) /\ cli'.todo \in Seq(GoodCalls) /\ Plain(cli'.todo)
         /\ \/ last' = None
            \/ last' \in Versions /\ cli'.todo = SwitchList(last')
<1>1. ASSUME NEW v \in Versions \cup {None}, NEW q \in Seq(GoodCalls), Command(v, q), Plain(q),
             v = None \/ q = SwitchList(v)
      PROVE  /\ Idle /\ UNCHANGED <<procVars, table>> /\ events' \in 0..MaxEvents
             /\ cli' \in CliStates /\ cli'.pc = "begin" /\ cli'.snap = AllKeys(None)
             /\ cli'.buf = AllKeys(None) /\ cli'.todo \in Seq(GoodCalls) /\ Plain(cli'.todo)
             /\ last' = None \/ (last' \in Versions /\ cli'.todo = SwitchList(last'))
  <2>1. /\ cli' = [pid |-> None, todo |-> q, pc |-> "begin",
                   snap |-> AllKeys(None), buf |-> AllKeys(None)]
        /\ last' = v /\ Idle /\ UNCHANGED <<procVars, table>>
    BY <1>1 DEF Command, CliIdle
  <2>2. events' \in 0..MaxEvents
    BY <1>1, CommandLineAssumption DEF Command, TypeInv, TypeOK
  <2> QED
    BY <1>1, <2>1, <2>2, EmptyTable, GoodInCalls DEF CliStates
<1> DEFINE g == GetCurrentPhpVersion
           sa == Call("startActive", None, None)
<1>2. g \in Versions /\ sa \in GoodCalls /\ sa.op = "startActive"
  BY Versioned, GoodCall DEF GetCurrentPhpVersion, Call
<1>3. \A s \in Services : /\ Call("stop", s, None) \in GoodCalls /\ Call("start", s, g) \in GoodCalls
                          /\ Call("stop", s, None).op = "stop" /\ Call("start", s, g).op = "start"
  BY <1>2, GoodCall DEF Call
<1>4. ASSUME NEW v \in Versions
      PROVE  SwitchList(v) \in Seq(GoodCalls) /\ Plain(SwitchList(v))
  <2>1. /\ Call("setver", None, v) \in GoodCalls /\ Call("restartPhp", None, v) \in GoodCalls
        /\ Call("setver", None, v).op = "setver" /\ Call("restartPhp", None, v).op = "restartPhp"
    BY GoodCall DEF Call
  <2> QED
    BY <2>1 DEF SwitchList, Plain, Starts
<1> HIDE DEF g, sa
<1>5. /\ <<sa>> \in Seq(GoodCalls) /\ Plain(<<sa>>)
  BY <1>2 DEF Plain, Starts
<1>6. \A s \in Services : /\ <<Call("start", s, g)>> \in Seq(GoodCalls) /\ Plain(<<Call("start", s, g)>>)
                          /\ <<Call("stop", s, None)>> \in Seq(GoodCalls)
                          /\ Plain(<<Call("stop", s, None)>>)
  BY <1>3 DEF Plain, Starts
<1>7. \A s, t \in Services :
        /\ <<Call("stop", s, None), Call("start", t, g)>> \in Seq(GoodCalls)
        /\ Plain(<<Call("stop", s, None), Call("start", t, g)>>)
  BY <1>3 DEF Plain, Starts
<1>8. StopEach \in Seq(GoodCalls) /\ Plain(StopEach)
  BY <1>3 DEF Plain, Starts, StopEach, Services, Web
<1>9. StopEach \o <<sa>> \in Seq(GoodCalls) /\ Plain(StopEach \o <<sa>>)
  BY <1>2, <1>5, <1>8 DEF Plain
<1>10. \A w \in Web : w \in Services /\ OtherWeb(w) \in Services
  BY DEF Services, Web, OtherWeb
<1>11. CASE StartAll
  BY <1>1, <1>5, <1>11 DEF StartAll, sa
<1>12. CASE StopAll
  BY <1>1, <1>8, <1>12 DEF StopAll
<1>13. CASE RestartAll
  BY <1>1, <1>9, <1>13 DEF RestartAll, sa
<1>14. CASE \E s \in Services : StartOne(s) \/ StopOne(s) \/ RestartOne(s)
  <2>1. PICK s \in Services : StartOne(s) \/ StopOne(s) \/ RestartOne(s)
    BY <1>14
  <2> QED
    BY <1>1, <1>6, <1>7, <2>1 DEF StartOne, StopOne, RestartOne, g
<1>15. CASE \E w \in Web : SwitchWeb(w)
  <2>1. PICK w \in Web : SwitchWeb(w)
    BY <1>15
  <2> QED
    BY <1>1, <1>7, <1>10, <2>1 DEF SwitchWeb, g
<1>16. CASE \E v \in Versions : SwitchPhp(v)
  <2>1. PICK v \in Versions : SwitchPhp(v)
    BY <1>16
  <2>2. Command(v, SwitchList(v))
    BY <2>1 DEF SwitchPhp, SwitchList
  <2> QED
    BY <1>1, <1>4, <2>2
<1> QED
  BY <1>11, <1>12, <1>13, <1>14, <1>15, <1>16 DEF Commands

(* The window only kills and writes: a table of the file's own pids. *)
LEMMA AppEffect ==
  ASSUME TypeInv, AppHandlers
  PROVE  /\ cli' = cli /\ last' = None /\ events' \in 0..MaxEvents
         /\ table' \in Tables /\ UNCHANGED <<image, nginxPid>>
         /\ \E K \in SUBSET Pids : phase' = Killed(K)
         /\ \A s \in Services : table'.pid[s] \in Pids => table'.pid[s] = table.pid[s]
<1>0. table \in Tables /\ ProcTypeOK /\ events \in 0..MaxEvents
  BY DEF TypeInv, TypeOK
<1>1. /\ AppLoadPids \in Tables
      /\ \A s \in Services : AppLoadPids.pid[s] \in Pids => AppLoadPids.pid[s] = table.pid[s]
  BY <1>0, EmptyTable, CommandLineAssumption DEF AppLoadPids
<1>2. ASSUME AppHandler
      PROVE  cli' = cli /\ last' = None /\ events' \in 0..MaxEvents
  BY <1>0, <1>2, CommandLineAssumption DEF AppHandler
<1>3. ASSUME NEW s \in Services, AppStop(s)
      PROVE  /\ table' \in Tables /\ UNCHANGED <<image, nginxPid>>
             /\ \E K \in SUBSET Pids : phase' = Killed(K)
             /\ \A x \in Services : table'.pid[x] \in Pids => table'.pid[x] = table.pid[x]
             /\ AppHandler
  <2> DEFINE tbl == AppLoadPids
  <2>1. /\ table' = [tbl EXCEPT !.pid[s] = None] /\ AppHandler
        /\ taskkill(AliveOf(s)) \/ taskkill({tbl.pid[s]} \cap Pids)
    BY <1>3 DEF AppStop
  <2>2. AliveOf(s) \in SUBSET Pids /\ {tbl.pid[s]} \cap Pids \in SUBSET Pids
    BY DEF AliveOf
  <2>3. tbl \in Tables /\ \A x \in Services : tbl.pid[x] \in Pids => tbl.pid[x] = table.pid[x]
    BY <1>1
  <2> HIDE DEF tbl
  <2>4. /\ table' \in Tables
        /\ \A x \in Services : table'.pid[x] \in Pids => table'.pid[x] = table.pid[x]
    BY <2>1, <2>3, ProcessesAssumption DEF Tables
  <2> QED
    BY <2>1, <2>2, <2>4 DEF taskkill
<1>4. ASSUME NEW v \in Versions, AppChangePhpVersion(v)
      PROVE  /\ table' \in Tables /\ UNCHANGED <<image, nginxPid>>
             /\ \E K \in SUBSET Pids : phase' = Killed(K)
             /\ \A x \in Services : table'.pid[x] \in Pids => table'.pid[x] = table.pid[x]
             /\ AppHandler
  <2> DEFINE tbl == AppLoadPids
  <2>1. table' = [tbl EXCEPT !.ver = v] /\ AppHandler /\ UNCHANGED procVars
    BY <1>4 DEF AppChangePhpVersion
  <2>2. tbl \in Tables /\ \A x \in Services : tbl.pid[x] \in Pids => tbl.pid[x] = table.pid[x]
    BY <1>1
  <2> HIDE DEF tbl
  <2>3. /\ table' \in Tables
        /\ \A x \in Services : table'.pid[x] \in Pids => table'.pid[x] = table.pid[x]
    BY <2>1, <2>2 DEF Tables
  <2>4. phase = Killed({})
    BY <1>0 DEF Killed, ProcTypeOK
  <2> QED
    BY <2>1, <2>3, <2>4 DEF procVars
<1> QED
  BY <1>2, <1>3, <1>4 DEF AppHandlers

-----------------------------------------------------------------------------
(* Types *)

LEMMA KilledEffect ==
  ASSUME ProcTypeOK, NEW K, phase' = Killed(K)
  PROVE  /\ phase' \in [Pids -> Phases]
         /\ \A p \in Pids : /\ phase'[p] \in {phase[p], "dead"} /\ (phase[p] = "free" => phase'[p] = "free")
                            /\ phase[p] # "free" => phase'[p] # "free"
                            /\ Alive(p)' => Alive(p) /\ p \notin K /\ phase'[p] = phase[p]
BY DEF ProcTypeOK, Killed, Phases, Alive

LEMMA BindEffect ==
  ASSUME ProcTypeOK, NEW p \in Pids, Bind(p)
  PROVE  /\ phase' \in [Pids -> Phases] /\ image' = image
         /\ phase[p] = "live" /\ phase'[p] \in {"dead", "listening"}
         /\ \A q \in Pids : q # p => phase'[q] = phase[q]
         /\ nginxPid' = nginxPid
<1> DEFINE taken == is_port_open(PortOf[image[p]])
<1>1. /\ phase' = [phase EXCEPT ![p] = IF taken THEN "dead" ELSE "listening"]
      /\ nginxPid' = nginxPid
      /\ phase[p] = "live" /\ image' = image
  BY DEF Bind
<1> HIDE DEF taken
<1> QED
  BY <1>1 DEF ProcTypeOK, Phases

(* A process that goes on by itself. *)
LEMMA EnvironmentEffect ==
  ASSUME ProcTypeOK, Environment
  PROVE  /\ ProcTypeOK' /\ UNCHANGED <<image, table, cli, last, events>>
         /\ \A q \in Pids : \/ phase'[q] = phase[q]
                            \/ phase[q] = "live" /\ phase'[q] \in {"dead", "listening"}
         /\ \/ nginxPid' = nginxPid
            \/ nginxPid' \in Pids /\ image[nginxPid'] = "nginx" /\ phase[nginxPid'] = "listening"
<1>1. PICK p \in Pids : Bind(p) \/ WriteNginxPid(p)
  BY DEF Environment
<1>2. UNCHANGED <<table, cli, last, events>>
  BY DEF Environment
<1>3. CASE Bind(p)
  BY <1>2, <1>3, BindEffect DEF ProcTypeOK
<1>4. CASE WriteNginxPid(p)
  BY <1>2, <1>4 DEF WriteNginxPid, ProcTypeOK
<1> QED
  BY <1>1, <1>3, <1>4

LEMMA PopenEffect ==
  ASSUME ProcTypeOK, NEW p \in Pids, NEW s \in Services, Popen(p, s)
  PROVE  /\ ProcTypeOK' /\ nginxPid' = nginxPid
         /\ image'[p] = s /\ phase'[p] = "live"
         /\ \A q \in Pids : q # p => image'[q] = image[q] /\ phase'[q] = phase[q]
         /\ ~ReusePids => phase[p] = "free"
BY DEF ProcTypeOK, Popen, Phases

LEMMA InitType == Init => TypeInv
<1> SUFFICES ASSUME Init PROVE TypeInv
  OBVIOUS
<1>1. ProcTypeOK
  BY DEF Init, ProcInit, ProcTypeOK, Phases
<1>2. table \in Tables
  BY EmptyTable DEF Init, Tables
<1>3. /\ cli.todo = <<>> /\ cli.pc = "begin" /\ cli.pid = None
      /\ cli = [pid |-> None, todo |-> <<>>, pc |-> "begin",
                snap |-> AllKeys(None), buf |-> AllKeys(None)]
  BY DEF Init, CliIdle
<1>4. TypeOK
  BY <1>1, <1>2, <1>3, EmptyTable, CommandLineAssumption DEF TypeOK, Init
<1> QED
  BY <1>3, <1>4 DEF TypeInv

LEMMA StepType ==
  ASSUME TypeInv, ProcTypeOK', table' \in Tables, cli' \in CliStates, cli'.todo \in Seq(GoodCalls),
         last' = last \/ last' \in Versions \cup {None}, events' = events \/ events' \in 0..MaxEvents,
         cli'.pc # "begin" => cli'.todo # <<>>,
         cli'.pc = "kill" => Head(cli'.todo).op = "stop",
         cli'.pc = "wait" => Head(cli'.todo).op \in Starts /\ cli'.pid \in Pids,
         cli'.pc = "write" => Head(cli'.todo).op \in Starts \cup {"stop", "setver"}
  PROVE  TypeInv'
<1>1. TypeOK'
  BY DEF TypeInv, TypeOK, CliStates
<1> QED
  BY <1>1 DEF TypeInv, Idle, Me

LEMMA NextType == TypeInv /\ [Next]_vars => TypeInv'
<1> SUFFICES ASSUME TypeInv, [Next]_vars PROVE TypeInv'
  OBVIOUS
<1>0. ProcTypeOK /\ table \in Tables /\ cli.todo \in Seq(GoodCalls)
  BY DEF TypeInv, TypeOK
<1>1. CASE StopCheck
  <2>1. ProcTypeOK'
    BY <1>0, <1>1, StopCheckEffect DEF procVars, ProcTypeOK
  <2> QED
    BY <1>0, <1>1, <2>1, StopCheckEffect, StepType DEF Inside, Idle, Me
<1>2. CASE Kill
  <2>1. ProcTypeOK'
    BY <1>0, <1>2, KillEffect, KilledEffect DEF ProcTypeOK
  <2> QED
    BY <1>0, <1>2, <2>1, KillEffect, StepType DEF Inside, Idle, Me
<1>3. CASE Write
  <2>1. ProcTypeOK'
    BY <1>0, <1>3, WriteEffect DEF procVars, ProcTypeOK
  <2> QED
    BY <1>0, <1>3, <2>1, WriteEffect, ContinueEffect, StepType
<1>4. CASE StartCheck
  <2>1. ProcTypeOK'
    BY <1>0, <1>4, StartCheckEffect DEF procVars, ProcTypeOK
  <2>2. CASE Continue(Rest)
    BY <1>0, <1>4, <2>1, <2>2, StartCheckEffect, ContinueEffect, StepType
  <2>3. CASE cli'.todo = StartList(Me.svc, Me.ver, Rest) /\ cli' \in CliStates /\ cli'.pc = "begin"
    BY <1>0, <1>4, <2>1, <2>3, StartCheckEffect, StartListGood, StepType
  <2> QED
    BY <1>4, <2>2, <2>3, StartCheckEffect
<1>5. CASE PhpCheck \/ SpawnFails \/ WaitTimeout \/ RestartPhp \/ StartActive
  <2>1. ProcTypeOK'
    BY <1>0, <1>5, ListEffect, KilledEffect DEF ProcTypeOK, procVars
  <2>2. PICK seq \in Seq(GoodCalls) : Continue(seq)
    BY <1>5, ListEffect
  <2>3. UNCHANGED <<table, last, events>>
    BY <1>5, ListEffect
  <2> QED
    BY <1>0, <2>1, <2>2, <2>3, ContinueEffect, StepType
<1>6. CASE Spawn
  <2>1. ProcTypeOK'
    BY <1>0, <1>6, SpawnEffect, PopenEffect
  <2> QED
    BY <1>0, <1>6, <2>1, SpawnEffect, StepType DEF Inside, Idle, Me
<1>7. CASE WaitOk
  <2>1. ProcTypeOK'
    BY <1>0, <1>7, WaitOkEffect DEF procVars, ProcTypeOK
  <2> QED
    BY <1>0, <1>7, <2>1, WaitOkEffect, StepType DEF Inside, Idle, Me
<1>8. CASE SetVersion
  <2>1. ProcTypeOK'
    BY <1>0, <1>8, SetVersionEffect DEF procVars, ProcTypeOK
  <2> QED
    BY <1>0, <1>8, <2>1, SetVersionEffect, StepType DEF Inside, Idle, Me
<1>9. CASE Commands
  <2>1. ProcTypeOK'
    BY <1>0, <1>9, CommandEffect DEF procVars, ProcTypeOK
  <2> QED
    BY <1>0, <1>9, <2>1, CommandEffect, StepType
<1>10. CASE AppHandlers
  <2>1. ProcTypeOK'
    BY <1>0, <1>10, AppEffect, KilledEffect DEF ProcTypeOK
  <2>2. cli' = cli /\ table' \in Tables /\ last' = None /\ events' \in 0..MaxEvents
    BY <1>10, AppEffect
  <2>3. TypeOK'
    BY <2>1, <2>2 DEF TypeInv, TypeOK
  <2> QED
    BY <2>2, <2>3 DEF TypeInv, Idle, Me
<1>11. CASE Environment
  <2>1. ProcTypeOK' /\ UNCHANGED <<table, cli, last, events>>
    BY <1>0, <1>11, EnvironmentEffect
  <2> QED
    BY <2>1 DEF TypeInv, TypeOK, Idle, Me
<1>12. CASE UNCHANGED vars
  BY <1>12 DEF vars, procVars, TypeInv, TypeOK, ProcTypeOK, Idle, Me
<1>13. CASE WriteFails
  <2>1. ProcTypeOK'
    BY <1>0, <1>13, WriteFailsEffect DEF procVars, ProcTypeOK
  <2>2. last' \in Versions \cup {None}
    BY <1>13, WriteFailsEffect DEF TypeInv, TypeOK
  <2> QED
    BY <1>0, <1>13, <2>1, <2>2, WriteFailsEffect, ContinueEffect, StepType
<1> QED
  BY <1>1, <1>2, <1>3, <1>4, <1>5, <1>6, <1>7, <1>8, <1>9, <1>10, <1>11, <1>12, <1>13
  DEF Next, CliStep, Quiet

(* The types: the console's table, its list of calls and what it knows of   *)
(* processes stay in their domains (all of cli.ps1's commands).             *)
THEOREM TypeCorrect == Spec => []TypeOK
<1>1. TypeInv => TypeOK
  BY DEF TypeInv
<1> QED
  BY <1>1, InitType, NextType, PTL DEF Spec

-----------------------------------------------------------------------------
(* RecordedPidIsOwn: no table anywhere names a process of another service. *)

TableOwn(tbl) ==
  \A s \in Services : tbl.pid[s] \in Pids =>
    image[tbl.pid[s]] = s /\ phase[tbl.pid[s]] # "free"

OwnInv ==
  /\ TableOwn(table) /\ TableOwn(cli.snap) /\ TableOwn(cli.buf)
  /\ nginxPid \in Pids => image[nginxPid] = "nginx" /\ phase[nginxPid] # "free"
  /\ cli.pc = "wait" => image[cli.pid] = Me.svc /\ phase[cli.pid] # "free"

(* A process that is in use keeps its image. *)
Steady ==
  \A p \in Pids : phase[p] # "free" => image'[p] = image[p] /\ phase'[p] # "free"

LEMMA OwnKept ==
  ASSUME Steady, NEW tbl, TableOwn(tbl)
  PROVE  TableOwn(tbl)'
BY DEF Steady, TableOwn

LEMMA NothingOwn == TableOwn(AllKeys(None)) /\ TableOwn(AllKeys(Missing))
BY EmptyTable, CommandLineAssumption, ProcessesAssumption DEF TableOwn

LEMMA SetPidOwn ==
  ASSUME NEW tbl \in Tables, TableOwn(tbl), NEW s \in Services, NEW p \in Pids \cup {None},
         p \in Pids => image[p] = s /\ phase[p] # "free"
  PROVE  TableOwn(SetPid(tbl, s, p))
<1>1. tbl.pid \in [Services -> Pids \cup {None, Missing}]
  BY TableFields
<1>2. CASE tbl.pid[s] = Missing
  BY <1>2 DEF SetPid
<1>3. CASE tbl.pid[s] # Missing
  <2> DEFINE new == SetPid(tbl, s, p)
  <2>1. new = [tbl EXCEPT !.pid[s] = p]
    BY <1>3 DEF SetPid
  <2>2. new.pid = [tbl.pid EXCEPT ![s] = p]
    BY <2>1 DEF Tables
  <2> HIDE DEF new
  <2>3. TableOwn(new)
    BY <1>1, <2>2, ProcessesAssumption DEF TableOwn
  <2> QED
    BY <2>3 DEF new
<1> QED
  BY <1>2, <1>3

LEMMA SetVerOwn ==
  ASSUME NEW tbl \in Tables, TableOwn(tbl), NEW v
  PROVE  TableOwn(SetVer(tbl, v))
<1>1. SetVer(tbl, v).pid = tbl.pid
  BY DEF SetVer, Tables
<1> QED
  BY <1>1 DEF TableOwn

(* Every step is steady if ids are not handed out again. *)
LEMMA SteadySteps ==
  ASSUME ReusePids = FALSE, TypeInv, [Next]_vars
  PROVE  Steady
<1>0. ProcTypeOK
  BY DEF TypeInv, TypeOK
<1>1. CASE UNCHANGED procVars
  BY <1>1 DEF procVars, Steady
<1>2. CASE UNCHANGED image /\ \E K \in SUBSET Pids : phase' = Killed(K)
  BY <1>0, <1>2, KilledEffect DEF Steady
<1>3. CASE Kill
  <2>1. UNCHANGED image /\ phase' = Killed({cli.pid} \cup AliveOf(Me.svc))
    BY <1>3, KillEffect
  <2> QED
    BY <1>0, <2>1, KilledEffect DEF Steady
<1>4. CASE PhpCheck \/ SpawnFails \/ WaitTimeout \/ RestartPhp \/ StartActive
  <2>1. UNCHANGED image /\ (UNCHANGED phase \/ phase' = Killed({cli.pid}))
    BY <1>4, ListEffect
  <2> QED
    BY <1>0, <2>1, KilledEffect DEF Steady
<1>5. CASE Spawn
  <2>1. cli'.pid \in Pids /\ Me.svc \in Services /\ Popen(cli'.pid, Me.svc)
    BY <1>5, SpawnEffect
  <2>2. PICK p \in Pids : p = cli'.pid /\ Popen(p, Me.svc)
    BY <2>1
  <2> QED
    BY <1>0, <2>1, <2>2, PopenEffect DEF Steady
<1>6. CASE Environment
  BY <1>0, <1>6, EnvironmentEffect DEF Steady
<1>7. CASE StopCheck \/ Write \/ WriteFails \/ StartCheck \/ WaitOk \/ SetVersion
  BY <1>1, <1>7, StopCheckEffect, WriteEffect, WriteFailsEffect, StartCheckEffect, WaitOkEffect, SetVersionEffect
<1>8. CASE Commands
  BY <1>1, <1>8, CommandEffect
<1>9. CASE AppHandlers
  BY <1>2, <1>9, AppEffect
<1>10. CASE UNCHANGED vars
  BY <1>1, <1>10 DEF vars
<1> QED
  BY <1>3, <1>4, <1>5, <1>6, <1>7, <1>8, <1>9, <1>10 DEF Next, CliStep, Quiet

(* A step of the console that keeps its tables, or fills a buffer. *)
LEMMA OwnStep ==
  ASSUME OwnInv, Steady, TableOwn(table)',
         cli'.snap \in {cli.snap, table, AllKeys(None)},
         cli'.buf \in {cli.buf, AllKeys(None)} \/ TableOwn(cli.buf)',
         \/ nginxPid' \in {nginxPid, None}
         \/ image'[nginxPid'] = "nginx" /\ phase'[nginxPid'] # "free",
         cli'.pc = "wait" => image'[cli'.pid] = Me'.svc /\ phase'[cli'.pid] # "free"
  PROVE  OwnInv'
<1>1. ASSUME NEW tbl, TableOwn(tbl) PROVE TableOwn(tbl)'
  BY <1>1, OwnKept
<1>2. TableOwn(cli.snap)'
  <2>1. PICK tbl : tbl = cli'.snap /\ TableOwn(tbl)
    BY NothingOwn DEF OwnInv
  <2>2. \A s \in Services : tbl.pid[s] \in Pids => image'[tbl.pid[s]] = s /\ phase'[tbl.pid[s]] # "free"
    BY <2>1 DEF TableOwn, Steady
  <2> QED
    BY <2>1, <2>2 DEF TableOwn
<1>3. TableOwn(cli.buf)'
  <2>1. CASE cli'.buf \in {cli.buf, AllKeys(None)}
    <3>1. PICK tbl : tbl = cli'.buf /\ TableOwn(tbl)
      BY <2>1, NothingOwn DEF OwnInv
    <3>2. \A s \in Services : tbl.pid[s] \in Pids => image'[tbl.pid[s]] = s /\ phase'[tbl.pid[s]] # "free"
      BY <3>1 DEF TableOwn, Steady
    <3> QED
      BY <3>1, <3>2 DEF TableOwn
  <2> QED
    BY <2>1
<1>4. nginxPid' \in Pids => image'[nginxPid'] = "nginx" /\ phase'[nginxPid'] # "free"
  BY ProcessesAssumption DEF OwnInv, Steady
<1> QED
  BY <1>2, <1>3, <1>4 DEF OwnInv

LEMMA SameTable ==
  ASSUME Steady, TableOwn(table), table' = table
  PROVE  TableOwn(table)'
BY DEF TableOwn, Steady

LEMMA NewBuffer ==
  ASSUME Steady, NEW tbl, TableOwn(tbl), cli'.buf = tbl
  PROVE  TableOwn(cli.buf)'
BY DEF TableOwn, Steady

LEMMA NextOwn ==
  ASSUME ReusePids = FALSE, TypeInv, OwnInv, [Next]_vars
  PROVE  OwnInv'
<1>0. /\ Steady /\ ProcTypeOK /\ table \in Tables /\ cli.snap \in Tables /\ cli.buf \in Tables
      /\ TableOwn(table) /\ TableOwn(cli.snap) /\ TableOwn(cli.buf)
  BY SteadySteps DEF TypeInv, TypeOK, OwnInv
<1>a. ASSUME NEW seq \in Seq(GoodCalls), Continue(seq), TableOwn(table)',
             nginxPid' = nginxPid
      PROVE  OwnInv'
  BY <1>0, <1>a, ContinueEffect, OwnStep
<1>b. None \notin Pids
  BY ProcessesAssumption
<1>1. CASE StopCheck
  <2>1. CASE cli'.buf = cli.buf /\ Inside("kill")
    BY <1>0, <1>1, <2>1, StopCheckEffect, SameTable, OwnStep DEF Inside, procVars
  <2>2. CASE cli'.buf = SetPid(table, Me.svc, None) /\ Inside("write")
    <3>1. TableOwn(SetPid(table, Me.svc, None))
      BY <1>0, <1>1, <1>b, StopCheckEffect, SetPidOwn
    <3>2. TableOwn(cli.buf)'
      BY <1>0, <2>2, <3>1, NewBuffer
    <3> QED
      BY <1>0, <1>1, <2>2, <3>2, StopCheckEffect, SameTable, OwnStep DEF Inside, procVars
  <2> QED
    BY <1>1, <2>1, <2>2, StopCheckEffect
<1>2. CASE Kill
  <2>1. TableOwn(SetPid(table, Me.svc, None))
    BY <1>0, <1>2, <1>b, KillEffect, SetPidOwn
  <2>2. TableOwn(cli.buf)'
    BY <1>0, <1>2, <2>1, KillEffect, NewBuffer
  <2> QED
    BY <1>0, <1>2, <2>2, KillEffect, SameTable, OwnStep DEF Inside
<1>3. CASE Write
  <2>1. table'.pid = cli.buf.pid /\ Rest \in Seq(GoodCalls) /\ Continue(Rest) /\ nginxPid' = nginxPid
    BY <1>3, WriteEffect DEF procVars
  <2>2. TableOwn(table)'
    BY <1>0, <2>1 DEF TableOwn, Steady
  <2> QED
    BY <1>a, <2>1, <2>2
<1>4. CASE StartCheck
  <2>1. table' = table /\ nginxPid' = nginxPid /\ Rest \in Seq(GoodCalls)
    BY <1>4, StartCheckEffect DEF procVars
  <2>2. CASE Continue(Rest)
    BY <1>0, <1>a, <2>1, <2>2, SameTable
  <2>3. CASE cli'.snap = table /\ cli'.buf = cli.buf /\ cli'.pc = "begin"
    BY <1>0, <2>1, <2>3, SameTable, OwnStep
  <2> QED
    BY <1>4, <2>2, <2>3, StartCheckEffect
<1>5. CASE PhpCheck \/ SpawnFails \/ WaitTimeout \/ RestartPhp \/ StartActive
  <2>1. table' = table /\ nginxPid' = nginxPid
    BY <1>5, ListEffect
  <2>2. PICK seq \in Seq(GoodCalls) : Continue(seq)
    BY <1>5, ListEffect
  <2> QED
    BY <1>0, <1>a, <2>1, <2>2, SameTable
<1>6. CASE Spawn
  <2>1. cli'.pid \in Pids /\ Me.svc \in Services /\ Popen(cli'.pid, Me.svc)
    BY <1>6, SpawnEffect
  <2>2. PICK p \in Pids : p = cli'.pid /\ Popen(p, Me.svc)
    BY <2>1
  <2>3. image'[cli'.pid] = Me.svc /\ phase'[cli'.pid] # "free" /\ nginxPid' = nginxPid
    BY <1>0, <2>1, <2>2, PopenEffect
  <2>4. /\ Me' = Me /\ cli'.snap = cli.snap /\ cli'.buf = cli.buf /\ table' = table
    BY <1>6, SpawnEffect DEF Inside, Me
  <2> QED
    BY <1>0, <2>3, <2>4, SameTable, OwnStep
<1>7. CASE WaitOk
  <2>1. /\ Me.svc \in Services /\ cli.pc = "wait" /\ TableRead \in Tables /\ PidFound \in Pids
        /\ Inside("write") /\ UNCHANGED <<procVars, table>>
        /\ cli'.buf = SetPid(IF Me.svc = "php" THEN SetVer(TableRead, Me.ver) ELSE TableRead,
                             Me.svc, PidFound)
        /\ Me.ver \in Versions
    BY <1>7, WaitOkEffect
  <2>2. image[PidFound] = Me.svc /\ phase[PidFound] # "free"
    BY <1>0, <2>1 DEF PidFound, OwnInv, ProcTypeOK
  <2>3. TableOwn(TableRead)
    BY <1>0 DEF TableRead
  <2> DEFINE tbl == IF Me.svc = "php" THEN SetVer(TableRead, Me.ver) ELSE TableRead
  <2>4. tbl \in Tables /\ TableOwn(tbl)
    BY <2>1, <2>3, SetVerOwn, TableFields
  <2>5. cli'.buf = SetPid(tbl, Me.svc, PidFound)
    BY <2>1
  <2> HIDE DEF tbl
  <2>6. TableOwn(SetPid(tbl, Me.svc, PidFound))
    BY <2>1, <2>2, <2>4, SetPidOwn
  <2>7. TableOwn(cli.buf)'
    BY <1>0, <2>5, <2>6, NewBuffer
  <2> QED
    BY <1>0, <2>1, <2>7, SameTable, OwnStep DEF Inside, procVars
<1>8. CASE SetVersion
  <2>1. TableOwn(SetVer(table, Me.ver))
    BY <1>0, SetVerOwn
  <2>2. TableOwn(cli.buf)'
    BY <1>0, <1>8, <2>1, SetVersionEffect, NewBuffer
  <2> QED
    BY <1>0, <1>8, <2>2, SetVersionEffect, SameTable, OwnStep DEF Inside, procVars
<1>9. CASE Commands
  BY <1>0, <1>9, CommandEffect, SameTable, OwnStep DEF procVars
<1>10. CASE AppHandlers
  <2>1. /\ cli' = cli /\ nginxPid' = nginxPid
        /\ \A s \in Services : table'.pid[s] \in Pids => table'.pid[s] = table.pid[s]
    BY <1>10, AppEffect
  <2>2. TableOwn(table)'
    BY <1>0, <2>1 DEF TableOwn, Steady
  <2>3. cli.pc = "wait" => image'[cli.pid] = Me.svc /\ phase'[cli.pid] # "free"
    BY <1>0 DEF OwnInv, TypeInv, Steady
  <2> QED
    BY <1>0, <2>1, <2>2, <2>3, OwnStep DEF Me
<1>11. CASE Environment
  <2>2. cli' = cli /\ table' = table
    BY <1>0, <1>11, EnvironmentEffect
  <2>3. \/ nginxPid' = nginxPid
        \/ image'[nginxPid'] = "nginx" /\ phase'[nginxPid'] # "free"
    BY <1>0, <1>11, EnvironmentEffect DEF Steady
  <2>4. cli.pc = "wait" => image'[cli.pid] = Me.svc /\ phase'[cli.pid] # "free"
    BY <1>0 DEF OwnInv, TypeInv, Steady
  <2> QED
    BY <1>0, <2>2, <2>3, <2>4, SameTable, OwnStep DEF Me
<1>12. CASE UNCHANGED vars
  <2>1. cli' = cli /\ table' = table /\ UNCHANGED procVars
    BY <1>12 DEF vars
  <2> QED
    BY <2>1 DEF procVars, OwnInv, TableOwn, Me
<1>13. CASE WriteFails
  <2>1. /\ table' \in {table} \cup CutOff /\ Rest \in Seq(GoodCalls) /\ Continue(Rest)
        /\ nginxPid' = nginxPid
    BY <1>13, WriteFailsEffect DEF procVars
  <2>2. CASE table' = table
    BY <1>0, <1>a, <2>1, <2>2, SameTable
  <2>3. CASE table' \in CutOff
    <3>1. \A s \in Services : table'.pid[s] \in {None, Missing}
      BY <2>3 DEF CutOff, AllKeys
    <3>2. TableOwn(table)'
      BY <3>1, CommandLineAssumption DEF TableOwn
    <3> QED
      BY <1>a, <2>1, <3>2
  <2> QED
    BY <2>1, <2>2, <2>3
<1> QED
  BY <1>1, <1>2, <1>3, <1>4, <1>5, <1>6, <1>7, <1>8, <1>9, <1>10, <1>11, <1>12, <1>13
  DEF Next, CliStep, Quiet

LEMMA InitOwn == Init => OwnInv
<1> SUFFICES ASSUME Init PROVE OwnInv
  OBVIOUS
<1>1. cli.snap = AllKeys(None) /\ cli.buf = AllKeys(None) /\ cli.pc = "begin" /\ nginxPid = None
  BY DEF Init, CliIdle, ProcInit
<1>2. \A s \in Services : table.pid[s] = None
  BY DEF Init, AllKeys
<1> QED
  BY <1>1, <1>2, NothingOwn, ProcessesAssumption DEF OwnInv, TableOwn

(* If Windows does not hand ids out again, an entry of the file never names *)
(* a process of another service: the table a start read first, its nested   *)
(* PHP start, nginx.pid and the window's handlers are covered.              *)
THEOREM PidsAreOwn == ReusePids = FALSE => (Spec => []RecordedPidIsOwn)
<1> SUFFICES ASSUME ReusePids = FALSE PROVE Spec => []RecordedPidIsOwn
  OBVIOUS
<1>1. OwnInv => RecordedPidIsOwn
  BY DEF OwnInv, TableOwn, RecordedPidIsOwn
<1>2. TypeInv /\ OwnInv /\ [Next]_vars => OwnInv'
  BY NextOwn
<1> QED
  BY <1>1, <1>2, InitType, NextType, InitOwn, PTL DEF Spec

-----------------------------------------------------------------------------
(* SwitchedPhpIsCurrent: until the window writes, everything the console    *)
(* still has to do or to write after a switch is of the version chosen.     *)

SwitchCalls(v) ==
  {c \in GoodCalls : /\ c.op \in {"stop", "php", "phpSpawn", "restartPhp"}
                     /\ c.op # "stop" => c.ver = v}

VerInv ==
  last # None =>
    /\ \/ cli.todo \in Seq(SwitchCalls(last)) /\ table.ver \in {last, Missing}
       \/ ~Idle /\ Me.op = "setver" /\ Me.ver = last /\ Rest \in Seq(SwitchCalls(last))
    /\ cli.pc = "write" => cli.buf.ver \in {last, Missing}

LEMMA SetVersions ==
  ASSUME NEW tbl \in Tables
  PROVE  /\ \A s \in Services, p \in Pids \cup {None} : SetPid(tbl, s, p).ver = tbl.ver
         /\ \A v \in Versions : SetVer(tbl, v).ver \in {v, Missing}
BY DEF Tables, SetPid, SetVer

LEMMA SwitchHead ==
  ASSUME VerInv, last # None, ~Idle, Me.op # "setver"
  PROVE  /\ cli.todo \in Seq(SwitchCalls(last)) /\ table.ver \in {last, Missing}
         /\ Me \in SwitchCalls(last) /\ Rest \in Seq(SwitchCalls(last))
<1>1. cli.todo \in Seq(SwitchCalls(last)) /\ table.ver \in {last, Missing} /\ cli.todo # <<>>
  BY DEF VerInv, Idle
<1> DEFINE S == SwitchCalls(last)
<1> HIDE DEF S
<1>2. Head(cli.todo) \in S /\ Tail(cli.todo) \in Seq(S)
  BY <1>1, FirstCall DEF S
<1> QED
  BY <1>1, <1>2 DEF S, Me, Rest

LEMMA SwitchKept ==
  ASSUME NEW v \in Versions, NEW q \in Seq(SwitchCalls(v))
  PROVE  /\ <<Call("phpSpawn", "php", v)>> \o q \in Seq(SwitchCalls(v))
         /\ <<Call("stop", "php", None), Call("php", "php", v)>> \o q \in Seq(SwitchCalls(v))
<1> DEFINE S == SwitchCalls(v)
           a == Call("phpSpawn", "php", v)
           b == Call("stop", "php", None)
           c == Call("php", "php", v)
<1>1. a \in S /\ b \in S /\ c \in S
  BY GoodCall DEF SwitchCalls, Call, Services
<1> HIDE DEF S, a, b, c
<1>2. <<a>> \in Seq(S) /\ <<b, c>> \in Seq(S) /\ q \in Seq(S)
  BY <1>1 DEF S
<1>3. <<a>> \o q \in Seq(S) /\ <<b, c>> \o q \in Seq(S)
  BY <1>2
<1> QED
  BY <1>3 DEF S, a, b, c

LEMMA NextVersion == TypeInv /\ VerInv /\ [Next]_vars => VerInv'
<1> SUFFICES ASSUME TypeInv, VerInv, [Next]_vars, last' # None PROVE VerInv'
  BY DEF VerInv
<1>0. table \in Tables /\ last \in Versions \cup {None}
  BY DEF TypeInv, TypeOK
<1>a. ASSUME last' = last, cli'.todo \in Seq(SwitchCalls(last)), table'.ver \in {last, Missing},
             cli'.pc = "write" => cli'.buf.ver \in {last, Missing}
      PROVE  VerInv'
  BY <1>a DEF VerInv
<1>1. CASE StopCheck
  <2>1. last' = last /\ ~Idle /\ Me.op # "setver" /\ table' = table
    BY <1>1, StopCheckEffect
  <2>2. cli.todo \in Seq(SwitchCalls(last)) /\ table.ver \in {last, Missing}
    BY <2>1, SwitchHead
  <2>3. cli'.todo = cli.todo /\ (cli'.pc = "write" => cli'.buf.ver = table.ver)
    BY <1>0, <1>1, StopCheckEffect, SetVersions DEF Inside
  <2> QED
    BY <1>a, <2>1, <2>2, <2>3
<1>2. CASE Kill
  <2>1. last' = last /\ ~Idle /\ Me.op # "setver" /\ table' = table
    BY <1>2, KillEffect
  <2>2. cli.todo \in Seq(SwitchCalls(last)) /\ table.ver \in {last, Missing}
    BY <2>1, SwitchHead
  <2>3. cli'.todo = cli.todo /\ cli'.buf.ver = table.ver
    BY <1>0, <1>2, KillEffect, SetVersions DEF Inside
  <2> QED
    BY <1>a, <2>1, <2>2, <2>3
<1>3. CASE Write
  <2>1. /\ last' = last /\ ~Idle /\ cli.pc = "write" /\ Rest \in Seq(GoodCalls)
        /\ table'.ver = cli.buf.ver /\ Continue(Rest)
    BY <1>3, WriteEffect
  <2>2. cli'.todo = Rest /\ cli'.pc = "begin"
    BY <2>1, ContinueEffect
  <2>3. last # None
    BY <2>1
  <2>4. Rest \in Seq(SwitchCalls(last))
    <3>1. CASE cli.todo \in Seq(SwitchCalls(last)) /\ table.ver \in {last, Missing}
      <4> DEFINE S == SwitchCalls(last)
      <4> HIDE DEF S
      <4>1. cli.todo \in Seq(S) /\ cli.todo # <<>>
        BY <2>1, <3>1 DEF S, Idle
      <4>2. Tail(cli.todo) \in Seq(S)
        BY <4>1, FirstCall
      <4> QED
        BY <4>2 DEF S, Rest
    <3> QED
      BY <2>3, <3>1 DEF VerInv
  <2>5. cli.buf.ver \in {last, Missing}
    BY <2>1, <2>3 DEF VerInv
  <2> QED
    BY <1>a, <2>1, <2>2, <2>4, <2>5
<1>4. CASE StartCheck
  <2>1. last' = last /\ ~Idle /\ Me.op = "start"
    BY <1>4, StartCheckEffect
  <2>2. Me \in SwitchCalls(last)
    BY <2>1, SwitchHead
  <2> QED
    BY <2>1, <2>2 DEF SwitchCalls
<1>5. CASE PhpCheck \/ SpawnFails \/ WaitTimeout \/ RestartPhp \/ StartActive
  <2>1. last' = last /\ table' = table /\ ~Idle
    BY <1>5, ListEffect
  <2>2. PICK seq \in Seq(GoodCalls) :
          /\ Continue(seq)
          /\ \/ seq = Rest /\ Me.op \in Starts \cup {"php", "restartPhp"}
             \/ Me.op = "php" /\ seq = <<Call("phpSpawn", "php", Me.ver)>> \o Rest
             \/ /\ Me.op = "restartPhp"
                /\ seq = <<Call("stop", "php", None), Call("php", "php", Me.ver)>> \o Rest
             \/ Me.op = "startActive"
    BY <1>5, ListEffect
  <2>3. Me.op # "setver"
    BY <2>2 DEF Starts
  <2>4. Me \in SwitchCalls(last) /\ Rest \in Seq(SwitchCalls(last)) /\ table.ver \in {last, Missing}
    BY <2>1, <2>3, SwitchHead
  <2>5. /\ Me.op \in {"stop", "php", "phpSpawn", "restartPhp"}
        /\ Me.op # "stop" => Me.ver = last
    BY <2>4 DEF SwitchCalls
  <2>6. seq \in Seq(SwitchCalls(last))
    BY <1>0, <2>1, <2>2, <2>4, <2>5, SwitchKept
  <2>7. cli'.todo = seq /\ cli'.pc = "begin"
    BY <2>2, ContinueEffect
  <2> QED
    BY <1>a, <2>1, <2>4, <2>6, <2>7
<1>6. CASE Spawn
  <2>1. last' = last /\ ~Idle /\ Me.op # "setver" /\ table' = table
        /\ cli'.todo = cli.todo /\ cli'.pc = "wait"
    BY <1>6, SpawnEffect DEF Inside, Starts
  <2> QED
    BY <1>a, <2>1, SwitchHead
<1>7. CASE WaitOk
  <2>1. /\ last' = last /\ ~Idle /\ Me.op \in Starts /\ table' = table
        /\ cli'.todo = cli.todo /\ PidFound \in Pids /\ TableRead \in Tables
        /\ Me.ver \in Versions /\ Me.svc \in Services
        /\ cli'.buf = SetPid(IF Me.svc = "php" THEN SetVer(TableRead, Me.ver) ELSE TableRead,
                             Me.svc, PidFound)
    BY <1>7, WaitOkEffect DEF Inside, procVars
  <2>2. /\ cli.todo \in Seq(SwitchCalls(last)) /\ table.ver \in {last, Missing}
        /\ Me \in SwitchCalls(last)
    BY <2>1, SwitchHead DEF Starts
  <2>3. Me.op = "phpSpawn" /\ Me.ver = last /\ Me.svc = "php" /\ TableRead = table
    BY <2>1, <2>2 DEF SwitchCalls, GoodCalls, Starts, TableRead
  <2>4. SetVer(table, last) \in Tables /\ SetVer(table, last).ver \in {last, Missing}
    BY <1>0, <2>1, <2>3, SetVersions, TableFields
  <2>5. cli'.buf.ver \in {last, Missing}
    BY <2>1, <2>3, <2>4, SetVersions
  <2> QED
    BY <1>a, <2>1, <2>2, <2>5
<1>8. CASE SetVersion
  <2>1. /\ last' = last /\ ~Idle /\ Me.op = "setver" /\ Me.ver \in Versions
        /\ cli'.todo = cli.todo /\ cli'.buf = SetVer(table, Me.ver)
    BY <1>8, SetVersionEffect DEF Inside
  <2>2. Me.ver = last /\ Rest \in Seq(SwitchCalls(last))
    <3>1. CASE cli.todo \in Seq(SwitchCalls(last))
      <4> DEFINE S == SwitchCalls(last)
      <4> HIDE DEF S
      <4>1. Head(cli.todo) \in S
        BY <2>1, <3>1, FirstCall DEF S, Idle
      <4> QED
        BY <2>1, <4>1 DEF S, SwitchCalls, Me
    <3> QED
      BY <2>1, <3>1 DEF VerInv
  <2>3. cli'.buf.ver \in {last, Missing}
    BY <1>0, <2>1, <2>2, SetVersions
  <2> QED
    BY <2>1, <2>2, <2>3 DEF VerInv, Idle, Me, Rest
<1>9. CASE Commands
  <2>1. last' \in Versions /\ cli'.todo = SwitchList(last') /\ cli'.pc = "begin"
    BY <1>9, CommandEffect
  <2> DEFINE c == Call("restartPhp", None, last')
  <2>2. /\ Head(cli'.todo) = Call("setver", None, last') /\ Tail(cli'.todo) = <<c>>
        /\ cli'.todo # <<>>
    BY <2>1 DEF SwitchList
  <2>3. c \in SwitchCalls(last')
    BY <2>1, GoodCall DEF SwitchCalls, Call
  <2> HIDE DEF c
  <2>4. <<c>> \in Seq(SwitchCalls(last'))
    BY <2>3
  <2>5. Head(cli'.todo).op = "setver" /\ Head(cli'.todo).ver = last'
    BY <2>2 DEF Call
  <2> QED
    BY <2>1, <2>2, <2>4, <2>5 DEF VerInv, Idle, Me, Rest
<1>10. CASE AppHandlers
  BY <1>10, AppEffect
<1>11. CASE Environment
  BY <1>11 DEF Environment, VerInv, Idle, Me, Rest
<1>12. CASE UNCHANGED vars
  BY <1>12 DEF vars, VerInv, Idle, Me, Rest
<1>13. CASE WriteFails
  <2>1. /\ last' = last /\ table' = table /\ ~Idle /\ Me.op # "setver"
        /\ Rest \in Seq(GoodCalls) /\ Continue(Rest)
    BY <1>13, WriteFailsEffect
  <2>2. Rest \in Seq(SwitchCalls(last)) /\ table.ver \in {last, Missing}
    BY <2>1, SwitchHead
  <2>3. cli'.todo = Rest /\ cli'.pc = "begin"
    BY <2>1, ContinueEffect
  <2> QED
    BY <1>a, <2>1, <2>2, <2>3
<1> QED
  BY <1>1, <1>2, <1>3, <1>4, <1>5, <1>6, <1>7, <1>8, <1>9, <1>10, <1>11, <1>12, <1>13
  DEF Next, CliStep, Quiet

(* "Successfully switched active PHP version" is the truth for the next     *)
(* command of the console, whatever started, failed or timed out on the way *)
(* (cli.ps1 1225-1242).                                                     *)
THEOREM SwitchesHold == Spec => []SwitchedPhpIsCurrent
<1>1. Init => VerInv
  BY DEF Init, VerInv
<1>2. TypeInv /\ VerInv => SwitchedPhpIsCurrent
  <2> SUFFICES ASSUME TypeInv, VerInv, Idle, last # None, table.ver # Missing
      PROVE  GetCurrentPhpVersion = last
    BY DEF SwitchedPhpIsCurrent
  <2>1. table.ver = last /\ last \in Versions
    BY DEF VerInv, TypeInv, TypeOK
  <2> QED
    BY <2>1 DEF GetCurrentPhpVersion, PhpVersionOf
<1> QED
  BY <1>1, <1>2, InitType, NextType, NextVersion, PTL DEF Spec

-----------------------------------------------------------------------------
(* StoppedMeansGone and WebServersExclusive.  At the start of a call every  *)
(* process that is alive listens, so a status that says "not running" means *)
(* that there is none; and what a start put in front of its spawn, the stop *)
(* of the other web server and PHP, leaves nothing alive that the spawn     *)
(* could meet.                                                              *)

(* No id names two processes, no other program has a port, and only the two *)
(* web servers may share theirs.                                            *)
Separate ==
  /\ ReusePids = FALSE
  /\ \A s \in Services : PortOf[s] \notin BusyPorts
  /\ \A s, t \in Services : PortOf[s] = PortOf[t] => s = t \/ (s \in Web /\ t = OtherWeb(s))

Gone == {s \in Services : AliveOf(s) = {}}

(* D: services of which no process is alive. *)
Clear(s, D) == s \in D /\ (s \in Web => OtherWeb(s) \in D)

(* What a PHP start, and then a stop of service s, may have left to do. *)
AfterPhp(q, D) ==
  \/ Plain(q)
  \/ /\ q # <<>> /\ Head(q).op = "spawn" /\ Plain(Tail(q))
     /\ Head(q).svc \in Web /\ Clear(Head(q).svc, D)

AfterStop(q, s, D) ==
  \/ Plain(q)
  \/ \E w \in Web : /\ s = OtherWeb(w) /\ w \in D
                    /\ q # <<>> /\ Head(q).op = "php"
                    /\ Tail(q) # <<>> /\ Head(Tail(q)).op = "spawn"
                    /\ Head(Tail(q)).svc = w /\ Plain(Tail(Tail(q)))

Ready(q, D) ==
  \/ Plain(q)
  \/ /\ q # <<>>
     /\ \/ Head(q).op = "stop" /\ AfterStop(Tail(q), Head(q).svc, D)
        \/ Head(q).op = "php" /\ AfterPhp(Tail(q), D)
        \/ Head(q).op = "phpSpawn" /\ AfterPhp(Tail(q), D) /\ "php" \in D
        \/ Head(q).op = "spawn" /\ Plain(Tail(q)) /\ Clear(Head(q).svc, D)

AllListen ==
  \A p \in Pids : Alive(p) =>
    phase[p] = "listening" \/ (phase[p] = "live" /\ cli.pc = "wait" /\ p = cli.pid)

Left ==
  /\ cli.pc = "begin" => Ready(cli.todo, Gone)
  /\ cli.pc # "begin" => IF Me.op = "stop" THEN AfterStop(Rest, Me.svc, Gone)
                                           ELSE AfterPhp(Rest, Gone)

Waiting == cli.pc = "wait" => /\ AliveOf(Me.svc) \subseteq {cli.pid}
                              /\ Me.svc \in Web => OtherWeb(Me.svc) \in Gone

OneWeb == "nginx" \in Gone \/ "apache" \in Gone

ProcInv == AllListen /\ OneWeb /\ Left /\ Waiting /\ StoppedMeansGone

LEMMA PlainLists ==
  ASSUME NEW q \in Seq(GoodCalls)
  PROVE  /\ Plain(<<>>)
         /\ Plain(q) /\ q # <<>> => Plain(Tail(q)) /\ Head(q).op \notin Starts
         /\ \A c \in GoodCalls : c.op \notin Starts /\ Plain(q) => Plain(<<c>> \o q)
<1>1. Plain(<<>>)
  BY DEF Plain
<1>2. ASSUME Plain(q), q # <<>> PROVE Plain(Tail(q)) /\ Head(q).op \notin Starts
  <2>1. /\ Head(q) = q[1] /\ 1 \in DOMAIN q
        /\ \A i \in DOMAIN Tail(q) : i + 1 \in DOMAIN q /\ Tail(q)[i] = q[i + 1]
    BY <1>2
  <2> QED
    BY <1>2, <2>1 DEF Plain
<1>3. ASSUME NEW c \in GoodCalls, c.op \notin Starts, Plain(q) PROVE Plain(<<c>> \o q)
  <2>1. \A i \in DOMAIN (<<c>> \o q) :
          (<<c>> \o q)[i] = c \/ (i - 1 \in DOMAIN q /\ (<<c>> \o q)[i] = q[i - 1])
    OBVIOUS
  <2> QED
    BY <1>3, <2>1 DEF Plain
<1> QED
  BY <1>1, <1>2, <1>3

LEMMA MoreGone ==
  ASSUME NEW q, NEW s, NEW D, NEW E, D \subseteq E
  PROVE  /\ AfterPhp(q, D) => AfterPhp(q, E)
         /\ AfterStop(q, s, D) => AfterStop(q, s, E)
BY DEF AfterPhp, AfterStop, Clear

LEMMA ReadyHead ==
  ASSUME NEW D, NEW q \in Seq(GoodCalls), q # <<>>, Ready(q, D)
  PROVE  /\ Head(q).op = "stop" => AfterStop(Tail(q), Head(q).svc, D)
         /\ Head(q).op \in Starts => Clear(Head(q).svc, D)
         /\ Head(q).op = "spawn" => Plain(Tail(q))
         /\ Head(q).op # "stop" => AfterPhp(Tail(q), D)
         /\ Head(q).op \notin Starts \cup {"stop", "php"} => Plain(Tail(q))
<1>1. Head(q) \in GoodCalls
  BY FirstCall
<1>2. Head(q).op = "phpSpawn" => Head(q).svc = "php"
  BY <1>1, CallFields
<1>3. Plain(q) => Plain(Tail(q)) /\ Head(q).op \notin Starts
  BY PlainLists
<1>4. "php" \in D => Clear("php", D)
  BY DEF Clear, Web
<1> QED
  BY <1>2, <1>3, <1>4 DEF Ready, AfterStop, AfterPhp, Starts

LEMMA ReadyNext ==
  ASSUME NEW D, NEW q
  PROVE  /\ Plain(q) => Ready(q, D)
         /\ AfterPhp(q, D) => Ready(q, D)
         /\ \A s \in D : AfterStop(q, s, D) => Ready(q, D)
<1>1. ASSUME NEW s \in D, AfterStop(q, s, D), ~Plain(q) PROVE Ready(q, D)
  <2>1. PICK w \in Web : /\ s = OtherWeb(w) /\ w \in D
                         /\ q # <<>> /\ Head(q).op = "php"
                         /\ Tail(q) # <<>> /\ Head(Tail(q)).op = "spawn"
                         /\ Head(Tail(q)).svc = w /\ Plain(Tail(Tail(q)))
    BY <1>1 DEF AfterStop
  <2>2. Clear(w, D)
    BY <2>1 DEF Clear
  <2>3. AfterPhp(Tail(q), D)
    BY <2>1, <2>2 DEF AfterPhp
  <2> QED
    BY <2>1, <2>3 DEF Ready
<1> QED
  BY <1>1 DEF Ready, AfterPhp

(* No process comes to life. *)
Shrink ==
  \A p \in Pids : Alive(p)' => Alive(p) /\ image'[p] = image[p]

LEMMA ShrinkGone ==
  ASSUME Shrink
  PROVE  /\ \A s : {p \in Pids : image'[p] = s /\ Alive(p)'} \subseteq AliveOf(s)
         /\ Gone \subseteq Gone' /\ (OneWeb => OneWeb')
<1>1. \A s : {p \in Pids : image'[p] = s /\ Alive(p)'} \subseteq AliveOf(s)
  BY DEF Shrink, AliveOf
<1>2. Gone \subseteq Gone'
  BY <1>1 DEF Gone, AliveOf
<1> QED
  BY <1>1, <1>2 DEF OneWeb

LEMMA NotRunning ==
  ASSUME Separate, TypeInv, AllListen, cli.pc = "begin", NEW s \in Services, ~Running(s)
  PROVE  s \in Gone
<1> SUFFICES ASSUME NEW p \in AliveOf(s) PROVE FALSE
  BY DEF Gone
<1>1. p \in Pids /\ image[p] = s /\ phase[p] = "listening"
  BY DEF AllListen, AliveOf
<1>2. p \in Listeners(PortOf[s])
  BY <1>1 DEF Listeners
<1> QED
  BY <1>2 DEF is_port_open, Running

LEMMA ShrinkStep ==
  ASSUME ProcInv, Shrink, AllListen', Left', Waiting', StoppedMeansGone'
  PROVE  ProcInv'
BY ShrinkGone DEF ProcInv

(* The processes stay as they are, and all of them listen. *)
LEMMA SameProcs ==
  ASSUME AllListen, UNCHANGED procVars, cli.pc # "wait"
  PROVE  Shrink /\ AllListen' /\ Gone' = Gone
<1>1. image' = image /\ phase' = phase
  BY DEF procVars
<1>2. \A p \in Pids : Alive(p)' = Alive(p)
  BY <1>1 DEF Alive
<1>3. \A p \in Pids : Alive(p) => phase[p] = "listening"
  BY DEF AllListen
<1>4. AllListen'
  BY <1>1, <1>2, <1>3 DEF AllListen
<1>5. Gone' = Gone
  BY <1>1 DEF Gone, AliveOf, Alive
<1> QED
  BY <1>1, <1>2, <1>4, <1>5 DEF Shrink

LEMMA ToBegin ==
  ASSUME ProcInv, Shrink, AllListen', cli'.pc = "begin", Ready(cli'.todo, Gone')
  PROVE  ProcInv'
<1>1. Left' /\ Waiting' /\ StoppedMeansGone'
  BY DEF Left, Waiting, StoppedMeansGone, At
<1> QED
  BY <1>1, ShrinkStep

LEMMA InTheCall ==
  ASSUME ProcInv, Shrink, AllListen', cli'.todo = cli.todo, cli.pc # "begin", cli'.pc # "begin",
         cli'.pc = "wait" => cli.pc = "wait" /\ cli'.pid = cli.pid,
         StoppedMeansGone'
  PROVE  ProcInv'
<1>1. Me' = Me /\ Rest' = Rest /\ Gone \subseteq Gone'
  BY ShrinkGone DEF Me, Rest
<1>2. Left'
  <2>1. IF Me.op = "stop" THEN AfterStop(Rest, Me.svc, Gone) ELSE AfterPhp(Rest, Gone)
    BY DEF ProcInv, Left
  <2>2. IF Me.op = "stop" THEN AfterStop(Rest, Me.svc, Gone') ELSE AfterPhp(Rest, Gone')
    BY <1>1, <2>1, MoreGone
  <2> QED
    BY <1>1, <2>2 DEF Left
<1>3. Waiting'
  <2> SUFFICES ASSUME cli'.pc = "wait"
               PROVE  /\ AliveOf(Me.svc)' \subseteq {cli'.pid}
                      /\ Me'.svc \in Web => OtherWeb(Me'.svc) \in Gone'
    BY DEF Waiting
  <2>1. AliveOf(Me.svc) \subseteq {cli.pid} /\ (Me.svc \in Web => OtherWeb(Me.svc) \in Gone)
    BY DEF ProcInv, Waiting
  <2>2. AliveOf(Me.svc)' \subseteq AliveOf(Me.svc)
    BY <1>1, ShrinkGone DEF AliveOf
  <2> QED
    BY <1>1, <2>1, <2>2
<1> QED
  BY <1>2, <1>3, ShrinkStep

LEMMA SameCli ==
  ASSUME TypeInv, ProcInv, Shrink, AllListen', cli' = cli
  PROVE  ProcInv'
<1>1. Me' = Me /\ Gone \subseteq Gone'
  BY ShrinkGone DEF Me
<1>2. StoppedMeansGone'
  <2>1. AliveOf(Me.svc)' \subseteq AliveOf(Me.svc)
    BY <1>1, ShrinkGone DEF AliveOf
  <2>2. At("write", {"stop"})' = At("write", {"stop"})
    BY DEF At, Idle, Me
  <2> QED
    BY <2>1, <2>2 DEF ProcInv, StoppedMeansGone
<1>3. CASE cli.pc # "begin"
  BY <1>2, <1>3, InTheCall
<1>4. CASE cli.pc = "begin"
  <2>1. PICK q : q = cli.todo /\ Ready(q, Gone)
    BY <1>4 DEF ProcInv, Left
  <2>2. Ready(q, Gone')
    BY <1>1, <2>1, MoreGone DEF Ready, Clear
  <2> QED
    BY <1>4, <2>1, <2>2, ToBegin
<1> QED
  BY <1>3, <1>4

LEMMA StartListReady ==
  ASSUME NEW D, NEW s \in D \cap Services, NEW v \in Versions, NEW q \in Seq(GoodCalls), Plain(q)
  PROVE  Ready(StartList(s, v, q), D)
<1> DEFINE sp == Call("spawn", s, v)
           ph == Call("php", "php", v)
           st == Call("stop", OtherWeb(s), None)
           q1 == <<sp>> \o q
           q2 == <<ph>> \o q1
           q3 == <<st>> \o q2
<1>1. /\ sp \in GoodCalls /\ ph \in GoodCalls /\ st \in GoodCalls
      /\ sp.op = "spawn" /\ sp.svc = s /\ ph.op = "php" /\ st.op = "stop" /\ st.svc = OtherWeb(s)
  BY GoodCall DEF Services, Web, OtherWeb, Call
<1>2. StartList(s, v, q) = IF s \in Web THEN q3 ELSE q1
  BY DEF StartList
<1> HIDE DEF sp, ph, st
<1>3. q1 \in Seq(GoodCalls) /\ q1 # <<>> /\ Head(q1) = sp /\ Tail(q1) = q
  BY <1>1, OneMore
<1> HIDE DEF q1
<1>4. q2 \in Seq(GoodCalls) /\ q2 # <<>> /\ Head(q2) = ph /\ Tail(q2) = q1
  BY <1>1, <1>3, OneMore
<1> HIDE DEF q2
<1>5. q3 # <<>> /\ Head(q3) = st /\ Tail(q3) = q2
  BY <1>1, <1>4, OneMore
<1> HIDE DEF q3
<1>6. CASE s \in Web
  <2>1. AfterStop(q2, OtherWeb(s), D)
    BY <1>1, <1>3, <1>4, <1>6 DEF AfterStop
  <2> QED
    BY <1>1, <1>2, <1>5, <1>6, <2>1 DEF Ready
<1>7. CASE s \notin Web
  <2>1. Clear(s, D)
    BY <1>7 DEF Clear
  <2> QED
    BY <1>1, <1>2, <1>3, <1>7, <2>1 DEF Ready
<1> QED
  BY <1>6, <1>7

(* What a call that is over leaves to do. *)
LEMMA CallOver ==
  ASSUME ProcInv, Shrink, AllListen', ~Idle, NEW seq \in Seq(GoodCalls), Continue(seq), TypeInv,
         Ready(seq, Gone) \/ Ready(seq, Gone')
  PROVE  ProcInv'
<1>1. cli'.todo = seq /\ cli'.pc = "begin" /\ Gone \subseteq Gone'
  BY ContinueEffect, ShrinkGone
<1>2. Ready(seq, Gone')
  BY <1>1, MoreGone DEF Ready, Clear
<1> QED
  BY <1>1, <1>2, ToBegin

(* At the start of a call. *)
LEMMA AtBegin ==
  ASSUME TypeInv, ProcInv, ~Idle, cli.pc = "begin"
  PROVE  /\ Me.op = "stop" => AfterStop(Rest, Me.svc, Gone)
         /\ Me.op \in Starts => Clear(Me.svc, Gone)
         /\ Me.op = "spawn" => Plain(Rest)
         /\ Me.op # "stop" => AfterPhp(Rest, Gone)
         /\ Me.op \notin Starts \cup {"stop", "php"} => Plain(Rest)
<1>1. Ready(cli.todo, Gone) /\ cli.todo \in Seq(GoodCalls) /\ cli.todo # <<>>
  BY DEF ProcInv, Left, TypeInv, Idle
<1> QED
  BY <1>1, ReadyHead DEF Me, Rest

LEMMA StopSteps ==
  ASSUME Separate, TypeInv, ProcInv, StopCheck \/ Kill
  PROVE  ProcInv'
<1>0. AllListen /\ ProcTypeOK
  BY DEF ProcInv, TypeInv, TypeOK
<1>1. CASE StopCheck
  <2>1. /\ ~Idle /\ Me.op = "stop" /\ Me.svc \in Services /\ cli.pc = "begin"
        /\ UNCHANGED procVars /\ cli'.todo = cli.todo
        /\ \/ cli'.pc = "kill"
           \/ cli'.pc = "write" /\ ~Running(Me.svc)
    BY <1>1, StopCheckEffect DEF Inside
  <2>2. Shrink /\ AllListen' /\ Gone' = Gone
    BY <1>0, <2>1, SameProcs
  <2>3. Me' = Me /\ Rest' = Rest
    BY <2>1 DEF Me, Rest
  <2>4. AfterStop(Rest, Me.svc, Gone)
    BY <2>1, AtBegin
  <2>5. Left' /\ Waiting'
    BY <2>1, <2>2, <2>3, <2>4 DEF Left, Waiting
  <2>6. cli'.pc = "write" => Me.svc \in Gone'
    BY <1>0, <2>1, <2>2, NotRunning
  <2>7. StoppedMeansGone'
    BY <2>3, <2>6 DEF StoppedMeansGone, At, Gone
  <2> QED
    BY <2>2, <2>5, <2>7, ShrinkStep
<1>2. CASE Kill
  <2>1. /\ ~Idle /\ Me.op = "stop" /\ Me.svc \in Services /\ cli.pc = "kill"
        /\ phase' = Killed({cli.pid} \cup AliveOf(Me.svc)) /\ image' = image
        /\ cli'.todo = cli.todo /\ cli'.pc = "write"
    BY <1>2, KillEffect DEF Inside
  <2>2. \A p \in Pids : Alive(p)' => /\ Alive(p) /\ p \notin AliveOf(Me.svc)
                                     /\ phase'[p] = phase[p] /\ image'[p] = image[p]
    BY <1>0, <2>1, KilledEffect
  <2>3. Shrink
    BY <2>2 DEF Shrink
  <2>4. AllListen'
    BY <1>0, <2>1, <2>2 DEF AllListen
  <2>5. AliveOf(Me.svc)' = {}
    BY <2>1, <2>2 DEF AliveOf, Me
  <2>6. StoppedMeansGone'
    BY <2>5 DEF StoppedMeansGone
  <2> QED
    BY <2>1, <2>3, <2>4, <2>6, InTheCall
<1> QED
  BY <1>1, <1>2

LEMMA WriteStep ==
  ASSUME TypeInv, ProcInv, Write \/ WriteFails
  PROVE  ProcInv'
<1>1. /\ ~Idle /\ cli.pc = "write" /\ Rest \in Seq(GoodCalls) /\ Continue(Rest)
      /\ UNCHANGED procVars
  BY WriteEffect, WriteFailsEffect
<1>2. Shrink /\ AllListen'
  BY <1>1, SameProcs DEF ProcInv
<1>3. CASE Me.op = "stop"
  <2>1. AfterStop(Rest, Me.svc, Gone) /\ AliveOf(Me.svc) = {}
    BY <1>1, <1>3 DEF ProcInv, Left, StoppedMeansGone, At
  <2>2. Me.svc \in Services
    BY <1>1, <1>3, MeGood, CallFields
  <2>3. Ready(Rest, Gone)
    BY <2>1, <2>2, ReadyNext DEF Gone
  <2> QED
    BY <1>1, <1>2, <2>3, CallOver
<1>4. CASE Me.op # "stop"
  <2>1. Ready(Rest, Gone)
    BY <1>1, <1>4, ReadyNext DEF ProcInv, Left
  <2> QED
    BY <1>1, <1>2, <2>1, CallOver
<1> QED
  BY <1>3, <1>4

LEMMA StartStep ==
  ASSUME Separate, TypeInv, ProcInv, StartCheck
  PROVE  ProcInv'
<1>1. /\ ~Idle /\ Me.op = "start" /\ Me.svc \in Services /\ Me.ver \in Versions
      /\ cli.pc = "begin" /\ Rest \in Seq(GoodCalls) /\ UNCHANGED procVars
  BY StartCheckEffect
<1>2. Shrink /\ AllListen' /\ Gone' = Gone
  BY <1>1, SameProcs DEF ProcInv
<1>3. Plain(Rest)
  BY <1>1, AtBegin DEF Starts
<1>4. CASE Continue(Rest)
  BY <1>1, <1>2, <1>3, <1>4, ReadyNext, CallOver
<1>5. CASE ~Running(Me.svc) /\ cli'.pc = "begin" /\ cli'.todo = StartList(Me.svc, Me.ver, Rest)
  <2>1. Me.svc \in Gone
    BY <1>1, <1>5, NotRunning DEF ProcInv
  <2>2. Ready(cli'.todo, Gone')
    BY <1>1, <1>2, <1>3, <1>5, <2>1, StartListReady
  <2> QED
    BY <1>2, <1>5, <2>2, ToBegin
<1> QED
  BY <1>4, <1>5, StartCheckEffect

LEMMA TwoMore ==
  ASSUME NEW S, NEW c \in S, NEW d \in S, NEW q \in Seq(S)
  PROVE  <<c, d>> \o q = <<c>> \o (<<d>> \o q)
<1> DEFINE a == <<c, d>> \o q
           b == <<c>> \o (<<d>> \o q)
<1>1. <<d>> \o q \in Seq(S) /\ Len(<<d>> \o q) = 1 + Len(q)
  OBVIOUS
<1>2. Len(a) = 2 + Len(q) /\ Len(b) = 2 + Len(q)
  BY <1>1
<1>3. \A i \in 1..(2 + Len(q)) : a[i] = b[i]
  BY <1>1
<1>4. a \in Seq(S) /\ b \in Seq(S)
  BY <1>1
<1> HIDE DEF a, b
<1>5. a = [i \in 1..Len(a) |-> a[i]] /\ b = [i \in 1..Len(b) |-> b[i]]
  BY <1>4
<1>6. a = b
  BY <1>2, <1>3, <1>5
<1> QED
  BY <1>6 DEF a, b

LEMMA ListSteps ==
  ASSUME Separate, TypeInv, ProcInv, PhpCheck \/ SpawnFails \/ WaitTimeout \/ RestartPhp \/ StartActive
  PROVE  ProcInv'
<1>0. AllListen /\ ProcTypeOK
  BY DEF ProcInv, TypeInv, TypeOK
<1>1. /\ ~Idle /\ Rest \in Seq(GoodCalls) /\ image' = image /\ nginxPid' = nginxPid
      /\ \/ phase' = phase /\ cli.pc = "begin"
         \/ cli.pc = "wait" /\ phase' = Killed({cli.pid}) /\ Me.op \in Starts
  BY ListEffect
<1>2. PICK seq \in Seq(GoodCalls) :
        /\ Continue(seq)
        /\ \/ seq = Rest /\ Me.op \in Starts \cup {"php", "restartPhp"}
           \/ /\ Me.op = "php" /\ ~Running("php") /\ UNCHANGED procVars
              /\ seq = <<Call("phpSpawn", "php", Me.ver)>> \o Rest /\ Me.ver \in Versions
           \/ /\ Me.op = "restartPhp" /\ Me.ver \in Versions /\ UNCHANGED procVars
              /\ seq = <<Call("stop", "php", None), Call("php", "php", Me.ver)>> \o Rest
           \/ /\ Me.op = "startActive" /\ UNCHANGED procVars
              /\ \E w \in Web, v \in Versions :
                   seq = <<Call("start", "mysql", v), Call("start", w, v)>> \o Rest
  BY ListEffect
<1>3. cli'.pc = "begin"
  BY <1>2, ContinueEffect
<1>4. Shrink /\ AllListen'
  <2>1. CASE phase' = phase /\ cli.pc = "begin"
    BY <1>0, <1>1, <2>1, SameProcs DEF procVars
  <2>2. CASE cli.pc = "wait" /\ phase' = Killed({cli.pid})
    <3>1. \A p \in Pids : Alive(p)' => /\ Alive(p) /\ p # cli.pid
                                       /\ phase'[p] = phase[p] /\ image'[p] = image[p]
      BY <1>0, <1>1, <2>2, KilledEffect
    <3> QED
      BY <1>0, <1>3, <3>1 DEF Shrink, AllListen
  <2> QED
    BY <1>1, <2>1, <2>2
<1>5. Me.op = "php" \/ Me.op \in Starts => AfterPhp(Rest, Gone)
  BY <1>1, AtBegin DEF ProcInv, Left, Starts
<1>6. Me.op \in {"restartPhp", "startActive"} => Plain(Rest) /\ cli.pc = "begin"
  BY <1>1, AtBegin DEF Starts
<1>7. Ready(seq, Gone)
  <2>1. CASE seq = Rest /\ Me.op \in Starts \cup {"php", "restartPhp"}
    BY <1>5, <1>6, <2>1, ReadyNext
  <2>2. CASE /\ Me.op = "php" /\ ~Running("php") /\ Me.ver \in Versions
             /\ seq = <<Call("phpSpawn", "php", Me.ver)>> \o Rest
    <3> DEFINE c == Call("phpSpawn", "php", Me.ver)
    <3>1. c \in GoodCalls /\ c.op = "phpSpawn"
      BY <2>2, GoodCall DEF Call
    <3> HIDE DEF c
    <3>5. seq = <<c>> \o Rest
      BY <2>2 DEF c
    <3>2. seq # <<>> /\ Head(seq) = c /\ Tail(seq) = Rest
      BY <1>1, <3>1, <3>5, OneMore
    <3>3. cli.pc = "begin"
      BY <1>1, <2>2 DEF Starts
    <3>4. "php" \in Gone
      BY <1>0, <2>2, <3>3, NotRunning DEF Services
    <3> QED
      BY <1>5, <2>2, <3>1, <3>2, <3>4 DEF Ready
  <2>3. ASSUME NEW c \in GoodCalls, NEW d \in GoodCalls, c.op \notin Starts, d.op \notin Starts,
               seq = <<c, d>> \o Rest, Plain(Rest)
        PROVE  Ready(seq, Gone)
    <3>1. seq = <<c>> \o (<<d>> \o Rest)
      BY <1>1, <2>3, TwoMore
    <3>2. <<d>> \o Rest \in Seq(GoodCalls) /\ Plain(<<d>> \o Rest)
      BY <1>1, <2>3, OneMore, PlainLists
    <3>3. Plain(seq)
      BY <2>3, <3>1, <3>2, PlainLists
    <3> QED
      BY <3>3, ReadyNext
  <2>4. CASE /\ Me.op = "restartPhp" /\ Me.ver \in Versions
             /\ seq = <<Call("stop", "php", None), Call("php", "php", Me.ver)>> \o Rest
    <3>1. /\ Call("stop", "php", None) \in GoodCalls /\ Call("php", "php", Me.ver) \in GoodCalls
          /\ Call("stop", "php", None).op = "stop" /\ Call("php", "php", Me.ver).op = "php"
      BY <2>4, GoodCall DEF Call, Services
    <3> QED
      BY <1>6, <2>3, <2>4, <3>1 DEF Starts
  <2>5. ASSUME NEW w \in Web, NEW v \in Versions, Me.op = "startActive",
               seq = <<Call("start", "mysql", v), Call("start", w, v)>> \o Rest
        PROVE  Ready(seq, Gone)
    <3>1. /\ Call("start", "mysql", v) \in GoodCalls /\ Call("start", w, v) \in GoodCalls
          /\ Call("start", "mysql", v).op = "start" /\ Call("start", w, v).op = "start"
      BY <2>5, GoodCall DEF Call, Services
    <3> QED
      BY <1>6, <2>3, <2>5, <3>1 DEF Starts
  <2> QED
    BY <1>2, <2>1, <2>2, <2>4, <2>5
<1> QED
  BY <1>1, <1>2, <1>4, <1>7, CallOver

LEMMA SpawnStep ==
  ASSUME Separate, TypeInv, ProcInv, Spawn
  PROVE  ProcInv'
<1>0. AllListen /\ ProcTypeOK /\ OneWeb
  BY DEF ProcInv, TypeInv, TypeOK
<1>1. /\ ~Idle /\ Me.op \in Starts /\ Me.svc \in Services /\ cli.pc = "begin"
      /\ cli'.todo = cli.todo /\ cli'.pc = "wait" /\ cli'.pid \in Pids /\ Popen(cli'.pid, Me.svc)
  BY SpawnEffect DEF Inside
<1>2. PICK n \in Pids : n = cli'.pid /\ Popen(n, Me.svc)
  BY <1>1
<1>3. /\ image'[n] = Me.svc /\ phase'[n] = "live"
      /\ \A p \in Pids : p # n => image'[p] = image[p] /\ phase'[p] = phase[p]
  BY <1>0, <1>1, <1>2, PopenEffect
<1>4. Me' = Me /\ Rest' = Rest
  BY <1>1 DEF Me, Rest
<1>5. /\ Clear(Me.svc, Gone) /\ AfterPhp(Rest, Gone)
      /\ Me.op = "spawn" => Plain(Rest)
  BY <1>1, AtBegin DEF Starts
<1>6. AllListen'
  BY <1>0, <1>1, <1>2, <1>3 DEF AllListen, Alive
<1>7. \A s \in Services : s # Me.svc /\ s \in Gone => s \in Gone'
  BY <1>3 DEF Gone, AliveOf, Alive
<1>8. AliveOf(Me.svc)' \subseteq {cli'.pid}
  <2>1. \A p \in Pids : p # n => ~(image[p] = Me.svc /\ Alive(p))
    BY <1>5 DEF Clear, Gone, AliveOf
  <2> QED
    BY <1>2, <1>3, <1>4, <2>1 DEF AliveOf, Alive
<1>9. Me.svc \in Web => OtherWeb(Me.svc) \in Gone'
  BY <1>5, <1>7 DEF Clear, Web, Services, OtherWeb
<1>10. OneWeb'
  BY <1>0, <1>1, <1>7, <1>9 DEF OneWeb, Web, Services, OtherWeb
<1>11. Waiting'
  BY <1>1, <1>4, <1>8, <1>9 DEF Waiting
<1>12. AfterPhp(Rest, Gone')
  <2>1. CASE Me.op = "spawn"
    BY <1>5, <2>1 DEF AfterPhp
  <2>2. CASE Me.op = "phpSpawn"
    <3>1. Me.svc = "php"
      BY <1>1, <2>2, MeGood, CallFields
    <3>2. \A w \in Web : /\ w \in Services /\ w # "php"
                         /\ OtherWeb(w) \in Services /\ OtherWeb(w) # "php"
      BY DEF Web, Services, OtherWeb
    <3>3. \A w \in Web : Clear(w, Gone) => Clear(w, Gone')
      BY <1>7, <3>1, <3>2 DEF Clear
    <3> QED
      BY <1>5, <3>3 DEF AfterPhp
  <2> QED
    BY <1>1, <2>1, <2>2 DEF Starts
<1>13. Left' /\ StoppedMeansGone'
  BY <1>1, <1>4, <1>12 DEF Left, StoppedMeansGone, At, Starts
<1> QED
  BY <1>6, <1>10, <1>11, <1>13 DEF ProcInv

LEMMA WaitStep ==
  ASSUME Separate, TypeInv, ProcInv, WaitOk
  PROVE  ProcInv'
<1>0. AllListen /\ ProcTypeOK
  BY DEF ProcInv, TypeInv, TypeOK
<1>1. /\ ~Idle /\ Me.op \in Starts /\ Me.svc \in Services /\ cli.pc = "wait"
      /\ is_port_open(PortOf[Me.svc]) /\ UNCHANGED procVars
      /\ cli'.todo = cli.todo /\ cli'.pc = "write"
  BY WaitOkEffect DEF Inside
<1>2. PICK p \in Pids : /\ image[p] \in Services /\ phase[p] \in {"listening", "closing"}
                        /\ PortOf[image[p]] = PortOf[Me.svc]
  BY <1>1 DEF is_port_open, Listeners, Separate
<1>3. Alive(p) /\ phase[p] = "listening"
  BY <1>0, <1>2 DEF AllListen, Alive
<1>4. image[p] = Me.svc
  <2>1. CASE Me.svc \in Web /\ image[p] = OtherWeb(Me.svc)
    <3>1. OtherWeb(Me.svc) \in Gone
      BY <1>1, <2>1 DEF ProcInv, Waiting
    <3> QED
      BY <1>3, <2>1, <3>1 DEF Gone, AliveOf
  <2> QED
    BY <1>1, <1>2, <2>1 DEF Separate
<1>5. p = cli.pid
  BY <1>1, <1>3, <1>4 DEF ProcInv, Waiting, AliveOf
<1>6. \A r \in Pids : Alive(r) => phase[r] = "listening"
  BY <1>0, <1>3, <1>5 DEF AllListen
<1>7. image' = image /\ phase' = phase
  BY <1>1 DEF procVars
<1>8. Shrink /\ AllListen'
  BY <1>6, <1>7 DEF Shrink, AllListen, Alive
<1>9. StoppedMeansGone'
  BY <1>1 DEF StoppedMeansGone, At, Me, Starts
<1> QED
  BY <1>1, <1>8, <1>9, InTheCall

LEMMA NextProcs ==
  ASSUME Separate, TypeInv, ProcInv, [Next]_vars
  PROVE  ProcInv'
<1>0. AllListen /\ ProcTypeOK /\ Left
  BY DEF ProcInv, TypeInv, TypeOK
<1>1. CASE SetVersion
  <2>1. /\ ~Idle /\ Me.op = "setver" /\ cli.pc = "begin" /\ UNCHANGED procVars
        /\ cli'.todo = cli.todo /\ cli'.pc = "write"
    BY <1>1, SetVersionEffect DEF Inside
  <2>2. Shrink /\ AllListen' /\ Gone' = Gone
    BY <1>0, <2>1, SameProcs
  <2>3. AfterPhp(Rest, Gone')
    BY <2>1, <2>2, AtBegin
  <2>4. Me' = Me /\ Rest' = Rest
    BY <2>1 DEF Me, Rest
  <2>5. Left' /\ Waiting' /\ StoppedMeansGone'
    BY <2>1, <2>3, <2>4 DEF Left, Waiting, StoppedMeansGone, At
  <2> QED
    BY <2>2, <2>5, ShrinkStep
<1>2. CASE Commands
  <2>1. cli'.pc = "begin" /\ Plain(cli'.todo) /\ Idle /\ UNCHANGED procVars
    BY <1>2, CommandEffect
  <2>2. cli.pc = "begin"
    BY <2>1 DEF TypeInv
  <2>3. Shrink /\ AllListen'
    BY <1>0, <2>1, <2>2, SameProcs
  <2> QED
    BY <2>1, <2>3, ReadyNext, ToBegin
<1>3. CASE AppHandlers
  <2>1. cli' = cli /\ image' = image
    BY <1>3, AppEffect
  <2>2. PICK K \in SUBSET Pids : phase' = Killed(K)
    BY <1>3, AppEffect
  <2>3. \A p \in Pids : Alive(p)' => Alive(p) /\ phase'[p] = phase[p] /\ image'[p] = image[p]
    BY <1>0, <2>1, <2>2, KilledEffect
  <2>4. Shrink /\ AllListen'
    BY <1>0, <2>1, <2>3 DEF Shrink, AllListen
  <2> QED
    BY <2>1, <2>4, SameCli
<1>4. CASE Environment
  <2>2. cli' = cli
    BY <1>0, <1>4, EnvironmentEffect
  <2>3. /\ image' = image
        /\ \A q \in Pids : \/ phase'[q] = phase[q]
                           \/ phase[q] = "live" /\ phase'[q] \in {"dead", "listening"}
    BY <1>0, <1>4, EnvironmentEffect
  <2>4. \A q \in Pids : Alive(q)' => /\ Alive(q) /\ image'[q] = image[q]
                                     /\ phase'[q] = "listening" \/ phase'[q] = phase[q]
    <3> SUFFICES ASSUME NEW q \in Pids, Alive(q)'
                 PROVE  /\ Alive(q) /\ image'[q] = image[q]
                        /\ phase'[q] = "listening" \/ phase'[q] = phase[q]
      OBVIOUS
    <3>1. phase'[q] \in {"live", "listening", "closing"}
      BY DEF Alive
    <3> QED
      BY <2>3, <3>1 DEF Alive
  <2>5. Shrink /\ AllListen'
    BY <1>0, <2>2, <2>4 DEF Shrink, AllListen
  <2> QED
    BY <2>2, <2>5, SameCli
<1>5. CASE UNCHANGED vars
  <2>1. cli' = cli /\ image' = image /\ phase' = phase
    BY <1>5 DEF vars, procVars
  <2>2. Shrink /\ AllListen'
    BY <1>0, <2>1 DEF Shrink, AllListen, Alive
  <2> QED
    BY <2>1, <2>2, SameCli
<1> QED
  BY <1>1, <1>2, <1>3, <1>4, <1>5, StopSteps, WriteStep, StartStep, ListSteps, SpawnStep, WaitStep
  DEF Next, CliStep, Quiet

LEMMA InitProcs == Init => ProcInv
<1> SUFFICES ASSUME Init PROVE ProcInv
  OBVIOUS
<1>1. \A p \in Pids : ~Alive(p)
  BY DEF Init, ProcInit, Alive
<1>2. Gone = Services
  BY <1>1 DEF Gone, AliveOf
<1>3. cli.todo = <<>> /\ cli.pc = "begin"
  BY DEF Init, CliIdle
<1>4. Plain(<<>>)
  BY DEF Plain
<1>5. Left /\ Waiting /\ StoppedMeansGone
  BY <1>3, <1>4, ReadyNext DEF Left, Waiting, StoppedMeansGone, At
<1> QED
  BY <1>1, <1>2, <1>5 DEF ProcInv, AllListen, OneWeb, Services, Web

(* "Service ... stopped." is true when the console says it: what its status *)
(* did not see was not there, and what it killed left nothing of that name  *)
(* (cli.ps1 201-275), also while the window stops services in between.      *)
THEOREM StopsAreComplete == Separate => (Spec => []StoppedMeansGone)
<1> SUFFICES ASSUME Separate PROVE Spec => []StoppedMeansGone
  OBVIOUS
<1>1. ProcInv => StoppedMeansGone
  BY DEF ProcInv
<1>2. TypeInv /\ ProcInv /\ [Next]_vars => ProcInv'
  BY NextProcs
<1> QED
  BY <1>1, <1>2, InitType, NextType, InitProcs, PTL DEF Spec

(* Nginx and Apache never both listen: the stop of the other server comes   *)
(* before the spawn, nothing the calls between them do can bring it back,   *)
(* and it does not matter whether the two are given the same port.          *)
THEOREM OneWebServer == Separate => (Spec => []WebServersExclusive)
<1> SUFFICES ASSUME Separate PROVE Spec => []WebServersExclusive
  OBVIOUS
<1>1. ProcInv => WebServersExclusive
  BY DEF ProcInv, OneWeb, Gone, WebServersExclusive, Listening
<1>2. TypeInv /\ ProcInv /\ [Next]_vars => ProcInv'
  BY NextProcs
<1> QED
  BY <1>1, <1>2, InitType, NextType, InitProcs, PTL DEF Spec
=============================================================================
