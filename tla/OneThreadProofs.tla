--------------------------- MODULE OneThreadProofs ---------------------------
(***************************************************************************)
(* Proofs about ServiceControl with one thread at work at a time and no    *)
(* kill of the application: what holds for a user who waits for each press *)
(* to be carried out.  Any number of processes, versions and presses, any  *)
(* ports, and services that crash unless a theorem says otherwise.         *)
(***************************************************************************)
EXTENDS ServiceControlProofs

(* The only thread, and its state. *)
Solo   == CHOOSE t \in Threads : TRUE
worker == th[Solo]

OneThread == Threads = {Solo}

(* Sequences, one call at a time. *)
LEMMA FirstCall ==
  ASSUME NEW S, NEW q \in Seq(S), q # <<>>
  PROVE  /\ Head(q) \in S /\ Tail(q) \in Seq(S) /\ q = <<Head(q)>> \o Tail(q)
         /\ Head(q) = q[1] /\ 1 \in DOMAIN q
         /\ \A i \in DOMAIN Tail(q) : i + 1 \in DOMAIN q /\ Tail(q)[i] = q[i + 1]
OBVIOUS

LEMMA OneMore ==
  ASSUME NEW S, NEW c \in S, NEW q \in Seq(S)
  PROVE  /\ <<c>> \o q \in Seq(S) /\ <<c>> \o q # <<>>
         /\ Head(<<c>> \o q) = c /\ Tail(<<c>> \o q) = q
         /\ \A i \in DOMAIN (<<c>> \o q) :
              (<<c>> \o q)[i] = c \/ (i - 1 \in DOMAIN q /\ (<<c>> \o q)[i] = q[i - 1])
<1>1. <<c>> \in Seq(S)
  OBVIOUS
<1> QED
  BY <1>1

Starts == {"spawn", "phpSpawn"}

GoodCalls == {c \in Calls : c.op = "phpSpawn" => c.svc = "php"}

(* The counter fits the call at work. *)
TypeInv ==
  /\ TypeOK
  /\ worker.todo \in Seq(GoodCalls)
  /\ worker.pc # "begin" => ~Idle(Solo)
  /\ worker.pc = "kill" => Me(Solo).op = "stop"
  /\ worker.pc = "wait" => Me(Solo).op \in Starts /\ worker.pid \in Pids
  /\ worker.pc \in {"write", "flush"} => Me(Solo).op \in Starts \cup {"stop", "setver"}

LEMMA CallFields ==
  ASSUME NEW c \in GoodCalls
  PROVE  /\ c \in Calls /\ c.op \in Ops
         /\ c.op \in {"stop", "spawn", "phpSpawn"} => c.svc \in Services
         /\ c.op \in {"php", "phpSpawn"} => c.svc = "php"
         /\ c.op = "start" => c.svc \in Services \cup {Active}
         /\ c.ver \in Versions \cup {Active, None}
         /\ c.op \in {"spawn", "phpSpawn", "setver"} => c.ver \in Versions \cup {None}
BY DEF GoodCalls, Calls

LEMMA Typed ==
  ASSUME OneThread, TypeInv
  PROVE  /\ Solo \in Threads /\ worker \in ThreadStates /\ th = [t \in {Solo} |-> worker]
         /\ load_pids \in PidTable /\ pidFile.data \in PidTable /\ NoPids \in PidTable
         /\ get_current_php_version \in Versions
BY TablesTyped DEF OneThread, TypeInv, TypeOK, worker, PidFileTypeOK

LEMMA MeGood ==
  ASSUME TypeInv, ~Idle(Solo)
  PROVE  /\ Me(Solo) \in GoodCalls /\ Rest(Solo) \in Seq(GoodCalls)
         /\ worker.todo = <<Me(Solo)>> \o Rest(Solo) /\ worker.todo # <<>>
<1>1. worker.todo \in Seq(GoodCalls) /\ worker.todo # <<>>
  BY DEF TypeInv, Idle, worker
<1>2. Head(worker.todo) \in GoodCalls /\ Tail(worker.todo) \in Seq(GoodCalls)
      /\ worker.todo = <<Head(worker.todo)>> \o Tail(worker.todo)
  BY <1>1, FirstCall
<1> QED
  BY <1>1, <1>2 DEF Me, Rest, worker

-----------------------------------------------------------------------------
(* What each step does to the thread's state, written out. *)

(* A step inside the first call. *)
Inside(pc) ==
  /\ worker' \in ThreadStates
  /\ worker'.todo = worker.todo /\ worker'.pc = pc /\ worker'.snap = worker.snap

(* A step to the calls of q. *)
Onward(q) ==
  /\ worker' \in ThreadStates
  /\ worker'.todo = q /\ worker'.pc = "begin"

LEMMA Update ==
  ASSUME OneThread, TypeInv, NEW r \in ThreadStates, th' = [th EXCEPT ![Solo] = r]
  PROVE  worker' = r /\ worker' \in ThreadStates
BY Typed DEF worker

LEMMA ContinueEffect ==
  ASSUME OneThread, TypeInv, NEW q \in Seq(GoodCalls), Continue(Solo, q)
  PROVE  Onward(q) /\ worker'.snap = KeptSnapshot(Solo, q)
<1>1. KeptSnapshot(Solo, q) \in PidTable
  BY Typed DEF KeptSnapshot, ThreadStates, worker
<1>2. q \in Seq(Calls)
  BY DEF GoodCalls
<1> DEFINE r == [IdleThread EXCEPT !.todo = q, !.snap = KeptSnapshot(Solo, q)]
<1>3. r \in ThreadStates /\ r.todo = q /\ r.pc = "begin" /\ r.snap = KeptSnapshot(Solo, q)
  BY <1>1, <1>2, Typed DEF IdleThread, ThreadStates, PCs
<1>4. th' = [th EXCEPT ![Solo] = r]
  BY DEF Continue
<1> HIDE DEF r
<1> QED
  BY <1>3, <1>4, Update DEF Onward

LEMMA ReturnEffect ==
  ASSUME OneThread, TypeInv, ~Idle(Solo), Return(Solo)
  PROVE  Onward(Rest(Solo)) /\ worker'.snap = KeptSnapshot(Solo, Rest(Solo))
BY MeGood, ContinueEffect DEF Return

LEMMA StopCheckEffect ==
  ASSUME OneThread, TypeInv, StopCheck(Solo)
  PROVE  /\ ~Idle(Solo) /\ Me(Solo).op = "stop" /\ Me(Solo).svc \in Services /\ worker.pc = "begin"
         /\ UNCHANGED <<procVars, pidFile, gui, activeWeb, activePhp, events>>
         /\ \/ /\ Running(load_pids, Me(Solo).svc) /\ Inside("kill")
               /\ worker'.pid = StatusPid(Me(Solo).svc)
            \/ /\ ~Running(load_pids, Me(Solo).svc)
               /\ Onward(Rest(Solo)) /\ worker'.snap = KeptSnapshot(Solo, Rest(Solo))
<1>1. /\ ~Idle(Solo) /\ Me(Solo).op = "stop" /\ worker.pc = "begin"
      /\ UNCHANGED <<procVars, pidFile, gui, activeWeb, activePhp, events>>
  BY DEF StopCheck, At, OnlyThreads, worker
<1>2. Me(Solo).svc \in Services
  BY <1>1, MeGood, CallFields
<1>3. CASE Running(load_pids, Me(Solo).svc)
  <2> DEFINE p == StatusPid(Me(Solo).svc)
  <2>1. p \in Pids \cup {None}
    BY <1>2, Typed DEF StatusPid, PidTable, TypeInv, TypeOK, ProcTypeOK
  <2>2. th' = [th EXCEPT ![Solo].pc = "kill", ![Solo].pid = p]
    BY <1>3 DEF StopCheck
  <2> HIDE DEF p
  <2>3. PICK r : r = [worker EXCEPT !.pc = "kill", !.pid = p]
    OBVIOUS
  <2>4. /\ r \in ThreadStates /\ r.todo = worker.todo /\ r.pc = "kill"
        /\ r.snap = worker.snap /\ r.pid = p
    BY <2>1, <2>3, Typed DEF ThreadStates, PCs
  <2>5. th' = [th EXCEPT ![Solo] = r]
    BY <2>2, <2>3 DEF worker
  <2> QED
    BY <1>1, <1>2, <1>3, <2>4, <2>5, Update DEF Inside, p
<1>4. CASE ~Running(load_pids, Me(Solo).svc)
  BY <1>1, <1>2, <1>4, ReturnEffect DEF StopCheck
<1> QED
  BY <1>3, <1>4

LEMMA KillEffect ==
  ASSUME OneThread, TypeInv, Kill(Solo)
  PROVE  /\ ~Idle(Solo) /\ Me(Solo).op = "stop" /\ Me(Solo).svc \in Services /\ worker.pc = "kill"
         /\ UNCHANGED <<image, pidFile, gui, activeWeb, activePhp, events>>
         /\ phase' = IF Me(Solo).svc = "mysql" /\ ShutdownHeard
                     THEN [p \in Pids |-> IF image[p] = "mysql" /\ phase[p] = "listening"
                                          THEN "closing" ELSE phase[p]]
                     ELSE Killed(KillSet(Solo))
         /\ nginxPid' \in IF Me(Solo).svc = "nginx" THEN {nginxPid, None} ELSE {nginxPid}
         /\ Inside("write") /\ worker'.buf = [load_pids EXCEPT !.pid[Me(Solo).svc] = None]
<1>1. /\ ~Idle(Solo) /\ Me(Solo).op = "stop" /\ worker.pc = "kill"
      /\ UNCHANGED <<image, pidFile, gui, activeWeb, activePhp, events>>
  BY DEF Kill, At, OnlyThreads, worker
<1>2. Me(Solo).svc \in Services
  BY <1>1, MeGood, CallFields
<1> DEFINE b == [load_pids EXCEPT !.pid[Me(Solo).svc] = None]
<1>3. b \in PidTable
  BY <1>2, Typed DEF PidTable
<1>4. th' = [th EXCEPT ![Solo].pc = "write", ![Solo].pid = None, ![Solo].buf = b]
  BY DEF Kill
<1> HIDE DEF b
<1>5. PICK r : r = [worker EXCEPT !.pc = "write", !.pid = None, !.buf = b]
  OBVIOUS
<1>6. /\ r \in ThreadStates /\ r.todo = worker.todo /\ r.pc = "write"
      /\ r.snap = worker.snap /\ r.buf = b
  BY <1>3, <1>5, Typed DEF ThreadStates, PCs
<1>7. th' = [th EXCEPT ![Solo] = r]
  BY <1>4, <1>5 DEF worker
<1>8. Inside("write") /\ worker'.buf = b
  BY <1>6, <1>7, Update DEF Inside
<1> QED
  BY <1>1, <1>2, <1>8 DEF b, Kill

LEMMA SaveEffects ==
  ASSUME OneThread, TypeInv
  PROVE  /\ Write(Solo) =>
              /\ ~Idle(Solo) /\ worker.pc = "write" /\ OpenForWrite
              /\ UNCHANGED <<procVars, gui, activeWeb, activePhp, events>>
              /\ Inside("flush") /\ worker'.buf = worker.buf
         /\ Flush(Solo) =>
              /\ ~Idle(Solo) /\ worker.pc = "flush" /\ WriteTable(worker.buf)
              /\ UNCHANGED <<procVars, gui, activeWeb, activePhp, events>>
              /\ Onward(Rest(Solo)) /\ worker'.snap = KeptSnapshot(Solo, Rest(Solo))
<1>1. ASSUME Write(Solo)
      PROVE  /\ ~Idle(Solo) /\ worker.pc = "write" /\ OpenForWrite
             /\ UNCHANGED <<procVars, gui, activeWeb, activePhp, events>>
             /\ Inside("flush") /\ worker'.buf = worker.buf
  <2>1. th' = [th EXCEPT ![Solo].pc = "flush", ![Solo].pid = None]
    BY <1>1 DEF Write
  <2>2. PICK r : r = [worker EXCEPT !.pc = "flush", !.pid = None]
    OBVIOUS
  <2>3. /\ r \in ThreadStates /\ r.todo = worker.todo /\ r.pc = "flush"
        /\ r.snap = worker.snap /\ r.buf = worker.buf
    BY <2>2, Typed DEF ThreadStates, PCs
  <2>4. th' = [th EXCEPT ![Solo] = r]
    BY <2>1, <2>2 DEF worker
  <2>5. Inside("flush") /\ worker'.buf = worker.buf
    BY <2>3, <2>4, Update DEF Inside
  <2> QED
    BY <1>1, <2>5 DEF Write, At, OnlyThreads, worker
<1>2. ASSUME Flush(Solo)
      PROVE  /\ ~Idle(Solo) /\ worker.pc = "flush" /\ WriteTable(worker.buf)
             /\ UNCHANGED <<procVars, gui, activeWeb, activePhp, events>>
             /\ Onward(Rest(Solo)) /\ worker'.snap = KeptSnapshot(Solo, Rest(Solo))
  BY <1>2, ReturnEffect DEF Flush, At, OnlyThreads, worker
<1> QED
  BY <1>1, <1>2

(* What a start puts in front of what its caller still has to do. *)
StartList(s, v, q) == Nested(s, v) \o <<Call("spawn", s, v)>> \o q

(* A call that has been made names its service and version. *)
LEMMA GoodCall ==
  /\ \A s \in Services : Call("stop", s, None) \in GoodCalls
  /\ \A s \in Services \cup {Active}, v \in {Active, None} : Call("start", s, v) \in GoodCalls
  /\ \A s \in Services, v \in Versions \cup {None} : Call("spawn", s, v) \in GoodCalls
  /\ \A v \in Versions \cup {Active, None} : Call("php", "php", v) \in GoodCalls
  /\ \A v \in Versions \cup {None} : Call("phpSpawn", "php", v) \in GoodCalls
  /\ \A v \in Versions : Call("setver", None, v) \in GoodCalls
  /\ \A v \in Versions \cup {Active} : Call("restart", None, v) \in GoodCalls
  /\ Call("exit", None, None) \in GoodCalls
<1>1. Active \notin Versions \cup Services \cup {None} /\ None \notin Services /\ "php" \in Services
  BY ServiceControlAssumption, ProcessesAssumption DEF Services
<1> QED
  BY <1>1 DEF Call, GoodCalls, Calls, Ops

LEMMA TwoMore ==
  ASSUME NEW S, NEW c \in S, NEW d \in S, NEW q \in Seq(S)
  PROVE  <<c, d>> \o q = <<c>> \o (<<d>> \o q)
<1> DEFINE a == <<c, d>> \o q
           b == <<c>> \o (<<d>> \o q)
<1>1. <<d>> \o q \in Seq(S) /\ Len(<<d>> \o q) = 1 + Len(q)
  OBVIOUS
<1>2. Len(a) = 2 + Len(q) /\ Len(b) = 2 + Len(q)
  BY <1>1
<1>3. \A i \in 1..(2 + Len(q)) : a[i] = b[i]
  BY <1>1
<1>4. a \in Seq(S) /\ b \in Seq(S)
  BY <1>1
<1> HIDE DEF a, b
<1>5. a = [i \in 1..Len(a) |-> a[i]] /\ b = [i \in 1..Len(b) |-> b[i]]
  BY <1>4
<1>6. a = b
  BY <1>2, <1>3, <1>5
<1> QED
  BY <1>6 DEF a, b

LEMMA ThreeMore ==
  ASSUME NEW S, NEW c \in S, NEW d \in S, NEW e \in S, NEW q \in Seq(S)
  PROVE  <<c, d>> \o <<e>> \o q = <<c>> \o (<<d>> \o (<<e>> \o q))
<1> DEFINE a == <<c, d>> \o <<e>> \o q
           b == <<c>> \o (<<d>> \o (<<e>> \o q))
<1>1. <<c, d>> \o <<e>> \in Seq(S) /\ Len(<<c, d>> \o <<e>>) = 3
  OBVIOUS
<1>2. LET t == <<c, d>> \o <<e>> IN t[1] = c /\ t[2] = d /\ t[3] = e
  OBVIOUS
<1>3. <<e>> \o q \in Seq(S) /\ Len(<<e>> \o q) = 1 + Len(q)
  OBVIOUS
<1>4. <<d>> \o (<<e>> \o q) \in Seq(S) /\ Len(<<d>> \o (<<e>> \o q)) = 2 + Len(q)
  BY <1>3
<1>5. Len(a) = 3 + Len(q) /\ Len(b) = 3 + Len(q) /\ a \in Seq(S) /\ b \in Seq(S)
  BY <1>1, <1>4
<1>6. \A i \in 1..(3 + Len(q)) : a[i] = IF i <= 3 THEN <<c, d, e>>[i] ELSE q[i - 3]
  BY <1>1, <1>2
<1>7. \A i \in 1..(3 + Len(q)) : b[i] = IF i <= 3 THEN <<c, d, e>>[i] ELSE q[i - 3]
  BY <1>3, <1>4
<1> HIDE DEF a, b
<1>8. a = [i \in 1..Len(a) |-> a[i]] /\ b = [i \in 1..Len(b) |-> b[i]]
  BY <1>5
<1>9. a = b
  BY <1>5, <1>6, <1>7, <1>8
<1> QED
  BY <1>9 DEF a, b

(* <<c, d>> \o <<e>> \o q and <<>> \o <<e>> \o q, one call at a time. *)
LEMMA ListShape ==
  ASSUME NEW s \in Services, NEW v \in Versions \cup {None}, NEW q \in Seq(GoodCalls)
  PROVE  /\ StartList(s, v, q) \in Seq(GoodCalls)
         /\ s \notin Web => StartList(s, v, q) = <<Call("spawn", s, v)>> \o q
         /\ s \in Web =>
              StartList(s, v, q) =
                <<Call("stop", OtherWeb(s), None)>> \o (<<Call("php", "php", v)>> \o
                (<<Call("spawn", s, v)>> \o q))
<1> DEFINE sp == Call("spawn", s, v)
           ph == Call("php", "php", v)
           st == Call("stop", OtherWeb(s), None)
<1>1. /\ sp \in GoodCalls /\ ph \in GoodCalls /\ st \in GoodCalls
  BY GoodCall DEF Services, Web, OtherWeb
<1>2. StartList(s, v, q) = (IF s \in Web THEN <<st, ph>> ELSE <<>>) \o <<sp>> \o q
  BY DEF StartList, Nested
<1> HIDE DEF sp, ph, st
<1>3. <<sp>> \o q \in Seq(GoodCalls) /\ <<sp>> \in Seq(GoodCalls)
  BY <1>1
<1>4. CASE s \in Web
  <2>1. StartList(s, v, q) = <<st, ph>> \o <<sp>> \o q
    BY <1>2, <1>4
  <2>2. <<st, ph>> \o <<sp>> \o q = <<st>> \o (<<ph>> \o (<<sp>> \o q))
    BY <1>1, ThreeMore
  <2>3. StartList(s, v, q) = <<st>> \o (<<ph>> \o (<<sp>> \o q))
    BY <2>1, <2>2
  <2>4. <<ph>> \o (<<sp>> \o q) \in Seq(GoodCalls)
    BY <1>1, <1>3, OneMore
  <2>5. <<st>> \o (<<ph>> \o (<<sp>> \o q)) \in Seq(GoodCalls)
    BY <1>1, <2>4, OneMore
  <2> QED
    BY <1>4, <2>3, <2>5 DEF sp, ph, st
<1>5. CASE s \notin Web
  <2>1. <<>> \o <<sp>> = <<sp>>
    OBVIOUS
  <2>2. StartList(s, v, q) = <<sp>> \o q
    BY <1>2, <1>5, <2>1
  <2> QED
    BY <1>3, <1>5, <2>2 DEF sp
<1> QED
  BY <1>4, <1>5

LEMMA StartCheckEffect ==
  ASSUME OneThread, TypeInv, StartCheck(Solo)
  PROVE  /\ ~Idle(Solo) /\ Me(Solo).op = "start" /\ worker.pc = "begin"
         /\ UNCHANGED <<procVars, pidFile, gui, activeWeb, activePhp, events>>
         /\ Ver(Solo) \in Versions \cup {None}
         /\ \E s \in Services :
              /\ s = IF Me(Solo).svc = Active THEN activeWeb ELSE Me(Solo).svc
              /\ \/ /\ Running(load_pids, s)
                    /\ Onward(Rest(Solo)) /\ worker'.snap = KeptSnapshot(Solo, Rest(Solo))
                 \/ /\ ~Running(load_pids, s)
                    /\ Onward(StartList(s, Ver(Solo), Rest(Solo))) /\ worker'.snap = load_pids
<1>1. /\ ~Idle(Solo) /\ Me(Solo).op = "start" /\ worker.pc = "begin"
      /\ UNCHANGED <<procVars, pidFile, gui, activeWeb, activePhp, events>>
  BY DEF StartCheck, At, OnlyThreads, worker
<1>2. PICK s : s = IF Me(Solo).svc = Active THEN activeWeb ELSE Me(Solo).svc
  OBVIOUS
<1>3. s \in Services
  BY <1>1, <1>2, MeGood, CallFields DEF TypeInv, TypeOK, Services
<1>4. Ver(Solo) \in Versions \cup {None}
  BY <1>1, Typed, VerTyped DEF TypeInv
<1>5. CASE Running(load_pids, s)
  <2>1. Return(Solo)
    BY <1>2, <1>5 DEF StartCheck
  <2> QED
    BY <1>1, <1>2, <1>3, <1>4, <1>5, <2>1, ReturnEffect
<1>6. CASE ~Running(load_pids, s)
  <2> DEFINE q == StartList(s, Ver(Solo), Rest(Solo))
  <2>0. q \in Seq(GoodCalls)
    BY <1>1, <1>3, <1>4, MeGood, ListShape
  <2>1. q \in Seq(Calls)
    BY <2>0 DEF GoodCalls
  <2>2. th' = [th EXCEPT ![Solo].snap = load_pids, ![Solo].todo = q]
    BY <1>2, <1>6 DEF StartCheck, StartList
  <2> HIDE DEF q
  <2>3. PICK r : r = [worker EXCEPT !.snap = load_pids, !.todo = q]
    OBVIOUS
  <2>4. r \in ThreadStates /\ r.todo = q /\ r.pc = "begin" /\ r.snap = load_pids
    BY <1>1, <2>1, <2>3, Typed DEF ThreadStates
  <2>5. th' = [th EXCEPT ![Solo] = r]
    BY <2>2, <2>3 DEF worker
  <2>6. Onward(q) /\ worker'.snap = load_pids
    BY <2>4, <2>5, Update DEF Onward
  <2> QED
    BY <1>1, <1>2, <1>3, <1>4, <1>6, <2>6 DEF q
<1> QED
  BY <1>5, <1>6

LEMMA PhpCheckEffect ==
  ASSUME OneThread, TypeInv, PhpCheck(Solo)
  PROVE  /\ ~Idle(Solo) /\ Me(Solo).op = "php" /\ worker.pc = "begin"
         /\ UNCHANGED <<procVars, pidFile, gui, activeWeb, activePhp, events>>
         /\ Ver(Solo) \in Versions \cup {None}
         /\ \/ /\ Running(load_pids, "php")
               /\ Onward(Rest(Solo)) /\ worker'.snap = KeptSnapshot(Solo, Rest(Solo))
            \/ /\ ~Running(load_pids, "php")
               /\ Onward(<<Call("phpSpawn", "php", Ver(Solo))>> \o Rest(Solo))
               /\ worker'.snap = worker.snap
<1>1. /\ ~Idle(Solo) /\ Me(Solo).op = "php" /\ worker.pc = "begin"
      /\ UNCHANGED <<procVars, pidFile, gui, activeWeb, activePhp, events>>
  BY DEF PhpCheck, At, OnlyThreads, worker
<1>2. Ver(Solo) \in Versions \cup {None}
  BY <1>1, Typed, VerTyped DEF TypeInv
<1>3. CASE Running(load_pids, "php")
  BY <1>1, <1>2, <1>3, ReturnEffect DEF PhpCheck
<1>4. CASE ~Running(load_pids, "php")
  <2> DEFINE q == <<Call("phpSpawn", "php", Ver(Solo))>> \o Rest(Solo)
  <2>1. q \in Seq(GoodCalls)
    BY <1>1, <1>2, MeGood, GoodCall, OneMore
  <2>2. th' = [th EXCEPT ![Solo].todo = q]
    BY <1>4 DEF PhpCheck
  <2> HIDE DEF q
  <2>3. PICK r : r = [worker EXCEPT !.todo = q]
    OBVIOUS
  <2>4. r \in ThreadStates /\ r.todo = q /\ r.pc = "begin" /\ r.snap = worker.snap
    BY <1>1, <2>1, <2>3, Typed DEF ThreadStates, GoodCalls
  <2>5. th' = [th EXCEPT ![Solo] = r]
    BY <2>2, <2>3 DEF worker
  <2>6. Onward(q) /\ worker'.snap = worker.snap
    BY <2>4, <2>5, Update DEF Onward
  <2> QED
    BY <1>1, <1>2, <1>4, <2>6 DEF q
<1> QED
  BY <1>3, <1>4

LEMMA SpawnEffect ==
  ASSUME OneThread, TypeInv, Spawn(Solo)
  PROVE  /\ ~Idle(Solo) /\ Me(Solo).op \in Starts /\ Me(Solo).svc \in Services
         /\ worker.pc = "begin"
         /\ UNCHANGED <<pidFile, gui, activeWeb, activePhp, events>>
         /\ worker'.pid \in Pids /\ Popen(worker'.pid, Me(Solo).svc)
         /\ worker' \in ThreadStates /\ worker'.pc = "wait" /\ worker'.snap = worker.snap
         /\ ChosenVersion(Solo) \in Versions \cup {None}
         /\ worker'.todo = <<Call(Me(Solo).op, Me(Solo).svc, ChosenVersion(Solo))>> \o Rest(Solo)
         /\ Call(Me(Solo).op, Me(Solo).svc, ChosenVersion(Solo)) \in GoodCalls
<1>1. /\ ~Idle(Solo) /\ Me(Solo).op \in Starts /\ worker.pc = "begin"
      /\ UNCHANGED <<pidFile, gui, activeWeb, activePhp, events>>
  BY DEF Spawn, At, OnlyThreads, worker, Starts
<1>2. Me(Solo).svc \in Services /\ (Me(Solo).op = "phpSpawn" => Me(Solo).svc = "php")
  BY <1>1, MeGood, CallFields DEF Starts
<1>3. ChosenVersion(Solo) \in Versions \cup {None}
  BY <1>1, Typed, MeGood, CallFields DEF ChosenVersion, Starts
<1> DEFINE c == Call(Me(Solo).op, Me(Solo).svc, ChosenVersion(Solo))
           q == <<c>> \o Rest(Solo)
<1>4. c \in GoodCalls
  BY <1>1, <1>2, <1>3, GoodCall DEF Starts
<1>5. q \in Seq(GoodCalls)
  BY <1>1, <1>4, MeGood, OneMore
<1>6. PICK p \in Pids : /\ Popen(p, Me(Solo).svc)
                        /\ th' = [th EXCEPT ![Solo].pc = "wait", ![Solo].pid = p, ![Solo].todo = q]
  BY DEF Spawn
<1> HIDE DEF c, q
<1>7. PICK r : r = [worker EXCEPT !.pc = "wait", !.pid = p, !.todo = q]
  OBVIOUS
<1>8. /\ r \in ThreadStates /\ r.todo = q /\ r.pc = "wait" /\ r.pid = p
      /\ r.snap = worker.snap
  <2>1. q \in Seq(Calls)
    BY <1>5 DEF GoodCalls
  <2> QED
    BY <1>7, <2>1, Typed DEF ThreadStates, PCs
<1>9. th' = [th EXCEPT ![Solo] = r]
  BY <1>6, <1>7 DEF worker
<1>10. worker' = r
  BY <1>8, <1>9, Update
<1> QED
  BY <1>1, <1>2, <1>3, <1>4, <1>6, <1>8, <1>10 DEF c, q

LEMMA GiveUpEffects ==
  ASSUME OneThread, TypeInv, SpawnFails(Solo) \/ WaitTimeout(Solo)
  PROVE  /\ ~Idle(Solo) /\ Me(Solo).op \in Starts
         /\ UNCHANGED <<image, nginxPid, pidFile, gui, activeWeb, activePhp, events>>
         /\ \/ worker.pc = "begin" /\ phase' = phase
            \/ worker.pc = "wait" /\ ~is_port_open(PortOf[Me(Solo).svc]) /\ phase' = Killed({worker.pid})
         /\ Onward(Rest(Solo)) /\ worker'.snap = KeptSnapshot(Solo, Rest(Solo))
<1>1. ~Idle(Solo) /\ Return(Solo)
  BY DEF SpawnFails, WaitTimeout, At
<1> QED
  BY <1>1, ReturnEffect DEF SpawnFails, WaitTimeout, At, taskkill, OnlyThreads, procVars, worker, Starts

LEMMA WaitOkEffect ==
  ASSUME OneThread, TypeInv, WaitOk(Solo)
  PROVE  /\ ~Idle(Solo) /\ Me(Solo).op \in Starts /\ Me(Solo).svc \in Services
         /\ worker.pc = "wait" /\ is_port_open(PortOf[Me(Solo).svc])
         /\ UNCHANGED <<procVars, pidFile, gui, activeWeb, activePhp, events>>
         /\ Inside("write") /\ worker'.pid = PidFound(Solo)
         /\ TableRead(Solo) \in PidTable
         /\ worker'.buf.pid = [TableRead(Solo).pid EXCEPT ![Me(Solo).svc] = PidFound(Solo)]
         /\ worker'.buf.ver = IF Me(Solo).svc = "php" THEN Me(Solo).ver ELSE TableRead(Solo).ver
<1>1. /\ ~Idle(Solo) /\ Me(Solo).op \in Starts /\ worker.pc = "wait"
      /\ is_port_open(PortOf[Me(Solo).svc])
      /\ UNCHANGED <<procVars, pidFile, gui, activeWeb, activePhp, events>>
  BY DEF WaitOk, At, OnlyThreads, worker, Starts
<1>2. /\ Me(Solo).svc \in Services /\ Me(Solo).ver \in Versions \cup {None}
  BY <1>1, MeGood, CallFields DEF Starts
<1>3. PidFound(Solo) \in Pids \cup {None} /\ TableRead(Solo) \in PidTable
  BY Typed DEF PidFound, TableRead, worker, ThreadStates, TypeInv, TypeOK, ProcTypeOK
<1> DEFINE v == IF Me(Solo).svc = "php" THEN Me(Solo).ver ELSE TableRead(Solo).ver
           b == [pid |-> [TableRead(Solo).pid EXCEPT ![Me(Solo).svc] = PidFound(Solo)], ver |-> v]
<1>4. b \in PidTable
  BY <1>2, <1>3 DEF PidTable
<1>5. th' = [th EXCEPT ![Solo].pc = "write", ![Solo].pid = PidFound(Solo), ![Solo].buf = b]
  BY DEF WaitOk
<1>6. /\ b.pid = [TableRead(Solo).pid EXCEPT ![Me(Solo).svc] = PidFound(Solo)]
      /\ b.ver = IF Me(Solo).svc = "php" THEN Me(Solo).ver ELSE TableRead(Solo).ver
  OBVIOUS
<1> HIDE DEF b, v
<1>7. PICK r : r = [worker EXCEPT !.pc = "write", !.pid = PidFound(Solo), !.buf = b]
  OBVIOUS
<1>8. /\ r \in ThreadStates /\ r.todo = worker.todo /\ r.pc = "write"
      /\ r.snap = worker.snap /\ r.buf = b /\ r.pid = PidFound(Solo)
  BY <1>3, <1>4, <1>7, Typed DEF ThreadStates, PCs
<1>9. th' = [th EXCEPT ![Solo] = r]
  BY <1>5, <1>7 DEF worker
<1>10. Inside("write") /\ worker'.buf = b /\ worker'.pid = PidFound(Solo)
  BY <1>8, <1>9, Update DEF Inside
<1> QED
  BY <1>1, <1>2, <1>3, <1>6, <1>10

LEMMA SetVersionEffect ==
  ASSUME OneThread, TypeInv, SetVersion(Solo)
  PROVE  /\ ~Idle(Solo) /\ Me(Solo).op = "setver" /\ worker.pc = "begin"
         /\ UNCHANGED <<procVars, pidFile, gui, activeWeb, activePhp, events>>
         /\ Inside("write") /\ worker'.buf = [load_pids EXCEPT !.ver = Me(Solo).ver]
<1>1. /\ ~Idle(Solo) /\ Me(Solo).op = "setver" /\ worker.pc = "begin"
      /\ UNCHANGED <<procVars, pidFile, gui, activeWeb, activePhp, events>>
  BY DEF SetVersion, At, OnlyThreads, worker
<1> DEFINE b == [load_pids EXCEPT !.ver = Me(Solo).ver]
<1>2. b \in PidTable
  BY <1>1, MeGood, CallFields, Typed DEF PidTable
<1>3. th' = [th EXCEPT ![Solo].pc = "write", ![Solo].buf = b]
  BY DEF SetVersion
<1> HIDE DEF b
<1>4. PICK r : r = [worker EXCEPT !.pc = "write", !.buf = b]
  OBVIOUS
<1>5. /\ r \in ThreadStates /\ r.todo = worker.todo /\ r.pc = "write"
      /\ r.snap = worker.snap /\ r.buf = b
  BY <1>2, <1>4, Typed DEF ThreadStates, PCs
<1>6. th' = [th EXCEPT ![Solo] = r]
  BY <1>3, <1>4 DEF worker
<1>7. Inside("write") /\ worker'.buf = b
  BY <1>5, <1>6, Update DEF Inside
<1> QED
  BY <1>1, <1>7 DEF b

(* The calls that restart a running PHP, in front of q. *)
RestartList(v, q) == <<Call("stop", "php", None)>> \o (<<Call("php", "php", v)>> \o q)

LEMMA RestartEffect ==
  ASSUME OneThread, TypeInv, Restart(Solo)
  PROVE  /\ ~Idle(Solo) /\ Me(Solo).op = "restart" /\ worker.pc = "begin"
         /\ UNCHANGED <<procVars, pidFile, gui, activeWeb, activePhp, events>>
         /\ Me(Solo).ver \in Versions \cup {Active, None}
         /\ \E q \in Seq(GoodCalls) :
              /\ q = Rest(Solo) \/ (Running(load_pids, "php") /\ q = RestartList(Me(Solo).ver, Rest(Solo)))
              /\ Onward(q) /\ worker'.snap = KeptSnapshot(Solo, q)
<1>1. /\ ~Idle(Solo) /\ Me(Solo).op = "restart" /\ worker.pc = "begin"
      /\ UNCHANGED <<procVars, pidFile, gui, activeWeb, activePhp, events>>
  BY DEF Restart, At, OnlyThreads, worker
<1>2. Me(Solo).ver \in Versions \cup {Active, None} /\ Rest(Solo) \in Seq(GoodCalls)
  BY <1>1, MeGood, CallFields
<1>3. CASE ~Running(load_pids, "php")
  <2>1. Continue(Solo, <<>> \o Rest(Solo))
    BY <1>3 DEF Restart
  <2>2. <<>> \o Rest(Solo) = Rest(Solo)
    BY <1>2
  <2>3. Continue(Solo, Rest(Solo))
    BY <2>1, <2>2
  <2> QED
    BY <1>1, <1>2, <2>3, ContinueEffect
<1>4. CASE Running(load_pids, "php")
  <2> DEFINE c == Call("stop", "php", None)
             d == Call("php", "php", Me(Solo).ver)
  <2>1. c \in GoodCalls /\ d \in GoodCalls
    BY <1>2, GoodCall DEF Services
  <2>2. Continue(Solo, <<c, d>> \o Rest(Solo))
    BY <1>4 DEF Restart
  <2> HIDE DEF c, d
  <2>3. <<c, d>> \o Rest(Solo) = <<c>> \o (<<d>> \o Rest(Solo))
    BY <1>2, <2>1, TwoMore
  <2>4. <<c>> \o (<<d>> \o Rest(Solo)) \in Seq(GoodCalls)
    BY <1>2, <2>1, OneMore
  <2>5. Continue(Solo, <<c>> \o (<<d>> \o Rest(Solo)))
    BY <2>2, <2>3
  <2>6. <<c>> \o (<<d>> \o Rest(Solo)) = RestartList(Me(Solo).ver, Rest(Solo))
    BY DEF RestartList, c, d
  <2> QED
    BY <1>1, <1>2, <1>4, <2>4, <2>5, <2>6, ContinueEffect
<1> QED
  BY <1>3, <1>4

LEMMA FinishExitEffect ==
  ASSUME OneThread, TypeInv, FinishExit(Solo)
  PROVE  /\ ~Idle(Solo) /\ Me(Solo).op = "exit" /\ worker.pc = "begin" /\ gui' = "down"
         /\ UNCHANGED <<procVars, pidFile, activeWeb, activePhp, events>>
         /\ worker' = IdleThread
BY Typed DEF FinishExit, At, worker

(* What the buttons give the thread to do. *)
ExitList == StopEach \o <<Call("exit", None, None)>>

LEMMA ButtonCalls ==
  /\ \A s \in Services : <<Call("stop", s, None)>> \in Seq(GoodCalls)
  /\ \A s \in Services : <<Call("start", s, Active)>> \in Seq(GoodCalls)
  /\ \A w \in Web : <<Call("stop", OtherWeb(w), None), Call("start", w, Active)>> \in Seq(GoodCalls)
  /\ <<Call("start", "mysql", None), Call("start", Active, Active)>> \in Seq(GoodCalls)
  /\ StopEach \in Seq(GoodCalls) /\ ExitList \in Seq(GoodCalls)
  /\ \A v \in Versions : <<Call("setver", None, v), Call("restart", None, v)>> \in Seq(GoodCalls)
  /\ <<Call("restart", None, Active)>> \in Seq(GoodCalls)
<1>1. /\ \A s \in Services : Call("stop", s, None) \in GoodCalls
      /\ \A s \in Services : Call("start", s, Active) \in GoodCalls
      /\ Call("start", "mysql", None) \in GoodCalls /\ Call("start", Active, Active) \in GoodCalls
      /\ \A v \in Versions : Call("setver", None, v) \in GoodCalls
      /\ \A v \in Versions : Call("restart", None, v) \in GoodCalls
      /\ Call("restart", None, Active) \in GoodCalls /\ Call("exit", None, None) \in GoodCalls
  BY GoodCall DEF Services
<1>2. \A w \in Web : w \in Services /\ OtherWeb(w) \in Services
  BY DEF Web, Services, OtherWeb
<1>3. "nginx" \in Services /\ "apache" \in Services /\ "mysql" \in Services /\ "php" \in Services
  BY DEF Services, Web
<1>4. /\ Call("stop", "nginx", None) \in GoodCalls /\ Call("stop", "apache", None) \in GoodCalls
      /\ Call("stop", "mysql", None) \in GoodCalls /\ Call("stop", "php", None) \in GoodCalls
  BY <1>1, <1>3
<1>5. StopEach \in Seq(GoodCalls)
  BY <1>4 DEF StopEach
<1>6. ExitList \in Seq(GoodCalls)
  <2>1. <<Call("exit", None, None)>> \in Seq(GoodCalls)
    BY <1>1
  <2> QED
    BY <1>5, <2>1 DEF ExitList
<1>7. \A w \in Web : <<Call("stop", OtherWeb(w), None), Call("start", w, Active)>> \in Seq(GoodCalls)
  BY <1>1, <1>2
<1>8. \A v \in Versions : <<Call("setver", None, v), Call("restart", None, v)>> \in Seq(GoodCalls)
  BY <1>1
<1> QED
  BY <1>1, <1>5, <1>6, <1>7, <1>8

LEMMA ButtonEffect ==
  ASSUME OneThread, TypeInv, Button(Solo)
  PROVE  /\ Idle(Solo) /\ gui = "up" /\ worker.pc = "begin" /\ UNCHANGED <<procVars, pidFile>>
         /\ worker' \in ThreadStates /\ worker'.todo \in Seq(GoodCalls)
         /\ worker'.pc = "begin" /\ worker'.snap = worker.snap
         /\ \/ /\ UNCHANGED <<gui, activePhp>>
               /\ \/ \E s \in Services : worker'.todo = <<Call("stop", s, None)>>
                  \/ \E s \in Services : worker'.todo = <<Call("start", s, Active)>>
                  \/ \E w \in Web :
                       worker'.todo = <<Call("stop", OtherWeb(w), None), Call("start", w, Active)>>
                  \/ worker'.todo = <<Call("start", "mysql", None), Call("start", Active, Active)>>
                  \/ worker'.todo = StopEach
                  \/ worker'.todo = <<Call("restart", None, Active)>>
            \/ /\ gui' = gui /\ activePhp' \in Versions
               /\ worker'.todo = <<Call("setver", None, activePhp'), Call("restart", None, activePhp')>>
            \/ gui' = "exiting" /\ activePhp' = activePhp /\ worker'.todo = ExitList
<1>1. PICK request, q : Press(Solo, request, q)
  BY DEF Button, ToggleService, SwitchServer, StartAll, StopAll, ChangePhpVersion,
         ToggleExtension, RealExit
<1>2. Idle(Solo) /\ gui = "up" /\ worker.pc = "begin" /\ UNCHANGED <<procVars, pidFile>>
  BY <1>1 DEF Press, TypeInv
<1>3. ASSUME NEW qq \in Seq(GoodCalls), NEW req, Press(Solo, req, qq)
      PROVE  /\ worker' \in ThreadStates /\ worker'.todo = qq
             /\ worker'.pc = "begin" /\ worker'.snap = worker.snap
  <2>1. qq \in Seq(Calls)
    BY DEF GoodCalls
  <2>2. PICK r : r = [worker EXCEPT !.todo = qq]
    OBVIOUS
  <2>3. r \in ThreadStates /\ r.todo = qq /\ r.pc = "begin" /\ r.snap = worker.snap
    BY <1>2, <2>1, <2>2, Typed DEF ThreadStates
  <2>4. th' = [th EXCEPT ![Solo] = r]
    BY <1>3, <2>2 DEF Press, worker
  <2> QED
    BY <2>3, <2>4, Update
<1>4. ASSUME NEW s \in Services, ToggleService(Solo, s)
      PROVE  /\ UNCHANGED <<gui, activePhp>>
             /\ \/ Press(Solo, "toggle", <<Call("stop", s, None)>>)
                \/ Press(Solo, "toggle", <<Call("start", s, Active)>>)
  BY <1>4 DEF ToggleService
<1>5. CASE \E s \in Services : ToggleService(Solo, s)
  BY <1>2, <1>3, <1>4, <1>5, ButtonCalls
<1>6. CASE \E w \in Web : SwitchServer(Solo, w)
  BY <1>2, <1>3, <1>6, ButtonCalls DEF SwitchServer
<1>7. CASE StartAll(Solo)
  BY <1>2, <1>3, <1>7, ButtonCalls DEF StartAll
<1>8. CASE StopAll(Solo)
  BY <1>2, <1>3, <1>8, ButtonCalls DEF StopAll
<1>9. CASE \E v \in Versions : ChangePhpVersion(Solo, v)
  BY <1>2, <1>3, <1>9, ButtonCalls DEF ChangePhpVersion
<1>10. CASE ToggleExtension(Solo)
  BY <1>2, <1>3, <1>10, ButtonCalls DEF ToggleExtension
<1>11. CASE RealExit(Solo)
  BY <1>2, <1>3, <1>11, ButtonCalls DEF RealExit, ExitList
<1> QED
  BY <1>5, <1>6, <1>7, <1>8, <1>9, <1>10, <1>11 DEF Button

(* The steps that may happen. *)
LEMMA NextCases ==
  ASSUME OneThread, Faults \subseteq {"process"}, [Next]_vars
  PROVE  ThreadStep(Solo) \/ Button(Solo) \/ Launch \/ Environment \/ UNCHANGED vars
BY DEF OneThread, Next, AppCrash, SaveFails, LaunchUnsaved, Quiet

LEMMA EnvironmentEffect ==
  ASSUME Environment
  PROVE  UNCHANGED <<pidFile, th, gui, activeWeb, activePhp>>
BY DEF Environment, ServiceCrash, appVars

LEMMA SameWorker ==
  ASSUME th' = th
  PROVE  /\ worker' = worker /\ Me(Solo)' = Me(Solo) /\ Rest(Solo)' = Rest(Solo)
         /\ Idle(Solo)' = Idle(Solo)
BY DEF worker, Me, Rest, Idle

LEMMA SameTodo ==
  ASSUME worker'.todo = worker.todo
  PROVE  /\ Me(Solo)' = Me(Solo) /\ Rest(Solo)' = Rest(Solo) /\ Idle(Solo)' = Idle(Solo)
BY DEF worker, Me, Rest, Idle

LEMMA NewTodo ==
  ASSUME NEW c, NEW q, c \in GoodCalls, q \in Seq(GoodCalls), worker'.todo = <<c>> \o q
  PROVE  /\ Me(Solo)' = c /\ Rest(Solo)' = q /\ ~Idle(Solo)'
         /\ worker'.todo \in Seq(GoodCalls)
<1>1. <<c>> \o q # <<>> /\ Head(<<c>> \o q) = c /\ Tail(<<c>> \o q) = q /\ <<c>> \o q \in Seq(GoodCalls)
  BY OneMore
<1> QED
  BY <1>1 DEF worker, Me, Rest, Idle

LEMMA NextTypeInv ==
  ASSUME OneThread, Faults \subseteq {"process"}, TypeInv, [Next]_vars
  PROVE  TypeInv'
<1>0. TypeOK'
  BY NextType DEF TypeInv
<1>1. ASSUME worker'.todo \in Seq(GoodCalls), worker'.pc = "begin" PROVE TypeInv'
  BY <1>0, <1>1 DEF TypeInv
<1>2. ASSUME NEW pc, ~Idle(Solo), Inside(pc),
             \/ pc = "kill" /\ Me(Solo).op = "stop"
             \/ pc \in {"write", "flush"} /\ Me(Solo).op \in Starts \cup {"stop", "setver"}
      PROVE  TypeInv'
  <2>1. worker'.todo \in Seq(GoodCalls) /\ worker'.pc = pc /\ ~Idle(Solo)' /\ Me(Solo)' = Me(Solo)
    BY <1>2, SameTodo DEF Inside, TypeInv
  <2> QED
    BY <1>0, <1>2, <2>1 DEF TypeInv
<1>3. CASE StopCheck(Solo)
  BY <1>1, <1>2, <1>3, StopCheckEffect, MeGood DEF Onward
<1>4. CASE Kill(Solo)
  BY <1>2, <1>4, KillEffect
<1>5. CASE Write(Solo) \/ Flush(Solo)
  <2>1. CASE Write(Solo)
    BY <1>2, <2>1, SaveEffects DEF TypeInv
  <2>2. CASE Flush(Solo)
    BY <1>1, <2>2, SaveEffects, MeGood DEF Onward
  <2> QED
    BY <1>5, <2>1, <2>2
<1>6. CASE StartCheck(Solo)
  <2>1. Rest(Solo) \in Seq(GoodCalls) /\ Ver(Solo) \in Versions \cup {None}
    BY <1>6, StartCheckEffect, MeGood
  <2>2. PICK s \in Services :
          Onward(Rest(Solo)) \/ Onward(StartList(s, Ver(Solo), Rest(Solo)))
    BY <1>6, StartCheckEffect
  <2>3. StartList(s, Ver(Solo), Rest(Solo)) \in Seq(GoodCalls)
    BY <2>1, ListShape
  <2> QED
    BY <1>1, <2>1, <2>2, <2>3 DEF Onward
<1>7. CASE PhpCheck(Solo)
  <2>1. ASSUME NEW v \in Versions \cup {None}, NEW q \in Seq(GoodCalls)
        PROVE  <<Call("phpSpawn", "php", v)>> \o q \in Seq(GoodCalls)
    BY GoodCall, OneMore
  <2> QED
    BY <1>1, <1>7, <2>1, PhpCheckEffect, MeGood DEF Onward
<1>8. CASE Spawn(Solo)
  <2> DEFINE c == Call(Me(Solo).op, Me(Solo).svc, ChosenVersion(Solo))
  <2>1. /\ c \in GoodCalls /\ c.op \in Starts /\ worker'.todo = <<c>> \o Rest(Solo)
        /\ Rest(Solo) \in Seq(GoodCalls) /\ worker'.pc = "wait" /\ worker'.pid \in Pids
    BY <1>8, SpawnEffect, MeGood DEF Call
  <2> HIDE DEF c
  <2>2. Me(Solo)' = c /\ ~Idle(Solo)' /\ worker'.todo \in Seq(GoodCalls)
    BY <2>1, NewTodo
  <2> QED
    BY <1>0, <2>1, <2>2 DEF TypeInv
<1>9. CASE SpawnFails(Solo) \/ WaitTimeout(Solo)
  BY <1>1, <1>9, GiveUpEffects, MeGood DEF Onward
<1>10. CASE WaitOk(Solo)
  BY <1>2, <1>10, WaitOkEffect
<1>11. CASE SetVersion(Solo)
  BY <1>2, <1>11, SetVersionEffect
<1>12. CASE Restart(Solo)
  BY <1>1, <1>12, RestartEffect DEF Onward
<1>13. CASE FinishExit(Solo)
  <2>1. worker'.todo = <<>> /\ worker'.pc = "begin"
    BY <1>13, FinishExitEffect DEF IdleThread
  <2>2. <<>> \in Seq(GoodCalls)
    OBVIOUS
  <2> QED
    BY <1>1, <2>1, <2>2
<1>14. CASE Button(Solo)
  BY <1>1, <1>14, ButtonEffect
<1>15. CASE th' = th
  BY <1>0, <1>15, SameWorker DEF TypeInv
<1>16. CASE Launch \/ Environment \/ UNCHANGED vars
  BY <1>15, <1>16, EnvironmentEffect DEF Launch, LaunchWith, vars, appVars
<1> QED
  BY <1>3, <1>4, <1>5, <1>6, <1>7, <1>8, <1>9, <1>10, <1>11, <1>12, <1>13, <1>14, <1>16, NextCases
  DEF ThreadStep

LEMMA InitTypeInv == OneThread /\ Init => TypeInv
<1> SUFFICES ASSUME OneThread, Init PROVE TypeInv
  OBVIOUS
<1>1. worker = IdleThread
  BY DEF Init, worker, OneThread
<1>2. worker.todo = <<>> /\ worker.pc = "begin"
  BY <1>1 DEF IdleThread
<1> QED
  BY <1>2, InitType DEF TypeInv

-----------------------------------------------------------------------------
(* VersionDurable.  No call carries any version but the one the window      *)
(* shows, the table to be written carries it, and so does the snapshot of a *)
(* start as long as there is a spawn that will write it back.  Between the  *)
(* halves of a save the file is empty, and only the thread could see that.  *)

VerCalls == {c \in GoodCalls : /\ c.ver \in {None, Active, activePhp}
                               /\ c.op = "setver" => c.ver = activePhp}
NoSet    == {c \in VerCalls : c.op # "setver"}

Has(q, op) == \E i \in DOMAIN q : q[i].op = op

NoneDown == gui = "down" => Idle(Solo)

FileInv == pidFile.state = IF worker.pc = "flush" THEN "empty" ELSE "json"

FileVersion ==
  worker.pc # "flush" =>
    /\ pidFile.data.ver \in Versions
    /\ gui # "down" /\ (Idle(Solo) \/ Me(Solo).op # "setver") => pidFile.data.ver = activePhp

CallVersions == ~Idle(Solo) => Me(Solo) \in VerCalls /\ Rest(Solo) \in Seq(NoSet)

CarriedVersions ==
  /\ worker.pc \in {"write", "flush"} => worker.buf.ver = activePhp
  /\ Has(worker.todo, "spawn") => worker.snap.ver = activePhp
  /\ worker.pc = "wait" /\ Me(Solo).svc = "php" => Me(Solo).ver = activePhp

VerInv == NoneDown /\ FileInv /\ FileVersion /\ CallVersions /\ CarriedVersions

LEMMA HasParts ==
  ASSUME NEW S, NEW op
  PROVE  /\ \A q \in Seq(S) : q # <<>> =>
              /\ Has(Tail(q), op) => Has(q, op)
              /\ Head(q).op = op => Has(q, op)
         /\ \A c \in S, q \in Seq(S) : Has(<<c>> \o q, op) => c.op = op \/ Has(q, op)
         /\ ~Has(<<>>, op)
<1>1. ASSUME NEW q \in Seq(S), q # <<>>
      PROVE  /\ Has(Tail(q), op) => Has(q, op)
             /\ Head(q).op = op => Has(q, op)
  BY <1>1, FirstCall DEF Has
<1>2. ASSUME NEW c \in S, NEW q \in Seq(S), Has(<<c>> \o q, op)
      PROVE  c.op = op \/ Has(q, op)
  BY <1>2, OneMore DEF Has
<1>3. ~Has(<<>>, op)
  BY DEF Has
<1> QED
  BY <1>1, <1>2, <1>3

LEMMA VersionNames ==
  ASSUME TypeInv
  PROVE  activePhp \in Versions /\ activePhp # None /\ activePhp # Active /\ Active # None
BY PidFileAssumption, ServiceControlAssumption DEF TypeInv, TypeOK

(* The table as the calls read it. *)
LEMMA TableVersion ==
  ASSUME OneThread, TypeInv, VerInv, worker.pc # "flush"
  PROVE  /\ load_pids = pidFile.data /\ pidFile.state = "json" /\ load_pids.ver \in Versions
         /\ ~Idle(Solo) => gui # "down"
         /\ ~Idle(Solo) /\ Me(Solo).op # "setver" =>
              load_pids.ver = activePhp /\ get_current_php_version = activePhp
<1>1. load_pids = pidFile.data /\ pidFile.state = "json" /\ load_pids.ver \in Versions
  BY DEF VerInv, FileInv, FileVersion, load_pids
<1>2. ~Idle(Solo) => gui # "down"
  BY DEF VerInv, NoneDown
<1>3. ~Idle(Solo) /\ Me(Solo).op # "setver" => load_pids.ver = activePhp
  BY <1>1, <1>2 DEF VerInv, FileVersion
<1> QED
  BY <1>1, <1>2, <1>3, PidFileAssumption DEF get_current_php_version, VersionIn

(* A call is over, or is replaced by others. *)
LEMMA VerOnward ==
  ASSUME TypeInv, VerInv, ~Idle(Solo), NEW q \in Seq(NoSet), Onward(q),
         Has(q, "spawn") => worker'.snap.ver = activePhp,
         UNCHANGED <<gui, activePhp>>,
         pidFile'.state = "json" /\ pidFile'.data.ver = activePhp
  PROVE  VerInv'
<1>1. worker'.todo = q /\ worker'.pc = "begin"
  BY DEF Onward
<1>2. NoneDown' /\ FileInv'
  BY <1>1 DEF VerInv, NoneDown, FileInv
<1>3. FileVersion'
  BY VersionNames DEF FileVersion
<1>4. CallVersions'
  <2>1. VerCalls' = VerCalls /\ NoSet' = NoSet
    BY DEF VerCalls, NoSet
  <2>2. q # <<>> => Head(q) \in NoSet /\ Tail(q) \in Seq(NoSet)
    BY FirstCall
  <2>3. NoSet \subseteq VerCalls
    BY DEF NoSet
  <2> QED
    BY <1>1, <2>1, <2>2, <2>3 DEF CallVersions, Me, Rest, Idle, worker
<1>5. CarriedVersions'
  BY <1>1 DEF CarriedVersions
<1> QED
  BY <1>2, <1>3, <1>4, <1>5 DEF VerInv

(* A step inside the call. *)
LEMMA VerInside ==
  ASSUME TypeInv, VerInv, ~Idle(Solo), NEW pc, pc # "wait", Inside(pc),
         UNCHANGED <<gui, activePhp>>,
         pc \in {"write", "flush"} => worker'.buf.ver = activePhp,
         \/ pc = "flush" /\ pidFile'.state = "empty"
         \/ pc # "flush" /\ worker.pc # "flush" /\ pidFile' = pidFile
  PROVE  VerInv'
<1>1. /\ worker'.todo = worker.todo /\ worker'.pc = pc /\ worker'.snap = worker.snap
      /\ Me(Solo)' = Me(Solo) /\ Rest(Solo)' = Rest(Solo) /\ Idle(Solo)' = Idle(Solo)
  BY SameTodo DEF Inside
<1>2. NoneDown' /\ FileInv'
  BY <1>1 DEF VerInv, NoneDown, FileInv
<1>3. FileVersion'
  BY <1>1 DEF VerInv, FileVersion
<1>4. VerCalls' = VerCalls /\ NoSet' = NoSet
  BY DEF VerCalls, NoSet
<1>5. CallVersions'
  BY <1>1, <1>4 DEF VerInv, CallVersions
<1>6. CarriedVersions'
  BY <1>1 DEF VerInv, CarriedVersions
<1> QED
  BY <1>2, <1>3, <1>5, <1>6 DEF VerInv

(* The calls that are left. *)
LEMMA RestVersions ==
  ASSUME TypeInv, VerInv, ~Idle(Solo)
  PROVE  /\ Me(Solo) \in VerCalls /\ Rest(Solo) \in Seq(NoSet) /\ NoSet \subseteq GoodCalls
         /\ Has(Rest(Solo), "spawn") => worker.snap.ver = activePhp
         /\ Me(Solo).op = "spawn" => worker.snap.ver = activePhp
         /\ Ver(Solo) \in {None, activePhp}
<1>1. Me(Solo) \in VerCalls /\ Rest(Solo) \in Seq(NoSet) /\ NoSet \subseteq GoodCalls
  BY DEF VerInv, CallVersions, NoSet, VerCalls
<1>2. worker.todo \in Seq(GoodCalls) /\ worker.todo # <<>>
  BY DEF TypeInv, Idle, worker
<1>3. Has(Rest(Solo), "spawn") \/ Me(Solo).op = "spawn" => Has(worker.todo, "spawn")
  BY <1>2, HasParts DEF Me, Rest, worker
<1>4. Ver(Solo) \in {None, activePhp}
  BY <1>1, VersionNames DEF Ver, VerCalls
<1> QED
  BY <1>1, <1>3, <1>4 DEF VerInv, CarriedVersions

LEMMA KeptVersion ==
  ASSUME TypeInv, VerInv, ~Idle(Solo), NEW q, Has(q, "spawn"),
         Has(q, "spawn") => Has(Rest(Solo), "spawn")
  PROVE  KeptSnapshot(Solo, q).ver = activePhp
<1>1. KeptSnapshot(Solo, q) = worker.snap
  BY DEF KeptSnapshot, Has, worker
<1> QED
  BY <1>1, RestVersions

LEMMA VerReturn ==
  ASSUME OneThread, TypeInv, VerInv, ~Idle(Solo), worker.pc # "flush", Me(Solo).op # "setver",
         Onward(Rest(Solo)), worker'.snap = KeptSnapshot(Solo, Rest(Solo)),
         UNCHANGED <<pidFile, gui, activePhp>>
  PROVE  VerInv'
<1>1. pidFile.state = "json" /\ pidFile.data.ver = activePhp
  BY TableVersion
<1>2. Rest(Solo) \in Seq(NoSet)
  BY RestVersions
<1>3. Has(Rest(Solo), "spawn") => worker'.snap.ver = activePhp
  BY KeptVersion
<1> QED
  BY <1>1, <1>2, <1>3, VerOnward

LEMMA GoodVersions ==
  ASSUME TypeInv, NEW c \in GoodCalls, c.op # "setver", c.ver \in {None, Active, activePhp}
  PROVE  c \in NoSet
BY DEF NoSet, VerCalls

LEMMA VerStopSave ==
  ASSUME OneThread, TypeInv, VerInv, StopCheck(Solo) \/ Kill(Solo) \/ Write(Solo) \/ Flush(Solo)
  PROVE  VerInv'
<1>1. CASE StopCheck(Solo)
  BY <1>1, StopCheckEffect, VerReturn, VerInside
<1>2. CASE Kill(Solo)
  <2>1. /\ ~Idle(Solo) /\ Me(Solo).op = "stop" /\ worker.pc = "kill" /\ Inside("write")
        /\ UNCHANGED <<pidFile, gui, activePhp>> /\ Me(Solo).svc \in Services
        /\ worker'.buf = [load_pids EXCEPT !.pid[Me(Solo).svc] = None]
    BY <1>2, KillEffect
  <2>2. load_pids \in PidTable /\ load_pids.ver = activePhp
    BY <2>1, Typed, TableVersion
  <2>3. worker'.buf.ver = activePhp
    BY <2>1, <2>2 DEF PidTable
  <2> QED
    BY <2>1, <2>3, VerInside
<1>3. CASE Write(Solo)
  <2>1. worker.buf.ver = activePhp
    BY <1>3, SaveEffects DEF VerInv, CarriedVersions
  <2> QED
    BY <1>3, <2>1, SaveEffects, VerInside DEF OpenForWrite, EmptyFile
<1>4. CASE Flush(Solo)
  <2>1. /\ ~Idle(Solo) /\ worker.pc = "flush" /\ WriteTable(worker.buf)
        /\ UNCHANGED <<gui, activePhp>>
        /\ Onward(Rest(Solo)) /\ worker'.snap = KeptSnapshot(Solo, Rest(Solo))
    BY <1>4, SaveEffects
  <2>2. pidFile'.state = "json" /\ pidFile'.data.ver = activePhp
    BY <2>1 DEF WriteTable, VerInv, FileInv, CarriedVersions
  <2>3. Has(Rest(Solo), "spawn") => worker'.snap.ver = activePhp
    BY <2>1, KeptVersion
  <2> QED
    BY <2>1, <2>2, <2>3, RestVersions, VerOnward
<1> QED
  BY <1>1, <1>2, <1>3, <1>4

LEMMA VerStarts ==
  ASSUME OneThread, TypeInv, VerInv, StartCheck(Solo) \/ PhpCheck(Solo) \/ Restart(Solo)
  PROVE  VerInv'
<1>1. CASE StartCheck(Solo)
  <2> DEFINE v == Ver(Solo)
  <2>1. /\ ~Idle(Solo) /\ Me(Solo).op = "start" /\ worker.pc = "begin"
        /\ UNCHANGED <<pidFile, gui, activePhp>> /\ v \in Versions \cup {None}
    BY <1>1, StartCheckEffect
  <2>2. pidFile.state = "json" /\ pidFile.data.ver = activePhp /\ load_pids.ver = activePhp
    BY <2>1, TableVersion
  <2>3. v \in {None, activePhp} /\ Rest(Solo) \in Seq(NoSet) /\ Rest(Solo) \in Seq(GoodCalls)
    BY <2>1, RestVersions, MeGood
  <2>4. CASE Onward(Rest(Solo)) /\ worker'.snap = KeptSnapshot(Solo, Rest(Solo))
    BY <2>1, <2>4, VerReturn
  <2>5. ASSUME NEW s \in Services, Onward(StartList(s, v, Rest(Solo))), worker'.snap = load_pids
        PROVE  VerInv'
    <3>1. /\ Call("spawn", s, v) \in NoSet /\ Call("php", "php", v) \in NoSet
      <4>1. Call("spawn", s, v) \in GoodCalls /\ Call("php", "php", v) \in GoodCalls
        BY <2>1, GoodCall
      <4> QED
        BY <2>3, <4>1, GoodVersions DEF Call
    <3>2. ASSUME NEW w \in Services PROVE Call("stop", w, None) \in NoSet
      <4>1. Call("stop", w, None) \in GoodCalls
        BY GoodCall
      <4> QED
        BY <4>1, GoodVersions DEF Call
    <3>3. OtherWeb(s) \in Services
      BY DEF OtherWeb, Services, Web
    <3>4. <<Call("spawn", s, v)>> \o Rest(Solo) \in Seq(NoSet)
      BY <2>3, <3>1, OneMore
    <3>5. <<Call("php", "php", v)>> \o (<<Call("spawn", s, v)>> \o Rest(Solo)) \in Seq(NoSet)
      BY <3>1, <3>4, OneMore
    <3>6. <<Call("stop", OtherWeb(s), None)>> \o
            (<<Call("php", "php", v)>> \o (<<Call("spawn", s, v)>> \o Rest(Solo))) \in Seq(NoSet)
      BY <3>2, <3>3, <3>5, OneMore
    <3>7. StartList(s, v, Rest(Solo)) \in Seq(NoSet)
      BY <2>1, <2>3, <3>4, <3>6, ListShape
    <3> QED
      BY <2>1, <2>2, <2>5, <3>7, VerOnward
  <2> QED
    BY <1>1, <2>4, <2>5, StartCheckEffect
<1>2. CASE PhpCheck(Solo)
  <2> DEFINE c == Call("phpSpawn", "php", Ver(Solo))
  <2>1. /\ ~Idle(Solo) /\ Me(Solo).op = "php" /\ worker.pc = "begin"
        /\ UNCHANGED <<pidFile, gui, activePhp>> /\ Ver(Solo) \in Versions \cup {None}
        /\ \/ Onward(Rest(Solo)) /\ worker'.snap = KeptSnapshot(Solo, Rest(Solo))
           \/ Onward(<<c>> \o Rest(Solo)) /\ worker'.snap = worker.snap
    BY <1>2, PhpCheckEffect
  <2>2. Ver(Solo) \in {None, activePhp} /\ Rest(Solo) \in Seq(NoSet)
    BY <2>1, RestVersions
  <2>3. c \in NoSet /\ c.op = "phpSpawn"
    <3>1. c \in GoodCalls /\ c.op = "phpSpawn" /\ c.ver = Ver(Solo)
      BY <2>1, GoodCall DEF Call
    <3> HIDE DEF c
    <3> QED
      BY <2>2, <3>1, GoodVersions
  <2> HIDE DEF c
  <2>4. <<c>> \o Rest(Solo) \in Seq(NoSet)
    BY <2>2, <2>3, OneMore
  <2>5. Has(<<c>> \o Rest(Solo), "spawn") => worker.snap.ver = activePhp
    <3>1. Has(<<c>> \o Rest(Solo), "spawn") => Has(Rest(Solo), "spawn")
      BY <2>2, <2>3, HasParts
    <3> QED
      BY <2>1, <3>1, RestVersions
  <2>6. pidFile.state = "json" /\ pidFile.data.ver = activePhp
    BY <2>1, TableVersion
  <2> QED
    BY <2>1, <2>4, <2>5, <2>6, VerReturn, VerOnward
<1>3. CASE Restart(Solo)
  <2>1. /\ ~Idle(Solo) /\ Me(Solo).op = "restart" /\ worker.pc = "begin"
        /\ UNCHANGED <<pidFile, gui, activePhp>> /\ Me(Solo).ver \in Versions \cup {Active, None}
    BY <1>3, RestartEffect
  <2>2. PICK q : /\ q = Rest(Solo) \/ q = RestartList(Me(Solo).ver, Rest(Solo))
                 /\ Onward(q) /\ worker'.snap = KeptSnapshot(Solo, q)
    BY <1>3, RestartEffect
  <2>3. Me(Solo) \in VerCalls /\ Rest(Solo) \in Seq(NoSet)
    BY <2>1, RestVersions
  <2> DEFINE c == Call("stop", "php", None)
             d == Call("php", "php", Me(Solo).ver)
             r == <<d>> \o Rest(Solo)
  <2>4. c \in NoSet /\ d \in NoSet /\ c.op = "stop" /\ d.op = "php"
    <3>1. c \in GoodCalls /\ d \in GoodCalls
      BY <2>1, GoodCall DEF Services
    <3> QED
      BY <2>3, <3>1, GoodVersions DEF Call, VerCalls
  <2>5. RestartList(Me(Solo).ver, Rest(Solo)) = <<c>> \o r
    BY DEF RestartList
  <2> HIDE DEF c, d
  <2>6. r \in Seq(NoSet) /\ (Has(r, "spawn") => Has(Rest(Solo), "spawn"))
    BY <2>3, <2>4, OneMore, HasParts
  <2> HIDE DEF r
  <2>7. <<c>> \o r \in Seq(NoSet) /\ (Has(<<c>> \o r, "spawn") => Has(Rest(Solo), "spawn"))
    BY <2>4, <2>6, OneMore, HasParts
  <2>8. q \in Seq(NoSet) /\ (Has(q, "spawn") => Has(Rest(Solo), "spawn"))
    BY <2>2, <2>3, <2>5, <2>7
  <2>9. Has(q, "spawn") => worker'.snap.ver = activePhp
    BY <2>1, <2>2, <2>8, KeptVersion
  <2>10. pidFile.state = "json" /\ pidFile.data.ver = activePhp
    BY <2>1, TableVersion
  <2> QED
    BY <2>1, <2>2, <2>8, <2>9, <2>10, VerOnward
<1> QED
  BY <1>1, <1>2, <1>3

LEMMA VerSpawns ==
  ASSUME OneThread, TypeInv, VerInv,
         Spawn(Solo) \/ SpawnFails(Solo) \/ WaitOk(Solo) \/ WaitTimeout(Solo)
  PROVE  VerInv'
<1>1. CASE Spawn(Solo)
  <2> DEFINE c == Call(Me(Solo).op, Me(Solo).svc, ChosenVersion(Solo))
  <2>1. /\ ~Idle(Solo) /\ Me(Solo).op \in Starts /\ worker.pc = "begin"
        /\ UNCHANGED <<pidFile, gui, activePhp>> /\ worker'.pc = "wait"
        /\ worker'.snap = worker.snap /\ worker'.todo = <<c>> \o Rest(Solo) /\ c \in GoodCalls
    BY <1>1, SpawnEffect
  <2>2. /\ Me(Solo) \in VerCalls /\ Rest(Solo) \in Seq(NoSet) /\ Rest(Solo) \in Seq(GoodCalls)
        /\ NoSet \subseteq GoodCalls
    BY <2>1, RestVersions, MeGood
  <2>3. get_current_php_version = activePhp
    BY <2>1, TableVersion DEF Starts
  <2>4. /\ c.op = Me(Solo).op /\ c.svc = Me(Solo).svc
        /\ c.ver \in {None, activePhp} /\ (c.svc = "php" => c.ver = activePhp)
    <3>1. Me(Solo).ver \in {None, activePhp}
      <4>1. Me(Solo).ver # Active
        BY <2>1, <2>2, CallFields, VersionNames, ServiceControlAssumption DEF VerCalls, Starts
      <4> QED
        BY <2>2, <4>1 DEF VerCalls
    <3> QED
      BY <2>3, <3>1 DEF Call, ChosenVersion
  <2> HIDE DEF c
  <2>5. Me(Solo)' = c /\ Rest(Solo)' = Rest(Solo) /\ ~Idle(Solo)'
    BY <2>1, <2>2, NewTodo
  <2>6. Has(worker'.todo, "spawn") => worker.snap.ver = activePhp
    <3>1. Has(<<c>> \o Rest(Solo), "spawn") => c.op = "spawn" \/ Has(Rest(Solo), "spawn")
      BY <2>1, <2>2, HasParts
    <3> QED
      BY <2>1, <2>4, <3>1, RestVersions
  <2>7. NoneDown' /\ FileInv'
    BY <2>1 DEF VerInv, NoneDown, FileInv
  <2>8. FileVersion'
    BY <2>1, <2>4, <2>5 DEF VerInv, FileVersion, Starts
  <2>9. CallVersions'
    <3>1. c \in VerCalls
      BY <2>1, <2>4 DEF VerCalls, Starts
    <3>2. VerCalls' = VerCalls /\ NoSet' = NoSet
      BY <2>1 DEF VerCalls, NoSet
    <3> QED
      BY <2>2, <2>5, <3>1, <3>2 DEF CallVersions
  <2>10. CarriedVersions'
    BY <2>1, <2>4, <2>5, <2>6 DEF CarriedVersions
  <2> QED
    BY <2>7, <2>8, <2>9, <2>10 DEF VerInv
<1>2. CASE SpawnFails(Solo) \/ WaitTimeout(Solo)
  BY <1>2, GiveUpEffects, VerReturn DEF Starts
<1>3. CASE WaitOk(Solo)
  <2>1. /\ ~Idle(Solo) /\ Me(Solo).op \in Starts /\ worker.pc = "wait"
        /\ UNCHANGED <<pidFile, gui, activePhp>> /\ Inside("write")
        /\ worker'.buf.ver = IF Me(Solo).svc = "php" THEN Me(Solo).ver ELSE TableRead(Solo).ver
    BY <1>3, WaitOkEffect
  <2>2. Me(Solo).svc # "php" => Me(Solo).op = "spawn"
    BY <2>1, MeGood, CallFields DEF Starts
  <2>3. worker'.buf.ver = activePhp
    BY <2>1, <2>2, RestVersions DEF TableRead, worker, VerInv, CarriedVersions
  <2> QED
    BY <2>1, <2>3, VerInside
<1> QED
  BY <1>1, <1>2, <1>3

LEMMA VerChange ==
  ASSUME OneThread, TypeInv, VerInv, SetVersion(Solo)
  PROVE  VerInv'
<1>1. /\ ~Idle(Solo) /\ Me(Solo).op = "setver" /\ worker.pc = "begin" /\ Inside("write")
      /\ UNCHANGED <<pidFile, gui, activePhp>>
      /\ worker'.buf = [load_pids EXCEPT !.ver = Me(Solo).ver]
  BY SetVersionEffect
<1>2. Me(Solo).ver = activePhp
  BY <1>1, RestVersions DEF VerCalls
<1>3. worker'.buf.ver = activePhp
  BY <1>1, <1>2, Typed DEF PidTable
<1> QED
  BY <1>1, <1>3, VerInside

LEMMA VerIdle ==
  ASSUME TypeInv, VerInv, worker'.todo = <<>>, worker'.pc = "begin",
         pidFile'.state = "json", pidFile'.data.ver \in Versions,
         gui' # "down" => pidFile'.data.ver = activePhp'
  PROVE  VerInv'
<1>1. Idle(Solo)'
  BY DEF Idle, worker
<1>2. ~Has(worker'.todo, "spawn")
  BY DEF Has
<1> QED
  BY <1>1, <1>2 DEF VerInv, NoneDown, FileInv, FileVersion, CallVersions, CarriedVersions

LEMMA VerSession ==
  ASSUME OneThread, TypeInv, VerInv, FinishExit(Solo) \/ Launch
  PROVE  VerInv'
<1>1. CASE FinishExit(Solo)
  <2>1. worker'.todo = <<>> /\ worker'.pc = "begin" /\ gui' = "down" /\ pidFile' = pidFile
        /\ worker.pc = "begin"
    BY <1>1, FinishExitEffect DEF IdleThread
  <2> QED
    BY <2>1, TableVersion, VerIdle
<1>2. CASE Launch
  <2>1. Idle(Solo) /\ worker.pc = "begin" /\ worker.todo = <<>>
    BY <1>2 DEF Launch, LaunchWith, VerInv, NoneDown, TypeInv, Idle, worker
  <2>2. worker' = worker
    BY <1>2, SameWorker DEF Launch, LaunchWith
  <2>3. load_pids = pidFile.data /\ load_pids.ver \in Versions /\ pidFile.state = "json"
        /\ load_pids \in PidTable
    BY <2>1, TableVersion, Typed
  <2>5. Cleaned(load_pids).ver = load_pids.ver
    BY <2>3 DEF Cleaned, PidTable
  <2>4. activePhp' = load_pids.ver
    BY <1>2, <2>3, <2>5, PidFileAssumption DEF Launch, LaunchWith, VersionIn
  <2>6. pidFile'.state = "json" /\ pidFile'.data.ver = load_pids.ver
    <3>1. pidFile' = [state |-> "json", data |-> Cleaned(load_pids)] \/ pidFile' = pidFile
      BY <1>2 DEF Launch, LaunchWith
    <3> QED
      BY <2>3, <2>5, <3>1
  <2> QED
    BY <2>1, <2>2, <2>3, <2>4, <2>6, VerIdle
<1> QED
  BY <1>1, <1>2

LEMMA StopEachNoSet == TypeInv => StopEach \in Seq(NoSet) /\ ExitList \in Seq(NoSet)
<1> SUFFICES ASSUME TypeInv PROVE StopEach \in Seq(NoSet) /\ ExitList \in Seq(NoSet)
  OBVIOUS
<1>1. ASSUME NEW s \in Services PROVE Call("stop", s, None) \in NoSet
  <2>1. Call("stop", s, None) \in GoodCalls
    BY GoodCall
  <2> QED
    BY <2>1, GoodVersions DEF Call
<1>2. Call("exit", None, None) \in NoSet
  <2>1. Call("exit", None, None) \in GoodCalls
    BY GoodCall
  <2> QED
    BY <2>1, GoodVersions DEF Call
<1>3. /\ Call("stop", "nginx", None) \in NoSet /\ Call("stop", "apache", None) \in NoSet
      /\ Call("stop", "mysql", None) \in NoSet /\ Call("stop", "php", None) \in NoSet
  BY <1>1 DEF Services, Web
<1>4. StopEach \in Seq(NoSet)
  BY <1>3 DEF StopEach
<1>5. <<Call("exit", None, None)>> \in Seq(NoSet)
  BY <1>2
<1> QED
  BY <1>4, <1>5 DEF ExitList

(* Calls that spawn nothing. *)
Plain(q) == \A i \in DOMAIN q : q[i].op \notin Starts

LEMMA ButtonPlain ==
  ASSUME OneThread, TypeInv, Button(Solo)
  PROVE  Plain(worker'.todo) /\ ~Has(worker'.todo, "spawn")
<1>3. Plain(StopEach)
  BY DEF Plain, StopEach, Call, Starts
<1>4. \A op, svc, ver : op \notin Starts => Plain(<<Call(op, svc, ver)>>)
  BY DEF Plain, Call
<1>5. Plain(ExitList)
  <2> DEFINE e == <<Call("exit", None, None)>>
  <2>1. Plain(e) /\ e \in Seq(GoodCalls) /\ StopEach \in Seq(GoodCalls)
    BY <1>4, GoodCall, ButtonCalls DEF Starts
  <2>2. ExitList = StopEach \o e
    BY DEF ExitList
  <2> HIDE DEF e
  <2>3. \A i \in DOMAIN (StopEach \o e) :
          \/ i \in DOMAIN StopEach /\ (StopEach \o e)[i] = StopEach[i]
          \/ i - Len(StopEach) \in DOMAIN e /\ (StopEach \o e)[i] = e[i - Len(StopEach)]
    BY <2>1
  <2> QED
    BY <1>3, <2>1, <2>2, <2>3 DEF Plain
<1>7. \A op, svc, ver, op2, svc2, ver2 : op \notin Starts /\ op2 \notin Starts =>
        Plain(<<Call(op, svc, ver), Call(op2, svc2, ver2)>>)
  BY DEF Plain, Call
<1>8. "stop" \notin Starts /\ "start" \notin Starts /\ "restart" \notin Starts /\ "setver" \notin Starts
  BY DEF Starts
<1>9. Plain(worker'.todo)
  BY <1>3, <1>4, <1>5, <1>7, <1>8, ButtonEffect
<1> QED
  BY <1>9 DEF Plain, Has, Starts

(* The first and the later calls of a pressed button. *)
LEMMA VerPressed ==
  ASSUME TypeInv, VerInv, Idle(Solo), gui # "down", worker.pc = "begin",
         worker'.pc = "begin", gui' # "down", pidFile' = pidFile, ~Has(worker'.todo, "spawn"),
         CallVersions', activePhp' = activePhp \/ (~Idle(Solo)' /\ Me(Solo)'.op = "setver")
  PROVE  VerInv'
BY DEF VerInv, NoneDown, FileInv, FileVersion, CarriedVersions

LEMMA VerButton ==
  ASSUME OneThread, TypeInv, VerInv, Button(Solo)
  PROVE  VerInv'
<1>1. /\ Idle(Solo) /\ gui = "up" /\ worker.pc = "begin" /\ UNCHANGED <<procVars, pidFile>>
      /\ worker'.pc = "begin" /\ gui' # "down" /\ worker'.todo \in Seq(GoodCalls)
  BY ButtonEffect
<1>2. pidFile.state = "json" /\ pidFile.data.ver = activePhp /\ pidFile.data.ver \in Versions
  BY <1>1 DEF VerInv, FileInv, FileVersion
<1>3. ASSUME NEW s \in Services PROVE Call("stop", s, None) \in NoSet
  <2>1. Call("stop", s, None) \in GoodCalls
    BY GoodCall
  <2> QED
    BY <2>1, GoodVersions DEF Call
<1>4. ASSUME NEW s \in Services \cup {Active}, NEW v \in {None, Active}
      PROVE  Call("start", s, v) \in NoSet
  <2>1. Call("start", s, v) \in GoodCalls
    BY GoodCall
  <2> QED
    BY <2>1, GoodVersions DEF Call
<1>5. Call("restart", None, Active) \in NoSet
  <2>1. Call("restart", None, Active) \in GoodCalls
    BY GoodCall
  <2> QED
    BY <2>1, GoodVersions DEF Call
<1>6. ~Has(worker'.todo, "spawn")
  BY ButtonPlain
<1>7. ASSUME activePhp' = activePhp, worker'.todo \in Seq(NoSet) PROVE VerInv'
  <2>1. worker'.todo # <<>> => Head(worker'.todo) \in NoSet /\ Tail(worker'.todo) \in Seq(NoSet)
    BY <1>7, FirstCall
  <2>2. VerCalls' = VerCalls /\ NoSet' = NoSet
    BY <1>7 DEF VerCalls, NoSet
  <2>3. CallVersions'
    BY <2>1, <2>2 DEF CallVersions, Me, Rest, Idle, worker, NoSet
  <2> QED
    BY <1>1, <1>2, <1>6, <1>7, <2>3, VerPressed
<1>8. CASE activePhp' \in Versions /\ worker'.todo =
             <<Call("setver", None, activePhp'), Call("restart", None, activePhp')>>
  <2> DEFINE c == Call("setver", None, activePhp')
             d == Call("restart", None, activePhp')
  <2>1. c \in GoodCalls /\ d \in GoodCalls
    BY <1>8, GoodCall
  <2>2. c \in VerCalls' /\ d \in NoSet' /\ c.op = "setver"
    BY <2>1 DEF Call, VerCalls, NoSet
  <2>3. worker'.todo = <<c, d>>
    BY <1>8
  <2> HIDE DEF c, d
  <2>4. Me(Solo)' = c /\ Rest(Solo)' = <<d>> /\ ~Idle(Solo)'
    BY <2>3 DEF Me, Rest, Idle, worker
  <2>5. CallVersions'
    BY <2>2, <2>4 DEF CallVersions
  <2> QED
    BY <1>1, <1>6, <2>2, <2>4, <2>5, VerPressed
<1>9. CASE activePhp' = activePhp /\ \E s \in Services : worker'.todo = <<Call("stop", s, None)>>
  BY <1>3, <1>7, <1>9
<1>10. CASE activePhp' = activePhp /\ \E s \in Services : worker'.todo = <<Call("start", s, Active)>>
  BY <1>4, <1>7, <1>10
<1>11. CASE /\ activePhp' = activePhp
            /\ \E w \in Web :
                 worker'.todo = <<Call("stop", OtherWeb(w), None), Call("start", w, Active)>>
  <2>1. \A w \in Web : w \in Services /\ OtherWeb(w) \in Services
    BY DEF Web, Services, OtherWeb
  <2> QED
    BY <1>3, <1>4, <1>7, <1>11, <2>1
<1>12. CASE /\ activePhp' = activePhp
            /\ worker'.todo = <<Call("start", "mysql", None), Call("start", Active, Active)>>
  <2>1. Call("start", "mysql", None) \in NoSet /\ Call("start", Active, Active) \in NoSet
    BY <1>4 DEF Services
  <2> QED
    BY <1>7, <1>12, <2>1
<1>13. CASE activePhp' = activePhp /\ (worker'.todo = StopEach \/ worker'.todo = ExitList)
  BY <1>7, <1>13, StopEachNoSet
<1>14. CASE activePhp' = activePhp /\ worker'.todo = <<Call("restart", None, Active)>>
  BY <1>5, <1>7, <1>14
<1> QED
  BY <1>8, <1>9, <1>10, <1>11, <1>12, <1>13, <1>14, ButtonEffect

LEMMA NextVersion ==
  ASSUME OneThread, Faults \subseteq {"process"}, TypeInv, VerInv, [Next]_vars
  PROVE  VerInv'
<1>1. CASE UNCHANGED <<pidFile, th, gui, activePhp>>
  <2>1. worker' = worker /\ Me(Solo)' = Me(Solo) /\ Rest(Solo)' = Rest(Solo)
        /\ Idle(Solo)' = Idle(Solo) /\ VerCalls' = VerCalls /\ NoSet' = NoSet
    BY <1>1, SameWorker DEF VerCalls, NoSet
  <2> QED
    BY <1>1, <2>1 DEF VerInv, NoneDown, FileInv, FileVersion, CallVersions, CarriedVersions
<1>2. CASE Environment \/ UNCHANGED vars
  BY <1>1, <1>2, EnvironmentEffect DEF vars, appVars
<1>3. CASE Launch \/ Button(Solo)
  BY <1>3, VerSession, VerButton
<1>4. CASE ThreadStep(Solo)
  BY <1>4, VerStopSave, VerStarts, VerSpawns, VerChange, VerSession DEF ThreadStep
<1> QED
  BY <1>2, <1>3, <1>4, NextCases

LEMMA InitVersion == OneThread /\ Init => VerInv
<1> SUFFICES ASSUME OneThread, Init PROVE VerInv
  OBVIOUS
<1>1. worker = IdleThread
  BY DEF Init, worker, OneThread
<1>2. worker.todo = <<>> /\ worker.pc = "begin" /\ gui = "down"
  BY <1>1 DEF IdleThread, Init
<1>3. pidFile.state = "json" /\ pidFile.data.ver \in Versions
  BY DEF Init, PidFileInit, NoPids
<1>4. Idle(Solo) /\ ~Has(worker.todo, "spawn")
  BY <1>2 DEF Idle, worker, Has
<1> QED
  BY <1>2, <1>3, <1>4 DEF VerInv, NoneDown, FileInv, FileVersion, CallVersions, CarriedVersions

(* The PHP version chosen in the window is not lost: not to the snapshot of *)
(* a start that was taken before the choice, and not between the two halves *)
(* of a save (perform_version_change and save_pids, app.py), as long as one *)
(* thread works at a time and the application is not killed.  Services may  *)
(* crash, ports may be taken and process ids may be handed out again.       *)
THEOREM ChosenVersionLasts ==
  ASSUME OneThread, Faults \subseteq {"process"}
  PROVE  Spec => []VersionDurable
<1>1. TypeInv /\ VerInv => VersionDurable
  <2> SUFFICES ASSUME TypeInv, VerInv, gui = "up", \A t \in Threads : Idle(t)
               PROVE  load_pids.ver = activePhp
    BY DEF VersionDurable
  <2>1. Idle(Solo) /\ worker.pc = "begin"
    BY DEF OneThread, TypeInv
  <2> QED
    BY <2>1 DEF VerInv, FileInv, FileVersion, load_pids
<1>2. TypeInv /\ [Next]_vars => TypeInv'
  BY NextTypeInv
<1>3. TypeInv /\ VerInv /\ [Next]_vars => VerInv'
  BY NextVersion
<1>4. Init => TypeInv /\ VerInv
  BY InitTypeInv, InitVersion
<1> QED
  BY <1>1, <1>2, <1>3, <1>4, PTL DEF Spec

-----------------------------------------------------------------------------
(* WebServersExclusive.  A live process that does not listen yet is the one *)
(* the thread waits for, or its port is busy: so a status that says "not    *)
(* running" means there is no process, and what a start put in front of its *)
(* spawn leaves nothing alive that the spawn could meet.                    *)

(* Only the two web servers may be given the same port. *)
Apart == \A s, t \in Services : PortOf[s] = PortOf[t] => s = t \/ (s \in Web /\ t = OtherWeb(s))

Gone == {s \in Services : AliveOf(s) = {}}

(* D: services of which no process is alive. *)
Clear(s, D) == s \in D /\ (s \in Web => OtherWeb(s) \in D)

(* What a PHP start, and then a stop of service s, may have left to do. *)
AfterPhp(q, D) ==
  \/ Plain(q)
  \/ /\ q # <<>> /\ Head(q).op = "spawn" /\ Plain(Tail(q))
     /\ Head(q).svc \in Web /\ Clear(Head(q).svc, D)

AfterStop(q, s, D) ==
  \/ Plain(q)
  \/ \E w \in Web : /\ s = OtherWeb(w) /\ w \in D
                    /\ q # <<>> /\ Head(q).op = "php"
                    /\ Tail(q) # <<>> /\ Head(Tail(q)).op = "spawn"
                    /\ Head(Tail(q)).svc = w /\ Plain(Tail(Tail(q)))

Ready(q, D) ==
  \/ Plain(q)
  \/ /\ q # <<>>
     /\ \/ Head(q).op = "stop" /\ AfterStop(Tail(q), Head(q).svc, D)
        \/ Head(q).op = "php" /\ AfterPhp(Tail(q), D)
        \/ Head(q).op = "phpSpawn" /\ AfterPhp(Tail(q), D) /\ "php" \in D
        \/ Head(q).op = "spawn" /\ Plain(Tail(q)) /\ Clear(Head(q).svc, D)

Settled ==
  \A p \in Pids : phase[p] = "live" /\ image[p] \in Services =>
    PortOf[image[p]] \in BusyPorts \/ (worker.pc = "wait" /\ worker.pid = p)

Closing == \A p \in Pids : phase[p] = "closing" => image[p] = "mysql"

Left ==
  /\ worker.pc = "begin" => Ready(worker.todo, Gone)
  /\ worker.pc # "begin" =>
       CASE Me(Solo).op = "stop"     -> AfterStop(Rest(Solo), Me(Solo).svc, Gone)
         [] Me(Solo).op = "phpSpawn" -> AfterPhp(Rest(Solo), Gone)
         [] OTHER                    -> Plain(Rest(Solo))

Waiting ==
  worker.pc = "wait" =>
    /\ AliveOf(Me(Solo).svc) \subseteq {worker.pid}
    /\ phase[worker.pid] # "closing" /\ image[worker.pid] \in {Me(Solo).svc, "other"}
    /\ Me(Solo).svc \in Web => OtherWeb(Me(Solo).svc) \in Gone

OneWeb == "nginx" \in Gone \/ "apache" \in Gone

StoppedGone ==
  worker.pc \in {"write", "flush"} /\ Me(Solo).op = "stop" /\ Me(Solo).svc # "mysql" =>
    Me(Solo).svc \in Gone

ProcInv == Settled /\ Closing /\ Left /\ Waiting /\ OneWeb /\ StoppedGone

LEMMA PlainLists ==
  ASSUME NEW q \in Seq(GoodCalls)
  PROVE  /\ Plain(<<>>)
         /\ Plain(q) /\ q # <<>> => Plain(Tail(q)) /\ Head(q).op \notin Starts
         /\ \A c \in GoodCalls : c.op \notin Starts /\ Plain(q) => Plain(<<c>> \o q)
<1>1. Plain(<<>>)
  BY DEF Plain
<1>2. ASSUME Plain(q), q # <<>> PROVE Plain(Tail(q)) /\ Head(q).op \notin Starts
  BY <1>2, FirstCall DEF Plain
<1>3. ASSUME NEW c \in GoodCalls, c.op \notin Starts, Plain(q) PROVE Plain(<<c>> \o q)
  BY <1>3, OneMore DEF Plain
<1> QED
  BY <1>1, <1>2, <1>3

LEMMA MoreGone ==
  ASSUME NEW q, NEW s, NEW D, NEW E, D \subseteq E
  PROVE  /\ AfterPhp(q, D) => AfterPhp(q, E)
         /\ AfterStop(q, s, D) => AfterStop(q, s, E)
         /\ Ready(q, D) => Ready(q, E)
<1>1. \A r, z : /\ AfterPhp(r, D) => AfterPhp(r, E)
                /\ AfterStop(r, z, D) => AfterStop(r, z, E)
  BY DEF AfterPhp, AfterStop, Clear
<1>2. \A z : Clear(z, D) => Clear(z, E)
  BY DEF Clear
<1> QED
  BY <1>1, <1>2 DEF Ready

LEMMA ReadyHead ==
  ASSUME NEW D, NEW q \in Seq(GoodCalls), q # <<>>, Ready(q, D)
  PROVE  /\ Head(q).op = "stop" => AfterStop(Tail(q), Head(q).svc, D)
         /\ Head(q).op \in Starts => Clear(Head(q).svc, D)
         /\ Head(q).op = "spawn" => Plain(Tail(q))
         /\ Head(q).op # "stop" => AfterPhp(Tail(q), D)
         /\ Head(q).op \notin Starts \cup {"stop", "php"} => Plain(Tail(q))
<1>1. Head(q) \in GoodCalls
  BY FirstCall
<1>2. Head(q).op = "phpSpawn" => Head(q).svc = "php"
  BY <1>1, CallFields
<1>3. Plain(q) => Plain(Tail(q)) /\ Head(q).op \notin Starts
  BY PlainLists
<1>4. "php" \in D => Clear("php", D)
  BY DEF Clear, Web
<1> QED
  BY <1>2, <1>3, <1>4 DEF Ready, AfterStop, AfterPhp, Starts

LEMMA ReadyNext ==
  ASSUME NEW D, NEW q
  PROVE  /\ Plain(q) => Ready(q, D)
         /\ AfterPhp(q, D) => Ready(q, D)
         /\ \A s \in D : AfterStop(q, s, D) => Ready(q, D)
<1>1. ASSUME NEW s \in D, AfterStop(q, s, D), ~Plain(q) PROVE Ready(q, D)
  <2>1. PICK w \in Web : /\ s = OtherWeb(w) /\ w \in D
                         /\ q # <<>> /\ Head(q).op = "php"
                         /\ Tail(q) # <<>> /\ Head(Tail(q)).op = "spawn"
                         /\ Head(Tail(q)).svc = w /\ Plain(Tail(Tail(q)))
    BY <1>1 DEF AfterStop
  <2>2. Clear(w, D)
    BY <2>1 DEF Clear
  <2>3. AfterPhp(Tail(q), D)
    BY <2>1, <2>2 DEF AfterPhp
  <2> QED
    BY <2>1, <2>3 DEF Ready
<1> QED
  BY <1>1 DEF Ready, AfterPhp

LEMMA StartListReady ==
  ASSUME NEW D, NEW s \in D \cap Services, NEW v \in Versions \cup {None},
         NEW q \in Seq(GoodCalls), Plain(q)
  PROVE  Ready(StartList(s, v, q), D)
<1> DEFINE sp == Call("spawn", s, v)
           ph == Call("php", "php", v)
           st == Call("stop", OtherWeb(s), None)
           q1 == <<sp>> \o q
           q2 == <<ph>> \o q1
           q3 == <<st>> \o q2
<1>1. /\ sp \in GoodCalls /\ ph \in GoodCalls /\ st \in GoodCalls
      /\ sp.op = "spawn" /\ sp.svc = s /\ ph.op = "php" /\ st.op = "stop" /\ st.svc = OtherWeb(s)
  BY GoodCall DEF Services, Web, OtherWeb, Call
<1>2. StartList(s, v, q) = IF s \in Web THEN q3 ELSE q1
  BY ListShape
<1> HIDE DEF sp, ph, st
<1>3. q1 \in Seq(GoodCalls) /\ q1 # <<>> /\ Head(q1) = sp /\ Tail(q1) = q
  BY <1>1, OneMore
<1> HIDE DEF q1
<1>4. q2 \in Seq(GoodCalls) /\ q2 # <<>> /\ Head(q2) = ph /\ Tail(q2) = q1
  BY <1>1, <1>3, OneMore
<1> HIDE DEF q2
<1>5. q3 # <<>> /\ Head(q3) = st /\ Tail(q3) = q2
  BY <1>1, <1>4, OneMore
<1> HIDE DEF q3
<1>6. CASE s \in Web
  <2>1. AfterStop(q2, OtherWeb(s), D)
    BY <1>1, <1>3, <1>4, <1>6 DEF AfterStop
  <2> QED
    BY <1>1, <1>2, <1>5, <1>6, <2>1 DEF Ready
<1>7. CASE s \notin Web
  <2>1. Clear(s, D)
    BY <1>7 DEF Clear
  <2> QED
    BY <1>1, <1>2, <1>3, <1>7, <2>1 DEF Ready
<1> QED
  BY <1>6, <1>7

(* What the steps of the processes do. *)
LEMMA KilledEffect ==
  ASSUME ProcTypeOK, NEW K, phase' = Killed(K)
  PROVE  \A p \in Pids : /\ Alive(p)' => Alive(p) /\ p \notin K /\ phase'[p] = phase[p]
                         /\ p \notin K => phase'[p] = phase[p]
                         /\ phase'[p] \in {phase[p], "dead"}
BY DEF ProcTypeOK, Killed, Phases, Alive

LEMMA PopenEffect ==
  ASSUME ProcTypeOK, NEW p \in Pids, NEW s \in Services, Popen(p, s)
  PROVE  /\ nginxPid' = nginxPid /\ image'[p] = s /\ phase'[p] = "live" /\ ~Alive(p)
         /\ \A q \in Pids : q # p => image'[q] = image[q] /\ phase'[q] = phase[q]
BY DEF ProcTypeOK, Popen, Phases, Alive

LEMMA BindEffect ==
  ASSUME ProcTypeOK, NEW p \in Pids, Bind(p)
  PROVE  /\ image' = image /\ image[p] \in Services /\ phase[p] = "live"
         /\ \/ phase'[p] = "dead" /\ is_port_open(PortOf[image[p]])
            \/ phase'[p] = "listening" /\ ~is_port_open(PortOf[image[p]])
         /\ \A q \in Pids : q # p => phase'[q] = phase[q]
<1> DEFINE taken == is_port_open(PortOf[image[p]])
<1>1. /\ phase' = [phase EXCEPT ![p] = IF taken THEN "dead" ELSE "listening"]
      /\ phase[p] = "live" /\ image' = image /\ image[p] \in Services
  BY DEF Bind
<1> HIDE DEF taken
<1>2. \/ phase'[p] = "dead" /\ taken
      \/ phase'[p] = "listening" /\ ~taken
  BY <1>1 DEF ProcTypeOK, Phases
<1> QED
  BY <1>1, <1>2 DEF ProcTypeOK, Phases, taken

(* A process that goes on by itself. *)
LEMMA ProcessEffect ==
  ASSUME ProcTypeOK, Environment
  PROVE  \E p \in Pids :
           /\ \A q \in Pids : q # p => image'[q] = image[q] /\ phase'[q] = phase[q]
           /\ \/ Bind(p)
              \/ /\ image' = image /\ Alive(p) /\ phase'[p] = "dead"
                 /\ phase[p] = "closing" \/ "process" \in Faults
              \/ /\ ReusePids /\ phase[p] = "dead"
                 /\ image'[p] = "other" /\ phase'[p] = "live"
              \/ image' = image /\ phase' = phase
<1>1. PICK p \in Pids : Bind(p) \/ WriteNginxPid(p) \/ CloseDown(p) \/ ReusePid(p) \/ ServiceCrash(p)
  BY DEF Environment
<1>2. CASE Bind(p)
  BY <1>2, BindEffect
<1>3. CASE CloseDown(p)
  BY <1>3 DEF CloseDown, ProcTypeOK, Alive, Phases
<1>4. CASE ReusePid(p)
  BY <1>4 DEF ReusePid, ProcTypeOK, Phases
<1>5. CASE ServiceCrash(p)
  BY <1>5 DEF ServiceCrash, ProcCrash, ProcTypeOK, Alive, Phases
<1>6. CASE WriteNginxPid(p)
  BY <1>6 DEF WriteNginxPid
<1> QED
  BY <1>1, <1>2, <1>3, <1>4, <1>5, <1>6

(* No service process comes to life. *)
Shrink ==
  \A p \in Pids : image'[p] \in Services /\ Alive(p)' =>
    Alive(p) /\ image'[p] = image[p] /\ (phase'[p] = "live" => phase[p] = "live")

LEMMA ShrinkGone ==
  ASSUME Shrink
  PROVE  /\ \A s \in Services : {p \in Pids : image'[p] = s /\ Alive(p)'} \subseteq AliveOf(s)
         /\ Gone \subseteq Gone' /\ (OneWeb => OneWeb')
<1>1. \A s \in Services : {p \in Pids : image'[p] = s /\ Alive(p)'} \subseteq AliveOf(s)
  BY DEF Shrink, AliveOf
<1>2. Gone \subseteq Gone'
  BY <1>1 DEF Gone, AliveOf
<1> QED
  BY <1>1, <1>2 DEF OneWeb

LEMMA SettledNext ==
  ASSUME Settled, Shrink,
         worker.pc # "wait" \/ (worker'.pc = "wait" /\ worker'.pid = worker.pid)
  PROVE  Settled'
BY DEF Settled, Shrink, Alive

LEMMA NotRunning ==
  ASSUME ProcTypeOK, Settled, worker.pc # "wait", NEW s \in Services, NEW tbl, ~Running(tbl, s)
  PROVE  s \in Gone
<1> SUFFICES ASSUME NEW p \in AliveOf(s) PROVE FALSE
  BY DEF Gone
<1>1. p \in Pids /\ image[p] = s /\ phase[p] \in {"live", "listening", "closing"}
  BY DEF AliveOf, Alive
<1>2. is_port_open(PortOf[s])
  <2>1. CASE phase[p] = "live"
    BY <1>1, <2>1 DEF Settled, is_port_open
  <2>2. CASE phase[p] # "live"
    BY <1>1, <2>2 DEF Listeners, is_port_open
  <2> QED
    BY <2>1, <2>2
<1> QED
  BY <1>2 DEF Running, is_process_running_by_name

LEMMA SameProcs ==
  ASSUME UNCHANGED procVars
  PROVE  Shrink /\ Gone' = Gone /\ (Closing => Closing')
<1>1. image' = image /\ phase' = phase
  BY DEF procVars
<1> QED
  BY <1>1 DEF Shrink, Gone, AliveOf, Alive, Closing

LEMMA ToBegin ==
  ASSUME ProcInv, Shrink, Settled', Closing', worker'.pc = "begin", Ready(worker'.todo, Gone)
  PROVE  ProcInv'
<1>1. OneWeb' /\ Gone \subseteq Gone'
  BY ShrinkGone DEF ProcInv
<1>2. Ready(worker'.todo, Gone')
  BY <1>1, MoreGone
<1>3. Left' /\ Waiting' /\ StoppedGone'
  BY <1>2 DEF Left, Waiting, StoppedGone
<1> QED
  BY <1>1, <1>3 DEF ProcInv

LEMMA InTheCall ==
  ASSUME ProcInv, Shrink, Settled', Closing', NEW pc, pc \notin {"begin", "wait"}, Inside(pc),
         worker.pc # "begin", StoppedGone'
  PROVE  ProcInv'
<1>1. /\ Me(Solo)' = Me(Solo) /\ Rest(Solo)' = Rest(Solo) /\ worker'.pc = pc
      /\ Gone \subseteq Gone' /\ OneWeb'
  BY ShrinkGone, SameTodo DEF Inside, ProcInv
<1>2. Left'
  <2>1. CASE Me(Solo).op = "stop"
    BY <1>1, <2>1, MoreGone DEF ProcInv, Left
  <2>2. CASE Me(Solo).op = "phpSpawn"
    BY <1>1, <2>2, MoreGone DEF ProcInv, Left
  <2>3. CASE Me(Solo).op \notin {"stop", "phpSpawn"}
    BY <1>1, <2>3 DEF ProcInv, Left
  <2> QED
    BY <2>1, <2>2, <2>3
<1>3. Waiting'
  BY <1>1 DEF Waiting
<1> QED
  BY <1>1, <1>2, <1>3 DEF ProcInv

LEMMA SameThread ==
  ASSUME TypeInv, ProcInv, Shrink, Closing', th' = th,
         \A p \in Pids : /\ phase'[p] = "closing" => phase[p] = "closing"
                         /\ image'[p] \in {image[p], "other"}
  PROVE  ProcInv'
<1>1. /\ Me(Solo)' = Me(Solo) /\ Rest(Solo)' = Rest(Solo) /\ worker' = worker
      /\ Gone \subseteq Gone' /\ OneWeb'
  BY ShrinkGone, SameWorker DEF ProcInv
<1>2. Settled'
  BY <1>1, SettledNext DEF ProcInv
<1>3. Left'
  <2>1. CASE worker.pc = "begin"
    BY <1>1, <2>1, MoreGone DEF ProcInv, Left
  <2>2. CASE worker.pc # "begin" /\ Me(Solo).op = "stop"
    BY <1>1, <2>2, MoreGone DEF ProcInv, Left
  <2>3. CASE worker.pc # "begin" /\ Me(Solo).op = "phpSpawn"
    BY <1>1, <2>3, MoreGone DEF ProcInv, Left
  <2>4. CASE worker.pc # "begin" /\ Me(Solo).op \notin {"stop", "phpSpawn"}
    BY <1>1, <2>4 DEF ProcInv, Left
  <2> QED
    BY <2>1, <2>2, <2>3, <2>4
<1>4. Waiting'
  <2> SUFFICES ASSUME worker.pc = "wait" PROVE Waiting'
    BY <1>1 DEF Waiting
  <2>1. Me(Solo).svc \in Services /\ worker.pid \in Pids
    BY MeGood, CallFields DEF TypeInv, Starts
  <2>2. AliveOf(Me(Solo).svc)' \subseteq AliveOf(Me(Solo).svc)
    BY <1>1, <2>1, ShrinkGone DEF AliveOf
  <2> QED
    BY <1>1, <2>1, <2>2 DEF ProcInv, Waiting
<1>5. StoppedGone'
  BY <1>1 DEF ProcInv, StoppedGone
<1> QED
  BY <1>1, <1>2, <1>3, <1>4, <1>5 DEF ProcInv

(* At the start of a call. *)
LEMMA AtBegin ==
  ASSUME TypeInv, ProcInv, ~Idle(Solo), worker.pc = "begin"
  PROVE  /\ Me(Solo).op = "stop" => AfterStop(Rest(Solo), Me(Solo).svc, Gone)
         /\ Me(Solo).op \in Starts => Clear(Me(Solo).svc, Gone)
         /\ Me(Solo).op = "spawn" => Plain(Rest(Solo))
         /\ Me(Solo).op # "stop" => AfterPhp(Rest(Solo), Gone)
         /\ Me(Solo).op \notin Starts \cup {"stop", "php"} => Plain(Rest(Solo))
<1>1. Ready(worker.todo, Gone) /\ worker.todo \in Seq(GoodCalls) /\ worker.todo # <<>>
  BY DEF ProcInv, Left, TypeInv, Idle, worker
<1> QED
  BY <1>1, ReadyHead DEF Me, Rest, worker

(* A step that leaves the processes alone and begins the next call. *)
LEMMA NextCallReady ==
  ASSUME ProcInv, UNCHANGED procVars, worker.pc # "wait", NEW q, Onward(q), Ready(q, Gone)
  PROVE  ProcInv'
<1>1. Shrink /\ Closing'
  BY SameProcs DEF ProcInv
<1>2. Settled'
  BY <1>1, SettledNext DEF ProcInv
<1> QED
  BY <1>1, <1>2, ToBegin DEF Onward

LEMMA StopSteps ==
  ASSUME OneThread, TypeInv, ProcInv, StopCheck(Solo) \/ Kill(Solo)
  PROVE  ProcInv'
<1>0. Settled /\ Closing /\ ProcTypeOK
  BY DEF ProcInv, TypeInv, TypeOK
<1>1. CASE StopCheck(Solo)
  <2>1. /\ ~Idle(Solo) /\ Me(Solo).op = "stop" /\ Me(Solo).svc \in Services /\ worker.pc = "begin"
        /\ UNCHANGED procVars
    BY <1>1, StopCheckEffect
  <2>2. AfterStop(Rest(Solo), Me(Solo).svc, Gone)
    BY <2>1, AtBegin
  <2>3. CASE Inside("kill")
    <3>1. Shrink /\ Closing' /\ Gone' = Gone
      BY <1>0, <2>1, SameProcs
    <3>2. /\ Me(Solo)' = Me(Solo) /\ Rest(Solo)' = Rest(Solo) /\ worker'.pc = "kill"
      BY <2>3, SameTodo DEF Inside
    <3>3. Left' /\ Waiting' /\ StoppedGone'
      BY <2>1, <2>2, <3>1, <3>2 DEF Left, Waiting, StoppedGone
    <3>4. Settled' /\ OneWeb'
      BY <1>0, <2>1, <3>1, SettledNext, ShrinkGone DEF ProcInv
    <3> QED
      BY <3>1, <3>3, <3>4 DEF ProcInv
  <2>4. CASE ~Running(load_pids, Me(Solo).svc) /\ Onward(Rest(Solo))
    <3>1. Me(Solo).svc \in Gone
      BY <1>0, <2>1, <2>4, NotRunning
    <3>2. Ready(Rest(Solo), Gone)
      BY <2>2, <3>1, ReadyNext
    <3> QED
      BY <2>1, <2>4, <3>2, NextCallReady
  <2> QED
    BY <1>1, <2>3, <2>4, StopCheckEffect
<1>2. CASE Kill(Solo)
  <2>1. /\ ~Idle(Solo) /\ Me(Solo).op = "stop" /\ Me(Solo).svc \in Services /\ worker.pc = "kill"
        /\ image' = image /\ Inside("write")
        /\ phase' = IF Me(Solo).svc = "mysql" /\ ShutdownHeard
                    THEN [p \in Pids |-> IF image[p] = "mysql" /\ phase[p] = "listening"
                                         THEN "closing" ELSE phase[p]]
                    ELSE Killed(KillSet(Solo))
    BY <1>2, KillEffect
  <2>2. Me(Solo)' = Me(Solo) /\ worker'.pc = "write"
    BY <2>1, SameTodo DEF Inside
  <2>3. CASE Me(Solo).svc = "mysql" /\ ShutdownHeard
    <3>1. Shrink
      BY <1>0, <2>1, <2>3 DEF Shrink, Alive
    <3>2. Settled' /\ Closing'
      BY <1>0, <2>1, <2>3, <3>1, SettledNext DEF Closing
    <3>3. StoppedGone'
      BY <2>2, <2>3 DEF StoppedGone
    <3> QED
      BY <2>1, <3>1, <3>2, <3>3, InTheCall
  <2>4. CASE phase' = Killed(KillSet(Solo))
    <3>1. \A p \in Pids : /\ Alive(p)' => Alive(p) /\ p \notin KillSet(Solo) /\ phase'[p] = phase[p]
                          /\ phase'[p] \in {phase[p], "dead"}
      BY <1>0, <2>4, KilledEffect
    <3>2. Shrink /\ Closing'
      BY <1>0, <2>1, <3>1 DEF Shrink, Closing
    <3>3. Settled'
      BY <1>0, <2>1, <3>2, SettledNext
    <3>4. Me(Solo).svc # "mysql" => Me(Solo).svc \in Gone'
      BY <2>1, <3>1 DEF KillSet, Gone, AliveOf
    <3>5. StoppedGone'
      BY <2>2, <3>4 DEF StoppedGone
    <3> QED
      BY <2>1, <3>2, <3>3, <3>5, InTheCall
  <2> QED
    BY <2>1, <2>3, <2>4
<1> QED
  BY <1>1, <1>2

LEMMA SaveSteps ==
  ASSUME OneThread, TypeInv, ProcInv, Write(Solo) \/ Flush(Solo)
  PROVE  ProcInv'
<1>1. CASE Write(Solo)
  <2>1. ~Idle(Solo) /\ worker.pc = "write" /\ UNCHANGED procVars /\ Inside("flush")
    BY <1>1, SaveEffects
  <2>2. Shrink /\ Closing' /\ Gone' = Gone
    BY <2>1, SameProcs DEF ProcInv
  <2>3. Settled'
    BY <2>1, <2>2, SettledNext DEF ProcInv
  <2>4. StoppedGone'
    BY <2>1, <2>2, SameTodo DEF ProcInv, StoppedGone, Inside
  <2> QED
    BY <2>1, <2>2, <2>3, <2>4, InTheCall
<1>2. CASE Flush(Solo)
  <2>1. ~Idle(Solo) /\ worker.pc = "flush" /\ UNCHANGED procVars /\ Onward(Rest(Solo))
    BY <1>2, SaveEffects
  <2>2. CASE Me(Solo).op = "stop"
    <3>1. AfterStop(Rest(Solo), Me(Solo).svc, Gone) /\ (Me(Solo).svc # "mysql" => Me(Solo).svc \in Gone)
      BY <2>1, <2>2 DEF ProcInv, Left, StoppedGone
    <3>2. Me(Solo).svc = "mysql" => Plain(Rest(Solo))
      BY <3>1 DEF AfterStop, OtherWeb
    <3>4. Ready(Rest(Solo), Gone)
      BY <3>1, <3>2, ReadyNext
    <3> QED
      BY <2>1, <3>4, NextCallReady
  <2>3. CASE Me(Solo).op # "stop"
    <3>1. Ready(Rest(Solo), Gone)
      BY <2>1, <2>3, ReadyNext DEF ProcInv, Left
    <3> QED
      BY <2>1, <3>1, NextCallReady
  <2> QED
    BY <2>2, <2>3
<1> QED
  BY <1>1, <1>2

LEMMA StartSteps ==
  ASSUME OneThread, TypeInv, ProcInv, StartCheck(Solo) \/ PhpCheck(Solo) \/ Restart(Solo)
  PROVE  ProcInv'
<1>0. Settled /\ ProcTypeOK
  BY DEF ProcInv, TypeInv, TypeOK
<1>1. CASE StartCheck(Solo)
  <2>1. /\ ~Idle(Solo) /\ Me(Solo).op = "start" /\ worker.pc = "begin" /\ UNCHANGED procVars
        /\ Ver(Solo) \in Versions \cup {None} /\ Rest(Solo) \in Seq(GoodCalls)
    BY <1>1, StartCheckEffect, MeGood
  <2>2. Plain(Rest(Solo))
    BY <2>1, AtBegin DEF Starts
  <2>3. CASE Onward(Rest(Solo))
    BY <2>1, <2>2, <2>3, ReadyNext, NextCallReady
  <2>4. ASSUME NEW s \in Services, ~Running(load_pids, s),
               Onward(StartList(s, Ver(Solo), Rest(Solo)))
        PROVE  ProcInv'
    <3>1. s \in Gone
      BY <1>0, <2>1, <2>4, NotRunning
    <3>2. Ready(StartList(s, Ver(Solo), Rest(Solo)), Gone)
      BY <2>1, <2>2, <3>1, StartListReady
    <3> QED
      BY <2>1, <2>4, <3>2, NextCallReady
  <2> QED
    BY <1>1, <2>3, <2>4, StartCheckEffect
<1>2. CASE PhpCheck(Solo)
  <2> DEFINE c == Call("phpSpawn", "php", Ver(Solo))
  <2>1. /\ ~Idle(Solo) /\ Me(Solo).op = "php" /\ worker.pc = "begin" /\ UNCHANGED procVars
        /\ Ver(Solo) \in Versions \cup {None} /\ Rest(Solo) \in Seq(GoodCalls)
        /\ \/ Onward(Rest(Solo))
           \/ ~Running(load_pids, "php") /\ Onward(<<c>> \o Rest(Solo))
    BY <1>2, PhpCheckEffect, MeGood
  <2>2. AfterPhp(Rest(Solo), Gone)
    BY <2>1, AtBegin
  <2>3. c \in GoodCalls /\ c.op = "phpSpawn"
    BY <2>1, GoodCall DEF Call
  <2> HIDE DEF c
  <2>4. CASE Onward(Rest(Solo))
    BY <2>1, <2>2, <2>4, ReadyNext, NextCallReady
  <2>5. CASE ~Running(load_pids, "php") /\ Onward(<<c>> \o Rest(Solo))
    <3>1. "php" \in Gone
      BY <1>0, <2>1, <2>5, NotRunning DEF Services
    <3>2. <<c>> \o Rest(Solo) # <<>> /\ Head(<<c>> \o Rest(Solo)) = c
          /\ Tail(<<c>> \o Rest(Solo)) = Rest(Solo)
      BY <2>1, <2>3, OneMore
    <3>3. Ready(<<c>> \o Rest(Solo), Gone)
      BY <2>2, <2>3, <3>1, <3>2 DEF Ready
    <3> QED
      BY <2>1, <2>5, <3>3, NextCallReady
  <2> QED
    BY <2>1, <2>4, <2>5
<1>3. CASE Restart(Solo)
  <2>1. /\ ~Idle(Solo) /\ Me(Solo).op = "restart" /\ worker.pc = "begin" /\ UNCHANGED procVars
        /\ Me(Solo).ver \in Versions \cup {Active, None} /\ Rest(Solo) \in Seq(GoodCalls)
    BY <1>3, RestartEffect, MeGood
  <2>2. PICK q : (q = Rest(Solo) \/ q = RestartList(Me(Solo).ver, Rest(Solo))) /\ Onward(q)
    BY <1>3, RestartEffect
  <2>3. Plain(Rest(Solo))
    BY <2>1, AtBegin DEF Starts
  <2>4. Plain(RestartList(Me(Solo).ver, Rest(Solo)))
    <3> DEFINE c == Call("stop", "php", None)
               d == Call("php", "php", Me(Solo).ver)
               r == <<d>> \o Rest(Solo)
    <3>1. c \in GoodCalls /\ d \in GoodCalls /\ c.op \notin Starts /\ d.op \notin Starts
      BY <2>1, GoodCall DEF Services, Call, Starts
    <3>2. RestartList(Me(Solo).ver, Rest(Solo)) = <<c>> \o r
      BY DEF RestartList
    <3> HIDE DEF c, d
    <3>3. r \in Seq(GoodCalls) /\ Plain(r)
      BY <2>1, <2>3, <3>1, OneMore, PlainLists
    <3> HIDE DEF r
    <3> QED
      BY <3>1, <3>2, <3>3, PlainLists
  <2> QED
    BY <2>1, <2>2, <2>3, <2>4, ReadyNext, NextCallReady
<1> QED
  BY <1>1, <1>2, <1>3

LEMMA GiveUpSteps ==
  ASSUME OneThread, TypeInv, ProcInv, SpawnFails(Solo) \/ WaitTimeout(Solo)
  PROVE  ProcInv'
<1>0. Settled /\ Closing /\ ProcTypeOK
  BY DEF ProcInv, TypeInv, TypeOK
<1>1. /\ ~Idle(Solo) /\ Me(Solo).op \in Starts /\ UNCHANGED <<image, nginxPid>>
      /\ \/ worker.pc = "begin" /\ phase' = phase
         \/ worker.pc = "wait" /\ phase' = Killed({worker.pid})
      /\ Onward(Rest(Solo))
  BY GiveUpEffects
<1>2. Ready(Rest(Solo), Gone)
  <2>1. CASE worker.pc = "begin"
    BY <1>1, <2>1, AtBegin, ReadyNext DEF Starts
  <2>2. CASE worker.pc = "wait"
    <3>1. AfterPhp(Rest(Solo), Gone)
      BY <1>1, <2>2 DEF ProcInv, Left, Starts, AfterPhp
    <3> QED
      BY <3>1, ReadyNext
  <2> QED
    BY <1>1, <2>1, <2>2
<1>3. CASE worker.pc = "begin"
  BY <1>1, <1>2, <1>3, NextCallReady DEF procVars
<1>4. CASE worker.pc = "wait"
  <2>1. \A p \in Pids : /\ Alive(p)' => Alive(p) /\ p # worker.pid /\ phase'[p] = phase[p]
                        /\ phase'[p] \in {phase[p], "dead"}
    BY <1>0, <1>1, <1>4, KilledEffect
  <2>2. Shrink /\ Closing'
    BY <1>0, <1>1, <2>1 DEF Shrink, Closing
  <2>3. Settled'
    BY <1>0, <1>1, <1>4, <2>1 DEF Settled, Alive
  <2> QED
    BY <1>1, <1>2, <2>2, <2>3, ToBegin DEF Onward
<1> QED
  BY <1>1, <1>3, <1>4

LEMMA SpawnStep ==
  ASSUME OneThread, TypeInv, ProcInv, Spawn(Solo)
  PROVE  ProcInv'
<1>0. Settled /\ Closing /\ OneWeb /\ ProcTypeOK
  BY DEF ProcInv, TypeInv, TypeOK
<1>c. PICK c : c = Call(Me(Solo).op, Me(Solo).svc, ChosenVersion(Solo))
  OBVIOUS
<1>1. /\ ~Idle(Solo) /\ Me(Solo).op \in Starts /\ Me(Solo).svc \in Services /\ worker.pc = "begin"
      /\ worker'.pc = "wait" /\ worker'.pid \in Pids /\ Popen(worker'.pid, Me(Solo).svc)
      /\ worker'.todo = <<c>> \o Rest(Solo) /\ c \in GoodCalls /\ Rest(Solo) \in Seq(GoodCalls)
      /\ c.op = Me(Solo).op /\ c.svc = Me(Solo).svc
  BY <1>c, SpawnEffect, MeGood DEF Call
<1>2. PICK n \in Pids : n = worker'.pid /\ Popen(n, Me(Solo).svc)
  BY <1>1
<1>3. /\ image'[n] = Me(Solo).svc /\ phase'[n] = "live"
      /\ \A p \in Pids : p # n => image'[p] = image[p] /\ phase'[p] = phase[p]
  BY <1>0, <1>1, <1>2, PopenEffect
<1>4. Me(Solo)' = c /\ Rest(Solo)' = Rest(Solo)
  BY <1>1, NewTodo
<1>5. /\ Clear(Me(Solo).svc, Gone) /\ AfterPhp(Rest(Solo), Gone)
      /\ Me(Solo).op = "spawn" => Plain(Rest(Solo))
  BY <1>1, AtBegin DEF Starts
<1>6. Settled'
  BY <1>0, <1>1, <1>2, <1>3 DEF Settled
<1>7. Closing'
  BY <1>0, <1>2, <1>3 DEF Closing
<1>8. \A s \in Services : s # Me(Solo).svc /\ s \in Gone => s \in Gone'
  BY <1>3 DEF Gone, AliveOf, Alive
<1>9. AliveOf(c.svc)' \subseteq {worker'.pid}
  <2>1. \A p \in Pids : p # n => ~(image[p] = Me(Solo).svc /\ Alive(p))
    BY <1>5 DEF Clear, Gone, AliveOf
  <2> QED
    BY <1>1, <1>2, <1>3, <2>1 DEF AliveOf, Alive
<1>10. Me(Solo).svc \in Web => OtherWeb(Me(Solo).svc) \in Gone'
  BY <1>5, <1>8 DEF Clear, Web, Services, OtherWeb
<1>11. OneWeb'
  BY <1>0, <1>1, <1>8, <1>10 DEF OneWeb, Web, Services, OtherWeb
<1>12. Waiting'
  BY <1>1, <1>2, <1>3, <1>4, <1>9, <1>10 DEF Waiting, AliveOf
<1>13. Left'
  <2>1. CASE Me(Solo).op = "spawn"
    BY <1>1, <1>4, <1>5, <2>1 DEF Left
  <2>2. CASE Me(Solo).op = "phpSpawn"
    <3>1. Me(Solo).svc = "php"
      BY <1>1, <2>2, MeGood, CallFields
    <3>2. \A w \in Web : /\ w \in Services /\ w # "php"
                         /\ OtherWeb(w) \in Services /\ OtherWeb(w) # "php"
      BY DEF Web, Services, OtherWeb
    <3>3. \A w \in Web : Clear(w, Gone) => Clear(w, Gone')
      BY <1>8, <3>1, <3>2 DEF Clear
    <3>4. AfterPhp(Rest(Solo), Gone')
      BY <1>5, <3>3 DEF AfterPhp
    <3> QED
      BY <1>1, <1>4, <2>2, <3>4 DEF Left
  <2> QED
    BY <1>1, <2>1, <2>2 DEF Starts
<1>14. StoppedGone'
  BY <1>1 DEF StoppedGone
<1> QED
  BY <1>6, <1>7, <1>11, <1>12, <1>13, <1>14 DEF ProcInv

(* The port that is open is the one the thread waits for, or it is busy. *)
LEMMA WaitedPort ==
  ASSUME Apart, TypeInv, ProcInv, ~Idle(Solo), Me(Solo).svc \in Services, worker.pc = "wait",
         is_port_open(PortOf[Me(Solo).svc])
  PROVE  \/ PortOf[Me(Solo).svc] \in BusyPorts
         \/ image[worker.pid] = Me(Solo).svc /\ phase[worker.pid] = "listening"
<1> SUFFICES ASSUME PortOf[Me(Solo).svc] \notin BusyPorts
             PROVE  image[worker.pid] = Me(Solo).svc /\ phase[worker.pid] = "listening"
  OBVIOUS
<1>1. PICK p \in Pids : /\ image[p] \in Services /\ phase[p] \in {"listening", "closing"}
                        /\ PortOf[image[p]] = PortOf[Me(Solo).svc]
  BY DEF is_port_open, Listeners
<1>2. image[p] = Me(Solo).svc
  <2>1. CASE Me(Solo).svc \in Web /\ image[p] = OtherWeb(Me(Solo).svc)
    <3>1. OtherWeb(Me(Solo).svc) \in Gone
      BY <2>1 DEF ProcInv, Waiting
    <3> QED
      BY <1>1, <2>1, <3>1 DEF Gone, AliveOf, Alive
  <2> QED
    BY <1>1, <2>1 DEF Apart
<1>3. p = worker.pid
  BY <1>1, <1>2 DEF ProcInv, Waiting, AliveOf, Alive
<1> QED
  BY <1>1, <1>2, <1>3 DEF ProcInv, Waiting

LEMMA WaitStep ==
  ASSUME Apart, OneThread, TypeInv, ProcInv, WaitOk(Solo)
  PROVE  ProcInv'
<1>0. Settled /\ Closing
  BY DEF ProcInv
<1>1. /\ ~Idle(Solo) /\ Me(Solo).op \in Starts /\ Me(Solo).svc \in Services
      /\ worker.pc = "wait" /\ is_port_open(PortOf[Me(Solo).svc]) /\ UNCHANGED procVars
      /\ Inside("write")
  BY WaitOkEffect
<1>2. Shrink /\ Closing' /\ image' = image /\ phase' = phase
  BY <1>0, <1>1, SameProcs DEF procVars
<1>3. \/ PortOf[Me(Solo).svc] \in BusyPorts
      \/ image[worker.pid] = Me(Solo).svc /\ phase[worker.pid] = "listening"
  BY <1>1, WaitedPort
<1>4. Settled'
  <2> SUFFICES ASSUME NEW p \in Pids, phase[p] = "live", image[p] \in Services
               PROVE  PortOf[image[p]] \in BusyPorts
    BY <1>2 DEF Settled
  <2>1. PortOf[image[p]] \in BusyPorts \/ p = worker.pid
    BY <1>0 DEF Settled
  <2> QED
    BY <1>1, <1>3, <2>1 DEF ProcInv, Waiting, Services, Web
<1>5. StoppedGone'
  BY <1>1, SameTodo DEF StoppedGone, Inside, Starts
<1> QED
  BY <1>1, <1>2, <1>4, <1>5, InTheCall

LEMMA SessionSteps ==
  ASSUME OneThread, TypeInv, ProcInv, NoneDown,
         SetVersion(Solo) \/ FinishExit(Solo) \/ Button(Solo) \/ Launch
  PROVE  ProcInv'
<1>0. Settled /\ Closing
  BY DEF ProcInv
<1>1. CASE SetVersion(Solo)
  <2>1. /\ ~Idle(Solo) /\ Me(Solo).op = "setver" /\ worker.pc = "begin" /\ UNCHANGED procVars
        /\ Inside("write")
    BY <1>1, SetVersionEffect
  <2>2. Shrink /\ Closing' /\ Gone' = Gone
    BY <1>0, <2>1, SameProcs
  <2>3. Settled' /\ OneWeb'
    BY <1>0, <2>1, <2>2, SettledNext, ShrinkGone DEF ProcInv
  <2>4. Plain(Rest(Solo))
    BY <2>1, AtBegin DEF Starts
  <2>5. Me(Solo)' = Me(Solo) /\ Rest(Solo)' = Rest(Solo) /\ worker'.pc = "write"
    BY <2>1, SameTodo DEF Inside
  <2>6. Left' /\ Waiting' /\ StoppedGone'
    BY <2>1, <2>4, <2>5 DEF Left, Waiting, StoppedGone
  <2> QED
    BY <2>2, <2>3, <2>6 DEF ProcInv
<1>2. CASE FinishExit(Solo)
  <2>1. worker'.todo = <<>> /\ worker'.pc = "begin" /\ UNCHANGED procVars /\ worker.pc = "begin"
    BY <1>2, FinishExitEffect DEF IdleThread
  <2>2. Shrink /\ Closing' /\ Settled'
    BY <1>0, <2>1, SameProcs, SettledNext
  <2>3. Ready(<<>>, Gone)
    BY ReadyNext DEF Plain
  <2> QED
    BY <2>1, <2>2, <2>3, ToBegin
<1>3. CASE Button(Solo)
  <2>1. worker'.pc = "begin" /\ worker.pc = "begin" /\ UNCHANGED procVars /\ Plain(worker'.todo)
    BY <1>3, ButtonEffect, ButtonPlain
  <2>2. Shrink /\ Closing' /\ Settled'
    BY <1>0, <2>1, SameProcs, SettledNext
  <2> QED
    BY <2>1, <2>2, ReadyNext, ToBegin
<1>4. CASE Launch
  <2>1. th' = th /\ UNCHANGED procVars
    BY <1>4 DEF Launch, LaunchWith
  <2>2. Shrink /\ Closing' /\ image' = image /\ phase' = phase
    BY <1>0, <2>1, SameProcs DEF procVars
  <2> QED
    BY <2>1, <2>2, SameThread
<1> QED
  BY <1>1, <1>2, <1>3, <1>4

LEMMA EnvironmentSteps ==
  ASSUME TypeInv, ProcInv, Environment
  PROVE  ProcInv'
<1>0. Closing /\ ProcTypeOK
  BY DEF ProcInv, TypeInv, TypeOK
<1>1. th' = th
  BY EnvironmentEffect
<1>2. PICK p \in Pids :
        /\ \A q \in Pids : q # p => image'[q] = image[q] /\ phase'[q] = phase[q]
        /\ \/ Bind(p)
           \/ image' = image /\ Alive(p) /\ phase'[p] = "dead"
           \/ image'[p] = "other" /\ phase'[p] = "live"
           \/ image' = image /\ phase' = phase
  BY <1>0, ProcessEffect
<1>3. \/ phase[p] = "live" /\ phase'[p] \in {"dead", "listening"} /\ image'[p] = image[p]
      \/ Alive(p) /\ phase'[p] = "dead" /\ image'[p] = image[p]
      \/ image'[p] = "other" /\ phase'[p] = "live"
      \/ image' = image /\ phase' = phase
  BY <1>0, <1>2, BindEffect
<1>4. Shrink
  BY <1>2, <1>3 DEF Shrink, Alive, Services, Web
<1>5. /\ \A q \in Pids : phase'[q] = "closing" => phase[q] = "closing" /\ image'[q] = image[q]
      /\ \A q \in Pids : image'[q] \in {image[q], "other"}
  BY <1>2, <1>3
<1>6. Closing'
  BY <1>0, <1>5 DEF Closing
<1> QED
  BY <1>1, <1>4, <1>5, <1>6, SameThread

LEMMA NextProcs ==
  ASSUME Apart, OneThread, Faults \subseteq {"process"}, TypeInv, NoneDown, ProcInv, [Next]_vars
  PROVE  ProcInv'
<1>1. CASE UNCHANGED vars
  <2>1. th' = th /\ UNCHANGED procVars /\ image' = image /\ phase' = phase
    BY <1>1 DEF vars, appVars, procVars
  <2>2. Shrink /\ Closing'
    BY <2>1, SameProcs DEF ProcInv
  <2> QED
    BY <2>1, <2>2, SameThread
<1>2. CASE ThreadStep(Solo)
  BY <1>2, StopSteps, SaveSteps, StartSteps, GiveUpSteps, SpawnStep, WaitStep, SessionSteps
  DEF ThreadStep
<1> QED
  BY <1>1, <1>2, NextCases, SessionSteps, EnvironmentSteps

LEMMA InitProcs == OneThread /\ Init => ProcInv
<1> SUFFICES ASSUME OneThread, Init PROVE ProcInv
  OBVIOUS
<1>1. \A p \in Pids : ~Alive(p) /\ phase[p] = "free"
  BY DEF Init, ProcInit, Alive
<1>2. Gone = Services
  BY <1>1 DEF Gone, AliveOf
<1>3. worker.todo = <<>> /\ worker.pc = "begin"
  BY DEF Init, IdleThread, worker, OneThread
<1>4. Plain(<<>>)
  BY DEF Plain
<1>5. Left /\ Waiting /\ StoppedGone
  BY <1>3, <1>4, ReadyNext DEF Left, Waiting, StoppedGone
<1> QED
  BY <1>1, <1>2, <1>5 DEF ProcInv, Settled, Closing, OneWeb, Services, Web

(* Nginx and Apache never both listen, also with one port for each: the     *)
(* stop of the other server comes before the spawn, and nothing the calls   *)
(* between them do can bring it back (start_service_internal, app.py).      *)
THEOREM OneWebServer ==
  ASSUME Apart, OneThread, Faults \subseteq {"process"}
  PROVE  Spec => []WebServersExclusive
<1>1. ProcInv => WebServersExclusive
  BY DEF ProcInv, OneWeb, Gone, WebServersExclusive, Listening
<1>2. TypeInv /\ VerInv /\ [Next]_vars => TypeInv' /\ VerInv'
  BY NextTypeInv, NextVersion
<1>3. TypeInv /\ VerInv /\ ProcInv /\ [Next]_vars => ProcInv'
  BY NextProcs DEF VerInv
<1>4. Init => TypeInv /\ VerInv /\ ProcInv
  BY InitTypeInv, InitVersion, InitProcs
<1> QED
  BY <1>1, <1>2, <1>3, <1>4, PTL DEF Spec

-----------------------------------------------------------------------------
(* StoppedMeansDown and ExitLeavesNothing.  mysqld is the one service that  *)
(* is not killed by name: with a root password mysqladmin is turned away    *)
(* and only the pid of the table reaches it.  So the table, the snapshot    *)
(* and the table to be written all have to name the mysqld that serves,     *)
(* but for the time in which the thread waits for one of its own.           *)

Serving(s) == {p \in Pids : image[p] = s /\ phase[p] \in {"live", "listening"}}
Over(s)    == Serving(s) = {}
Tracks(tbl) == Serving("mysql") \subseteq {tbl.pid["mysql"]}

(* The mysqld at work is the thread's own, and only buf will know it. *)
Mine == worker.pc # "begin" /\ Me(Solo).op \in Starts /\ Me(Solo).svc = "mysql"

TrackInv ==
  /\ worker.pc # "flush" /\ ~Mine => Tracks(pidFile.data)
  /\ worker.pc = "kill" /\ Me(Solo).svc = "mysql" => worker.pid = pidFile.data.pid["mysql"]
  /\ worker.pc \in {"write", "flush"} => Tracks(worker.buf)
  /\ worker.pc \in {"write", "flush"} /\ Me(Solo).op = "stop" => Over(Me(Solo).svc)
  /\ Has(worker.todo, "spawn") /\ ~Mine => Tracks(worker.snap)

(* Inside real_exit every service is over or its stop is yet to come, and   *)
(* the exit is the last call.                                               *)
ExitInv ==
  /\ gui = "down" => \A s \in Services : Over(s)
  /\ gui = "exiting" =>
       /\ \A i \in DOMAIN worker.todo :
            /\ worker.todo[i].op \in {"stop", "exit"}
            /\ worker.todo[i].op = "exit" => i = Len(worker.todo)
       /\ \A s \in Services :
            Over(s) \/ \E i \in DOMAIN worker.todo : worker.todo[i].op = "stop" /\ worker.todo[i].svc = s
  /\ gui # "exiting" => ~Has(worker.todo, "exit")

(* No service process begins to serve, or to be about to. *)
Calmer == \A s \in Services : Serving(s)' \subseteq Serving(s)

LEMMA CalmSteps ==
  ASSUME OneThread, Faults \subseteq {"process"}, TypeInv, [Next]_vars
  PROVE  Spawn(Solo) \/ Calmer
<1>0. ProcTypeOK
  BY DEF TypeInv, TypeOK
<1>1. ASSUME \A p \in Pids : image'[p] \in Services /\ phase'[p] \in {"live", "listening"} =>
                               image'[p] = image[p] /\ phase[p] \in {"live", "listening"}
      PROVE  Calmer
  BY <1>1 DEF Calmer, Serving
<1>2. ASSUME UNCHANGED procVars PROVE Calmer
  BY <1>1, <1>2 DEF procVars
<1>3. CASE Kill(Solo)
  <2>1. /\ image' = image
        /\ phase' = IF Me(Solo).svc = "mysql" /\ ShutdownHeard
                    THEN [p \in Pids |-> IF image[p] = "mysql" /\ phase[p] = "listening"
                                         THEN "closing" ELSE phase[p]]
                    ELSE Killed(KillSet(Solo))
    BY <1>3, KillEffect
  <2>2. \A p \in Pids : phase'[p] \in {phase[p], "closing", "dead"}
    BY <1>0, <2>1, KilledEffect
  <2> QED
    BY <1>1, <2>1, <2>2
<1>4. CASE SpawnFails(Solo) \/ WaitTimeout(Solo)
  <2>1. image' = image /\ \A p \in Pids : phase'[p] \in {phase[p], "dead"}
    BY <1>0, <1>4, GiveUpEffects, KilledEffect
  <2> QED
    BY <1>1, <2>1
<1>5. CASE Environment
  <2>1. PICK p \in Pids :
          /\ \A q \in Pids : q # p => image'[q] = image[q] /\ phase'[q] = phase[q]
          /\ \/ Bind(p)
             \/ image' = image /\ phase'[p] = "dead"
             \/ image'[p] = "other"
             \/ image' = image /\ phase' = phase
    BY <1>0, <1>5, ProcessEffect
  <2>2. \/ phase[p] = "live" /\ image' = image
        \/ phase'[p] = "dead"
        \/ image'[p] = "other"
        \/ image' = image /\ phase' = phase
    BY <1>0, <2>1, BindEffect
  <2> QED
    BY <1>1, <2>1, <2>2 DEF Services, Web
<1>6. CASE StopCheck(Solo) \/ Write(Solo) \/ Flush(Solo) \/ StartCheck(Solo) \/ PhpCheck(Solo)
           \/ WaitOk(Solo) \/ SetVersion(Solo) \/ Restart(Solo) \/ FinishExit(Solo)
  BY <1>2, <1>6, StopCheckEffect, SaveEffects, StartCheckEffect, PhpCheckEffect, WaitOkEffect,
     SetVersionEffect, RestartEffect, FinishExitEffect
<1>7. CASE Button(Solo) \/ Launch \/ UNCHANGED vars
  BY <1>2, <1>7, ButtonEffect DEF Launch, LaunchWith, vars
<1> QED
  BY <1>3, <1>4, <1>5, <1>6, <1>7, NextCases DEF ThreadStep

(* What the steps to the next call make of the snapshot, and that none of   *)
(* them adds an exit.                                                       *)
Carries(q) ==
  /\ q \in Seq(GoodCalls) /\ Onward(q)
  /\ Has(q, "spawn") => \/ worker'.snap = worker.snap /\ Has(Rest(Solo), "spawn")
                        \/ worker'.snap = load_pids /\ worker.pc = "begin"
  /\ Has(q, "exit") => Has(Rest(Solo), "exit")

LEMMA OnwardSteps ==
  ASSUME OneThread, TypeInv, ~Idle(Solo),
         \/ (StopCheck(Solo) /\ ~Inside("kill")) \/ StartCheck(Solo) \/ PhpCheck(Solo)
         \/ Restart(Solo) \/ SpawnFails(Solo) \/ WaitTimeout(Solo) \/ Flush(Solo)
  PROVE  \E q : Carries(q)
<1>1. Rest(Solo) \in Seq(GoodCalls)
  BY MeGood
<1>2. ASSUME Onward(Rest(Solo)), worker'.snap = KeptSnapshot(Solo, Rest(Solo))
      PROVE  Carries(Rest(Solo))
  BY <1>1, <1>2 DEF Carries, KeptSnapshot, Has, worker
<1>3. CASE StopCheck(Solo) /\ ~Inside("kill")
  BY <1>2, <1>3, StopCheckEffect
<1>4. CASE SpawnFails(Solo) \/ WaitTimeout(Solo)
  BY <1>2, <1>4, GiveUpEffects
<1>5. CASE Flush(Solo)
  BY <1>2, <1>5, SaveEffects
<1>6. ASSUME NEW c \in GoodCalls, NEW r \in Seq(GoodCalls), c.op # "exit",
             Has(r, "exit") => Has(Rest(Solo), "exit")
      PROVE  /\ <<c>> \o r \in Seq(GoodCalls)
             /\ Has(<<c>> \o r, "exit") => Has(Rest(Solo), "exit")
  <2>1. Has(<<c>> \o r, "exit") => c.op = "exit" \/ Has(r, "exit")
    BY HasParts
  <2> QED
    BY <1>6, <2>1, OneMore
<1>7. CASE StartCheck(Solo)
  <2>1. ASSUME NEW s \in Services, NEW v \in Versions \cup {None},
               Onward(StartList(s, v, Rest(Solo))), worker'.snap = load_pids, worker.pc = "begin"
        PROVE  Carries(StartList(s, v, Rest(Solo)))
    <3> DEFINE sp == Call("spawn", s, v)
               ph == Call("php", "php", v)
               st == Call("stop", OtherWeb(s), None)
               q1 == <<sp>> \o Rest(Solo)
               q2 == <<ph>> \o q1
               q3 == <<st>> \o q2
    <3>1. /\ sp \in GoodCalls /\ ph \in GoodCalls /\ st \in GoodCalls
          /\ sp.op = "spawn" /\ ph.op = "php" /\ st.op = "stop"
      BY GoodCall DEF Services, Web, OtherWeb, Call
    <3>2. StartList(s, v, Rest(Solo)) = IF s \in Web THEN q3 ELSE q1
      BY <1>1, ListShape
    <3> HIDE DEF sp, ph, st
    <3>3. q1 \in Seq(GoodCalls) /\ (Has(q1, "exit") => Has(Rest(Solo), "exit"))
      BY <1>1, <1>6, <3>1
    <3> HIDE DEF q1
    <3>4. q2 \in Seq(GoodCalls) /\ (Has(q2, "exit") => Has(Rest(Solo), "exit"))
      BY <1>6, <3>1, <3>3
    <3> HIDE DEF q2
    <3>5. q3 \in Seq(GoodCalls) /\ (Has(q3, "exit") => Has(Rest(Solo), "exit"))
      BY <1>6, <3>1, <3>4
    <3> HIDE DEF q3
    <3> QED
      BY <2>1, <3>2, <3>3, <3>5 DEF Carries
  <2> QED
    BY <1>2, <1>7, <2>1, StartCheckEffect
<1>8. CASE PhpCheck(Solo)
  <2>1. PICK c : c = Call("phpSpawn", "php", Ver(Solo))
    OBVIOUS
  <2>2. c \in GoodCalls /\ c.op = "phpSpawn"
    BY <1>8, <2>1, PhpCheckEffect, GoodCall DEF Call
  <2>3. Has(<<c>> \o Rest(Solo), "spawn") => Has(Rest(Solo), "spawn")
    BY <1>1, <2>2, HasParts
  <2>4. <<c>> \o Rest(Solo) \in Seq(GoodCalls) /\
        (Has(<<c>> \o Rest(Solo), "exit") => Has(Rest(Solo), "exit"))
    BY <1>1, <1>6, <2>2
  <2>5. ASSUME Onward(<<c>> \o Rest(Solo)), worker'.snap = worker.snap
        PROVE  Carries(<<c>> \o Rest(Solo))
    BY <2>3, <2>4, <2>5 DEF Carries
  <2> QED
    BY <1>2, <1>8, <2>1, <2>5, PhpCheckEffect
<1>9. CASE Restart(Solo)
  <2>1. PICK c, d : c = Call("stop", "php", None) /\ d = Call("php", "php", Me(Solo).ver)
    OBVIOUS
  <2>2. c \in GoodCalls /\ d \in GoodCalls /\ c.op = "stop" /\ d.op = "php"
    BY <1>9, <2>1, RestartEffect, GoodCall DEF Call, Services
  <2>3. PICK r : r = <<d>> \o Rest(Solo)
    OBVIOUS
  <2>4. r \in Seq(GoodCalls) /\ (Has(r, "exit") => Has(Rest(Solo), "exit"))
        /\ (Has(r, "spawn") => Has(Rest(Solo), "spawn"))
    BY <1>1, <1>6, <2>2, <2>3, HasParts
  <2>5. <<c>> \o r \in Seq(GoodCalls) /\ (Has(<<c>> \o r, "exit") => Has(Rest(Solo), "exit"))
        /\ (Has(<<c>> \o r, "spawn") => Has(Rest(Solo), "spawn"))
    BY <1>6, <2>2, <2>4, HasParts
  <2>6. RestartList(Me(Solo).ver, Rest(Solo)) = <<c>> \o r
    BY <2>1, <2>3 DEF RestartList
  <2>7. PICK q : /\ q = Rest(Solo) \/ q = <<c>> \o r
                 /\ Onward(q) /\ worker'.snap = KeptSnapshot(Solo, q)
    BY <1>9, <2>6, RestartEffect
  <2>8. Has(q, "spawn") => worker'.snap = worker.snap /\ Has(Rest(Solo), "spawn")
    BY <2>5, <2>7 DEF KeptSnapshot, Has, worker
  <2>9. Carries(q)
    BY <1>1, <2>5, <2>7, <2>8 DEF Carries
  <2> QED
    BY <2>9
<1> QED
  BY <1>3, <1>4, <1>5, <1>7, <1>8, <1>9

LEMMA TracksNext ==
  ASSUME Calmer, NEW tbl, Tracks(tbl)
  PROVE  Serving("mysql")' \subseteq {tbl.pid["mysql"]}
BY DEF Calmer, Tracks, Services

LEMMA GoneIsOver ==
  ASSUME NEW s \in Gone
  PROVE  Over(s)
BY DEF Gone, AliveOf, Alive, Over, Serving

LEMMA RestHas ==
  ASSUME TypeInv, ~Idle(Solo), NEW op, Has(Rest(Solo), op)
  PROVE  Has(worker.todo, op)
<1>1. worker.todo \in Seq(GoodCalls) /\ worker.todo # <<>>
  BY DEF TypeInv, Idle, worker
<1> QED
  BY <1>1, HasParts DEF Rest, worker

(* No spawn is left behind a start of mysqld. *)
LEMMA MineIsLast ==
  ASSUME TypeInv, ProcInv, ~Idle(Solo), Mine
  PROVE  ~Has(Rest(Solo), "spawn")
<1>1. Me(Solo).op = "spawn"
  BY MeGood, CallFields DEF Mine, Starts
<1> QED
  BY <1>1 DEF ProcInv, Left, Mine, Plain, Has, Starts

LEMMA TrackOnward ==
  ASSUME NEW q, Onward(q), Serving("mysql")' \subseteq {pidFile'.data.pid["mysql"]},
         Has(q, "spawn") => Serving("mysql")' \subseteq {worker'.snap.pid["mysql"]}
  PROVE  TrackInv'
BY DEF Onward, TrackInv, Mine, Tracks

LEMMA TrackInside ==
  ASSUME TrackInv, Calmer, NEW pc, Inside(pc), worker.pc # "flush",
         worker.pc = "begin" => Me(Solo).op \notin Starts,
         pidFile' = pidFile \/ pc = "flush",
         pc = "kill" /\ Me(Solo).svc = "mysql" => worker'.pid = pidFile.data.pid["mysql"],
         pc \in {"write", "flush"} => Serving("mysql")' \subseteq {worker'.buf.pid["mysql"]},
         pc \in {"write", "flush"} /\ Me(Solo).op = "stop" => Serving(Me(Solo).svc)' = {},
         pc # "begin"
  PROVE  TrackInv'
<1>1. /\ Me(Solo)' = Me(Solo) /\ worker'.pc = pc /\ worker'.todo = worker.todo
      /\ worker'.snap = worker.snap
  BY SameTodo DEF Inside
<1>2. Mine' = Mine
  BY <1>1 DEF Mine
<1>3. pc # "flush" /\ ~Mine => Tracks(pidFile.data)'
  <2>1. pc # "flush" /\ ~Mine => Serving("mysql")' \subseteq {pidFile.data.pid["mysql"]}
    BY TracksNext DEF TrackInv
  <2> QED
    BY <2>1 DEF Tracks
<1>4. Has(worker.todo, "spawn") /\ ~Mine => Tracks(worker.snap)'
  <2>1. Has(worker.todo, "spawn") /\ ~Mine => Serving("mysql")' \subseteq {worker.snap.pid["mysql"]}
    BY TracksNext DEF TrackInv
  <2> QED
    BY <1>1, <2>1 DEF Tracks
<1>5. pc \in {"write", "flush"} => Tracks(worker.buf)'
  BY DEF Tracks
<1>6. pc \in {"write", "flush"} /\ Me(Solo).op = "stop" => Over(Me(Solo).svc)'
  BY <1>1 DEF Over
<1>7. pc = "kill" /\ Me(Solo).svc = "mysql" => worker'.pid = pidFile'.data.pid["mysql"]
  OBVIOUS
<1> QED
  BY <1>1, <1>2, <1>3, <1>4, <1>5, <1>6, <1>7 DEF TrackInv

LEMMA TrackSameThread ==
  ASSUME TypeInv, TrackInv, Calmer, UNCHANGED <<th, pidFile>>
  PROVE  TrackInv'
<1>1. worker' = worker /\ Me(Solo)' = Me(Solo) /\ Mine' = Mine
  BY SameWorker DEF Mine
<1>2. \A tbl : Tracks(tbl) => Serving("mysql")' \subseteq {tbl.pid["mysql"]}
  BY TracksNext
<1>3. Tracks(pidFile.data) => Tracks(pidFile.data)'
  BY <1>2 DEF Tracks
<1>4. Tracks(worker.buf) => Tracks(worker.buf)'
  BY <1>1, <1>2 DEF Tracks
<1>5. Tracks(worker.snap) => Tracks(worker.snap)'
  BY <1>1, <1>2 DEF Tracks
<1>6. worker.pc \in {"write", "flush"} /\ Me(Solo).op = "stop" /\ Over(Me(Solo).svc) =>
        Over(Me(Solo).svc)'
  <2> SUFFICES ASSUME worker.pc \in {"write", "flush"}, Me(Solo).op = "stop", Over(Me(Solo).svc)
               PROVE  Over(Me(Solo).svc)'
    OBVIOUS
  <2>1. Me(Solo).svc \in Services
    BY MeGood, CallFields DEF TypeInv
  <2> QED
    BY <1>1, <2>1 DEF Over, Calmer
<1> QED
  BY <1>1, <1>3, <1>4, <1>5, <1>6 DEF TrackInv

LEMMA TrackStop ==
  ASSUME OneThread, TypeInv, VerInv, ProcInv, TrackInv, Calmer, StopCheck(Solo), Inside("kill")
  PROVE  TrackInv'
<1>1. /\ Me(Solo).op = "stop" /\ worker.pc = "begin" /\ pidFile' = pidFile
      /\ worker'.pc = "kill"
  BY StopCheckEffect DEF Inside
<1>2. worker'.pid = StatusPid(Me(Solo).svc)
  BY <1>1, StopCheckEffect DEF Onward
<1>3. Me(Solo).svc = "mysql" => worker'.pid = pidFile.data.pid["mysql"]
  BY <1>1, <1>2, TableVersion DEF StatusPid
<1> QED
  BY <1>1, <1>3, TrackInside DEF Starts

LEMMA TrackKill ==
  ASSUME OneThread, TypeInv, VerInv, ProcInv, TrackInv, Calmer, Kill(Solo)
  PROVE  TrackInv'
<1>0. ProcTypeOK
  BY DEF TypeInv, TypeOK
<1>1. /\ ~Idle(Solo) /\ Me(Solo).op = "stop" /\ Me(Solo).svc \in Services /\ worker.pc = "kill"
      /\ UNCHANGED <<image, pidFile>> /\ Inside("write")
      /\ phase' = IF Me(Solo).svc = "mysql" /\ ShutdownHeard
                  THEN [p \in Pids |-> IF image[p] = "mysql" /\ phase[p] = "listening"
                                       THEN "closing" ELSE phase[p]]
                  ELSE Killed(KillSet(Solo))
      /\ worker'.buf = [load_pids EXCEPT !.pid[Me(Solo).svc] = None]
  BY KillEffect
<1>m. Me(Solo)' = Me(Solo)
  BY <1>1, SameTodo DEF Inside
<1>2. Tracks(pidFile.data) /\ load_pids = pidFile.data /\ load_pids \in PidTable
  BY <1>1, TableVersion, Typed DEF TrackInv, Mine, Starts
<1>3. Serving(Me(Solo).svc)' = {}
  <2>1. CASE Me(Solo).svc = "mysql" /\ ShutdownHeard
    <3>1. PICK p \in Serving("mysql") : phase[p] = "listening"
      BY <2>1 DEF ShutdownHeard, AliveOf, Serving
    <3>2. Serving("mysql") = {p}
      BY <1>2, <3>1 DEF Tracks
    <3> QED
      BY <1>1, <1>m, <2>1, <3>1, <3>2 DEF Serving
  <2>2. CASE Me(Solo).svc = "mysql" /\ ~ShutdownHeard
    <3>1. Serving("mysql") \subseteq {worker.pid}
      BY <1>1, <1>2, <2>2 DEF TrackInv, Tracks
    <3>2. Serving("mysql") \subseteq KillSet(Solo)
      BY <2>2, <3>1, ProcessesAssumption DEF KillSet, Serving, worker
    <3>3. \A p \in Pids : phase'[p] \in {"live", "listening"} => p \notin KillSet(Solo) /\ phase'[p] = phase[p]
      BY <1>0, <1>1, <2>2, KilledEffect DEF Alive
    <3> QED
      BY <1>1, <1>m, <2>2, <3>2, <3>3 DEF Serving
  <2>3. CASE Me(Solo).svc # "mysql"
    <3>1. \A p \in Pids : phase'[p] \in {"live", "listening"} =>
            p \notin AliveOf(Me(Solo).svc) /\ phase'[p] = phase[p]
      BY <1>0, <1>1, <2>3, KilledEffect DEF Alive, KillSet
    <3> QED
      BY <1>1, <1>m, <3>1 DEF Serving, AliveOf, Alive
  <2> QED
    BY <2>1, <2>2, <2>3
<1>4. Serving("mysql")' \subseteq {worker'.buf.pid["mysql"]}
  <2>1. CASE Me(Solo).svc = "mysql"
    BY <1>3, <1>m, <2>1
  <2>2. CASE Me(Solo).svc # "mysql"
    <3>1. worker'.buf.pid["mysql"] = pidFile.data.pid["mysql"]
      BY <1>1, <1>2, <2>2 DEF PidTable, Services
    <3> QED
      BY <1>2, <3>1, TracksNext
  <2> QED
    BY <2>1, <2>2
<1> QED
  BY <1>1, <1>3, <1>4, TrackInside

LEMMA TrackSave ==
  ASSUME OneThread, TypeInv, VerInv, ProcInv, TrackInv, Calmer,
         Write(Solo) \/ WaitOk(Solo) \/ SetVersion(Solo)
  PROVE  TrackInv'
<1>1. CASE Write(Solo)
  <2>1. /\ ~Idle(Solo) /\ worker.pc = "write" /\ Inside("flush") /\ worker'.buf = worker.buf
    BY <1>1, SaveEffects
  <2>2. Serving("mysql")' \subseteq {worker'.buf.pid["mysql"]}
    BY <2>1, TracksNext DEF TrackInv
  <2>3. Me(Solo)' = Me(Solo)
    BY <2>1, SameTodo DEF Inside
  <2>4. Me(Solo).op = "stop" => Serving(Me(Solo).svc)' = {}
    BY <2>1, <2>3, MeGood, CallFields DEF TrackInv, Over, Calmer
  <2> QED
    BY <2>1, <2>2, <2>4, TrackInside
<1>2. CASE WaitOk(Solo)
  <2>1. /\ ~Idle(Solo) /\ Me(Solo).op \in Starts /\ Me(Solo).svc \in Services
        /\ worker.pc = "wait" /\ UNCHANGED pidFile /\ Inside("write") /\ TableRead(Solo) \in PidTable
        /\ worker'.buf.pid = [TableRead(Solo).pid EXCEPT ![Me(Solo).svc] = PidFound(Solo)]
    BY <1>2, WaitOkEffect
  <2>2. Serving("mysql")' \subseteq {worker'.buf.pid["mysql"]}
    <3>1. CASE Me(Solo).svc = "mysql"
      <4>1. worker'.buf.pid["mysql"] = worker.pid
        BY <2>1, <3>1 DEF PidFound, PidTable, worker
      <4>2. Serving("mysql") \subseteq {worker.pid}
        BY <2>1, <3>1 DEF ProcInv, Waiting, Serving, AliveOf, Alive
      <4> QED
        BY <4>1, <4>2 DEF Calmer, Services
    <3>2. CASE Me(Solo).svc # "mysql"
      <4>1. worker'.buf.pid["mysql"] = TableRead(Solo).pid["mysql"]
        BY <2>1, <3>2 DEF PidTable, Services
      <4>2. ~Mine
        BY <3>2 DEF Mine
      <4>3. Tracks(TableRead(Solo))
        <5>1. CASE Me(Solo).op = "phpSpawn"
          BY <2>1, <4>2, <5>1, TableVersion DEF TrackInv, TableRead
        <5>2. CASE Me(Solo).op = "spawn"
          <6>1. Has(worker.todo, "spawn")
            BY <2>1, <5>2, MeGood, HasParts DEF TypeInv, Me, worker
          <6> QED
            BY <4>2, <5>2, <6>1 DEF TrackInv, TableRead, worker
        <5> QED
          BY <2>1, <5>1, <5>2 DEF Starts
      <4> QED
        BY <4>1, <4>3, TracksNext
    <3> QED
      BY <3>1, <3>2
  <2> QED
    BY <2>1, <2>2, TrackInside DEF Starts
<1>3. CASE SetVersion(Solo)
  <2>1. /\ ~Idle(Solo) /\ Me(Solo).op = "setver" /\ worker.pc = "begin" /\ UNCHANGED pidFile
        /\ Inside("write") /\ worker'.buf = [load_pids EXCEPT !.ver = Me(Solo).ver]
    BY <1>3, SetVersionEffect
  <2>2. Tracks(pidFile.data) /\ load_pids = pidFile.data /\ load_pids \in PidTable
    BY <2>1, TableVersion, Typed DEF TrackInv, Mine
  <2>3. worker'.buf.pid["mysql"] = pidFile.data.pid["mysql"]
    BY <2>1, <2>2 DEF PidTable
  <2>4. Serving("mysql")' \subseteq {worker'.buf.pid["mysql"]}
    BY <2>2, <2>3, TracksNext
  <2> QED
    BY <2>1, <2>4, TrackInside DEF Starts
<1> QED
  BY <1>1, <1>2, <1>3

LEMMA TrackBegins ==
  ASSUME OneThread, TypeInv, VerInv, ProcInv, TrackInv, Calmer, ~Idle(Solo),
         \/ (StopCheck(Solo) /\ ~Inside("kill")) \/ StartCheck(Solo) \/ PhpCheck(Solo)
         \/ Restart(Solo) \/ SpawnFails(Solo) \/ WaitTimeout(Solo) \/ Flush(Solo)
  PROVE  TrackInv'
<1>1. PICK q : Carries(q)
  BY OnwardSteps
<1>2. Has(Rest(Solo), "spawn") => Has(worker.todo, "spawn") /\ ~Mine
  BY RestHas, MineIsLast
<1>3. Has(q, "spawn") /\ worker'.snap = worker.snap /\ Has(Rest(Solo), "spawn") =>
        Serving("mysql")' \subseteq {worker'.snap.pid["mysql"]}
  BY <1>2, TracksNext DEF TrackInv
<1>4. CASE worker.pc = "begin" /\ pidFile' = pidFile
  <2>1. Tracks(pidFile.data) /\ load_pids = pidFile.data
    BY <1>4, TableVersion DEF TrackInv, Mine
  <2>2. Serving("mysql")' \subseteq {pidFile'.data.pid["mysql"]}
    BY <1>4, <2>1, TracksNext
  <2>3. worker'.snap = load_pids => Serving("mysql")' \subseteq {worker'.snap.pid["mysql"]}
    BY <2>1, TracksNext
  <2> QED
    BY <1>1, <1>3, <2>2, <2>3, TrackOnward DEF Carries
<1>5. ASSUME worker.pc # "begin", Serving("mysql")' \subseteq {pidFile'.data.pid["mysql"]}
      PROVE  TrackInv'
  BY <1>1, <1>3, <1>5, TrackOnward DEF Carries
<1>6. CASE WaitTimeout(Solo) \/ SpawnFails(Solo)
  <2>1. \/ worker.pc = "begin"
        \/ worker.pc = "wait" /\ Me(Solo).op \in Starts /\ phase' = Killed({worker.pid})
    BY <1>6, GiveUpEffects
  <2>2. UNCHANGED <<image, pidFile>>
    BY <1>6, GiveUpEffects
  <2>3. CASE worker.pc = "wait" /\ Mine
    <3>1. Serving("mysql") \subseteq {worker.pid}
      BY <2>3 DEF ProcInv, Waiting, Mine, Serving, AliveOf, Alive
    <3>2. \A p \in Pids : phase'[p] \in {"live", "listening"} => p # worker.pid /\ phase'[p] = phase[p]
      BY <2>1, <2>3, KilledEffect DEF Alive, TypeInv, TypeOK
    <3>3. Serving("mysql")' = {}
      BY <2>2, <3>1, <3>2 DEF Serving
    <3> QED
      BY <1>5, <2>3, <3>3
  <2>4. CASE worker.pc = "wait" /\ ~Mine
    BY <1>5, <2>2, <2>4, TracksNext DEF TrackInv
  <2> QED
    BY <1>4, <2>1, <2>2, <2>3, <2>4
<1>7. CASE Flush(Solo)
  <2>1. worker.pc = "flush" /\ WriteTable(worker.buf)
    BY <1>7, SaveEffects
  <2>2. pidFile'.data = worker.buf
    BY <2>1 DEF WriteTable, VerInv, FileInv
  <2> QED
    BY <1>5, <2>1, <2>2, TracksNext DEF TrackInv
<1>8. CASE StopCheck(Solo) \/ StartCheck(Solo) \/ PhpCheck(Solo) \/ Restart(Solo)
  <2>1. worker.pc = "begin" /\ pidFile' = pidFile
    BY <1>8, StopCheckEffect, StartCheckEffect, PhpCheckEffect, RestartEffect
  <2> QED
    BY <1>4, <2>1
<1> QED
  BY <1>6, <1>7, <1>8

LEMMA TrackSpawn ==
  ASSUME OneThread, TypeInv, VerInv, ProcInv, TrackInv, Spawn(Solo)
  PROVE  TrackInv'
<1>c. PICK c : c = Call(Me(Solo).op, Me(Solo).svc, ChosenVersion(Solo))
  OBVIOUS
<1>1. /\ ~Idle(Solo) /\ Me(Solo).op \in Starts /\ Me(Solo).svc \in Services /\ worker.pc = "begin"
      /\ worker'.pc = "wait" /\ worker'.pid \in Pids /\ Popen(worker'.pid, Me(Solo).svc)
      /\ worker'.todo = <<c>> \o Rest(Solo) /\ c \in GoodCalls /\ Rest(Solo) \in Seq(GoodCalls)
      /\ c.op = Me(Solo).op /\ c.svc = Me(Solo).svc /\ worker'.snap = worker.snap
      /\ pidFile' = pidFile
  BY <1>c, SpawnEffect, MeGood DEF Call
<1>2. Me(Solo)' = c
  BY <1>1, NewTodo
<1>3. Mine' <=> c.svc = "mysql"
  BY <1>1, <1>2 DEF Mine
<1>4. CASE Me(Solo).svc = "mysql"
  BY <1>1, <1>3, <1>4 DEF TrackInv
<1>5. CASE Me(Solo).svc # "mysql"
  <2>1. PICK n \in Pids : n = worker'.pid /\ Popen(n, Me(Solo).svc)
    BY <1>1
  <2>2. image'[n] = Me(Solo).svc /\ \A p \in Pids : p # n => image'[p] = image[p] /\ phase'[p] = phase[p]
    BY <1>1, <2>1, PopenEffect DEF TypeInv, TypeOK
  <2>3. Serving("mysql")' \subseteq Serving("mysql")
    BY <1>5, <2>2 DEF Serving
  <2>4. ~Mine
    BY <1>1 DEF Mine
  <2>5. Tracks(pidFile.data)'
    BY <1>1, <2>3, <2>4 DEF TrackInv, Tracks
  <2>6. Has(worker'.todo, "spawn") => Has(worker.todo, "spawn")
    <3>1. Has(worker'.todo, "spawn") => c.op = "spawn" \/ Has(Rest(Solo), "spawn")
      BY <1>1, HasParts
    <3>2. worker.todo \in Seq(GoodCalls) /\ worker.todo # <<>> /\ Head(worker.todo) = Me(Solo)
      BY <1>1 DEF TypeInv, Me, worker, Idle
    <3>3. Me(Solo).op = "spawn" => Has(worker.todo, "spawn")
      BY <3>2, HasParts
    <3> QED
      BY <1>1, <3>1, <3>3, RestHas
  <2>7. Has(worker'.todo, "spawn") => Tracks(worker.snap)'
    BY <1>1, <2>3, <2>4, <2>6 DEF TrackInv, Tracks
  <2> QED
    BY <1>1, <2>5, <2>7 DEF TrackInv
<1> QED
  BY <1>4, <1>5

(* The window comes up: what is found on mysqld's port keeps its entry. *)
LEMMA TrackLaunch ==
  ASSUME OneThread, TypeInv, VerInv, ProcInv, TrackInv, Launch
  PROVE  TrackInv'
<1>1. /\ th' = th /\ UNCHANGED procVars /\ gui = "down"
      /\ pidFile' = IF Cleaned(load_pids) # load_pids
                    THEN [state |-> "json", data |-> Cleaned(load_pids)] ELSE pidFile
  BY DEF Launch, LaunchWith
<1>2. Idle(Solo) /\ worker.pc = "begin" /\ worker' = worker /\ worker.todo = <<>>
  BY <1>1, SameWorker DEF VerInv, NoneDown, TypeInv, Idle, worker
<1>3. Serving("mysql")' = Serving("mysql")
  BY <1>1 DEF Serving, procVars
<1>4. Tracks(pidFile.data) /\ load_pids = pidFile.data /\ load_pids \in PidTable
  BY <1>2, TableVersion, Typed DEF TrackInv, Mine
<1>5. Serving("mysql") # {} => is_port_open(PortOf["mysql"])
  <2> SUFFICES ASSUME NEW p \in Serving("mysql") PROVE is_port_open(PortOf["mysql"])
    OBVIOUS
  <2>1. p \in Pids /\ image[p] = "mysql" /\ "mysql" \in Services /\ phase[p] \in {"live", "listening"}
    BY DEF Serving, Services
  <2>2. CASE phase[p] = "live"
    BY <1>2, <2>1, <2>2 DEF ProcInv, Settled, is_port_open
  <2>3. CASE phase[p] = "listening"
    BY <2>1, <2>3 DEF is_port_open, Listeners
  <2> QED
    BY <2>1, <2>2, <2>3
<1>6. is_port_open(PortOf["mysql"]) => Cleaned(load_pids).pid["mysql"] = load_pids.pid["mysql"]
  BY <1>4 DEF Cleaned, PidTable, Services
<1>7. Serving("mysql") \subseteq {pidFile'.data.pid["mysql"]}
  BY <1>1, <1>4, <1>5, <1>6 DEF Tracks
<1>8. Tracks(pidFile.data)'
  BY <1>3, <1>7 DEF Tracks
<1> QED
  BY <1>2, <1>8 DEF TrackInv, Has

LEMMA TrackSession ==
  ASSUME OneThread, TypeInv, VerInv, ProcInv, TrackInv, Calmer, FinishExit(Solo) \/ Button(Solo)
  PROVE  TrackInv'
<1>1. CASE FinishExit(Solo)
  <2>1. worker'.todo = <<>> /\ worker'.pc = "begin" /\ pidFile' = pidFile /\ worker.pc = "begin"
    BY <1>1, FinishExitEffect DEF IdleThread
  <2>2. Tracks(pidFile.data)'
    BY <2>1, TracksNext DEF TrackInv, Mine, Tracks
  <2> QED
    BY <2>1, <2>2 DEF TrackInv, Has
<1>2. CASE Button(Solo)
  <2>1. worker'.pc = "begin" /\ pidFile' = pidFile /\ worker.pc = "begin"
    BY <1>2, ButtonEffect
  <2>2. ~Has(worker'.todo, "spawn")
    BY <1>2, ButtonPlain
  <2>3. Tracks(pidFile.data)'
    BY <2>1, TracksNext DEF TrackInv, Mine, Tracks
  <2> QED
    BY <2>1, <2>2, <2>3 DEF TrackInv
<1> QED
  BY <1>1, <1>2

LEMMA NextTrack ==
  ASSUME Apart, OneThread, Faults \subseteq {"process"}, TypeInv, VerInv, ProcInv, TrackInv, [Next]_vars
  PROVE  TrackInv'
<1>1. Spawn(Solo) \/ Calmer
  BY CalmSteps
<1>2. CASE Spawn(Solo)
  BY <1>2, TrackSpawn
<1>3. CASE Calmer /\ ThreadStep(Solo)
  <2>1. StopCheck(Solo) /\ Inside("kill") => TrackInv'
    BY <1>3, TrackStop
  <2>2. Kill(Solo) => TrackInv'
    BY <1>3, TrackKill
  <2>3. Write(Solo) \/ WaitOk(Solo) \/ SetVersion(Solo) => TrackInv'
    BY <1>3, TrackSave
  <2>4. FinishExit(Solo) => TrackInv'
    BY <1>3, TrackSession
  <2>5. ~Idle(Solo)
    BY <1>3 DEF ThreadStep, StopCheck, Kill, Write, Flush, StartCheck, PhpCheck, Spawn, SpawnFails,
                WaitOk, WaitTimeout, SetVersion, Restart, FinishExit, At
  <2>6. ASSUME \/ (StopCheck(Solo) /\ ~Inside("kill")) \/ StartCheck(Solo) \/ PhpCheck(Solo)
               \/ Restart(Solo) \/ SpawnFails(Solo) \/ WaitTimeout(Solo) \/ Flush(Solo)
        PROVE  TrackInv'
    BY <2>6, <1>3, <2>5, TrackBegins
  <2> QED
    BY <1>2, <1>3, <2>1, <2>2, <2>3, <2>4, <2>6 DEF ThreadStep
<1>4. CASE Calmer /\ (Environment \/ UNCHANGED vars)
  <2>1. UNCHANGED <<th, pidFile>>
    BY <1>4, EnvironmentEffect DEF vars, appVars
  <2> QED
    BY <1>4, <2>1, TrackSameThread
<1>5. CASE Calmer /\ Button(Solo)
  BY <1>5, TrackSession
<1>6. CASE Launch
  BY <1>6, TrackLaunch
<1> QED
  BY <1>1, <1>2, <1>3, <1>4, <1>5, <1>6, NextCases

LEMMA InitTrack == OneThread /\ Init => TrackInv
<1> SUFFICES ASSUME OneThread, Init PROVE TrackInv
  OBVIOUS
<1>1. Serving("mysql") = {}
  BY DEF Init, ProcInit, Serving
<1>2. worker.todo = <<>> /\ worker.pc = "begin"
  BY DEF Init, IdleThread, worker, OneThread
<1> QED
  BY <1>1, <1>2 DEF TrackInv, Tracks, Has

(* A stop that is about to clear the entry and report "stopped" has reached *)
(* every process of its service (stop_service_internal, app.py:2144), with  *)
(* and without a root password, whatever was started, crashed or found the  *)
(* port taken before: the entry it read names the mysqld that serves.       *)
THEOREM StopsReach ==
  ASSUME Apart, OneThread, Faults \subseteq {"process"}
  PROVE  Spec => []StoppedMeansDown
<1>1. TrackInv => StoppedMeansDown
  <2> SUFFICES ASSUME TrackInv, NEW t \in Threads, At(t, "write", {"stop"})
               PROVE  ~Listening(Me(t).svc)
    BY DEF StoppedMeansDown
  <2>1. t = Solo /\ worker.pc = "write" /\ Me(Solo).op = "stop"
    BY DEF OneThread, At, worker
  <2> QED
    BY <2>1 DEF TrackInv, Over, Serving, Listening, AliveOf
<1>2. TypeInv /\ VerInv /\ [Next]_vars => TypeInv' /\ VerInv'
  BY NextTypeInv, NextVersion
<1>3. TypeInv /\ VerInv /\ ProcInv /\ [Next]_vars => ProcInv'
  BY NextProcs DEF VerInv
<1>4. TypeInv /\ VerInv /\ ProcInv /\ TrackInv /\ [Next]_vars => TrackInv'
  BY NextTrack
<1>5. Init => TypeInv /\ VerInv /\ ProcInv /\ TrackInv
  BY InitTypeInv, InitVersion, InitProcs, InitTrack
<1> QED
  BY <1>1, <1>2, <1>3, <1>4, <1>5, PTL DEF Spec

-----------------------------------------------------------------------------
(* The calls of real_exit: their shape, and what is still to be stopped. *)

ExitCalls(q) ==
  \A i \in DOMAIN q : q[i].op \in {"stop", "exit"} /\ (q[i].op = "exit" => i = Len(q))

ToStop(q, s) == \E i \in DOMAIN q : q[i].op = "stop" /\ q[i].svc = s

LEMMA ExitRest ==
  ASSUME NEW q \in Seq(GoodCalls), q # <<>>, ExitCalls(q)
  PROVE  /\ Head(q).op \in {"stop", "exit"}
         /\ ExitCalls(Tail(q))
         /\ \A s : ToStop(q, s) => ToStop(Tail(q), s) \/ (Head(q).op = "stop" /\ Head(q).svc = s)
         /\ \A s : Head(q).op = "exit" => ~ToStop(q, s)
<1>1. /\ Head(q) = q[1] /\ 1 \in DOMAIN q /\ Len(Tail(q)) = Len(q) - 1 /\ Len(q) \in Nat
      /\ DOMAIN q = 1..Len(q) /\ DOMAIN Tail(q) = 1..Len(Tail(q))
      /\ \A i \in DOMAIN Tail(q) : i + 1 \in DOMAIN q /\ Tail(q)[i] = q[i + 1]
  OBVIOUS
<1>2. ExitCalls(Tail(q))
  BY <1>1 DEF ExitCalls
<1>3. ASSUME NEW s, NEW i \in DOMAIN q, q[i].op = "stop", q[i].svc = s, i # 1
      PROVE  ToStop(Tail(q), s)
  <2>1. i - 1 \in DOMAIN Tail(q) /\ Tail(q)[i - 1] = q[i]
    BY <1>1, <1>3
  <2> QED
    BY <1>3, <2>1 DEF ToStop
<1>4. ASSUME Head(q).op = "exit", NEW i \in DOMAIN q PROVE i = 1
  BY <1>1, <1>4 DEF ExitCalls
<1>5. ASSUME NEW s, ToStop(q, s)
      PROVE  ToStop(Tail(q), s) \/ (Head(q).op = "stop" /\ Head(q).svc = s)
  BY <1>1, <1>3, <1>5 DEF ToStop
<1>6. ASSUME NEW s, Head(q).op = "exit" PROVE ~ToStop(q, s)
  BY <1>1, <1>4, <1>6 DEF ToStop
<1>7. Head(q).op \in {"stop", "exit"}
  BY <1>1 DEF ExitCalls
<1> QED
  BY <1>2, <1>5, <1>6, <1>7

LEMMA OneAfter ==
  ASSUME NEW S, NEW q \in Seq(S), NEW c \in S
  PROVE  /\ Len(q \o <<c>>) = Len(q) + 1 /\ DOMAIN (q \o <<c>>) = 1..(Len(q) + 1)
         /\ (q \o <<c>>)[Len(q) + 1] = c
         /\ \A i \in 1..Len(q) : (q \o <<c>>)[i] = q[i]
OBVIOUS

LEMMA ExitListShape ==
  ExitCalls(ExitList) /\ \A s \in Services : ToStop(ExitList, s)
<1> DEFINE e == Call("exit", None, None)
<1>1. e.op = "exit"
  BY DEF Call
<1>2. /\ Len(StopEach) = 4
      /\ \A i \in 1..4 : StopEach[i].op = "stop"
      /\ StopEach[1].svc = "nginx" /\ StopEach[2].svc = "apache"
      /\ StopEach[3].svc = "mysql" /\ StopEach[4].svc = "php"
  BY DEF StopEach, Call
<1>3. StopEach \in Seq(GoodCalls) /\ e \in GoodCalls /\ ExitList = StopEach \o <<e>>
  BY GoodCall, ButtonCalls DEF ExitList
<1> HIDE DEF e
<1>a. /\ Len(ExitList) = Len(StopEach) + 1 /\ DOMAIN ExitList = 1..(Len(StopEach) + 1)
      /\ ExitList[Len(StopEach) + 1] = e
      /\ \A i \in 1..Len(StopEach) : ExitList[i] = StopEach[i]
  BY <1>3, OneAfter
<1>4. /\ Len(ExitList) = 5 /\ DOMAIN ExitList = 1..5 /\ ExitList[5] = e
      /\ \A i \in 1..4 : ExitList[i] = StopEach[i]
  BY <1>2, <1>a
<1>5. ExitCalls(ExitList)
  <2> SUFFICES ASSUME NEW i \in 1..5
               PROVE  ExitList[i].op \in {"stop", "exit"} /\ (ExitList[i].op = "exit" => i = 5)
    BY <1>4 DEF ExitCalls
  <2>1. CASE i = 5
    BY <1>1, <1>4, <2>1
  <2>2. CASE i # 5
    <3>1. i \in 1..4
      BY <2>2
    <3> QED
      BY <1>2, <1>4, <3>1
  <2> QED
    BY <2>1, <2>2
<1>6. ASSUME NEW i \in 1..4 PROVE ToStop(ExitList, StopEach[i].svc)
  <2>1. i \in DOMAIN ExitList /\ ExitList[i] = StopEach[i]
    BY <1>4
  <2> QED
    BY <1>2, <2>1 DEF ToStop
<1>7. ToStop(ExitList, "nginx") /\ ToStop(ExitList, "apache") /\ ToStop(ExitList, "mysql")
      /\ ToStop(ExitList, "php")
  BY <1>2, <1>6
<1> QED
  BY <1>5, <1>7 DEF Services, Web

LEMMA OverNext ==
  ASSUME Calmer
  PROVE  \A s \in Services : Over(s) => Serving(s)' = {}
BY DEF Calmer, Over

(* ExitInv, with the two operators. *)
LEMMA ExitParts ==
  ExitInv <=> /\ gui = "down" => \A s \in Services : Over(s)
              /\ gui = "exiting" => /\ ExitCalls(worker.todo)
                                    /\ \A s \in Services : Over(s) \/ ToStop(worker.todo, s)
              /\ gui # "exiting" => ~Has(worker.todo, "exit")
BY DEF ExitInv, ExitCalls, ToStop

LEMMA ExitNext ==
  ASSUME gui' = "down" => \A s \in Services : Serving(s)' = {},
         gui' = "exiting" => /\ ExitCalls(worker'.todo)
                             /\ \A s \in Services : Serving(s)' = {} \/ ToStop(worker'.todo, s),
         gui' # "exiting" => ~Has(worker'.todo, "exit")
  PROVE  ExitInv'
BY DEF ExitInv, ExitCalls, ToStop, Over, Has

LEMMA ExitSame ==
  ASSUME ExitInv, Calmer, worker'.todo = worker.todo, gui' = gui
  PROVE  ExitInv'
BY OverNext, ExitParts, ExitNext

LEMMA ExitBegins ==
  ASSUME OneThread, TypeInv, VerInv, ProcInv, TrackInv, ExitInv, Calmer, ~Idle(Solo),
         \/ (StopCheck(Solo) /\ ~Inside("kill")) \/ StartCheck(Solo) \/ PhpCheck(Solo)
         \/ Restart(Solo) \/ SpawnFails(Solo) \/ WaitTimeout(Solo) \/ Flush(Solo)
  PROVE  ExitInv'
<1>0. Settled /\ ProcTypeOK
  BY DEF ProcInv, TypeInv, TypeOK
<1>1. gui # "down" /\ gui' = gui
  BY StopCheckEffect, StartCheckEffect, PhpCheckEffect, RestartEffect, GiveUpEffects, SaveEffects
  DEF VerInv, NoneDown
<1>2. CASE gui # "exiting"
  <2>1. PICK q : Carries(q)
    BY OnwardSteps
  <2>2. ~Has(q, "exit")
    BY <1>2, <2>1, RestHas, ExitParts DEF Carries
  <2> QED
    BY <1>1, <1>2, <2>1, <2>2, ExitNext DEF Carries, Onward
<1>3. CASE gui = "exiting"
  <2>1. /\ worker.todo \in Seq(GoodCalls) /\ worker.todo # <<>>
        /\ Head(worker.todo) = Me(Solo) /\ Tail(worker.todo) = Rest(Solo)
    BY DEF TypeInv, Idle, worker, Me, Rest
  <2>2. ExitCalls(worker.todo) /\ \A s \in Services : Over(s) \/ ToStop(worker.todo, s)
    BY <1>3, ExitParts
  <2>3. Me(Solo).op \in {"stop", "exit"} /\ ExitCalls(Rest(Solo))
        /\ \A s : ToStop(worker.todo, s) => ToStop(Rest(Solo), s) \/ (Me(Solo).op = "stop" /\ Me(Solo).svc = s)
    BY <2>1, <2>2, ExitRest
  <2>4. (StopCheck(Solo) /\ ~Inside("kill")) \/ Flush(Solo)
    BY <2>3, StartCheckEffect, PhpCheckEffect, RestartEffect, GiveUpEffects DEF Starts
  <2>5. worker'.todo = Rest(Solo)
    BY <2>4, StopCheckEffect, SaveEffects DEF Onward
  <2>6. Me(Solo).op = "stop" => Over(Me(Solo).svc)
    <3>1. CASE StopCheck(Solo) /\ ~Inside("kill")
      BY <1>0, <3>1, StopCheckEffect, NotRunning, GoneIsOver
    <3>2. CASE Flush(Solo)
      BY <3>2, SaveEffects DEF TrackInv
    <3> QED
      BY <2>4, <3>1, <3>2
  <2>7. \A s \in Services : Serving(s)' = {} \/ ToStop(worker'.todo, s)
    BY <2>2, <2>3, <2>5, <2>6, OverNext
  <2> QED
    BY <1>1, <1>3, <2>3, <2>5, <2>7, ExitNext
<1> QED
  BY <1>2, <1>3

LEMMA ExitSpawn ==
  ASSUME OneThread, TypeInv, VerInv, ExitInv, Spawn(Solo)
  PROVE  ExitInv'
<1>c. PICK c : c = Call(Me(Solo).op, Me(Solo).svc, ChosenVersion(Solo))
  OBVIOUS
<1>1. /\ ~Idle(Solo) /\ Me(Solo).op \in Starts /\ gui' = gui /\ gui # "down"
      /\ worker'.todo = <<c>> \o Rest(Solo) /\ c \in GoodCalls /\ Rest(Solo) \in Seq(GoodCalls)
      /\ c.op = Me(Solo).op
  BY <1>c, SpawnEffect, MeGood DEF Call, VerInv, NoneDown
<1>2. gui # "exiting"
  <2>1. worker.todo \in Seq(GoodCalls) /\ worker.todo # <<>> /\ Head(worker.todo) = Me(Solo)
    BY <1>1 DEF TypeInv, Idle, worker, Me
  <2>2. ExitCalls(worker.todo) => Me(Solo).op \in {"stop", "exit"}
    BY <2>1, ExitRest
  <2> QED
    BY <1>1, <2>2, ExitParts DEF Starts
<1>3. ~Has(worker'.todo, "exit")
  <2>1. Has(worker'.todo, "exit") => c.op = "exit" \/ Has(Rest(Solo), "exit")
    BY <1>1, HasParts
  <2> QED
    BY <1>1, <1>2, <2>1, RestHas, ExitParts DEF Starts
<1> QED
  BY <1>1, <1>2, <1>3, ExitNext

LEMMA ExitSession ==
  ASSUME OneThread, TypeInv, VerInv, ExitInv, Calmer,
         FinishExit(Solo) \/ Button(Solo) \/ Launch
  PROVE  ExitInv'
<1>1. CASE FinishExit(Solo)
  <2>1. ~Idle(Solo) /\ Me(Solo).op = "exit" /\ gui' = "down" /\ worker'.todo = <<>>
    BY <1>1, FinishExitEffect DEF IdleThread
  <2>2. worker.todo \in Seq(GoodCalls) /\ worker.todo # <<>> /\ Head(worker.todo) = Me(Solo)
    BY <2>1 DEF TypeInv, Idle, worker, Me
  <2>3. Has(worker.todo, "exit")
    BY <2>1, <2>2, HasParts
  <2>4. ExitCalls(worker.todo) /\ \A s \in Services : Over(s) \/ ToStop(worker.todo, s)
    BY <2>3, ExitParts
  <2>5. \A s \in Services : Over(s)
    BY <2>1, <2>2, <2>4, ExitRest
  <2> QED
    BY <2>1, <2>5, OverNext, ExitNext DEF Has
<1>2. CASE Launch
  <2>1. gui' = "up" /\ gui = "down" /\ worker' = worker
    BY <1>2, SameWorker DEF Launch, LaunchWith
  <2>2. ~Has(worker.todo, "exit")
    BY <2>1, ExitParts
  <2> QED
    BY <2>1, <2>2, ExitNext
<1>3. CASE Button(Solo)
  <2>1. \/ gui' = "exiting" /\ worker'.todo = ExitList
        \/ gui' = gui /\ gui = "up" /\ ~Has(worker'.todo, "exit")
    <3>1. \A op, svc, ver : op # "exit" => ~Has(<<Call(op, svc, ver)>>, "exit")
      BY DEF Has, Call
    <3>2. \A op, svc, ver, op2, svc2, ver2 : op # "exit" /\ op2 # "exit" =>
            ~Has(<<Call(op, svc, ver), Call(op2, svc2, ver2)>>, "exit")
      BY DEF Has, Call
    <3>3. ~Has(StopEach, "exit")
      BY DEF Has, Call, StopEach
    <3> QED
      BY <1>3, <3>1, <3>2, <3>3, ButtonEffect
  <2> QED
    BY <2>1, ExitListShape, ExitNext
<1> QED
  BY <1>1, <1>2, <1>3

LEMMA NextExit ==
  ASSUME OneThread, Faults \subseteq {"process"}, TypeInv, VerInv, ProcInv, TrackInv, ExitInv, [Next]_vars
  PROVE  ExitInv'
<1>1. Spawn(Solo) \/ Calmer
  BY CalmSteps
<1>2. CASE Spawn(Solo)
  BY <1>2, ExitSpawn
<1>3. CASE Calmer /\ ThreadStep(Solo)
  <2>1. ASSUME \/ (StopCheck(Solo) /\ Inside("kill")) \/ Kill(Solo) \/ Write(Solo)
               \/ WaitOk(Solo) \/ SetVersion(Solo)
        PROVE  ExitInv'
    <3>1. worker'.todo = worker.todo /\ gui' = gui
      BY <2>1, StopCheckEffect, KillEffect, SaveEffects, WaitOkEffect, SetVersionEffect DEF Inside
    <3> QED
      BY <1>3, <3>1, ExitSame
  <2>2. ~Idle(Solo)
    BY <1>3 DEF ThreadStep, StopCheck, Kill, Write, Flush, StartCheck, PhpCheck, Spawn, SpawnFails,
                WaitOk, WaitTimeout, SetVersion, Restart, FinishExit, At
  <2>3. ASSUME \/ (StopCheck(Solo) /\ ~Inside("kill")) \/ StartCheck(Solo) \/ PhpCheck(Solo)
               \/ Restart(Solo) \/ SpawnFails(Solo) \/ WaitTimeout(Solo) \/ Flush(Solo)
        PROVE  ExitInv'
    BY <1>3, <2>2, <2>3, ExitBegins
  <2>4. FinishExit(Solo) => ExitInv'
    BY <1>3, ExitSession
  <2> QED
    BY <1>2, <1>3, <2>1, <2>3, <2>4 DEF ThreadStep
<1>4. CASE Calmer /\ (Environment \/ UNCHANGED vars)
  <2>1. worker' = worker /\ gui' = gui
    BY <1>4, EnvironmentEffect, SameWorker DEF vars, appVars
  <2> QED
    BY <1>4, <2>1, ExitSame
<1>5. CASE Calmer /\ (Button(Solo) \/ Launch)
  BY <1>5, ExitSession
<1> QED
  BY <1>1, <1>2, <1>3, <1>4, <1>5, NextCases

LEMMA InitExit == OneThread /\ Init => ExitInv
<1> SUFFICES ASSUME OneThread, Init PROVE ExitInv
  OBVIOUS
<1>1. \A s \in Services : Serving(s) = {}
  BY DEF Init, ProcInit, Serving
<1>2. worker.todo = <<>> /\ gui = "down"
  BY DEF Init, IdleThread, worker, OneThread
<1> QED
  BY <1>1, <1>2 DEF ExitInv, Over, Has

(* When the window is gone by its exit dialog ("Shutting down background    *)
(* services...", app.py:3496) nothing of WinPHP serves or is about to: the  *)
(* four stops of real_exit reach whatever the session left behind, in its   *)
(* own time or after a crash, and nothing comes up behind them.             *)
THEOREM ExitIsClean ==
  ASSUME Apart, OneThread, Faults \subseteq {"process"}
  PROVE  Spec => []ExitLeavesNothing
<1>1. ExitInv => ExitLeavesNothing
  BY DEF ExitInv, ExitLeavesNothing, Over, Serving
<1>2. TypeInv /\ VerInv /\ [Next]_vars => TypeInv' /\ VerInv'
  BY NextTypeInv, NextVersion
<1>3. TypeInv /\ VerInv /\ ProcInv /\ [Next]_vars => ProcInv'
  BY NextProcs DEF VerInv
<1>4. TypeInv /\ VerInv /\ ProcInv /\ TrackInv /\ [Next]_vars => TrackInv'
  BY NextTrack
<1>5. TypeInv /\ VerInv /\ ProcInv /\ TrackInv /\ ExitInv /\ [Next]_vars => ExitInv'
  BY NextExit
<1>6. Init => TypeInv /\ VerInv /\ ProcInv /\ TrackInv /\ ExitInv
  BY InitTypeInv, InitVersion, InitProcs, InitTrack, InitExit
<1> QED
  BY <1>1, <1>2, <1>3, <1>4, <1>5, <1>6, PTL DEF Spec

-----------------------------------------------------------------------------
(* StartedMeansUp.  The port that answers is the one of the process the     *)
(* thread waits for; nginx.pid may be older, and names an nginx (OwnInv).   *)

Free == \A s \in Services : PortOf[s] \notin BusyPorts

UpInv ==
  worker.pc = "write" /\ Me(Solo).op \in Starts =>
    /\ Listening(Me(Solo).svc)
    /\ worker.pid \in Pids /\ image[worker.pid] = Me(Solo).svc
    /\ Me(Solo).svc # "nginx" => phase[worker.pid] = "listening"

LEMMA UpWait ==
  ASSUME Apart, Free, OneThread, TypeInv, ProcInv, OwnInv, WaitOk(Solo)
  PROVE  UpInv'
<1>1. /\ ~Idle(Solo) /\ Me(Solo).svc \in Services
      /\ worker.pc = "wait" /\ is_port_open(PortOf[Me(Solo).svc]) /\ UNCHANGED procVars
      /\ Inside("write") /\ worker'.pid = PidFound(Solo)
  BY WaitOkEffect
<1>2. /\ image[worker.pid] = Me(Solo).svc /\ phase[worker.pid] = "listening" /\ worker.pid \in Pids
  BY <1>1, WaitedPort DEF Free, TypeInv
<1>3. Listening(Me(Solo).svc)
  BY <1>2 DEF Listening, AliveOf, Alive
<1>4. /\ PidFound(Solo) \in Pids /\ image[PidFound(Solo)] = Me(Solo).svc
      /\ Me(Solo).svc # "nginx" => PidFound(Solo) = worker.pid
  BY <1>2 DEF PidFound, OwnInv, Own, TypeOK, ProcTypeOK, worker
<1>5. Me(Solo)' = Me(Solo) /\ image' = image /\ phase' = phase
  BY <1>1, SameTodo DEF Inside, procVars
<1> QED
  BY <1>1, <1>2, <1>3, <1>4, <1>5 DEF UpInv, Listening, AliveOf, Alive

(* What listens goes on listening. *)
LEMMA UpStays ==
  ASSUME UpInv, worker' = worker, Me(Solo)' = Me(Solo),
         \A p \in Pids : phase[p] = "listening" => phase'[p] = "listening",
         image' = image
  PROVE  UpInv'
BY DEF UpInv, Listening, AliveOf, Alive

LEMMA NextUp ==
  ASSUME Apart, Free, OneThread, Faults = {}, ReusePids = FALSE, TypeInv, VerInv, ProcInv,
         OwnInv, UpInv, [Next]_vars
  PROVE  UpInv'
<1>0. ProcTypeOK
  BY DEF TypeInv, TypeOK
<1>1. CASE WaitOk(Solo)
  BY <1>1, UpWait
<1>2. ASSUME worker'.pc # "write" PROVE UpInv'
  BY <1>2 DEF UpInv
<1>3. CASE Kill(Solo) \/ SetVersion(Solo)
  <2>1. Me(Solo).op \notin Starts /\ Me(Solo)' = Me(Solo)
    BY <1>3, KillEffect, SetVersionEffect, SameTodo DEF Inside, Starts
  <2> QED
    BY <2>1 DEF UpInv
<1>4. CASE Write(Solo) \/ Flush(Solo) \/ StopCheck(Solo) \/ Spawn(Solo) \/ FinishExit(Solo)
           \/ Button(Solo) \/ StartCheck(Solo) \/ PhpCheck(Solo) \/ Restart(Solo)
           \/ SpawnFails(Solo) \/ WaitTimeout(Solo)
  BY <1>2, <1>4, SaveEffects, StopCheckEffect, SpawnEffect, FinishExitEffect, ButtonEffect,
     StartCheckEffect, PhpCheckEffect, RestartEffect, GiveUpEffects
  DEF Inside, Onward, IdleThread
<1>5. CASE Launch \/ UNCHANGED vars
  <2>1. worker' = worker /\ Me(Solo)' = Me(Solo) /\ image' = image /\ phase' = phase
    BY <1>5, SameWorker DEF Launch, LaunchWith, vars, appVars, procVars
  <2> QED
    BY <2>1, UpStays
<1>6. CASE Environment
  <2>1. worker' = worker /\ Me(Solo)' = Me(Solo)
    BY <1>6, EnvironmentEffect, SameWorker
  <2>2. PICK p \in Pids :
          /\ \A q \in Pids : q # p => image'[q] = image[q] /\ phase'[q] = phase[q]
          /\ \/ Bind(p)
             \/ Alive(p) /\ (phase[p] = "closing" \/ "process" \in Faults)
             \/ phase' = phase
    BY <1>0, <1>6, ProcessEffect
  <2>3. \A q \in Pids : phase[q] = "listening" => phase'[q] = "listening"
    BY <1>0, <2>2, BindEffect
  <2>4. image' = image
    BY <1>6
    DEF Environment, Bind, WriteNginxPid, CloseDown, ReusePid, ServiceCrash, ProcCrash
  <2> QED
    BY <2>1, <2>3, <2>4, UpStays
<1> QED
  BY <1>1, <1>3, <1>4, <1>5, <1>6, NextCases DEF ThreadStep

LEMMA InitUp == OneThread /\ Init => UpInv
<1> SUFFICES ASSUME OneThread, Init PROVE UpInv
  OBVIOUS
<1>1. worker.pc = "begin"
  BY DEF Init, IdleThread, worker, OneThread
<1> QED
  BY <1>1 DEF UpInv

(* A start that is about to report success: its service listens, and the    *)
(* pid it records is that of the listening process ("Wait up to 5 seconds   *)
(* for port bind", app.py:551), for nginx that of some nginx, since its pid *)
(* file is read before a new nginx need have written it; if no other        *)
(* program holds a service's port, no service dies by itself, the table can *)
(* be saved and Windows does not hand out a dead process's id again.        *)
THEOREM StartsReach ==
  ASSUME Apart, Free, OneThread, Faults = {}, ReusePids = FALSE
  PROVE  Spec => []StartedMeansUp
<1>1. UpInv => StartedMeansUp
  <2> SUFFICES ASSUME UpInv, NEW t \in Threads, At(t, "write", {"spawn", "phpSpawn"})
               PROVE  /\ Listening(Me(t).svc) /\ image[th[t].pid] = Me(t).svc
                      /\ Me(t).svc # "nginx" => phase[th[t].pid] = "listening"
    BY DEF StartedMeansUp
  <2>1. t = Solo /\ worker.pc = "write" /\ Me(Solo).op \in Starts
    BY DEF OneThread, At, worker, Starts
  <2> QED
    BY <2>1 DEF UpInv, worker
<1>2. TypeInv /\ VerInv /\ [Next]_vars => TypeInv' /\ VerInv'
  BY NextTypeInv, NextVersion
<1>3. TypeInv /\ VerInv /\ ProcInv /\ [Next]_vars => ProcInv'
  BY NextProcs DEF VerInv
<1>4. OwnInv /\ [Next]_vars => OwnInv'
  BY OwnNext
<1>5. TypeInv /\ VerInv /\ ProcInv /\ OwnInv /\ UpInv /\ [Next]_vars => UpInv'
  BY NextUp
<1>6. Init => TypeInv /\ VerInv /\ ProcInv /\ OwnInv /\ UpInv
  BY InitTypeInv, InitVersion, InitProcs, OwnInit, InitUp
<1> QED
  BY <1>1, <1>2, <1>3, <1>4, <1>5, <1>6, PTL DEF Spec

-----------------------------------------------------------------------------
(* The refinement of ServiceBoard.  A step of the model is a Request, a     *)
(* Proceed, one Come, one Go, or leaves the board alone.                    *)

UpNow == {s \in Services : Listening(s)}

Coming(q) == UNION {MayCome(q[i]) : i \in DOMAIN q}
Going(q)  == UNION {MayGo(q[i]) : i \in DOMAIN q}

BoardStep == [Board!BoardNext]_(Board!boardVars)

LEMMA BoardLists ==
  ASSUME OneThread
  PROVE  /\ UNION {MayCome(c) : c \in Pending} = Coming(worker.todo)
         /\ UNION {MayGo(c) : c \in Pending} = Going(worker.todo)
         /\ UNION {MayCome(c) : c \in Pending'} = Coming(worker'.todo)
         /\ UNION {MayGo(c) : c \in Pending'} = Going(worker'.todo)
<1>1. Pending = {worker.todo[i] : i \in DOMAIN worker.todo}
  BY DEF Pending, OneThread, worker
<1>2. Pending' = {worker'.todo[i] : i \in DOMAIN worker'.todo}
  BY DEF Pending, OneThread, worker
<1> QED
  BY <1>1, <1>2 DEF Coming, Going

LEMMA BoardSame ==
  ASSUME OneThread, UpNow' = UpNow, worker'.todo = worker.todo
  PROVE  BoardStep
BY BoardLists DEF BoardStep, Board!boardVars, UpNow

LEMMA BoardProceed ==
  ASSUME OneThread, UpNow' = UpNow, Coming(worker'.todo) \subseteq Coming(worker.todo),
         Going(worker'.todo) \subseteq Going(worker.todo)
  PROVE  BoardStep
BY BoardLists DEF BoardStep, Board!BoardNext, Board!Proceed, UpNow

LEMMA BoardGo ==
  ASSUME OneThread, NEW s \in Services, s \in UpNow, s \in Going(worker.todo),
         UpNow' = UpNow \ {s}, worker'.todo = worker.todo
  PROVE  BoardStep
BY BoardLists DEF BoardStep, Board!BoardNext, Board!Go, UpNow

LEMMA BoardCome ==
  ASSUME OneThread, NEW s \in Services, s \notin UpNow, s \in Coming(worker.todo),
         s \in Web => UpNow \cap Web = {},
         UpNow' = UpNow \cup {s}, worker'.todo = worker.todo
  PROVE  BoardStep
BY BoardLists DEF BoardStep, Board!BoardNext, Board!Come, UpNow

LEMMA BoardRequest ==
  ASSUME OneThread, Coming(worker.todo) = {}, Going(worker.todo) = {}, UpNow' = UpNow,
         Coming(worker'.todo) \subseteq Services, Going(worker'.todo) \subseteq Services
  PROVE  BoardStep
BY BoardLists DEF BoardStep, Board!BoardNext, Board!Request, Board!Working, UpNow

(* What calls may bring up and take down. *)
LEMMA CallParts ==
  ASSUME NEW c \in GoodCalls, NEW q \in Seq(GoodCalls)
  PROVE  /\ Coming(<<c>> \o q) = MayCome(c) \cup Coming(q)
         /\ Going(<<c>> \o q) = MayGo(c) \cup Going(q)
         /\ Coming(<<>>) = {} /\ Going(<<>>) = {}
<1> DEFINE r == <<c>> \o q
<1>1. /\ 1 \in DOMAIN r /\ r[1] = c
      /\ \A i \in DOMAIN q : i + 1 \in DOMAIN r /\ r[i + 1] = q[i]
      /\ \A i \in DOMAIN r : r[i] = c \/ (i - 1 \in DOMAIN q /\ r[i] = q[i - 1])
  BY OneMore
<1> HIDE DEF r
<1>2. {MayCome(r[i]) : i \in DOMAIN r} = {MayCome(c)} \cup {MayCome(q[i]) : i \in DOMAIN q}
  BY <1>1
<1>3. {MayGo(r[i]) : i \in DOMAIN r} = {MayGo(c)} \cup {MayGo(q[i]) : i \in DOMAIN q}
  BY <1>1
<1>4. Coming(r) = MayCome(c) \cup Coming(q) /\ Going(r) = MayGo(c) \cup Going(q)
  BY <1>2, <1>3 DEF Coming, Going
<1>5. Coming(<<>>) = {} /\ Going(<<>>) = {}
  BY DEF Coming, Going
<1> QED
  BY <1>4, <1>5 DEF r

LEMMA CallMay ==
  ASSUME NEW c
  PROVE  MayCome(c) \subseteq Services /\ MayGo(c) \subseteq Services
BY DEF MayCome, MayGo

LEMMA ListMay ==
  ASSUME NEW q \in Seq(GoodCalls)
  PROVE  Coming(q) \subseteq Services /\ Going(q) \subseteq Services
<1>1. \A i \in DOMAIN q : q[i] \in GoodCalls
  OBVIOUS
<1> QED
  BY <1>1, CallMay DEF Coming, Going

LEMMA TodoMay ==
  ASSUME TypeInv, ~Idle(Solo)
  PROVE  /\ Coming(worker.todo) = MayCome(Me(Solo)) \cup Coming(Rest(Solo))
         /\ Going(worker.todo) = MayGo(Me(Solo)) \cup Going(Rest(Solo))
BY MeGood, CallParts

(* Who listens. *)
LEMMA UpSame ==
  ASSUME \A p \in Pids : phase'[p] = "listening" \/ phase[p] = "listening" =>
           \/ phase'[p] = phase[p] /\ image'[p] = image[p]
           \/ {image[p], image'[p]} \cap Services = {}
  PROVE  UpNow' = UpNow
BY DEF UpNow, Listening, AliveOf, Alive

LEMMA UpProcs ==
  ASSUME UNCHANGED procVars
  PROVE  UpNow' = UpNow
BY UpSame DEF procVars

LEMMA BoardReturn ==
  ASSUME OneThread, TypeInv, ~Idle(Solo), UpNow' = UpNow, worker'.todo = Rest(Solo)
  PROVE  BoardStep
BY TodoMay, BoardProceed

(* A kill takes down the service of its stop and no other: the pid of the   *)
(* table is its own, and taskkill by name names it.                         *)
LEMMA BoardKill ==
  ASSUME OneThread, TypeInv, OwnInv, TrackInv', Kill(Solo)
  PROVE  BoardStep
<1>0. ProcTypeOK
  BY DEF TypeInv, TypeOK
<1>1. /\ ~Idle(Solo) /\ Me(Solo).op = "stop" /\ Me(Solo).svc \in Services /\ worker.pc = "kill"
      /\ image' = image /\ Inside("write")
      /\ phase' = IF Me(Solo).svc = "mysql" /\ ShutdownHeard
                  THEN [p \in Pids |-> IF image[p] = "mysql" /\ phase[p] = "listening"
                                       THEN "closing" ELSE phase[p]]
                  ELSE Killed(KillSet(Solo))
  BY KillEffect
<1>2. PICK s \in Services : s = Me(Solo).svc
  BY <1>1
<1>3. worker'.todo = worker.todo /\ worker'.pc = "write" /\ Me(Solo)' = Me(Solo)
  BY <1>1, SameTodo DEF Inside
<1>4. s \notin UpNow'
  <2>1. Over(Me(Solo).svc)'
    BY <1>1, <1>3 DEF TrackInv
  <2>2. Serving(s)' = {}
    BY <1>2, <1>3, <2>1 DEF Over
  <2> QED
    BY <2>2 DEF UpNow, Listening, AliveOf, Serving
<1>5. \A p \in Pids : phase'[p] # phase[p] => image[p] = s /\ phase'[p] # "listening"
  <2>1. CASE s = "mysql" /\ ShutdownHeard
    BY <1>0, <1>1, <1>2, <2>1 DEF ProcTypeOK
  <2>2. CASE ~(s = "mysql" /\ ShutdownHeard)
    <3>1. \A p \in Pids : phase'[p] # phase[p] => phase'[p] = "dead" /\ p \in KillSet(Solo)
      BY <1>0, <1>1, <1>2, <2>2, KilledEffect
    <3>2. worker.pid # None => image[worker.pid] = s
      BY <1>1, <1>2 DEF OwnInv, ThreadOwn, Own, OneThread, worker, Me
    <3>3. \A p \in KillSet(Solo) : image[p] = s
      BY <1>2, <3>2 DEF KillSet, AliveOf, worker
    <3> QED
      BY <3>1, <3>3
  <2> QED
    BY <2>1, <2>2
<1>6. UpNow' = UpNow \ {s}
  BY <1>1, <1>4, <1>5 DEF UpNow, Listening, AliveOf, Alive
<1>7. CASE s \in UpNow
  <2>1. s \in MayGo(Me(Solo))
    BY <1>1, <1>2, ServiceControlAssumption DEF MayGo, About
  <2> QED
    BY <1>1, <1>3, <1>6, <1>7, <2>1, TodoMay, BoardGo
<1>8. CASE s \notin UpNow
  BY <1>3, <1>6, <1>8, BoardSame
<1> QED
  BY <1>7, <1>8

(* What a start puts in front asks for no more than the start did. *)
LEMMA BoardStart ==
  ASSUME OneThread, TypeInv, StartCheck(Solo)
  PROVE  BoardStep
<1>1. /\ ~Idle(Solo) /\ Me(Solo).op = "start" /\ UNCHANGED procVars
      /\ Ver(Solo) \in Versions \cup {None} /\ Rest(Solo) \in Seq(GoodCalls)
  BY StartCheckEffect, MeGood
<1>2. UpNow' = UpNow
  BY <1>1, UpProcs
<1>3. CASE Onward(Rest(Solo))
  BY <1>1, <1>2, <1>3, BoardReturn DEF Onward
<1>4. ASSUME NEW s \in Services, s = IF Me(Solo).svc = Active THEN activeWeb ELSE Me(Solo).svc,
             Onward(StartList(s, Ver(Solo), Rest(Solo)))
      PROVE  BoardStep
  <2> DEFINE sp == Call("spawn", s, Ver(Solo))
             ph == Call("php", "php", Ver(Solo))
             st == Call("stop", OtherWeb(s), None)
             q1 == <<sp>> \o Rest(Solo)
             q2 == <<ph>> \o q1
             q3 == <<st>> \o q2
  <2>1. /\ sp \in GoodCalls /\ ph \in GoodCalls /\ st \in GoodCalls
        /\ sp.op = "spawn" /\ sp.svc = s /\ ph.op = "php" /\ ph.svc = "php"
        /\ st.op = "stop" /\ st.svc = OtherWeb(s)
    BY <1>1, GoodCall DEF Services, Web, OtherWeb, Call
  <2>2. worker'.todo = IF s \in Web THEN q3 ELSE q1
    BY <1>1, <1>4, ListShape DEF Onward
  <2> HIDE DEF sp, ph, st
  <2>3. /\ q1 \in Seq(GoodCalls)
        /\ Coming(q1) = MayCome(sp) \cup Coming(Rest(Solo))
        /\ Going(q1) = MayGo(sp) \cup Going(Rest(Solo))
    BY <1>1, <2>1, CallParts, OneMore
  <2> HIDE DEF q1
  <2>4. /\ q2 \in Seq(GoodCalls)
        /\ Coming(q2) = MayCome(ph) \cup Coming(q1) /\ Going(q2) = MayGo(ph) \cup Going(q1)
    BY <2>1, <2>3, CallParts, OneMore
  <2> HIDE DEF q2
  <2>5. Coming(q3) = MayCome(st) \cup Coming(q2) /\ Going(q3) = MayGo(st) \cup Going(q2)
    BY <2>1, <2>4, CallParts
  <2> HIDE DEF q3
  <2>6. Active \notin Services
    BY ServiceControlAssumption
  <2>7. s \in About(Me(Solo)) /\ (s \in Web => About(Me(Solo)) \subseteq Web)
    <3>1. CASE Me(Solo).svc = Active
      BY <1>4, <3>1 DEF About, TypeInv, TypeOK
    <3>2. CASE Me(Solo).svc # Active
      BY <1>4, <3>2 DEF About
    <3> QED
      BY <3>1, <3>2
  <2>8. About(sp) = {s} /\ About(ph) = {"php"} /\ About(st) = {OtherWeb(s)}
    BY <2>1, <2>6 DEF About, Services, Web, OtherWeb
  <2>9. MayCome(sp) \subseteq MayCome(Me(Solo)) /\ MayGo(sp) = {}
    BY <1>1, <2>1, <2>7, <2>8 DEF MayCome, MayGo
  <2>10. MayCome(st) = {} /\ MayGo(ph) = {}
    BY <2>1 DEF MayCome, MayGo
  <2>11. s \in Web => MayCome(ph) \subseteq MayCome(Me(Solo))
    BY <1>1, <2>1, <2>7, <2>8 DEF MayCome
  <2>12. s \in Web => MayGo(st) \subseteq MayGo(Me(Solo))
    BY <1>1, <2>1, <2>7, <2>8 DEF MayGo, Web, OtherWeb
  <2>13. /\ Coming(worker.todo) = MayCome(Me(Solo)) \cup Coming(Rest(Solo))
         /\ Going(worker.todo) = MayGo(Me(Solo)) \cup Going(Rest(Solo))
    BY <1>1, TodoMay
  <2>14. CASE s \in Web
    <3>1. Coming(worker'.todo) \subseteq Coming(worker.todo)
      BY <2>2, <2>3, <2>4, <2>5, <2>9, <2>10, <2>11, <2>13, <2>14
    <3>2. Going(worker'.todo) \subseteq Going(worker.todo)
      BY <2>2, <2>3, <2>4, <2>5, <2>9, <2>10, <2>12, <2>13, <2>14
    <3> QED
      BY <1>2, <3>1, <3>2, BoardProceed
  <2>15. CASE s \notin Web
    <3>1. Coming(worker'.todo) \subseteq Coming(worker.todo) /\ Going(worker'.todo) \subseteq Going(worker.todo)
      BY <2>2, <2>3, <2>9, <2>13, <2>15
    <3> QED
      BY <1>2, <3>1, BoardProceed
  <2> QED
    BY <2>14, <2>15
<1> QED
  BY <1>3, <1>4, StartCheckEffect

LEMMA BoardPhp ==
  ASSUME OneThread, TypeInv, PhpCheck(Solo)
  PROVE  BoardStep
<1>1. PICK c : c = Call("phpSpawn", "php", Ver(Solo))
  OBVIOUS
<1>2. /\ ~Idle(Solo) /\ Me(Solo).op = "php" /\ Me(Solo).svc = "php" /\ UNCHANGED procVars
      /\ Rest(Solo) \in Seq(GoodCalls) /\ c \in GoodCalls /\ c.op = "phpSpawn" /\ c.svc = "php"
      /\ worker'.todo = Rest(Solo) \/ worker'.todo = <<c>> \o Rest(Solo)
  BY <1>1, PhpCheckEffect, MeGood, CallFields, GoodCall DEF Call, Onward
<1>3. UpNow' = UpNow
  BY <1>2, UpProcs
<1>4. MayCome(c) = MayCome(Me(Solo)) /\ MayGo(c) = MayGo(Me(Solo))
  BY <1>2 DEF MayCome, MayGo, About
<1>5. CASE worker'.todo = <<c>> \o Rest(Solo)
  BY <1>2, <1>3, <1>4, <1>5, TodoMay, CallParts, BoardProceed
<1> QED
  BY <1>2, <1>3, <1>5, BoardReturn

LEMMA BoardRestart ==
  ASSUME OneThread, TypeInv, Restart(Solo)
  PROVE  BoardStep
<1>1. PICK c, d : c = Call("stop", "php", None) /\ d = Call("php", "php", Me(Solo).ver)
  OBVIOUS
<1>2. /\ ~Idle(Solo) /\ Me(Solo).op = "restart" /\ UNCHANGED procVars
      /\ Rest(Solo) \in Seq(GoodCalls)
      /\ c \in GoodCalls /\ c.op = "stop" /\ c.svc = "php"
      /\ d \in GoodCalls /\ d.op = "php" /\ d.svc = "php"
  BY <1>1, RestartEffect, MeGood, GoodCall DEF Call, Services
<1>3. PICK r : r = <<d>> \o Rest(Solo)
  OBVIOUS
<1>4. worker'.todo = Rest(Solo) \/ worker'.todo = <<c>> \o r
  BY <1>1, <1>3, RestartEffect DEF RestartList, Onward
<1>5. UpNow' = UpNow
  BY <1>2, UpProcs
<1>6. /\ r \in Seq(GoodCalls)
      /\ Coming(r) = MayCome(d) \cup Coming(Rest(Solo)) /\ Going(r) = MayGo(d) \cup Going(Rest(Solo))
  BY <1>2, <1>3, OneMore, CallParts
<1>7. Coming(<<c>> \o r) = MayCome(c) \cup Coming(r) /\ Going(<<c>> \o r) = MayGo(c) \cup Going(r)
  BY <1>2, <1>6, CallParts
<1>8. Active # "php"
  BY ServiceControlAssumption DEF Services
<1>9. /\ MayCome(c) = {} /\ MayCome(d) \subseteq MayCome(Me(Solo))
      /\ MayGo(d) = {} /\ MayGo(c) \subseteq MayGo(Me(Solo))
  BY <1>2, <1>8 DEF MayCome, MayGo, About, Services
<1>10. CASE worker'.todo = <<c>> \o r
  BY <1>2, <1>5, <1>6, <1>7, <1>9, <1>10, TodoMay, BoardProceed
<1> QED
  BY <1>2, <1>4, <1>5, <1>10, BoardReturn

(* The port that is closed is not one a process of the service listens on. *)
LEMMA BoardGiveUp ==
  ASSUME OneThread, TypeInv, ProcInv, SpawnFails(Solo) \/ WaitTimeout(Solo)
  PROVE  BoardStep
<1>0. ProcTypeOK
  BY DEF TypeInv, TypeOK
<1>1. /\ ~Idle(Solo) /\ Me(Solo).op \in Starts /\ image' = image /\ worker'.todo = Rest(Solo)
      /\ \/ worker.pc = "begin" /\ phase' = phase
         \/ worker.pc = "wait" /\ ~is_port_open(PortOf[Me(Solo).svc]) /\ phase' = Killed({worker.pid})
  BY GiveUpEffects DEF Onward
<1>2. Me(Solo).svc \in Services
  BY <1>1, MeGood, CallFields DEF Starts
<1>3. UpNow' = UpNow
  <2>1. CASE phase' = phase
    BY <1>1, <2>1, UpSame
  <2>2. CASE worker.pc = "wait" /\ ~is_port_open(PortOf[Me(Solo).svc]) /\ phase' = Killed({worker.pid})
    <3>1. worker.pid \in Pids /\ image[worker.pid] \in {Me(Solo).svc, "other"}
      BY <2>2 DEF ProcInv, Waiting, TypeInv
    <3>2. image[worker.pid] = Me(Solo).svc => phase[worker.pid] # "listening"
      BY <1>2, <2>2, <3>1 DEF is_port_open, Listeners
    <3>3. \A p \in Pids : /\ phase'[p] \in {phase[p], "dead"}
                          /\ p # worker.pid => phase'[p] = phase[p]
      BY <1>0, <2>2, KilledEffect
    <3> QED
      BY <1>1, <3>1, <3>2, <3>3, UpSame DEF Services, Web
  <2> QED
    BY <1>1, <2>1, <2>2
<1> QED
  BY <1>1, <1>3, BoardReturn

LEMMA BoardSpawn ==
  ASSUME OneThread, TypeInv, Spawn(Solo)
  PROVE  BoardStep
<1>c. PICK c : c = Call(Me(Solo).op, Me(Solo).svc, ChosenVersion(Solo))
  OBVIOUS
<1>1. /\ ~Idle(Solo) /\ worker'.pid \in Pids /\ Me(Solo).svc \in Services
      /\ Popen(worker'.pid, Me(Solo).svc)
      /\ worker'.todo = <<c>> \o Rest(Solo) /\ c \in GoodCalls /\ Rest(Solo) \in Seq(GoodCalls)
      /\ c.op = Me(Solo).op /\ c.svc = Me(Solo).svc
  BY <1>c, SpawnEffect, MeGood DEF Call
<1>2. PICK n \in Pids : n = worker'.pid /\ Popen(n, Me(Solo).svc)
  BY <1>1
<1>3. UpNow' = UpNow
  BY <1>1, <1>2, PopenEffect, UpSame DEF TypeInv, TypeOK, Alive
<1>4. MayCome(c) = MayCome(Me(Solo)) /\ MayGo(c) = MayGo(Me(Solo))
  BY <1>1 DEF MayCome, MayGo, About
<1> QED
  BY <1>1, <1>3, <1>4, TodoMay, CallParts, BoardProceed

(* What takes its port is what the press at work started. *)
LEMMA BoardEnvironment ==
  ASSUME OneThread, Faults = {}, TypeInv, ProcInv, Environment
  PROVE  BoardStep
<1>0. ProcTypeOK
  BY DEF TypeInv, TypeOK
<1>1. worker'.todo = worker.todo
  BY EnvironmentEffect, SameWorker
<1>2. PICK p \in Pids :
        /\ \A q \in Pids : q # p => image'[q] = image[q] /\ phase'[q] = phase[q]
        /\ \/ Bind(p)
           \/ phase[p] = "closing" /\ phase'[p] = "dead"
           \/ phase[p] = "dead" /\ phase'[p] = "live"
           \/ image' = image /\ phase' = phase
  BY <1>0, ProcessEffect
<1>3. CASE phase[p] # "listening" /\ phase'[p] # "listening"
  <2>1. UpNow' = UpNow
    BY <1>2, <1>3, UpSame
  <2> QED
    BY <1>1, <2>1, BoardSame
<1>4. CASE Bind(p) /\ phase'[p] = "listening"
  <2>1. /\ image' = image /\ image[p] \in Services /\ phase[p] = "live"
        /\ ~is_port_open(PortOf[image[p]])
    BY <1>0, <1>4, BindEffect
  <2>2. PICK s \in Services : s = image[p]
    BY <2>1
  <2>3. worker.pc = "wait" /\ worker.pid = p
    BY <2>1 DEF ProcInv, Settled, is_port_open
  <2>4. Me(Solo).op \in Starts /\ ~Idle(Solo) /\ Me(Solo).svc = s
    BY <2>1, <2>2, <2>3 DEF TypeInv, ProcInv, Waiting, Services, Web
  <2>5. s \in MayCome(Me(Solo))
    BY <2>4, ServiceControlAssumption DEF MayCome, About, Starts
  <2>6. AliveOf(s) \subseteq {p} /\ (s \in Web => OtherWeb(s) \in Gone)
    BY <2>3, <2>4 DEF ProcInv, Waiting
  <2>7. s \notin UpNow
    BY <2>1, <2>6 DEF UpNow, Listening
  <2>8. s \in Web => UpNow \cap Web = {}
    BY <2>6, <2>7 DEF UpNow, Listening, Gone, Web, OtherWeb
  <2>9. UpNow' = UpNow \cup {s}
    BY <1>2, <1>4, <2>1, <2>2 DEF UpNow, Listening, AliveOf, Alive
  <2> QED
    BY <1>1, <2>4, <2>5, <2>7, <2>8, <2>9, TodoMay, BoardCome
<1>5. CASE image' = image /\ phase' = phase
  <2>1. UpNow' = UpNow
    BY <1>5 DEF UpNow, Listening, AliveOf, Alive
  <2> QED
    BY <1>1, <2>1, BoardSame
<1> QED
  BY <1>0, <1>2, <1>3, <1>4, <1>5, BindEffect

LEMMA BoardSession ==
  ASSUME OneThread, TypeInv, FinishExit(Solo) \/ Button(Solo) \/ Launch \/ UNCHANGED vars
  PROVE  BoardStep
<1>1. CASE FinishExit(Solo)
  <2>1. worker'.todo = <<>> /\ UNCHANGED procVars
    BY <1>1, FinishExitEffect DEF IdleThread
  <2>2. Coming(<<>>) = {} /\ Going(<<>>) = {}
    BY DEF Coming, Going
  <2> QED
    BY <2>1, <2>2, UpProcs, BoardProceed
<1>2. CASE Button(Solo)
  <2>1. worker.todo = <<>> /\ UNCHANGED procVars /\ worker'.todo \in Seq(GoodCalls)
    BY <1>2, ButtonEffect DEF Idle, worker
  <2>2. Coming(<<>>) = {} /\ Going(<<>>) = {}
    BY DEF Coming, Going
  <2> QED
    BY <2>1, <2>2, UpProcs, ListMay, BoardRequest
<1>3. CASE Launch \/ UNCHANGED vars
  <2>1. worker' = worker /\ UNCHANGED procVars
    BY <1>3, SameWorker DEF Launch, LaunchWith, vars, appVars
  <2> QED
    BY <2>1, UpProcs, BoardSame
<1> QED
  BY <1>1, <1>2, <1>3

LEMMA BoardNextStep ==
  ASSUME OneThread, Faults = {}, TypeInv, ProcInv, OwnInv, TrackInv', [Next]_vars
  PROVE  BoardStep
<1>1. CASE StopCheck(Solo) \/ Write(Solo) \/ Flush(Solo) \/ WaitOk(Solo) \/ SetVersion(Solo)
  <2>1. /\ ~Idle(Solo) /\ UNCHANGED procVars
        /\ worker'.todo = worker.todo \/ worker'.todo = Rest(Solo)
    BY <1>1, StopCheckEffect, SaveEffects, WaitOkEffect, SetVersionEffect DEF Inside, Onward
  <2> QED
    BY <2>1, UpProcs, BoardSame, BoardReturn
<1>2. CASE StartCheck(Solo) \/ PhpCheck(Solo) \/ Restart(Solo) \/ Spawn(Solo)
           \/ SpawnFails(Solo) \/ WaitTimeout(Solo) \/ Kill(Solo)
  BY <1>2, BoardStart, BoardPhp, BoardRestart, BoardSpawn, BoardGiveUp, BoardKill
<1> QED
  BY <1>1, <1>2, NextCases, BoardSession, BoardEnvironment DEF ThreadStep

(* What README.md's "Key Features" promise to one user at a time: a press   *)
(* brings up and takes down the services it is about and no other, the two  *)
(* web servers exclude each other, and between presses nothing comes or     *)
(* goes, if no service dies by itself and no process id is handed out again *)
(* (a stale entry of services_pids.json would let a stop kill another's).   *)
THEOREM BoardImplemented ==
  ASSUME Apart, OneThread, Faults = {}, ReusePids = FALSE
  PROVE  Spec => ImplementsBoard
<1>1. Init => Board!BoardInit
  <2> SUFFICES ASSUME Init PROVE Board!BoardInit
    OBVIOUS
  <2>1. worker.todo = <<>> /\ \A p \in Pids : phase[p] = "free"
    BY DEF Init, ProcInit, IdleThread, worker, OneThread
  <2>2. UpNow = {}
    BY <2>1 DEF UpNow, Listening, AliveOf
  <2>3. Coming(<<>>) = {} /\ Going(<<>>) = {}
    BY DEF Coming, Going
  <2> QED
    BY <2>1, <2>2, <2>3, BoardLists DEF Board!BoardInit, UpNow
<1>2. TypeInv /\ ProcInv /\ OwnInv /\ TrackInv' /\ [Next]_vars => [Board!BoardNext]_(Board!boardVars)
  BY BoardNextStep DEF BoardStep
<1>3. TypeInv /\ VerInv /\ [Next]_vars => TypeInv' /\ VerInv'
  BY NextTypeInv, NextVersion
<1>4. TypeInv /\ VerInv /\ ProcInv /\ [Next]_vars => ProcInv'
  BY NextProcs DEF VerInv
<1>5. TypeInv /\ VerInv /\ ProcInv /\ TrackInv /\ [Next]_vars => TrackInv'
  BY NextTrack
<1>6. OwnInv /\ [Next]_vars => OwnInv'
  BY OwnNext
<1>7. Init => TypeInv /\ VerInv /\ ProcInv /\ TrackInv /\ OwnInv
  BY InitTypeInv, InitVersion, InitProcs, InitTrack, OwnInit
<1> QED
  BY <1>1, <1>2, <1>3, <1>4, <1>5, <1>6, <1>7, PTL DEF Spec, ImplementsBoard, Board!BoardSpec
=============================================================================
