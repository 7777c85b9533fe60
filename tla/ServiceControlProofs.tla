------------------------ MODULE ServiceControlProofs ------------------------
(***************************************************************************)
(* Proofs about ServiceControl for every number of threads, processes and  *)
(* PHP versions, every port configuration and every fault it allows.       *)
(***************************************************************************)
EXTENDS ServiceControl, TLAPS

(* The calls a thread has before it are well formed, one by one.           *)
LEMMA NextCall ==
  ASSUME TypeOK, NEW t \in Threads, ~Idle(t)
  PROVE  /\ Me(t) \in Calls
         /\ Rest(t) \in Seq(Calls)
<1>1. th[t].todo \in Seq(Calls) /\ th[t].todo # <<>>
  BY DEF TypeOK, ThreadStates, Idle
<1> QED
  BY <1>1 DEF Me, Rest

LEMMA CallTyped ==
  ASSUME NEW c \in Calls
  PROVE  /\ c.op \in Ops
         /\ c.op \in {"stop", "spawn", "phpSpawn"} => c.svc \in Services
         /\ c.op = "php" => c.svc = "php"
         /\ c.op = "start" => c.svc \in Services \cup {Active}
         /\ c.ver \in Versions \cup {Active, None}
         /\ c.op \in {"spawn", "phpSpawn", "setver"} => c.ver \in Versions \cup {None}
BY DEF Calls

LEMMA TablesTyped ==
  ASSUME PidFileTypeOK
  PROVE  /\ NoPids \in PidTable
         /\ load_pids \in PidTable
         /\ get_current_php_version \in Versions
BY PidFileAssumption DEF PidFileTypeOK, PidTable, NoPids, load_pids, get_current_php_version, VersionIn

(* Replacing one thread's state keeps the type of th.                      *)
LEMMA ThreadUpdate ==
  ASSUME TypeOK, NEW t \in Threads, NEW r \in ThreadStates, th' = [th EXCEPT ![t] = r]
  PROVE  th' \in [Threads -> ThreadStates]
BY DEF TypeOK

LEMMA ContinueTyped ==
  ASSUME TypeOK, NEW t \in Threads, NEW seq \in Seq(Calls), Continue(t, seq)
  PROVE  th' \in [Threads -> ThreadStates]
<1>1. KeptSnapshot(t, seq) \in PidTable
  BY TablesTyped DEF KeptSnapshot, TypeOK, ThreadStates
<1>2. [IdleThread EXCEPT !.todo = seq, !.snap = KeptSnapshot(t, seq)] \in ThreadStates
  BY <1>1, TablesTyped DEF TypeOK, IdleThread, ThreadStates, PCs
<1> QED
  BY <1>2, ThreadUpdate DEF Continue

LEMMA ReturnTyped ==
  ASSUME TypeOK, NEW t \in Threads, ~Idle(t), Return(t)
  PROVE  th' \in [Threads -> ThreadStates]
BY NextCall, ContinueTyped DEF Return

LEMMA IdleThreadTyped == IdleThread \in ThreadStates
BY PidFileAssumption DEF IdleThread, ThreadStates, PCs, PidTable, NoPids
LEMMA SingleCall ==
  ASSUME TypeOK, NEW t \in Threads, ~Idle(t), NEW c \in Calls
  PROVE  <<c>> \o Rest(t) \in Seq(Calls)
<1>1. Rest(t) \in Seq(Calls) /\ <<c>> \in Seq(Calls)
  BY NextCall
<1> QED
  BY <1>1

LEMMA VerTyped ==
  ASSUME TypeOK, NEW t \in Threads, ~Idle(t)
  PROVE  Ver(t) \in Versions \cup {None}
BY NextCall, CallTyped, ServiceControlAssumption DEF Ver, TypeOK

(* What the processes do by themselves, and Popen and taskkill, keep their *)
(* types.                                                                  *)
LEMMA ProcessSteps ==
  ASSUME ProcTypeOK
  PROVE  /\ \A p \in Pids, s \in Services : Popen(p, s) => ProcTypeOK'
         /\ \A K \in SUBSET Pids : taskkill(K) => ProcTypeOK'
         /\ \A p \in Pids : Bind(p) \/ WriteNginxPid(p) \/ CloseDown(p) \/ ProcCrash(p) \/ ReusePid(p)
                          => ProcTypeOK'
<1>1. ASSUME NEW p \in Pids, NEW s \in Services, Popen(p, s)
      PROVE  ProcTypeOK'
  BY <1>1 DEF ProcTypeOK, Popen, Phases
<1>2. ASSUME NEW K \in SUBSET Pids, taskkill(K)
      PROVE  ProcTypeOK'
  BY <1>2 DEF ProcTypeOK, taskkill, Killed, Phases
<1>3. ASSUME NEW p \in Pids, Bind(p)
      PROVE  ProcTypeOK'
  <2> DEFINE taken == is_port_open(PortOf[image[p]])
  <2>1. phase' = [phase EXCEPT ![p] = IF taken THEN "dead" ELSE "listening"]
    BY <1>3 DEF Bind
  <2>2. nginxPid' \in Pids \cup {None} /\ image' = image
    BY <1>3 DEF Bind, ProcTypeOK
  <2> HIDE DEF taken
  <2> QED
    BY <2>1, <2>2 DEF ProcTypeOK, Phases
<1>4. ASSUME NEW p \in Pids, WriteNginxPid(p) \/ CloseDown(p) \/ ProcCrash(p) \/ ReusePid(p)
      PROVE  ProcTypeOK'
  BY <1>4 DEF ProcTypeOK, WriteNginxPid, CloseDown, ProcCrash, ReusePid, Phases
<1> QED
  BY <1>1, <1>2, <1>3, <1>4

LEMMA ThreadStepType ==
  ASSUME TypeOK, NEW t \in Threads, ThreadStep(t)
  PROVE  TypeOK'
<1> USE DEF OnlyThreads, procVars
<1>0. th[t] \in ThreadStates /\ th \in [Threads -> ThreadStates]
  BY DEF TypeOK
<1>a. NoPids \in PidTable /\ load_pids \in PidTable /\ get_current_php_version \in Versions
  BY TablesTyped DEF TypeOK
<1>1. CASE StopCheck(t)
  <2>1. ~Idle(t) /\ StatusPid(Me(t).svc) \in Pids \cup {None}
    BY <1>1, <1>a, NextCall, CallTyped DEF StopCheck, At, StatusPid, PidTable, TypeOK, ProcTypeOK
  <2>2. th' \in [Threads -> ThreadStates]
    <3>1. CASE Return(t)
      BY <3>1, <2>1, ReturnTyped
    <3>2. CASE th' = [th EXCEPT ![t].pc = "kill", ![t].pid = StatusPid(Me(t).svc)]
      BY <3>2, <2>1, <1>0 DEF ThreadStates, PCs
    <3> QED
      BY <1>1, <3>1, <3>2 DEF StopCheck
  <2> QED
    BY <1>1, <2>2 DEF StopCheck, TypeOK, ProcTypeOK, PidFileTypeOK
<1>2. CASE Kill(t)
  <2>1. ~Idle(t) /\ Me(t).svc \in Services
    BY <1>2, NextCall, CallTyped DEF Kill, At
  <2>2. [load_pids EXCEPT !.pid[Me(t).svc] = None] \in PidTable
    BY <2>1, <1>a DEF PidTable
  <2>3. th' \in [Threads -> ThreadStates]
    BY <1>2, <1>0, <2>2 DEF Kill, ThreadStates, PCs
  <2>4. ProcTypeOK'
    <3>1. phase' \in [Pids -> Phases]
      BY <1>2 DEF Kill, Killed, TypeOK, ProcTypeOK, Phases
    <3> QED
      BY <3>1, <1>2 DEF Kill, TypeOK, ProcTypeOK
  <2> QED
    BY <1>2, <2>3, <2>4 DEF Kill, TypeOK, PidFileTypeOK
<1>3. CASE Write(t)
  BY <1>3, <1>0, <1>a DEF Write, OpenForWrite, EmptyFile, TypeOK, ProcTypeOK, PidFileTypeOK, ThreadStates, PCs
<1>4. CASE Flush(t)
  <2>1. th' \in [Threads -> ThreadStates]
    BY <1>4, ReturnTyped DEF Flush, At
  <2>2. PidFileTypeOK'
    BY <1>4, <1>0, <1>a DEF Flush, WriteTable, GarbledFile, PidFileTypeOK, ThreadStates
  <2> QED
    BY <1>4, <2>1, <2>2 DEF Flush, TypeOK, ProcTypeOK
<1>5. CASE StartCheck(t)
  <2> DEFINE s == IF Me(t).svc = Active THEN activeWeb ELSE Me(t).svc
             calls == Nested(s, Ver(t)) \o <<Call("spawn", s, Ver(t))>> \o Rest(t)
  <2>1. ~Idle(t) /\ s \in Services
    BY <1>5, NextCall, CallTyped, ServiceControlAssumption DEF StartCheck, At, TypeOK, Services
  <2>2. calls \in Seq(Calls)
    <3>1. Ver(t) \in Versions \cup {None} /\ Ver(t) # Active
      BY <2>1, VerTyped, ServiceControlAssumption
    <3>2. Call("spawn", s, Ver(t)) \in Calls
      BY <2>1, <3>1 DEF Call, Calls, Ops
    <3>3. Nested(s, Ver(t)) \in Seq(Calls)
      <4>1. Call("php", "php", Ver(t)) \in Calls
        BY <3>1 DEF Call, Calls, Ops, Services
      <4>2. Call("stop", OtherWeb(s), None) \in Calls
        BY ServiceControlAssumption DEF Call, Calls, Ops, Services, Web, OtherWeb
      <4> QED
        BY <4>1, <4>2 DEF Nested
    <3>4. <<Call("spawn", s, Ver(t))>> \in Seq(Calls) /\ Rest(t) \in Seq(Calls)
      BY <2>1, <3>2, NextCall
    <3> HIDE DEF s
    <3> QED
      BY <3>3, <3>4
  <2>3. th' \in [Threads -> ThreadStates]
    <3>1. CASE Return(t)
      BY <3>1, <2>1, ReturnTyped
    <3>2. CASE th' = [th EXCEPT ![t].snap = load_pids, ![t].todo = calls]
      <4> HIDE DEF calls
      <4> QED
        BY <3>2, <2>2, <1>0, <1>a DEF ThreadStates
    <3> QED
      BY <1>5, <3>1, <3>2 DEF StartCheck
  <2> QED
    BY <1>5, <2>3 DEF StartCheck, TypeOK, ProcTypeOK, PidFileTypeOK
<1>6. CASE PhpCheck(t)
  <2>1. ~Idle(t)
    BY <1>6 DEF PhpCheck, At
  <2>2. Call("phpSpawn", "php", Ver(t)) \in Calls
    BY <2>1, VerTyped, ServiceControlAssumption DEF Call, Calls, Ops, Services
  <2>3. <<Call("phpSpawn", "php", Ver(t))>> \o Rest(t) \in Seq(Calls)
    BY <2>1, <2>2, SingleCall
  <2>4. th' \in [Threads -> ThreadStates]
    <3>1. CASE Return(t)
      BY <3>1, <2>1, ReturnTyped
    <3>2. CASE th' = [th EXCEPT ![t].todo = <<Call("phpSpawn", "php", Ver(t))>> \o Rest(t)]
      BY <3>2, <2>3, <1>0 DEF ThreadStates
    <3> QED
      BY <1>6, <3>1, <3>2 DEF PhpCheck
  <2> QED
    BY <1>6, <2>4 DEF PhpCheck, TypeOK, ProcTypeOK, PidFileTypeOK
<1>7. CASE Spawn(t)
  <2>1. PICK p \in Pids :
          /\ Popen(p, Me(t).svc)
          /\ th' = [th EXCEPT ![t].pc = "wait", ![t].pid = p,
                      ![t].todo = <<Call(Me(t).op, Me(t).svc, ChosenVersion(t))>> \o Rest(t)]
    BY <1>7 DEF Spawn
  <2>2. ~Idle(t) /\ Me(t).op \in {"spawn", "phpSpawn"}
    BY <1>7 DEF Spawn, At
  <2>3. Me(t).svc \in Services /\ Me(t).ver \in Versions \cup {None}
    BY <2>2, NextCall, CallTyped
  <2>4. ChosenVersion(t) \in Versions \cup {None}
    BY <2>3, <1>a DEF ChosenVersion
  <2>5. Call(Me(t).op, Me(t).svc, ChosenVersion(t)) \in Calls
    BY <2>2, <2>3, <2>4, ServiceControlAssumption DEF Call, Calls, Ops
  <2>6. <<Call(Me(t).op, Me(t).svc, ChosenVersion(t))>> \o Rest(t) \in Seq(Calls)
    BY <2>2, <2>5, SingleCall
  <2>7. th' \in [Threads -> ThreadStates]
    BY <2>1, <2>6, <1>0 DEF ThreadStates, PCs
  <2>8. ProcTypeOK'
    BY <2>1, <2>3, ProcessSteps DEF TypeOK
  <2> QED
    BY <1>7, <2>7, <2>8 DEF Spawn, TypeOK, PidFileTypeOK
<1>8. CASE SpawnFails(t)
  BY <1>8, ReturnTyped DEF SpawnFails, At, TypeOK, ProcTypeOK, PidFileTypeOK
<1>9. CASE WaitOk(t)
  <2>1. ~Idle(t) /\ Me(t).op \in {"spawn", "phpSpawn"}
    BY <1>9 DEF WaitOk, At
  <2>2. Me(t).svc \in Services /\ Me(t).ver \in Versions \cup {None}
    BY <2>1, NextCall, CallTyped
  <2>3. PidFound(t) \in Pids \cup {None}
    BY <1>0 DEF PidFound, ThreadStates, TypeOK, ProcTypeOK
  <2>4. TableRead(t) \in PidTable
    BY <1>0, <1>a DEF TableRead, ThreadStates
  <2> DEFINE v == IF Me(t).svc = "php" THEN Me(t).ver ELSE TableRead(t).ver
             b == [pid |-> [TableRead(t).pid EXCEPT ![Me(t).svc] = PidFound(t)], ver |-> v]
  <2>5. b \in PidTable
    BY <2>2, <2>3, <2>4 DEF PidTable
  <2>6. th' = [th EXCEPT ![t].pc = "write", ![t].pid = PidFound(t), ![t].buf = b]
    BY <1>9 DEF WaitOk
  <2> HIDE DEF b
  <2>7. th' \in [Threads -> ThreadStates]
    BY <2>3, <2>5, <2>6, <1>0 DEF ThreadStates, PCs
  <2> QED
    BY <1>9, <2>7 DEF WaitOk, TypeOK, ProcTypeOK, PidFileTypeOK
<1>10. CASE WaitTimeout(t)
  <2>1. th' \in [Threads -> ThreadStates]
    BY <1>10, ReturnTyped DEF WaitTimeout, At
  <2>2. ProcTypeOK'
    BY <1>10 DEF WaitTimeout, taskkill, Killed, TypeOK, ProcTypeOK, Phases
  <2> QED
    BY <1>10, <2>1, <2>2 DEF WaitTimeout, TypeOK, PidFileTypeOK
<1>11. CASE SetVersion(t)
  <2>1. Me(t).ver \in Versions \cup {None}
    BY <1>11, NextCall, CallTyped DEF SetVersion, At
  <2>2. [load_pids EXCEPT !.ver = Me(t).ver] \in PidTable
    BY <2>1, <1>a DEF PidTable
  <2>3. th' \in [Threads -> ThreadStates]
    BY <1>11, <2>2, <1>0 DEF SetVersion, ThreadStates, PCs
  <2> QED
    BY <1>11, <2>3 DEF SetVersion, TypeOK, ProcTypeOK, PidFileTypeOK
<1>12. CASE Restart(t)
  <2> DEFINE calls == IF Running(load_pids, "php")
                      THEN <<Call("stop", "php", None), Call("php", "php", Me(t).ver)>>
                      ELSE <<>>
  <2>1. ~Idle(t) /\ Me(t).ver \in Versions \cup {Active, None}
    BY <1>12, NextCall, CallTyped DEF Restart, At
  <2>2. Call("stop", "php", None) \in Calls /\ Call("php", "php", Me(t).ver) \in Calls
    BY <2>1 DEF Call, Calls, Ops, Services
  <2>3. calls \in Seq(Calls) /\ Rest(t) \in Seq(Calls)
    BY <2>1, <2>2, NextCall
  <2>4. Continue(t, calls \o Rest(t))
    BY <1>12 DEF Restart
  <2> HIDE DEF calls
  <2>5. calls \o Rest(t) \in Seq(Calls)
    BY <2>3
  <2>6. th' \in [Threads -> ThreadStates]
    BY <2>4, <2>5, ContinueTyped
  <2> QED
    BY <1>12, <2>6 DEF Restart, TypeOK, ProcTypeOK, PidFileTypeOK
<1>13. CASE FinishExit(t)
  BY <1>13, IdleThreadTyped DEF FinishExit, TypeOK, ProcTypeOK, PidFileTypeOK
<1> QED
  BY <1>1, <1>2, <1>3, <1>4, <1>5, <1>6, <1>7, <1>8, <1>9, <1>10, <1>11, <1>12, <1>13
  DEF ThreadStep

(* A button gives an idle thread its calls.                                *)
LEMMA PressType ==
  ASSUME TypeOK, NEW t \in Threads, NEW request, NEW todo \in Seq(Calls),
         Press(t, request, todo)
  PROVE  /\ th' \in [Threads -> ThreadStates]
         /\ events' \in 0..MaxEvents
         /\ ProcTypeOK' /\ PidFileTypeOK'
<1>1. th' \in [Threads -> ThreadStates]
  BY DEF Press, TypeOK, ThreadStates
<1>2. events' \in 0..MaxEvents
  BY ServiceControlAssumption DEF Press, TypeOK
<1> QED
  BY <1>1, <1>2 DEF Press, TypeOK, ProcTypeOK, PidFileTypeOK, procVars

LEMMA CallsMade ==
  /\ \A s \in Services : Call("stop", s, None) \in Calls
  /\ \A s \in Services \cup {Active} : \A v \in {Active, None} : Call("start", s, v) \in Calls
  /\ \A v \in Versions : Call("setver", None, v) \in Calls
  /\ \A v \in Versions \cup {Active} : Call("restart", None, v) \in Calls
  /\ Call("exit", None, None) \in Calls
<1>1. None # Active /\ None \notin Services /\ Active \notin Versions
  BY ServiceControlAssumption, ProcessesAssumption
<1> QED
  BY <1>1 DEF Call, Calls, Ops

LEMMA ButtonType ==
  ASSUME TypeOK, NEW t \in Threads, Button(t)
  PROVE  TypeOK'
<1>0. SUFFICES ASSUME NEW request, NEW todo \in Seq(Calls), Press(t, request, todo),
                      gui' \in {"down", "up", "exiting"},
                      activeWeb' \in Web, activePhp' \in Versions
               PROVE  TypeOK'
  <2>1. ASSUME NEW s \in Services, ToggleService(t, s)
        PROVE  TypeOK'
    <3>1. <<Call("stop", s, None)>> \in Seq(Calls) /\ <<Call("start", s, Active)>> \in Seq(Calls)
      BY CallsMade
    <3> QED
      BY <1>0, <2>1, <3>1 DEF ToggleService, TypeOK
  <2>2. ASSUME NEW w \in Web, SwitchServer(t, w)
        PROVE  TypeOK'
    <3>1. OtherWeb(w) \in Services /\ w \in Services
      BY DEF OtherWeb, Services, Web
    <3>2. Call("stop", OtherWeb(w), None) \in Calls /\ Call("start", w, Active) \in Calls
      BY <3>1, CallsMade
    <3>3. <<Call("stop", OtherWeb(w), None), Call("start", w, Active)>> \in Seq(Calls)
      BY <3>2
    <3> QED
      BY <1>0, <2>2, <3>3 DEF SwitchServer, TypeOK
  <2>3. CASE StartAll(t)
    <3>1. Call("start", "mysql", None) \in Calls /\ Call("start", Active, Active) \in Calls
      BY CallsMade DEF Services
    <3>2. <<Call("start", "mysql", None), Call("start", Active, Active)>> \in Seq(Calls)
      BY <3>1
    <3> QED
      BY <1>0, <2>3, <3>2 DEF StartAll, TypeOK
  <2>4. StopEach \in Seq(Calls)
    <3>1. /\ Call("stop", "nginx", None) \in Calls /\ Call("stop", "apache", None) \in Calls
          /\ Call("stop", "mysql", None) \in Calls /\ Call("stop", "php", None) \in Calls
      BY CallsMade DEF Services, Web
    <3> QED
      BY <3>1 DEF StopEach
  <2>5. CASE StopAll(t)
    BY <1>0, <2>4, <2>5 DEF StopAll, TypeOK
  <2>6. ASSUME NEW v \in Versions, ChangePhpVersion(t, v)
        PROVE  TypeOK'
    <3>1. <<Call("setver", None, v), Call("restart", None, v)>> \in Seq(Calls)
      BY CallsMade
    <3> QED
      BY <1>0, <2>6, <3>1 DEF ChangePhpVersion, TypeOK
  <2>7. CASE ToggleExtension(t)
    <3>1. <<Call("restart", None, Active)>> \in Seq(Calls)
      BY CallsMade
    <3> QED
      BY <1>0, <2>7, <3>1 DEF ToggleExtension, TypeOK
  <2>8. CASE RealExit(t)
    <3>1. <<Call("exit", None, None)>> \in Seq(Calls)
      BY CallsMade
    <3>2. StopEach \o <<Call("exit", None, None)>> \in Seq(Calls)
      BY <2>4, <3>1
    <3> QED
      BY <1>0, <2>8, <3>2 DEF RealExit, TypeOK
  <2> QED
    BY <2>1, <2>2, <2>3, <2>5, <2>6, <2>7, <2>8 DEF Button
<1> QED
  BY <1>0, PressType DEF TypeOK

LEMMA LaunchType == ASSUME TypeOK, Launch PROVE TypeOK'
<1>1. load_pids \in PidTable /\ get_current_php_version \in Versions
  BY TablesTyped DEF TypeOK
<1>2. Cleaned(load_pids) \in PidTable
  BY <1>1 DEF Cleaned, PidTable
<1>3. PidFileTypeOK'
  BY <1>2 DEF Launch, PidFileTypeOK, TypeOK
<1>4. Cleaned(load_pids).ver = load_pids.ver
  BY <1>1 DEF Cleaned, PidTable
<1>5. activePhp' \in Versions
  BY <1>1, <1>4 DEF Launch, LaunchWith, get_current_php_version, VersionIn
<1> QED
  BY <1>3, <1>5 DEF Launch, LaunchWith, TypeOK, ProcTypeOK, procVars, Web

LEMMA LaunchUnsavedType == ASSUME TypeOK, LaunchUnsaved PROVE TypeOK'
<1>1. load_pids \in PidTable /\ NoPids \in PidTable /\ get_current_php_version \in Versions
  BY TablesTyped DEF TypeOK
<1>2. PidFileTypeOK'
  BY <1>1 DEF LaunchUnsaved, EmptyFile, GarbledFile, PidFileTypeOK, TypeOK
<1>3. activePhp' \in Versions
  BY <1>1, PidFileAssumption
  DEF LaunchUnsaved, LaunchWith, NoPids, PidTable, get_current_php_version, VersionIn
<1>4. events' \in 0..MaxEvents
  BY ServiceControlAssumption DEF LaunchUnsaved, TypeOK
<1> QED
  BY <1>2, <1>3, <1>4 DEF LaunchUnsaved, LaunchWith, TypeOK, ProcTypeOK, procVars, Web

LEMMA SaveFailsType ==
  ASSUME TypeOK, NEW t \in Threads, SaveFails(t)
  PROVE  TypeOK'
<1>1. th' \in [Threads -> ThreadStates]
  BY ReturnTyped DEF SaveFails, At
<1>2. PidFileTypeOK'
  BY TablesTyped DEF SaveFails, GarbledFile, PidFileTypeOK, TypeOK
<1>3. events' \in 0..MaxEvents
  BY ServiceControlAssumption DEF SaveFails, TypeOK
<1> QED
  BY <1>1, <1>2, <1>3 DEF SaveFails, TypeOK, ProcTypeOK, procVars

LEMMA NextType == TypeOK /\ [Next]_vars => TypeOK'
<1> SUFFICES ASSUME TypeOK, [Next]_vars PROVE TypeOK'
  OBVIOUS
<1>1. ASSUME NEW t \in Threads, ThreadStep(t) PROVE TypeOK'
  BY <1>1, ThreadStepType
<1>2. ASSUME NEW t \in Threads, Button(t) PROVE TypeOK'
  BY <1>2, ButtonType
<1>3. CASE Launch
  BY <1>3, LaunchType
<1>4. CASE AppCrash
  BY <1>4, IdleThreadTyped, ServiceControlAssumption
  DEF AppCrash, TypeOK, ProcTypeOK, PidFileTypeOK, procVars
<1>5. CASE Environment
  <2>1. ASSUME NEW p \in Pids, Bind(p) \/ WriteNginxPid(p) \/ CloseDown(p) \/ ReusePid(p),
               UNCHANGED <<pidFile, appVars>>
        PROVE  TypeOK'
    BY <2>1, ProcessSteps DEF TypeOK, PidFileTypeOK, appVars
  <2>2. ASSUME NEW p \in Pids, ServiceCrash(p)
        PROVE  TypeOK'
    <3>1. ProcTypeOK'
      BY <2>2, ProcessSteps DEF ServiceCrash, TypeOK
    <3> QED
      BY <2>2, <3>1, ServiceControlAssumption DEF ServiceCrash, TypeOK, PidFileTypeOK
  <2> QED
    BY <1>5, <2>1, <2>2 DEF Environment
<1>6. CASE UNCHANGED vars
  BY <1>6 DEF vars, appVars, procVars, TypeOK, ProcTypeOK, PidFileTypeOK
<1>7. CASE Quiet
  BY <1>6, <1>7 DEF Quiet
<1>8. ASSUME NEW t \in Threads, SaveFails(t) PROVE TypeOK'
  BY <1>8, SaveFailsType
<1>9. CASE LaunchUnsaved
  BY <1>9, LaunchUnsavedType
<1> QED
  BY <1>1, <1>2, <1>3, <1>4, <1>5, <1>6, <1>7, <1>8, <1>9 DEF Next

LEMMA InitType == Init => TypeOK
<1> SUFFICES ASSUME Init PROVE TypeOK
  OBVIOUS
<1>1. ProcTypeOK
  BY DEF Init, ProcInit, ProcTypeOK, Phases
<1>2. PidFileTypeOK
  BY PidFileAssumption DEF Init, PidFileInit, PidFileTypeOK, PidTable, NoPids
<1> QED
  BY <1>1, <1>2, IdleThreadTyped, PidFileAssumption, ServiceControlAssumption
  DEF Init, TypeOK, Web

(* The types of TypeOK hold in every reachable state: in particular every  *)
(* call a thread comes to has its service and version (the application     *)
(* never indexes PORTS or the table with None).                            *)
THEOREM TypeCorrect == Spec => []TypeOK
BY InitType, NextType, PTL DEF Spec

-----------------------------------------------------------------------------
(* RecordedPidIsOwn.  The table is written from what threads carry: the    *)
(* snapshot a start took, the table about to be written, the pid in hand,  *)
(* and nginx.pid.  The invariant says of each of them what                 *)
(* RecordedPidIsOwn says of the table.                                     *)

Own(im, p, s) == p # None => im[p] = s

OwnTable(im, tbl) == \A s \in Services : Own(im, tbl.pid[s], s)

ThreadOwn(im, r) ==
  /\ OwnTable(im, r.snap) /\ OwnTable(im, r.buf)
  /\ r.pc \in {"kill", "wait"} => /\ r.todo # <<>> /\ Head(r.todo).svc \in Services
                                  /\ Own(im, r.pid, Head(r.todo).svc)

OwnInv ==
  /\ TypeOK
  /\ OwnTable(image, pidFile.data)
  /\ Own(image, nginxPid, "nginx")
  /\ \A t \in Threads : ThreadOwn(image, th[t])
  /\ \A p \in Pids : phase[p] = "free" => image[p] = "other"

(* A process keeps its executable once it has one, so what was own stays.  *)
Stable == \A p \in Pids : image[p] \in Services => image'[p] = image[p]

LEMMA OwnStable ==
  ASSUME Stable
  PROVE  /\ \A p \in Pids \cup {None}, s \in Services : Own(image, p, s) => Own(image', p, s)
         /\ \A tbl \in PidTable : OwnTable(image, tbl) => OwnTable(image', tbl)
         /\ \A r \in ThreadStates : ThreadOwn(image, r) => ThreadOwn(image', r)
BY DEF Stable, Own, OwnTable, ThreadOwn, PidTable, ThreadStates

LEMMA OwnNothing == \A im : OwnTable(im, NoPids)
BY DEF OwnTable, Own, NoPids

LEMMA OwnIdle == \A im : ThreadOwn(im, IdleThread)
BY OwnNothing DEF ThreadOwn, IdleThread

LEMMA OwnLoaded == ASSUME OwnInv PROVE OwnTable(image, load_pids)
BY OwnNothing DEF OwnInv, load_pids

(* The thread that moves is judged by its new state, the others by         *)
(* stability.                                                              *)
LEMMA OwnThreads ==
  ASSUME OwnInv, Stable, NEW t \in Threads, NEW r,
         th' = [th EXCEPT ![t] = r], ThreadOwn(image', r)
  PROVE  \A u \in Threads : ThreadOwn(image', th'[u])
<1>1. \A u \in Threads : th[u] \in ThreadStates
  BY DEF OwnInv, TypeOK
<1>2. \A u \in Threads : ThreadOwn(image', th[u])
  BY <1>1, OwnStable DEF OwnInv
<1> QED
  BY <1>2 DEF OwnInv, TypeOK

LEMMA OwnContinue ==
  ASSUME OwnInv, Stable, NEW t \in Threads, NEW seq, Continue(t, seq)
  PROVE  \A u \in Threads : ThreadOwn(image', th'[u])
<1> DEFINE r == [IdleThread EXCEPT !.todo = seq, !.snap = KeptSnapshot(t, seq)]
<1>1. th[t] \in ThreadStates /\ ThreadOwn(image, th[t])
  BY DEF OwnInv, TypeOK
<1>2. ThreadOwn(image', th[t])
  BY <1>1, OwnStable
<1>3. OwnTable(image', KeptSnapshot(t, seq))
  <2>1. OwnTable(image', th[t].snap) /\ OwnTable(image', NoPids)
    BY <1>2, OwnNothing DEF ThreadOwn
  <2>2. KeptSnapshot(t, seq) = th[t].snap \/ KeptSnapshot(t, seq) = NoPids
    BY Zenon DEF KeptSnapshot
  <2> QED
    BY <2>1, <2>2
<1>4. r.pc = "begin" /\ r.snap = KeptSnapshot(t, seq) /\ r.buf = NoPids
  BY DEF IdleThread
<1> HIDE DEF r
<1>5. ThreadOwn(image', r)
  BY <1>3, <1>4, OwnNothing DEF ThreadOwn
<1>6. th' = [th EXCEPT ![t] = r]
  BY DEF Continue, r
<1> QED
  BY <1>5, <1>6, OwnThreads

(* Every part of the invariant but the two a thread can disturb.           *)
LEMMA OwnSameProcesses ==
  ASSUME OwnInv, UNCHANGED <<image, pidFile, nginxPid>>,
         \A p \in Pids : phase'[p] = "free" => phase[p] = "free"
  PROVE  /\ Stable
         /\ OwnTable(image', pidFile'.data)
         /\ Own(image', nginxPid', "nginx")
         /\ \A p \in Pids : phase'[p] = "free" => image'[p] = "other"
BY DEF OwnInv, Stable

LEMMA OwnThreadStep ==
  ASSUME ReusePids = FALSE, OwnInv, NEW t \in Threads, ThreadStep(t)
  PROVE  OwnInv'
<1> USE DEF procVars
<1>0. TypeOK /\ TypeOK' /\ th[t] \in ThreadStates /\ ThreadOwn(image, th[t])
  BY ThreadStepType DEF OwnInv, TypeOK
<1>a. OwnTable(image, load_pids) /\ load_pids \in PidTable
  BY OwnLoaded, TablesTyped DEF OwnInv, TypeOK
<1>q. SUFFICES /\ OwnTable(image', pidFile'.data)
               /\ Own(image', nginxPid', "nginx")
               /\ \A u \in Threads : ThreadOwn(image', th'[u])
               /\ \A p \in Pids : phase'[p] = "free" => image'[p] = "other"
  BY <1>0 DEF OwnInv
<1>1. CASE StopCheck(t)
  <2>1. Stable /\ OwnTable(image', pidFile'.data) /\ Own(image', nginxPid', "nginx")
        /\ \A p \in Pids : phase'[p] = "free" => image'[p] = "other"
    BY <1>1, OwnSameProcesses DEF StopCheck
  <2>2. CASE Return(t)
    BY <2>1, <2>2, OwnContinue DEF Return
  <2>3. CASE th' = [th EXCEPT ![t].pc = "kill", ![t].pid = StatusPid(Me(t).svc)]
    <3> DEFINE r == [th[t] EXCEPT !.pc = "kill", !.pid = StatusPid(Me(t).svc)]
    <3>1. ~Idle(t) /\ Me(t).svc \in Services
      BY <1>0, <1>1, NextCall, CallTyped DEF StopCheck, At
    <3>2. Own(image, StatusPid(Me(t).svc), Me(t).svc)
      BY <1>a, <3>1 DEF StatusPid, OwnTable, Own, OwnInv
    <3>3. ThreadOwn(image', r)
      BY <1>0, <1>1, <3>1, <3>2 DEF ThreadOwn, StopCheck, Idle, Me, ThreadStates
    <3>4. th' = [th EXCEPT ![t] = r]
      BY <2>3
    <3> HIDE DEF r
    <3> QED
      BY <2>1, <3>3, <3>4, OwnThreads
  <2> QED
    BY <1>1, <2>2, <2>3 DEF StopCheck
<1>2. CASE Kill(t)
  <2>1. Stable /\ OwnTable(image', pidFile'.data) /\ Own(image', nginxPid', "nginx")
    BY <1>2 DEF Kill, Stable, OwnInv, Own
  <2>2. \A p \in Pids : phase'[p] = "free" => image'[p] = "other"
    BY <1>0, <1>2 DEF Kill, Killed, OwnInv, TypeOK, ProcTypeOK
  <2> DEFINE b == [load_pids EXCEPT !.pid[Me(t).svc] = None]
             r == [th[t] EXCEPT !.pc = "write", !.pid = None, !.buf = b]
  <2>3. OwnTable(image', b)
    BY <1>2, <1>a DEF Kill, OwnTable, Own, PidTable
  <2>4. th' = [th EXCEPT ![t] = r]
    BY <1>2 DEF Kill
  <2>5. ThreadOwn(image', r)
    BY <1>0, <1>2, <2>3 DEF ThreadOwn, Kill, ThreadStates
  <2> HIDE DEF r
  <2> QED
    BY <2>1, <2>2, <2>4, <2>5, OwnThreads
<1>3. CASE Write(t)
  <2> DEFINE r == [th[t] EXCEPT !.pc = "flush", !.pid = None]
  <2>1. /\ Stable /\ OwnTable(image', pidFile'.data) /\ Own(image', nginxPid', "nginx")
        /\ \A p \in Pids : phase'[p] = "free" => image'[p] = "other"
    BY <1>3, OwnNothing DEF Write, OpenForWrite, EmptyFile, Stable, OwnInv
  <2>2. th' = [th EXCEPT ![t] = r]
    BY <1>3 DEF Write
  <2>3. ThreadOwn(image', r)
    BY <1>0, <1>3 DEF ThreadOwn, Write, ThreadStates
  <2> HIDE DEF r
  <2> QED
    BY <2>1, <2>2, <2>3, OwnThreads
<1>4. CASE Flush(t)
  <2>1. Stable /\ Own(image', nginxPid', "nginx")
        /\ \A p \in Pids : phase'[p] = "free" => image'[p] = "other"
    BY <1>4 DEF Flush, Stable, OwnInv
  <2>2. OwnTable(image', pidFile'.data)
    BY <1>0, <1>4, OwnNothing DEF Flush, WriteTable, GarbledFile, ThreadOwn
  <2> QED
    BY <1>4, <2>1, <2>2, OwnContinue DEF Flush, Return
<1>5. CASE StartCheck(t)
  <2>1. Stable /\ OwnTable(image', pidFile'.data) /\ Own(image', nginxPid', "nginx")
        /\ \A p \in Pids : phase'[p] = "free" => image'[p] = "other"
    BY <1>5, OwnSameProcesses DEF StartCheck
  <2>2. CASE Return(t)
    BY <2>1, <2>2, OwnContinue DEF Return
  <2>3. CASE ~Return(t)
    <3>1. PICK calls : th' = [th EXCEPT ![t].snap = load_pids, ![t].todo = calls]
      BY <1>5, <2>3 DEF StartCheck
    <3> DEFINE r == [th[t] EXCEPT !.snap = load_pids, !.todo = calls]
    <3>2. ThreadOwn(image', r)
      BY <1>0, <1>5, <1>a DEF ThreadOwn, StartCheck, At, ThreadStates
    <3>3. th' = [th EXCEPT ![t] = r]
      BY <3>1
    <3> HIDE DEF r
    <3> QED
      BY <2>1, <3>2, <3>3, OwnThreads
  <2> QED
    BY <2>2, <2>3
<1>6. CASE PhpCheck(t)
  <2>1. Stable /\ OwnTable(image', pidFile'.data) /\ Own(image', nginxPid', "nginx")
        /\ \A p \in Pids : phase'[p] = "free" => image'[p] = "other"
    BY <1>6, OwnSameProcesses DEF PhpCheck
  <2>2. CASE Return(t)
    BY <2>1, <2>2, OwnContinue DEF Return
  <2>3. CASE ~Return(t)
    <3>1. PICK calls : th' = [th EXCEPT ![t].todo = calls]
      BY <1>6, <2>3 DEF PhpCheck
    <3> DEFINE r == [th[t] EXCEPT !.todo = calls]
    <3>2. ThreadOwn(image', r)
      BY <1>0, <1>6 DEF ThreadOwn, PhpCheck, At, ThreadStates
    <3>3. th' = [th EXCEPT ![t] = r]
      BY <3>1
    <3> HIDE DEF r
    <3> QED
      BY <2>1, <3>2, <3>3, OwnThreads
  <2> QED
    BY <2>2, <2>3
<1>7. CASE Spawn(t)
  <2>1. ~Idle(t) /\ Me(t).op \in {"spawn", "phpSpawn"} /\ Me(t).svc \in Services
    BY <1>0, <1>7, NextCall, CallTyped DEF Spawn, At
  <2> DEFINE c == Call(Me(t).op, Me(t).svc, ChosenVersion(t))
  <2>2. PICK p \in Pids :
          Popen(p, Me(t).svc)
          /\ th' = [th EXCEPT ![t].pc = "wait", ![t].pid = p, ![t].todo = <<c>> \o Rest(t)]
    BY <1>7 DEF Spawn
  <2>3. Stable
    BY <1>0, <2>2 DEF Popen, Stable, OwnInv, TypeOK, ProcTypeOK, Services, Web
  <2>4. OwnTable(image', pidFile'.data) /\ Own(image', nginxPid', "nginx")
    <3>1. pidFile' = pidFile /\ nginxPid' = nginxPid
      BY <1>7, <2>2 DEF Spawn, Popen
    <3>2. pidFile.data \in PidTable /\ nginxPid \in Pids \cup {None}
      BY <1>0 DEF TypeOK, PidFileTypeOK, ProcTypeOK
    <3> QED
      BY <2>3, <3>1, <3>2, OwnStable DEF OwnInv, Services, Web
  <2>5. \A q \in Pids : phase'[q] = "free" => image'[q] = "other"
    BY <1>0, <2>2 DEF Popen, OwnInv, TypeOK, ProcTypeOK
  <2> DEFINE r == [th[t] EXCEPT !.pc = "wait", !.pid = p, !.todo = <<c>> \o Rest(t)]
  <2>6. ThreadOwn(image', r)
    <3>1. OwnTable(image', th[t].snap) /\ OwnTable(image', th[t].buf)
      BY <1>0, <2>3, OwnStable DEF ThreadOwn
    <3>2. Rest(t) \in Seq(Calls) /\ c \in Calls
      <4>1. th'[t].todo = <<c>> \o Rest(t)
        BY <1>0, <2>2 DEF ThreadStates, TypeOK
      <4>2. Me(t).ver \in Versions \cup {None} /\ get_current_php_version \in Versions
        BY <1>0, <2>1, NextCall, CallTyped, TablesTyped DEF TypeOK
      <4>3. ChosenVersion(t) \in Versions \cup {None}
        BY <4>2 DEF ChosenVersion
      <4>4. c \in Calls
        BY <2>1, <4>3, ServiceControlAssumption DEF Call, Calls, Ops
      <4> QED
        BY <1>0, <2>1, <4>4, NextCall
    <3>3. Head(<<c>> \o Rest(t)) = c /\ <<c>> \o Rest(t) # <<>>
      BY <3>2
    <3>4. c.svc = Me(t).svc /\ image'[p] = Me(t).svc
      BY <1>0, <2>2 DEF Call, Popen, TypeOK, ProcTypeOK
    <3>5. r.snap = th[t].snap /\ r.buf = th[t].buf /\ r.pid = p /\ r.todo = <<c>> \o Rest(t)
      BY <1>0 DEF ThreadStates
    <3> QED
      BY <2>1, <3>1, <3>3, <3>4, <3>5 DEF ThreadOwn, Own
  <2>7. th' = [th EXCEPT ![t] = r]
    BY <2>2
  <2> HIDE DEF r
  <2> QED
    BY <2>3, <2>4, <2>5, <2>6, <2>7, OwnThreads
<1>8. CASE SpawnFails(t)
  BY <1>8, OwnSameProcesses, OwnContinue DEF SpawnFails, Return
<1>9. CASE WaitOk(t)
  <2>1. Stable /\ OwnTable(image', pidFile'.data) /\ Own(image', nginxPid', "nginx")
        /\ \A p \in Pids : phase'[p] = "free" => image'[p] = "other"
    BY <1>9, OwnSameProcesses DEF WaitOk
  <2>2. Own(image, PidFound(t), Me(t).svc)
    BY <1>0, <1>9 DEF WaitOk, At, PidFound, ThreadOwn, Me, Own, OwnInv
  <2>3. OwnTable(image, TableRead(t)) /\ TableRead(t) \in PidTable
    BY <1>0, <1>a DEF TableRead, ThreadOwn, ThreadStates
  <2> DEFINE v == IF Me(t).svc = "php" THEN Me(t).ver ELSE TableRead(t).ver
             b == [pid |-> [TableRead(t).pid EXCEPT ![Me(t).svc] = PidFound(t)], ver |-> v]
             r == [th[t] EXCEPT !.pc = "write", !.pid = PidFound(t), !.buf = b]
  <2>4. OwnTable(image', b)
    BY <1>9, <2>2, <2>3 DEF WaitOk, OwnTable, Own, PidTable
  <2>5. th' = [th EXCEPT ![t] = r]
    BY <1>9 DEF WaitOk
  <2> HIDE DEF b
  <2>6. ThreadOwn(image', r)
    BY <1>0, <1>9, <2>4 DEF WaitOk, ThreadOwn, ThreadStates
  <2> HIDE DEF r
  <2> QED
    BY <2>1, <2>5, <2>6, OwnThreads
<1>10. CASE WaitTimeout(t)
  <2>1. Stable /\ OwnTable(image', pidFile'.data) /\ Own(image', nginxPid', "nginx")
        /\ \A p \in Pids : phase'[p] = "free" => image'[p] = "other"
    BY <1>0, <1>10, OwnSameProcesses DEF WaitTimeout, taskkill, Killed, TypeOK, ProcTypeOK
  <2> QED
    BY <1>10, <2>1, OwnContinue DEF WaitTimeout, Return
<1>11. CASE SetVersion(t)
  <2>1. Stable /\ OwnTable(image', pidFile'.data) /\ Own(image', nginxPid', "nginx")
        /\ \A p \in Pids : phase'[p] = "free" => image'[p] = "other"
    BY <1>11, OwnSameProcesses DEF SetVersion
  <2> DEFINE b == [load_pids EXCEPT !.ver = Me(t).ver]
             r == [th[t] EXCEPT !.pc = "write", !.buf = b]
  <2>2. OwnTable(image', b)
    BY <1>11, <1>a DEF SetVersion, OwnTable, PidTable
  <2>3. th' = [th EXCEPT ![t] = r]
    BY <1>11 DEF SetVersion
  <2> HIDE DEF b
  <2>4. ThreadOwn(image', r)
    BY <1>0, <1>11, <2>2 DEF SetVersion, ThreadOwn, ThreadStates
  <2> HIDE DEF r
  <2> QED
    BY <2>1, <2>3, <2>4, OwnThreads
<1>12. CASE Restart(t)
  BY <1>12, OwnSameProcesses, OwnContinue DEF Restart
<1>13. CASE FinishExit(t)
  BY <1>13, OwnSameProcesses, OwnIdle DEF FinishExit
<1> QED
  BY <1>1, <1>2, <1>3, <1>4, <1>5, <1>6, <1>7, <1>8, <1>9, <1>10, <1>11, <1>12, <1>13
  DEF ThreadStep

LEMMA OwnEnvironment ==
  ASSUME ReusePids = FALSE, OwnInv, Environment
  PROVE  OwnInv'
<1>0. TypeOK /\ TypeOK'
  BY NextType DEF OwnInv, Next
<1>1. th' = th /\ pidFile' = pidFile /\ image' = image
  BY DEF Environment, Bind, WriteNginxPid, CloseDown, ReusePid, ServiceCrash, ProcCrash, appVars
<1>2. Own(image', nginxPid', "nginx")
  BY <1>1
  DEF Environment, Bind, WriteNginxPid, CloseDown, ReusePid, ServiceCrash, ProcCrash, OwnInv, Own
<1>3. \A p \in Pids : phase'[p] = "free" => phase[p] = "free"
  <2>1. ASSUME NEW p \in Pids, Bind(p)
        PROVE  \A q \in Pids : phase'[q] = "free" => phase[q] = "free"
    <3> DEFINE x == IF is_port_open(PortOf[image[p]]) THEN "dead" ELSE "listening"
    <3>1. phase' = [phase EXCEPT ![p] = x] /\ x # "free"
      BY <2>1 DEF Bind
    <3> HIDE DEF x
    <3> QED
      BY <1>0, <3>1 DEF TypeOK, ProcTypeOK
  <2>2. ASSUME NEW p \in Pids, WriteNginxPid(p) \/ CloseDown(p) \/ ReusePid(p) \/ ServiceCrash(p)
        PROVE  \A q \in Pids : phase'[q] = "free" => phase[q] = "free"
    BY <1>0, <2>2 DEF WriteNginxPid, CloseDown, ReusePid, ServiceCrash, ProcCrash, TypeOK, ProcTypeOK
  <2> QED
    BY <2>1, <2>2 DEF Environment
<1> QED
  BY <1>0, <1>1, <1>2, <1>3 DEF OwnInv

LEMMA OwnNext == ReusePids = FALSE /\ OwnInv /\ [Next]_vars => OwnInv'
<1> SUFFICES ASSUME ReusePids = FALSE, OwnInv, [Next]_vars PROVE OwnInv'
  OBVIOUS
<1>0. TypeOK /\ TypeOK'
  BY NextType DEF OwnInv
<1>1. ASSUME NEW t \in Threads, ThreadStep(t) PROVE OwnInv'
  BY <1>1, OwnThreadStep
<1>2. ASSUME NEW t \in Threads, Button(t) PROVE OwnInv'
  <2>1. PICK request, todo : Press(t, request, todo)
    BY <1>2 DEF Button, ToggleService, SwitchServer, StartAll, StopAll, ChangePhpVersion,
                ToggleExtension, RealExit
  <2>2. /\ Stable /\ OwnTable(image', pidFile'.data) /\ Own(image', nginxPid', "nginx")
        /\ \A p \in Pids : phase'[p] = "free" => image'[p] = "other"
    BY <2>1, OwnSameProcesses DEF Press, procVars
  <2> DEFINE r == [th[t] EXCEPT !.todo = todo]
  <2>3. ThreadOwn(image', r)
    BY <1>0, <2>1 DEF Press, procVars, Idle, OwnInv, ThreadOwn, TypeOK, ThreadStates
  <2>4. th' = [th EXCEPT ![t] = r]
    BY <2>1 DEF Press
  <2> HIDE DEF r
  <2> QED
    BY <1>0, <2>2, <2>3, <2>4, OwnThreads DEF OwnInv
<1>3. CASE Launch
  <2>1. OwnTable(image, load_pids)
    BY OwnLoaded
  <2>2. OwnTable(image, Cleaned(load_pids))
    BY <2>1 DEF Cleaned, OwnTable, Own
  <2>3. OwnTable(image', pidFile'.data)
    BY <1>3, <2>2 DEF Launch, LaunchWith, procVars, OwnInv
  <2> QED
    BY <1>0, <1>3, <2>3 DEF Launch, LaunchWith, procVars, OwnInv
<1>4. CASE AppCrash
  BY <1>0, <1>4, OwnIdle DEF AppCrash, procVars, OwnInv
<1>5. CASE Environment
  BY <1>5, OwnEnvironment
<1>6. CASE UNCHANGED vars
  BY <1>0, <1>6 DEF vars, appVars, procVars, OwnInv
<1>7. CASE Quiet
  BY <1>6, <1>7 DEF Quiet
<1>8. ASSUME NEW t \in Threads, SaveFails(t) PROVE OwnInv'
  <2>1. Stable /\ Own(image', nginxPid', "nginx")
        /\ \A p \in Pids : phase'[p] = "free" => image'[p] = "other"
    BY <1>8 DEF SaveFails, procVars, Stable, OwnInv
  <2>2. OwnTable(image', pidFile'.data)
    BY <1>8, OwnNothing DEF SaveFails, GarbledFile, procVars, OwnInv
  <2>3. \A u \in Threads : ThreadOwn(image', th'[u])
    BY <1>8, <2>1, OwnContinue DEF SaveFails, Return
  <2> QED
    BY <1>0, <2>1, <2>2, <2>3 DEF OwnInv
<1>9. CASE LaunchUnsaved
  <2>1. OwnTable(image', pidFile'.data)
    BY <1>9, OwnNothing
    DEF LaunchUnsaved, LaunchWith, EmptyFile, GarbledFile, procVars, OwnInv
  <2> QED
    BY <1>0, <1>9, <2>1 DEF LaunchUnsaved, LaunchWith, procVars, OwnInv
<1> QED
  BY <1>1, <1>2, <1>3, <1>4, <1>5, <1>6, <1>7, <1>8, <1>9 DEF Next

LEMMA OwnInit == Init => OwnInv
<1> SUFFICES ASSUME Init PROVE OwnInv
  OBVIOUS
<1>1. OwnTable(image, pidFile.data)
  BY DEF Init, PidFileInit, OwnTable, Own, NoPids
<1> QED
  BY <1>1, InitType, OwnIdle DEF Init, ProcInit, OwnInv, Own

(* As long as Windows does not hand out the id of a dead process again, no *)
(* entry of services_pids.json ever names a process of another service,    *)
(* for any number of threads, crashes of the application and of services,  *)
(* and torn or overlapping writes.                                         *)
THEOREM PidsAreOwn ==
  ASSUME ReusePids = FALSE
  PROVE  Spec => []RecordedPidIsOwn
<1>1. OwnInv => RecordedPidIsOwn
  BY DEF OwnInv, OwnTable, Own, RecordedPidIsOwn
<1>2. OwnInv /\ [Next]_vars => OwnInv'
  BY OwnNext
<1> QED
  BY <1>1, <1>2, OwnInit, PTL DEF Spec

(* Under the same assumption no thread ever kills a process that is not of *)
(* the service it was told to stop or gave up on.                          *)
THEOREM KillsAreOwn ==
  ASSUME ReusePids = FALSE
  PROVE  Spec => KillsOnlyOwn
<1> DEFINE A == \A p \in Pids : Alive(p) /\ phase'[p] = "dead" =>
                  \A t \in Threads : th'[t] # th[t] => image[p] = Me(t).svc
<1>1. OwnInv /\ [Next]_vars => [A]_vars
  <2> SUFFICES ASSUME OwnInv, Next, NEW p \in Pids, Alive(p), phase'[p] = "dead",
                      NEW t \in Threads, th'[t] # th[t]
               PROVE  image[p] = Me(t).svc
    OBVIOUS
  <2>0. TypeOK /\ phase'[p] # phase[p] /\ phase' # phase
    BY DEF OwnInv, Alive
  <2>1. PICK u \in Threads : Kill(u) \/ Spawn(u) \/ WaitTimeout(u)
    BY <2>0 DEF Next, ThreadStep, Button, StopCheck, Write, Flush, StartCheck, PhpCheck,
      SpawnFails, WaitOk, SetVersion, Restart, FinishExit, ToggleService, SwitchServer,
      StartAll, StopAll, ChangePhpVersion, ToggleExtension, RealExit, Press, Launch, LaunchUnsaved,
      LaunchWith, SaveFails, AppCrash, Environment, WriteNginxPid, ServiceCrash, Quiet, vars, appVars, procVars
  <2>2. u = t
    BY <2>0, <2>1 DEF Kill, Spawn, WaitTimeout, Return, Continue, TypeOK
  <2>3. ThreadOwn(image, th[t])
    BY DEF OwnInv
  <2>4. CASE Kill(t)
    <3>1. p \in KillSet(t) \/ (Me(t).svc = "mysql" /\ image[p] = "mysql")
      BY <2>0, <2>4 DEF Kill, Killed, TypeOK, ProcTypeOK, Alive
    <3>2. Own(image, th[t].pid, Me(t).svc)
      BY <2>3, <2>4 DEF ThreadOwn, Kill, At, Me
    <3> QED
      BY <3>1, <3>2 DEF KillSet, AliveOf, Own
  <2>5. CASE WaitTimeout(t)
    <3>1. p = th[t].pid
      BY <2>0, <2>5 DEF WaitTimeout, taskkill, Killed
    <3> QED
      BY <2>3, <2>5, <3>1, ProcessesAssumption DEF ThreadOwn, WaitTimeout, At, Me, Own
  <2>6. CASE Spawn(t)
    BY <2>0, <2>6 DEF Spawn, Popen, TypeOK, ProcTypeOK
  <2> QED
    BY <2>1, <2>2, <2>4, <2>5, <2>6
<1>2. OwnInv /\ [Next]_vars => OwnInv'
  BY OwnNext
<1> QED
  BY <1>1, <1>2, OwnInit, PTL DEF Spec, KillsOnlyOwn
=============================================================================
