--------------------------- MODULE DatabaseProofs ---------------------------
(***************************************************************************)
(* Proofs about Database for every number of threads, every set of users,  *)
(* passwords and databases, and every bound.                               *)
(***************************************************************************)
EXTENDS Database, TLAPS

QueriesIn(todo) == {todo[i] : i \in DOMAIN todo}

LEMMA QueriesInTail ==
  ASSUME NEW s \in Seq(Queries), s # <<>>
  PROVE  /\ Head(s) \in Queries /\ Tail(s) \in Seq(Queries)
         /\ QueriesIn(s) = {Head(s)} \cup QueriesIn(Tail(s))
         /\ (Len(s) = 1) <=> (Tail(s) = <<>>)
<1>1. /\ Head(s) = s[1] /\ 1 \in DOMAIN s /\ Head(s) \in Queries
      /\ Tail(s) \in Seq(Queries) /\ Len(Tail(s)) = Len(s) - 1
      /\ DOMAIN s = 1..Len(s) /\ DOMAIN Tail(s) = 1..Len(Tail(s)) /\ Len(s) \in Nat
  OBVIOUS
<1>2. \A i \in DOMAIN s : s[i] \in {Head(s)} \cup QueriesIn(Tail(s))
  <2> TAKE i \in DOMAIN s
  <2>1. CASE i = 1
    BY <1>1, <2>1
  <2>2. CASE i # 1
    <3>1. i - 1 \in DOMAIN Tail(s) /\ Tail(s)[i - 1] = s[i]
      BY <1>1, <2>2
    <3> QED
      BY <3>1 DEF QueriesIn
  <2> QED
    BY <2>1, <2>2
<1>3. \A i \in DOMAIN Tail(s) : Tail(s)[i] \in QueriesIn(s)
  <2> TAKE i \in DOMAIN Tail(s)
  <2>1. i + 1 \in DOMAIN s /\ Tail(s)[i] = s[i + 1]
    BY <1>1
  <2> QED
    BY <2>1 DEF QueriesIn
<1>4. QueriesIn(s) = {Head(s)} \cup QueriesIn(Tail(s))
  BY <1>1, <1>2, <1>3 DEF QueriesIn
<1>5. (Len(s) = 1) <=> (Tail(s) = <<>>)
  BY <1>1
<1> QED
  BY <1>1, <1>4, <1>5

LEMMA RootQueriesIn ==
  /\ RootQueries \in Seq(Queries) /\ RootQueries # <<>>
  /\ QueriesIn(RootQueries) = {Alter("localhost"), Alter("127.0.0.1"), Flush}
<1>1. /\ Alter("localhost") \in Queries /\ Alter("127.0.0.1") \in Queries /\ Flush \in Queries
  BY DEF Alter, Flush, Root, Queries, Accounts, Hosts
<1> QED
  BY <1>1 DEF RootQueries, QueriesIn

(* What a thread asks of the server. *)
UserWork(u, d) ==
  {Create(u, h) : h \in Hosts} \cup {Grant(u, h) : h \in Hosts} \cup {Flush} \cup
  (IF d = Everything THEN {} ELSE {CreateDb})

LEMMA UserQueriesIn ==
  ASSUME NEW u \in Users \cup {"root"}, NEW d
  PROVE  /\ UserQueries(u, d) \in Seq(Queries) /\ UserQueries(u, d) # <<>>
         /\ QueriesIn(UserQueries(u, d)) = UserWork(u, d)
<1> DEFINE s == <<Create(u, "localhost"), Create(u, "127.0.0.1"),
                  Grant(u, "localhost"), Grant(u, "127.0.0.1"), Flush>>
<1>1. /\ \A h \in Hosts : Create(u, h) \in Queries /\ Grant(u, h) \in Queries
      /\ Flush \in Queries /\ CreateDb \in Queries
  BY DEF Create, Grant, Flush, CreateDb, Root, Queries, Accounts, Hosts
<1>2. s \in Seq(Queries)
  BY <1>1 DEF Hosts
<1>3. QueriesIn(s) = {Create(u, h) : h \in Hosts} \cup {Grant(u, h) : h \in Hosts} \cup {Flush}
  BY DEF QueriesIn, Hosts
<1>4. CASE d = Everything
  <2>1. UserQueries(u, d) = s
    BY <1>2, <1>4 DEF UserQueries
  <2> QED
    BY <1>2, <1>3, <1>4, <2>1 DEF UserWork
<1>5. CASE d # Everything
  <2> DEFINE t == <<CreateDb>> \o s
  <2>1. UserQueries(u, d) = t
    BY <1>5 DEF UserQueries
  <2> HIDE DEF s
  <2>2. <<CreateDb>> \in Seq(Queries)
    BY <1>1
  <2>3. t \in Seq(Queries) /\ t # <<>> /\ Head(t) = CreateDb
    BY <1>2, <2>2
  <2>4. Tail(t) = s
    BY <1>2, <2>2
  <2>5. QueriesIn(t) = {CreateDb} \cup QueriesIn(s)
    BY <2>3, <2>4, QueriesInTail
  <2> QED
    BY <1>3, <1>5, <2>1, <2>3, <2>5 DEF UserWork
<1> QED
  BY <1>4, <1>5

-----------------------------------------------------------------------------
(* Types: a thread asks for what belongs to its job and nothing else. *)

Work(j) ==
  IF j.kind = "root" THEN {Alter("localhost"), Alter("127.0.0.1"), Flush}
                     ELSE UserWork(j.user, j.db)

Shaped(j) ==
  /\ QueriesIn(j.todo) \subseteq Work(j)
  /\ j.pc = "query" => j.todo # <<>>
  /\ j.kind = "user" => j.pc \in {"none", "query", "ok", "failed"}

TypeInv == TypeOK /\ \A w \in Workers : Shaped(job[w])

LEMMA JobFields ==
  ASSUME NEW j \in Jobs
  PROVE  /\ j.kind \in {"root", "user"} /\ j.todo \in Seq(Queries)
         /\ j.pw \in Passwords \cup {NoPassword} /\ j.user \in Users \cup {"root"}
         /\ j.db \in Databases \cup {Everything}
         /\ j.pc \in {"none", "query", "open", "save", "pma", "ok", "failed"}
BY DEF Jobs

LEMMA NoJobShaped == NoJob \in Jobs /\ Shaped(NoJob)
BY DEF NoJob, Jobs, Shaped, QueriesIn

(* What a query does, and what it leaves alone. *)
LEMMA RunEffect ==
  ASSUME TypeOK, NEW j \in Jobs, NEW q \in Work(j), q \in Queries, Run(q, j)
  PROVE  /\ account' \in [Accounts -> Passwords \cup {NoPassword, Absent}]
         /\ granted' \subseteq Accounts \X (Databases \cup {Everything})
         /\ schemas' \subseteq Databases
         /\ granted \subseteq granted' /\ schemas \subseteq schemas'
         /\ q = CreateDb => j.db \in schemas'
         /\ \A h \in Hosts : q = Grant(j.user, h) => <<<<j.user, h>>, j.db>> \in granted'
         /\ \A a \in Accounts :
              \/ account'[a] = account[a]
              \/ a[1] = "root"
              \/ /\ account[a] = Absent /\ account'[a] = j.pw
                 /\ j.kind = "user" /\ a[1] = j.user
         /\ \A h \in Hosts : q = Create(j.user, h) /\ account[<<j.user, h>>] = Absent
                               => account'[<<j.user, h>>] = j.pw
<1>0. /\ j.kind \in {"root", "user"} /\ j.pw \in Passwords \cup {NoPassword}
      /\ j.db \in Databases \cup {Everything} /\ j.user \in Users \cup {"root"}
      /\ q.acct \in Accounts
      /\ account \in [Accounts -> Passwords \cup {NoPassword, Absent}]
      /\ granted \subseteq Accounts \X (Databases \cup {Everything}) /\ schemas \subseteq Databases
  BY JobFields DEF TypeOK, Queries
<1>1. CASE q.kind = "alter"
  <2>1. q.acct[1] = "root" /\ account' = [account EXCEPT ![q.acct] = j.pw]
        /\ UNCHANGED <<granted, schemas>>
    BY <1>1 DEF Run, Work, UserWork, Alter, Create, Grant, Flush, CreateDb, Identified
  <2>2. q # CreateDb /\ \A h \in Hosts : q # Grant(j.user, h) /\ q # Create(j.user, h)
    BY <1>1 DEF CreateDb, Grant, Create
  <2> QED
    BY <1>0, <2>1, <2>2
<1>2. CASE q.kind = "user"
  <2>1. PICK h \in Hosts : j.kind = "user" /\ q = Create(j.user, h)
    BY <1>0, <1>2 DEF Work, UserWork, Alter, Create, Grant, Flush, CreateDb
  <2>2. q.acct = <<j.user, h>>
    BY <2>1 DEF Create
  <2>3. /\ account' = IF account[q.acct] = Absent THEN [account EXCEPT ![q.acct] = j.pw]
                                                  ELSE account
        /\ UNCHANGED <<granted, schemas>>
    BY <1>2 DEF Run, Identified
  <2>4. q # CreateDb /\ \A g \in Hosts : q # Grant(j.user, g)
    BY <1>2 DEF CreateDb, Grant
  <2>5. \A g \in Hosts : q = Create(j.user, g) => <<j.user, g>> = q.acct
    BY DEF Create
  <2> QED
    BY <1>0, <2>1, <2>2, <2>3, <2>4, <2>5
<1>3. CASE q.kind = "grant"
  <2>1. PICK h \in Hosts : q = Grant(j.user, h)
    BY <1>0, <1>3 DEF Work, UserWork, Alter, Create, Grant, Flush, CreateDb
  <2>2. q.acct = <<j.user, h>>
    BY <2>1 DEF Grant
  <2>3. granted' = granted \cup {<<q.acct, j.db>>} /\ UNCHANGED <<account, schemas>>
    BY <1>3 DEF Run
  <2>4. q # CreateDb /\ \A g \in Hosts : q # Create(j.user, g)
    BY <1>3 DEF CreateDb, Create
  <2>5. \A g \in Hosts : q = Grant(j.user, g) => <<j.user, g>> = q.acct
    BY DEF Grant
  <2>6. <<q.acct, j.db>> \in Accounts \X (Databases \cup {Everything})
    BY <1>0
  <2> QED
    BY <1>0, <2>2, <2>3, <2>4, <2>5, <2>6
<1>4. CASE q.kind = "db"
  <2>1. j.db # Everything
    BY <1>0, <1>4 DEF Work, UserWork, Alter, Create, Grant, Flush, CreateDb
  <2>2. schemas' = schemas \cup {j.db} /\ UNCHANGED <<account, granted>>
    BY <1>4 DEF Run
  <2>3. \A g \in Hosts : q # Create(j.user, g) /\ q # Grant(j.user, g)
    BY <1>4 DEF Create, Grant
  <2> QED
    BY <1>0, <2>1, <2>2, <2>3
<1>5. CASE q.kind = "flush"
  <2>1. UNCHANGED <<account, granted, schemas>>
    BY <1>5 DEF Run, serverVars
  <2>2. q # CreateDb /\ \A g \in Hosts : q # Create(j.user, g) /\ q # Grant(j.user, g)
    BY <1>5 DEF Create, Grant, CreateDb
  <2> QED
    BY <1>0, <2>1, <2>2
<1> QED
  BY <1>1, <1>2, <1>3, <1>4, <1>5 DEF Queries

LEMMA AdvanceShaped ==
  ASSUME NEW j \in Jobs, Shaped(j), j.pc = "query"
  PROVE  /\ Head(j.todo) \in Work(j) /\ Head(j.todo) \in Queries
         /\ Advance(j) \in Jobs /\ Shaped(Advance(j))
         /\ QueriesIn(j.todo) = {Head(j.todo)} \cup QueriesIn(Advance(j).todo)
         /\ Advance(j).kind = j.kind /\ Advance(j).user = j.user
         /\ Advance(j).pw = j.pw /\ Advance(j).db = j.db
         /\ Advance(j).pc = "ok" => Advance(j).todo = <<>>
<1>1. /\ j.todo \in Seq(Queries) /\ j.todo # <<>>
  BY JobFields DEF Shaped
<1>2. /\ Head(j.todo) \in Queries /\ Tail(j.todo) \in Seq(Queries)
      /\ QueriesIn(j.todo) = {Head(j.todo)} \cup QueriesIn(Tail(j.todo))
      /\ (Len(j.todo) = 1) <=> (Tail(j.todo) = <<>>)
  BY <1>1, QueriesInTail
<1> DEFINE pc == IF Len(j.todo) = 1 THEN AfterQueries(j) ELSE "query"
<1>3. pc \in {"query", "open", "ok"} /\ (j.kind = "user" => pc \in {"query", "ok"})
      /\ (pc = "query" => Tail(j.todo) # <<>>) /\ (pc = "ok" => Tail(j.todo) = <<>>)
  BY <1>2, JobFields DEF AfterQueries
<1>4. Advance(j) = [j EXCEPT !.todo = Tail(j.todo), !.pc = pc]
  BY DEF Advance
<1> HIDE DEF pc
<1>5. /\ Advance(j) \in Jobs /\ Advance(j).todo = Tail(j.todo) /\ Advance(j).pc = pc
      /\ Advance(j).kind = j.kind /\ Advance(j).user = j.user
      /\ Advance(j).pw = j.pw /\ Advance(j).db = j.db
  BY <1>2, <1>3, <1>4 DEF Jobs
<1>6. Work(Advance(j)) = Work(j)
  BY <1>5 DEF Work
<1> QED
  BY <1>2, <1>3, <1>5, <1>6 DEF Shaped

LEMMA PcShaped ==
  ASSUME NEW j \in Jobs, Shaped(j), NEW pc \in {"save", "pma", "ok", "failed"},
         j.kind = "root" \/ pc \in {"ok", "failed"}
  PROVE  [j EXCEPT !.pc = pc] \in Jobs /\ Shaped([j EXCEPT !.pc = pc])
<1> DEFINE k == [j EXCEPT !.pc = pc]
<1>1. /\ k \in Jobs /\ k.pc = pc /\ k.todo = j.todo /\ k.kind = j.kind
      /\ k.user = j.user /\ k.db = j.db
  BY DEF Jobs
<1>2. Work(k) = Work(j)
  BY <1>1 DEF Work
<1> HIDE DEF k
<1>3. Shaped(k)
  BY <1>1, <1>2 DEF Shaped
<1> QED
  BY <1>1, <1>3 DEF k

LEMMA JobSet ==
  ASSUME TypeInv, NEW w \in Workers, NEW j \in Jobs, Shaped(j), job' = [job EXCEPT ![w] = j]
  PROVE  /\ job' \in [Workers -> Jobs] /\ \A x \in Workers : Shaped(job'[x])
         /\ job'[w] = j /\ \A x \in Workers : x # w => job'[x] = job[x]
BY DEF TypeInv, TypeOK

(* A step that only moves a thread on. *)
LEMMA PcSet ==
  ASSUME TypeInv, NEW w \in Workers, NEW pc \in {"save", "pma", "ok", "failed"},
         job[w].kind = "root" \/ pc \in {"ok", "failed"}, job' = [job EXCEPT ![w].pc = pc]
  PROVE  /\ job' \in [Workers -> Jobs] /\ \A x \in Workers : Shaped(job'[x])
         /\ job'[w] = [job[w] EXCEPT !.pc = pc] /\ \A x \in Workers : x # w => job'[x] = job[x]
<1>1. job[w] \in Jobs /\ Shaped(job[w])
  BY DEF TypeInv, TypeOK
<1>2. job' = [job EXCEPT ![w] = [job[w] EXCEPT !.pc = pc]]
  BY DEF TypeInv, TypeOK
<1> QED
  BY <1>1, <1>2, PcShaped, JobSet

LEMMA InitType == Init => TypeInv
<1> SUFFICES ASSUME Init PROVE TypeInv
  OBVIOUS
<1>1. account \in [Accounts -> Passwords \cup {NoPassword, Absent}]
  BY DEF Init
<1>2. job \in [Workers -> Jobs] /\ \A w \in Workers : Shaped(job[w])
  BY NoJobShaped DEF Init
<1> QED
  BY <1>1, <1>2, DatabaseAssumption DEF Init, TypeInv, TypeOK

(* The two ways a query ends that the server sees. *)
LEMMA QueryOkEffect ==
  ASSUME TypeInv, NEW w \in Workers, QueryOk(w)
  PROVE  /\ job[w] \in Jobs /\ Shaped(job[w]) /\ job[w].pc = "query"
         /\ Head(job[w].todo) \in Work(job[w]) /\ Head(job[w].todo) \in Queries
         /\ Run(Head(job[w].todo), job[w])
         /\ job' \in [Workers -> Jobs] /\ \A x \in Workers : Shaped(job'[x])
         /\ job'[w] = Advance(job[w]) /\ \A x \in Workers : x # w => job'[x] = job[x]
<1>1. job[w] \in Jobs /\ Shaped(job[w]) /\ job[w].pc = "query"
  BY DEF TypeInv, TypeOK, QueryOk, At
<1> QED
  BY <1>1, AdvanceShaped, JobSet DEF QueryOk

LEMMA TimeOutEffect ==
  ASSUME TypeInv, NEW w \in Workers, QueryTimesOut(w)
  PROVE  /\ job[w] \in Jobs /\ job[w].pc = "query"
         /\ Head(job[w].todo) \in Work(job[w]) /\ Head(job[w].todo) \in Queries
         /\ UNCHANGED serverVars \/ Run(Head(job[w].todo), job[w])
         /\ job' \in [Workers -> Jobs] /\ \A x \in Workers : Shaped(job'[x])
         /\ job'[w].pc = "failed" /\ \A x \in Workers : x # w => job'[x] = job[x]
<1>1. job[w] \in Jobs /\ Shaped(job[w]) /\ job[w].pc = "query"
  BY DEF TypeInv, TypeOK, QueryTimesOut, At
<1>2. job' = [job EXCEPT ![w].pc = "failed"]
  BY DEF QueryTimesOut
<1>3. [job[w] EXCEPT !.pc = "failed"].pc = "failed"
  BY <1>1 DEF Jobs
<1> QED
  BY <1>1, <1>2, <1>3, AdvanceShaped, PcSet DEF QueryTimesOut

LEMMA PressEffect ==
  ASSUME TypeInv, NEW w \in Workers, NEW j \in Jobs, Shaped(j), Press(w, j)
  PROVE  /\ job' \in [Workers -> Jobs] /\ \A x \in Workers : Shaped(job'[x])
         /\ job'[w] = j /\ \A x \in Workers : x # w => job'[x] = job[x]
         /\ UNCHANGED <<serverVars, config, pma, mysqld>> /\ events' \in 0..MaxEvents
<1>1. events' \in 0..MaxEvents
  BY DatabaseAssumption DEF Press, TypeInv, TypeOK
<1> QED
  BY <1>1, JobSet DEF Press

(* The jobs the buttons start. *)
RootJob(pw) == [NoJob EXCEPT !.kind = "root", !.pw = pw, !.todo = RootQueries, !.pc = "query"]

UserJob(u, pw, d) ==
  [kind |-> "user", todo |-> UserQueries(u, d), pw |-> pw, user |-> u, db |-> d, pc |-> "query"]

LEMMA PressedJobs ==
  ASSUME NEW pw \in Passwords
  PROVE  /\ RootJob(pw) \in Jobs /\ Shaped(RootJob(pw)) /\ RootJob(pw).kind = "root"
         /\ \A u \in Users, d \in Databases \cup {Everything} :
              /\ UserJob(u, pw, d) \in Jobs /\ Shaped(UserJob(u, pw, d))
              /\ UserJob(u, pw, d).todo = UserQueries(u, d)
<1>1. /\ RootJob(pw) \in Jobs /\ RootJob(pw).kind = "root"
      /\ RootJob(pw).todo = RootQueries
  BY NoJobShaped, RootQueriesIn DEF RootJob, Jobs
<1>2. Shaped(RootJob(pw))
  BY <1>1, RootQueriesIn DEF Shaped, Work
<1>3. ASSUME NEW u \in Users, NEW d \in Databases \cup {Everything}
      PROVE  /\ UserJob(u, pw, d) \in Jobs /\ Shaped(UserJob(u, pw, d))
             /\ UserJob(u, pw, d).todo = UserQueries(u, d)
  BY UserQueriesIn DEF UserJob, Jobs, Shaped, Work
<1> QED
  BY <1>1, <1>2, <1>3

-----------------------------------------------------------------------------
(* What a step is to the jobs that create users: it leaves them alone, it   *)
(* starts one, or it is a query of a thread.                                *)

Live(j) == j.kind = "user" /\ j.pc \in {"query", "ok"}

Moved ==
  /\ UNCHANGED serverVars /\ forked' = forked
  /\ \A x \in Workers : job'[x] = job[x] \/ ~Live(job'[x])

Pressed(w, u, pw, d) ==
  /\ UNCHANGED serverVars
  /\ job'[w] = UserJob(u, pw, d) /\ \A x \in Workers : x # w => job'[x] = job[x]
  /\ forked \subseteq forked' /\ (u \in forked' \/ ~Forks(u, pw))

Queried(w) ==
  /\ job[w] \in Jobs /\ Shaped(job[w]) /\ job[w].pc = "query"
  /\ Head(job[w].todo) \in Work(job[w]) /\ Head(job[w].todo) \in Queries
  /\ Run(Head(job[w].todo), job[w])
  /\ job'[w] = Advance(job[w]) \/ ~Live(job'[w])
  /\ \A x \in Workers : x # w => job'[x] = job[x]
  /\ forked' = forked

StepShape ==
  \/ Moved
  \/ \E w \in Workers : Queried(w)
  \/ \E w \in Workers, u \in Users, pw \in Passwords, d \in Databases \cup {Everything} :
       Pressed(w, u, pw, d)

(* A step of a thread that is not a query. *)
LEMMA PcSetMoved ==
  ASSUME TypeInv, NEW w \in Workers, NEW pc \in {"save", "pma", "ok", "failed"},
         job[w].kind = "root" \/ pc = "failed", job' = [job EXCEPT ![w].pc = pc],
         UNCHANGED serverVars, forked' = forked
  PROVE  Moved /\ job' \in [Workers -> Jobs] /\ \A x \in Workers : Shaped(job'[x])
<1>1. /\ job' \in [Workers -> Jobs] /\ \A x \in Workers : Shaped(job'[x])
      /\ job'[w] = [job[w] EXCEPT !.pc = pc] /\ \A x \in Workers : x # w => job'[x] = job[x]
  BY PcSet
<1>2. job'[w].pc = pc /\ job'[w].kind = job[w].kind
  BY <1>1 DEF TypeInv, TypeOK, Jobs
<1>3. ~Live(job'[w])
  BY <1>2 DEF Live
<1> QED
  BY <1>1, <1>3 DEF Moved

(* The steps after the queries of a root job. *)
Files(w) ==
  \/ OpenConfig(w) \/ SaveConfig(w) \/ ConfigUnsaved(w)
  \/ UpdatePhpMyAdmin(w) \/ PhpMyAdminUnwritten(w)

LEMMA NextType == TypeInv /\ [Next]_vars => TypeInv' /\ StepShape
<1> SUFFICES ASSUME TypeInv, [Next]_vars PROVE TypeInv' /\ StepShape
  OBVIOUS
<1>0. TypeOK /\ \A w \in Workers : job[w] \in Jobs /\ Shaped(job[w])
  BY DEF TypeInv, TypeOK
<1>1. ASSUME NEW w \in Workers, QueryOk(w) PROVE TypeInv' /\ StepShape
  <2>1. /\ Queried(w) /\ job' \in [Workers -> Jobs] /\ \A x \in Workers : Shaped(job'[x])
    BY <1>1, QueryOkEffect DEF Queried, QueryOk
  <2>2. /\ account' \in [Accounts -> Passwords \cup {NoPassword, Absent}]
        /\ granted' \subseteq Accounts \X (Databases \cup {Everything})
        /\ schemas' \subseteq Databases
    BY <1>0, <2>1, RunEffect DEF Queried
  <2>3. TypeInv'
    BY <1>0, <1>1, <2>1, <2>2 DEF QueryOk, TypeInv, TypeOK
  <2> QED
    BY <2>1, <2>3 DEF StepShape
<1>2. ASSUME NEW w \in Workers, QueryFails(w) PROVE TypeInv' /\ StepShape
  <2>1. Moved /\ job' \in [Workers -> Jobs] /\ \A x \in Workers : Shaped(job'[x])
    BY <1>2, PcSetMoved DEF QueryFails
  <2>2. TypeInv'
    BY <1>0, <1>2, <2>1 DEF QueryFails, TypeInv, TypeOK, serverVars
  <2> QED
    BY <2>1, <2>2 DEF StepShape
<1>3. ASSUME NEW w \in Workers, QueryTimesOut(w) PROVE TypeInv' /\ StepShape
  <2>1. /\ job' \in [Workers -> Jobs] /\ \A x \in Workers : Shaped(job'[x])
        /\ job[w].pc = "query" /\ job'[w].pc = "failed"
        /\ \A x \in Workers : x # w => job'[x] = job[x]
        /\ Head(job[w].todo) \in Work(job[w]) /\ Head(job[w].todo) \in Queries
        /\ UNCHANGED serverVars \/ Run(Head(job[w].todo), job[w])
    BY <1>3, TimeOutEffect
  <2>2. forked' = forked /\ UNCHANGED <<mysqld, config, pma>> /\ events' \in 0..MaxEvents
    BY <1>0, <1>3, DatabaseAssumption DEF QueryTimesOut, TypeOK
  <2>3. ~Live(job'[w])
    BY <2>1 DEF Live
  <2>4. CASE UNCHANGED serverVars
    <3>1. Moved
      BY <2>1, <2>2, <2>3, <2>4 DEF Moved
    <3>2. TypeInv'
      BY <1>0, <2>1, <2>2, <2>4 DEF TypeInv, TypeOK, serverVars
    <3> QED
      BY <3>1, <3>2 DEF StepShape
  <2>5. CASE Run(Head(job[w].todo), job[w])
    <3>1. Queried(w)
      BY <1>0, <2>1, <2>2, <2>3, <2>5 DEF Queried
    <3>2. /\ account' \in [Accounts -> Passwords \cup {NoPassword, Absent}]
          /\ granted' \subseteq Accounts \X (Databases \cup {Everything})
          /\ schemas' \subseteq Databases
      BY <1>0, <3>1, RunEffect DEF Queried
    <3>3. TypeInv'
      BY <1>0, <2>1, <2>2, <3>2 DEF TypeInv, TypeOK
    <3> QED
      BY <3>1, <3>3 DEF StepShape
  <2> QED
    BY <2>1, <2>4, <2>5
<1>4. ASSUME NEW w \in Workers, Files(w) PROVE TypeInv' /\ StepShape
  <2>1. job[w].kind = "root"
    BY <1>0, <1>4, JobFields DEF Files, OpenConfig, SaveConfig, ConfigUnsaved, UpdatePhpMyAdmin,
                                 PhpMyAdminUnwritten, At, Shaped
  <2>2. /\ \E pc \in {"save", "pma", "ok"} : job' = [job EXCEPT ![w].pc = pc]
        /\ UNCHANGED serverVars /\ forked' = forked
    BY <1>4 DEF Files, OpenConfig, SaveConfig, ConfigUnsaved, UpdatePhpMyAdmin, PhpMyAdminUnwritten
  <2>3. Moved /\ job' \in [Workers -> Jobs] /\ \A x \in Workers : Shaped(job'[x])
    BY <2>1, <2>2, PcSetMoved
  <2>4. config' \in {config, NoPassword, job[w].pw} /\ pma' \in {pma, Absent, job[w].pw}
    BY <1>4 DEF Files, OpenConfig, SaveConfig, ConfigUnsaved, UpdatePhpMyAdmin, PhpMyAdminUnwritten
  <2>5. mysqld' = mysqld /\ events' \in 0..MaxEvents
    BY <1>0, <1>4, DatabaseAssumption
       DEF Files, OpenConfig, SaveConfig, ConfigUnsaved, UpdatePhpMyAdmin, PhpMyAdminUnwritten, TypeOK
  <2>6. TypeInv'
    BY <1>0, <2>2, <2>3, <2>4, <2>5, JobFields DEF TypeInv, TypeOK, serverVars
  <2> QED
    BY <2>3, <2>6 DEF StepShape
<1>5. ASSUME NEW w \in Workers, NEW pw \in Passwords, update_root_db_pass(w, pw)
      PROVE  TypeInv' /\ StepShape
  <2>1. Press(w, RootJob(pw)) /\ forked' = forked
    BY <1>5 DEF update_root_db_pass, RootJob
  <2>2. RootJob(pw) \in Jobs /\ Shaped(RootJob(pw)) /\ RootJob(pw).kind = "root"
    BY PressedJobs
  <2>3. /\ job' \in [Workers -> Jobs] /\ \A x \in Workers : Shaped(job'[x])
        /\ job'[w] = RootJob(pw) /\ \A x \in Workers : x # w => job'[x] = job[x]
        /\ UNCHANGED <<serverVars, config, pma, mysqld>> /\ events' \in 0..MaxEvents
    BY <2>1, <2>2, PressEffect
  <2>4. Moved
    BY <2>1, <2>2, <2>3 DEF Moved, Live
  <2>5. TypeInv'
    BY <1>0, <2>1, <2>3 DEF TypeInv, TypeOK, serverVars
  <2> QED
    BY <2>4, <2>5 DEF StepShape
<1>6. ASSUME NEW w \in Workers, NEW pw \in Passwords, NEW u \in Users,
             NEW d \in Databases \cup {Everything}, create_db_and_user(w, u, pw, d)
      PROVE  TypeInv' /\ StepShape
  <2>1. /\ Press(w, UserJob(u, pw, d))
        /\ forked' = IF Forks(u, pw) THEN forked \cup {u} ELSE forked
    BY <1>6 DEF create_db_and_user, UserJob
  <2>2. UserJob(u, pw, d) \in Jobs /\ Shaped(UserJob(u, pw, d))
    BY PressedJobs
  <2>3. /\ job' \in [Workers -> Jobs] /\ \A x \in Workers : Shaped(job'[x])
        /\ job'[w] = UserJob(u, pw, d) /\ \A x \in Workers : x # w => job'[x] = job[x]
        /\ UNCHANGED <<serverVars, config, pma, mysqld>> /\ events' \in 0..MaxEvents
    BY <2>1, <2>2, PressEffect
  <2>4. Pressed(w, u, pw, d)
    BY <2>1, <2>3 DEF Pressed
  <2>5. forked' \subseteq Users
    BY <1>0, <2>1 DEF TypeOK
  <2>6. TypeInv'
    BY <1>0, <2>3, <2>5 DEF TypeInv, TypeOK, serverVars
  <2> QED
    BY <2>4, <2>6 DEF StepShape
<1>7. CASE ServerToggles
  <2>1. Moved
    BY <1>7 DEF ServerToggles, Moved
  <2>2. TypeInv'
    BY <1>0, <1>7, DatabaseAssumption DEF ServerToggles, TypeInv, TypeOK, serverVars
  <2> QED
    BY <2>1, <2>2 DEF StepShape
<1>8. CASE AppCrash
  <2>1. \A x \in Workers : job'[x] = NoJob
    BY <1>8 DEF AppCrash
  <2>2. Moved
    BY <1>8, <2>1 DEF AppCrash, Moved, Live, NoJob
  <2>3. job' \in [Workers -> Jobs] /\ \A x \in Workers : Shaped(job'[x])
    BY <1>8, NoJobShaped DEF AppCrash
  <2>4. TypeInv'
    BY <1>0, <1>8, <2>3, DatabaseAssumption DEF AppCrash, TypeInv, TypeOK, serverVars
  <2> QED
    BY <2>2, <2>4 DEF StepShape
<1>9. CASE UNCHANGED vars
  <2>1. Moved
    BY <1>9 DEF vars, Moved
  <2>2. TypeInv'
    BY <1>0, <1>9 DEF vars, TypeInv, TypeOK, serverVars
  <2> QED
    BY <2>1, <2>2 DEF StepShape
<1>10. CASE Next
  BY <1>10, <1>1, <1>2, <1>3, <1>4, <1>5, <1>6, <1>7, <1>8, <1>9 DEF Next, WorkerStep, Files, Quiet
<1> QED
  BY <1>9, <1>10

(* The types: what mysqld, db_config.json, config.inc.php and the threads   *)
(* hold stays in its domain (run_mysql_query and its two callers).          *)
THEOREM TypeCorrect == Spec => []TypeOK
<1>1. TypeInv => TypeOK
  BY DEF TypeInv
<1> QED
  BY <1>1, InitType, NextType, PTL DEF Spec

-----------------------------------------------------------------------------
(* GrantedWhenReported: what a thread has not got yet it still asks for.    *)

GrantInv(j) ==
  Live(j) =>
    /\ j.pc = "ok" => j.todo = <<>>
    /\ j.db \in schemas \cup {Everything} \/ CreateDb \in QueriesIn(j.todo)
    /\ \A h \in Hosts :
         <<<<j.user, h>>, j.db>> \in granted \/ Grant(j.user, h) \in QueriesIn(j.todo)

AllGranted == \A w \in Workers : GrantInv(job[w])

LEMMA AdvanceLive ==
  ASSUME NEW j \in Jobs, Shaped(j), j.pc = "query", Live(Advance(j))
  PROVE  Live(j)
BY AdvanceShaped DEF Live

(* The database and the privileges of a job are not taken back. *)
LEMMA GrantKept ==
  ASSUME NEW j, GrantInv(j), granted \subseteq granted', schemas \subseteq schemas'
  PROVE  GrantInv(j)'
BY DEF GrantInv, Live

LEMMA GrantFresh ==
  ASSUME NEW u \in Users, NEW pw \in Passwords, NEW d \in Databases \cup {Everything}
  PROVE  GrantInv(UserJob(u, pw, d))
<1> DEFINE j == UserJob(u, pw, d)
<1>1. j.pc = "query" /\ j.db = d /\ j.user = u /\ QueriesIn(j.todo) = UserWork(u, d)
  BY UserQueriesIn DEF UserJob
<1>2. \A h \in Hosts : Grant(u, h) \in UserWork(u, d)
  BY DEF UserWork
<1>3. d # Everything => CreateDb \in UserWork(u, d)
  BY DEF UserWork
<1> HIDE DEF j
<1>4. GrantInv(j)
  BY <1>1, <1>2, <1>3 DEF GrantInv
<1> QED
  BY <1>4 DEF j

LEMMA GrantStep == TypeInv /\ AllGranted /\ [Next]_vars => AllGranted'
<1> SUFFICES ASSUME TypeInv, AllGranted, [Next]_vars, NEW w \in Workers PROVE GrantInv(job[w])'
  BY DEF AllGranted
<1>0. StepShape /\ TypeOK /\ \A x \in Workers : GrantInv(job[x])
  BY NextType DEF AllGranted, TypeInv
<1>1. ASSUME ~Live(job'[w]) PROVE GrantInv(job[w])'
  BY <1>1 DEF GrantInv, Live
<1>2. ASSUME job'[w] = job[w], granted \subseteq granted', schemas \subseteq schemas'
      PROVE  GrantInv(job[w])'
  BY <1>0, <1>2, GrantKept DEF GrantInv, Live
<1>3. CASE Moved
  BY <1>1, <1>2, <1>3 DEF Moved, serverVars
<1>4. ASSUME NEW x \in Workers, Queried(x) PROVE GrantInv(job[w])'
  <2> DEFINE j == job[x]
             q == Head(job[x].todo)
  <2>1. /\ granted \subseteq granted' /\ schemas \subseteq schemas'
        /\ q = CreateDb => j.db \in schemas'
        /\ \A h \in Hosts : q = Grant(j.user, h) => <<<<j.user, h>>, j.db>> \in granted'
    BY <1>0, <1>4, RunEffect DEF Queried
  <2>2. CASE w # x
    BY <1>2, <1>4, <2>1, <2>2 DEF Queried
  <2>3. CASE w = x /\ job'[x] = Advance(j) /\ Live(Advance(j))
    <3> DEFINE k == Advance(job[x])
    <3>1. /\ QueriesIn(j.todo) = {q} \cup QueriesIn(k.todo)
          /\ k.user = j.user /\ k.db = j.db /\ (k.pc = "ok" => k.todo = <<>>)
      BY <1>4, AdvanceShaped DEF Queried
    <3>2. Live(j)
      BY <1>4, <2>3, AdvanceLive DEF Queried
    <3>3. /\ j.db \in schemas \cup {Everything} \/ CreateDb \in QueriesIn(j.todo)
          /\ \A h \in Hosts :
               <<<<j.user, h>>, j.db>> \in granted \/ Grant(j.user, h) \in QueriesIn(j.todo)
      BY <1>0, <3>2 DEF GrantInv
    <3> HIDE DEF j, q, k
    <3>4. /\ k.db \in schemas' \cup {Everything} \/ CreateDb \in QueriesIn(k.todo)
          /\ \A h \in Hosts :
               <<<<k.user, h>>, k.db>> \in granted' \/ Grant(k.user, h) \in QueriesIn(k.todo)
      BY <2>1, <3>1, <3>3
    <3>5. job'[w] = k
      BY <2>3 DEF j, k
    <3> QED
      BY <3>1, <3>4, <3>5 DEF GrantInv
  <2> QED
    BY <1>1, <1>4, <2>2, <2>3 DEF Queried
<1>5. ASSUME NEW x \in Workers, NEW u \in Users, NEW pw \in Passwords,
             NEW d \in Databases \cup {Everything}, Pressed(x, u, pw, d)
      PROVE  GrantInv(job[w])'
  <2>1. granted' = granted /\ schemas' = schemas
    BY <1>5 DEF Pressed, serverVars
  <2>2. CASE w # x
    BY <1>2, <1>5, <2>1, <2>2 DEF Pressed
  <2>3. CASE w = x
    <3>1. job'[w] = UserJob(u, pw, d) /\ GrantInv(UserJob(u, pw, d))
      BY <1>5, <2>3, GrantFresh DEF Pressed
    <3> QED
      BY <2>1, <3>1 DEF GrantInv, Live
  <2> QED
    BY <2>2, <2>3
<1> QED
  BY <1>0, <1>3, <1>4, <1>5 DEF StepShape

(* A user is reported as set up only with its database and its privileges   *)
(* from both hosts, whatever the other threads, the server and the clock    *)
(* do (create_db_and_user).                                                 *)
THEOREM GrantsHold == Spec => []GrantedWhenReported
<1>1. Init => AllGranted
  BY DEF Init, AllGranted, GrantInv, Live, NoJob
<1>2. AllGranted => GrantedWhenReported
  <2> SUFFICES ASSUME AllGranted, NEW w \in Workers, At(w, "ok"), job[w].kind = "user"
      PROVE  /\ job[w].db \in schemas \cup {Everything}
             /\ \A h \in Hosts : <<<<job[w].user, h>>, job[w].db>> \in granted
    BY DEF GrantedWhenReported
  <2>1. Live(job[w]) /\ job[w].pc = "ok" /\ GrantInv(job[w])
    BY DEF AllGranted, At, Live
  <2>2. QueriesIn(<<>>) = {}
    BY DEF QueriesIn
  <2> QED
    BY <2>1, <2>2 DEF GrantInv
<1> QED
  BY <1>1, <1>2, InitType, NextType, GrantStep, PTL DEF Spec

-----------------------------------------------------------------------------
(* PasswordAsTyped: an account of a user that was never given two passwords *)
(* has the one its threads carry, or is still to be created by each.        *)

Unforked(j) == Live(j) /\ j.user \notin forked \cup {"root"}

AccountInv(j) ==
  Unforked(j) => \A h \in Hosts :
    \/ account[<<j.user, h>>] = j.pw
    \/ account[<<j.user, h>>] = Absent /\ Create(j.user, h) \in QueriesIn(j.todo)

OnePassword(j, k) == Unforked(j) /\ Live(k) /\ k.user = j.user => k.pw = j.pw

PasswordInv ==
  \A w, x \in Workers : AccountInv(job[w]) /\ OnePassword(job[w], job[x])

LEMMA AccountNames ==
  ASSUME TypeInv, NEW w \in Workers, NEW h \in Hosts
  PROVE  <<job[w].user, h>> \in Accounts /\ job[w].pw # Absent
<1>1. job[w].user \in Users \cup {"root"} /\ job[w].pw \in Passwords \cup {NoPassword}
  BY JobFields DEF TypeInv, TypeOK
<1> QED
  BY <1>1, DatabaseAssumption DEF Accounts

(* A query, of any thread, keeps the accounts of a job it does not belong to. *)
LEMMA AccountKept ==
  ASSUME TypeInv, PasswordInv, NEW w \in Workers, NEW y \in Workers, Queried(y),
         Unforked(job[w]), NEW h \in Hosts
  PROVE  \/ account'[<<job[w].user, h>>] = job[w].pw
         \/ /\ account'[<<job[w].user, h>>] = Absent
            /\ Create(job[w].user, h) \in QueriesIn(job[w].todo)
            /\ w = y => Create(job[w].user, h) # Head(job[w].todo)
<1> DEFINE a == <<job[w].user, h>>
<1>1. a \in Accounts /\ a[1] = job[w].user /\ job[w].user # "root"
  BY AccountNames DEF Unforked
<1>2. /\ \/ account'[a] = account[a]
         \/ a[1] = "root"
         \/ /\ account[a] = Absent /\ account'[a] = job[y].pw
            /\ job[y].kind = "user" /\ a[1] = job[y].user
      /\ Head(job[y].todo) = Create(job[y].user, h) /\ account[<<job[y].user, h>>] = Absent
           => account'[<<job[y].user, h>>] = job[y].pw
  <2>1. TypeOK /\ job[y] \in Jobs /\ Head(job[y].todo) \in Work(job[y])
        /\ Head(job[y].todo) \in Queries /\ Run(Head(job[y].todo), job[y])
    BY DEF Queried, TypeInv
  <2> QED
    BY <1>1, <2>1, RunEffect
<1>3. \/ account[a] = job[w].pw
      \/ account[a] = Absent /\ Create(job[w].user, h) \in QueriesIn(job[w].todo)
  BY DEF PasswordInv, AccountInv
<1>4. job[y].kind = "user" /\ job[y].user = job[w].user => job[y].pw = job[w].pw
  BY DEF PasswordInv, OnePassword, Queried, Live
<1> HIDE DEF a
<1>5. CASE account'[a] = account[a]
  <2>1. CASE w = y /\ Create(job[w].user, h) = Head(job[w].todo) /\ account[a] = Absent
    BY <1>2, <2>1 DEF a
  <2> QED
    BY <1>3, <1>5, <2>1 DEF a
<1>6. CASE account'[a] # account[a]
  BY <1>1, <1>2, <1>4, <1>6 DEF a
<1> QED
  BY <1>5, <1>6

LEMMA PasswordMoved ==
  ASSUME PasswordInv, Moved, NEW w \in Workers, NEW x \in Workers
  PROVE  AccountInv(job[w])' /\ OnePassword(job[w], job[x])'
<1>1. /\ AccountInv(job[w]) /\ OnePassword(job[w], job[x])
      /\ job'[w] = job[w] \/ ~Live(job'[w])
      /\ job'[x] = job[x] \/ ~Live(job'[x])
      /\ account' = account /\ forked' = forked
  BY DEF PasswordInv, Moved, serverVars
<1> QED
  BY <1>1 DEF AccountInv, OnePassword, Unforked, Live

LEMMA PasswordQueried ==
  ASSUME TypeInv, PasswordInv, NEW y \in Workers, Queried(y), NEW w \in Workers, NEW x \in Workers
  PROVE  AccountInv(job[w])' /\ OnePassword(job[w], job[x])'
<1>1. \A v \in Workers : Live(job'[v]) =>
        /\ Live(job[v]) /\ job'[v].user = job[v].user /\ job'[v].pw = job[v].pw
        /\ \/ v # y /\ job'[v] = job[v]
           \/ v = y /\ QueriesIn(job[v].todo) = {Head(job[v].todo)} \cup QueriesIn(job'[v].todo)
  <2> SUFFICES ASSUME NEW v \in Workers, Live(job'[v])
      PROVE  /\ Live(job[v]) /\ job'[v].user = job[v].user /\ job'[v].pw = job[v].pw
             /\ \/ v # y /\ job'[v] = job[v]
                \/ v = y /\ QueriesIn(job[v].todo) = {Head(job[v].todo)} \cup QueriesIn(job'[v].todo)
    OBVIOUS
  <2>1. CASE v # y
    BY <2>1 DEF Queried
  <2>2. CASE v = y
    <3>1. job[v] \in Jobs /\ Shaped(job[v]) /\ job[v].pc = "query" /\ job'[v] = Advance(job[v])
      BY <2>2 DEF Queried
    <3> QED
      BY <2>2, <3>1, AdvanceShaped, AdvanceLive
  <2> QED
    BY <2>1, <2>2
<1>2. OnePassword(job[w], job[x])'
  <2>1. forked' = forked /\ OnePassword(job[w], job[x])
    BY DEF Queried, PasswordInv
  <2> QED
    BY <1>1, <2>1 DEF OnePassword, Unforked
<1>3. ASSUME Unforked(job[w])', NEW h \in Hosts
      PROVE  \/ account'[<<job'[w].user, h>>] = job'[w].pw
             \/ /\ account'[<<job'[w].user, h>>] = Absent
                /\ Create(job'[w].user, h) \in QueriesIn(job'[w].todo)
  <2>1. Live(job'[w]) /\ Unforked(job[w])
    BY <1>1, <1>3 DEF Unforked, Queried
  <2>2. job'[w].user = job[w].user /\ job'[w].pw = job[w].pw
    BY <1>1, <2>1
  <2>3. \/ account'[<<job[w].user, h>>] = job[w].pw
        \/ /\ account'[<<job[w].user, h>>] = Absent
           /\ Create(job[w].user, h) \in QueriesIn(job[w].todo)
           /\ w = y => Create(job[w].user, h) # Head(job[w].todo)
    BY <2>1, AccountKept
  <2>4. \/ w # y /\ job'[w] = job[w]
        \/ w = y /\ QueriesIn(job[w].todo) = {Head(job[w].todo)} \cup QueriesIn(job'[w].todo)
    BY <1>1, <2>1
  <2> QED
    BY <2>2, <2>3, <2>4
<1> QED
  BY <1>2, <1>3 DEF AccountInv

(* A thread that has finished has its accounts. *)
LEMMA FinishedAccounts ==
  ASSUME PasswordInv, AllGranted, NEW w \in Workers, Unforked(job[w]), job[w].pc = "ok"
  PROVE  \A h \in Hosts : account[<<job[w].user, h>>] = job[w].pw
<1>1. job[w].todo = <<>> /\ QueriesIn(<<>>) = {}
  BY DEF AllGranted, GrantInv, Unforked, QueriesIn
<1> QED
  BY <1>1 DEF PasswordInv, AccountInv

LEMMA PasswordPressed ==
  ASSUME TypeInv, AllGranted, PasswordInv, NEW y \in Workers, NEW u \in Users,
         NEW pw \in Passwords, NEW d \in Databases \cup {Everything}, Pressed(y, u, pw, d),
         NEW w \in Workers, NEW x \in Workers
  PROVE  AccountInv(job[w])' /\ OnePassword(job[w], job[x])'
<1> DEFINE j == UserJob(u, pw, d)
<1>1. /\ account' = account /\ job'[y] = j /\ \A v \in Workers : v # y => job'[v] = job[v]
      /\ forked \subseteq forked' /\ (u \in forked' \/ ~Forks(u, pw))
  BY DEF Pressed, serverVars
<1>2. /\ j.user = u /\ j.pw = pw /\ j.pc = "query" /\ j.kind = "user"
      /\ \A h \in Hosts : Create(u, h) \in QueriesIn(j.todo)
  <2>1. QueriesIn(j.todo) = UserWork(u, d)
    BY UserQueriesIn DEF UserJob
  <2> QED
    BY <2>1 DEF UserJob, UserWork
<1> HIDE DEF j
<1>3. ASSUME u \notin forked' \cup {"root"}, NEW v \in Workers, v # y,
             Live(job[v]), job[v].user = u
      PROVE  job[v].pw = pw
  <2>1. ~Forks(u, pw) /\ Unforked(job[v])
    BY <1>1, <1>3 DEF Unforked
  <2>2. CASE job[v].pc = "query"
    BY <1>3, <2>1, <2>2 DEF Forks, Working, Live
  <2>3. CASE job[v].pc = "ok"
    <3>1. "localhost" \in Hosts
      BY DEF Hosts
    <3>2. account[<<u, "localhost">>] = job[v].pw /\ job[v].pw # Absent
      BY <1>3, <2>1, <2>3, <3>1, FinishedAccounts, AccountNames
    <3> QED
      BY <2>1, <3>1, <3>2 DEF Forks
  <2> QED
    BY <1>3, <2>2, <2>3 DEF Live
<1>4. AccountInv(job[w])'
  <2>1. CASE w # y
    <3>1. AccountInv(job[w]) /\ job'[w] = job[w]
      BY <1>1, <2>1 DEF PasswordInv
    <3> QED
      BY <1>1, <3>1 DEF AccountInv, Unforked, Live
  <2>2. CASE w = y
    <3>1. ASSUME Unforked(j)', NEW h \in Hosts
          PROVE  account[<<u, h>>] \in {Absent, pw}
      BY <1>1, <1>2, <3>1 DEF Unforked, Forks
    <3> QED
      BY <1>1, <1>2, <2>2, <3>1 DEF AccountInv, Unforked, Live
  <2> QED
    BY <2>1, <2>2
<1>5. OnePassword(job[w], job[x])'
  <2>1. CASE w # y /\ x # y
    <3>1. OnePassword(job[w], job[x]) /\ job'[w] = job[w] /\ job'[x] = job[x]
      BY <1>1, <2>1 DEF PasswordInv
    <3> QED
      BY <1>1, <3>1 DEF OnePassword, Unforked, Live
  <2>2. CASE w = y /\ x # y
    BY <1>1, <1>2, <1>3, <2>2 DEF OnePassword, Unforked
  <2>3. CASE w # y /\ x = y
    BY <1>1, <1>2, <1>3, <2>3 DEF OnePassword, Unforked
  <2>4. CASE w = y /\ x = y
    BY <2>4 DEF OnePassword
  <2> QED
    BY <2>1, <2>2, <2>3, <2>4
<1> QED
  BY <1>4, <1>5

LEMMA PasswordStep == TypeInv /\ AllGranted /\ PasswordInv /\ [Next]_vars => PasswordInv'
<1> SUFFICES ASSUME TypeInv, AllGranted, PasswordInv, [Next]_vars,
                    NEW w \in Workers, NEW x \in Workers
    PROVE  AccountInv(job[w])' /\ OnePassword(job[w], job[x])'
  BY DEF PasswordInv
<1>1. StepShape
  BY NextType
<1> QED
  BY <1>1, PasswordMoved, PasswordQueried, PasswordPressed DEF StepShape

(* A user that is reported as set up logs in with the password that was     *)
(* typed, from either host, unless it was given two passwords: presses cut  *)
(* off between the two accounts are completed (app.py 2733-2734).           *)
THEOREM PasswordsHold == Spec => []PasswordAsTyped
<1>1. Init => PasswordInv
  BY DEF Init, PasswordInv, AccountInv, OnePassword, Unforked, Live, NoJob
<1>2. Init => AllGranted
  BY DEF Init, AllGranted, GrantInv, Live, NoJob
<1>3. AllGranted /\ PasswordInv => PasswordAsTyped
  <2> SUFFICES ASSUME AllGranted, PasswordInv, NEW w \in Workers, At(w, "ok"),
                      job[w].kind = "user", job[w].user \notin forked \cup {"root"}
      PROVE  \A h \in Hosts : account[<<job[w].user, h>>] = job[w].pw
    BY DEF PasswordAsTyped
  <2>1. Unforked(job[w]) /\ job[w].pc = "ok"
    BY DEF Unforked, Live, At
  <2> QED
    BY <2>1, FinishedAccounts
<1> QED
  BY <1>1, <1>2, <1>3, InitType, NextType, GrantStep, PasswordStep, PTL DEF Spec

-----------------------------------------------------------------------------
(* OnlyOldPasswordSaved: a change of root's password gets past its last     *)
(* query only if db_config.json has the new password already, for each      *)
(* query logs in with what that file says.  So all root jobs that got that  *)
(* far carry one password, which is what the file holds, or it is empty.    *)

(* The root jobs past their queries, and those that have altered the        *)
(* account they log in as.                                                  *)
Saved(j) == j.kind = "root" /\ j.pc \in {"open", "save", "pma", "ok"}

Altered(j) ==
  /\ j.kind = "root" /\ j.pc = "query"
  /\ \/ j.todo = <<Flush>>
     \/ j.todo = <<Alter("127.0.0.1"), Flush>> /\ LoginHost = "localhost"

RootShaped(j) ==
  j.kind = "root" =>
    /\ j.pc # "none" => j.pw \in Passwords
    /\ j.pc = "query" =>
         j.todo \in {RootQueries, <<Alter("127.0.0.1"), Flush>>, <<Flush>>}

(* Read as what holds of one value v of root's password: who altered the    *)
(* account and finds v there altered it to v.                               *)
Own(j, v) == account[Root] = v => j.pw = v

SavedInv(j) ==
  Saved(j) => config \in {j.pw, NoPassword} /\ account[Root] # NoPassword

RootInv ==
  /\ account[Root] # Absent
  /\ \A w \in Workers :
       /\ RootShaped(job[w]) /\ SavedInv(job[w])
       /\ Altered(job[w]) => Own(job[w], config)
  /\ \A w, x \in Workers :
       Saved(job[w]) => /\ Saved(job[x]) => job[x].pw = job[w].pw
                        /\ Altered(job[x]) => Own(job[x], job[w].pw)

(* The three lists of a root job. *)
LEMMA RootLists ==
  /\ RootQueries = <<Alter("localhost"), Alter("127.0.0.1"), Flush>>
  /\ Head(RootQueries) = Alter("localhost")
  /\ Tail(RootQueries) = <<Alter("127.0.0.1"), Flush>> /\ Len(RootQueries) = 3
  /\ Head(<<Alter("127.0.0.1"), Flush>>) = Alter("127.0.0.1")
  /\ Tail(<<Alter("127.0.0.1"), Flush>>) = <<Flush>>
  /\ Len(<<Alter("127.0.0.1"), Flush>>) = 2 /\ Len(<<Flush>>) = 1
  /\ RootQueries # <<Flush>> /\ <<Alter("127.0.0.1"), Flush>> # <<Flush>>
  /\ RootQueries # <<Alter("127.0.0.1"), Flush>>
BY DEF RootQueries

LEMMA RootAdvance ==
  ASSUME LoginHost \in Hosts, NEW j \in Jobs, Shaped(j), RootShaped(j), j.pc = "query"
  PROVE  /\ Advance(j).pw = j.pw /\ Advance(j).kind = j.kind /\ RootShaped(Advance(j))
         /\ Saved(Advance(j)) => Altered(j) /\ Advance(j).pc = "open"
         /\ Altered(Advance(j)) => Altered(j) \/ Head(j.todo) = Alter(LoginHost)
<1>1. /\ Advance(j).pw = j.pw /\ Advance(j).kind = j.kind
      /\ Advance(j).todo = Tail(j.todo)
      /\ Advance(j).pc = IF Len(j.todo) = 1 THEN AfterQueries(j) ELSE "query"
  BY AdvanceShaped DEF Advance, Jobs
<1> DEFINE k == Advance(j)
<1> HIDE DEF k
<1>2. CASE j.kind # "root"
  BY <1>1, <1>2 DEF k, RootShaped, Saved, Altered
<1>3. CASE j.kind = "root" /\ j.todo = RootQueries
  <2>1. k.todo = <<Alter("127.0.0.1"), Flush>> /\ k.pc = "query"
    BY <1>1, <1>3, RootLists DEF k
  <2> QED
    BY <1>1, <1>3, <2>1, RootLists DEF k, RootShaped, Saved, Altered
<1>4. CASE j.kind = "root" /\ j.todo = <<Alter("127.0.0.1"), Flush>>
  <2>1. k.todo = <<Flush>> /\ k.pc = "query"
    BY <1>1, <1>4, RootLists DEF k
  <2>2. Altered(j) \/ Head(j.todo) = Alter(LoginHost)
    BY <1>4, RootLists DEF Hosts, Altered
  <2> QED
    BY <1>1, <1>4, <2>1, <2>2 DEF k, RootShaped, Saved
<1>5. CASE j.kind = "root" /\ j.todo = <<Flush>>
  <2>1. k.pc = "open"
    BY <1>1, <1>5, RootLists DEF k, AfterQueries
  <2> QED
    BY <1>1, <1>5, <2>1 DEF k, RootShaped, Saved, Altered
<1> QED
  BY <1>2, <1>3, <1>4, <1>5 DEF RootShaped

(* Root's account is altered by root jobs only, each to its own password. *)
LEMMA RootRun ==
  ASSUME TypeOK, account[Root] # Absent, NEW j \in Jobs, RootShaped(j), j.pc = "query",
         NEW q \in Work(j), q \in Queries, Run(q, j)
  PROVE  /\ account'[Root] = account[Root] \/ (j.pw \in Passwords /\ account'[Root] = j.pw)
         /\ q = Alter(LoginHost) => account'[Root] = j.pw
<1>0. Root \in Accounts /\ account \in [Accounts -> Passwords \cup {NoPassword, Absent}]
      /\ q.acct \in Accounts
  BY DEF TypeOK, Root, Accounts, Queries
<1>1. CASE q.kind = "alter"
  <2>1. j.kind = "root"
    BY <1>1, JobFields DEF Work, UserWork, Create, Grant, Flush, CreateDb
  <2>2. account' = [account EXCEPT ![q.acct] = j.pw] /\ j.pw \in Passwords
    BY <1>1, <2>1 DEF Run, Identified, RootShaped
  <2>3. q = Alter(LoginHost) => q.acct = Root
    BY DEF Alter, Root
  <2> QED
    BY <1>0, <2>2, <2>3
<1>2. CASE q.kind # "alter"
  <2>1. account'[Root] = account[Root]
    BY <1>0, <1>2 DEF Run, serverVars
  <2>2. q # Alter(LoginHost)
    BY <1>2 DEF Alter
  <2> QED
    BY <2>1, <2>2
<1> QED
  BY <1>1, <1>2

(* Who gets past the queries in a step has the password of the file. *)
Fresh == \A x \in Workers : Saved(job'[x]) /\ ~Saved(job[x]) => job[x].pw = config

LEMMA TypeShaped == TypeInv' => \A w \in Workers : job'[w] \in Jobs /\ Shaped(job'[w])
BY DEF TypeInv, TypeOK, Shaped, Work, QueriesIn, UserWork

(* A query that the server runs: root logged in with what db_config.json    *)
(* says, so whoever is past its queries has that password.                  *)
LEMMA RootQueried ==
  ASSUME LoginHost \in Hosts, TypeInv, RootInv, NEW w \in Workers, LoggedIn,
         job[w].pc = "query", Run(Head(job[w].todo), job[w]),
         job'[w] = Advance(job[w]) \/ job'[w] = [job[w] EXCEPT !.pc = "failed"],
         \A x \in Workers : x # w => job'[x] = job[x],
         config' = config
  PROVE  RootInv' /\ (Saved(job'[w]) => job[w].pw = config)
<1>1. /\ TypeOK /\ account[Root] = config /\ account[Root] # Absent
      /\ job[w] \in Jobs /\ Shaped(job[w]) /\ RootShaped(job[w])
      /\ Head(job[w].todo) \in Work(job[w]) /\ Head(job[w].todo) \in Queries
  BY AdvanceShaped DEF TypeInv, TypeOK, LoggedIn, RootInv
<1>2. /\ account'[Root] = account[Root]
         \/ (job[w].pw \in Passwords /\ account'[Root] = job[w].pw)
      /\ Head(job[w].todo) = Alter(LoginHost) => account'[Root] = job[w].pw
  BY <1>1, RootRun
<1>3. \A x \in Workers : Saved(job[x]) => /\ job[x].pw = config /\ job[x].pw \in Passwords
                                          /\ config # NoPassword
  BY <1>1 DEF RootInv, SavedInv, RootShaped, Saved
<1>4. \A x \in Workers : Altered(job[x]) => job[x].pw = config /\ job[x].pw \in Passwords
  BY <1>1 DEF RootInv, Own, Altered, RootShaped
<1>5. /\ job'[w].pw = job[w].pw /\ RootShaped(job'[w])
      /\ Saved(job'[w]) => Altered(job[w])
      /\ Altered(job'[w]) => Altered(job[w]) \/ Head(job[w].todo) = Alter(LoginHost)
  <2>1. CASE job'[w] = Advance(job[w])
    BY <1>1, <2>1, RootAdvance
  <2>2. CASE job'[w] = [job[w] EXCEPT !.pc = "failed"]
    <3>1. job'[w].pw = job[w].pw /\ job'[w].kind = job[w].kind /\ job'[w].pc = "failed"
      BY <1>1, <2>2 DEF Jobs
    <3> QED
      BY <1>1, <3>1 DEF RootShaped, Saved, Altered
  <2> QED
    BY <2>1, <2>2
<1>6. \A x \in Workers : Saved(job'[x]) => job'[x].pw = config /\ job'[x].pw \in Passwords
  BY <1>3, <1>4, <1>5
<1>7. \A x \in Workers : Altered(job'[x]) => job'[x].pw = config \/ account'[Root] = job'[x].pw
  BY <1>2, <1>4, <1>5
<1>8. \A x \in Workers : RootShaped(job'[x])
  BY <1>5 DEF RootInv
<1>9. account'[Root] # Absent
  BY <1>1, <1>2, DatabaseAssumption
<1>10. \A x \in Workers : SavedInv(job[x])'
  <2> SUFFICES ASSUME NEW x \in Workers, Saved(job'[x])
      PROVE  config' \in {job'[x].pw, NoPassword} /\ account'[Root] # NoPassword
    BY DEF SavedInv, Saved
  <2>1. config' = job'[x].pw /\ config # NoPassword
    BY <1>6, DatabaseAssumption
  <2> QED
    BY <1>1, <1>2, <2>1, DatabaseAssumption
<1>11. \A x \in Workers : Altered(job'[x]) => Own(job[x], config)'
  BY <1>7 DEF Own
<1>12. \A x, y \in Workers :
         Saved(job'[x]) => /\ Saved(job'[y]) => job'[y].pw = job'[x].pw
                           /\ Altered(job'[y]) => Own(job[y], job[x].pw)'
  BY <1>6, <1>7 DEF Own
<1>13. RootInv'
  BY <1>8, <1>9, <1>10, <1>11, <1>12 DEF RootInv, RootShaped, Saved, Altered
<1> QED
  BY <1>4, <1>5, <1>13

(* A step that no root job past its queries takes, and that puts none there. *)
Aside ==
  /\ UNCHANGED <<account, config>>
  /\ \A x \in Workers :
       job'[x] = job[x] \/ (RootShaped(job'[x]) /\ ~Saved(job'[x]) /\ ~Altered(job'[x]))

LEMMA RootAside == RootInv /\ Aside => RootInv' /\ Fresh
<1> SUFFICES ASSUME RootInv, Aside PROVE RootInv' /\ Fresh
  OBVIOUS
<1>1. account' = account /\ config' = config
  BY DEF Aside
<1>2. \A x \in Workers : Saved(job'[x]) \/ Altered(job'[x]) => job'[x] = job[x]
  BY DEF Aside
<1>3. \A x \in Workers : RootShaped(job'[x])
  BY DEF Aside, RootInv
<1>4. \A x \in Workers : SavedInv(job[x])'
  <2> SUFFICES ASSUME NEW x \in Workers, Saved(job'[x])
      PROVE  config \in {job'[x].pw, NoPassword} /\ account[Root] # NoPassword
    BY <1>1 DEF SavedInv, Saved
  <2>1. job'[x] = job[x] /\ Saved(job[x])
    BY <1>2
  <2> QED
    BY <2>1 DEF RootInv, SavedInv
<1>5. \A x \in Workers : Altered(job'[x]) => Own(job[x], config)'
  BY <1>1, <1>2 DEF RootInv, Own
<1>6. \A x, y \in Workers :
        Saved(job'[x]) => /\ Saved(job'[y]) => job'[y].pw = job'[x].pw
                          /\ Altered(job'[y]) => Own(job[y], job[x].pw)'
  BY <1>1, <1>2 DEF RootInv, Own
<1>7. account'[Root] # Absent
  BY <1>1 DEF RootInv
<1>8. RootInv'
  BY <1>3, <1>4, <1>5, <1>6, <1>7 DEF RootInv, RootShaped, Saved, Altered
<1> QED
  BY <1>2, <1>8 DEF Fresh

(* The steps that write the two files, or fail to. *)
LEMMA RootWritten ==
  ASSUME TypeInv, RootInv, NEW w \in Workers, Files(w)
  PROVE  RootInv' /\ Fresh
<1>1. /\ \E pc \in {"save", "pma", "ok"} : job' = [job EXCEPT ![w].pc = pc]
      /\ account' = account /\ config' \in {config, NoPassword, job[w].pw}
  BY DEF Files, OpenConfig, SaveConfig, ConfigUnsaved, UpdatePhpMyAdmin, PhpMyAdminUnwritten, serverVars
<1>2. PICK pc \in {"save", "pma", "ok"} : job' = [job EXCEPT ![w].pc = pc]
  BY <1>1
<1>3. job[w] \in Jobs /\ Saved(job[w])
  BY JobFields DEF TypeInv, TypeOK, Shaped, Saved, At, Files, OpenConfig, SaveConfig, ConfigUnsaved,
                   UpdatePhpMyAdmin, PhpMyAdminUnwritten
<1>4. job'[w] = [job[w] EXCEPT !.pc = pc] /\ \A x \in Workers : x # w => job'[x] = job[x]
  BY <1>2, <1>3, PcSet DEF Saved
<1>5. job'[w].pw = job[w].pw /\ job'[w].kind = "root" /\ job'[w].pc = pc
  BY <1>3, <1>4 DEF Jobs, Saved
<1>6. \A x \in Workers : /\ job'[x].pw = job[x].pw
                         /\ Saved(job'[x]) <=> Saved(job[x])
                         /\ Altered(job'[x]) => job'[x] = job[x]
                         /\ RootShaped(job'[x])
  BY <1>3, <1>4, <1>5 DEF Saved, Altered, RootShaped, RootInv
<1>7. \A x \in Workers : Saved(job[x]) => job[x].pw = job[w].pw
  BY <1>3 DEF RootInv
<1>8. account[Root] # NoPassword /\ account[Root] # Absent
  BY <1>3 DEF RootInv, SavedInv
<1>9. \A x \in Workers : SavedInv(job[x])'
  <2> SUFFICES ASSUME NEW x \in Workers, Saved(job'[x])
      PROVE  config' \in {job'[x].pw, NoPassword} /\ account'[Root] # NoPassword
    BY DEF SavedInv, Saved
  <2>1. job'[x].pw = job[w].pw /\ job[x].pw = job[w].pw /\ Saved(job[x])
    BY <1>6, <1>7
  <2>2. config \in {job[x].pw, NoPassword}
    BY <2>1 DEF RootInv, SavedInv
  <2> QED
    BY <1>1, <1>8, <2>1, <2>2
<1>10. \A x \in Workers : Altered(job'[x]) => Own(job[x], config)'
  <2> SUFFICES ASSUME NEW x \in Workers, Altered(job'[x]), account'[Root] = config'
      PROVE  job'[x].pw = config'
    BY DEF Own
  <2>1. job'[x] = job[x] /\ Altered(job[x])
    BY <1>6
  <2>2. /\ account[Root] = config => job[x].pw = config
        /\ account[Root] = job[w].pw => job[x].pw = job[w].pw
    BY <1>3, <2>1 DEF RootInv, Own
  <2> QED
    BY <1>1, <1>8, <2>1, <2>2
<1>11. \A x, y \in Workers :
         Saved(job'[x]) => /\ Saved(job'[y]) => job'[y].pw = job'[x].pw
                           /\ Altered(job'[y]) => Own(job[y], job[x].pw)'
  BY <1>1, <1>6 DEF RootInv, Own
<1>12. RootInv'
  BY <1>1, <1>6, <1>8, <1>9, <1>10, <1>11 DEF RootInv, RootShaped, Saved, Altered
<1> QED
  BY <1>6, <1>12 DEF Fresh

LEMMA RootStep ==
  ASSUME LoginHost \in Hosts, TypeInv, RootInv, [Next]_vars
  PROVE  RootInv' /\ Fresh
<1>0. \A x \in Workers : job[x] \in Jobs /\ Shaped(job[x]) /\ RootShaped(job[x])
  BY DEF TypeInv, TypeOK, RootInv
<1>a. ASSUME NEW w \in Workers, LoggedIn, job[w].pc = "query", Run(Head(job[w].todo), job[w]),
             job'[w] = Advance(job[w]) \/ job'[w] = [job[w] EXCEPT !.pc = "failed"],
             \A x \in Workers : x # w => job'[x] = job[x], config' = config
      PROVE  RootInv' /\ Fresh
  <2>1. RootInv' /\ (Saved(job'[w]) => job[w].pw = config)
    BY <1>a, RootQueried
  <2> QED
    BY <1>a, <2>1 DEF Fresh
<1>1. ASSUME NEW w \in Workers, QueryOk(w) PROVE RootInv' /\ Fresh
  <2>1. /\ job[w].pc = "query" /\ Run(Head(job[w].todo), job[w]) /\ job'[w] = Advance(job[w])
        /\ \A x \in Workers : x # w => job'[x] = job[x]
    BY <1>1, QueryOkEffect
  <2>2. LoggedIn /\ config' = config
    BY <1>1 DEF QueryOk
  <2> QED
    BY <1>a, <2>1, <2>2
<1>2. ASSUME NEW w \in Workers, job[w].pc = "query", job' = [job EXCEPT ![w].pc = "failed"],
             UNCHANGED <<account, config>>
      PROVE  RootInv' /\ Fresh
  <2>1. /\ job'[w] = [job[w] EXCEPT !.pc = "failed"]
        /\ \A x \in Workers : x # w => job'[x] = job[x]
    BY <1>2, PcSet
  <2>2. job'[w].pc = "failed" /\ job'[w].kind = job[w].kind /\ job'[w].pw = job[w].pw
    BY <1>0, <2>1 DEF Jobs
  <2>3. RootShaped(job'[w]) /\ ~Saved(job'[w]) /\ ~Altered(job'[w])
    BY <1>0, <1>2, <2>2 DEF RootShaped, Saved, Altered
  <2>4. Aside
    BY <1>2, <2>1, <2>3 DEF Aside
  <2> QED
    BY <2>4, RootAside
<1>3. ASSUME NEW w \in Workers, QueryFails(w) PROVE RootInv' /\ Fresh
  BY <1>2, <1>3 DEF QueryFails, At, serverVars
<1>4. ASSUME NEW w \in Workers, QueryTimesOut(w) PROVE RootInv' /\ Fresh
  <2>1. CASE UNCHANGED serverVars
    BY <1>2, <1>4, <2>1 DEF QueryTimesOut, At, serverVars
  <2>2. CASE LoggedIn /\ Run(Head(job[w].todo), job[w])
    <3>1. job[w].pc = "query" /\ job' = [job EXCEPT ![w].pc = "failed"] /\ config' = config
      BY <1>4 DEF QueryTimesOut, At
    <3>2. /\ job'[w] = [job[w] EXCEPT !.pc = "failed"]
          /\ \A x \in Workers : x # w => job'[x] = job[x]
      BY <3>1, PcSet
    <3> QED
      BY <1>a, <2>2, <3>1, <3>2
  <2> QED
    BY <1>4, <2>1, <2>2 DEF QueryTimesOut
<1>5. ASSUME NEW w \in Workers, NEW j \in Jobs, Shaped(j), RootShaped(j), j.pc = "query",
             j.kind = "root" => j.todo = RootQueries, Press(w, j)
      PROVE  RootInv' /\ Fresh
  <2>1. /\ job'[w] = j /\ \A x \in Workers : x # w => job'[x] = job[x]
        /\ UNCHANGED <<serverVars, config>>
    BY <1>5, PressEffect
  <2>2. ~Saved(j) /\ ~Altered(j)
    BY <1>5, RootLists DEF Saved, Altered
  <2>3. Aside
    BY <1>5, <2>1, <2>2 DEF Aside, serverVars
  <2> QED
    BY <2>3, RootAside
<1>6. ASSUME NEW w \in Workers, NEW pw \in Passwords, update_root_db_pass(w, pw)
      PROVE  RootInv' /\ Fresh
  <2>1. Press(w, RootJob(pw))
    BY <1>6 DEF update_root_db_pass, RootJob
  <2>2. RootJob(pw).pc = "query" /\ RootJob(pw).todo = RootQueries /\ RootJob(pw).pw = pw
    BY DEF RootJob, NoJob
  <2>3. RootShaped(RootJob(pw))
    BY <2>2 DEF RootShaped
  <2> QED
    BY <1>5, <2>1, <2>2, <2>3, PressedJobs
<1>7. ASSUME NEW w \in Workers, NEW pw \in Passwords, NEW u \in Users,
             NEW d \in Databases \cup {Everything}, create_db_and_user(w, u, pw, d)
      PROVE  RootInv' /\ Fresh
  <2>1. Press(w, UserJob(u, pw, d))
    BY <1>7 DEF create_db_and_user, UserJob
  <2>2. UserJob(u, pw, d).pc = "query" /\ UserJob(u, pw, d).kind = "user"
    BY DEF UserJob
  <2>3. RootShaped(UserJob(u, pw, d))
    BY <2>2 DEF RootShaped
  <2> QED
    BY <1>5, <2>1, <2>2, <2>3, PressedJobs
<1>8. CASE ServerToggles \/ UNCHANGED vars
  <2>1. Aside
    BY <1>8 DEF Aside, ServerToggles, vars, serverVars
  <2> QED
    BY <2>1, RootAside
<1>9. CASE AppCrash
  <2>1. \A x \in Workers : job'[x] = NoJob
    BY <1>9 DEF AppCrash
  <2>2. RootShaped(NoJob) /\ ~Saved(NoJob) /\ ~Altered(NoJob)
    BY DEF NoJob, RootShaped, Saved, Altered
  <2>3. Aside
    BY <1>9, <2>1, <2>2 DEF Aside, AppCrash, serverVars
  <2> QED
    BY <2>3, RootAside
<1>10. CASE Next
  BY <1>10, <1>1, <1>3, <1>4, <1>6, <1>7, <1>8, <1>9, RootWritten DEF Next, WorkerStep, Files, Quiet
<1> QED
  BY <1>8, <1>10

(* The run password_lockout shows one change of root's password that goes   *)
(* wrong; this says that no change ever gets to its report: a job that is   *)
(* past its queries, to save the password and to announce it, was given the *)
(* one that db_config.json held (update_root_db_pass, app.py 2680-2705),    *)
(* whatever other presses, time-outs, kills and lost saves come in between. *)
(* The root account that a login from 127.0.0.1 meets is one of the two the *)
(* queries alter; with another one ('root'@'%') they do not change what is  *)
(* logged in with, and any password gets through.                           *)
THEOREM OnlyOldPasswordIsSaved ==
  ASSUME LoginHost \in Hosts
  PROVE  Spec => OnlyOldPasswordSaved
<1>1. Init => RootInv
  <2> SUFFICES ASSUME Init PROVE RootInv
    OBVIOUS
  <2>1. \A w \in Workers : job[w] = NoJob
    BY DEF Init
  <2>2. RootShaped(NoJob) /\ ~Saved(NoJob) /\ ~Altered(NoJob)
    BY DEF NoJob, RootShaped, Saved, Altered
  <2>3. account[Root] # Absent
    <3>1. Root \in Accounts
      BY DEF Root, Accounts
    <3> QED
      BY <3>1, DatabaseAssumption DEF Init
  <2> QED
    BY <2>1, <2>2, <2>3 DEF RootInv, SavedInv
<1>2. TypeInv /\ RootInv /\ [Next]_vars => RootInv'
  BY RootStep
<1>3. TypeInv /\ RootInv /\ [Next]_vars =>
        [\A w \in Workers : At(w, "query") /\ At(w, "open")' => job[w].pw = config]_vars
  <2> SUFFICES ASSUME TypeInv, RootInv, [Next]_vars,
                      NEW w \in Workers, At(w, "query"), At(w, "open")'
      PROVE  job[w].pw = config
    OBVIOUS
  <2>1. Fresh
    BY RootStep
  <2>2. job'[w].kind = "root"
    <3>1. TypeInv'
      BY NextType
    <3>2. job'[w] \in Jobs /\ Shaped(job'[w])
      BY <3>1, TypeShaped
    <3> QED
      BY <3>2, JobFields DEF Shaped, At
  <2>3. Saved(job'[w]) /\ ~Saved(job[w])
    BY <2>2 DEF Saved, At
  <2> QED
    BY <2>1, <2>3 DEF Fresh
<1> QED
  BY <1>1, <1>2, <1>3, InitType, NextType, PTL DEF Spec, OnlyOldPasswordSaved
=============================================================================
