------------------------- MODULE PortSettingsProofs -------------------------
(***************************************************************************)
(* Proofs about PortSettings for every number of threads, every set of     *)
(* port assignments and every bound.                                       *)
(***************************************************************************)
EXTENDS PortSettings, TLAPS

(* Elements of sequences of edits. *)
EditsIn(todo) == {todo[i] : i \in DOMAIN todo}

LEMMA EditsInConcat ==
  ASSUME NEW a \in Seq(Edits), NEW b \in Seq(Edits)
  PROVE  EditsIn(a \o b) = EditsIn(a) \cup EditsIn(b)
<1>1. \A i \in DOMAIN (a \o b) : (a \o b)[i] \in EditsIn(a) \cup EditsIn(b)
  <2> TAKE i \in DOMAIN (a \o b)
  <2>1. CASE i <= Len(a)
    BY <2>1 DEF EditsIn
  <2>2. CASE i > Len(a)
    <3>1. (a \o b)[i] = b[i - Len(a)] /\ i - Len(a) \in DOMAIN b
      BY <2>2
    <3> QED
      BY <3>1 DEF EditsIn
  <2> QED
    BY <2>1, <2>2
<1>2. \A i \in DOMAIN a : a[i] \in EditsIn(a \o b)
  <2> TAKE i \in DOMAIN a
  <2>1. i \in DOMAIN (a \o b) /\ (a \o b)[i] = a[i]
    OBVIOUS
  <2> QED
    BY <2>1 DEF EditsIn
<1>3. \A i \in DOMAIN b : b[i] \in EditsIn(a \o b)
  <2> TAKE i \in DOMAIN b
  <2>1. Len(a) + i \in DOMAIN (a \o b) /\ (a \o b)[Len(a) + i] = b[i]
    OBVIOUS
  <2> QED
    BY <2>1 DEF EditsIn
<1> QED
  BY <1>1, <1>2, <1>3 DEF EditsIn

LEMMA EditsInTail ==
  ASSUME NEW a \in Seq(Edits), a # <<>>
  PROVE  EditsIn(a) = {Head(a)} \cup EditsIn(Tail(a))
<1>1. \A i \in DOMAIN a : a[i] \in {Head(a)} \cup EditsIn(Tail(a))
  <2> TAKE i \in DOMAIN a
  <2>1. CASE i = 1
    BY <2>1
  <2>2. CASE i # 1
    <3>1. i - 1 \in DOMAIN Tail(a) /\ Tail(a)[i - 1] = a[i]
      BY <2>2
    <3> QED
      BY <3>1 DEF EditsIn
  <2> QED
    BY <2>1, <2>2
<1>2. Head(a) \in EditsIn(a)
  <2>1. 1 \in DOMAIN a /\ Head(a) = a[1]
    OBVIOUS
  <2> QED
    BY <2>1 DEF EditsIn
<1>3. \A i \in DOMAIN Tail(a) : Tail(a)[i] \in EditsIn(a)
  <2> TAKE i \in DOMAIN Tail(a)
  <2>1. i + 1 \in DOMAIN a /\ a[i + 1] = Tail(a)[i]
    OBVIOUS
  <2> QED
    BY <2>1 DEF EditsIn
<1> QED
  BY <1>1, <1>2, <1>3 DEF EditsIn

(* The edits of a service are well formed, and an edit belongs to one      *)
(* service.                                                                *)
LEMMA EditsOfServices ==
  ASSUME NEW s \in Services
  PROVE  /\ EditsFor(s) \in Seq(Edits)
         /\ EditsIn(EditsFor(s)) =
              CASE s = "nginx"  -> {Edit("nginx.conf", s)}
                [] s = "apache" -> {Edit("httpd.conf", s)}
                [] s = "mysql"  -> {Edit("my.ini", s)}
                [] s = "php"    -> {Edit("nginx.conf", s), Edit("httpd.conf", s)}
<1>1. /\ Edit("nginx.conf", s) \in Edits
      /\ Edit("httpd.conf", s) \in Edits
      /\ Edit("my.ini", s) \in Edits
  BY DEF Edit, Edits, Files
<1>2. CASE s = "nginx"
  BY <1>1, <1>2 DEF EditsFor, EditsIn
<1>3. CASE s = "apache"
  BY <1>1, <1>3 DEF EditsFor, EditsIn
<1>4. CASE s = "mysql"
  BY <1>1, <1>4 DEF EditsFor, EditsIn
<1>5. CASE s = "php"
  BY <1>1, <1>5 DEF EditsFor, EditsIn
<1> QED
  BY <1>2, <1>3, <1>4, <1>5 DEF Services

(* The plan holds the edits of the services whose port changes. *)
LEMMA PlanEdits ==
  ASSUME NEW old, NEW new
  PROVE  /\ Plan(old, new) \in Seq(Edits)
         /\ EditsIn(Plan(old, new)) =
              UNION {EditsIn(EditsFor(s)) : s \in {x \in Services : old[x] # new[x]}}
<1> DEFINE C(s) == Changed(s, old, new)
<1>1. \A s \in Services :
        /\ C(s) \in Seq(Edits)
        /\ EditsIn(C(s)) = IF old[s] # new[s] THEN EditsIn(EditsFor(s)) ELSE {}
  BY EditsOfServices DEF Changed, EditsIn
<1> HIDE DEF C
<1>2. C("nginx") \in Seq(Edits) /\ C("apache") \in Seq(Edits) /\ C("mysql") \in Seq(Edits)
      /\ C("php") \in Seq(Edits)
  BY <1>1 DEF Services
<1>3. Plan(old, new) = C("nginx") \o C("apache") \o C("mysql") \o C("php")
  BY DEF Plan, C
<1> DEFINE P2 == C("nginx") \o C("apache")
           P3 == P2 \o C("mysql")
<1>4. P2 \in Seq(Edits) /\ P3 \in Seq(Edits) /\ P3 \o C("php") \in Seq(Edits)
  BY <1>2
<1>5. EditsIn(P2) = EditsIn(C("nginx")) \cup EditsIn(C("apache"))
  BY <1>2, EditsInConcat
<1> HIDE DEF P2
<1>6. EditsIn(P3) = EditsIn(P2) \cup EditsIn(C("mysql"))
  BY <1>2, <1>4, EditsInConcat
<1> HIDE DEF P3
<1>7. EditsIn(P3 \o C("php")) = EditsIn(P3) \cup EditsIn(C("php"))
  BY <1>2, <1>4, EditsInConcat
<1>8. Plan(old, new) = P3 \o C("php")
  BY <1>3 DEF P2, P3
<1>9. EditsIn(Plan(old, new)) = UNION {EditsIn(C(s)) : s \in Services}
  BY <1>5, <1>6, <1>7, <1>8 DEF Services
<1> QED
  BY <1>1, <1>4, <1>8, <1>9

-----------------------------------------------------------------------------
(* Types *)

LEMMA PortInUse == ASSUME NEW p \in Settings, NEW s \in Services PROVE p[s] \in PortsUsed
BY DEF PortsUsed

LEMMA EmptyTyped == Empty \in Contents
BY DEF Empty, Contents

LEMMA NoJobTyped == NoJob \in Jobs
BY PortSettingsAssumption, EmptyTyped DEF NoJob, Jobs

LEMMA HeadTail ==
  ASSUME NEW todo \in Seq(Edits), todo # <<>>
  PROVE  /\ Head(todo) \in Edits
         /\ Tail(todo) \in Seq(Edits)
         /\ Len(todo) # 1 => Tail(todo) # <<>>
         /\ Len(todo) = 1 => Tail(todo) = <<>>
<1>1. todo \in [1..Len(todo) -> Edits] /\ Len(todo) \in Nat /\ Len(todo) # 0
  OBVIOUS
<1>2. Head(todo) \in Edits
  BY <1>1
<1>3. Tail(todo) \in Seq(Edits) /\ Len(Tail(todo)) = Len(todo) - 1
  BY <1>1
<1> QED
  BY <1>1, <1>2, <1>3

LEMMA FilesOfTyped == ASSUME NEW todo \in Seq(Edits) PROVE FilesOf(todo) \subseteq Files
<1>1. todo \in [1..Len(todo) -> Edits]
  OBVIOUS
<1> QED
  BY <1>1 DEF FilesOf, Edits

LEMMA UnfinishedTyped == TypeOK => Unfinished \subseteq Files
<1> SUFFICES ASSUME TypeOK, NEW x \in Workers PROVE FilesOf(job[x].todo) \subseteq Files
  BY DEF Unfinished
<1> QED
  BY FilesOfTyped DEF TypeOK, Jobs

Harmable == Files \cup {"ports_config.json"}

LEMMA HarmTyped ==
  ASSUME TypeOK, NEW fs, fs \subseteq Harmable, Harm(fs)
  PROVE  harmed' \subseteq Harmable /\ mending' \in {"no", "begun", "done"}
BY DEF Harm, TypeOK, Harmable

LEMMA RewrittenTyped ==
  ASSUME TypeOK, NEW w \in Workers, NEW c \in Contents, job[w].todo # <<>>
  PROVE  Rewritten(w, c) \in Contents
<1>0. job[w] \in Jobs
  BY DEF TypeOK
<1>1. job[w].new \in Settings /\ Head(job[w].todo).svc \in Services
  <2>1. job[w].new \in Settings /\ job[w].todo \in Seq(Edits)
    BY <1>0 DEF Jobs
  <2>2. Head(job[w].todo) \in Edits
    BY <2>1, HeadTail
  <2> QED
    BY <2>1, <2>2 DEF Edits
<1>2. \A s \in Services : PORTS[s] \in PortsUsed /\ job[w].new[s] \in PortsUsed
  BY <1>1, PortInUse DEF TypeOK
<1>3. \A s \in Services :
        /\ Replaced(c.listen, PORTS[s]) \in PortsUsed \cup {Nothing}
        /\ Replaced(c.listen, job[w].new[s]) \in PortsUsed \cup {Nothing}
        /\ Replaced(c.fcgi, job[w].new[s]) \in PortsUsed \cup {Nothing}
  BY <1>2 DEF Replaced
<1>4. "apache" \in Services /\ "php" \in Services
  BY DEF Services
<1>5. CASE job[w].kind = "apache"
  BY <1>2, <1>3, <1>4, <1>5 DEF Rewritten, Contents
<1>6. CASE job[w].kind # "apache" /\ Head(job[w].todo).svc = "php"
  BY <1>3, <1>4, <1>6 DEF Rewritten, Contents
<1>7. CASE job[w].kind # "apache" /\ Head(job[w].todo).svc # "php"
  BY <1>1, <1>3, <1>7 DEF Rewritten, Contents
<1> QED
  BY <1>5, <1>6, <1>7

(* TypeOK needs more: what a thread that is at work has to do.             *)
AllEdits == UNION {EditsIn(EditsFor(s)) : s \in Services}

Formed(j) ==
  /\ j.pc \in {"read", "open", "write"} => j.todo # <<>>
  /\ j.pc # "idle" =>
       /\ j.kind \in {"ports", "apache"}
       /\ j.kind = "apache" => j.todo = <<Edit("httpd.conf", "apache")>>
       /\ j.kind = "ports" => EditsIn(j.todo) \subseteq AllEdits

TypeInv == TypeOK /\ \A w \in Workers : Formed(job[w])

LEMMA InitType == Init => TypeInv
<1> SUFFICES ASSUME Init PROVE TypeInv
  OBVIOUS
<1> USE PortSettingsAssumption
<1>1. \A s \in Services : DefaultPorts[s] \in PortsUsed
  BY PortInUse
<1>2. file \in [Files -> Contents]
  BY <1>1 DEF Init, Said, Contents, Files, Services
<1>3. job \in [Workers -> Jobs] /\ \A w \in Workers : Formed(job[w])
  BY NoJobTyped DEF Init, NoJob, Formed
<1>4. events \in 0..MaxEvents
  BY DEF Init
<1> QED
  BY <1>2, <1>3, <1>4 DEF Init, TypeOK, TypeInv

(* Every way a thread's job is replaced keeps the type of job. *)
LEMMA JobUpdate ==
  ASSUME TypeInv, NEW w \in Workers, NEW j \in Jobs, job' = [job EXCEPT ![w] = j], Formed(j)
  PROVE  /\ job' \in [Workers -> Jobs]
         /\ job'[w] = j /\ \A x \in Workers : x # w => job'[x] = job[x]
         /\ \A x \in Workers : Formed(job'[x])
<1>1. job \in [Workers -> Jobs]
  BY DEF TypeInv, TypeOK
<1>2. \A x \in Workers : job'[x] = IF x = w THEN j ELSE job[x]
  BY <1>1
<1> QED
  BY <1>1, <1>2 DEF TypeInv

LEMMA PlanOfServices ==
  ASSUME NEW old, NEW new
  PROVE  EditsIn(Plan(old, new)) \subseteq AllEdits
BY PlanEdits DEF AllEdits

(* A thread that begins with some edits, or has none left. *)
LEMMA BeginTyped ==
  ASSUME NEW j \in Jobs, NEW todo \in Seq(Edits),
         todo # <<>> => /\ j.kind \in {"ports", "apache"}
                        /\ j.kind = "apache" => todo = <<Edit("httpd.conf", "apache")>>
                        /\ j.kind = "ports" => EditsIn(todo) \subseteq AllEdits
  PROVE  /\ Begin(j, todo) \in Jobs /\ Formed(Begin(j, todo))
         /\ todo = <<>> => Begin(j, todo).pc = "idle"
         /\ todo # <<>> => /\ Begin(j, todo).pc = "read" /\ Begin(j, todo).todo = todo
                           /\ Begin(j, todo).kind = j.kind /\ Begin(j, todo).new = j.new
<1>1. CASE todo = <<>>
  BY <1>1, NoJobTyped DEF Begin, Formed, NoJob
<1>2. CASE todo # <<>>
  <2> DEFINE b == [j EXCEPT !.todo = todo, !.buf = Empty, !.pc = "read"]
  <2>1. Begin(j, todo) = b
    BY <1>2 DEF Begin
  <2>2. /\ b \in Jobs /\ b.pc = "read" /\ b.todo = todo /\ b.kind = j.kind /\ b.new = j.new
    BY EmptyTyped DEF Jobs
  <2> HIDE DEF b
  <2> QED
    BY <1>2, <2>1, <2>2 DEF Formed
<1> QED
  BY <1>1, <1>2

(* What a thread that is at a file works on. *)
LEMMA AtFile ==
  ASSUME TypeInv, NEW w \in Workers, job[w].pc \in {"read", "open", "write"}
  PROVE  /\ job[w] \in Jobs
         /\ job[w].todo \in Seq(Edits) /\ job[w].todo # <<>>
         /\ Head(job[w].todo) \in Edits
         /\ Target(w) \in Files
<1>1. job[w] \in Jobs /\ job[w].todo # <<>>
  BY DEF TypeInv, TypeOK, Formed
<1>2. job[w].todo \in Seq(Edits)
  BY <1>1 DEF Jobs
<1>3. Head(job[w].todo) \in Edits
  BY <1>1, <1>2, HeadTail
<1> QED
  BY <1>1, <1>2, <1>3 DEF Target, Edits

(* Turning to the next edit. *)
LEMMA NextEditTyped ==
  ASSUME TypeInv, NEW w \in Workers, job[w].pc \in {"read", "open", "write"}, NextEdit(w)
  PROVE  /\ job' \in [Workers -> Jobs] /\ \A x \in Workers : Formed(job'[x])
         /\ \A x \in Workers : x # w => job'[x] = job[x]
         /\ Tail(job[w].todo) = <<>> => job'[w].pc = "idle"
         /\ Tail(job[w].todo) # <<>> =>
              /\ job'[w].pc = "read" /\ job'[w].todo = Tail(job[w].todo)
              /\ job'[w].kind = job[w].kind /\ job'[w].new = job[w].new
<1> DEFINE j == job[w]
           rest == Tail(j.todo)
<1>1. j \in Jobs /\ j.todo \in Seq(Edits) /\ j.todo # <<>> /\ Formed(j)
  BY AtFile DEF TypeInv
<1>2. rest \in Seq(Edits)
  BY <1>1, HeadTail
<1>3. rest # <<>> => /\ j.kind \in {"ports", "apache"}
                     /\ j.kind = "apache" => rest = <<Edit("httpd.conf", "apache")>>
                     /\ j.kind = "ports" => EditsIn(rest) \subseteq AllEdits
  <2> SUFFICES ASSUME rest # <<>>
               PROVE  /\ j.kind = "ports"
                      /\ EditsIn(rest) \subseteq AllEdits
    OBVIOUS
  <2>1. j.kind # "apache"
    <3> SUFFICES ASSUME j.kind = "apache" PROVE FALSE
      OBVIOUS
    <3>1. j.todo = <<Edit("httpd.conf", "apache")>>
      BY <1>1 DEF Formed
    <3>2. \A e : Tail(<<e>>) = <<>>
      OBVIOUS
    <3> QED
      BY <3>1, <3>2
  <2>2. j.kind = "ports" /\ EditsIn(j.todo) \subseteq AllEdits
    BY <1>1, <2>1 DEF Formed
  <2> QED
    BY <1>1, <2>2, EditsInTail
<1>4. job' = [job EXCEPT ![w] = Begin(j, rest)]
  BY DEF NextEdit, TypeInv, TypeOK
<1> HIDE DEF j, rest
<1>5. /\ Begin(j, rest) \in Jobs /\ Formed(Begin(j, rest))
      /\ rest = <<>> => Begin(j, rest).pc = "idle"
      /\ rest # <<>> => /\ Begin(j, rest).pc = "read" /\ Begin(j, rest).todo = rest
                        /\ Begin(j, rest).kind = j.kind /\ Begin(j, rest).new = j.new
  BY <1>1, <1>2, <1>3, BeginTyped
<1>6. /\ job' \in [Workers -> Jobs] /\ \A x \in Workers : Formed(job'[x])
      /\ job'[w] = Begin(j, rest) /\ \A x \in Workers : x # w => job'[x] = job[x]
  BY <1>4, <1>5, JobUpdate
<1> QED
  BY <1>5, <1>6 DEF j, rest

(* After save_ports a thread has the same edits before it. *)
LEMMA AfterSaveTyped ==
  ASSUME TypeInv, NEW w \in Workers, AfterSave(w)
  PROVE  /\ job' \in [Workers -> Jobs] /\ \A x \in Workers : Formed(job'[x])
         /\ \A x \in Workers : x # w => job'[x] = job[x]
         /\ job[w] \in Jobs /\ job[w].kind \in {"ports", "apache"}
         /\ job[w].todo = <<>> => job'[w].pc = "idle"
         /\ job[w].todo # <<>> =>
              /\ job'[w].pc = "read" /\ job'[w].todo = job[w].todo
              /\ job'[w].kind = job[w].kind /\ job'[w].new = job[w].new
<1> DEFINE j == job[w]
<1>1. j \in Jobs /\ Formed(j) /\ j.pc = "save"
  BY DEF AfterSave, TypeInv, TypeOK
<1>2. /\ j.todo \in Seq(Edits) /\ j.kind \in {"ports", "apache"}
      /\ j.kind = "apache" => j.todo = <<Edit("httpd.conf", "apache")>>
      /\ j.kind = "ports" => EditsIn(j.todo) \subseteq AllEdits
  BY <1>1 DEF Formed, Jobs
<1>3. job' = [job EXCEPT ![w] = Begin(j, j.todo)]
  BY DEF AfterSave, TypeInv, TypeOK
<1> HIDE DEF j
<1>4. /\ Begin(j, j.todo) \in Jobs /\ Formed(Begin(j, j.todo))
      /\ j.todo = <<>> => Begin(j, j.todo).pc = "idle"
      /\ j.todo # <<>> => /\ Begin(j, j.todo).pc = "read" /\ Begin(j, j.todo).todo = j.todo
                          /\ Begin(j, j.todo).kind = j.kind /\ Begin(j, j.todo).new = j.new
  BY <1>1, <1>2, BeginTyped
<1>5. /\ job' \in [Workers -> Jobs] /\ \A x \in Workers : Formed(job'[x])
      /\ job'[w] = Begin(j, j.todo) /\ \A x \in Workers : x # w => job'[x] = job[x]
  BY <1>3, <1>4, JobUpdate
<1> QED
  BY <1>1, <1>2, <1>4, <1>5 DEF j

(* A change of ports leaves a thread with a plan before it, which is in    *)
(* save_ports or past it.                                                  *)
LEMMA ChangeTyped ==
  ASSUME TypeInv, NEW w \in Workers, NEW new \in Settings,
         save_port_settings(w, new) \/ SettingsUnsaved(w, new)
  PROVE  /\ job' \in [Workers -> Jobs] /\ \A x \in Workers : Formed(job'[x])
         /\ \A x \in Workers : x # w => job'[x] = job[x]
         /\ Plan(PORTS, new) \in Seq(Edits)
         /\ job'[w].pc = "idle" => Plan(PORTS, new) = <<>>
         /\ job'[w].pc # "idle" =>
              /\ job'[w].pc \in {"save", "read"} /\ job'[w].todo = Plan(PORTS, new)
              /\ job'[w].kind = "ports" /\ job'[w].new = new
         /\ save_port_settings(w, new) => job'[w].pc = "save"
<1> DEFINE plan == Plan(PORTS, new)
<1>1. plan \in Seq(Edits) /\ EditsIn(plan) \subseteq AllEdits
  BY PlanEdits, PlanOfServices
<1>2. CASE save_port_settings(w, new)
  <2> DEFINE j == [NoJob EXCEPT !.kind = "ports", !.new = new, !.pc = "save", !.todo = plan]
  <2>1. job' = [job EXCEPT ![w] = j]
    BY <1>2 DEF save_port_settings
  <2> HIDE DEF plan
  <2>2. j \in Jobs /\ j.pc = "save" /\ j.todo = plan /\ j.kind = "ports" /\ j.new = new
    BY <1>1, NoJobTyped DEF NoJob, Jobs
  <2> HIDE DEF j
  <2>3. Formed(j)
    BY <1>1, <2>2 DEF Formed
  <2>4. /\ job' \in [Workers -> Jobs] /\ \A x \in Workers : Formed(job'[x])
        /\ job'[w] = j /\ \A x \in Workers : x # w => job'[x] = job[x]
    BY <2>1, <2>2, <2>3, JobUpdate
  <2> QED
    BY <1>1, <2>2, <2>4 DEF plan
<1>3. CASE ~save_port_settings(w, new)
  <2> DEFINE j == [NoJob EXCEPT !.kind = "ports", !.new = new]
             b == Begin(j, plan)
  <2>1. job' = [job EXCEPT ![w] = b]
    BY <1>3 DEF SettingsUnsaved
  <2> HIDE DEF plan
  <2>2. j \in Jobs /\ j.kind = "ports" /\ j.new = new
    BY NoJobTyped DEF NoJob, Jobs
  <2> HIDE DEF j
  <2>3. /\ b \in Jobs /\ Formed(b)
        /\ plan = <<>> => b.pc = "idle"
        /\ plan # <<>> => b.pc = "read" /\ b.todo = plan /\ b.kind = j.kind /\ b.new = j.new
    BY <1>1, <2>2, BeginTyped
  <2> HIDE DEF b
  <2>4. /\ job' \in [Workers -> Jobs] /\ \A x \in Workers : Formed(job'[x])
        /\ job'[w] = b /\ \A x \in Workers : x # w => job'[x] = job[x]
    BY <2>1, <2>3, JobUpdate
  <2> QED
    BY <1>1, <1>3, <2>2, <2>3, <2>4 DEF plan
<1> QED
  BY <1>2, <1>3

LEMMA StartApacheTyped ==
  ASSUME TypeInv, NEW w \in Workers, StartApache(w)
  PROVE  /\ job' \in [Workers -> Jobs] /\ \A x \in Workers : Formed(job'[x])
         /\ \A x \in Workers : x # w => job'[x] = job[x]
         /\ job'[w].pc = "read" /\ job'[w].kind = "apache"
         /\ job'[w].todo = <<Edit("httpd.conf", "apache")>>
<1> DEFINE todo == <<Edit("httpd.conf", "apache")>>
           j == [NoJob EXCEPT !.kind = "apache"]
           b == Begin(j, todo)
<1>1. todo \in Seq(Edits) /\ todo # <<>>
  BY DEF Edit, Edits, Files, Services
<1>2. j \in Jobs /\ j.kind = "apache"
  BY NoJobTyped DEF NoJob, Jobs
<1>3. job' = [job EXCEPT ![w] = b]
  BY DEF StartApache
<1> HIDE DEF j
<1>4. b \in Jobs /\ Formed(b) /\ b.pc = "read" /\ b.todo = todo /\ b.kind = "apache"
  <2> HIDE DEF todo, b
  <2>1. todo = <<Edit("httpd.conf", "apache")>>
    BY DEF todo
  <2> QED
    BY <1>1, <1>2, <2>1, BeginTyped DEF b
<1> HIDE DEF b
<1>5. /\ job' \in [Workers -> Jobs] /\ \A x \in Workers : Formed(job'[x])
      /\ job'[w] = b /\ \A x \in Workers : x # w => job'[x] = job[x]
  BY <1>3, <1>4, JobUpdate
<1> QED
  BY <1>4, <1>5

LEMMA NextType == TypeInv /\ [Next]_vars => TypeInv'
<1> SUFFICES ASSUME TypeInv, [Next]_vars PROVE TypeInv'
  OBVIOUS
<1>0. /\ PORTS \in Settings /\ portsFile \in Settings \cup {Nothing}
      /\ file \in [Files -> Contents] /\ saving \in BOOLEAN
      /\ job \in [Workers -> Jobs] /\ harmed \subseteq Harmable
      /\ mending \in {"no", "begun", "done"} /\ events \in 0..MaxEvents
      /\ TypeOK
  BY DEF TypeInv, TypeOK, Harmable
<1> USE PortSettingsAssumption
<1>4. events < MaxEvents => events + 1 \in 0..MaxEvents
  BY <1>0
<1>9. ASSUME PORTS' \in Settings, portsFile' \in Settings \cup {Nothing},
             file' \in [Files -> Contents], saving' \in BOOLEAN, job' \in [Workers -> Jobs],
             harmed' \subseteq Harmable, mending' \in {"no", "begun", "done"},
             events' \in 0..MaxEvents, \A x \in Workers : Formed(job'[x])
      PROVE  TypeInv'
  BY <1>9 DEF TypeInv, TypeOK, Harmable
<1>h. \A fs : fs \subseteq Files => fs \subseteq Harmable
  BY DEF Harmable
<1>1. ASSUME NEW w \in Workers, NEW new \in Settings,
             save_port_settings(w, new) \/ SettingsUnsaved(w, new)
      PROVE  TypeInv'
  <2>1. job' \in [Workers -> Jobs] /\ \A x \in Workers : Formed(job'[x])
    BY <1>1, ChangeTyped
  <2>2. Shared(Plan(PORTS, new)) \cup {"ports_config.json"} \subseteq Harmable
    BY <1>0, UnfinishedTyped DEF Shared, Harmable
  <2>3. \E fs : fs \subseteq Harmable /\ Harm(fs)
    BY <1>1, <2>2 DEF save_port_settings, SettingsUnsaved, ChangePorts
  <2>4. harmed' \subseteq Harmable /\ mending' \in {"no", "begun", "done"}
    BY <1>0, <2>3, HarmTyped
  <2> QED
    BY <1>0, <1>1, <1>4, <1>9, <2>1, <2>4 DEF save_port_settings, SettingsUnsaved, ChangePorts
<1>2. ASSUME NEW w \in Workers, StartApache(w) PROVE TypeInv'
  <2>1. job' \in [Workers -> Jobs] /\ \A x \in Workers : Formed(job'[x])
    BY <1>2, StartApacheTyped
  <2>2. \A todo : Shared(todo) \subseteq Harmable
    BY <1>0, UnfinishedTyped DEF Shared, Harmable
  <2>3. harmed' \subseteq Harmable /\ mending' \in {"no", "begun", "done"}
    BY <1>0, <1>2, <2>2 DEF StartApache
  <2> QED
    BY <1>0, <1>2, <1>4, <1>9, <2>1, <2>3 DEF StartApache
<1>3. ASSUME NEW w \in Workers, save_ports(w) \/ SavePortsFails(w) PROVE TypeInv'
  <2>1. AfterSave(w)
    BY <1>3 DEF save_ports, SavePortsFails
  <2>2. job' \in [Workers -> Jobs] /\ \A x \in Workers : Formed(job'[x])
    BY <2>1, AfterSaveTyped
  <2>3. CASE save_ports(w)
    BY <1>0, <1>9, <2>1, <2>2, <2>3 DEF save_ports, AfterSave
  <2>4. CASE SavePortsFails(w)
    <3>1. {"ports_config.json"} \subseteq Harmable
      BY DEF Harmable
    <3>2. harmed' \subseteq Harmable /\ mending' \in {"no", "begun", "done"}
      BY <1>0, <2>4, <3>1, HarmTyped DEF SavePortsFails
    <3> QED
      BY <1>0, <1>4, <1>9, <2>1, <2>2, <2>4, <3>2 DEF SavePortsFails, AfterSave, Error
  <2> QED
    BY <1>3, <2>3, <2>4
<1>5. ASSUME NEW w \in Workers, ReadConfig(w) PROVE TypeInv'
  <2> DEFINE j == [job[w] EXCEPT !.buf = Rewritten(w, file[Target(w)]), !.pc = "open"]
  <2>1. job[w] \in Jobs /\ job[w].todo # <<>> /\ Target(w) \in Files /\ Formed(job[w])
        /\ job[w].pc = "read"
    BY <1>5, AtFile DEF ReadConfig, TypeInv
  <2>2. Rewritten(w, file[Target(w)]) \in Contents
    BY <1>0, <2>1, RewrittenTyped
  <2>3. j \in Jobs /\ Formed(j)
    BY <2>1, <2>2 DEF Jobs, Formed
  <2>4. job' = [job EXCEPT ![w] = j]
    BY <1>0, <1>5 DEF ReadConfig
  <2> HIDE DEF j
  <2>5. job' \in [Workers -> Jobs] /\ \A x \in Workers : Formed(job'[x])
    BY <2>3, <2>4, JobUpdate
  <2> QED
    BY <1>0, <1>5, <1>9, <2>5 DEF ReadConfig
<1>6. ASSUME NEW w \in Workers, OpenConfig(w) PROVE TypeInv'
  <2> DEFINE j == [job[w] EXCEPT !.pc = "write"]
  <2>1. job[w] \in Jobs /\ job[w].todo # <<>> /\ Formed(job[w]) /\ job[w].pc = "open"
    BY <1>6, AtFile DEF OpenConfig, TypeInv
  <2>2. j \in Jobs /\ Formed(j)
    BY <2>1 DEF Jobs, Formed
  <2>3. job' = [job EXCEPT ![w] = j]
    BY <1>6 DEF OpenConfig
  <2> HIDE DEF j
  <2>4. job' \in [Workers -> Jobs] /\ \A x \in Workers : Formed(job'[x])
    BY <2>2, <2>3, JobUpdate
  <2>5. file' \in [Files -> Contents]
    BY <1>0, <1>6, EmptyTyped DEF OpenConfig
  <2> QED
    BY <1>0, <1>6, <1>9, <2>4, <2>5 DEF OpenConfig
<1>7. ASSUME NEW w \in Workers, WriteConfig(w) PROVE TypeInv'
  <2>1. job[w] \in Jobs
    BY <1>0
  <2>2. job' \in [Workers -> Jobs] /\ \A x \in Workers : Formed(job'[x])
    BY <1>7, NextEditTyped DEF WriteConfig
  <2>3. job[w].buf \in Contents
    BY <2>1 DEF Jobs
  <2>4. file' \in [Files -> Contents]
    BY <1>0, <1>7, <2>3 DEF WriteConfig
  <2> QED
    BY <1>0, <1>7, <1>9, <2>2, <2>4 DEF WriteConfig
<1>8. ASSUME NEW w \in Workers, EditSkipped(w) \/ EditCut(w) PROVE TypeInv'
  <2>1. /\ job[w].pc \in {"read", "open", "write"} /\ NextEdit(w) /\ Harm({Target(w)}) /\ Error
        /\ UNCHANGED <<PORTS, portsFile, saving>>
    BY <1>8 DEF EditSkipped, EditCut
  <2>2. job' \in [Workers -> Jobs] /\ \A x \in Workers : Formed(job'[x])
    BY <2>1, NextEditTyped
  <2>3. {Target(w)} \subseteq Harmable
    BY <2>1, AtFile DEF Harmable
  <2>4. harmed' \subseteq Harmable /\ mending' \in {"no", "begun", "done"}
    BY <1>0, <2>1, <2>3, HarmTyped
  <2>5. file' \in [Files -> Contents]
    <3>1. CASE EditSkipped(w)
      BY <1>0, <3>1 DEF EditSkipped
    <3>2. CASE EditCut(w)
      <4>1. job[w].buf \in Contents
        BY <1>0 DEF Jobs
      <4>2. [job[w].buf EXCEPT !.fcgi = Nothing] \in Contents
        BY <4>1 DEF Contents
      <4> QED
        BY <1>0, <3>2, <4>2, EmptyTyped DEF EditCut
    <3> QED
      BY <1>8, <3>1, <3>2
  <2> QED
    BY <1>0, <1>4, <1>9, <2>1, <2>2, <2>4, <2>5 DEF Error
<1>10. ASSUME AppCrash \/ Relaunch PROVE TypeInv'
  <2>1. load_ports \in Settings
    BY <1>0 DEF load_ports
  <2>2. job' \in [Workers -> Jobs] /\ \A w \in Workers : Formed(job'[w])
    BY <1>10, NoJobTyped DEF AppCrash, Relaunch, Restarted, NoJob, Formed
  <2>3. harmed' \subseteq Harmable /\ mending' = "no"
    BY <1>0, <1>10, UnfinishedTyped DEF AppCrash, Relaunch, Restarted, HarmedNext, Harmable
  <2> QED
    BY <1>0, <1>10, <1>4, <1>9, <2>1, <2>2, <2>3 DEF AppCrash, Relaunch, Restarted
<1>11. ASSUME UNCHANGED vars PROVE TypeInv'
  BY <1>11 DEF vars, TypeInv, TypeOK
<1> QED
  BY <1>1, <1>2, <1>3, <1>5, <1>6, <1>7, <1>8, <1>10, <1>11 DEF Next, WorkerStep, Quiet

(* Whatever threads, errors and kills do to each other, the ports in use   *)
(* and the saved ones are a whole assignment, and files hold ports or      *)
(* nothing.                                                                *)
THEOREM TypeCorrect == Spec => []TypeOK
<1>1. TypeInv => TypeOK
  BY DEF TypeInv
<1> QED
  BY <1>1, InitType, NextType, PTL DEF Spec
-----------------------------------------------------------------------------
(* What both theorems rest on: while threads are at work a file may say    *)
(* anything about a port some thread still has to write.  Calm(f, loose)   *)
(* says which ports those are, what a thread carries to the file it has    *)
(* emptied, and that nobody else has that file before it.  Where loose, a  *)
(* text that lost its Listen line is put up with.                          *)

Httpd == "httpd.conf"

Fields == {"listen", "fcgi"}

(* Whether edit e of job j writes that field of its file. *)
Writes(j, e, fld) == j.kind = "apache" \/ (e.svc = "php" <=> fld = "fcgi")

Pending(w, f, fld) ==
  Working(w) /\ \E e \in EditsIn(job[w].todo) : e.file = f /\ Writes(job[w], e, fld)

InHand(w, f) == job[w].pc \in {"open", "write"} /\ Target(w) = f

(* Content c of file f is right about that port. *)
Right(c, f, fld, loose) ==
  \/ c[fld] = Said(PORTS)[f][fld]
  \/ loose /\ fld = "listen" /\ c.listen = Nothing

(* No port is missing from content c of file f. *)
Full(c, f, loose) == (loose \/ c.listen # Nothing) /\ (f # "my.ini" => c.fcgi # Nothing)

Has(w, f) == Working(w) /\ f \in FilesOf(job[w].todo)

(* No two threads have file f before them. *)
ApartAt(f) == \A w, x \in Workers : Has(w, f) /\ Has(x, f) => w = x

(* A change of ports carries the ports in use to file f. *)
Fresh(w, f) ==
  Working(w) /\ job[w].kind = "ports" =>
    \A e \in EditsIn(job[w].todo) : e.file = f => job[w].new[e.svc] = PORTS[e.svc]

(* What is about to be written into the emptied file f is right, except    *)
(* where the same thread has another edit for that file.                   *)
Carried(w, f, loose) ==
  InHand(w, f) =>
    /\ Full(job[w].buf, f, loose)
    /\ \A fld \in Fields :
         Writes(job[w], Head(job[w].todo), fld) \/ ~Pending(w, f, fld) =>
           Right(job[w].buf, f, fld, loose)

(* A file nobody has in hand is right where no edit is pending. *)
FileInv(f, loose) ==
  (\A w \in Workers : ~InHand(w, f)) =>
    /\ Full(file[f], f, loose)
    /\ \A fld \in Fields :
         (\A w \in Workers : ~Pending(w, f, fld)) => Right(file[f], f, fld, loose)

Calm(f, loose) ==
  /\ ApartAt(f)
  /\ \A w \in Workers : Fresh(w, f) /\ Carried(w, f, loose)
  /\ FileInv(f, loose)

-----------------------------------------------------------------------------
(* Facts about edits *)

LEMMA FileOfEdit == ASSUME NEW todo, NEW e \in EditsIn(todo) PROVE e.file \in FilesOf(todo)
BY DEF EditsIn, FilesOf

LEMMA EditOfFile ==
  ASSUME NEW todo, NEW f \in FilesOf(todo) PROVE \E e \in EditsIn(todo) : e.file = f
BY DEF EditsIn, FilesOf

(* An edit of a service is found among the edits of that service, and sets *)
(* that service's port in a file that has one.                             *)
LEMMA EditSets ==
  ASSUME NEW e \in AllEdits
  PROVE  /\ e.svc \in Services /\ e.file \in Files
         /\ e \in EditsIn(EditsFor(e.svc))
         /\ e.svc = "php" => e.file # "my.ini"
         /\ \A p : Said(p)[e.file][IF e.svc = "php" THEN "fcgi" ELSE "listen"] = p[e.svc]
<1>1. PICK s \in Services : e \in EditsIn(EditsFor(s))
  BY DEF AllEdits
<1>2. e \in CASE s = "nginx"  -> {Edit("nginx.conf", s)}
               [] s = "apache" -> {Edit("httpd.conf", s)}
               [] s = "mysql"  -> {Edit("my.ini", s)}
               [] s = "php"    -> {Edit("nginx.conf", s), Edit("httpd.conf", s)}
  BY <1>1, EditsOfServices
<1>3. \/ s = "nginx" /\ e = Edit("nginx.conf", s)
      \/ s = "apache" /\ e = Edit("httpd.conf", s)
      \/ s = "mysql" /\ e = Edit("my.ini", s)
      \/ s = "php" /\ e \in {Edit("nginx.conf", s), Edit("httpd.conf", s)}
  BY <1>2 DEF Services
<1>4. e.svc = s
  BY <1>3 DEF Edit
<1>5. e.file \in Files /\ (e.svc = "php" => e.file # "my.ini")
  BY <1>3 DEF Edit, Files
<1>6. ASSUME NEW p
      PROVE  Said(p)[e.file][IF e.svc = "php" THEN "fcgi" ELSE "listen"] = p[e.svc]
  BY <1>3 DEF Edit, Said, Files
<1> QED
  BY <1>1, <1>4, <1>5, <1>6

(* Where the ports say something else about a file, the plan has the edit. *)
LEMMA ChangePlanned ==
  ASSUME NEW old, NEW new, NEW f \in Files, NEW fld \in Fields,
         Said(old)[f][fld] # Said(new)[f][fld]
  PROVE  \E e \in EditsIn(Plan(old, new)) : e.file = f /\ (e.svc = "php" <=> fld = "fcgi")
<1> DEFINE s == IF fld = "fcgi" THEN "php"
                ELSE CASE f = "nginx.conf" -> "nginx" [] f = "httpd.conf" -> "apache"
                       [] OTHER -> "mysql"
<1>1. s \in Services /\ old[s] # new[s]
  BY DEF Said, Files, Fields, Services
<1>2. Edit(f, s) \in EditsIn(EditsFor(s))
  <2>1. f # "my.ini" \/ fld = "listen"
    BY DEF Said, Files, Fields
  <2> QED
    BY <1>1, <2>1, EditsOfServices DEF Files, Fields
<1>3. EditsIn(EditsFor(s)) \subseteq EditsIn(Plan(old, new))
  BY <1>1, PlanEdits
<1>4. Edit(f, s).file = f /\ (Edit(f, s).svc = "php" <=> fld = "fcgi")
  BY DEF Edit, Files, Fields
<1> QED
  BY <1>2, <1>3, <1>4

LEMMA PlannedChange ==
  ASSUME NEW old, NEW new, NEW e \in AllEdits, old[e.svc] # new[e.svc]
  PROVE  e \in EditsIn(Plan(old, new))
BY EditSets, PlanEdits

(* The edit in hand is one of the job's. *)
LEMMA TargetPlanned ==
  ASSUME TypeInv, NEW w \in Workers, job[w].pc \in {"read", "open", "write"}
  PROVE  /\ Head(job[w].todo) \in EditsIn(job[w].todo)
         /\ Target(w) \in FilesOf(job[w].todo)
         /\ Working(w) /\ Has(w, Target(w))
<1>1. job[w].todo \in Seq(Edits) /\ job[w].todo # <<>>
  BY AtFile
<1>2. Head(job[w].todo) \in EditsIn(job[w].todo)
  BY <1>1, EditsInTail
<1> QED
  BY <1>2, FileOfEdit DEF Target, Working, Has

(* Who has a file before it, or in hand. *)
LEMMA PendingHas ==
  ASSUME NEW w \in Workers, NEW f, NEW fld, Pending(w, f, fld)
  PROVE  Has(w, f)
BY FileOfEdit DEF Pending, Has

LEMMA InHandHas ==
  ASSUME TypeInv, NEW w \in Workers, NEW f, InHand(w, f)
  PROVE  Has(w, f)
BY TargetPlanned DEF InHand

LEMMA HasUnfinished == \A w \in Workers : \A f : Has(w, f) => f \in Unfinished
BY DEF Has, Unfinished

(* The file a thread is at is in nobody else's plan. *)
LEMMA TargetApart ==
  ASSUME TypeInv, NEW f, ApartAt(f), NEW w \in Workers, Has(w, f), NEW x \in Workers, x # w
  PROVE  ~Has(x, f) /\ ~InHand(x, f) /\ \A fld : ~Pending(x, f, fld)
BY InHandHas, PendingHas DEF ApartAt

(* A thread that a step leaves alone. *)
LEMMA OtherThread ==
  ASSUME NEW x \in Workers, job'[x] = job[x]
  PROVE  /\ Working(x)' <=> Working(x)
         /\ Target(x)' = Target(x)
         /\ \A f, fld : Pending(x, f, fld)' <=> Pending(x, f, fld)
         /\ \A f : (InHand(x, f)' <=> InHand(x, f)) /\ (Has(x, f)' <=> Has(x, f))
         /\ PORTS' = PORTS =>
              /\ \A f : Fresh(x, f)' <=> Fresh(x, f)
              /\ \A f, loose : Carried(x, f, loose)' <=> Carried(x, f, loose)
<1>1. (Working(x)' <=> Working(x)) /\ Target(x)' = Target(x)
  BY DEF Working, Target
<1>2. \A f, fld : Pending(x, f, fld)' <=> Pending(x, f, fld)
  BY <1>1 DEF Pending
<1>3. \A f : (InHand(x, f)' <=> InHand(x, f)) /\ (Has(x, f)' <=> Has(x, f))
  BY <1>1 DEF InHand, Has
<1>4. ASSUME PORTS' = PORTS, NEW f PROVE Fresh(x, f)' <=> Fresh(x, f)
  BY <1>1, <1>4 DEF Fresh
<1>5. ASSUME PORTS' = PORTS, NEW f, NEW loose PROVE Carried(x, f, loose)' <=> Carried(x, f, loose)
  BY <1>2, <1>3, <1>5 DEF Carried, Right
<1> QED
  BY <1>1, <1>2, <1>3, <1>4, <1>5

-----------------------------------------------------------------------------
(* Every step keeps a file calm, or harms it *)

(* A thread's step beside file f: it neither has the file in hand nor      *)
(* forgets an edit of it, and takes none that another thread has.          *)
LEMMA Besides ==
  ASSUME TypeInv, NEW f \in Files, NEW loose \in BOOLEAN, Calm(f, loose),
         PORTS' = PORTS, file'[f] = file[f],
         NEW w \in Workers, \A x \in Workers : x # w => job'[x] = job[x],
         ~InHand(w, f), ~InHand(w, f)',
         \A fld \in Fields : Pending(w, f, fld) => Pending(w, f, fld)',
         Has(w, f)' => Has(w, f) \/ f \notin Unfinished,
         Fresh(w, f)'
  PROVE  Calm(f, loose)'
<1>1. ApartAt(f)'
  <2> SUFFICES ASSUME NEW x \in Workers, NEW y \in Workers, Has(x, f)', Has(y, f)', x # y
               PROVE  FALSE
    BY DEF ApartAt
  <2>1. CASE x # w /\ y # w
    BY <2>1, OtherThread DEF Calm, ApartAt
  <2>2. CASE x = w \/ y = w
    <3> PICK z \in {x, y} : z # w
      OBVIOUS
    <3>1. Has(z, f)
      BY OtherThread
    <3>2. Has(w, f)
      BY <2>2, <3>1, HasUnfinished
    <3> QED
      BY <3>1, <3>2 DEF Calm, ApartAt
  <2> QED
    BY <2>1, <2>2
<1>2. ASSUME NEW x \in Workers PROVE Fresh(x, f)' /\ Carried(x, f, loose)'
  <2>1. CASE x = w
    BY <2>1 DEF Carried
  <2>2. CASE x # w
    BY <2>2, OtherThread DEF Calm
  <2> QED
    BY <2>1, <2>2
<1>3. FileInv(f, loose)'
  <2> SUFFICES ASSUME \A x \in Workers : ~InHand(x, f)'
               PROVE  /\ Full(file[f], f, loose)
                      /\ \A fld \in Fields : (\A x \in Workers : ~Pending(x, f, fld)')
                           => Right(file[f], f, fld, loose)
    BY DEF FileInv, Full, Right
  <2>1. \A x \in Workers : ~InHand(x, f)
    BY OtherThread
  <2>2. ASSUME NEW fld \in Fields, \A x \in Workers : ~Pending(x, f, fld)'
        PROVE  \A x \in Workers : ~Pending(x, f, fld)
    BY <2>2, OtherThread
  <2> QED
    BY <2>1, <2>2 DEF Calm, FileInv
<1> QED
  BY <1>1, <1>2, <1>3 DEF Calm

(* A change of ports: who has the file before it is not asked to share it, *)
(* and the plan has what the new ports change about it.                    *)
LEMMA ChangeCalm ==
  ASSUME TypeInv, NEW f \in Files, NEW loose \in BOOLEAN, Calm(f, loose),
         NEW w \in Workers, NEW new \in Settings,
         save_port_settings(w, new) \/ SettingsUnsaved(w, new),
         f \notin Shared(Plan(PORTS, new))
  PROVE  Calm(f, loose)'
<1> DEFINE plan == Plan(PORTS, new)
<1>1. ~Working(w) /\ PORTS' = new /\ file' = file
  BY DEF save_port_settings, SettingsUnsaved, ChangePorts
<1>2. /\ \A x \in Workers : x # w => job'[x] = job[x]
      /\ plan \in Seq(Edits)
      /\ job'[w].pc = "idle" => plan = <<>>
      /\ job'[w].pc # "idle" =>
           /\ job'[w].pc \in {"save", "read"} /\ job'[w].todo = plan
           /\ job'[w].kind = "ports" /\ job'[w].new = new
  BY ChangeTyped
<1>3. f \in FilesOf(plan) => \A x \in Workers : ~Has(x, f)
  BY HasUnfinished DEF Shared
<1>e. \A e \in EditsIn(plan) : plan # <<>>
  BY DEF EditsIn
<1>4. ASSUME NEW fld \in Fields, Said(PORTS)[f][fld] # Said(new)[f][fld]
      PROVE  f \in FilesOf(plan) /\ Pending(w, f, fld)'
  <2>1. PICK e \in EditsIn(plan) : e.file = f /\ (e.svc = "php" <=> fld = "fcgi")
    BY <1>4, ChangePlanned
  <2>2. f \in FilesOf(plan)
    BY <2>1, FileOfEdit
  <2> HIDE DEF plan
  <2>3. job'[w].pc \in {"save", "read"} /\ job'[w].todo = plan
    BY <1>2, <1>e, <2>1
  <2>4. Writes(job'[w], e, fld) /\ Working(w)'
    BY <2>1, <2>3 DEF Writes, Working
  <2> QED
    BY <2>1, <2>2, <2>3, <2>4 DEF Pending
<1> HIDE DEF plan
<1>5. (\A g : ~InHand(w, g) /\ ~InHand(w, g)') /\ ~Has(w, f)
  BY <1>1, <1>2 DEF InHand, Working, Has
<1>6. Has(w, f)' => f \in FilesOf(plan)
  BY <1>2 DEF Has, Working
<1>7. ApartAt(f)'
  BY <1>2, <1>3, <1>6, OtherThread DEF Calm, ApartAt
<1>8. ASSUME NEW x \in Workers PROVE Fresh(x, f)' /\ Carried(x, f, loose)'
  <2>1. CASE x = w
    BY <1>1, <1>2, <1>5, <2>1 DEF Fresh, Carried, Working
  <2>2. CASE x # w
    <3>1. /\ job'[x] = job[x] /\ Fresh(x, f) /\ Carried(x, f, loose)
          /\ Working(x)' <=> Working(x)
          /\ InHand(x, f)' <=> InHand(x, f)
          /\ \A fld : Pending(x, f, fld)' <=> Pending(x, f, fld)
      BY <1>2, <2>2, OtherThread DEF Calm
    <3>2. ASSUME Working(x), job[x].kind = "ports", NEW e \in EditsIn(job[x].todo), e.file = f
          PROVE  job[x].new[e.svc] = new[e.svc]
      <4>1. e \in AllEdits /\ job[x].new[e.svc] = PORTS[e.svc]
        BY <3>1, <3>2 DEF Fresh, TypeInv, Formed, Working
      <4>2. Has(x, f)
        BY <3>2, FileOfEdit DEF Has
      <4>3. e \notin EditsIn(plan)
        BY <1>3, <3>2, <4>2, FileOfEdit
      <4> QED
        BY <4>1, <4>3, PlannedChange DEF plan
    <3>3. Fresh(x, f)'
      BY <1>1, <3>1, <3>2 DEF Fresh
    <3>4. ASSUME InHand(x, f), NEW fld \in Fields
          PROVE  Said(PORTS)[f][fld] = Said(new)[f][fld]
      BY <1>3, <1>4, <3>4, InHandHas
    <3>5. Carried(x, f, loose)'
      BY <1>1, <3>1, <3>4 DEF Carried, Right
    <3> QED
      BY <3>3, <3>5
  <2> QED
    BY <2>1, <2>2
<1>9. FileInv(f, loose)'
  <2> SUFFICES ASSUME \A x \in Workers : ~InHand(x, f)'
               PROVE  /\ Full(file[f], f, loose)
                      /\ \A fld \in Fields : (\A x \in Workers : ~Pending(x, f, fld)')
                           => Right(file[f], f, fld, loose)'
    BY <1>1 DEF FileInv, Full, Right
  <2>1. \A x \in Workers : ~InHand(x, f)
    BY <1>2, <1>5, OtherThread
  <2>2. ASSUME NEW fld \in Fields, \A x \in Workers : ~Pending(x, f, fld)'
        PROVE  Right(file[f], f, fld, loose)'
    <3>1. \A x \in Workers : ~Pending(x, f, fld)
      BY <1>2, <1>5, <2>2, OtherThread, PendingHas
    <3>2. Right(file[f], f, fld, loose)
      BY <2>1, <3>1 DEF Calm, FileInv
    <3> QED
      BY <1>1, <1>4, <2>2, <3>2 DEF Right
  <2> QED
    BY <2>1, <2>2 DEF Calm, FileInv
<1> QED
  BY <1>7, <1>8, <1>9 DEF Calm

LEMMA AfterSaveCalm ==
  ASSUME TypeInv, NEW f \in Files, NEW loose \in BOOLEAN, Calm(f, loose),
         NEW w \in Workers, AfterSave(w)
  PROVE  Calm(f, loose)'
<1>1. job[w].pc = "save" /\ PORTS' = PORTS /\ file' = file
  BY DEF AfterSave
<1>2. /\ \A x \in Workers : x # w => job'[x] = job[x]
      /\ job[w].todo = <<>> => job'[w].pc = "idle"
      /\ job[w].todo # <<>> =>
           /\ job'[w].pc = "read" /\ job'[w].todo = job[w].todo
           /\ job'[w].kind = job[w].kind /\ job'[w].new = job[w].new
  BY AfterSaveTyped
<1>3. Working(w) /\ (Working(w)' <=> job[w].todo # <<>>)
  BY <1>1, <1>2 DEF Working
<1>4. ~InHand(w, f) /\ ~InHand(w, f)'
  BY <1>1, <1>2 DEF InHand
<1>5. \A fld \in Fields : Pending(w, f, fld) => Pending(w, f, fld)'
  <2>1. \A e \in EditsIn(job[w].todo) : job[w].todo # <<>>
    BY DEF EditsIn
  <2> QED
    BY <1>2, <1>3, <2>1 DEF Pending, Writes
<1>6. Has(w, f)' => Has(w, f)
  BY <1>2, <1>3 DEF Has
<1>7. Fresh(w, f)'
  BY <1>1, <1>2, <1>3 DEF Calm, Fresh
<1> QED
  BY <1>1, <1>2, <1>4, <1>5, <1>6, <1>7, Besides

LEMMA StartApacheCalm ==
  ASSUME TypeInv, NEW f \in Files, NEW loose \in BOOLEAN, Calm(f, loose),
         NEW w \in Workers, StartApache(w),
         f \notin Shared(<<Edit("httpd.conf", "apache")>>)
  PROVE  Calm(f, loose)'
<1>1. ~Working(w) /\ PORTS' = PORTS /\ file' = file
  BY DEF StartApache
<1>2. /\ \A x \in Workers : x # w => job'[x] = job[x]
      /\ job'[w].pc = "read" /\ job'[w].kind = "apache"
      /\ job'[w].todo = <<Edit("httpd.conf", "apache")>>
  BY StartApacheTyped
<1>3. ~InHand(w, f) /\ ~InHand(w, f)' /\ \A fld : ~Pending(w, f, fld)
  BY <1>1, <1>2 DEF InHand, Working, Pending
<1>4. Has(w, f)' => f \notin Unfinished
  BY <1>2 DEF Has, Shared
<1>5. Fresh(w, f)'
  BY <1>2 DEF Fresh
<1> QED
  BY <1>1, <1>2, <1>3, <1>4, <1>5, Besides

(* A step of a thread at another file, which keeps that file before it or  *)
(* leaves it behind.                                                       *)
LEMMA ElsewhereCalm ==
  ASSUME TypeInv, NEW f \in Files, NEW loose \in BOOLEAN, Calm(f, loose),
         PORTS' = PORTS, file'[f] = file[f],
         NEW w \in Workers, job[w].pc \in {"read", "open", "write"}, f # Target(w),
         \A x \in Workers : x # w => job'[x] = job[x],
         \/ /\ job'[w].pc \in {"open", "write"} /\ job'[w].todo = job[w].todo
            /\ job'[w].kind = job[w].kind /\ job'[w].new = job[w].new
         \/ NextEdit(w)
  PROVE  Calm(f, loose)'
<1>1. Working(w) /\ ~InHand(w, f) /\ Head(job[w].todo).file # f
  BY DEF Working, InHand, Target
<1>2. CASE /\ job'[w].pc \in {"open", "write"} /\ job'[w].todo = job[w].todo
           /\ job'[w].kind = job[w].kind /\ job'[w].new = job[w].new
  <2>1. Working(w)' /\ ~InHand(w, f)'
    BY <1>2 DEF Working, InHand, Target
  <2>2. \A fld \in Fields : Pending(w, f, fld) => Pending(w, f, fld)'
    BY <1>2, <2>1 DEF Pending, Writes
  <2>3. (Has(w, f)' => Has(w, f)) /\ Fresh(w, f)'
    BY <1>1, <1>2 DEF Has, Fresh, Calm
  <2> QED
    BY <1>1, <2>1, <2>2, <2>3, Besides
<1>3. CASE NextEdit(w)
  <2> DEFINE rest == Tail(job[w].todo)
  <2>1. /\ rest = <<>> => job'[w].pc = "idle"
        /\ rest # <<>> =>
             /\ job'[w].pc = "read" /\ job'[w].todo = rest
             /\ job'[w].kind = job[w].kind /\ job'[w].new = job[w].new
    BY <1>3, NextEditTyped
  <2>2. EditsIn(job[w].todo) = {Head(job[w].todo)} \cup EditsIn(rest)
    BY AtFile, EditsInTail
  <2>3. \A e \in EditsIn(rest) : rest # <<>>
    BY DEF EditsIn
  <2> HIDE DEF rest
  <2>4. (Working(w)' <=> rest # <<>>) /\ ~InHand(w, f)'
    BY <2>1 DEF Working, InHand
  <2>5. \A fld \in Fields : Pending(w, f, fld) => Pending(w, f, fld)'
    BY <1>1, <2>1, <2>2, <2>3, <2>4 DEF Pending, Writes
  <2>6. Has(w, f)' => Has(w, f)
    <3> SUFFICES ASSUME Has(w, f)' PROVE f \in FilesOf(job[w].todo)
      BY <1>1 DEF Has
    <3>1. f \in FilesOf(rest)
      BY <2>1, <2>4 DEF Has
    <3>2. PICK e \in EditsIn(rest) : e.file = f
      BY <3>1, EditOfFile
    <3> QED
      BY <2>2, <3>2, FileOfEdit
  <2>7. Fresh(w, f)'
    BY <1>1, <2>1, <2>2, <2>4 DEF Fresh, Calm
  <2> QED
    BY <1>1, <2>4, <2>5, <2>6, <2>7, Besides
<1> QED
  BY <1>2, <1>3

(* What is read from a file and rewritten is right where the edit or the   *)
(* file was.  A start of Apache needs nothing to go by.                    *)
LEMMA RewrittenRight ==
  ASSUME TypeInv, NEW w \in Workers, job[w].pc = "read", NEW loose \in BOOLEAN,
         Fresh(w, Target(w)),
         NEW c \in Contents,
         Full(c, Target(w), loose) \/ (loose /\ job[w].kind = "apache")
  PROVE  /\ Full(Rewritten(w, c), Target(w), loose)
         /\ \A fld \in Fields :
              Writes(job[w], Head(job[w].todo), fld) \/ Right(c, Target(w), fld, loose) =>
                Right(Rewritten(w, c), Target(w), fld, loose)
<1> DEFINE h == Head(job[w].todo)
           f == Target(w)
           r == Rewritten(w, c)
<1>1. job[w] \in Jobs /\ h \in EditsIn(job[w].todo) /\ f = h.file /\ f \in Files
  BY AtFile, TargetPlanned DEF Target
<1>2. Formed(job[w]) /\ Working(w)
  BY DEF TypeInv, Working
<1>3. \A s \in Services : PORTS[s] # Nothing /\ job[w].new[s] # Nothing
  BY <1>1, PortSettingsAssumption DEF TypeInv, TypeOK, Jobs
<1>4. c = [listen |-> c.listen, fcgi |-> c.fcgi]
  BY DEF Contents
<1>5. CASE job[w].kind = "apache"
  <2>1. h = Edit("httpd.conf", "apache")
    <3>1. job[w].todo = <<Edit("httpd.conf", "apache")>>
      BY <1>5, <1>2 DEF Formed, Working
    <3> QED
      BY <3>1
  <2>2. f = "httpd.conf" /\ h.svc # "php"
    BY <1>1, <2>1 DEF Edit
  <2>3. r = [listen |-> Replaced(c.listen, PORTS["apache"]), fcgi |-> PORTS["php"]]
    BY <1>5, <2>2 DEF Rewritten
  <2>4. r.fcgi = PORTS["php"] /\ r.fcgi # Nothing
    BY <1>3, <2>3 DEF Services
  <2>5. r.listen = PORTS["apache"] \/ (loose /\ r.listen = Nothing)
    BY <2>2, <2>3 DEF Replaced, Full
  <2>6. Full(r, f, loose)
    BY <1>3, <2>2, <2>4, <2>5 DEF Full, Services
  <2>7. Said(PORTS)[f] = [listen |-> PORTS["apache"], fcgi |-> PORTS["php"]]
    BY <2>2 DEF Said, Files
  <2> HIDE DEF r
  <2>8. \A fld \in Fields : Right(r, f, fld, loose)
    BY <2>4, <2>5, <2>7 DEF Right, Fields
  <2> QED
    BY <2>6, <2>8 DEF r
<1>6. CASE job[w].kind = "ports"
  <2>1. h \in AllEdits /\ job[w].new[h.svc] = PORTS[h.svc]
    BY <1>1, <1>2, <1>6 DEF Formed, Fresh, Working
  <2>2. /\ h.svc \in Services
        /\ h.svc = "php" => f # "my.ini"
        /\ Said(PORTS)[f][IF h.svc = "php" THEN "fcgi" ELSE "listen"] = PORTS[h.svc]
    BY <1>1, <2>1, EditSets
  <2>3. PORTS[h.svc] # Nothing
    BY <1>3, <2>2
  <2>0. Full(c, f, loose)
    BY <1>6
  <2> HIDE DEF h, f
  <2>4. CASE h.svc = "php"
    <3>1. r = [listen |-> c.listen, fcgi |-> PORTS["php"]]
      <4>1. c.fcgi # Nothing
        BY <2>0, <2>2, <2>4 DEF Full
      <4>2. r = [c EXCEPT !.fcgi = PORTS["php"]]
        BY <1>6, <2>1, <2>4, <4>1 DEF Rewritten, Replaced, h
      <4> QED
        BY <1>4, <4>2
    <3>2. Full(r, f, loose)
      BY <2>0, <2>3, <2>4, <3>1 DEF Full
    <3>3. \A fld \in Fields : Writes(job[w], h, fld) \/ Right(c, f, fld, loose) => Right(r, f, fld, loose)
      BY <1>6, <2>2, <2>4, <3>1 DEF Writes, Right, Fields
    <3> QED
      BY <3>2, <3>3 DEF f, h
  <2>5. CASE h.svc # "php"
    <3>1. r = [listen |-> Replaced(c.listen, PORTS[h.svc]), fcgi |-> c.fcgi]
      <4>1. r = [c EXCEPT !.listen = Replaced(c.listen, PORTS[h.svc])]
        BY <1>4, <1>6, <2>1, <2>5 DEF Rewritten, h
      <4> QED
        BY <1>4, <4>1
    <3>2. Full(r, f, loose)
      BY <2>0, <2>3, <3>1 DEF Full, Replaced
    <3>4. r.listen = PORTS[h.svc] \/ (loose /\ r.listen = Nothing)
      BY <2>0, <3>1 DEF Full, Replaced
    <3>5. r.fcgi = c.fcgi
      BY <3>1
    <3> HIDE DEF r
    <3>3. \A fld \in Fields : Writes(job[w], h, fld) \/ Right(c, f, fld, loose) => Right(r, f, fld, loose)
      BY <1>6, <2>2, <2>5, <3>4, <3>5 DEF Writes, Right, Fields
    <3> QED
      BY <3>2, <3>3 DEF f, h, r
  <2> QED
    BY <2>4, <2>5
<1> QED
  BY <1>2, <1>5, <1>6 DEF Formed, Working

(* What a step that stays at its file keeps. *)
LEMMA StaysAt ==
  ASSUME TypeInv, NEW w \in Workers, job[w].pc \in {"read", "open", "write"},
         NEW pc \in {"open", "write"}, NEW buf,
         job' = [job EXCEPT ![w].buf = buf, ![w].pc = pc]
  PROVE  /\ job'[w].pc = pc /\ job'[w].buf = buf
         /\ job'[w].kind = job[w].kind /\ job'[w].new = job[w].new /\ job'[w].todo = job[w].todo
         /\ \A x \in Workers : x # w => job'[x] = job[x]
         /\ Working(w) /\ Working(w)' /\ Target(w)' = Target(w)
         /\ \A g, fld : Pending(w, g, fld)' <=> Pending(w, g, fld)
         /\ \A g : (InHand(w, g)' <=> g = Target(w)) /\ (Has(w, g)' <=> Has(w, g))
<1>1. job[w] \in Jobs
  BY AtFile
<1>2. /\ job'[w] = [job[w] EXCEPT !.buf = buf, !.pc = pc]
      /\ \A x \in Workers : x # w => job'[x] = job[x]
  BY DEF TypeInv, TypeOK
<1>3. /\ job'[w].pc = pc /\ job'[w].buf = buf
      /\ job'[w].kind = job[w].kind /\ job'[w].new = job[w].new /\ job'[w].todo = job[w].todo
  <2>1. \E j \in Jobs : j = job[w]
    BY <1>1
  <2>2. PICK j \in Jobs : j = job[w]
    BY <2>1
  <2>3. job'[w] = [j EXCEPT !.buf = buf, !.pc = pc]
    BY <1>2, <2>2
  <2>4. /\ [j EXCEPT !.buf = buf, !.pc = pc].pc = pc
        /\ [j EXCEPT !.buf = buf, !.pc = pc].buf = buf
        /\ [j EXCEPT !.buf = buf, !.pc = pc].kind = j.kind
        /\ [j EXCEPT !.buf = buf, !.pc = pc].new = j.new
        /\ [j EXCEPT !.buf = buf, !.pc = pc].todo = j.todo
    BY DEF Jobs
  <2> QED
    BY <2>2, <2>3, <2>4
<1>4. Working(w) /\ Working(w)' /\ Target(w)' = Target(w)
  BY <1>3 DEF Working, Target
<1>5. \A g, fld : Pending(w, g, fld)' <=> Pending(w, g, fld)
  BY <1>3, <1>4 DEF Pending, Writes
<1>6. \A g : (InHand(w, g)' <=> g = Target(w)) /\ (Has(w, g)' <=> Has(w, g))
  BY <1>3, <1>4 DEF InHand, Has
<1> QED
  BY <1>2, <1>3, <1>4, <1>5, <1>6

(* A thread takes the file it is at in hand, or keeps it there, with what  *)
(* is right to write.                                                      *)
LEMMA TakeCalm ==
  ASSUME TypeInv, NEW f \in Files, NEW loose \in BOOLEAN, Calm(f, loose), PORTS' = PORTS,
         NEW w \in Workers, job[w].pc \in {"read", "open", "write"}, f = Target(w),
         NEW pc \in {"open", "write"}, NEW buf,
         job' = [job EXCEPT ![w].buf = buf, ![w].pc = pc],
         Full(buf, f, loose),
         \A fld \in Fields :
           Writes(job[w], Head(job[w].todo), fld) \/ ~Pending(w, f, fld) =>
             Right(buf, f, fld, loose)
  PROVE  Calm(f, loose)'
<1>1. /\ job'[w].pc = pc /\ job'[w].buf = buf
      /\ job'[w].kind = job[w].kind /\ job'[w].new = job[w].new /\ job'[w].todo = job[w].todo
      /\ \A x \in Workers : x # w => job'[x] = job[x]
      /\ Working(w) /\ Working(w)' /\ Target(w)' = Target(w)
      /\ \A g, fld : Pending(w, g, fld)' <=> Pending(w, g, fld)
      /\ \A g : (InHand(w, g)' <=> g = Target(w)) /\ (Has(w, g)' <=> Has(w, g))
  BY StaysAt
<1>2. ApartAt(f)'
  <2>1. \A x \in Workers : Has(x, f)' <=> Has(x, f)
    BY <1>1, OtherThread
  <2> QED
    BY <2>1 DEF Calm, ApartAt
<1>3. Fresh(w, f)'
  BY <1>1 DEF Calm, Fresh
<1>4. Carried(w, f, loose)'
  BY <1>1 DEF Carried, Writes, Right, Full
<1>5. ASSUME NEW x \in Workers PROVE Fresh(x, f)' /\ Carried(x, f, loose)'
  BY <1>1, <1>3, <1>4, OtherThread DEF Calm
<1>6. FileInv(f, loose)'
  BY <1>1 DEF FileInv
<1> QED
  BY <1>2, <1>5, <1>6 DEF Calm

LEMMA ReadCalm ==
  ASSUME TypeInv, NEW f \in Files, NEW loose \in BOOLEAN, Calm(f, loose),
         NEW w \in Workers, ReadConfig(w)
  PROVE  Calm(f, loose)'
<1> DEFINE buf == Rewritten(w, file[Target(w)])
<1>1. /\ job[w].pc = "read" /\ PORTS' = PORTS /\ file' = file
      /\ job' = [job EXCEPT ![w].buf = buf, ![w].pc = "open"]
  BY DEF ReadConfig
<1>2. Target(w) \in Files /\ file[Target(w)] \in Contents /\ Has(w, Target(w))
  BY <1>1, AtFile, TargetPlanned DEF TypeInv, TypeOK
<1> HIDE DEF buf
<1>3. CASE f = Target(w)
  <2>1. \A x \in Workers : ~InHand(x, f)
    BY <1>1, <1>2, <1>3, TargetApart DEF Calm, InHand
  <2>2. FileInv(f, loose)
    BY DEF Calm
  <2>3. Full(file[f], f, loose)
    BY <2>1, <2>2 DEF FileInv
  <2>4. ASSUME NEW fld \in Fields, ~Pending(w, f, fld) PROVE Right(file[f], f, fld, loose)
    BY <1>2, <1>3, <2>1, <2>2, <2>4, TargetApart DEF FileInv, Calm
  <2>5. /\ Full(buf, f, loose)
        /\ \A fld \in Fields :
             Writes(job[w], Head(job[w].todo), fld) \/ Right(file[f], f, fld, loose) =>
               Right(buf, f, fld, loose)
    BY <1>1, <1>2, <1>3, <2>3, RewrittenRight DEF Calm, buf
  <2>6. \A fld \in Fields :
          Writes(job[w], Head(job[w].todo), fld) \/ ~Pending(w, f, fld) =>
            Right(buf, f, fld, loose)
    BY <2>4, <2>5
  <2> QED
    BY <1>1, <1>3, <2>5, <2>6, TakeCalm
<1>4. CASE f # Target(w)
  <2>1. /\ job'[w].pc = "open" /\ job'[w].todo = job[w].todo
        /\ job'[w].kind = job[w].kind /\ job'[w].new = job[w].new
        /\ \A x \in Workers : x # w => job'[x] = job[x]
    BY <1>1, StaysAt
  <2> QED
    BY <1>1, <1>4, <2>1, ElsewhereCalm
<1> QED
  BY <1>3, <1>4

LEMMA OpenCalm ==
  ASSUME TypeInv, NEW f \in Files, NEW loose \in BOOLEAN, Calm(f, loose),
         NEW w \in Workers, OpenConfig(w)
  PROVE  Calm(f, loose)'
<1> DEFINE buf == job[w].buf
<1>1. /\ job[w].pc = "open" /\ PORTS' = PORTS /\ file' = [file EXCEPT ![Target(w)] = Empty]
  BY DEF OpenConfig
<1>2. job' = [job EXCEPT ![w].buf = buf, ![w].pc = "write"]
  <2>1. job[w] \in Jobs
    BY DEF TypeInv, TypeOK
  <2>2. [job[w] EXCEPT !.pc = "write"] = [job[w] EXCEPT !.buf = job[w].buf, !.pc = "write"]
    BY <2>1 DEF Jobs
  <2> QED
    BY <2>2 DEF OpenConfig, TypeInv, TypeOK
<1> HIDE DEF buf
<1>3. CASE f = Target(w)
  <2>1. Carried(w, f, loose) /\ InHand(w, f)
    BY <1>1, <1>3 DEF Calm, InHand
  <2> QED
    BY <1>1, <1>2, <1>3, <2>1, TakeCalm DEF Carried, buf
<1>4. CASE f # Target(w)
  <2>1. /\ job'[w].pc = "write" /\ job'[w].todo = job[w].todo
        /\ job'[w].kind = job[w].kind /\ job'[w].new = job[w].new
        /\ \A x \in Workers : x # w => job'[x] = job[x]
    BY <1>1, <1>2, StaysAt
  <2>2. file'[f] = file[f]
    BY <1>1, <1>4 DEF TypeInv, TypeOK
  <2> QED
    BY <1>1, <1>4, <2>1, <2>2, ElsewhereCalm
<1> QED
  BY <1>3, <1>4

(* What a thread that turns to its next edit still has before it. *)
LEMMA AfterEdit ==
  ASSUME TypeInv, NEW w \in Workers, job[w].pc \in {"read", "open", "write"}, NextEdit(w),
         NEW f, f = Target(w)
  PROVE  /\ \A x \in Workers : x # w => job'[x] = job[x]
         /\ \A g : ~InHand(w, g)' /\ (Has(w, g)' => Has(w, g))
         /\ \A fld : \/ Writes(job[w], Head(job[w].todo), fld)
                   \/ Pending(w, f, fld)'
                   \/ ~Pending(w, f, fld)
         /\ Working(w)' => job'[w].kind = "ports" /\ job[w].kind = "ports"
         /\ \A g : Fresh(w, g) => Fresh(w, g)' \/ PORTS' # PORTS
<1> DEFINE rest == Tail(job[w].todo)
<1>1. /\ \A x \in Workers : x # w => job'[x] = job[x]
      /\ rest = <<>> => job'[w].pc = "idle"
      /\ rest # <<>> =>
           /\ job'[w].pc = "read" /\ job'[w].todo = rest
           /\ job'[w].kind = job[w].kind /\ job'[w].new = job[w].new
  BY NextEditTyped
<1>2. /\ job[w].todo \in Seq(Edits) /\ job[w].todo # <<>> /\ Working(w)
      /\ EditsIn(job[w].todo) = {Head(job[w].todo)} \cup EditsIn(rest)
  BY AtFile, EditsInTail, TargetPlanned
<1>3. \A e \in EditsIn(rest) : rest # <<>>
  BY DEF EditsIn
<1>4. Working(w)' => rest # <<>>
  BY <1>1 DEF Working
<1>5. rest # <<>> => job[w].kind = "ports"
  <2> SUFFICES ASSUME job[w].kind # "ports" PROVE rest = <<>>
    OBVIOUS
  <2>1. job[w].todo = <<Edit("httpd.conf", "apache")>>
    BY DEF TypeInv, Formed
  <2>2. \A e : Tail(<<e>>) = <<>>
    OBVIOUS
  <2> QED
    BY <2>1, <2>2
<1> HIDE DEF rest
<1>6. \A g : ~InHand(w, g)'
  BY <1>1 DEF InHand
<1>7. ASSUME NEW g, Has(w, g)' PROVE Has(w, g)
  <2>1. g \in FilesOf(rest)
    BY <1>1, <1>4, <1>7 DEF Has
  <2>2. PICK e \in EditsIn(rest) : e.file = g
    BY <2>1, EditOfFile
  <2>3. e.file \in FilesOf(job[w].todo)
    BY <1>2, <2>2, FileOfEdit
  <2> QED
    BY <1>2, <2>2, <2>3 DEF Has
<1>8. ASSUME NEW fld, ~Writes(job[w], Head(job[w].todo), fld), Pending(w, f, fld)
      PROVE  Pending(w, f, fld)'
  <2>1. PICK e \in EditsIn(job[w].todo) : e.file = f /\ Writes(job[w], e, fld)
    BY <1>8 DEF Pending
  <2>2. e \in EditsIn(rest)
    BY <1>2, <1>8, <2>1
  <2>3. rest # <<>> /\ Working(w)'
    BY <1>1, <1>3, <2>2 DEF Working
  <2>4. Writes(job'[w], e, fld) /\ e \in EditsIn(job'[w].todo)
    BY <1>1, <2>1, <2>2, <2>3 DEF Writes
  <2>5. \E e1 \in EditsIn(job'[w].todo) : e1.file = f /\ Writes(job'[w], e1, fld)
    BY <2>1, <2>4
  <2> QED
    BY <2>3, <2>5 DEF Pending
<1>9. ASSUME NEW g, Fresh(w, g), PORTS' = PORTS PROVE Fresh(w, g)'
  BY <1>1, <1>2, <1>4, <1>9 DEF Fresh
<1> QED
  BY <1>1, <1>4, <1>5, <1>6, <1>7, <1>8, <1>9

LEMMA WriteCalm ==
  ASSUME TypeInv, NEW f \in Files, NEW loose \in BOOLEAN, Calm(f, loose),
         NEW w \in Workers, WriteConfig(w)
  PROVE  Calm(f, loose)'
<1>1. /\ job[w].pc = "write" /\ PORTS' = PORTS /\ NextEdit(w)
      /\ file' = [file EXCEPT ![Target(w)] = job[w].buf]
  BY DEF WriteConfig
<1>2. CASE f = Target(w)
  <2>1. /\ \A x \in Workers : x # w => job'[x] = job[x]
        /\ \A g : ~InHand(w, g)' /\ (Has(w, g)' => Has(w, g))
        /\ \A fld : \/ Writes(job[w], Head(job[w].todo), fld)
                   \/ Pending(w, f, fld)'
                   \/ ~Pending(w, f, fld)
        /\ \A g : Fresh(w, g) => Fresh(w, g)' \/ PORTS' # PORTS
    BY <1>1, <1>2, AfterEdit
  <2>2. /\ Full(job[w].buf, f, loose)
        /\ \A fld \in Fields :
             Writes(job[w], Head(job[w].todo), fld) \/ ~Pending(w, f, fld) =>
               Right(job[w].buf, f, fld, loose)
    BY <1>1, <1>2 DEF Calm, Carried, InHand
  <2>3. file'[f] = job[w].buf
    BY <1>1, <1>2 DEF TypeInv, TypeOK
  <2>4. ApartAt(f)'
    BY <2>1, OtherThread DEF Calm, ApartAt
  <2>5. ASSUME NEW x \in Workers PROVE Fresh(x, f)' /\ Carried(x, f, loose)'
    <3>1. CASE x = w
      BY <1>1, <2>1, <3>1 DEF Carried, Calm
    <3>2. CASE x # w
      BY <1>1, <2>1, <3>2, OtherThread DEF Calm
    <3> QED
      BY <3>1, <3>2
  <2>6. \A fld \in Fields : ~Pending(w, f, fld)' => Right(job[w].buf, f, fld, loose)
    BY <2>1, <2>2
  <2>7. FileInv(f, loose)'
    BY <1>1, <2>2, <2>3, <2>6 DEF FileInv, Full, Right
  <2> QED
    BY <2>4, <2>5, <2>7 DEF Calm
<1>3. CASE f # Target(w)
  <2>1. file'[f] = file[f] /\ \A x \in Workers : x # w => job'[x] = job[x]
    BY <1>1, <1>3, NextEditTyped DEF TypeInv, TypeOK
  <2> QED
    BY <1>1, <1>3, <2>1, ElsewhereCalm
<1> QED
  BY <1>2, <1>3

(* An edit that fails harms its own file only. *)
LEMMA FailureCalm ==
  ASSUME TypeInv, NEW f \in Files, NEW loose \in BOOLEAN, Calm(f, loose),
         NEW w \in Workers, EditSkipped(w) \/ EditCut(w), f # Target(w)
  PROVE  Calm(f, loose)'
<1>1. job[w].pc \in {"read", "open", "write"} /\ NextEdit(w) /\ PORTS' = PORTS
  BY DEF EditSkipped, EditCut
<1>2. file'[f] = file[f]
  BY DEF EditSkipped, EditCut, TypeInv, TypeOK
<1>3. \A x \in Workers : x # w => job'[x] = job[x]
  BY <1>1, NextEditTyped
<1> QED
  BY <1>1, <1>2, <1>3, ElsewhereCalm

LEMMA StillCalm ==
  ASSUME NEW f \in Files, NEW loose \in BOOLEAN, Calm(f, loose), UNCHANGED <<PORTS, job>>,
         file'[f] = file[f]
  PROVE  Calm(f, loose)'
<1>1. ApartAt(f)' /\ FileInv(f, loose)'
  BY OtherThread DEF Calm, ApartAt, FileInv, Right
<1>2. \A x \in Workers : Fresh(x, f)' /\ Carried(x, f, loose)'
  BY OtherThread DEF Calm
<1> QED
  BY <1>1, <1>2 DEF Calm

(* A session that begins with the ports of the last one finds right what   *)
(* nobody had still to rewrite.                                            *)
LEMMA RestartCalm ==
  ASSUME TypeInv, NEW f \in Files, NEW loose \in BOOLEAN, Calm(f, loose),
         f \notin Unfinished, PORTS' = PORTS, file'[f] = file[f],
         job' = [w \in Workers |-> NoJob]
  PROVE  Calm(f, loose)'
<1>1. \A w \in Workers : job'[w].pc = "idle"
  BY DEF NoJob
<1>2. \A w \in Workers : ~Working(w)' /\ ~InHand(w, f)' /\ ~Has(w, f)'
  BY <1>1 DEF Working, InHand, Has
<1>3. \A w \in Workers : ~InHand(w, f) /\ \A fld : ~Pending(w, f, fld)
  BY InHandHas, PendingHas, HasUnfinished
<1>4. ApartAt(f)' /\ \A w \in Workers : Fresh(w, f)' /\ Carried(w, f, loose)'
  BY <1>2 DEF ApartAt, Fresh, Carried
<1>5. FileInv(f, loose)'
  BY <1>3 DEF Calm, FileInv, Right
<1> QED
  BY <1>4, <1>5 DEF Calm

-----------------------------------------------------------------------------
(* FilesFollowPorts *)

(* ports_config.json follows PORTS but while a thread saves.               *)
SaveInv ==
  /\ saving \/ "ports_config.json" \in harmed \/ load_ports = PORTS
  /\ saving => \E w \in Workers : job[w].pc = "save"

FollowInv ==
  /\ TypeInv /\ SaveInv
  /\ \A f \in Files \ harmed : Calm(f, FALSE)

LEMMA InitFollows == Init => FollowInv
<1> SUFFICES ASSUME Init PROVE SaveInv /\ \A f \in Files : Calm(f, FALSE)
  BY InitType DEF FollowInv
<1>1. \A s \in Services : DefaultPorts[s] # Nothing
  BY PortSettingsAssumption
<1>2. \A w \in Workers : job[w].pc = "idle"
  BY DEF Init, NoJob
<1>3. SaveInv
  BY DEF Init, SaveInv, load_ports
<1>4. ASSUME NEW f \in Files PROVE Calm(f, FALSE)
  <2>1. Full(file[f], f, FALSE)
    BY <1>1 DEF Init, Said, Full, Files, Services
  <2>2. \A w \in Workers : ~Working(w) /\ ~InHand(w, f) /\ ~Has(w, f)
    BY <1>2 DEF Working, InHand, Has
  <2>3. FileInv(f, FALSE)
    BY <2>1 DEF FileInv, Init, Right
  <2>4. ApartAt(f) /\ \A w \in Workers : Fresh(w, f) /\ Carried(w, f, FALSE)
    BY <2>2 DEF ApartAt, Fresh, Carried
  <2> QED
    BY <2>3, <2>4 DEF Calm
<1> QED
  BY <1>3, <1>4

(* The saved ports: whoever does not save leaves them, and PORTS, alone.   *)
LEMMA SaveStays ==
  ASSUME SaveInv, UNCHANGED <<PORTS, portsFile, saving>>, harmed \subseteq harmed',
         \A w \in Workers : job[w].pc = "save" => job'[w].pc = "save"
  PROVE  SaveInv'
BY DEF SaveInv, load_ports

LEMMA NextSaves == TypeInv /\ SaveInv /\ [Next]_vars => SaveInv'
<1> SUFFICES ASSUME TypeInv, SaveInv, [Next]_vars PROVE SaveInv'
  OBVIOUS
<1>0. job \in [Workers -> Jobs] /\ PORTS \in Settings
  BY DEF TypeInv, TypeOK
<1>1. ASSUME NEW w \in Workers, NEW new \in Settings, save_port_settings(w, new) PROVE SaveInv'
  <2>1. job'[w].pc = "save"
    BY <1>1, ChangeTyped
  <2> QED
    BY <1>1, <2>1 DEF save_port_settings, SaveInv
<1>2. ASSUME NEW w \in Workers, NEW new \in Settings, SettingsUnsaved(w, new) PROVE SaveInv'
  BY <1>2 DEF SettingsUnsaved, ChangePorts, Harm, SaveInv
<1>3. ASSUME NEW w \in Workers, save_ports(w) PROVE SaveInv'
  <2>1. portsFile' = PORTS /\ PORTS' = PORTS /\ saving' = FALSE
    BY <1>3 DEF save_ports, AfterSave
  <2>2. PORTS # Nothing
    BY <1>0, PortSettingsAssumption
  <2> QED
    BY <2>1, <2>2 DEF SaveInv, load_ports
<1>4. ASSUME NEW w \in Workers, SavePortsFails(w) PROVE SaveInv'
  BY <1>4 DEF SavePortsFails, AfterSave, Harm, SaveInv
<1>5. ASSUME NEW w \in Workers, StartApache(w) PROVE SaveInv'
  <2>1. \A x \in Workers : job[x].pc = "save" => job'[x].pc = "save"
    BY <1>5, StartApacheTyped DEF StartApache, Working
  <2> QED
    BY <1>5, <2>1, SaveStays DEF StartApache
<1>6. ASSUME NEW w \in Workers, ReadConfig(w) \/ OpenConfig(w) PROVE SaveInv'
  <2>1. \A x \in Workers : job[x].pc = "save" => job'[x].pc = "save"
    BY <1>0, <1>6 DEF ReadConfig, OpenConfig
  <2> QED
    BY <1>6, <2>1, SaveStays DEF ReadConfig, OpenConfig
<1>7. ASSUME NEW w \in Workers, WriteConfig(w) \/ EditSkipped(w) \/ EditCut(w) PROVE SaveInv'
  <2>1. /\ job[w].pc \in {"read", "open", "write"} /\ NextEdit(w)
        /\ UNCHANGED <<PORTS, portsFile, saving>> /\ harmed \subseteq harmed'
    BY <1>7 DEF WriteConfig, EditSkipped, EditCut, Harm
  <2>2. \A x \in Workers : job[x].pc = "save" => job'[x].pc = "save"
    BY <2>1, NextEditTyped
  <2> QED
    BY <2>1, <2>2, SaveStays
<1>8. CASE AppCrash \/ Relaunch
  <2>1. ~saving'
    BY <1>8 DEF AppCrash, Relaunch, SaveInv, Working
  <2>2. PORTS' = load_ports /\ portsFile' = portsFile
    BY <1>8 DEF AppCrash, Relaunch, Restarted
  <2> QED
    BY <2>1, <2>2 DEF SaveInv, load_ports
<1>9. CASE UNCHANGED vars
  BY <1>9, SaveStays DEF vars
<1> QED
  BY <1>1, <1>2, <1>3, <1>4, <1>5, <1>6, <1>7, <1>8, <1>9 DEF Next, WorkerStep, Quiet

LEMMA NextFollows == FollowInv /\ [Next]_vars => FollowInv'
<1> SUFFICES ASSUME FollowInv, [Next]_vars PROVE FollowInv'
  OBVIOUS
<1>1. TypeInv /\ TypeInv' /\ SaveInv'
  BY NextType, NextSaves DEF FollowInv
<1> SUFFICES ASSUME NEW f \in Files, f \notin harmed' PROVE Calm(f, FALSE)'
  BY <1>1 DEF FollowInv
<1>2. f # "ports_config.json" /\ (f \notin harmed => Calm(f, FALSE)) /\ FALSE \in BOOLEAN
  BY DEF Files, FollowInv
<1>3. ASSUME NEW w \in Workers, NEW new \in Settings,
             save_port_settings(w, new) \/ SettingsUnsaved(w, new)
      PROVE  Calm(f, FALSE)'
  <2>1. f \notin harmed /\ f \notin Shared(Plan(PORTS, new))
    BY <1>3 DEF save_port_settings, SettingsUnsaved, ChangePorts, Harm
  <2> QED
    BY <1>1, <1>2, <1>3, <2>1, ChangeCalm
<1>4. ASSUME NEW w \in Workers, save_ports(w) \/ SavePortsFails(w) PROVE Calm(f, FALSE)'
  <2>1. f \notin harmed /\ AfterSave(w)
    BY <1>2, <1>4 DEF save_ports, SavePortsFails, Harm
  <2> QED
    BY <1>1, <1>2, <2>1, AfterSaveCalm
<1>5. ASSUME NEW w \in Workers, StartApache(w) PROVE Calm(f, FALSE)'
  <2>1. f \notin harmed /\ f \notin Shared(<<Edit("httpd.conf", "apache")>>)
    BY <1>5 DEF StartApache
  <2> QED
    BY <1>1, <1>2, <1>5, <2>1, StartApacheCalm
<1>6. ASSUME NEW w \in Workers, ReadConfig(w) \/ OpenConfig(w) \/ WriteConfig(w)
      PROVE  Calm(f, FALSE)'
  <2>1. f \notin harmed
    BY <1>6 DEF ReadConfig, OpenConfig, WriteConfig
  <2> QED
    BY <1>1, <1>2, <1>6, <2>1, ReadCalm, OpenCalm, WriteCalm
<1>7. ASSUME NEW w \in Workers, EditSkipped(w) \/ EditCut(w) PROVE Calm(f, FALSE)'
  <2>1. f \notin harmed /\ f # Target(w)
    BY <1>7 DEF EditSkipped, EditCut, Harm
  <2> QED
    BY <1>1, <1>2, <1>7, <2>1, FailureCalm
<1>8. CASE AppCrash \/ Relaunch
  <2>1. f \notin HarmedNext /\ PORTS' = load_ports /\ file' = file
        /\ job' = [w \in Workers |-> NoJob]
    BY <1>8 DEF AppCrash, Relaunch, Restarted
  <2>2. f \notin Unfinished /\ load_ports = PORTS /\ f \notin harmed
    BY <1>2, <2>1 DEF HarmedNext
  <2> QED
    BY <1>1, <1>2, <2>1, <2>2, RestartCalm
<1>9. CASE UNCHANGED vars
  BY <1>2, <1>9, StillCalm DEF vars
<1> QED
  BY <1>3, <1>4, <1>5, <1>6, <1>7, <1>8, <1>9 DEF Next, WorkerStep, Quiet

LEMMA FollowImplies == FollowInv => FilesFollowPorts
<1> SUFFICES ASSUME FollowInv, Rest
             PROVE  /\ \A f \in Files \ harmed : file[f] = Said(PORTS)[f]
                    /\ "ports_config.json" \in harmed \/ load_ports = PORTS
  BY DEF FilesFollowPorts
<1>1. "ports_config.json" \in harmed \/ load_ports = PORTS
  BY DEF FollowInv, SaveInv, Rest, Working
<1>2. ASSUME NEW f \in Files \ harmed PROVE file[f] = Said(PORTS)[f]
  <2>1. \A w \in Workers : ~InHand(w, f) /\ \A fld : ~Pending(w, f, fld)
    BY DEF Rest, InHand, Pending, Working
  <2>2. \A fld \in Fields : Right(file[f], f, fld, FALSE)
    BY <2>1 DEF FollowInv, Calm, FileInv
  <2>3. file[f].listen = Said(PORTS)[f].listen /\ file[f].fcgi = Said(PORTS)[f].fcgi
    BY <2>2 DEF Fields, Right
  <2>4. file[f] \in Contents
    BY DEF FollowInv, TypeInv, TypeOK
  <2>5. Said(PORTS)[f] = [listen |-> Said(PORTS)[f].listen, fcgi |-> Said(PORTS)[f].fcgi]
    BY DEF Said, Files
  <2> QED
    BY <2>3, <2>4, <2>5 DEF Contents
<1> QED
  BY <1>1, <1>2

(* Whatever fails, is killed or meets another thread: once nobody is at    *)
(* work, every configuration file that this did not happen to says the     *)
(* ports in use, for any number of threads and any ports; an error in one  *)
(* file, which update_*_config passes over (app.py:117, 130, 143, 157,     *)
(* 168), never spoils another.                                             *)
THEOREM ConfigurationsAgree == Spec => []FilesFollowPorts
BY InitFollows, NextFollows, FollowImplies, PTL DEF Spec

-----------------------------------------------------------------------------
(* ApacheStartRepairs *)

(* A start of Apache that nobody shares httpd.conf with. *)
Begun(w) ==
  /\ Working(w) /\ job[w].kind = "apache"
  /\ \A x \in Workers : Has(x, Httpd) => x = w
  /\ Carried(w, Httpd, TRUE)

RepairInv ==
  /\ TypeInv
  /\ mending = "begun" => \E w \in Workers : Begun(w)
  /\ mending = "done" => Calm(Httpd, TRUE)

LEMMA HttpdFile == Httpd \in Files
BY DEF Httpd, Files

(* What a start of Apache has to do. *)
LEMMA ApacheHas ==
  ASSUME TypeInv, NEW w \in Workers, Working(w), job[w].kind = "apache"
  PROVE  /\ Has(w, Httpd) /\ FilesOf(job[w].todo) = {Httpd}
         /\ job[w].todo = <<Edit("httpd.conf", "apache")>>
         /\ Head(job[w].todo) = Edit("httpd.conf", "apache")
         /\ Target(w) = Httpd /\ \A fld : Writes(job[w], Head(job[w].todo), fld)
<1>1. job[w].todo = <<Edit("httpd.conf", "apache")>>
  BY DEF TypeInv, Formed, Working
<1>2. Head(job[w].todo) = Edit("httpd.conf", "apache") /\ FilesOf(job[w].todo) = {Httpd}
  BY <1>1 DEF FilesOf, Edit, Httpd
<1> QED
  BY <1>1, <1>2 DEF Has, Target, Edit, Httpd, Writes

(* A step that leaves the thread that has begun alone and brings nobody to *)
(* httpd.conf.                                                             *)
LEMMA BegunKept ==
  ASSUME NEW w \in Workers, Begun(w), job'[w] = job[w],
         Said(PORTS)'[Httpd] = Said(PORTS)[Httpd],
         \A x \in Workers : Has(x, Httpd)' => x = w \/ Has(x, Httpd)
  PROVE  Begun(w)'
<1>1. /\ Working(w)' <=> Working(w)
      /\ InHand(w, Httpd)' <=> InHand(w, Httpd)
      /\ \A fld : Pending(w, Httpd, fld)' <=> Pending(w, Httpd, fld)
  BY OtherThread
<1>2. Carried(w, Httpd, TRUE)'
  BY <1>1 DEF Begun, Carried, Right
<1> QED
  BY <1>1, <1>2 DEF Begun

LEMMA ChangeBegun ==
  ASSUME TypeInv, NEW w \in Workers, Begun(w), NEW x \in Workers, NEW new \in Settings,
         save_port_settings(x, new) \/ SettingsUnsaved(x, new),
         Httpd \notin Shared(Plan(PORTS, new))
  PROVE  Begun(w)'
<1>1. ~Working(x) /\ PORTS' = new
  BY DEF save_port_settings, SettingsUnsaved, ChangePorts
<1>2. /\ \A y \in Workers : y # x => job'[y] = job[y]
      /\ job'[x].pc # "idle" => job'[x].todo = Plan(PORTS, new)
  BY ChangeTyped
<1>3. Httpd \notin FilesOf(Plan(PORTS, new))
  BY ApacheHas, HasUnfinished DEF Begun, Shared
<1>4. x # w
  BY <1>1 DEF Begun
<1>5. ~Has(x, Httpd)'
  BY <1>2, <1>3 DEF Has, Working
<1>6. \A fld \in Fields : Said(PORTS)[Httpd][fld] = Said(new)[Httpd][fld]
  BY <1>3, HttpdFile, ChangePlanned, FileOfEdit
<1>7. \A p : Said(p)[Httpd] = [listen |-> Said(p)[Httpd].listen, fcgi |-> Said(p)[Httpd].fcgi]
  BY DEF Said, Httpd, Files
<1>8. Said(PORTS)'[Httpd] = Said(PORTS)[Httpd]
  <2>1. /\ Said(PORTS)[Httpd].listen = Said(new)[Httpd].listen
        /\ Said(PORTS)[Httpd].fcgi = Said(new)[Httpd].fcgi
    BY <1>6 DEF Fields
  <2>2. Said(new)[Httpd] = Said(PORTS)[Httpd]
    BY <1>7, <2>1
  <2> QED
    BY <1>1, <2>2
<1> QED
  BY <1>2, <1>4, <1>5, <1>8, OtherThread, BegunKept

LEMMA AfterSaveBegun ==
  ASSUME TypeInv, NEW w \in Workers, Begun(w), NEW x \in Workers, AfterSave(x)
  PROVE  Begun(w)'
<1>1. /\ job[x].pc = "save" /\ PORTS' = PORTS
      /\ \A y \in Workers : y # x => job'[y] = job[y]
      /\ job[x].todo = <<>> => job'[x].pc = "idle"
      /\ job[x].todo # <<>> =>
           /\ job'[x].pc = "read" /\ job'[x].todo = job[x].todo
           /\ job'[x].kind = job[x].kind /\ job'[x].new = job[x].new
  BY AfterSaveTyped DEF AfterSave
<1>2. Has(x, Httpd)' => Has(x, Httpd)
  BY <1>1 DEF Has, Working
<1>3. CASE x # w
  BY <1>1, <1>2, <1>3, OtherThread, BegunKept
<1>4. CASE x = w
  <2>1. job[w].todo # <<>>
    BY ApacheHas DEF Begun
  <2>2. job'[w].pc = "read" /\ job'[w].kind = "apache"
    BY <1>1, <1>4, <2>1 DEF Begun
  <2>3. Working(w)' /\ ~InHand(w, Httpd)'
    BY <2>2 DEF Working, InHand
  <2>4. \A y \in Workers : Has(y, Httpd)' => y = w
    BY <1>1, <1>4, OtherThread DEF Begun
  <2> QED
    BY <2>2, <2>3, <2>4 DEF Begun, Carried
<1> QED
  BY <1>3, <1>4

LEMMA StartBegins ==
  ASSUME TypeInv, NEW w \in Workers, StartApache(w), mending' = "begun"
  PROVE  Begun(w)'
<1>1. Shared(<<Edit("httpd.conf", "apache")>>) = {}
  BY DEF StartApache
<1>2. Httpd \notin Unfinished
  BY <1>1 DEF Shared, FilesOf, Edit, Httpd
<1>3. /\ \A x \in Workers : x # w => job'[x] = job[x]
      /\ job'[w].pc = "read" /\ job'[w].kind = "apache"
  BY StartApacheTyped
<1>4. Working(w)' /\ ~InHand(w, Httpd)'
  BY <1>3 DEF Working, InHand
<1>5. \A x \in Workers : Has(x, Httpd)' => x = w
  BY <1>2, <1>3, OtherThread, HasUnfinished
<1> QED
  BY <1>3, <1>4, <1>5 DEF Begun, Carried

(* The begun thread reads and empties its file, or another does so with    *)
(* another file.                                                           *)
LEMMA TakesBegun ==
  ASSUME TypeInv, NEW w \in Workers, Begun(w), PORTS' = PORTS,
         NEW x \in Workers, job[x].pc \in {"read", "open", "write"},
         NEW pc \in {"open", "write"}, NEW buf,
         job' = [job EXCEPT ![x].buf = buf, ![x].pc = pc],
         x = w => Full(buf, Httpd, TRUE) /\ \A fld \in Fields : Right(buf, Httpd, fld, TRUE)
  PROVE  Begun(w)'
<1>1. /\ job'[x].buf = buf /\ job'[x].kind = job[x].kind
      /\ \A y \in Workers : y # x => job'[y] = job[y]
      /\ Working(x)' /\ (Has(x, Httpd)' <=> Has(x, Httpd))
  BY StaysAt
<1>2. CASE x # w
  BY <1>1, <1>2, BegunKept, OtherThread
<1>3. CASE x = w
  <2>1. Carried(w, Httpd, TRUE)'
    BY <1>1, <1>3 DEF Carried, Full, Right
  <2>2. \A y \in Workers : Has(y, Httpd)' => y = w
    BY <1>1, <1>3, OtherThread DEF Begun
  <2> QED
    BY <1>1, <1>3, <2>1, <2>2 DEF Begun
<1> QED
  BY <1>2, <1>3

LEMMA ReadBegun ==
  ASSUME TypeInv, NEW w \in Workers, Begun(w), NEW x \in Workers, ReadConfig(x)
  PROVE  Begun(w)'
<1> DEFINE buf == Rewritten(x, file[Target(x)])
<1>1. job[x].pc = "read" /\ job' = [job EXCEPT ![x].buf = buf, ![x].pc = "open"] /\ PORTS' = PORTS
  BY DEF ReadConfig
<1>2. ASSUME x = w
      PROVE  Full(buf, Httpd, TRUE) /\ \A fld \in Fields : Right(buf, Httpd, fld, TRUE)
  <2>1. file[Httpd] \in Contents
    BY HttpdFile DEF TypeInv, TypeOK
  <2>2. job[w].pc = "read" /\ job[w].kind = "apache" /\ TRUE \in BOOLEAN
    BY <1>1, <1>2 DEF Begun
  <2>3. Target(w) = Httpd /\ (\A fld : Writes(job[w], Head(job[w].todo), fld)) /\ Fresh(w, Target(w))
    BY ApacheHas DEF Begun, Fresh
  <2>4. buf = Rewritten(w, file[Httpd])
    BY <1>2, <2>3
  <2> HIDE DEF buf
  <2>5. /\ Full(buf, Target(w), TRUE)
        /\ \A fld \in Fields :
             Writes(job[w], Head(job[w].todo), fld) \/ Right(file[Httpd], Target(w), fld, TRUE)
               => Right(buf, Target(w), fld, TRUE)
    BY <2>1, <2>2, <2>3, <2>4, RewrittenRight
  <2> QED
    BY <2>3, <2>5
<1> HIDE DEF buf
<1> QED
  BY <1>1, <1>2, TakesBegun

LEMMA OpenBegun ==
  ASSUME TypeInv, NEW w \in Workers, Begun(w), NEW x \in Workers, OpenConfig(x)
  PROVE  Begun(w)'
<1> DEFINE buf == job[x].buf
<1>1. job[x].pc = "open" /\ job[x] \in Jobs /\ PORTS' = PORTS
  BY DEF OpenConfig, TypeInv, TypeOK
<1>2. job' = [job EXCEPT ![x].buf = buf, ![x].pc = "write"]
  <2>1. [job[x] EXCEPT !.pc = "write"] = [job[x] EXCEPT !.buf = job[x].buf, !.pc = "write"]
    BY <1>1 DEF Jobs
  <2> QED
    BY <2>1 DEF OpenConfig, TypeInv, TypeOK
<1>3. ASSUME x = w
      PROVE  Full(buf, Httpd, TRUE) /\ \A fld \in Fields : Right(buf, Httpd, fld, TRUE)
  <2>1. Target(w) = Httpd /\ \A fld : Writes(job[w], Head(job[w].todo), fld)
    BY ApacheHas DEF Begun
  <2> QED
    BY <1>1, <1>3, <2>1 DEF Begun, Carried, InHand
<1> HIDE DEF buf
<1> QED
  BY <1>1, <1>2, <1>3, TakesBegun

(* Another thread turns to its next edit. *)
LEMMA NextEditBegun ==
  ASSUME TypeInv, NEW w \in Workers, Begun(w), NEW x \in Workers, x # w,
         job[x].pc \in {"read", "open", "write"}, NextEdit(x), PORTS' = PORTS
  PROVE  Begun(w)'
<1>1. /\ \A y \in Workers : y # x => job'[y] = job[y]
      /\ Has(x, Httpd)' => Has(x, Httpd)
  BY AfterEdit
<1> QED
  BY <1>1, BegunKept, OtherThread

LEMMA WriteMends ==
  ASSUME TypeInv, NEW w \in Workers, Begun(w), WriteConfig(w)
  PROVE  Calm(Httpd, TRUE)'
<1>1. /\ job[w].pc = "write" /\ PORTS' = PORTS /\ NextEdit(w)
      /\ file' = [file EXCEPT ![Target(w)] = job[w].buf]
  BY DEF WriteConfig
<1>2. Target(w) = Httpd /\ \A fld : Writes(job[w], Head(job[w].todo), fld)
  BY ApacheHas DEF Begun
<1>3. /\ \A x \in Workers : x # w => job'[x] = job[x]
      /\ ~Working(w)'
  BY <1>1, AfterEdit DEF Begun
<1>4. /\ Full(job[w].buf, Httpd, TRUE)
      /\ \A fld \in Fields : Right(job[w].buf, Httpd, fld, TRUE)
  BY <1>1, <1>2 DEF Begun, Carried, InHand
<1>5. file'[Httpd] = job[w].buf
  BY <1>1, <1>2, HttpdFile DEF TypeInv, TypeOK
<1>6. FileInv(Httpd, TRUE)'
  BY <1>1, <1>4, <1>5 DEF FileInv, Full, Right
<1>7. ASSUME NEW x \in Workers
      PROVE  ~Has(x, Httpd)' /\ Fresh(x, Httpd)' /\ Carried(x, Httpd, TRUE)'
  <2>1. CASE x = w
    BY <1>3, <2>1 DEF Has, Fresh, Carried, InHand, Working
  <2>2. CASE x # w
    <3>1. ~Has(x, Httpd) /\ ~InHand(x, Httpd)
      BY <2>2, InHandHas DEF Begun
    <3>2. ~Has(x, Httpd)' /\ ~InHand(x, Httpd)'
      BY <1>3, <2>2, <3>1, OtherThread
    <3>3. Fresh(x, Httpd)'
      BY <3>2, FileOfEdit DEF Fresh, Has
    <3> QED
      BY <3>2, <3>3 DEF Carried
  <2> QED
    BY <2>1, <2>2
<1> QED
  BY <1>6, <1>7 DEF Calm, ApartAt

LEMMA NextRepairs == RepairInv /\ [Next]_vars => RepairInv'
<1> SUFFICES ASSUME RepairInv, [Next]_vars
             PROVE  /\ mending' = "begun" => \E w \in Workers : Begun(w)'
                    /\ mending' = "done" => Calm(Httpd, TRUE)'
  BY NextType DEF RepairInv
<1>0. TypeInv /\ TRUE \in BOOLEAN /\ Httpd \in Files
  BY HttpdFile DEF RepairInv
<1>1. ASSUME NEW x \in Workers, NEW new \in Settings,
             save_port_settings(x, new) \/ SettingsUnsaved(x, new), mending' # "no"
      PROVE  /\ mending' = "begun" => \E w \in Workers : Begun(w)'
             /\ mending' = "done" => Calm(Httpd, TRUE)'
  <2>1. mending' = mending /\ Httpd \notin Shared(Plan(PORTS, new))
    BY <1>1 DEF save_port_settings, SettingsUnsaved, ChangePorts, Harm, Httpd
  <2> QED
    BY <1>0, <1>1, <2>1, ChangeBegun, ChangeCalm DEF RepairInv
<1>2. ASSUME NEW x \in Workers, save_ports(x) \/ SavePortsFails(x), mending' # "no"
      PROVE  /\ mending' = "begun" => \E w \in Workers : Begun(w)'
             /\ mending' = "done" => Calm(Httpd, TRUE)'
  <2>1. mending' = mending /\ AfterSave(x)
    BY <1>2 DEF save_ports, SavePortsFails, Harm
  <2> QED
    BY <1>0, <2>1, AfterSaveBegun, AfterSaveCalm DEF RepairInv
<1>3. ASSUME NEW x \in Workers, StartApache(x), mending' # "no"
      PROVE  mending' = "begun" /\ Begun(x)'
  BY <1>0, <1>3, StartBegins DEF StartApache
<1>4. ASSUME NEW x \in Workers, ReadConfig(x) \/ OpenConfig(x)
      PROVE  /\ mending' = "begun" => \E w \in Workers : Begun(w)'
             /\ mending' = "done" => Calm(Httpd, TRUE)'
  <2>1. mending' = mending
    BY <1>4 DEF ReadConfig, OpenConfig
  <2> QED
    BY <1>0, <1>4, <2>1, ReadBegun, OpenBegun, ReadCalm, OpenCalm DEF RepairInv
<1>5. ASSUME NEW x \in Workers, WriteConfig(x)
      PROVE  /\ mending' = "begun" => \E w \in Workers : Begun(w)'
             /\ mending' = "done" => Calm(Httpd, TRUE)'
  <2>1. /\ mending' = IF job[x].kind = "apache" /\ mending = "begun" THEN "done" ELSE mending
        /\ job[x].pc = "write" /\ NextEdit(x) /\ PORTS' = PORTS
    BY <1>5 DEF WriteConfig
  <2>2. CASE mending = "begun"
    <3> PICK w \in Workers : Begun(w)
      BY <2>2 DEF RepairInv
    <3>1. CASE job[x].kind = "apache"
      <4>1. Has(x, Httpd)
        BY <1>0, <2>1, <3>1, ApacheHas DEF Working
      <4>2. x = w
        BY <4>1 DEF Begun
      <4> QED
        BY <1>0, <1>5, <2>1, <2>2, <3>1, <4>2, WriteMends
    <3>2. CASE job[x].kind # "apache"
      <4>1. x # w
        BY <3>2 DEF Begun
      <4> QED
        BY <1>0, <2>1, <2>2, <3>2, <4>1, NextEditBegun
    <3> QED
      BY <3>1, <3>2
  <2>3. CASE mending # "begun"
    BY <1>0, <1>5, <2>1, <2>3, WriteCalm DEF RepairInv
  <2> QED
    BY <2>2, <2>3
<1>6. ASSUME NEW x \in Workers, EditSkipped(x) \/ EditCut(x), mending' # "no"
      PROVE  /\ mending' = "begun" => \E w \in Workers : Begun(w)'
             /\ mending' = "done" => Calm(Httpd, TRUE)'
  <2>1. /\ mending' = mending /\ Target(x) # Httpd
        /\ job[x].pc \in {"read", "open", "write"} /\ NextEdit(x) /\ PORTS' = PORTS
    BY <1>6 DEF EditSkipped, EditCut, Harm, Httpd
  <2>2. ASSUME NEW w \in Workers, Begun(w) PROVE Begun(w)'
    <3>1. x # w
      BY <1>0, <2>1, <2>2, ApacheHas DEF Begun
    <3> QED
      BY <1>0, <2>1, <2>2, <3>1, NextEditBegun
  <2> QED
    BY <1>0, <1>6, <2>1, <2>2, FailureCalm DEF RepairInv
<1>7. CASE AppCrash \/ Relaunch
  BY <1>7 DEF AppCrash, Relaunch, Restarted
<1>8. CASE UNCHANGED vars
  <2>1. UNCHANGED <<PORTS, file, job, mending>>
    BY <1>8 DEF vars
  <2>2. ASSUME NEW w \in Workers, Begun(w) PROVE Begun(w)'
    BY <2>1, <2>2, BegunKept, OtherThread
  <2> QED
    BY <1>0, <2>1, <2>2, StillCalm DEF RepairInv
<1> QED
  BY <1>1, <1>2, <1>3, <1>4, <1>5, <1>6, <1>7, <1>8 DEF Next, WorkerStep, Quiet

LEMMA RepairImplies == RepairInv => ApacheStartRepairs
<1> SUFFICES ASSUME RepairInv, Rest, mending = "done"
             PROVE  /\ file["httpd.conf"].listen \in {PORTS["apache"], Nothing}
                    /\ file["httpd.conf"].fcgi = PORTS["php"]
  BY DEF ApacheStartRepairs
<1>1. \A w \in Workers : ~InHand(w, Httpd) /\ \A fld : ~Pending(w, Httpd, fld)
  BY DEF Rest, InHand, Pending, Working
<1>2. Right(file[Httpd], Httpd, "listen", TRUE) /\ Right(file[Httpd], Httpd, "fcgi", TRUE)
  BY <1>1 DEF RepairInv, Calm, FileInv, Fields
<1>3. Said(PORTS)[Httpd] = [listen |-> PORTS["apache"], fcgi |-> PORTS["php"]]
  BY DEF Said, Httpd, Files
<1> QED
  BY <1>2, <1>3 DEF Right, Httpd

LEMMA InitRepairs == Init => RepairInv
BY InitType DEF Init, RepairInv

(* Whatever kills, errors and threads at the same time have left in        *)
(* httpd.conf: once a start of Apache has rewritten it undisturbed, Apache *)
(* listens where the dashboard looks for it or its text has no Listen line *)
(* any more, and it looks for PHP where PHP listens; later changes of      *)
(* ports keep it so until one of them fails on httpd.conf or shares it     *)
(* with another thread (setup_apache_internal, app.py:418).                *)
THEOREM StartOfApacheRepairs == Spec => []ApacheStartRepairs
BY InitRepairs, NextRepairs, RepairImplies, PTL DEF Spec
=============================================================================
