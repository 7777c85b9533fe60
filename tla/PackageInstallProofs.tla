------------------------ MODULE PackageInstallProofs ------------------------
(***************************************************************************)
(* Proofs about PackageInstall for any packages, lists and numbers of      *)
(* events, with every fault.                                               *)
(***************************************************************************)
EXTENDS PackageInstall, FiniteSetTheorems, TLAPS

CardStates == [pc : PCs, pkg : Packages \cup {None}, left : SUBSET Moves]

(* A worker has a package of its card, and extracts items of it. *)
WorkInv ==
  \A c \in Cards :
    /\ ~At(c, "idle") => Pkg(c) \in Of(c)
    /\ At(c, "extract") => card[c].left \subseteq {Pkg(c)} \X ItemsOf(Pkg(c))

TypeInv == TypeOK /\ WorkInv

LEMMA PackageFacts ==
  ASSUME NEW p \in Packages
  PROVE  /\ p[1] \in Cards /\ p \in Of(p[1]) /\ Dir(p) \in Dirs /\ Dir(p)[1] = p[1]
         /\ ItemsOf(p) \subseteq Names /\ Main[p[1]] \in ItemsOf(p) /\ Sample[p[1]] \in ItemsOf(p)
         /\ p # None /\ \A n \in Names : n # None
         /\ p[1] = "php" => Dir(p) = p /\ p \in PhpDirs
<1>1. p[1] \in Cards /\ p \in Of(p[1]) /\ ItemsOf(p) \subseteq Names
  BY DEF Cards, Of, Names
<1>2. Dir(p) \in Dirs /\ Dir(p)[1] = p[1]
  BY DEF Dir, Dirs
<1>3. p # None /\ \A n \in Names : n # None
  BY PackageInstallAssumption
<1> QED
  BY <1>1, <1>2, <1>3 DEF ItemsOf, Dir, PhpDirs

LEMMA CardNames == Cards \subseteq {"nginx", "apache", "mysql", "php", "phpmyadmin"}
BY PackageInstallAssumption

LEMMA MovesFacts ==
  /\ \A p \in Packages, n \in Names \cup {None} : <<p, n>> \in Moves
  /\ \A m \in Moves : m[1] \in Packages /\ m[2] \in Names \cup {None} /\ m = <<m[1], m[2]>>
BY DEF Moves

(* The two ways a worker goes on. *)
LEMMA GoEffect ==
  ASSUME card \in [Cards -> CardStates], NEW c \in Cards, NEW pc \in PCs, Go(c, pc)
  PROVE  /\ card' \in [Cards -> CardStates]
         /\ card'[c].pc = pc /\ card'[c].pkg = Pkg(c) /\ card'[c].left = card[c].left
         /\ \A e \in Cards : e # c => card'[e] = card[e]
<1>1. card[c] \in CardStates
  OBVIOUS
<1>2. card' = [card EXCEPT ![c] = [card[c] EXCEPT !.pc = pc]]
  BY DEF Go
<1>3. [card[c] EXCEPT !.pc = pc] = [pc |-> pc, pkg |-> Pkg(c), left |-> card[c].left]
  BY <1>1 DEF CardStates, Pkg
<1>4. [card[c] EXCEPT !.pc = pc] \in CardStates
  BY <1>1 DEF CardStates
<1> QED
  BY <1>2, <1>3, <1>4

LEMMA GoWithEffect ==
  ASSUME card \in [Cards -> CardStates], NEW c \in Cards, NEW pc \in PCs,
         NEW S \in SUBSET Moves, GoWith(c, pc, S)
  PROVE  /\ card' \in [Cards -> CardStates]
         /\ card'[c].pc = pc /\ card'[c].pkg = Pkg(c) /\ card'[c].left = S
         /\ \A e \in Cards : e # c => card'[e] = card[e]
<1>1. PICK r \in CardStates : r = card[c]
  OBVIOUS
<1>2. card' = [card EXCEPT ![c] = [r EXCEPT !.pc = pc, !.left = S]]
  BY <1>1 DEF GoWith
<1>3. PICK n : n = [r EXCEPT !.pc = pc, !.left = S]
  OBVIOUS
<1>4. n \in CardStates /\ n.pc = pc /\ n.pkg = r.pkg /\ n.left = S
  BY <1>3 DEF CardStates
<1>5. card' = [card EXCEPT ![c] = n]
  BY <1>2, <1>3
<1>6. card' \in [Cards -> CardStates] /\ card'[c] = n /\ \A e \in Cards : e # c => card'[e] = card[e]
  BY <1>4, <1>5
<1> QED
  BY <1>1, <1>4, <1>6 DEF Pkg

(* WorkInv after a step of one worker. *)
LEMMA WorkKept ==
  ASSUME WorkInv, NEW c \in Cards, ~At(c, "idle"), card'[c].pkg = Pkg(c),
         card'[c].pc = "extract" => card'[c].left \subseteq {Pkg(c)} \X ItemsOf(Pkg(c)),
         \A e \in Cards : e # c => card'[e] = card[e]
  PROVE  WorkInv'
BY DEF WorkInv, At, Pkg

TempStates == [dir : BOOLEAN, roots : SUBSET Packages, has : [Packages -> SUBSET Names]]

DiskTypes ==
  /\ dest \in [Dirs -> [Names -> Packages \cup {None}]]
  /\ made \subseteq Dirs /\ ready \subseteq Dirs /\ spoiled \subseteq Dirs
  /\ downloads \in BOOLEAN /\ zips \subseteq Packages
  /\ temp \in TempStates
  /\ running \subseteq Dirs

WindowTypes ==
  /\ offer \in OfferLists
  /\ recorded \in {None} \cup Records
  /\ php \in PhpDirs \cup {None}
  /\ data \in {"none", "half", "whole"} /\ broken \in BOOLEAN
  /\ claim \in [Cards -> {"none", "own", "misled"}]
  /\ events \in 0..MaxEvents

LEMMA TypeParts == TypeOK <=> DiskTypes /\ WindowTypes /\ card \in [Cards -> CardStates]
BY DEF TypeOK, DiskTypes, WindowTypes, CardStates, TempStates

LEMMA AtWork ==
  ASSUME TypeInv, NEW c \in Cards, ~At(c, "idle")
  PROVE  /\ Pkg(c) \in Packages /\ Pkg(c)[1] = c /\ Pkg(c) # None
         /\ Dest(c) \in Dirs /\ Dest(c)[1] = c /\ ItemsOf(Pkg(c)) \subseteq Names
<1>1. Pkg(c) \in Packages /\ Pkg(c)[1] = c
  BY DEF TypeInv, WorkInv, Of
<1> QED
  BY <1>1, PackageFacts DEF Dest

LEMMA GoKeeps ==
  ASSUME TypeInv, NEW c \in Cards, ~At(c, "idle"), NEW pc \in PCs \ {"extract"}, Go(c, pc)
  PROVE  /\ card' \in [Cards -> CardStates] /\ WorkInv'
         /\ card'[c].pc = pc /\ card'[c].pkg = Pkg(c) /\ card'[c].left = card[c].left
         /\ \A e \in Cards : e # c => card'[e] = card[e]
<1>1. card \in [Cards -> CardStates] /\ WorkInv
  BY TypeParts DEF TypeInv
<1>2. /\ card' \in [Cards -> CardStates]
      /\ card'[c].pc = pc /\ card'[c].pkg = Pkg(c) /\ card'[c].left = card[c].left
      /\ \A e \in Cards : e # c => card'[e] = card[e]
  BY <1>1, GoEffect
<1>3. WorkInv'
  BY <1>1, <1>2, WorkKept
<1> QED
  BY <1>2, <1>3

LEMMA GoWithKeeps ==
  ASSUME TypeInv, NEW c \in Cards, ~At(c, "idle"), NEW pc \in PCs, NEW S \in SUBSET Moves,
         GoWith(c, pc, S), pc = "extract" => S \subseteq {Pkg(c)} \X ItemsOf(Pkg(c))
  PROVE  /\ card' \in [Cards -> CardStates] /\ WorkInv'
         /\ card'[c].pc = pc /\ card'[c].pkg = Pkg(c) /\ card'[c].left = S
         /\ \A e \in Cards : e # c => card'[e] = card[e]
<1>1. card \in [Cards -> CardStates] /\ WorkInv
  BY TypeParts DEF TypeInv
<1>2. /\ card' \in [Cards -> CardStates]
      /\ card'[c].pc = pc /\ card'[c].pkg = Pkg(c) /\ card'[c].left = S
      /\ \A e \in Cards : e # c => card'[e] = card[e]
  BY <1>1, GoWithEffect
<1>3. WorkInv'
  BY <1>1, <1>2, WorkKept
<1> QED
  BY <1>2, <1>3

LEMMA EmptyTemp ==
  /\ NoTemp \in TempStates /\ NoTemp.roots = {} /\ NoTemp.dir = FALSE
  /\ \A q \in Packages : NoTemp.has[q] = {}
BY DEF NoTemp, TempStates

LEMMA ExtractEffect ==
  ASSUME TypeInv, NEW c \in Cards, Extract(c)
  PROVE  /\ At(c, "extract") /\ card' \in [Cards -> CardStates] /\ WorkInv'
         /\ UNCHANGED <<dest, made, ready, spoiled, zips, running, data, offer, recorded, php, broken, claim, events>>
         /\ downloads' = TRUE /\ temp' \in TempStates
         /\ \A e \in Cards : e # c => card'[e] = card[e]
         /\ \E n \in ItemsOf(Pkg(c)) :
              /\ <<Pkg(c), n>> \in card[c].left
              /\ card'[c].pkg = Pkg(c) /\ card'[c].left = card[c].left \ {<<Pkg(c), n>>}
              /\ card'[c].pc = IF card'[c].left = {} THEN "list" ELSE "extract"
              /\ temp'.dir = TRUE
              /\ temp'.roots = temp.roots \cup (IF c = "php" THEN {} ELSE {Pkg(c)})
              /\ temp'.has = [temp.has EXCEPT ![Pkg(c)] = @ \cup {n}]
<1>1. /\ At(c, "extract") /\ ~At(c, "idle") /\ downloads' = TRUE
      /\ UNCHANGED <<dest, made, ready, spoiled, zips, running, data, offer, recorded, php, broken, claim, events>>
  BY DEF Extract, OnlyWorkers, At
<1>2. PICK m \in card[c].left :
        /\ GoWith(c, IF card[c].left = {m} THEN "list" ELSE "extract", card[c].left \ {m})
        /\ temp' = [dir   |-> TRUE,
                    roots |-> temp.roots \cup (IF c = "php" THEN {} ELSE {Pkg(c)}),
                    has   |-> [temp.has EXCEPT ![Pkg(c)] = @ \cup {m[2]}]]
  BY DEF Extract
<1>3. card[c].left \subseteq {Pkg(c)} \X ItemsOf(Pkg(c)) /\ card[c].left \in SUBSET Moves
  BY <1>1, TypeParts DEF TypeInv, WorkInv, CardStates
<1>4. PICK n \in ItemsOf(Pkg(c)) : m = <<Pkg(c), n>>
  BY <1>2, <1>3
<1>5. /\ Pkg(c) \in Packages /\ ItemsOf(Pkg(c)) \subseteq Names
  BY <1>1, AtWork
<1> DEFINE pc == IF card[c].left = {m} THEN "list" ELSE "extract"
           S  == card[c].left \ {m}
<1>6. /\ pc \in PCs /\ S \in SUBSET Moves /\ S \subseteq {Pkg(c)} \X ItemsOf(Pkg(c))
      /\ GoWith(c, pc, S) /\ pc = IF S = {} THEN "list" ELSE "extract"
  BY <1>2, <1>3 DEF PCs
<1>7. S = card[c].left \ {<<Pkg(c), n>>}
  BY <1>4
<1> HIDE DEF pc, S
<1>8. /\ card' \in [Cards -> CardStates] /\ WorkInv'
      /\ card'[c].pc = pc /\ card'[c].pkg = Pkg(c) /\ card'[c].left = S
      /\ \A e \in Cards : e # c => card'[e] = card[e]
  BY <1>1, <1>6, GoWithKeeps
<1>9. temp \in TempStates
  BY TypeParts DEF TypeInv, DiskTypes
<1> DEFINE h == [temp.has EXCEPT ![Pkg(c)] = @ \cup {n}]
           r == temp.roots \cup (IF c = "php" THEN {} ELSE {Pkg(c)})
<1>10. h \in [Packages -> SUBSET Names] /\ r \in SUBSET Packages
  BY <1>4, <1>5, <1>9 DEF TempStates
<1>11. temp' = [dir |-> TRUE, roots |-> r, has |-> h]
  BY <1>2, <1>4
<1> HIDE DEF h, r
<1>12. temp' \in TempStates /\ temp'.dir = TRUE /\ temp'.roots = r /\ temp'.has = h
  BY <1>10, <1>11 DEF TempStates
<1> QED
  BY <1>1, <1>2, <1>4, <1>6, <1>7, <1>8, <1>12 DEF h, r

DestStates == [Dirs -> [Names -> Packages \cup {None}]]

LEMMA PutEffect ==
  ASSUME dest \in DestStates, NEW d \in Dirs, NEW n \in Names, NEW q \in Packages \cup {None},
         ready \subseteq Dirs, spoiled \subseteq Dirs, Put(d, n, q)
  PROVE  /\ dest' \in DestStates /\ ready' \subseteq Dirs /\ spoiled' \subseteq Dirs
         /\ dest'[d][n] = q /\ \A x \in Names : x # n => dest'[d][x] = dest[d][x]
         /\ \A e \in Dirs : e # d => dest'[e] = dest[e]
<1>1. dest' = [dest EXCEPT ![d] = [dest[d] EXCEPT ![n] = q]]
  BY DEF Put
<1>2. dest[d] \in [Names -> Packages \cup {None}]
  BY DEF DestStates
<1> DEFINE new == [dest[d] EXCEPT ![n] = q]
<1>3. /\ new \in [Names -> Packages \cup {None}] /\ new[n] = q
      /\ \A x \in Names : x # n => new[x] = dest[d][x]
  BY <1>2
<1>4. dest' = [dest EXCEPT ![d] = new]
  BY <1>1
<1> HIDE DEF new
<1>5. dest' \in DestStates /\ dest'[d] = new /\ \A e \in Dirs : e # d => dest'[e] = dest[e]
  BY <1>3, <1>4 DEF DestStates
<1>6. ready' \subseteq Dirs /\ spoiled' \subseteq Dirs
  BY DEF Put
<1> QED
  BY <1>3, <1>5, <1>6

LEMMA TempAfterMove ==
  ASSUME temp \in TempStates, NEW m \in Moves
  PROVE  /\ m[2] # None /\ temp' = [temp EXCEPT !.has[m[1]] = @ \ {m[2]}] =>
              /\ temp' \in TempStates /\ temp'.dir = temp.dir /\ temp'.roots = temp.roots
              /\ temp'.has = [temp.has EXCEPT ![m[1]] = @ \ {m[2]}]
         /\ temp' = [temp EXCEPT !.roots = @ \ {m[1]}, !.has[m[1]] = {}] => temp' \in TempStates
<1>1. m[1] \in Packages
  BY MovesFacts
<1>2. PICK t \in TempStates : t = temp
  OBVIOUS
<1> DEFINE h1 == [t.has EXCEPT ![m[1]] = @ \ {m[2]}]
           h2 == [t.has EXCEPT ![m[1]] = {}]
           r  == t.roots \ {m[1]}
<1>3. h1 \in [Packages -> SUBSET Names] /\ h2 \in [Packages -> SUBSET Names] /\ r \in SUBSET Packages
  BY <1>1, <1>2 DEF TempStates
<1>4. ASSUME temp' = [temp EXCEPT !.has[m[1]] = @ \ {m[2]}]
      PROVE  temp' = [t EXCEPT !.has = h1]
  BY <1>2, <1>4
<1>5. ASSUME temp' = [temp EXCEPT !.roots = @ \ {m[1]}, !.has[m[1]] = {}]
      PROVE  temp' = [t EXCEPT !.roots = r, !.has = h2]
  BY <1>2, <1>5
<1> HIDE DEF h1, h2, r
<1>6. ASSUME temp' = [t EXCEPT !.has = h1]
      PROVE  /\ temp' \in TempStates /\ temp'.dir = t.dir /\ temp'.roots = t.roots /\ temp'.has = h1
  BY <1>3, <1>6 DEF TempStates
<1>7. ASSUME temp' = [t EXCEPT !.roots = r, !.has = h2] PROVE temp' \in TempStates
  BY <1>3, <1>7 DEF TempStates
<1> QED
  BY <1>2, <1>4, <1>5, <1>6, <1>7 DEF h1

LEMMA MoveEffect ==
  ASSUME TypeInv, NEW c \in Cards, Move(c)
  PROVE  /\ At(c, "move") /\ card' \in [Cards -> CardStates] /\ WorkInv'
         /\ UNCHANGED <<made, data, downloads, zips, running, offer, recorded, php, broken, events>>
         /\ claim' = [claim EXCEPT ![c] = IF @ = "own" THEN "none" ELSE @]
         /\ dest' \in DestStates /\ temp' \in TempStates
         /\ ready' \subseteq Dirs /\ spoiled' \subseteq Dirs
         /\ \A d \in Dirs : d # Dest(c) => dest'[d] = dest[d]
         /\ \A e \in Cards : e # c => card'[e] = card[e]
         /\ card'[c].pkg = Pkg(c) /\ card'[c].pc \in {"move", "failed"}
         /\ card'[c].pc = "move" =>
              \E m \in card[c].left :
                /\ card'[c].left = card[c].left \ {m}
                /\ m[2] # None =>
                     /\ m[2] \in temp.has[m[1]] /\ dest'[Dest(c)][m[2]] = m[1]
                     /\ \A x \in Names : x # m[2] => dest'[Dest(c)][x] = dest[Dest(c)][x]
                     /\ temp'.roots = temp.roots /\ temp'.dir = temp.dir
                     /\ temp'.has = [temp.has EXCEPT ![m[1]] = @ \ {m[2]}]
<1>1. /\ At(c, "move") /\ ~At(c, "idle")
      /\ UNCHANGED <<made, data, downloads, zips, running, offer, recorded, php, broken, events>>
      /\ claim' = [claim EXCEPT ![c] = IF @ = "own" THEN "none" ELSE @]
  BY DEF Move, At
<1>2. PICK m \in card[c].left : IF m[2] = None THEN MoveRoot(c, m) ELSE MoveItem(c, m)
  BY DEF Move
<1>3. /\ dest \in DestStates /\ ready \subseteq Dirs /\ spoiled \subseteq Dirs /\ temp \in TempStates
      /\ card \in [Cards -> CardStates]
  BY TypeParts DEF TypeInv, DiskTypes, DestStates
<1>4. m \in Moves /\ card[c].left \ {m} \in SUBSET Moves
  BY <1>2, <1>3 DEF CardStates
<1>5. m[1] \in Packages /\ m[2] \in Names \cup {None}
  BY <1>4, MovesFacts
<1>6. Dest(c) \in Dirs
  BY <1>1, AtWork
<1>7. "failed" \in PCs \ {"extract"} /\ "move" \in PCs /\ "move" # "extract"
  BY DEF PCs
<1>8. ASSUME Go(c, "failed")
      PROVE  /\ card' \in [Cards -> CardStates] /\ WorkInv'
             /\ \A e \in Cards : e # c => card'[e] = card[e]
             /\ card'[c].pkg = Pkg(c) /\ card'[c].pc = "failed"
  BY <1>1, <1>7, <1>8, GoKeeps
<1>9. ASSUME GoWith(c, "move", card[c].left \ {m})
      PROVE  /\ card' \in [Cards -> CardStates] /\ WorkInv'
             /\ \A e \in Cards : e # c => card'[e] = card[e]
             /\ card'[c].pkg = Pkg(c) /\ card'[c].pc = "move" /\ card'[c].left = card[c].left \ {m}
  BY <1>1, <1>4, <1>7, <1>9, GoWithKeeps
<1>10. CASE m[2] = None
  <2>1. UNCHANGED <<dest, ready, spoiled>>
    BY <1>2, <1>10 DEF MoveRoot
  <2>2. CASE m[1] \in temp.roots
    <3>1. /\ temp' = [temp EXCEPT !.roots = @ \ {m[1]}, !.has[m[1]] = {}]
          /\ GoWith(c, "move", card[c].left \ {m})
      BY <1>2, <1>10, <2>2 DEF MoveRoot
    <3>2. temp' \in TempStates
      BY <1>3, <1>4, <3>1, TempAfterMove
    <3> QED
      BY <1>1, <1>2, <1>3, <1>9, <1>10, <2>1, <3>1, <3>2
  <2>3. CASE m[1] \notin temp.roots
    <3>1. temp' = temp /\ Go(c, "failed")
      BY <1>2, <1>10, <2>3 DEF MoveRoot
    <3> QED
      BY <1>1, <1>3, <1>8, <2>1, <3>1
  <2> QED
    BY <2>2, <2>3
<1>11. CASE m[2] # None
  <2>1. CASE Locked(Dest(c), m[2])
    <3>1. UNCHANGED <<dest, ready, spoiled, temp>> /\ Go(c, "failed")
      BY <1>2, <1>11, <2>1 DEF MoveItem
    <3> QED
      BY <1>1, <1>3, <1>8, <3>1
  <2>2. CASE ~Locked(Dest(c), m[2]) /\ m[2] \in temp.has[m[1]]
    <3>1. /\ Put(Dest(c), m[2], m[1])
          /\ temp' = [temp EXCEPT !.has[m[1]] = @ \ {m[2]}]
          /\ GoWith(c, "move", card[c].left \ {m})
      BY <1>2, <1>11, <2>2 DEF MoveItem
    <3>2. /\ temp' \in TempStates /\ temp'.dir = temp.dir /\ temp'.roots = temp.roots
          /\ temp'.has = [temp.has EXCEPT ![m[1]] = @ \ {m[2]}]
      BY <1>3, <1>4, <1>11, <3>1, TempAfterMove
    <3>3. /\ dest' \in DestStates /\ ready' \subseteq Dirs /\ spoiled' \subseteq Dirs
          /\ dest'[Dest(c)][m[2]] = m[1]
          /\ \A x \in Names : x # m[2] => dest'[Dest(c)][x] = dest[Dest(c)][x]
          /\ \A e \in Dirs : e # Dest(c) => dest'[e] = dest[e]
      BY <1>3, <1>5, <1>6, <1>11, <3>1, PutEffect
    <3> QED
      BY <1>1, <1>2, <1>9, <2>2, <3>1, <3>2, <3>3
  <2>3. CASE ~Locked(Dest(c), m[2]) /\ m[2] \notin temp.has[m[1]]
    <3>1. Put(Dest(c), m[2], None) /\ temp' = temp /\ Go(c, "failed")
      BY <1>2, <1>11, <2>3 DEF MoveItem
    <3>2. /\ dest' \in DestStates /\ ready' \subseteq Dirs /\ spoiled' \subseteq Dirs
          /\ \A e \in Dirs : e # Dest(c) => dest'[e] = dest[e]
      BY <1>3, <1>5, <1>6, <1>11, <3>1, PutEffect
    <3> QED
      BY <1>1, <1>3, <1>8, <3>1, <3>2
  <2> QED
    BY <2>1, <2>2, <2>3
<1> QED
  BY <1>10, <1>11

LEMMA RootSrcMoves ==
  ASSUME temp \in TempStates, NEW c
  PROVE  RootSrc(c) \in SUBSET Moves
<1>1. \A q \in Packages : InRoot(q) \in SUBSET Moves
  BY MovesFacts DEF InRoot, TempStates
<1>2. temp.roots \in SUBSET Packages /\ Of("php") \in SUBSET Packages
  BY DEF TempStates, Of
<1>3. temp.roots \X {None} \in SUBSET Moves
  BY <1>2, MovesFacts
<1>4. TopLevel \in SUBSET Moves
  BY <1>1, <1>2, <1>3 DEF TopLevel
<1>5. Stripped(c) \in SUBSET Packages
  BY <1>2 DEF Stripped
<1> QED
  BY <1>1, <1>4, <1>5 DEF RootSrc

(* The steps of a worker that move nothing. *)
Prepares(c) ==
  \/ StopService(c) \/ OpenZip(c) \/ Download(c) \/ CleanTemp(c) \/ OpenTemp(c) \/ List(c)
  \/ Tidy(c) \/ Setup(c) \/ WriteConfig(c) \/ InitData(c) \/ Clear(c) \/ Error(c)

LEMMA PrepareEffect ==
  ASSUME TypeInv, NEW c \in Cards, Prepares(c)
  PROVE  /\ ~At(c, "idle") /\ DiskTypes' /\ WindowTypes'
         /\ card' \in [Cards -> CardStates] /\ WorkInv'
         /\ UNCHANGED <<dest, offer, recorded, php, claim>>
         /\ card'[c].pkg = Pkg(c) /\ \A e \in Cards : e # c => card'[e] = card[e]
<1>1. DiskTypes /\ WindowTypes
  BY TypeParts DEF TypeInv
<1>2. ~At(c, "idle")
  BY DEF Prepares, StopService, OpenZip, Download, CleanTemp, OpenTemp, List, Tidy, Setup,
         WriteConfig, InitData, Clear, Error, At
<1>3. Pkg(c) \in Packages /\ Dest(c) \in Dirs /\ ItemsOf(Pkg(c)) \subseteq Names
  BY <1>2, AtWork
<1>a. ASSUME UNCHANGED dest, made' \subseteq Dirs, ready' \subseteq Dirs, spoiled' \subseteq Dirs,
             downloads' \in BOOLEAN, zips' \subseteq Packages, temp' \in TempStates, running' \subseteq Dirs
      PROVE  DiskTypes'
  BY <1>1, <1>a DEF DiskTypes
<1>b. ASSUME OnlyWorkers PROVE WindowTypes' /\ UNCHANGED <<offer, recorded, php, claim>>
  BY <1>1, <1>b DEF WindowTypes, OnlyWorkers
<1>c. /\ made \subseteq Dirs /\ ready \subseteq Dirs /\ spoiled \subseteq Dirs /\ downloads \in BOOLEAN
      /\ zips \subseteq Packages /\ temp \in TempStates /\ running \subseteq Dirs
  BY <1>1 DEF DiskTypes
<1>d. ASSUME \E pc \in PCs \ {"extract"} : Go(c, pc)
      PROVE  /\ card' \in [Cards -> CardStates] /\ WorkInv'
             /\ card'[c].pkg = Pkg(c) /\ \A e \in Cards : e # c => card'[e] = card[e]
  BY <1>2, <1>d, GoKeeps
<1>1a. CASE StopService(c)
  <2>1. /\ UNCHANGED <<dest, made, ready, spoiled, zips, temp>> /\ OnlyWorkers /\ downloads' = TRUE
        /\ Go(c, "open") /\ running' \subseteq running
    BY <1>1a DEF StopService
  <2> QED
    BY <1>2, <1>a, <1>b, <1>c, <1>d, <2>1 DEF PCs
<1>2a. CASE OpenZip(c)
  <2>1. /\ UNCHANGED <<dest, made, ready, spoiled, downloads, temp, running>> /\ OnlyWorkers
        /\ zips' \in {zips, zips \cup {Pkg(c)}} /\ (Go(c, "read") \/ Go(c, "failed"))
    BY <1>2a DEF OpenZip
  <2> QED
    BY <1>2, <1>3, <1>a, <1>b, <1>c, <1>d, <2>1 DEF PCs
<1>3a. CASE Download(c)
  <2>1. /\ UNCHANGED <<dest, ready, spoiled, downloads, zips, temp, running>> /\ OnlyWorkers
        /\ made' = made \cup {Dest(c)} /\ Go(c, "clean")
    BY <1>3a DEF Download, folder
  <2> QED
    BY <1>2, <1>3, <1>a, <1>b, <1>c, <1>d, <2>1 DEF PCs
<1>4a. CASE CleanTemp(c)
  <2>1. /\ UNCHANGED <<dest, made, ready, spoiled, downloads, zips, running>> /\ OnlyWorkers
        /\ temp' = NoTemp /\ Go(c, "remake")
    BY <1>4a DEF CleanTemp
  <2> QED
    BY <1>2, <1>a, <1>b, <1>c, <1>d, <2>1, EmptyTemp DEF PCs
<1>5a. CASE OpenTemp(c)
  <2>1. /\ UNCHANGED <<dest, made, ready, spoiled, zips, running>> /\ OnlyWorkers
        /\ downloads' = TRUE /\ temp' = [temp EXCEPT !.dir = TRUE]
        /\ \/ GoWith(c, "extract", {Pkg(c)} \X ItemsOf(Pkg(c)))
           \/ Go(c, "failed")
    BY <1>5a DEF OpenTemp
  <2>2. temp' \in TempStates
    BY <1>c, <2>1 DEF TempStates
  <2>3. {Pkg(c)} \X ItemsOf(Pkg(c)) \in SUBSET Moves
    BY <1>3, MovesFacts
  <2>4. CASE GoWith(c, "extract", {Pkg(c)} \X ItemsOf(Pkg(c)))
    <3> DEFINE S == {Pkg(c)} \X ItemsOf(Pkg(c))
    <3>1. S \in SUBSET Moves /\ S \subseteq {Pkg(c)} \X ItemsOf(Pkg(c)) /\ GoWith(c, "extract", S)
      BY <2>3, <2>4
    <3> HIDE DEF S
    <3>2. /\ card' \in [Cards -> CardStates] /\ WorkInv'
          /\ card'[c].pkg = Pkg(c) /\ \A e \in Cards : e # c => card'[e] = card[e]
      BY <1>2, <3>1, GoWithKeeps DEF PCs
    <3> QED
      BY <1>2, <1>a, <1>b, <1>c, <2>1, <2>2, <3>2
  <2>5. CASE Go(c, "failed")
    BY <1>2, <1>a, <1>b, <1>c, <1>d, <2>1, <2>2, <2>5 DEF PCs
  <2> QED
    BY <2>1, <2>4, <2>5
<1>6a. CASE List(c)
  <2>1. /\ UNCHANGED <<dest, made, ready, spoiled, downloads, zips, temp, running>> /\ OnlyWorkers
        /\ GoWith(c, "move", RootSrc(c)) \/ Go(c, "failed")
    BY <1>6a DEF List, disk, folder
  <2>2. CASE GoWith(c, "move", RootSrc(c))
    <3>1. RootSrc(c) \in SUBSET Moves
      BY <1>c, RootSrcMoves
    <3>2. /\ card' \in [Cards -> CardStates] /\ WorkInv'
          /\ card'[c].pkg = Pkg(c) /\ \A e \in Cards : e # c => card'[e] = card[e]
      BY <1>2, <2>2, <3>1, GoWithKeeps DEF PCs
    <3> QED
      BY <1>2, <1>a, <1>b, <1>c, <2>1, <3>2
  <2>3. CASE Go(c, "failed")
    BY <1>2, <1>a, <1>b, <1>c, <1>d, <2>1, <2>3 DEF PCs
  <2> QED
    BY <2>1, <2>2, <2>3
<1>7a. CASE Tidy(c)
  <2>1. /\ UNCHANGED <<dest, made, ready, spoiled, downloads, running>> /\ OnlyWorkers
        /\ temp' \in {temp, NoTemp} /\ zips' \subseteq zips /\ (Go(c, "setup") \/ Go(c, "failed"))
    BY <1>7a DEF Tidy
  <2> QED
    BY <1>2, <1>a, <1>b, <1>c, <1>d, <2>1, EmptyTemp DEF PCs
<1>8a. CASE Setup(c)
  <2>1. /\ UNCHANGED <<dest, made, downloads, zips, temp, running>> /\ OnlyWorkers
        /\ ready' \subseteq ready /\ spoiled' \subseteq spoiled \cup {Dest(c)}
        /\ Go(c, "config") \/ Go(c, "failed") \/ Go(c, "initdb") \/ Go(c, "clear")
    BY <1>8a DEF Setup, folder
  <2> QED
    BY <1>2, <1>3, <1>a, <1>b, <1>c, <1>d, <2>1 DEF PCs
<1>8b. CASE WriteConfig(c)
  <2>1. /\ UNCHANGED <<dest, made, downloads, zips, temp, running>> /\ OnlyWorkers
        /\ ready' = ready \cup {Dest(c)} /\ spoiled' \subseteq spoiled
        /\ Go(c, "initdb") \/ Go(c, "clear")
    BY <1>8b DEF WriteConfig, folder
  <2> QED
    BY <1>2, <1>3, <1>a, <1>b, <1>c, <1>d, <2>1 DEF PCs
<1>9a. CASE InitData(c)
  <2>1. /\ UNCHANGED <<dest, made, ready, spoiled, downloads, zips, temp, running, offer, recorded, php, claim, events>>
        /\ data' \in {"none", "half", "whole"} /\ broken' = (data' # "whole") /\ Go(c, "clear")
    BY <1>9a DEF InitData, folder
  <2>2. broken' \in BOOLEAN
    BY <2>1
  <2>3. WindowTypes'
    BY <1>1, <2>1, <2>2 DEF WindowTypes
  <2> QED
    BY <1>2, <1>a, <1>c, <1>d, <2>1, <2>3 DEF PCs
<1>10a. CASE Clear(c)
  <2>1. /\ UNCHANGED <<dest, made, ready, spoiled, running>> /\ OnlyWorkers
        /\ temp' \in {temp, NoTemp} /\ zips' \subseteq zips /\ downloads' \in {downloads, FALSE}
        /\ Go(c, "done")
    BY <1>10a DEF Clear
  <2> QED
    BY <1>2, <1>a, <1>b, <1>c, <1>d, <2>1, EmptyTemp DEF PCs
<1>11a. CASE Error(c)
  <2>1. /\ UNCHANGED <<dest, made, ready, downloads, zips, temp, running, data, offer, recorded, php, broken, claim>>
        /\ spoiled' \subseteq spoiled \cup {Dest(c)}
        /\ Go(c, "failed") \/ Go(c, "clear")
        /\ events < MaxEvents /\ events' = events + 1
    BY <1>11a DEF Error, folder
  <2>2. events' \in 0..MaxEvents
    BY <1>1, <2>1, PackageInstallAssumption DEF WindowTypes
  <2>3. WindowTypes'
    BY <1>1, <2>1, <2>2 DEF WindowTypes
  <2> QED
    BY <1>2, <1>3, <1>a, <1>c, <1>d, <2>1, <2>3 DEF PCs
<1> QED
  BY <1>1a, <1>2a, <1>3a, <1>4a, <1>5a, <1>6a, <1>7a, <1>8a, <1>8b, <1>9a, <1>10a, <1>11a DEF Prepares

LEMMA Offered ==
  ASSUME offer \in OfferLists, NEW c \in Cards
  PROVE  /\ offer[c] \in OffersOf(c)
         /\ offer[c].sel \in Of(c) /\ offer[c].list \subseteq Of(c) /\ offer[c].sel \in offer[c].list
         /\ Of(c) \subseteq Packages
<1>1. offer[c] \in OffersOf(c)
  BY DEF OfferLists
<1> QED
  BY <1>1 DEF OffersOf, Of

LEMMA OfferChanged ==
  ASSUME NEW c \in Cards, NEW L \in SUBSET Of(c), NEW p \in L
  PROVE  [list |-> L, sel |-> p] \in OffersOf(c)
BY DEF OffersOf

LEMMA AllOffers ==
  ASSUME NEW o, o = [c \in Cards |-> o[c]], \A c \in Cards : o[c] \in OffersOf(c)
  PROVE  o \in OfferLists
<1>1. \A c \in Cards : o[c] \in UNION {OffersOf(x) : x \in Cards}
  OBVIOUS
<1> QED
  BY <1>1 DEF OfferLists

LEMMA RecordTypes ==
  ASSUME recorded \in {None} \cup Records
  PROVE  InstalledPackages \in Records
<1>1. \A c \in Cards : c # "php" => Detected[c] \in Labels
  BY CardNames DEF Detected, Labels
<1> QED
  BY <1>1 DEF InstalledPackages, Records

(* The window: nothing on the disk changes but what a kill does to data. *)
LEMMA WindowEffect ==
  ASSUME TypeInv, \/ \E c \in Cards : \/ start_installation(c) \/ select(c)
                                      \/ on_finished(c) \/ RecordFails(c)
                  \/ \E d \in Dirs : StartService(d)
                  \/ on_versions_fetched \/ AppCrash
  PROVE  /\ TypeInv' /\ UNCHANGED <<dest, made, ready, spoiled, downloads, zips, temp>>
         /\ \A c \in Cards : At(c, "idle")' \/ card'[c] = card[c] \/ At(c, "stop")'
<1>0. DiskTypes /\ WindowTypes /\ card \in [Cards -> CardStates] /\ WorkInv
  BY TypeParts DEF TypeInv
<1>a. ASSUME UNCHANGED <<dest, made, ready, spoiled, downloads, zips, temp>>, running' \subseteq Dirs,
             WindowTypes', card' \in [Cards -> CardStates],
             \A c \in Cards : \/ card'[c] = card[c] \/ card'[c].pc = "idle"
                              \/ card'[c].pc = "stop" /\ card'[c].pkg \in Of(c)
      PROVE  /\ TypeInv' /\ UNCHANGED <<dest, made, ready, spoiled, downloads, zips, temp>>
             /\ \A c \in Cards : At(c, "idle")' \/ card'[c] = card[c] \/ At(c, "stop")'
  <2>1. DiskTypes'
    BY <1>0, <1>a DEF DiskTypes
  <2>2. TypeOK'
    BY <1>a, <2>1, TypeParts DEF TypeOK, DiskTypes, WindowTypes, CardStates, TempStates
  <2>3. WorkInv'
    BY <1>0, <1>a DEF WorkInv, At, Pkg
  <2> QED
    BY <1>a, <2>2, <2>3 DEF TypeInv, At
<1>b. events < MaxEvents /\ events' = events + 1 => events' \in 0..MaxEvents
  BY <1>0, PackageInstallAssumption DEF WindowTypes
<1>c. CardIdle \in CardStates /\ CardIdle.pc = "idle"
  BY DEF CardIdle, CardStates, PCs
<1>d. running \subseteq Dirs
  BY <1>0 DEF DiskTypes
<1>1. ASSUME NEW c \in Cards, start_installation(c)
      PROVE  /\ TypeInv' /\ UNCHANGED <<dest, made, ready, spoiled, downloads, zips, temp>>
             /\ \A e \in Cards : At(e, "idle")' \/ card'[e] = card[e] \/ At(e, "stop")'
  <2> DEFINE new == [pc |-> "stop", pkg |-> offer[c].sel, left |-> {}]
  <2>1. /\ card' = [card EXCEPT ![c] = new] /\ events < MaxEvents /\ events' = events + 1
        /\ UNCHANGED <<dest, made, ready, spoiled, downloads, zips, temp, running, data, offer, recorded, php, broken, claim>>
    BY <1>1 DEF start_installation, disk, folder
  <2>2. offer[c].sel \in Of(c) /\ Of(c) \subseteq Packages
    BY <1>0, Offered DEF WindowTypes
  <2>3. new \in CardStates /\ new.pc = "stop" /\ new.pkg \in Of(c)
    BY <2>2 DEF CardStates, PCs
  <2> HIDE DEF new
  <2>4. /\ card' \in [Cards -> CardStates]
        /\ \A e \in Cards : card'[e] = card[e] \/ (card'[e] = new /\ e = c)
    BY <1>0, <2>1, <2>3
  <2>5. WindowTypes'
    BY <1>0, <1>b, <2>1 DEF WindowTypes
  <2> QED
    BY <1>a, <1>d, <2>1, <2>3, <2>4, <2>5
<1>2. ASSUME NEW c \in Cards, on_finished(c)
      PROVE  /\ TypeInv' /\ UNCHANGED <<dest, made, ready, spoiled, downloads, zips, temp>>
             /\ \A e \in Cards : At(e, "idle")' \/ card'[e] = card[e] \/ At(e, "stop")'
  <2>1. /\ card' = [card EXCEPT ![c] = CardIdle]
        /\ UNCHANGED <<dest, made, ready, spoiled, downloads, zips, temp, running, data, offer, broken, events>>
        /\ recorded' = IF At(c, "done") THEN [InstalledPackages EXCEPT ![c] = offer[c].sel] ELSE recorded
        /\ php' \in (made \cap PhpDirs) \cup {php}
        /\ claim' = [claim EXCEPT ![c] = IF At(c, "done") /\ @ # "misled" THEN "own"
                                         ELSE IF @ = "misled" THEN "none" ELSE @]
    BY <1>2 DEF on_finished, End, disk, folder
  <2>2. /\ card' \in [Cards -> CardStates]
        /\ \A e \in Cards : card'[e] = card[e] \/ card'[e].pc = "idle"
    BY <1>0, <1>c, <2>1
  <2>3. recorded' \in {None} \cup Records
    <3>1. offer[c].sel \in Packages
      BY <1>0, Offered DEF WindowTypes
    <3>2. InstalledPackages \in Records
      BY <1>0, RecordTypes DEF WindowTypes
    <3>3. [InstalledPackages EXCEPT ![c] = offer[c].sel] \in Records
      BY <3>1, <3>2 DEF Records
    <3> QED
      BY <1>0, <2>1, <3>3 DEF WindowTypes
  <2>4. claim' \in [Cards -> {"none", "own", "misled"}]
    BY <1>0, <2>1 DEF WindowTypes
  <2>5. php' \in PhpDirs \cup {None}
    BY <1>0, <2>1 DEF WindowTypes
  <2>6. WindowTypes'
    BY <1>0, <2>1, <2>3, <2>4, <2>5 DEF WindowTypes
  <2> QED
    BY <1>a, <1>d, <2>1, <2>2, <2>6
<1>2a. ASSUME NEW c \in Cards, RecordFails(c)
       PROVE  /\ TypeInv' /\ UNCHANGED <<dest, made, ready, spoiled, downloads, zips, temp>>
              /\ \A e \in Cards : At(e, "idle")' \/ card'[e] = card[e] \/ At(e, "stop")'
  <2>1. /\ card' = [card EXCEPT ![c] = CardIdle]
        /\ UNCHANGED <<dest, made, ready, spoiled, downloads, zips, temp, running, data, offer, broken>>
        /\ events < MaxEvents /\ events' = events + 1
        /\ recorded' \in {None, recorded}
        /\ php' \in (made \cap PhpDirs) \cup {php}
        /\ claim' \in {[claim EXCEPT ![c] = "none"], [Forgotten EXCEPT ![c] = "none"]}
    BY <1>2a DEF RecordFails, End, disk, folder
  <2>2. /\ card' \in [Cards -> CardStates]
        /\ \A e \in Cards : card'[e] = card[e] \/ card'[e].pc = "idle"
    BY <1>0, <1>c, <2>1
  <2>3. claim' \in [Cards -> {"none", "own", "misled"}]
    <3>1. Forgotten \in [Cards -> {"none", "own", "misled"}]
      BY <1>0 DEF WindowTypes, Forgotten
    <3> QED
      BY <1>0, <2>1, <3>1 DEF WindowTypes
  <2>4. WindowTypes'
    BY <1>0, <1>b, <2>1, <2>3 DEF WindowTypes
  <2> QED
    BY <1>a, <1>d, <2>1, <2>2, <2>4
<1>3. ASSUME NEW c \in Cards, select(c)
      PROVE  /\ TypeInv' /\ UNCHANGED <<dest, made, ready, spoiled, downloads, zips, temp>>
             /\ \A e \in Cards : At(e, "idle")' \/ card'[e] = card[e] \/ At(e, "stop")'
  <2>1. UNCHANGED <<dest, made, ready, spoiled, downloads, zips, temp, running, data, card, recorded, php, broken, claim, events>>
    BY <1>3 DEF select, disk, folder
  <2>2. PICK p \in offer[c].list : offer' = [offer EXCEPT ![c].sel = p]
    BY <1>3 DEF select
  <2>3. PICK L \in SUBSET Of(c) : offer[c].list = L /\ \E q \in L : offer[c] = [list |-> L, sel |-> q]
    BY <1>0 DEF WindowTypes, OfferLists, OffersOf
  <2> DEFINE new == [list |-> L, sel |-> p]
  <2>4. offer' = [offer EXCEPT ![c] = new]
    <3>1. PICK q \in L : offer[c] = [list |-> L, sel |-> q]
      BY <2>3
    <3>2. offer' = [offer EXCEPT ![c] = [offer[c] EXCEPT !.sel = p]]
      BY <2>2
    <3>3. [offer[c] EXCEPT !.sel = p] = new
      BY <3>1
    <3> QED
      BY <3>2, <3>3
  <2>5. new \in OffersOf(c)
    BY <2>2, <2>3, OfferChanged
  <2> HIDE DEF new
  <2>6. offer = [e \in Cards |-> offer[e]] /\ \A e \in Cards : offer[e] \in OffersOf(e)
    BY <1>0 DEF WindowTypes, OfferLists
  <2>7. PICK o : o = offer'
    OBVIOUS
  <2>8. o = [e \in Cards |-> o[e]] /\ \A e \in Cards : o[e] \in OffersOf(e)
    BY <2>4, <2>5, <2>6, <2>7
  <2>9. offer' \in OfferLists
    BY <2>7, <2>8, AllOffers
  <2>10. WindowTypes'
    BY <1>0, <2>1, <2>9 DEF WindowTypes
  <2> QED
    BY <1>0, <1>a, <1>d, <2>1, <2>10
<1>4. ASSUME NEW d \in Dirs, StartService(d)
      PROVE  /\ TypeInv' /\ UNCHANGED <<dest, made, ready, spoiled, downloads, zips, temp>>
             /\ \A e \in Cards : At(e, "idle")' \/ card'[e] = card[e] \/ At(e, "stop")'
  <2>1. /\ UNCHANGED <<dest, made, ready, spoiled, downloads, zips, temp, data, card, offer, recorded, broken, claim>>
        /\ running' = running \cup {d} /\ php' \in {php} \cup PhpDirs
        /\ events < MaxEvents /\ events' = events + 1
    BY <1>4 DEF StartService, disk, folder, PhpDirs
  <2>2. WindowTypes'
    BY <1>0, <1>b, <2>1 DEF WindowTypes
  <2> QED
    BY <1>0, <1>a, <1>d, <2>1, <2>2
<1>5. CASE on_versions_fetched
  <2>1. /\ UNCHANGED <<dest, made, ready, spoiled, downloads, zips, temp, running, data, card, recorded, php, broken>>
        /\ events < MaxEvents /\ events' = events + 1
        /\ claim' = [c \in Cards |-> IF ~At(c, "idle") /\ offer'[c].sel # offer[c].sel
                                     THEN "misled" ELSE claim[c]]
    BY <1>5 DEF on_versions_fetched, disk, folder
  <2>2. PICK L \in SUBSET Packages : offer' = [c \in Cards |-> Replace(c, Of(c) \cap L)]
    BY <1>5 DEF on_versions_fetched
  <2>3. ASSUME NEW c \in Cards PROVE Replace(c, Of(c) \cap L) \in OffersOf(c)
    <3>1. offer[c] \in OffersOf(c)
      BY <1>0, Offered DEF WindowTypes
    <3>2. CASE Of(c) \cap L = {}
      BY <3>1, <3>2 DEF Replace
    <3>3. CASE Of(c) \cap L # {}
      <4> DEFINE M == Of(c) \cap L
                 p == IF offer[c].sel \in M THEN offer[c].sel ELSE CHOOSE x \in M : TRUE
      <4>1. M \in SUBSET Of(c) /\ p \in M /\ Replace(c, M) = [list |-> M, sel |-> p]
        BY <3>3 DEF Replace
      <4> HIDE DEF M, p
      <4>2. Replace(c, M) \in OffersOf(c)
        BY <4>1, OfferChanged
      <4> QED
        BY <4>2 DEF M
    <3> QED
      BY <3>2, <3>3
  <2>4. PICK o : o = offer'
    OBVIOUS
  <2>5. o = [e \in Cards |-> o[e]] /\ \A e \in Cards : o[e] \in OffersOf(e)
    BY <2>2, <2>3, <2>4
  <2>6. offer' \in OfferLists
    BY <2>4, <2>5, AllOffers
  <2>7. claim' \in [Cards -> {"none", "own", "misled"}]
    BY <1>0, <2>1 DEF WindowTypes
  <2>8. WindowTypes'
    BY <1>0, <1>b, <2>1, <2>6, <2>7 DEF WindowTypes
  <2> QED
    BY <1>0, <1>a, <1>d, <2>1, <2>8
<1>6. CASE AppCrash
  <2>1. /\ card' = [c \in Cards |-> CardIdle]
        /\ UNCHANGED <<dest, made, ready, spoiled, downloads, zips, temp, running, offer, php>>
        /\ events < MaxEvents /\ events' = events + 1 /\ recorded' \in {None, recorded}
        /\ claim' \in {[c \in Cards |-> IF claim[c] = "misled" THEN "none" ELSE claim[c]],
                       [c \in Cards |-> "none"]}
        /\ \/ UNCHANGED <<data, broken>>
           \/ data' \in {"half", "whole"} /\ broken' = (data' = "half")
    BY <1>6 DEF AppCrash, folder
  <2>2. card' \in [Cards -> CardStates] /\ \A c \in Cards : card'[c].pc = "idle"
    BY <1>c, <2>1
  <2>3. claim' \in [Cards -> {"none", "own", "misled"}]
    BY <1>0, <2>1 DEF WindowTypes
  <2>4. broken' \in BOOLEAN /\ data' \in {"none", "half", "whole"}
    BY <1>0, <2>1 DEF WindowTypes
  <2>5. WindowTypes'
    BY <1>0, <1>b, <2>1, <2>3, <2>4 DEF WindowTypes
  <2> QED
    BY <1>a, <1>d, <2>1, <2>2, <2>5
<1> QED
  BY <1>1, <1>2, <1>2a, <1>3, <1>4, <1>5, <1>6

LEMMA InitType == Init => TypeInv
<1> SUFFICES ASSUME Init PROVE TypeInv
  OBVIOUS
<1>1. card = [c \in Cards |-> CardIdle] /\ CardIdle \in CardStates /\ CardIdle.pc = "idle"
  BY DEF Init, CardIdle, CardStates, PCs
<1>2. card \in [Cards -> CardStates] /\ WorkInv
  BY <1>1 DEF WorkInv, At
<1>3. dest \in DestStates
  <2>1. ASSUME NEW d \in Dirs, NEW n \in Names
        PROVE  (IF \E p \in Shipped : Dir(p) = d /\ n \in ItemsOf(p)
                THEN CHOOSE p \in Shipped : Dir(p) = d ELSE None) \in Packages \cup {None}
    <3>1. CASE \E p \in Shipped : Dir(p) = d
      <4>1. (CHOOSE p \in Shipped : Dir(p) = d) \in Shipped
        BY <3>1
      <4> QED
        BY <4>1, PackageInstallAssumption
    <3> QED
      BY <3>1
  <2> QED
    BY <2>1 DEF Init, DestStates
<1>4. made \subseteq Dirs
  BY PackageInstallAssumption DEF Init, Dirs
<1>5. DiskTypes
  BY <1>3, <1>4, EmptyTemp DEF Init, DiskTypes, DestStates
<1>6. php \in PhpDirs \cup {None}
  BY DEF Init
<1>7. events \in 0..MaxEvents
  BY PackageInstallAssumption DEF Init
<1>8. data \in {"none", "half", "whole"} /\ broken \in BOOLEAN /\ offer \in OfferLists /\ recorded = None
  BY DEF Init
<1>9. claim \in [Cards -> {"none", "own", "misled"}]
  BY DEF Init
<1>10. WindowTypes
  BY <1>6, <1>7, <1>8, <1>9 DEF WindowTypes
<1> QED
  BY <1>2, <1>5, <1>10, TypeParts DEF TypeInv

(* What a step of a worker does to the other cards, the lists, the record. *)
LEMMA WorkerEffect ==
  ASSUME TypeInv, NEW c \in Cards, WorkerStep(c)
  PROVE  /\ TypeInv' /\ ~At(c, "idle") /\ card'[c].pkg = Pkg(c)
         /\ UNCHANGED <<offer, recorded, php>>
         /\ \A e \in Cards : e # c => card'[e] = card[e]
<1>0. DiskTypes /\ WindowTypes
  BY TypeParts DEF TypeInv
<1>a. ASSUME DiskTypes', WindowTypes', card' \in [Cards -> CardStates], WorkInv' PROVE TypeInv'
  BY <1>a DEF TypeInv, TypeOK, DiskTypes, WindowTypes, CardStates, TempStates
<1>1. CASE Prepares(c)
  BY <1>1, <1>a, PrepareEffect
<1>2. CASE Extract(c)
  <2>1. /\ At(c, "extract") /\ card' \in [Cards -> CardStates] /\ WorkInv'
        /\ UNCHANGED <<dest, made, ready, spoiled, zips, running, data, offer, recorded, php, broken, claim, events>>
        /\ downloads' = TRUE /\ temp' \in TempStates /\ card'[c].pkg = Pkg(c)
        /\ \A e \in Cards : e # c => card'[e] = card[e]
    BY <1>2, ExtractEffect
  <2>2. DiskTypes' /\ WindowTypes'
    BY <1>0, <2>1 DEF DiskTypes, WindowTypes
  <2> QED
    BY <1>a, <2>1, <2>2 DEF At
<1>3. CASE Move(c)
  <2>1. /\ At(c, "move") /\ card' \in [Cards -> CardStates] /\ WorkInv'
        /\ UNCHANGED <<made, data, downloads, zips, running, offer, recorded, php, broken, events>>
        /\ claim' = [claim EXCEPT ![c] = IF @ = "own" THEN "none" ELSE @]
        /\ dest' \in DestStates /\ temp' \in TempStates
        /\ ready' \subseteq Dirs /\ spoiled' \subseteq Dirs
        /\ \A e \in Cards : e # c => card'[e] = card[e]
        /\ card'[c].pkg = Pkg(c)
    BY <1>3, MoveEffect
  <2>2. claim' \in [Cards -> {"none", "own", "misled"}]
    BY <1>0, <2>1 DEF WindowTypes
  <2>3. DiskTypes' /\ WindowTypes'
    BY <1>0, <2>1, <2>2 DEF DiskTypes, WindowTypes, DestStates
  <2> QED
    BY <1>a, <2>1, <2>3 DEF At
<1> QED
  BY <1>1, <1>2, <1>3 DEF WorkerStep, Prepares

WindowStep ==
  \/ \E c \in Cards : start_installation(c) \/ select(c) \/ on_finished(c) \/ RecordFails(c)
  \/ \E d \in Dirs : StartService(d)
  \/ on_versions_fetched \/ AppCrash

LEMMA NextCases ==
  [Next]_vars => (\E c \in Cards : WorkerStep(c)) \/ WindowStep \/ UNCHANGED vars
BY DEF Next, WindowStep, Quiet

LEMMA NextType == TypeInv /\ [Next]_vars => TypeInv'
<1> SUFFICES ASSUME TypeInv, [Next]_vars PROVE TypeInv'
  OBVIOUS
<1>1. CASE UNCHANGED vars
  BY <1>1 DEF vars, disk, folder, TypeInv, TypeOK, WorkInv, At, Pkg
<1>2. CASE \E c \in Cards : WorkerStep(c)
  BY <1>2, WorkerEffect
<1>3. CASE WindowStep
  BY <1>3, WindowEffect DEF WindowStep
<1> QED
  BY <1>1, <1>2, <1>3, NextCases

(* Every variable keeps its type, for any number of cards at work, and with *)
(* errors, kills and new lists at any moment (app.py 901-1160, 1220-1360).  *)
THEOREM TypeCorrect == Spec => []TypeOK
<1>1. TypeInv => TypeOK
  BY DEF TypeInv
<1> QED
  BY <1>1, InitType, NextType, PTL DEF Spec

-----------------------------------------------------------------------------
(* With one card at work at a time nothing comes between an installation's  *)
(* steps but what leaves the folders alone: what is extracted is the zip,   *)
(* the list is of that, and what is no longer on the list is in its place.  *)

OneAtWork == \A c, e \in Cards : ~At(c, "idle") /\ ~At(e, "idle") => c = e

InPlace(c, n) == dest[Dest(c)][n] = Pkg(c)

(* temp_extract holds a part of the zip of c, or all of it. *)
OnlyOwn(c) ==
  /\ \A q \in Packages : q # Pkg(c) => temp.has[q] = {}
  /\ temp.has[Pkg(c)] \subseteq ItemsOf(Pkg(c))
  /\ temp.roots = IF c = "php" \/ temp.has[Pkg(c)] = {} THEN {} ELSE {Pkg(c)}

Unpacked(c) ==
  /\ At(c, "remake") => OnlyOwn(c) /\ temp.has[Pkg(c)] = {}
  /\ At(c, "extract") =>
       /\ OnlyOwn(c)
       /\ \A n \in ItemsOf(Pkg(c)) : n \in temp.has[Pkg(c)] \/ <<Pkg(c), n>> \in card[c].left
  /\ At(c, "list") => OnlyOwn(c) /\ temp.has[Pkg(c)] = ItemsOf(Pkg(c))
  /\ At(c, "move") =>
       /\ \A m \in card[c].left : m[1] = Pkg(c) /\ m[2] # None
       /\ \A n \in ItemsOf(Pkg(c)) : InPlace(c, n) \/ <<Pkg(c), n>> \in card[c].left
  /\ card[c].pc \in {"setup", "config", "initdb", "clear", "done"} => \A n \in ItemsOf(Pkg(c)) : InPlace(c, n)

InstallInv == OneAtWork /\ \A c \in Cards : Unpacked(c)

LEMMA CardsFinite == \A S \in SUBSET Cards : IsFiniteSet(S)
<1>1. IsFiniteSet({"nginx"} \cup {"apache"})
  BY FS_Singleton, FS_AddElement
<1>2. IsFiniteSet({"nginx"} \cup {"apache"} \cup {"mysql"})
  BY <1>1, FS_AddElement
<1>3. IsFiniteSet({"nginx"} \cup {"apache"} \cup {"mysql"} \cup {"php"})
  BY <1>2, FS_AddElement
<1>4. IsFiniteSet({"nginx"} \cup {"apache"} \cup {"mysql"} \cup {"php"} \cup {"phpmyadmin"})
  BY <1>3, FS_AddElement
<1>5. \A S \in SUBSET Cards :
        S \in SUBSET ({"nginx"} \cup {"apache"} \cup {"mysql"} \cup {"php"} \cup {"phpmyadmin"})
  BY CardNames
<1> QED
  BY <1>4, <1>5, FS_Subset

(* What is listed when the zip has been unpacked is what the zip holds. *)
LEMMA ListedIsZip ==
  ASSUME NEW c \in Cards, Pkg(c) \in Packages, Pkg(c)[1] = c, temp \in TempStates,
         OnlyOwn(c), temp.has[Pkg(c)] = ItemsOf(Pkg(c))
  PROVE  RootSrc(c) = {Pkg(c)} \X ItemsOf(Pkg(c))
<1>1. Main[c] \in ItemsOf(Pkg(c))
  BY PackageFacts
<1>2. /\ \A q \in Packages : q # Pkg(c) => InRoot(q) = {}
      /\ InRoot(Pkg(c)) = {Pkg(c)} \X ItemsOf(Pkg(c))
  BY DEF OnlyOwn, InRoot
<1>3. temp.roots = IF c = "php" THEN {} ELSE {Pkg(c)}
  BY <1>1 DEF OnlyOwn
<1>4. CASE c = "php"
  <2>1. Pkg(c) \in Of("php") /\ Of("php") \subseteq Packages
    BY <1>4 DEF Of
  <2>2. UNION {InRoot(q) : q \in Of("php")} = InRoot(Pkg(c))
    BY <1>2, <2>1
  <2>3. TopLevel = InRoot(Pkg(c))
    BY <1>3, <1>4, <2>2 DEF TopLevel
  <2> QED
    BY <1>2, <1>4, <2>3 DEF RootSrc
<1>5. CASE c # "php"
  <2>1. \A q \in Of("php") : q \in Packages /\ q # Pkg(c)
    BY <1>5 DEF Of
  <2>2. UNION {InRoot(q) : q \in Of("php")} = {}
    BY <1>2, <2>1
  <2>3. TopLevel = {<<Pkg(c), None>>}
    BY <1>3, <1>5, <2>2 DEF TopLevel
  <2>4. Cardinality(TopLevel) = 1
    BY <2>3, FS_Singleton
  <2>5. Stripped(c) = {Pkg(c)}
    BY <1>3, <1>5, <2>4 DEF Stripped
  <2>6. RootSrc(c) = UNION {InRoot(q) : q \in {Pkg(c)}}
    BY <1>5, <2>5 DEF RootSrc
  <2> QED
    BY <1>2, <2>6
<1> QED
  BY <1>4, <1>5

LEMMA Solo ==
  ASSUME OneAtWork, NEW c \in Cards, ~At(c, "idle"), \A e \in Cards : e # c => card'[e] = card[e]
  PROVE  OneAtWork' /\ \A e \in Cards : e # c => At(e, "idle")'
BY DEF OneAtWork, At

LEMMA IdleUnpacked == \A e \in Cards : At(e, "idle")' => Unpacked(e)'
BY DEF Unpacked, At

LEMMA ExtractUnpacks ==
  ASSUME TypeInv, NEW c \in Cards, Extract(c), Unpacked(c)
  PROVE  Unpacked(c)'
<1>1. /\ At(c, "extract") /\ temp' \in TempStates /\ dest' = dest
  BY ExtractEffect
<1>2. PICK n \in ItemsOf(Pkg(c)) :
        /\ <<Pkg(c), n>> \in card[c].left
        /\ card'[c].pkg = Pkg(c) /\ card'[c].left = card[c].left \ {<<Pkg(c), n>>}
        /\ card'[c].pc = IF card'[c].left = {} THEN "list" ELSE "extract"
        /\ temp'.dir = TRUE
        /\ temp'.roots = temp.roots \cup (IF c = "php" THEN {} ELSE {Pkg(c)})
        /\ temp'.has = [temp.has EXCEPT ![Pkg(c)] = @ \cup {n}]
  BY ExtractEffect
<1>3. /\ Pkg(c) \in Packages /\ Pkg(c)[1] = c
  BY <1>1, AtWork DEF At
<1>4. /\ OnlyOwn(c)
      /\ \A x \in ItemsOf(Pkg(c)) : x \in temp.has[Pkg(c)] \/ <<Pkg(c), x>> \in card[c].left
  BY <1>1 DEF Unpacked
<1>5. temp.has \in [Packages -> SUBSET Names]
  BY TypeParts DEF TypeInv, DiskTypes, TempStates
<1>6. /\ temp'.has[Pkg(c)] = temp.has[Pkg(c)] \cup {n}
      /\ \A q \in Packages : q # Pkg(c) => temp'.has[q] = temp.has[q]
  BY <1>2, <1>3, <1>5
<1>7. temp'.roots = IF c = "php" THEN {} ELSE {Pkg(c)}
  BY <1>2, <1>4 DEF OnlyOwn
<1>8. Pkg(c)' = Pkg(c)
  BY <1>2 DEF Pkg
<1>9. OnlyOwn(c)'
  BY <1>4, <1>6, <1>7, <1>8 DEF OnlyOwn
<1>10. \A x \in ItemsOf(Pkg(c)) : x \in temp'.has[Pkg(c)] \/ <<Pkg(c), x>> \in card'[c].left
  BY <1>2, <1>4, <1>6
<1>11. CASE card'[c].left = {}
  <2>1. temp'.has[Pkg(c)] = ItemsOf(Pkg(c))
    BY <1>8, <1>9, <1>10, <1>11 DEF OnlyOwn
  <2>2. card'[c].pc = "list"
    BY <1>2, <1>11
  <2> QED
    BY <1>8, <1>9, <2>1, <2>2 DEF Unpacked, At
<1>12. CASE card'[c].left # {}
  <2>1. card'[c].pc = "extract"
    BY <1>2, <1>12
  <2> QED
    BY <1>8, <1>9, <1>10, <2>1 DEF Unpacked, At
<1> QED
  BY <1>11, <1>12

LEMMA MovePlaces ==
  ASSUME TypeInv, NEW c \in Cards, Move(c), Unpacked(c)
  PROVE  Unpacked(c)'
<1>1. At(c, "move") /\ card'[c].pkg = Pkg(c) /\ card'[c].pc \in {"move", "failed"}
  BY MoveEffect
<1>2. CASE card'[c].pc = "failed"
  BY <1>2 DEF Unpacked, At
<1>3. CASE card'[c].pc = "move"
  <2>1. PICK m \in card[c].left :
          /\ card'[c].left = card[c].left \ {m}
          /\ m[2] # None =>
               /\ m[2] \in temp.has[m[1]] /\ dest'[Dest(c)][m[2]] = m[1]
               /\ \A x \in Names : x # m[2] => dest'[Dest(c)][x] = dest[Dest(c)][x]
               /\ temp'.roots = temp.roots /\ temp'.dir = temp.dir
               /\ temp'.has = [temp.has EXCEPT ![m[1]] = @ \ {m[2]}]
    BY <1>3, MoveEffect
  <2>2. /\ \A k \in card[c].left : k[1] = Pkg(c) /\ k[2] # None
        /\ \A n \in ItemsOf(Pkg(c)) : InPlace(c, n) \/ <<Pkg(c), n>> \in card[c].left
    BY <1>1 DEF Unpacked
  <2>3. ItemsOf(Pkg(c)) \subseteq Names
    BY <1>1, AtWork DEF At
  <2>4. m \in Moves
    BY <2>1, TypeParts DEF TypeInv, CardStates
  <2>5. m = <<Pkg(c), m[2]>>
    BY <2>1, <2>2, <2>4, MovesFacts
  <2>6. Pkg(c)' = Pkg(c) /\ Dest(c)' = Dest(c)
    BY <1>1 DEF Pkg, Dest
  <2>7. ASSUME NEW n \in ItemsOf(Pkg(c)) PROVE InPlace(c, n)' \/ <<Pkg(c), n>> \in card'[c].left
    <3>1. CASE n = m[2]
      BY <2>1, <2>2, <2>6, <3>1 DEF InPlace
    <3>2. CASE n # m[2]
      <4>1. dest'[Dest(c)][n] = dest[Dest(c)][n]
        BY <2>1, <2>2, <2>3, <3>2
      <4>2. <<Pkg(c), n>> # m
        BY <2>5, <3>2
      <4> QED
        BY <2>1, <2>2, <2>6, <4>1, <4>2 DEF InPlace
    <3> QED
      BY <3>1, <3>2
  <2>8. \A k \in card'[c].left : k[1] = Pkg(c) /\ k[2] # None
    BY <2>1, <2>2
  <2> QED
    BY <1>3, <2>6, <2>7, <2>8 DEF Unpacked, At
<1> QED
  BY <1>1, <1>2, <1>3

LEMMA PrepareUnpacks ==
  ASSUME TypeInv, NEW c \in Cards, Prepares(c), Unpacked(c)
  PROVE  Unpacked(c)'
<1>0. /\ ~At(c, "idle") /\ dest' = dest /\ card'[c].pkg = Pkg(c)
      /\ card' \in [Cards -> CardStates]
  BY PrepareEffect
<1>1. Pkg(c)' = Pkg(c) /\ Dest(c)' = Dest(c) /\ \A n : InPlace(c, n)' = InPlace(c, n)
  BY <1>0 DEF Pkg, Dest, InPlace
<1>2. Pkg(c) \in Packages /\ Pkg(c)[1] = c /\ ItemsOf(Pkg(c)) \subseteq Names
  BY <1>0, AtWork
<1>3. temp \in TempStates /\ card \in [Cards -> CardStates]
  BY TypeParts DEF TypeInv, DiskTypes
<1>a. ASSUME NEW pc \in PCs \ {"extract"}, Go(c, pc) PROVE card'[c].pc = pc
  BY <1>0, <1>a, GoKeeps
<1>b. ASSUME card'[c].pc \in {"open", "read", "clean", "failed"} PROVE Unpacked(c)'
  BY <1>b DEF Unpacked, At
<1>c. ASSUME card'[c].pc \in {"setup", "config", "initdb", "clear", "done"},
             \A n \in ItemsOf(Pkg(c)) : InPlace(c, n)
      PROVE  Unpacked(c)'
  BY <1>1, <1>c DEF Unpacked, At
<1>4. CASE StopService(c) \/ OpenZip(c) \/ Download(c) \/ (Error(c) /\ ~Swallowed(c))
  <2>1. \E pc \in {"open", "read", "clean", "failed"} : Go(c, pc)
    BY <1>4 DEF StopService, OpenZip, Download, Error
  <2>2. {"open", "read", "clean", "failed"} \subseteq PCs \ {"extract"}
    BY DEF PCs
  <2> QED
    BY <1>a, <1>b, <2>1, <2>2
<1>5. CASE CleanTemp(c)
  <2>1. temp' = NoTemp /\ Go(c, "remake")
    BY <1>5 DEF CleanTemp
  <2>2. card'[c].pc = "remake"
    BY <1>a, <2>1 DEF PCs
  <2>3. temp'.roots = {} /\ \A q \in Packages : temp'.has[q] = {}
    BY <2>1, EmptyTemp
  <2>4. OnlyOwn(c)' /\ temp'.has[Pkg(c)] = {}
    BY <1>1, <1>2, <2>3 DEF OnlyOwn
  <2> QED
    BY <1>1, <2>2, <2>4 DEF Unpacked, At
<1>6. CASE OpenTemp(c)
  <2>1. /\ At(c, "remake") /\ temp' = [temp EXCEPT !.dir = TRUE]
        /\ \/ GoWith(c, "extract", {Pkg(c)} \X ItemsOf(Pkg(c)))
           \/ Go(c, "failed")
    BY <1>6 DEF OpenTemp
  <2>2. temp'.has = temp.has /\ temp'.roots = temp.roots
    BY <1>3, <2>1 DEF TempStates
  <2>3. OnlyOwn(c)'
    BY <1>1, <2>1, <2>2 DEF OnlyOwn, Unpacked
  <2>4. CASE Go(c, "failed")
    BY <1>a, <1>b, <2>4 DEF PCs
  <2>5. CASE GoWith(c, "extract", {Pkg(c)} \X ItemsOf(Pkg(c)))
    <3> DEFINE S == {Pkg(c)} \X ItemsOf(Pkg(c))
    <3>1. S \in SUBSET Moves /\ S \subseteq {Pkg(c)} \X ItemsOf(Pkg(c)) /\ GoWith(c, "extract", S)
      BY <1>2, <2>5, MovesFacts
    <3>2. \A n \in ItemsOf(Pkg(c)) : <<Pkg(c), n>> \in S
      OBVIOUS
    <3> HIDE DEF S
    <3>3. card'[c].pc = "extract" /\ card'[c].left = S
      BY <1>0, <3>1, GoWithKeeps DEF PCs
    <3> QED
      BY <1>1, <2>3, <3>2, <3>3 DEF Unpacked, At
  <2> QED
    BY <2>1, <2>4, <2>5
<1>7. CASE List(c)
  <2>1. /\ At(c, "list") /\ (GoWith(c, "move", RootSrc(c)) \/ Go(c, "failed"))
    BY <1>7 DEF List
  <2>2. CASE Go(c, "failed")
    BY <1>a, <1>b, <2>2 DEF PCs
  <2>3. CASE GoWith(c, "move", RootSrc(c))
    <3>1. RootSrc(c) = {Pkg(c)} \X ItemsOf(Pkg(c))
      BY <1>2, <1>3, <2>1, ListedIsZip DEF Unpacked
    <3>2. RootSrc(c) \in SUBSET Moves
      BY <1>3, RootSrcMoves
    <3>3. card'[c].pc = "move" /\ card'[c].left = RootSrc(c)
      BY <1>0, <2>3, <3>2, GoWithKeeps DEF PCs
    <3>4. \A n \in Names : n # None
      BY PackageInstallAssumption
    <3>5. /\ \A m \in card'[c].left : m[1] = Pkg(c) /\ m[2] # None
          /\ \A n \in ItemsOf(Pkg(c)) : <<Pkg(c), n>> \in card'[c].left
      BY <1>2, <3>1, <3>3, <3>4
    <3> QED
      BY <1>1, <3>3, <3>5 DEF Unpacked, At
  <2> QED
    BY <2>1, <2>2, <2>3
<1>8. CASE Tidy(c)
  <2>1. /\ At(c, "move") /\ card[c].left = {} /\ (Go(c, "setup") \/ Go(c, "failed"))
    BY <1>8 DEF Tidy
  <2>2. \A n \in ItemsOf(Pkg(c)) : InPlace(c, n)
    BY <2>1 DEF Unpacked
  <2> QED
    BY <1>a, <1>b, <1>c, <2>1, <2>2 DEF PCs
<1>9. CASE Setup(c) \/ WriteConfig(c) \/ InitData(c) \/ Clear(c) \/ (Error(c) /\ Swallowed(c))
  <2>1. /\ card[c].pc \in {"setup", "config", "initdb", "clear"}
        /\ \/ Go(c, "config") \/ Go(c, "initdb") \/ Go(c, "clear")
           \/ Go(c, "done") \/ Go(c, "failed")
    BY <1>9 DEF Setup, WriteConfig, InitData, Clear, Error, Swallowed, At
  <2>2. \A n \in ItemsOf(Pkg(c)) : InPlace(c, n)
    BY <2>1 DEF Unpacked
  <2> QED
    BY <1>a, <1>b, <1>c, <2>1, <2>2 DEF PCs
<1> QED
  BY <1>4, <1>5, <1>6, <1>7, <1>8, <1>9 DEF Prepares

(* Only a start sets a card to work. *)
LEMMA WindowCards ==
  ASSUME TypeInv, WindowStep
  PROVE  \/ \A e \in Cards : At(e, "idle")' \/ card'[e] = card[e]
         \/ \E c \in Cards : /\ start_installation(c) /\ card'[c].pc = "stop"
                             /\ card'[c].pkg = offer[c].sel
                             /\ \A e \in Cards : e # c => card'[e] = card[e]
<1>0. card \in [Cards -> CardStates]
  BY TypeParts DEF TypeInv
<1>1. ASSUME NEW c \in Cards, start_installation(c)
      PROVE  /\ card'[c].pc = "stop" /\ card'[c].pkg = offer[c].sel
             /\ \A e \in Cards : e # c => card'[e] = card[e]
  BY <1>0, <1>1 DEF start_installation
<1>2. ASSUME NEW c \in Cards, on_finished(c) \/ RecordFails(c)
      PROVE  \A e \in Cards : At(e, "idle")' \/ card'[e] = card[e]
  BY <1>0, <1>2 DEF on_finished, RecordFails, End, CardIdle, At
<1>3. ASSUME \/ \E c \in Cards : select(c)
             \/ \E d \in Dirs : StartService(d)
             \/ on_versions_fetched
      PROVE  \A e \in Cards : At(e, "idle")' \/ card'[e] = card[e]
  BY <1>3 DEF select, StartService, on_versions_fetched
<1>4. ASSUME AppCrash
      PROVE  \A e \in Cards : At(e, "idle")' \/ card'[e] = card[e]
  BY <1>4 DEF AppCrash, CardIdle, At
<1> QED
  BY <1>1, <1>2, <1>3, <1>4 DEF WindowStep

LEMMA NextInstall ==
  ASSUME AtATime = 1, TypeInv, InstallInv, [Next]_vars
  PROVE  InstallInv'
<1>0. OneAtWork /\ \A c \in Cards : Unpacked(c)
  BY DEF InstallInv
<1>1. CASE \E c \in Cards : WorkerStep(c)
  <2>1. PICK c \in Cards : WorkerStep(c)
    BY <1>1
  <2>2. ~At(c, "idle") /\ \A e \in Cards : e # c => card'[e] = card[e]
    BY <2>1, WorkerEffect
  <2>3. OneAtWork' /\ \A e \in Cards : e # c => Unpacked(e)'
    BY <1>0, <2>2, Solo, IdleUnpacked
  <2>4. Prepares(c) \/ Extract(c) \/ Move(c)
    BY <2>1 DEF WorkerStep, Prepares
  <2>5. Unpacked(c)'
    BY <1>0, <2>4, PrepareUnpacks, ExtractUnpacks, MovePlaces
  <2> QED
    BY <2>3, <2>5 DEF InstallInv
<1>2. CASE WindowStep
  <2>1. /\ UNCHANGED <<dest, temp>>
        /\ \A c \in Cards : At(c, "idle")' \/ card'[c] = card[c] \/ At(c, "stop")'
    BY <1>2, WindowEffect DEF WindowStep
  <2>2. ASSUME NEW c \in Cards PROVE Unpacked(c)'
    <3>1. CASE At(c, "idle")' \/ At(c, "stop")'
      BY <3>1 DEF Unpacked, At
    <3>2. CASE card'[c] = card[c]
      <4>1. Pkg(c)' = Pkg(c) /\ Dest(c)' = Dest(c)
        BY <3>2 DEF Pkg, Dest
      <4>2. OnlyOwn(c)' = OnlyOwn(c) /\ \A n : InPlace(c, n)' = InPlace(c, n)
        BY <2>1, <4>1 DEF OnlyOwn, InPlace
      <4>3. Unpacked(c)
        BY <1>0
      <4> QED
        BY <2>1, <3>2, <4>1, <4>2, <4>3 DEF Unpacked, At
    <3> QED
      BY <2>1, <3>1, <3>2
  <2>3. OneAtWork'
    <3>1. CASE \A e \in Cards : At(e, "idle")' \/ card'[e] = card[e]
      BY <1>0, <3>1 DEF OneAtWork, At
    <3>2. ASSUME NEW c \in Cards, start_installation(c), \A e \in Cards : e # c => card'[e] = card[e]
          PROVE  OneAtWork'
      <4> DEFINE S == {e \in Cards : ~At(e, "idle")}
      <4>1. Cardinality(S) < 1
        BY <3>2 DEF start_installation
      <4>2. IsFiniteSet(S)
        BY CardsFinite
      <4>3. Cardinality(S) \in Nat
        BY <4>2, FS_CardinalityType
      <4>4. S = {}
        BY <4>1, <4>2, <4>3, FS_EmptySet
      <4> QED
        BY <3>2, <4>4 DEF OneAtWork, At
    <3> QED
      BY <1>2, <3>1, <3>2, WindowCards
  <2> QED
    BY <2>2, <2>3 DEF InstallInv
<1>3. CASE UNCHANGED vars
  BY <1>3 DEF vars, disk, folder, InstallInv, OneAtWork, Unpacked, At, Pkg, Dest, InPlace, OnlyOwn
<1> QED
  BY <1>1, <1>2, <1>3, NextCases

LEMMA InitInstall == Init => InstallInv
<1> SUFFICES ASSUME Init PROVE InstallInv
  OBVIOUS
<1>1. \A c \in Cards : card[c].pc = "idle"
  BY DEF Init, CardIdle
<1> QED
  BY <1>1 DEF InstallInv, OneAtWork, Unpacked, At

(* "successfully installed" (app.py:1047) is true of every item of the zip, *)
(* whatever earlier installations left in downloads/ and the folders, if    *)
(* one card at a time is set to work: two share temp_extract.               *)
THEOREM InstallsAreWhole == AtATime = 1 => (Spec => []InstalledAsAnnounced)
<1> SUFFICES ASSUME AtATime = 1 PROVE Spec => []InstalledAsAnnounced
  OBVIOUS
<1>1. InstallInv => InstalledAsAnnounced
  BY DEF InstallInv, Unpacked, InstalledAsAnnounced, InPlace, At
<1>2. TypeInv /\ InstallInv /\ [Next]_vars => InstallInv'
  BY NextInstall
<1> QED
  BY <1>1, <1>2, InitType, NextType, InitInstall, PTL DEF Spec

-----------------------------------------------------------------------------
(* Nothing but a failure of mysql_install_db leaves half a data folder. *)
DataInv ==
  /\ data = "half" => broken
  /\ \A c \in Cards : c = "mysql" /\ card[c].pc \in {"clear", "done"} /\ ~broken => data = "whole"

ConfiguredInv ==
  \A c \in Cards : card[c].pc \in {"initdb", "clear", "done"} /\ c # "nginx" =>
                     Dest(c) \in ready \cup spoiled

(* The steps after the move. *)
Completes(c) ==
  \/ Setup(c) \/ WriteConfig(c) \/ InitData(c) \/ Clear(c) \/ (Error(c) /\ Swallowed(c))

(* Where a step of a worker that moves nothing leads. *)
LEMMA PrepareGoes ==
  ASSUME TypeInv, NEW c \in Cards, Prepares(c)
  PROVE  /\ card'[c].pc # "idle"
         /\ Completes(c) \/ card'[c].pc \notin {"initdb", "clear", "done"}
         /\ InitData(c) \/ UNCHANGED <<data, broken>>
<1>0. ~At(c, "idle") /\ Pkg(c) \in Packages /\ ItemsOf(Pkg(c)) \subseteq Names /\ temp \in TempStates
  BY PrepareEffect, AtWork, TypeParts DEF TypeInv, DiskTypes
<1>1. InitData(c) \/ UNCHANGED <<data, broken>>
  BY DEF Prepares, StopService, OpenZip, Download, CleanTemp, OpenTemp, List, Tidy, Setup, Clear,
         WriteConfig, Error, OnlyWorkers, disk
<1> DEFINE Early == {"open", "read", "clean", "remake", "setup", "failed"}
           Late  == {"failed", "config", "initdb", "clear", "done"}
<1>3. ASSUME NEW pc \in Early \cup Late, Go(c, pc) PROVE card'[c].pc = pc
  <2>1. pc \in PCs \ {"extract"}
    BY DEF PCs
  <2> QED
    BY <1>0, <1>3, <2>1, GoKeeps
<1>4. CASE \/ StopService(c) \/ OpenZip(c) \/ Download(c) \/ CleanTemp(c) \/ Tidy(c)
           \/ Error(c) /\ ~Swallowed(c)
  <2>1. \E pc \in Early : Go(c, pc)
    BY <1>4 DEF StopService, OpenZip, Download, CleanTemp, Tidy, Error
  <2> QED
    BY <1>1, <1>3, <2>1
<1>5. CASE Completes(c)
  <2>1. \E pc \in Late : Go(c, pc)
    BY <1>5 DEF Completes, Setup, WriteConfig, InitData, Clear, Error
  <2> QED
    BY <1>1, <1>3, <1>5, <2>1
<1>6. CASE OpenTemp(c)
  <2>1. GoWith(c, "extract", {Pkg(c)} \X ItemsOf(Pkg(c))) \/ Go(c, "failed")
    BY <1>6 DEF OpenTemp
  <2> DEFINE S == {Pkg(c)} \X ItemsOf(Pkg(c))
  <2>2. S \in SUBSET Moves /\ S \subseteq {Pkg(c)} \X ItemsOf(Pkg(c))
    BY <1>0, MovesFacts
  <2>3. GoWith(c, "extract", S) \/ Go(c, "failed")
    BY <2>1
  <2> HIDE DEF S
  <2>4. card'[c].pc \in {"extract", "failed"}
    BY <1>0, <1>3, <2>2, <2>3, GoWithKeeps DEF PCs
  <2> QED
    BY <1>1, <2>4
<1>7. CASE List(c)
  <2>1. GoWith(c, "move", RootSrc(c)) \/ Go(c, "failed")
    BY <1>7 DEF List
  <2>2. card'[c].pc \in {"move", "failed"}
    BY <1>0, <1>3, <2>1, RootSrcMoves, GoWithKeeps DEF PCs
  <2> QED
    BY <1>1, <2>2
<1> QED
  BY <1>4, <1>5, <1>6, <1>7 DEF Prepares, Completes

LEMMA ExtractMoveGo ==
  ASSUME TypeInv, NEW c \in Cards, Extract(c) \/ Move(c)
  PROVE  /\ card'[c].pc \in {"extract", "list", "move", "failed"}
         /\ UNCHANGED <<data, broken>>
<1>1. CASE Extract(c)
  <2>1. \E n \in ItemsOf(Pkg(c)) : card'[c].pc = IF card'[c].left = {} THEN "list" ELSE "extract"
    BY <1>1, ExtractEffect
  <2> QED
    BY <1>1, <2>1, ExtractEffect
<1>2. CASE Move(c)
  <2>1. ~Extract(c)
    BY <1>2, MoveEffect, ExtractEffect DEF At
  <2> QED
    BY <1>2, <2>1, MoveEffect
<1> QED
  BY <1>1, <1>2

(* The sample from which a package is set up is there. *)
LEMMA SetupPresent ==
  ASSUME TypeInv, InstallInv, NEW c \in Cards, At(c, "setup") \/ At(c, "config")
  PROVE  Present(c)
<1>1. (At(c, "setup") \/ At(c, "config")) /\ Unpacked(c)
  BY DEF InstallInv
<1>2. \A n \in ItemsOf(Pkg(c)) : dest[Dest(c)][n] = Pkg(c)
  BY <1>1 DEF Unpacked, At, InPlace
<1>3. Pkg(c) \in Packages /\ Pkg(c)[1] = c /\ Pkg(c) # None
  BY <1>1, AtWork DEF At
<1>4. Sample[c] \in ItemsOf(Pkg(c))
  BY <1>3, PackageFacts
<1> QED
  BY <1>2, <1>3, <1>4 DEF Present

LEMMA NextData ==
  ASSUME TypeInv, InstallInv, DataInv, [Next]_vars
  PROVE  DataInv'
<1>0. /\ data = "half" => broken
      /\ \A e \in Cards : e = "mysql" /\ card[e].pc \in {"clear", "done"} /\ ~broken => data = "whole"
      /\ data \in {"none", "half", "whole"}
  BY TypeParts DEF DataInv, TypeInv, WindowTypes
<1>1. ASSUME NEW c \in Cards, WorkerStep(c) PROVE DataInv'
  <2>1. \A e \in Cards : e # c => card'[e] = card[e]
    BY <1>1, WorkerEffect
  <2>2. CASE InitData(c)
    <3>1. data' \in {"none", "half", "whole"} /\ broken' = (data' # "whole")
      BY <2>2 DEF InitData
    <3> QED
      BY <3>1 DEF DataInv
  <2>3. CASE UNCHANGED <<data, broken>> /\ card'[c].pc \notin {"clear", "done"}
    BY <1>0, <2>1, <2>3 DEF DataInv
  <2>4. CASE (Setup(c) \/ WriteConfig(c)) /\ UNCHANGED <<data, broken>>
    <3>1. Present(c) /\ ~At(c, "idle")
      BY <2>4, SetupPresent DEF Setup, WriteConfig, At
    <3>2. CASE NeedsData(c)
      <4>1. Go(c, "config") \/ Go(c, "initdb") \/ Go(c, "failed")
        BY <2>4, <3>2 DEF Setup, WriteConfig, NeedsData
      <4>2. card'[c].pc \notin {"clear", "done"}
        BY <3>1, <4>1, GoKeeps DEF PCs
      <4> QED
        BY <2>3, <2>4, <4>2
    <3>3. CASE ~NeedsData(c)
      <4>1. c = "mysql" => data # "none"
        BY <3>1, <3>3 DEF NeedsData
      <4> QED
        BY <1>0, <2>1, <2>4, <4>1 DEF DataInv
    <3> QED
      BY <3>2, <3>3
  <2>5. CASE Clear(c) /\ UNCHANGED <<data, broken>>
    <3>1. card[c].pc = "clear"
      BY <2>5 DEF Clear, At
    <3> QED
      BY <1>0, <2>1, <2>5, <3>1 DEF DataInv
  <2>6. CASE Swallowed(c) /\ UNCHANGED <<data, broken>>
    BY <1>0, <2>1, <2>6 DEF DataInv, Swallowed
  <2> QED
    BY <1>1, <2>2, <2>3, <2>4, <2>5, <2>6, PrepareGoes, ExtractMoveGo
       DEF WorkerStep, Prepares, Completes
<1>2. CASE WindowStep
  <2>1. CASE AppCrash
    <3>1. \A c \in Cards : card'[c].pc = "idle"
      BY <2>1 DEF AppCrash, CardIdle
    <3>2. UNCHANGED <<data, broken>> \/ broken' = (data' = "half")
      BY <2>1 DEF AppCrash
    <3> QED
      BY <1>0, <3>1, <3>2 DEF DataInv
  <2>2. CASE ~AppCrash
    <3>1. UNCHANGED <<data, broken>>
      BY <1>2, <2>2 DEF WindowStep, start_installation, on_finished, RecordFails, select,
                        StartService, on_versions_fetched, disk
    <3>2. \A c \in Cards : At(c, "idle")' \/ card'[c] = card[c] \/ At(c, "stop")'
      BY <1>2, WindowEffect DEF WindowStep
    <3> QED
      BY <1>0, <3>1, <3>2 DEF DataInv, At
  <2> QED
    BY <2>1, <2>2
<1>3. CASE UNCHANGED vars
  BY <1>3 DEF vars, disk, DataInv
<1> QED
  BY <1>1, <1>2, <1>3, NextCases

LEMMA NextConfigured ==
  ASSUME TypeInv, InstallInv, ConfiguredInv, [Next]_vars
  PROVE  ConfiguredInv'
<1>0. OneAtWork
  BY DEF InstallInv
<1>1. ASSUME NEW c \in Cards, WorkerStep(c) PROVE ConfiguredInv'
  <2>1. ~At(c, "idle") /\ card'[c].pkg = Pkg(c) /\ \A e \in Cards : e # c => card'[e] = card[e]
    BY <1>1, WorkerEffect
  <2>2. \A e \in Cards : e # c => At(e, "idle")'
    BY <1>0, <2>1, Solo
  <2>3. Dest(c)' = Dest(c)
    BY <2>1 DEF Dest, Pkg
  <2>4. CASE card'[c].pc \notin {"initdb", "clear", "done"}
    BY <2>2, <2>4 DEF ConfiguredInv, At
  <2>5. CASE Setup(c)
    <3>1. Present(c)
      BY <2>5, SetupPresent DEF Setup
    <3>2. CASE NeedsConfig(c)
      <4>1. Go(c, "config")
        BY <2>5, <3>2 DEF Setup
      <4>2. card'[c].pc = "config"
        BY <2>1, <4>1, GoKeeps DEF PCs
      <4> QED
        BY <2>4, <4>2
    <3>3. CASE ~NeedsConfig(c)
      <4>1. UNCHANGED <<ready, spoiled>>
        BY <2>5, <3>3 DEF Setup
      <4>2. c # "nginx" => Dest(c) \in ready \cup spoiled
        BY <3>1, <3>3 DEF NeedsConfig, Exists
      <4> QED
        BY <2>2, <2>3, <4>1, <4>2 DEF ConfiguredInv, At
    <3> QED
      BY <3>2, <3>3
  <2>6. CASE InitData(c) \/ Clear(c)
    <3>1. UNCHANGED <<ready, spoiled>> /\ card[c].pc \in {"initdb", "clear"}
      BY <2>6 DEF InitData, Clear, At
    <3> QED
      BY <2>2, <2>3, <3>1 DEF ConfiguredInv, At
  <2>7. CASE WriteConfig(c)
    <3>1. Dest(c) \in ready'
      BY <2>7 DEF WriteConfig
    <3> QED
      BY <2>2, <2>3, <3>1 DEF ConfiguredInv, At
  <2>8. CASE Error(c) /\ Swallowed(c)
    <3>1. Dest(c) \in spoiled'
      BY <2>8 DEF Error
    <3> QED
      BY <2>2, <2>3, <3>1 DEF ConfiguredInv, At
  <2> QED
    BY <1>1, <2>4, <2>5, <2>6, <2>7, <2>8, PrepareGoes, ExtractMoveGo
       DEF WorkerStep, Prepares, Completes
<1>2. CASE WindowStep
  <2>1. /\ UNCHANGED <<ready, spoiled>>
        /\ \A c \in Cards : At(c, "idle")' \/ card'[c] = card[c] \/ At(c, "stop")'
    BY <1>2, WindowEffect DEF WindowStep
  <2> QED
    BY <2>1 DEF ConfiguredInv, At, Dest, Pkg
<1>3. CASE UNCHANGED vars
  BY <1>3 DEF vars, disk, ConfiguredInv, Dest, Pkg
<1> QED
  BY <1>1, <1>2, <1>3, NextCases

(* MariaDB is announced with usable data unless mysql_install_db itself     *)
(* failed, also after a kill between its two setup steps (app.py 1110-1158). *)
THEOREM DataIsWhole == AtATime = 1 => (Spec => []DataWhenAnnounced)
<1> SUFFICES ASSUME AtATime = 1 PROVE Spec => []DataWhenAnnounced
  OBVIOUS
<1>1. Init => DataInv
  BY DEF Init, DataInv, CardIdle
<1>2. DataInv => DataWhenAnnounced
  BY DEF DataInv, DataWhenAnnounced, At
<1>3. TypeInv /\ InstallInv /\ [Next]_vars => InstallInv'
  BY NextInstall
<1>4. TypeInv /\ InstallInv /\ DataInv /\ [Next]_vars => DataInv'
  BY NextData
<1> QED
  BY <1>1, <1>2, <1>3, <1>4, InitType, NextType, InitInstall, PTL DEF Spec

(* "Configuring package..." (app.py:1002) is kept for every package but     *)
(* Nginx, for which the run stock_nginx refutes it: also over what another  *)
(* version, a failed installation or a kill left in the folder.  A folder   *)
(* whose configuration file is one that was emptied and never written, or   *)
(* Apache's after a swallowed error (app.py:466), is not among them.        *)
THEOREM OthersAreConfigured ==
  AtATime = 1 /\ "nginx" \notin Cards => (Spec => []ConfiguredWhenAnnounced)
<1> SUFFICES ASSUME AtATime = 1, "nginx" \notin Cards PROVE Spec => []ConfiguredWhenAnnounced
  OBVIOUS
<1>1. Init => ConfiguredInv
  BY DEF Init, ConfiguredInv, CardIdle
<1>2. ConfiguredInv => ConfiguredWhenAnnounced
  BY DEF ConfiguredInv, ConfiguredWhenAnnounced, At
<1>3. TypeInv /\ InstallInv /\ [Next]_vars => InstallInv'
  BY NextInstall
<1>4. TypeInv /\ InstallInv /\ ConfiguredInv /\ [Next]_vars => ConfiguredInv'
  BY NextConfigured
<1> QED
  BY <1>1, <1>2, <1>3, <1>4, InitType, NextType, InitInstall, PTL DEF Spec

-----------------------------------------------------------------------------
(* The record of a card that is its own names a package that is in place. *)
Kept(c) ==
  /\ recorded # None /\ recorded[c] \in Of(c)
  /\ \A n \in ItemsOf(recorded[c]) : dest[Dir(recorded[c])][n] = recorded[c]

Claimed(c) ==
  /\ At(c, "idle") => claim[c] # "misled"
  /\ ~At(c, "idle") /\ claim[c] # "misled" => offer[c].sel = Pkg(c)
  /\ claim[c] = "own" => Kept(c)

RecordInv == \A c \in Cards : Claimed(c)

(* Whatever leaves a card, its record and its folder alone. *)
LEMMA KeptAlone ==
  ASSUME NEW c \in Cards, Kept(c), recorded' # None, recorded'[c] = recorded[c],
         dest'[Dir(recorded[c])] = dest[Dir(recorded[c])]
  PROVE  Kept(c)'
BY DEF Kept

LEMMA ClaimAlone ==
  ASSUME NEW c \in Cards, Claimed(c), card'[c] = card[c], claim'[c] = claim[c],
         offer'[c].sel = offer[c].sel, Kept(c) => Kept(c)'
  PROVE  Claimed(c)'
BY DEF Claimed, At, Pkg

LEMMA WorkerRecords ==
  ASSUME TypeInv, RecordInv, NEW c \in Cards, WorkerStep(c)
  PROVE  RecordInv'
<1>1. /\ ~At(c, "idle") /\ card'[c].pkg = Pkg(c) /\ UNCHANGED <<offer, recorded, php>>
      /\ \A e \in Cards : e # c => card'[e] = card[e]
  BY WorkerEffect
<1>2. card'[c].pc # "idle"
  BY PrepareGoes, ExtractMoveGo DEF WorkerStep, Prepares
<1>3. claim \in [Cards -> {"none", "own", "misled"}] /\ \A e \in Cards : Claimed(e)
  BY TypeParts DEF TypeInv, WindowTypes, RecordInv
<1>4. CASE Move(c)
  <2>1. /\ claim' = [claim EXCEPT ![c] = IF @ = "own" THEN "none" ELSE @]
        /\ \A d \in Dirs : d # Dest(c) => dest'[d] = dest[d]
    BY <1>4, MoveEffect
  <2>2. Claimed(c)'
    <3>1. claim'[c] # "own" /\ (claim'[c] = "misled" <=> claim[c] = "misled")
      BY <1>3, <2>1
    <3> QED
      BY <1>1, <1>2, <1>3, <3>1 DEF Claimed, At, Pkg
  <2>3. ASSUME NEW e \in Cards, e # c PROVE Claimed(e)'
    <3>1. claim'[e] = claim[e] /\ card'[e] = card[e]
      BY <1>1, <1>3, <2>1, <2>3
    <3>2. ASSUME Kept(e) PROVE Kept(e)'
      <4>1. recorded[e] \in Packages /\ recorded[e][1] = e
        BY <3>2 DEF Kept, Of
      <4>2. Dir(recorded[e]) \in Dirs /\ Dir(recorded[e])[1] = e /\ Dest(c)[1] = c
        BY <1>1, <4>1, PackageFacts, AtWork
      <4>3. dest'[Dir(recorded[e])] = dest[Dir(recorded[e])]
        BY <2>1, <2>3, <4>2
      <4>4. recorded' = recorded /\ recorded # None
        BY <1>1, <3>2 DEF Kept
      <4> QED
        BY <3>2, <4>3, <4>4, KeptAlone
    <3> QED
      BY <1>1, <1>3, <3>1, <3>2, ClaimAlone
  <2> QED
    BY <2>2, <2>3 DEF RecordInv
<1>5. CASE ~Move(c)
  <2>1. Prepares(c) \/ Extract(c)
    BY <1>5 DEF WorkerStep, Prepares
  <2>2. UNCHANGED <<dest, claim>>
    BY <2>1, PrepareEffect, ExtractEffect
  <2>3. \A e \in Cards : Kept(e)' = Kept(e)
    BY <1>1, <2>2 DEF Kept
  <2>4. Claimed(c)'
    BY <1>1, <1>2, <1>3, <2>2, <2>3 DEF Claimed, At, Pkg
  <2>5. \A e \in Cards : e # c => Claimed(e)'
    BY <1>1, <1>3, <2>2, <2>3, ClaimAlone
  <2> QED
    BY <2>4, <2>5 DEF RecordInv
<1> QED
  BY <1>4, <1>5

(* What the end of an installation writes. *)
LEMMA FinishRecords ==
  ASSUME TypeInv, InstallInv, RecordInv, NEW c \in Cards, on_finished(c)
  PROVE  RecordInv'
<1>1. /\ claim \in [Cards -> {"none", "own", "misled"}] /\ recorded \in {None} \cup Records
      /\ card \in [Cards -> CardStates] /\ \A e \in Cards : Claimed(e)
  BY TypeParts DEF TypeInv, WindowTypes, RecordInv
<1>2. /\ card' = [card EXCEPT ![c] = CardIdle] /\ UNCHANGED <<offer, dest>>
      /\ recorded' = IF At(c, "done") THEN [InstalledPackages EXCEPT ![c] = offer[c].sel] ELSE recorded
      /\ claim' = [claim EXCEPT ![c] = IF At(c, "done") /\ @ # "misled" THEN "own"
                                       ELSE IF @ = "misled" THEN "none" ELSE @]
  BY DEF on_finished, End, disk
<1>3. ~At(c, "idle") /\ card[c].pc \in {"done", "failed"}
  BY DEF on_finished, At
<1>4. At(c, "idle")'
  BY <1>1, <1>2 DEF At, CardIdle
<1>5. claim'[c] = IF At(c, "done") /\ claim[c] # "misled" THEN "own"
                  ELSE IF claim[c] = "misled" THEN "none" ELSE claim[c]
  BY <1>1, <1>2
<1>6. \A e \in Cards : e # c => claim'[e] = claim[e] /\ card'[e] = card[e]
  BY <1>1, <1>2
<1>7. CASE ~At(c, "done")
  <2>1. \A e \in Cards : Kept(e)' = Kept(e)
    BY <1>2, <1>7 DEF Kept
  <2>2. Claimed(c)'
    BY <1>1, <1>4, <1>5, <1>7, <2>1 DEF Claimed, At
  <2>3. \A e \in Cards : e # c => Claimed(e)'
    BY <1>1, <1>2, <1>6, <2>1, ClaimAlone
  <2> QED
    BY <2>2, <2>3 DEF RecordInv
<1>8. CASE At(c, "done")
  <2>1. InstalledPackages \in Records /\ offer[c].sel \in Packages
    BY RecordTypes, Offered, TypeParts DEF TypeInv, WindowTypes, Of
  <2>2. PICK r \in Records : r = InstalledPackages
    BY <2>1
  <2>3. recorded' = [r EXCEPT ![c] = offer[c].sel]
    BY <1>2, <1>8, <2>2
  <2>4. /\ recorded' \in Records /\ recorded'[c] = offer[c].sel
        /\ \A e \in Cards : e # c => recorded'[e] = r[e]
    BY <2>1, <2>3 DEF Records
  <2>5. recorded' # None
    BY <2>4, PackageInstallAssumption
  <2>6. Claimed(c)'
    <3>1. CASE claim[c] = "misled"
      BY <1>4, <1>5, <3>1 DEF Claimed, At
    <3>2. CASE claim[c] # "misled"
      <4>1. claim'[c] = "own" /\ offer[c].sel = Pkg(c)
        BY <1>1, <1>3, <1>5, <1>8, <3>2 DEF Claimed
      <4>2. recorded'[c] = Pkg(c) /\ Pkg(c) \in Of(c)
        BY <1>3, <2>4, <4>1 DEF TypeInv, WorkInv
      <4>3. \A n \in ItemsOf(Pkg(c)) : dest[Dir(Pkg(c))][n] = Pkg(c)
        BY <1>8 DEF InstallInv, Unpacked, At, InPlace, Dest
      <4>4. Kept(c)'
        BY <1>2, <2>5, <4>2, <4>3 DEF Kept
      <4> QED
        BY <1>4, <4>1, <4>4 DEF Claimed, At
    <3> QED
      BY <3>1, <3>2
  <2>7. ASSUME NEW e \in Cards, e # c PROVE Claimed(e)'
    <3>1. ASSUME Kept(e) PROVE Kept(e)'
      <4>1. r = recorded
        BY <2>2, <3>1 DEF Kept, InstalledPackages
      <4> QED
        BY <1>2, <2>4, <2>5, <2>7, <3>1, <4>1, KeptAlone
    <3> QED
      BY <1>1, <1>2, <1>6, <2>7, <3>1, ClaimAlone
  <2> QED
    BY <2>6, <2>7 DEF RecordInv
<1> QED
  BY <1>7, <1>8

(* A record that is emptied is nobody's own; one that cannot be opened is  *)
(* that of the others still.                                               *)
LEMMA FailureRecords ==
  ASSUME TypeInv, RecordInv, NEW c \in Cards, RecordFails(c)
  PROVE  RecordInv'
<1>1. /\ claim \in [Cards -> {"none", "own", "misled"}]
      /\ card \in [Cards -> CardStates] /\ \A e \in Cards : Claimed(e)
  BY TypeParts DEF TypeInv, WindowTypes, RecordInv
<1>2. card' = [card EXCEPT ![c] = CardIdle] /\ UNCHANGED <<offer, dest>>
  BY DEF RecordFails, End, disk
<1>3. At(c, "idle")' /\ \A e \in Cards : e # c => card'[e] = card[e]
  BY <1>1, <1>2 DEF At, CardIdle
<1>4. CASE recorded' = recorded /\ claim' = [claim EXCEPT ![c] = "none"]
  <2>1. claim'[c] = "none" /\ \A e \in Cards : e # c => claim'[e] = claim[e]
    BY <1>1, <1>4
  <2>2. \A e \in Cards : Kept(e)' = Kept(e)
    BY <1>2, <1>4 DEF Kept
  <2>3. \A e \in Cards : e # c => Claimed(e)'
    BY <1>1, <1>2, <1>3, <2>1, <2>2, ClaimAlone
  <2>4. Claimed(c)'
    BY <1>3, <2>1 DEF Claimed, At
  <2> QED
    BY <2>3, <2>4 DEF RecordInv
<1>5. CASE claim' = [Forgotten EXCEPT ![c] = "none"]
  <2>1. claim'[c] = "none"
    BY <1>5 DEF Forgotten
  <2>2. \A e \in Cards : e # c => claim'[e] = IF claim[e] = "own" THEN "none" ELSE claim[e]
    BY <1>5 DEF Forgotten
  <2>3. ASSUME NEW e \in Cards, e # c PROVE Claimed(e)'
    BY <1>1, <1>2, <1>3, <2>2, <2>3 DEF Claimed, At, Pkg
  <2>4. Claimed(c)'
    BY <1>3, <2>1 DEF Claimed, At
  <2> QED
    BY <2>3, <2>4 DEF RecordInv
<1> QED
  BY <1>4, <1>5 DEF RecordFails

LEMMA WindowRecords ==
  ASSUME TypeInv, InstallInv, RecordInv, WindowStep
  PROVE  RecordInv'
<1>1. /\ claim \in [Cards -> {"none", "own", "misled"}] /\ offer \in OfferLists
      /\ card \in [Cards -> CardStates] /\ \A e \in Cards : Claimed(e)
  BY TypeParts DEF TypeInv, WindowTypes, RecordInv
<1>2. CASE \E c \in Cards : on_finished(c)
  BY <1>2, FinishRecords
<1>2a. CASE \E c \in Cards : RecordFails(c)
  BY <1>2a, FailureRecords
<1>2b. CASE AppCrash
  <2>1. card' = [c \in Cards |-> CardIdle] /\ dest' = dest
    BY <1>2b DEF AppCrash
  <2>2. \A e \in Cards : At(e, "idle")'
    BY <2>1 DEF At, CardIdle
  <2>3. CASE recorded' = recorded /\ claim' = [c \in Cards |-> IF claim[c] = "misled" THEN "none" ELSE claim[c]]
    <3>1. \A e \in Cards : Kept(e)' = Kept(e)
      BY <2>1, <2>3 DEF Kept
    <3>2. \A e \in Cards : claim'[e] = IF claim[e] = "misled" THEN "none" ELSE claim[e]
      BY <2>3
    <3> QED
      BY <1>1, <2>2, <3>1, <3>2 DEF RecordInv, Claimed, At
  <2>4. CASE claim' = [c \in Cards |-> "none"]
    BY <2>2, <2>4 DEF RecordInv, Claimed, At
  <2> QED
    BY <1>2b, <2>3, <2>4 DEF AppCrash
<1>3. CASE ~AppCrash /\ ~\E c \in Cards : on_finished(c) \/ RecordFails(c)
  <2>1. UNCHANGED <<dest, recorded>>
    BY <1>3 DEF WindowStep, start_installation, select, StartService, on_versions_fetched, disk
  <2>2. \A e \in Cards : Kept(e)' = Kept(e)
    BY <2>1 DEF Kept
  <2>3. ASSUME NEW c \in Cards, start_installation(c) PROVE RecordInv'
    <3>1. /\ At(c, "idle") /\ UNCHANGED <<offer, claim>>
          /\ card' = [card EXCEPT ![c] = [pc |-> "stop", pkg |-> offer[c].sel, left |-> {}]]
      BY <2>3 DEF start_installation
    <3>2. /\ card'[c].pc = "stop" /\ card'[c].pkg = offer[c].sel
          /\ \A e \in Cards : e # c => card'[e] = card[e]
      BY <1>1, <3>1
    <3>3. Claimed(c)'
      BY <1>1, <2>2, <3>1, <3>2 DEF Claimed, At, Pkg
    <3>4. \A e \in Cards : e # c => Claimed(e)'
      BY <1>1, <2>2, <3>1, <3>2, ClaimAlone
    <3> QED
      BY <3>3, <3>4 DEF RecordInv
  <2>4. ASSUME NEW c \in Cards, select(c) PROVE RecordInv'
    <3>1. At(c, "idle") /\ UNCHANGED <<card, claim>>
      BY <2>4 DEF select
    <3>2. PICK p : offer' = [offer EXCEPT ![c].sel = p]
      BY <2>4 DEF select
    <3>3. \A e \in Cards : e # c => offer'[e] = offer[e]
      BY <1>1, <3>2 DEF OfferLists
    <3>4. Claimed(c)'
      BY <1>1, <2>2, <3>1 DEF Claimed, At
    <3>5. \A e \in Cards : e # c => Claimed(e)'
      BY <1>1, <2>2, <3>1, <3>3, ClaimAlone
    <3> QED
      BY <3>4, <3>5 DEF RecordInv
  <2>5. ASSUME NEW d \in Dirs, StartService(d) PROVE RecordInv'
    <3>1. UNCHANGED <<card, claim, offer>>
      BY <2>5 DEF StartService
    <3> QED
      BY <1>1, <2>2, <3>1, ClaimAlone DEF RecordInv
  <2>6. ASSUME on_versions_fetched PROVE RecordInv'
    <3>1. /\ card' = card
          /\ claim' = [c \in Cards |-> IF ~At(c, "idle") /\ offer'[c].sel # offer[c].sel
                                       THEN "misled" ELSE claim[c]]
      BY <2>6 DEF on_versions_fetched
    <3>2. ASSUME NEW e \in Cards PROVE Claimed(e)'
      <4>1. claim'[e] = IF ~At(e, "idle") /\ offer'[e].sel # offer[e].sel THEN "misled" ELSE claim[e]
        BY <3>1
      <4> QED
        BY <1>1, <2>2, <3>1, <4>1 DEF Claimed, At, Pkg
    <3> QED
      BY <3>2 DEF RecordInv
  <2> QED
    BY <1>3, <2>3, <2>4, <2>5, <2>6 DEF WindowStep
<1> QED
  BY <1>2, <1>2a, <1>2b, <1>3

LEMMA NextRecords ==
  ASSUME TypeInv, InstallInv, RecordInv, [Next]_vars
  PROVE  RecordInv'
<1>1. CASE UNCHANGED vars
  BY <1>1 DEF vars, disk, RecordInv, Claimed, Kept, At, Pkg
<1> QED
  BY <1>1, WorkerRecords, WindowRecords, NextCases

(* What on_finished records is the package in the folder, until files of    *)
(* the next one are moved in (app.py 1351), unless a list that arrived      *)
(* while the card was at work changed its selection, or a save of the file  *)
(* failed or was cut off since: the next load guesses (app.py 750-769).     *)
THEOREM RecordsAreTrue == AtATime = 1 => (Spec => []RecordTellsTheTruth)
<1> SUFFICES ASSUME AtATime = 1 PROVE Spec => []RecordTellsTheTruth
  OBVIOUS
<1>1. Init => RecordInv
  BY DEF Init, RecordInv, Claimed, At, CardIdle
<1>2. RecordInv => RecordTellsTheTruth
  BY DEF RecordInv, Claimed, Kept, RecordTellsTheTruth, Of
<1>3. TypeInv /\ InstallInv /\ [Next]_vars => InstallInv'
  BY NextInstall
<1>4. TypeInv /\ InstallInv /\ RecordInv /\ [Next]_vars => RecordInv'
  BY NextRecords
<1> QED
  BY <1>1, <1>2, <1>3, <1>4, InitType, NextType, InitInstall, PTL DEF Spec
=============================================================================
