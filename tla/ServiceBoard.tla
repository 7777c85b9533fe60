---------------------------- MODULE ServiceBoard ----------------------------
(***************************************************************************)
(* What the dashboard promises to one user who presses one button at a     *)
(* time (the doc strings of README.md, "Key Features"): a press may bring  *)
(* up and take down certain services and no other, the two web servers     *)
(* never serve together, and nothing comes or goes between presses.        *)
(* It says nothing of processes, ports, pids or files.                     *)
(***************************************************************************)
EXTENDS FiniteSets

CONSTANTS BoardServices, Exclusive  \* the services; those that exclude each other

VARIABLES
  up,       \* the services that serve
  mayCome,  \* the services the press at work may still bring up
  mayGo     \* the services it may still take down

boardVars == <<up, mayCome, mayGo>>

BoardInit == up = {} /\ mayCome = {} /\ mayGo = {}

Working == mayCome \cup mayGo # {}

Request ==
  /\ ~Working
  /\ mayCome' \in SUBSET BoardServices /\ mayGo' \in SUBSET BoardServices
  /\ UNCHANGED up

Come(s) ==
  /\ s \in mayCome \ up
  /\ s \in Exclusive => up \cap Exclusive = {}
  /\ up' = up \cup {s}
  /\ UNCHANGED <<mayCome, mayGo>>

Go(s) ==
  /\ s \in mayGo \cap up
  /\ up' = up \ {s}
  /\ UNCHANGED <<mayCome, mayGo>>

(* A part of the work is over, done or given up. *)
Proceed ==
  /\ mayCome' \subseteq mayCome /\ mayGo' \subseteq mayGo
  /\ UNCHANGED up

BoardNext ==
  \/ Request \/ Proceed
  \/ \E s \in BoardServices : Come(s) \/ Go(s)

BoardSpec == BoardInit /\ [][BoardNext]_boardVars
=============================================================================
