---------------------------- MODULE MCConfigFiles ----------------------------
(* Values of the constants of ConfigFiles and PortSettings for TLC. *)
EXTENDS ConfigFiles, TLC

CONSTANTS w1, w2

Defaults == [nginx |-> 80, apache |-> 80, mysql |-> 3306, php |-> 9000]

(* The port of one server changes, and PHP's, which two servers have to be *)
(* told of, alone or with it; one setting is refused.                      *)
SomeSettings ==
  {Defaults,
   [Defaults EXCEPT !["nginx"] = 8080],
   [Defaults EXCEPT !["nginx"] = 8080, !["php"] = 9001],
   [Defaults EXCEPT !["php"] = 65536]}

(* Every php.ini comes with one line; the editor may take it out.          *)
SomeLines == [v \in Versions |-> {"curl"}]

(* A text with another port, in which the line for PHP is missing.         *)
SomeTexts == {[listen |-> 8080, fcgi |-> Nothing]}

(* What is rewritten for ports and what is rewritten for PHP have no       *)
(* variable in common but tab, editor and events, and no property relates  *)
(* the two: the run goes no further once both have been touched.           *)
PortsUntouched ==
  /\ PORTS = DefaultPorts /\ file = Said(DefaultPorts)
  /\ harmed = {} /\ mending = "no" /\ \A w \in Workers : job[w] = NoJob

PhpUntouched ==
  /\ php = PhpDown /\ boxes = Nothing
  /\ active = NewestVersion /\ entry = NewestVersion
  /\ ini = [v \in Versions |-> Whole(v, {})] /\ asked = ini
  /\ races = {} /\ unread = {} /\ \A w \in Workers : ~Busy(w)

OneSide == PortsUntouched \/ PhpUntouched

WorkerSymmetry == Permutations(Workers)
=============================================================================
