--------------------------- MODULE MCCommandLine ---------------------------
(* Values of the constants of CommandLine for TLC. *)
EXTENDS CommandLine, TLC

CONSTANTS p1, p2, p3, p4, p5, v1, v2

DistinctPorts == [nginx |-> 80, apache |-> 8080, mysql |-> 3306, php |-> 9000]

PidSymmetry == Permutations(Pids)
=============================================================================
