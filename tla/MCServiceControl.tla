-------------------------- MODULE MCServiceControl --------------------------
(* Values of the constants of ServiceControl for TLC. *)
EXTENDS ServiceControl, TLC

CONSTANTS t1, t2, p1, p2, p3, p4, p5, v1, v2

(* Two web servers on different ports: only the code keeps them apart.     *)
DistinctPorts == [nginx |-> 80, apache |-> 8080, mysql |-> 3306, php |-> 9000]

AllRequests == {"toggle", "switch", "all", "version", "extension", "exit"}

PidSymmetry    == Permutations(Pids)
ThreadSymmetry == Permutations(Pids) \cup Permutations(Threads)
=============================================================================
