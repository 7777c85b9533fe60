---------------------------- MODULE MCDatabase ----------------------------
(* Values of the constants of Database for TLC. *)
EXTENDS Database, TLC

CONSTANTS w1, w2, pw1, pw2, u1, d1

WorkerSymmetry == Permutations(Workers)
=============================================================================
