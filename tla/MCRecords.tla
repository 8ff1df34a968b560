----------------------------- MODULE MCRecords -----------------------------
(* Records on a small instance; threads are interchangeable. *)
EXTENDS Records, TLC

ThreadSymmetry == Permutations(Threads)
=============================================================================
