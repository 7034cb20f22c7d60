------------------------------- MODULE MCQue -------------------------------
(* Small instances of Que for TLC.  Threads of one role are                *)
(* interchangeable, and so are the values.                                 *)
EXTENDS Que, TLC

Symmetry == Permutations(Putters) \cup Permutations(Getters) \cup Permutations(Values)
=============================================================================
