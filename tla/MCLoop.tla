------------------------------- MODULE MCLoop -------------------------------
(* Loop for TLC: the timers of a program are interchangeable. *)
EXTENDS Loop
TimerSymmetry == Permutations(Timers)
=============================================================================
