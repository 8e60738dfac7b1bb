-------------------------- MODULE MCDispatchSemaphore --------------------------
(* Threads of one kind that wait and signal as they like.                     *)
EXTENDS DispatchSemaphore, TLC

Symmetry == Permutations(Thread)
================================================================================
