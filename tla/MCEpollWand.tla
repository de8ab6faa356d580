---------------------------- MODULE MCEpollWand -----------------------------
(* Small instances of EpollWand: tasks and hub addresses are model values. *)
EXTENDS EpollWand, TLC

Symmetry == Permutations(Tasks) \cup Permutations(Execs)
=============================================================================
