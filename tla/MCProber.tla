------------------------------ MODULE MCProber ------------------------------
(* Small instances of Prober for TLC: one unit of time stands for 5 s, so    *)
(* that schedulerTick is 3, probeTimeout (8 s) 2, the minimal interval 2 and *)
(* the loop can be busy for longer than a tick.                              *)
EXTENDS Prober, TLC

Symmetry == Permutations(Check) \cup Permutations(Tenant)
=============================================================================
