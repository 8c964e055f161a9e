---------------------- MODULE MCConsciousnessScheduler ----------------------
(* Small instances of ConsciousnessScheduler for TLC.                      *)
EXTENDS ConsciousnessScheduler, TLC

(* Agents are interchangeable and so are clients: no definition names one. *)
(* Only the runs without liveness properties use it.                       *)
Symmetry == Permutations(Agents) \cup Permutations(Clients)
=============================================================================
