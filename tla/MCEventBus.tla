----------------------------- MODULE MCEventBus -----------------------------
(* Model values and symmetry for the runs of EventBus. *)
EXTENDS EventBus, TLC

Symmetry == Permutations(Consumers)
=============================================================================
