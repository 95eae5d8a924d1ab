-------------------------- MODULE MCWorkflowEngine --------------------------
(* The shapes of instances base.py builds, on three tasks. *)
EXTENDS WorkflowEngine, TLC

CONSTANTS a, b, c

(* BaseApprovalWorkflow and BaseProcessWorkflow: a, then b, then c. *)
Sequential == (a :> b) @@ (b :> c) @@ (c :> NoTask)

(* BaseProcessWorkflow with parallel_execution: a and b, merged by c. *)
Parallel == (a :> c) @@ (b :> c) @@ (c :> NoTask)

(* A user task before a system task. *)
Short == (a :> c) @@ (c :> NoTask)

Symmetry == Permutations(Users)
=============================================================================
