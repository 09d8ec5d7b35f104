------------------------ MODULE MCExpectedGeneration ------------------------
(* The kinds of workload, for ExpectedGeneration. *)
EXTENDS ExpectedGeneration

\* Deployments, and the other kinds when the conversion is complete.
Predictable == {w \in WorkloadSet : w.notes \/ ~w.partial}
=============================================================================
