-------------------------- MODULE MCCloudLifecycle --------------------------
(* Instances of CloudLifecycle for TLC. *)
EXTENDS CloudLifecycle, TLC

\* Machines and processes are interchangeable.  Sound for the safety runs
\* only: the liveness runs do without it.
Symmetry == Permutations(Machines) \cup Permutations(Procs)

\* The history variable decides no step: where no property reads it, states
\* that differ only in it are one.
WithoutHistory == <<accountVars, rec, hostVars, procVars>>

==============================================================================
