--------------------------- MODULE MCBYOLifecycle ---------------------------
(* Instances of BYOLifecycle for TLC. *)
EXTENDS BYOLifecycle, TLC

\* What the prompts select, with the files and the record kept or dropped
\* together, and what --yes does.
SomeSelections == {s \in SUBSET Artifacts : "runner_files" \in s <=> "local_state" \in s}
YesSelection   == {Artifacts}

=============================================================================
