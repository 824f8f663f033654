----------------------------- MODULE MCEphemeral -----------------------------
(* Instances of Ephemeral for TLC. *)
EXTENDS Ephemeral

TwoRunners == 1 .. 2
Nobody == 0
==============================================================================
