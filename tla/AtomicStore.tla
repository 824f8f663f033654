----------------------------- MODULE AtomicStore -----------------------------
(***************************************************************************)
(* What the state store promises a command: each operation takes effect    *)
(* and answers in one step, an error means that it changed nothing, and a  *)
(* process that dies has done its operation entirely or not at all.        *)
(***************************************************************************)
EXTENDS StateSchema

VARIABLES entries,  \* the saved entries
          req,      \* req[p]: the operation p asked for, or NoOp
          res       \* res[p]: its answer, "none" until it took effect

vars == <<entries, req, res>>

Init ==
  /\ entries \in Entries
  /\ req = [p \in Procs |-> NoOp]
  /\ res = [p \in Procs |-> "none"]

Invoke(p) ==
  /\ req[p] = NoOp
  /\ \E o \in Ops : req' = [req EXCEPT ![p] = o]
  /\ UNCHANGED <<entries, res>>

Execute(p) ==
  /\ req[p] # NoOp /\ res[p] = "none"
  /\ entries' = IF Writes(req[p], entries) THEN After(req[p], entries) ELSE entries
  /\ res' = [res EXCEPT ![p] = Answer(req[p], entries)]
  /\ UNCHANGED req

Fail(p) ==
  /\ req[p] # NoOp /\ res[p] = "none"
  /\ res' = [res EXCEPT ![p] = "error"]
  /\ UNCHANGED <<entries, req>>

\* The answer is delivered, or the process died with the operation.
Leave(p) ==
  /\ req[p] # NoOp
  /\ req' = [req EXCEPT ![p] = NoOp]
  /\ res' = [res EXCEPT ![p] = "none"]
  /\ UNCHANGED entries

Next == \E p \in Procs : Invoke(p) \/ Execute(p) \/ Fail(p) \/ Leave(p)

Spec == Init /\ [][Next]_vars

==============================================================================
