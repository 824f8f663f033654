----------------------------- MODULE SharedStore -----------------------------
(***************************************************************************)
(* What the state store promises commands that overlap: less than          *)
(* AtomicStore.  A process reads all entries in one step and replaces all  *)
(* of them in another, by its copy with its own operation done on it; what *)
(* others saved in between is lost.  A process that read the file of an    *)
(* older RunnerKit first writes it back, whatever its operation is.  An    *)
(* error means that the operation was not done.                            *)
(***************************************************************************)
EXTENDS StateSchema

VARIABLES entries,  \* the saved entries
          version,  \* the schema they are saved in
          req,      \* req[p]: the operation p asked for, or NoOp
          res,      \* res[p]: its answer, "none" until it has one
          copy,     \* copy[p]: the entries p read, then those it will save
          stage     \* stage[p]: what p did of its operation

vars == <<entries, version, req, res, copy, stage>>

Init ==
  /\ entries \in Entries
  /\ version \in {"absent", "old", "current", "newer"}
  /\ req = [p \in Procs |-> NoOp]
  /\ res = [p \in Procs |-> "none"]
  /\ copy = [p \in Procs |-> Nothing]
  /\ stage = [p \in Procs |-> "none"]

From(p, before, after) == stage[p] = before /\ stage' = [stage EXCEPT ![p] = after]

Invoke(p) ==
  /\ From(p, "none", "asked")
  /\ \E o \in Ops : req' = [req EXCEPT ![p] = o]
  /\ UNCHANGED <<entries, version, res, copy>>

\* A newer schema is not read.
Read(p) ==
  /\ From(p, "asked", IF version = "old" THEN "migrates" ELSE "read")
  /\ version # "newer"
  /\ copy' = [copy EXCEPT ![p] = entries]
  /\ UNCHANGED <<entries, version, req, res>>

Replace(p) == entries' = copy[p] /\ version' = "current"

Migrate(p) ==
  /\ From(p, "migrates", "read") /\ Replace(p)
  /\ UNCHANGED <<req, res, copy>>

\* An operation that does not write is over here.
Reply(p) ==
  /\ From(p, "read", "answered")
  /\ ~Writes(req[p], copy[p])
  /\ res' = [res EXCEPT ![p] = Answer(req[p], copy[p])]
  /\ UNCHANGED <<entries, version, req, copy>>

Change(p) ==
  /\ From(p, "read", "changed")
  /\ Writes(req[p], copy[p])
  /\ copy' = [copy EXCEPT ![p] = After(req[p], copy[p])]
  /\ UNCHANGED <<entries, version, req, res>>

Commit(p) ==
  /\ From(p, "changed", "answered") /\ Replace(p)
  /\ res' = [res EXCEPT ![p] = "ok"]
  /\ UNCHANGED <<req, copy>>

Fail(p) ==
  /\ \E before \in {"asked", "migrates", "changed"} : From(p, before, "answered")
  /\ res' = [res EXCEPT ![p] = "error"]
  /\ UNCHANGED <<entries, version, req, copy>>

\* The answer is delivered, or the process died with the operation.
Leave(p) ==
  /\ stage[p] # "none"
  /\ stage' = [stage EXCEPT ![p] = "none"]
  /\ req' = [req EXCEPT ![p] = NoOp]
  /\ res' = [res EXCEPT ![p] = "none"]
  /\ copy' = [copy EXCEPT ![p] = Nothing]
  /\ UNCHANGED <<entries, version>>

Next ==
  \E p \in Procs :
    \/ Invoke(p) \/ Read(p) \/ Migrate(p) \/ Reply(p) \/ Change(p)
    \/ Commit(p) \/ Fail(p) \/ Leave(p)

Spec == Init /\ [][Next]_vars

==============================================================================
