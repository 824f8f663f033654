----------------------------- MODULE StateSchema -----------------------------
(***************************************************************************)
(* The repository entries of state.json and the operations of              *)
(* internal/state on them.  An entry is keyed by the repository's full     *)
(* name; what it says is one of a few Values.                              *)
(***************************************************************************)

CONSTANTS Repos,    \* repositories, by full name
          Values,   \* contents of an entry
          NoEntry,  \* the repository has no entry
          Procs     \* CLI processes

ASSUME NoEntryAssumption == NoEntry \notin Values

Entries == [Repos -> Values \cup {NoEntry}]
Nothing == [r \in Repos |-> NoEntry]

\* "insert" and "replace" are SaveRepository without and with --replace.
Ops == [kind: {"get", "insert", "replace", "update", "remove"}, repo: Repos, value: Values]

NoOp == [kind |-> "none"]

Found(o, entries) == entries[o.repo] # NoEntry

\* Whether the operation goes on to write the file.  UpdateRepository saves
\* even when it found nothing to update.
Writes(o, entries) ==
  \/ o.kind \in {"replace", "update"}
  \/ o.kind = "insert" /\ ~Found(o, entries)
  \/ o.kind = "remove" /\ Found(o, entries)

\* The entries after an operation that writes.
After(o, entries) ==
  CASE o.kind = "remove" -> [entries EXCEPT ![o.repo] = NoEntry]
    [] o.kind = "update" /\ ~Found(o, entries) -> entries
    [] OTHER -> [entries EXCEPT ![o.repo] = o.value]

\* What the caller is told: the entry it read, ErrRepositoryExists, nothing
\* removed, or plain success.
Answer(o, entries) ==
  CASE o.kind = "get" -> entries[o.repo]
    [] o.kind = "insert" /\ Found(o, entries) -> "exists"
    [] o.kind = "remove" /\ ~Found(o, entries) -> "absent"
    [] OTHER -> "ok"

==============================================================================
