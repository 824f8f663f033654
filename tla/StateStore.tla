----------------------------- MODULE StateStore -----------------------------
(***************************************************************************)
(* internal/state.Store: every operation loads the whole of state.json,    *)
(* migrates it first when an older RunnerKit wrote it, changes one entry   *)
(* in memory and renames a complete temporary file over it.  No lock is    *)
(* taken.  Any file operation may fail and the process may die between any *)
(* two of them.                                                            *)
(***************************************************************************)
EXTENDS StateSchema

CONSTANTS Seconds,  \* values of the timestamp in a backup's name
          Second    \* Second[p]: the one that p's backups carry

ASSUME SecondAssumption == Second \in [Procs -> Seconds]

VARIABLES
  file,      \* the content of state.json
  original,  \* history: what it was before the first command
  backup,    \* backup[s]: the content of state.json.backup-v1-<s>
  tmp,       \* tmp[p]: the content of p's temporary file
  pc,        \* where each process is in its store call
  op,        \* the operation it performs
  mem,       \* the State it loaded
  result     \* its answer, "none" until it has one

vars == <<file, original, backup, tmp, pc, op, mem, result>>

(***************************************************************************)
(* A file holds a document, nothing ("absent") or a part of one ("torn").  *)
(* "current" is the schema this CLI writes, "old" one that it migrates     *)
(* from and "newer" one that it refuses to touch.                          *)
(***************************************************************************)
Versions == {"old", "current", "newer"}
Docs == [version: Versions \cup {"absent", "torn"}, repos: Entries]

Absent == [version |-> "absent", repos |-> Nothing]
Torn == [version |-> "torn", repos |-> Nothing]
Current(d) == [d EXCEPT !.version = "current"]

WritePcs == {"migrate_write", "migrate_sync", "migrate_rename",
             "save_write", "save_sync", "save_rename"}
Pcs == {"idle", "load", "backup", "fill_backup", "apply", "done"} \cup WritePcs

Init ==
  /\ file \in {Absent} \cup [version: Versions, repos: Entries]
  /\ original = file
  /\ backup = [s \in Seconds |-> Absent]
  /\ tmp = [p \in Procs |-> Absent]
  /\ pc = [p \in Procs |-> "idle"]
  /\ op = [p \in Procs |-> NoOp]
  /\ mem = [p \in Procs |-> Absent]
  /\ result = [p \in Procs |-> "none"]

Goto(p, there) == pc' = [pc EXCEPT ![p] = there]

Finish(p, answer) ==
  /\ Goto(p, "done")
  /\ result' = [result EXCEPT ![p] = answer]

Call(p) ==
  /\ pc[p] = "idle"
  /\ \E o \in Ops : op' = [op EXCEPT ![p] = o]
  /\ Goto(p, "load")
  /\ UNCHANGED <<file, original, backup, tmp, mem, result>>

\* Read and parse; a newer schema is refused before anything is written.
Load(p) ==
  /\ pc[p] = "load"
  /\ file.version \in {"absent", "current", "old"}
  /\ mem' = [mem EXCEPT ![p] = IF file.version = "old" THEN file ELSE Current(file)]
  /\ Goto(p, IF file.version = "old" THEN "backup" ELSE "apply")
  /\ UNCHANGED <<file, original, backup, tmp, op, result>>

\* os.WriteFile truncates the backup of that name, then fills it.
OpenBackup(p) ==
  /\ pc[p] = "backup"
  /\ backup' = [backup EXCEPT ![Second[p]] = Torn]
  /\ Goto(p, "fill_backup")
  /\ UNCHANGED <<file, original, tmp, op, mem, result>>

MutFillBackup(p) ==   \* backs up the migrated document
  /\ pc[p] = "fill_backup"
  /\ backup' = [backup EXCEPT ![Second[p]] = Current(mem[p])]
  /\ mem' = [mem EXCEPT ![p] = Current(@)]
  /\ Goto(p, "migrate_write")
  /\ UNCHANGED <<file, original, tmp, op, result>>

FillBackup(p) ==
  /\ pc[p] = "fill_backup"
  /\ backup' = [backup EXCEPT ![Second[p]] = mem[p]]
  /\ mem' = [mem EXCEPT ![p] = Current(@)]
  /\ Goto(p, "migrate_write")
  /\ UNCHANGED <<file, original, tmp, op, result>>

\* The operation on the loaded State; what does not write answers here.
Apply(p) ==
  LET entries == mem[p].repos IN
  /\ pc[p] = "apply"
  /\ IF Writes(op[p], entries)
     THEN /\ mem' = [mem EXCEPT ![p].repos = After(op[p], entries)]
          /\ Goto(p, "save_write")
          /\ UNCHANGED result
     ELSE /\ Finish(p, Answer(op[p], entries))
          /\ UNCHANGED mem
  /\ UNCHANGED <<file, original, backup, tmp, op>>

\* writeAtomic: create the temporary file, ...
WriteTmp(p) ==
  /\ \/ pc[p] = "migrate_write" /\ Goto(p, "migrate_sync")
     \/ pc[p] = "save_write" /\ Goto(p, "save_sync")
  /\ tmp' = [tmp EXCEPT ![p] = Torn]
  /\ UNCHANGED <<file, original, backup, op, mem, result>>

MutSyncTmp(p) ==   \* one name for the temporary files of all processes
  /\ \/ pc[p] = "migrate_sync" /\ Goto(p, "migrate_rename")
     \/ pc[p] = "save_sync" /\ Goto(p, "save_rename")
  /\ tmp' = [q \in Procs |-> mem[p]]
  /\ UNCHANGED <<file, original, backup, op, mem, result>>

\* ... write, fsync and close it, ...
SyncTmp(p) ==
  /\ \/ pc[p] = "migrate_sync" /\ Goto(p, "migrate_rename")
     \/ pc[p] = "save_sync" /\ Goto(p, "save_rename")
  /\ tmp' = [tmp EXCEPT ![p] = mem[p]]
  /\ UNCHANGED <<file, original, backup, op, mem, result>>

MutRename(p) ==   \* does not wait for the file to be written
  /\ \/ pc[p] \in {"migrate_sync", "migrate_rename"} /\ Goto(p, "apply") /\ UNCHANGED result
     \/ pc[p] \in {"save_sync", "save_rename"} /\ Finish(p, "ok")
  /\ file' = tmp[p]
  /\ tmp' = [tmp EXCEPT ![p] = Absent]
  /\ UNCHANGED <<original, backup, op, mem>>

MutRenameReports(p) ==   \* an error after the rename fails the call
  /\ \/ pc[p] = "migrate_rename" /\ Goto(p, "apply") /\ UNCHANGED result
     \/ pc[p] = "save_rename" /\ \E answer \in {"ok", "error"} : Finish(p, answer)
  /\ file' = tmp[p]
  /\ tmp' = [tmp EXCEPT ![p] = Absent]
  /\ UNCHANGED <<original, backup, op, mem>>

\* ... and rename it over state.json; what fails after that is ignored.
Rename(p) ==
  /\ \/ pc[p] = "migrate_rename" /\ Goto(p, "apply") /\ UNCHANGED result
     \/ pc[p] = "save_rename" /\ Finish(p, "ok")
  /\ file' = tmp[p]
  /\ tmp' = [tmp EXCEPT ![p] = Absent]
  /\ UNCHANGED <<original, backup, op, mem>>

\* Any step ends the call when its file operation fails, the file does not
\* parse or its schema is newer; the temporary file is removed.
IOError(p) ==
  /\ pc[p] \in {"load", "backup", "fill_backup"} \cup WritePcs
  /\ Finish(p, "error")
  /\ tmp' = [tmp EXCEPT ![p] = Absent]
  /\ UNCHANGED <<file, original, backup, op, mem>>

\* The call returns, or the process dies.  A temporary file it leaves behind
\* is never read: its name holds the process id and the time.
Leave(p) ==
  /\ pc[p] # "idle"
  /\ Goto(p, "idle")
  /\ op' = [op EXCEPT ![p] = NoOp]
  /\ mem' = [mem EXCEPT ![p] = Absent]
  /\ tmp' = [tmp EXCEPT ![p] = Absent]
  /\ result' = [result EXCEPT ![p] = "none"]
  /\ UNCHANGED <<file, original, backup>>

Next ==
  \E p \in Procs :
    \/ Call(p) \/ Load(p) \/ OpenBackup(p) \/ FillBackup(p) \/ Apply(p)
    \/ WriteTmp(p) \/ SyncTmp(p) \/ Rename(p) \/ IOError(p) \/ Leave(p)

Spec == Init /\ [][Next]_vars

------------------------------------------------------------------------------
(* What must hold *)

\* Types; state.json is never a part of a document.
TypeOK ==
  /\ file \in Docs /\ file.version # "torn"
  /\ original \in Docs /\ original.version # "torn"
  /\ backup \in [Seconds -> Docs]
  /\ tmp \in [Procs -> Docs]
  /\ pc \in [Procs -> Pcs]
  /\ op \in [Procs -> Ops \cup {NoOp}]
  /\ mem \in [Procs -> Docs]
  /\ \A p \in Procs : pc[p] # "idle" => op[p] \in Ops

\* Each operation is atomic whatever fails and wherever the process dies, a
\* migration is invisible, and an error means nothing changed.  One process.
Store == INSTANCE AtomicStore WITH entries <- file.repos, req <- op, res <- result

AtomicOperations == Store!Spec

\* What a process has done of its operation.
Stage(at) ==
  CASE at = "idle" -> "none"
    [] at = "load" -> "asked"
    [] at = "apply" -> "read"
    [] at \in {"save_write", "save_sync", "save_rename"} -> "changed"
    [] at = "done" -> "answered"
    [] OTHER -> "migrates"

\* What is left of that with any number of processes: reading state.json and
\* replacing it are atomic, each of the two on its own, and nobody's backups,
\* temporary files, errors or death show in what the others do.  What a process
\* replaces may have changed since it read it, also by a migration.
Shared == INSTANCE SharedStore
            WITH entries <- file.repos, version <- file.version, req <- op, res <- result,
                 copy <- [p \in Procs |-> mem[p].repos], stage <- [p \in Procs |-> Stage(pc[p])]

SharedOperations == Shared!Spec

\* store.go:76: "The backup MUST persist even if subsequent steps fail" (and
\* store.go:68: a newer file "is left untouched").  Once the file that was
\* found is replaced it was either of the current schema already or a whole
\* copy of it is in a backup.
OriginalKept ==
  \/ file = original
  \/ original.version \in {"absent", "current"}
  \/ original.version = "old" /\ \E s \in Seconds : backup[s] = original

------------------------------------------------------------------------------
(* Why OriginalKept holds: the inductive invariant *)

BackupPcs  == {"backup", "fill_backup"}
MigratePcs == {"migrate_write", "migrate_sync", "migrate_rename"}
SavePcs    == {"save_write", "save_sync", "save_rename"}

\* Only documents of the current schema replace the one that was found.
OnlyCurrentWritten ==
  /\ file.version # "current" => file = original
  /\ \A p \in Procs :
       /\ pc[p] \in {"apply"} \cup WritePcs => mem[p].version = "current"
       /\ pc[p] \in {"migrate_rename", "save_rename"} => tmp[p].version = "current"

\* Nothing acts on a newer document.
NewerUntouched ==
  original.version = "newer" =>
    /\ file = original
    /\ \A p \in Procs : pc[p] \notin {"apply"} \cup BackupPcs \cup WritePcs

\* A process backs up the original, has its own whole copy while it migrates
\* and works on the migrated file afterwards.
MigrationOrder ==
  \A p \in Procs :
    /\ pc[p] \in BackupPcs => mem[p] = original /\ original.version = "old"
    /\ original.version = "old" =>
         /\ pc[p] \in MigratePcs => backup[Second[p]] = original
         /\ pc[p] \in {"apply"} \cup SavePcs => file # original

\* A replaced file has a copy whose owner is not about to truncate it.
CopySettled ==
  original.version = "old" /\ file # original =>
    \E q \in Procs : backup[Second[q]] = original /\ pc[q] \notin BackupPcs

IInv ==
  /\ TypeOK /\ OnlyCurrentWritten /\ NewerUntouched
  /\ MigrationOrder /\ CopySettled

==============================================================================
