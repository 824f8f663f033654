-------------------------- MODULE StateStoreProofs --------------------------
(***************************************************************************)
(* Proofs about StateStore, for every set of repositories, values and      *)
(* processes: state.json is never a part of a document, a migration keeps  *)
(* the original if no two processes name their backups alike, and the      *)
(* store implements SharedStore; for one process also AtomicStore.         *)
(***************************************************************************)
EXTENDS StateStore, TLAPS

\* What a document is and what Current changes of it.
LEMMA CurrentFacts ==
  ASSUME NEW d \in Docs
  PROVE  /\ Current(d) \in Docs
         /\ Current(d).version = "current"
         /\ Current(d).repos = d.repos
BY DEF Docs, Current, Versions

\* The two files that are no document.
LEMMA SpecialDocs ==
  /\ Absent \in Docs /\ Absent.version = "absent"
  /\ Torn \in Docs /\ Torn.version = "torn"
BY DEF Docs, Absent, Torn, Nothing, Entries

\* An operation turns entries into entries.
LEMMA AfterType ==
  ASSUME NEW o \in Ops, NEW e \in Entries
  PROVE  After(o, e) \in Entries
<1>1. o.repo \in Repos /\ o.value \in Values
  BY DEF Ops
<1> QED
  BY <1>1 DEF After, Entries

\* A loaded State after an operation is a document of the same version.
LEMMA ReposFacts ==
  ASSUME NEW d \in Docs, NEW e \in Entries
  PROVE  /\ [d EXCEPT !.repos = e] \in Docs
         /\ [d EXCEPT !.repos = e].version = d.version
BY DEF Docs

\* The initial states satisfy the inductive invariant.
LEMMA InitIInv == Init => IInv
<1> SUFFICES ASSUME Init PROVE IInv
  OBVIOUS
<1> USE SpecialDocs
<1>1. file \in Docs /\ file.version \in Versions \cup {"absent"}
  BY DEF Init, Docs, Versions
<1>2. TypeOK
  BY <1>1 DEF Init, TypeOK, Pcs, Versions
<1>3. OnlyCurrentWritten
  BY DEF Init, OnlyCurrentWritten, WritePcs
<1>4. NewerUntouched /\ MigrationOrder /\ CopySettled
  BY DEF Init, NewerUntouched, MigrationOrder, CopySettled, BackupPcs, MigratePcs, SavePcs, WritePcs
<1> QED
  BY <1>2, <1>3, <1>4 DEF IInv

\* Every step of the store keeps the types.  The file stays whole because a
\* temporary file that is renamed was filled before.
LEMMA TypeOKStep == TypeOK /\ OnlyCurrentWritten /\ [Next]_vars => TypeOK'
<1> SUFFICES ASSUME TypeOK, OnlyCurrentWritten, [Next]_vars PROVE TypeOK'
  OBVIOUS
<1> USE SpecialDocs DEF TypeOK
<1>1. CASE UNCHANGED vars
  BY <1>1 DEF vars
<1>2. CASE Next
  <2> PICK p \in Procs :
        \/ Call(p) \/ Load(p) \/ OpenBackup(p) \/ FillBackup(p) \/ Apply(p)
        \/ WriteTmp(p) \/ SyncTmp(p) \/ Rename(p) \/ IOError(p) \/ Leave(p)
    BY <1>2 DEF Next
  <2>1. CASE Call(p)
    BY <2>1 DEF Call, Goto, Pcs
  <2>2. CASE Load(p)
    <3> DEFINE loaded == IF file.version = "old" THEN file ELSE Current(file)
               there  == IF file.version = "old" THEN "backup" ELSE "apply"
    <3>1. loaded \in Docs
      BY CurrentFacts
    <3>2. there \in Pcs
      BY DEF Pcs
    <3>3. /\ pc[p] = "load"
          /\ mem' = [mem EXCEPT ![p] = loaded]
          /\ pc' = [pc EXCEPT ![p] = there]
          /\ UNCHANGED <<file, original, backup, tmp, op, result>>
      BY <2>2 DEF Load, Goto
    <3> HIDE DEF loaded, there
    <3> QED
      BY <3>1, <3>2, <3>3
  <2>3. CASE OpenBackup(p)
    BY <2>3 DEF OpenBackup, Goto, Pcs
  <2>4. CASE FillBackup(p)
    <3>1. Current(mem[p]) \in Docs
      BY CurrentFacts
    <3> QED
      BY <2>4, <3>1 DEF FillBackup, Goto, Pcs, WritePcs
  <2>5. CASE Apply(p)
    <3> DEFINE saved == [mem[p] EXCEPT !.repos = After(op[p], mem[p].repos)]
    <3>1. saved \in Docs
      <4>1. mem[p].repos \in Entries /\ op[p] \in Ops
        BY <2>5 DEF Apply, Docs
      <4> QED
        BY <4>1, AfterType, ReposFacts
    <3>2. /\ pc[p] = "apply"
          /\ \/ mem' = [mem EXCEPT ![p] = saved] /\ pc' = [pc EXCEPT ![p] = "save_write"]
             \/ mem' = mem /\ pc' = [pc EXCEPT ![p] = "done"]
          /\ UNCHANGED <<file, original, backup, tmp, op>>
      BY <2>5 DEF Apply, Finish, Goto
    <3> HIDE DEF saved
    <3> QED
      BY <3>1, <3>2 DEF Pcs, WritePcs
  <2>6. CASE WriteTmp(p)
    BY <2>6 DEF WriteTmp, Goto, Pcs, WritePcs
  <2>7. CASE SyncTmp(p)
    BY <2>7 DEF SyncTmp, Goto, Pcs, WritePcs
  <2>8. CASE Rename(p)
    BY <2>8 DEF Rename, Finish, Goto, Pcs, WritePcs, OnlyCurrentWritten
  <2>9. CASE IOError(p)
    BY <2>9 DEF IOError, Finish, Goto, Pcs, WritePcs
  <2>10. CASE Leave(p)
    BY <2>10 DEF Leave, Goto, Pcs
  <2> QED
    BY <2>1, <2>2, <2>3, <2>4, <2>5, <2>6, <2>7, <2>8, <2>9, <2>10
<1> QED
  BY <1>1, <1>2

\* Every step keeps OnlyCurrentWritten: what is loaded is migrated before an
\* operation or a write works on it.
LEMMA OnlyCurrentStep ==
  ASSUME TypeOK, OnlyCurrentWritten, [Next]_vars
  PROVE  OnlyCurrentWritten'
<1>1. CASE UNCHANGED vars
  BY <1>1 DEF vars, OnlyCurrentWritten, WritePcs
<1>2. CASE Next
  <2> PICK p \in Procs :
        \/ Call(p) \/ Load(p) \/ OpenBackup(p) \/ FillBackup(p) \/ Apply(p)
        \/ WriteTmp(p) \/ SyncTmp(p) \/ Rename(p) \/ IOError(p) \/ Leave(p)
    BY <1>2 DEF Next
  <2> USE DEF TypeOK, OnlyCurrentWritten, WritePcs
  <2>1. CASE Call(p)
    BY <2>1 DEF Call, Goto
  <2>2. CASE Load(p)
    <3>1. file.version # "old" => Current(file).version = "current"
      BY CurrentFacts
    <3>2. /\ pc[p] = "load"
          /\ \/ file.version = "old" /\ pc' = [pc EXCEPT ![p] = "backup"]
             \/ file.version # "old" /\ pc' = [pc EXCEPT ![p] = "apply"]
          /\ file.version # "old" => mem' = [mem EXCEPT ![p] = Current(file)]
          /\ \A q \in Procs : q # p => mem'[q] = mem[q]
          /\ UNCHANGED <<file, original, backup, tmp, op>>
      BY <2>2 DEF Load, Goto
    <3> QED
      BY <3>1, <3>2
  <2>3. CASE OpenBackup(p)
    BY <2>3 DEF OpenBackup, Goto
  <2>4. CASE FillBackup(p)
    <3>1. Current(mem[p]).version = "current"
      BY CurrentFacts
    <3> QED
      BY <2>4, <3>1 DEF FillBackup, Goto
  <2>5. CASE Apply(p)
    <3> DEFINE e == After(op[p], mem[p].repos)
    <3>1. /\ pc[p] = "apply"
          /\ pc' \in {[pc EXCEPT ![p] = "save_write"], [pc EXCEPT ![p] = "done"]}
          /\ mem' \in {mem, [mem EXCEPT ![p] = [mem[p] EXCEPT !.repos = e]]}
          /\ UNCHANGED <<file, original, backup, tmp, op>>
      BY <2>5 DEF Apply, Finish, Goto
    <3>2. [mem[p] EXCEPT !.repos = e].version = mem[p].version
      BY DEF Docs
    <3> HIDE DEF e
    <3>3. mem'[p].version = mem[p].version
      BY <3>1, <3>2
    <3> QED
      BY <3>1, <3>3
  <2>6. CASE WriteTmp(p)
    BY <2>6 DEF WriteTmp, Goto
  <2>7. CASE SyncTmp(p)
    BY <2>7 DEF SyncTmp, Goto
  <2>8. CASE Rename(p)
    BY <2>8 DEF Rename, Finish, Goto
  <2>9. CASE IOError(p)
    BY <2>9 DEF IOError, Finish, Goto
  <2>10. CASE Leave(p)
    BY <2>10 DEF Leave, Goto
  <2> QED
    BY <2>1, <2>2, <2>3, <2>4, <2>5, <2>6, <2>7, <2>8, <2>9, <2>10
<1> QED
  BY <1>1, <1>2

\* Every step keeps NewerUntouched: a newer file is refused when it is loaded.
LEMMA NewerStep ==
  ASSUME TypeOK, OnlyCurrentWritten, NewerUntouched, [Next]_vars
  PROVE  NewerUntouched'
<1>1. CASE UNCHANGED vars
  BY <1>1 DEF vars, NewerUntouched, BackupPcs, WritePcs
<1>2. CASE Next
  <2> PICK p \in Procs :
        \/ Call(p) \/ Load(p) \/ OpenBackup(p) \/ FillBackup(p) \/ Apply(p)
        \/ WriteTmp(p) \/ SyncTmp(p) \/ Rename(p) \/ IOError(p) \/ Leave(p)
    BY <1>2 DEF Next
  <2> USE DEF TypeOK, NewerUntouched, BackupPcs, WritePcs
  <2>1. CASE Call(p)
    BY <2>1 DEF Call, Goto
  <2>2. CASE Load(p)
    BY <2>2 DEF Load, Goto
  <2>3. CASE OpenBackup(p)
    BY <2>3 DEF OpenBackup, Goto
  <2>4. CASE FillBackup(p)
    BY <2>4 DEF FillBackup, Goto
  <2>5. CASE Apply(p)
    <3>1. /\ pc[p] = "apply"
          /\ pc' \in {[pc EXCEPT ![p] = "save_write"], [pc EXCEPT ![p] = "done"]}
          /\ UNCHANGED <<file, original, backup, tmp, op>>
      BY <2>5 DEF Apply, Finish, Goto
    <3> QED
      BY <3>1
  <2>6. CASE WriteTmp(p)
    BY <2>6 DEF WriteTmp, Goto
  <2>7. CASE SyncTmp(p)
    BY <2>7 DEF SyncTmp, Goto
  <2>8. CASE Rename(p)
    BY <2>8 DEF Rename, Finish, Goto
  <2>9. CASE IOError(p)
    BY <2>9 DEF IOError, Finish, Goto
  <2>10. CASE Leave(p)
    BY <2>10 DEF Leave, Goto
  <2> QED
    BY <2>1, <2>2, <2>3, <2>4, <2>5, <2>6, <2>7, <2>8, <2>9, <2>10
<1> QED
  BY <1>1, <1>2

\* Every step keeps MigrationOrder; a copy is only overwritten by the process
\* whose timestamp it bears.
LEMMA MigrationOrderStep ==
  ASSUME TypeOK, OnlyCurrentWritten, MigrationOrder, [Next]_vars,
         \A a, b \in Procs : Second[a] = Second[b] => a = b
  PROVE  MigrationOrder'
<1>1. CASE UNCHANGED vars
  BY <1>1 DEF vars, MigrationOrder, BackupPcs, MigratePcs, SavePcs
<1>2. CASE Next
  <2> PICK p \in Procs :
        \/ Call(p) \/ Load(p) \/ OpenBackup(p) \/ FillBackup(p) \/ Apply(p)
        \/ WriteTmp(p) \/ SyncTmp(p) \/ Rename(p) \/ IOError(p) \/ Leave(p)
    BY <1>2 DEF Next
  <2> USE DEF TypeOK, MigrationOrder, BackupPcs, MigratePcs, SavePcs
  <2>1. CASE Call(p)
    BY <2>1 DEF Call, Goto
  <2>2. CASE Load(p)
    <3>1. file.version = "old" => file = original
      BY DEF OnlyCurrentWritten
    <3>2. /\ pc[p] = "load"
          /\ \/ file.version = "old" /\ pc' = [pc EXCEPT ![p] = "backup"]
             \/ file.version # "old" /\ pc' = [pc EXCEPT ![p] = "apply"]
          /\ file.version = "old" => mem' = [mem EXCEPT ![p] = file]
          /\ \A q \in Procs : q # p => mem'[q] = mem[q]
          /\ UNCHANGED <<file, original, backup, tmp, op>>
      BY <2>2 DEF Load, Goto
    <3> QED
      BY <3>1, <3>2
  <2>3. CASE OpenBackup(p)
    <3>1. \A q \in Procs : q # p => backup'[Second[q]] = backup[Second[q]]
      BY <2>3, SecondAssumption DEF OpenBackup
    <3> QED
      BY <2>3, <3>1 DEF OpenBackup, Goto
  <2>4. CASE FillBackup(p)
    <3>1. \A q \in Procs : q # p => backup'[Second[q]] = backup[Second[q]] /\ mem'[q] = mem[q]
      BY <2>4, SecondAssumption DEF FillBackup
    <3>2. backup'[Second[p]] = original
      BY <2>4, SecondAssumption DEF FillBackup
    <3>3. /\ pc[p] = "fill_backup" /\ pc' = [pc EXCEPT ![p] = "migrate_write"]
          /\ UNCHANGED <<file, original>>
      BY <2>4 DEF FillBackup, Goto
    <3> QED
      BY <3>1, <3>2, <3>3
  <2>5. CASE Apply(p)
    <3>1. /\ pc[p] = "apply"
          /\ pc' \in {[pc EXCEPT ![p] = "save_write"], [pc EXCEPT ![p] = "done"]}
          /\ \A q \in Procs : q # p => mem'[q] = mem[q]
          /\ UNCHANGED <<file, original, backup, tmp, op>>
      BY <2>5 DEF Apply, Finish, Goto
    <3> QED
      BY <3>1
  <2>6. CASE WriteTmp(p)
    BY <2>6 DEF WriteTmp, Goto
  <2>7. CASE SyncTmp(p)
    BY <2>7 DEF SyncTmp, Goto
  <2>8. CASE Rename(p)
    <3>1. tmp[p].version = "current"
      BY <2>8 DEF Rename, OnlyCurrentWritten
    <3>2. file' = tmp[p] /\ UNCHANGED <<original, backup, mem>>
      BY <2>8 DEF Rename
    <3>3. \/ pc[p] = "migrate_rename" /\ pc' = [pc EXCEPT ![p] = "apply"]
          \/ pc[p] = "save_rename" /\ pc' = [pc EXCEPT ![p] = "done"]
      BY <2>8 DEF Rename, Finish, Goto
    <3> QED
      BY <3>1, <3>2, <3>3
  <2>9. CASE IOError(p)
    BY <2>9 DEF IOError, Finish, Goto
  <2>10. CASE Leave(p)
    BY <2>10 DEF Leave, Goto
  <2> QED
    BY <2>1, <2>2, <2>3, <2>4, <2>5, <2>6, <2>7, <2>8, <2>9, <2>10
<1> QED
  BY <1>1, <1>2

\* Every step keeps CopySettled: the process that replaces the file leaves its
\* copy behind, and nobody starts another migration of the replaced file.
LEMMA CopySettledStep ==
  ASSUME TypeOK, OnlyCurrentWritten, MigrationOrder, CopySettled, [Next]_vars,
         \A a, b \in Procs : Second[a] = Second[b] => a = b
  PROVE  CopySettled'
<1>1. CASE UNCHANGED vars
  BY <1>1 DEF vars, CopySettled, BackupPcs, MigratePcs, SavePcs
<1>2. CASE Next
  <2> PICK p \in Procs :
        \/ Call(p) \/ Load(p) \/ OpenBackup(p) \/ FillBackup(p) \/ Apply(p)
        \/ WriteTmp(p) \/ SyncTmp(p) \/ Rename(p) \/ IOError(p) \/ Leave(p)
    BY <1>2 DEF Next
  <2> USE DEF TypeOK, CopySettled, BackupPcs, MigratePcs, SavePcs
  <2>1. CASE Call(p)
    BY <2>1 DEF Call, Goto
  <2>2. CASE Load(p)
    <3>1. file.version = "old" => file = original
      BY DEF OnlyCurrentWritten
    <3>2. /\ pc[p] = "load"
          /\ \/ file.version = "old" /\ pc' = [pc EXCEPT ![p] = "backup"]
             \/ pc' = [pc EXCEPT ![p] = "apply"]
          /\ UNCHANGED <<file, original, backup>>
      BY <2>2 DEF Load, Goto
    <3> QED
      BY <3>1, <3>2
  <2>3. CASE OpenBackup(p)
    <3>1. \A q \in Procs : q # p => backup'[Second[q]] = backup[Second[q]]
      BY <2>3, SecondAssumption DEF OpenBackup
    <3>2. /\ pc[p] = "backup" /\ pc' = [pc EXCEPT ![p] = "fill_backup"]
          /\ UNCHANGED <<file, original>>
      BY <2>3 DEF OpenBackup, Goto
    <3> QED
      BY <3>1, <3>2
  <2>4. CASE FillBackup(p)
    <3>1. \A q \in Procs : q # p => backup'[Second[q]] = backup[Second[q]]
      BY <2>4, SecondAssumption DEF FillBackup
    <3>2. /\ pc[p] = "fill_backup" /\ pc' = [pc EXCEPT ![p] = "migrate_write"]
          /\ UNCHANGED <<file, original>>
      BY <2>4 DEF FillBackup, Goto
    <3> QED
      BY <3>1, <3>2
  <2>5. CASE Apply(p)
    <3>1. /\ pc[p] = "apply"
          /\ pc' \in {[pc EXCEPT ![p] = "save_write"], [pc EXCEPT ![p] = "done"]}
          /\ UNCHANGED <<file, original, backup, tmp, op>>
      BY <2>5 DEF Apply, Finish, Goto
    <3> QED
      BY <3>1
  <2>6. CASE WriteTmp(p)
    BY <2>6 DEF WriteTmp, Goto
  <2>7. CASE SyncTmp(p)
    BY <2>7 DEF SyncTmp, Goto
  <2>8. CASE Rename(p)
    <3>1. UNCHANGED <<original, backup>>
      BY <2>8 DEF Rename
    <3>2. CASE pc[p] = "migrate_rename"
      <4>1. original.version = "old" => backup[Second[p]] = original
        BY <3>2 DEF MigrationOrder
      <4>2. pc'[p] = "apply"
        BY <2>8, <3>2 DEF Rename, Goto
      <4> QED
        BY <3>1, <4>1, <4>2
    <3>3. CASE pc[p] = "save_rename"
      <4>1. original.version = "old" => file # original
        BY <3>3 DEF MigrationOrder
      <4>2. pc' = [pc EXCEPT ![p] = "done"]
        BY <2>8, <3>3 DEF Rename, Finish, Goto
      <4> QED
        BY <3>1, <4>1, <4>2
    <3> QED
      BY <2>8, <3>2, <3>3 DEF Rename
  <2>9. CASE IOError(p)
    BY <2>9 DEF IOError, Finish, Goto
  <2>10. CASE Leave(p)
    BY <2>10 DEF Leave, Goto
  <2> QED
    BY <2>1, <2>2, <2>3, <2>4, <2>5, <2>6, <2>7, <2>8, <2>9, <2>10
<1> QED
  BY <1>1, <1>2

\* The inductive invariant holds throughout when backup names differ.
THEOREM Invariance ==
  ASSUME \A a, b \in Procs : Second[a] = Second[b] => a = b
  PROVE  Spec => []IInv
<1>1. IInv /\ [Next]_vars => IInv'
  BY TypeOKStep, OnlyCurrentStep, NewerStep, MigrationOrderStep, CopySettledStep DEF IInv
<1> QED
  BY <1>1, InitIInv, PTL DEF Spec

\* state.json is always a whole document (or absent) and every process works
\* on whole ones, whatever the timestamps of the backups.
THEOREM TypeCorrect == Spec => []TypeOK
<1> DEFINE Safe == TypeOK /\ OnlyCurrentWritten
<1>1. Init => Safe
  BY InitIInv DEF IInv
<1>2. Safe /\ [Next]_vars => Safe'
  BY TypeOKStep, OnlyCurrentStep
<1>3. Safe => TypeOK
  OBVIOUS
<1> HIDE DEF Safe
<1> QED
  BY <1>1, <1>2, <1>3, PTL DEF Spec

\* A migration keeps the original (store.go:73-77) for any number of
\* processes, provided no two of them name their backups alike.
THEOREM BackupPersists ==
  ASSUME \A a, b \in Procs : Second[a] = Second[b] => a = b
  PROVE  Spec => []OriginalKept
<1>1. IInv => OriginalKept
  <2> SUFFICES ASSUME IInv, file # original PROVE OriginalKept
    BY DEF OriginalKept
  <2> USE DEF IInv
  <2>1. CASE original.version = "old"
    <3>1. PICK q \in Procs : backup[Second[q]] = original
      BY <2>1 DEF CopySettled
    <3> QED
      BY <2>1, <3>1, SecondAssumption DEF OriginalKept
  <2>2. original.version # "newer"
    BY DEF NewerUntouched
  <2>3. original.version # "torn"
    BY DEF TypeOK
  <2> QED
    BY <2>1, <2>2, <2>3 DEF OriginalKept, TypeOK, Docs, Versions
<1> QED
  BY <1>1, Invariance, PTL

------------------------------------------------------------------------------
(* One process at a time: every operation is atomic *)

Sole == \A p, q \in Procs : p = q

\* Until an operation saves, the entries it works on are those in the file;
\* then the file waits to become what the operation makes of them.
Tracks(p) ==
  /\ pc[p] \in {"apply"} \cup BackupPcs \cup MigratePcs => mem[p].repos = file.repos
  /\ pc[p] \in SavePcs => /\ Writes(op[p], file.repos)
                          /\ mem[p].repos = After(op[p], file.repos)
  /\ pc[p] \in {"migrate_rename", "save_rename"} => tmp[p] = mem[p]

\* A process has an operation while it is in a call, and an answer at its end.
Asked ==
  /\ DOMAIN result = Procs
  /\ \A p \in Procs : /\ pc[p] = "idle" => op[p] = NoOp
                      /\ pc[p] # "done" => result[p] = "none"

LinkInv == TypeOK /\ OnlyCurrentWritten /\ Asked /\ \A p \in Procs : Tracks(p)

\* An operation is no NoOp, and one that writes answers "ok".
LEMMA OpFacts ==
  ASSUME NEW o \in Ops, NEW e
  PROVE  o # NoOp /\ (Writes(o, e) => Answer(o, e) = "ok")
BY DEF Ops, NoOp, Writes, Answer

\* Both modules speak of the same operations.
LEMMA SameSchema ==
  /\ Store!NoOp = NoOp /\ Store!Ops = Ops /\ Store!Entries = Entries
  /\ \A o, e : /\ Store!Writes(o, e) <=> Writes(o, e)
               /\ Store!After(o, e) = After(o, e)
               /\ Store!Answer(o, e) = Answer(o, e)
BY DEF Store!NoOp, NoOp, Store!Ops, Ops, Store!Entries, Entries, Store!Found, Found,
       Store!Writes, Writes, Store!After, After, Store!Answer, Answer

\* What the only process tracks is what all do.
LEMMA SoleTracks ==
  ASSUME Sole, NEW p \in Procs, Tracks(p)'
  PROVE  (\A q \in Procs : Tracks(q))'
BY DEF Sole

LEMMA LinkInit == Init => LinkInv
<1> SUFFICES ASSUME Init PROVE LinkInv
  OBVIOUS
<1>1. TypeOK /\ OnlyCurrentWritten
  BY InitIInv DEF IInv
<1>2. Asked /\ \A p \in Procs : Tracks(p)
  BY DEF Init, Asked, Tracks, BackupPcs, MigratePcs, SavePcs
<1> QED
  BY <1>1, <1>2 DEF LinkInv

\* Every step keeps that a process has an operation, and no answer too early.
LEMMA AskedStep ==
  ASSUME TypeOK, Asked, [Next]_vars
  PROVE  Asked'
<1>1. CASE UNCHANGED vars
  BY <1>1 DEF vars, Asked
<1>2. CASE Next
  <2> PICK p \in Procs :
        \/ Call(p) \/ Load(p) \/ OpenBackup(p) \/ FillBackup(p) \/ Apply(p)
        \/ WriteTmp(p) \/ SyncTmp(p) \/ Rename(p) \/ IOError(p) \/ Leave(p)
    BY <1>2 DEF Next
  <2> USE DEF Asked, TypeOK, Goto, Finish
  <2>1. CASE Call(p)
    BY <2>1 DEF Call
  <2>2. CASE Load(p)
    BY <2>2 DEF Load
  <2>3. CASE OpenBackup(p) \/ FillBackup(p)
    BY <2>3 DEF OpenBackup, FillBackup
  <2>4. CASE Apply(p)
    <3>1. /\ pc[p] = "apply" /\ UNCHANGED op
          /\ \/ pc' = [pc EXCEPT ![p] = "save_write"] /\ UNCHANGED result
             \/ \E a : pc' = [pc EXCEPT ![p] = "done"] /\ result' = [result EXCEPT ![p] = a]
      BY <2>4 DEF Apply
    <3> QED
      BY <3>1
  <2>5. CASE WriteTmp(p) \/ SyncTmp(p)
    BY <2>5 DEF WriteTmp, SyncTmp
  <2>6. CASE Rename(p)
    BY <2>6 DEF Rename
  <2>7. CASE IOError(p)
    BY <2>7 DEF IOError, WritePcs
  <2>8. CASE Leave(p)
    BY <2>8 DEF Leave
  <2> QED
    BY <2>1, <2>2, <2>3, <2>4, <2>5, <2>6, <2>7, <2>8
<1> QED
  BY <1>1, <1>2

\* Each step keeps the link, and is a step of the atomic store or none.
LEMMA LinkStep ==
  ASSUME Sole, LinkInv, [Next]_vars
  PROVE  (\A p \in Procs : Tracks(p)') /\ [Store!Next]_(Store!vars)
<1> USE DEF LinkInv
<1>1. CASE UNCHANGED vars
  BY <1>1 DEF vars, Tracks, Store!vars
<1>2. CASE Next
  <2> PICK p \in Procs :
        \/ Call(p) \/ Load(p) \/ OpenBackup(p) \/ FillBackup(p) \/ Apply(p)
        \/ WriteTmp(p) \/ SyncTmp(p) \/ Rename(p) \/ IOError(p) \/ Leave(p)
    BY <1>2 DEF Next
  <2>t. /\ mem[p] \in Docs /\ file \in Docs /\ pc[p] \in Pcs
        /\ pc[p] = "idle" => op[p] = NoOp
        /\ pc[p] # "idle" => op[p] \in Ops /\ op[p] # NoOp
        /\ pc[p] # "done" => result[p] = "none"
    BY OpFacts DEF TypeOK, Asked
  <2>p. Sole /\ Tracks(p)
    OBVIOUS
  <2> USE DEF Goto, Finish, BackupPcs, MigratePcs, SavePcs, WritePcs
  <2>1. CASE Call(p)
    <3>1. Tracks(p)'
      BY <2>1 DEF Call, Tracks, TypeOK
    <3>2. Store!Invoke(p)
      BY <2>1, <2>t, SameSchema DEF Call, Store!Invoke
    <3> QED
      BY <2>p, <3>1, <3>2, SoleTracks DEF Store!Next
  <2>2. CASE Load(p)
    <3>1. mem'[p].repos = file.repos /\ pc'[p] \in {"backup", "apply"}
      BY <2>2, <2>t, CurrentFacts DEF Load, TypeOK
    <3>2. Tracks(p)' /\ UNCHANGED Store!vars
      BY <2>2, <3>1 DEF Load, Tracks, Store!vars
    <3> QED
      BY <2>p, <3>2, SoleTracks
  <2>3. CASE OpenBackup(p)
    <3>1. Tracks(p)' /\ UNCHANGED Store!vars
      BY <2>3 DEF OpenBackup, Tracks, Store!vars, TypeOK
    <3> QED
      BY <2>p, <3>1, SoleTracks
  <2>4. CASE FillBackup(p)
    <3>1. mem'[p].repos = mem[p].repos /\ pc'[p] = "migrate_write"
      BY <2>4, <2>t, CurrentFacts DEF FillBackup, TypeOK
    <3>2. Tracks(p)' /\ UNCHANGED Store!vars
      BY <2>4, <3>1 DEF FillBackup, Tracks, Store!vars
    <3> QED
      BY <2>p, <3>2, SoleTracks
  <2>5. CASE Apply(p)
    <3> DEFINE e == file.repos
    <3>0. mem[p].repos = e /\ pc[p] = "apply"
      BY <2>5 DEF Apply, Tracks
    <3>1. CASE Writes(op[p], e)
      <4>1. /\ pc'[p] = "save_write" /\ UNCHANGED <<file, op, result>>
            /\ mem'[p] = [mem[p] EXCEPT !.repos = After(op[p], e)]
            /\ \A q \in Procs : q # p => pc'[q] = pc[q]
        BY <2>5, <3>0, <3>1 DEF Apply, TypeOK
      <4>2. mem'[p].repos = After(op[p], e)
        BY <2>t, <4>1 DEF Docs
      <4>3. Tracks(p)' /\ UNCHANGED Store!vars
        BY <3>1, <4>1, <4>2 DEF Tracks, Store!vars
      <4> QED
        BY <2>p, <4>3, SoleTracks
    <3>2. CASE ~Writes(op[p], e)
      <4>1. /\ pc' = [pc EXCEPT ![p] = "done"]
            /\ result' = [result EXCEPT ![p] = Answer(op[p], e)]
            /\ UNCHANGED <<file, op, mem, tmp>>
        BY <2>5, <3>0, <3>2 DEF Apply
      <4>2. Tracks(p)'
        BY <4>1 DEF Tracks, TypeOK
      <4>3. Store!Execute(p)
        BY <2>t, <3>0, <3>2, <4>1, SameSchema DEF Store!Execute
      <4> QED
        BY <2>p, <4>2, <4>3, SoleTracks DEF Store!Next
    <3> QED
      BY <3>1, <3>2
  <2>6. CASE WriteTmp(p)
    <3>1. Tracks(p)' /\ UNCHANGED Store!vars
      BY <2>6 DEF WriteTmp, Tracks, Store!vars, TypeOK
    <3> QED
      BY <2>p, <3>1, SoleTracks
  <2>7. CASE SyncTmp(p)
    <3>1. Tracks(p)' /\ UNCHANGED Store!vars
      BY <2>7 DEF SyncTmp, Tracks, Store!vars, TypeOK
    <3> QED
      BY <2>p, <3>1, SoleTracks
  <2>8. CASE Rename(p)
    <3>1. /\ file' = mem[p] /\ UNCHANGED <<op, mem>>
          /\ \/ pc[p] = "migrate_rename" /\ pc' = [pc EXCEPT ![p] = "apply"] /\ UNCHANGED result
             \/ /\ pc[p] = "save_rename" /\ pc' = [pc EXCEPT ![p] = "done"]
                /\ result' = [result EXCEPT ![p] = "ok"]
      BY <2>8 DEF Rename, Tracks
    <3>2. Tracks(p)'
      BY <3>1 DEF Tracks, TypeOK
    <3>3. CASE pc[p] = "migrate_rename"
      <4>1. UNCHANGED Store!vars
        BY <3>1, <3>3 DEF Tracks, Store!vars
      <4> QED
        BY <2>p, <3>2, <4>1, SoleTracks
    <3>4. CASE pc[p] = "save_rename"
      <4>1. /\ Writes(op[p], file.repos) /\ Answer(op[p], file.repos) = "ok"
            /\ file'.repos = After(op[p], file.repos)
        BY <2>t, <3>1, <3>4, OpFacts DEF Tracks
      <4>2. Store!Execute(p)
        BY <2>t, <3>1, <3>4, <4>1, SameSchema DEF Store!Execute
      <4> QED
        BY <2>p, <3>2, <4>2, SoleTracks DEF Store!Next
    <3> QED
      BY <3>1, <3>3, <3>4
  <2>9. CASE IOError(p)
    <3>1. Tracks(p)'
      BY <2>9 DEF IOError, Tracks, TypeOK
    <3>2. Store!Fail(p)
      BY <2>9, <2>t, SameSchema DEF IOError, Store!Fail
    <3> QED
      BY <2>p, <3>1, <3>2, SoleTracks DEF Store!Next
  <2>10. CASE Leave(p)
    <3>1. Tracks(p)'
      BY <2>10 DEF Leave, Tracks, TypeOK
    <3>2. Store!Leave(p)
      BY <2>10, <2>t, SameSchema DEF Leave, Store!Leave
    <3> QED
      BY <2>p, <3>1, <3>2, SoleTracks DEF Store!Next
  <2> QED
    BY <2>1, <2>2, <2>3, <2>4, <2>5, <2>6, <2>7, <2>8, <2>9, <2>10
<1> QED
  BY <1>1, <1>2

\* With one process at a time the store implements AtomicStore, for any
\* repositories and values: every operation takes effect in one step, a
\* migration in none, and an error, or a death before the rename, changed nothing.
THEOREM StoreIsAtomic ==
  ASSUME Sole
  PROVE  Spec => AtomicOperations
<1>1. Init => Store!Init
  BY SpecialDocs, SameSchema DEF Init, Store!Init, Docs
<1>2. LinkInv /\ [Next]_vars => LinkInv'
  <2> SUFFICES ASSUME LinkInv, [Next]_vars PROVE LinkInv'
    OBVIOUS
  <2>1. TypeOK' /\ OnlyCurrentWritten'
    BY TypeOKStep, OnlyCurrentStep DEF LinkInv
  <2>2. Asked' /\ (\A p \in Procs : Tracks(p))'
    BY AskedStep, LinkStep DEF LinkInv
  <2> QED
    BY <2>1, <2>2 DEF LinkInv
<1>3. LinkInv /\ [Next]_vars => [Store!Next]_(Store!vars)
  BY LinkStep
<1> QED
  BY <1>1, <1>2, <1>3, LinkInit, PTL DEF Spec, AtomicOperations, Store!Spec

------------------------------------------------------------------------------
(* Any number of processes: what each may still rely on *)

\* What a process is about to rename is its own copy, whole.
OwnCopy == \A p \in Procs : pc[p] \in {"migrate_rename", "save_rename"} => tmp[p] = mem[p]

SharedInv == TypeOK /\ OnlyCurrentWritten /\ Asked /\ OwnCopy

\* Both modules speak of the same operations.
LEMMA SameSharedSchema ==
  /\ Shared!NoOp = NoOp /\ Shared!Ops = Ops /\ Shared!Entries = Entries /\ Shared!Nothing = Nothing
  /\ \A o, e : /\ Shared!Writes(o, e) <=> Writes(o, e)
               /\ Shared!After(o, e) = After(o, e)
               /\ Shared!Answer(o, e) = Answer(o, e)
BY DEF Shared!NoOp, NoOp, Shared!Ops, Ops, Shared!Entries, Entries, Shared!Nothing, Nothing,
       Shared!Found, Found, Shared!Writes, Writes, Shared!After, After, Shared!Answer, Answer

\* Positions and what has been done by them.
LEMMA StageFacts ==
  /\ Stage("idle") = "none" /\ Stage("load") = "asked"
  /\ Stage("backup") = "migrates" /\ Stage("fill_backup") = "migrates"
  /\ Stage("migrate_write") = "migrates" /\ Stage("migrate_sync") = "migrates"
  /\ Stage("migrate_rename") = "migrates" /\ Stage("apply") = "read"
  /\ Stage("save_write") = "changed" /\ Stage("save_sync") = "changed"
  /\ Stage("save_rename") = "changed" /\ Stage("done") = "answered"
BY DEF Stage

Stages == [q \in Procs |-> Stage(pc[q])]
Copies == [q \in Procs |-> mem[q].repos]

\* A step that leaves its stage and its copy as they were shows to nobody.
LEMMA SameStage ==
  ASSUME TypeOK, NEW p \in Procs, NEW there, pc' = [pc EXCEPT ![p] = there],
         Stage(there) = Stage(pc[p]), UNCHANGED <<file, op, result>>,
         mem' = mem \/ \E d : mem' = [mem EXCEPT ![p] = d] /\ d.repos = mem[p].repos
  PROVE  UNCHANGED Shared!vars
<1>1. Stages' = Stages
  BY DEF Stages, TypeOK
<1>2. Copies' = Copies
  BY DEF Copies, TypeOK
<1> QED
  BY <1>1, <1>2 DEF Shared!vars, Stages, Copies

\* Whatever the others do, each renames its own copy: a temporary file's name
\* is its process's own.
LEMMA OwnCopyStep ==
  ASSUME TypeOK, OwnCopy, [Next]_vars
  PROVE  OwnCopy'
<1>1. CASE UNCHANGED vars
  BY <1>1 DEF vars, OwnCopy
<1>2. CASE Next
  <2> PICK p \in Procs :
        \/ Call(p) \/ Load(p) \/ OpenBackup(p) \/ FillBackup(p) \/ Apply(p)
        \/ WriteTmp(p) \/ SyncTmp(p) \/ Rename(p) \/ IOError(p) \/ Leave(p)
    BY <1>2 DEF Next
  <2>1. \A q \in Procs : q # p => pc'[q] = pc[q] /\ tmp'[q] = tmp[q] /\ mem'[q] = mem[q]
    BY DEF TypeOK, Goto, Finish, Call, Load, OpenBackup, FillBackup, Apply, WriteTmp,
           SyncTmp, Rename, IOError, Leave
  <2>2. CASE SyncTmp(p)
    BY <2>1, <2>2 DEF OwnCopy, SyncTmp, TypeOK
  <2>3. CASE ~SyncTmp(p)
    <3>1. pc'[p] \notin {"migrate_rename", "save_rename"}
      BY <2>3 DEF TypeOK, Goto, Finish, Call, Load, OpenBackup, FillBackup, Apply, WriteTmp,
                  Rename, IOError, Leave
    <3> QED
      BY <2>1, <3>1 DEF OwnCopy
  <2> QED
    BY <2>2, <2>3
<1> QED
  BY <1>1, <1>2

\* Each step is one of the shared store or none.
LEMMA SharedStep ==
  ASSUME SharedInv, [Next]_vars
  PROVE  [Shared!Next]_(Shared!vars)
<1> USE DEF SharedInv, Shared!From
<1>1. CASE UNCHANGED vars
  BY <1>1 DEF vars, Shared!vars
<1>2. CASE Next
  <2> PICK p \in Procs :
        \/ Call(p) \/ Load(p) \/ OpenBackup(p) \/ FillBackup(p) \/ Apply(p)
        \/ WriteTmp(p) \/ SyncTmp(p) \/ Rename(p) \/ IOError(p) \/ Leave(p)
    BY <1>2 DEF Next
  <2>t. TypeOK /\ mem[p] \in Docs /\ file \in Docs /\ pc[p] \in Pcs
    BY DEF TypeOK
  <2> USE DEF Goto, Finish, BackupPcs, MigratePcs, SavePcs, WritePcs
  <2>1. CASE Call(p)
    <3>1. /\ pc[p] = "idle" /\ pc' = [pc EXCEPT ![p] = "load"] /\ UNCHANGED mem
          /\ \E o \in Ops : op' = [op EXCEPT ![p] = o]
          /\ UNCHANGED <<file, result>>
      BY <2>1 DEF Call
    <3>2. Stages' = [Stages EXCEPT ![p] = "asked"] /\ Stages[p] = "none"
      BY <2>t, <3>1, StageFacts DEF Stages, TypeOK
    <3>3. Shared!Invoke(p)
      BY <3>1, <3>2, SameSharedSchema DEF Shared!Invoke, Stages
    <3> QED
      BY <3>3 DEF Shared!Next
  <2>2. CASE Load(p)
    <3>1. /\ pc[p] = "load" /\ file.version # "newer"
          /\ pc' = [pc EXCEPT ![p] = IF file.version = "old" THEN "backup" ELSE "apply"]
          /\ mem' = [mem EXCEPT ![p] = IF file.version = "old" THEN file ELSE Current(file)]
          /\ UNCHANGED <<file, op, result>>
      BY <2>2 DEF Load
    <3>2. /\ Stages' = [Stages EXCEPT ![p] = IF file.version = "old" THEN "migrates" ELSE "read"]
          /\ Stages[p] = "asked"
      BY <2>t, <3>1, StageFacts DEF Stages, TypeOK
    <3>3. Copies' = [Copies EXCEPT ![p] = file.repos]
      BY <2>t, <3>1, CurrentFacts DEF Copies, TypeOK
    <3>4. Shared!Read(p)
      BY <3>1, <3>2, <3>3 DEF Shared!Read, Stages, Copies
    <3> QED
      BY <3>4 DEF Shared!Next
  <2>3. CASE OpenBackup(p)
    <3>1. /\ pc[p] = "backup" /\ pc' = [pc EXCEPT ![p] = "fill_backup"]
          /\ UNCHANGED <<file, op, result, mem>>
      BY <2>3 DEF OpenBackup
    <3> QED
      BY <2>t, <3>1, StageFacts, SameStage
  <2>4. CASE FillBackup(p)
    <3>1. /\ pc[p] = "fill_backup" /\ pc' = [pc EXCEPT ![p] = "migrate_write"]
          /\ mem' = [mem EXCEPT ![p] = Current(mem[p])]
          /\ UNCHANGED <<file, op, result>>
      BY <2>4 DEF FillBackup
    <3>2. Current(mem[p]).repos = mem[p].repos
      BY <2>t, CurrentFacts
    <3> QED
      BY <2>t, <3>1, <3>2, StageFacts, SameStage
  <2>5. CASE Apply(p)
    <3> DEFINE e == mem[p].repos
    <3>1. CASE Writes(op[p], e)
      <4>1. /\ pc[p] = "apply" /\ pc' = [pc EXCEPT ![p] = "save_write"]
            /\ mem' = [mem EXCEPT ![p] = [mem[p] EXCEPT !.repos = After(op[p], e)]]
            /\ UNCHANGED <<file, op, result>>
        BY <2>5, <3>1 DEF Apply
      <4>2. [mem[p] EXCEPT !.repos = After(op[p], e)].repos = After(op[p], e)
        BY <2>t DEF Docs
      <4>3. Stages' = [Stages EXCEPT ![p] = "changed"] /\ Stages[p] = "read"
        BY <2>t, <4>1, StageFacts DEF Stages, TypeOK
      <4>4. Copies' = [Copies EXCEPT ![p] = After(op[p], e)] /\ Copies[p] = e
        BY <2>t, <4>1, <4>2 DEF Copies, TypeOK
      <4>5. Shared!Change(p)
        BY <3>1, <4>1, <4>3, <4>4, SameSharedSchema DEF Shared!Change, Stages, Copies
      <4> QED
        BY <4>5 DEF Shared!Next
    <3>2. CASE ~Writes(op[p], e)
      <4>1. /\ pc[p] = "apply" /\ pc' = [pc EXCEPT ![p] = "done"]
            /\ result' = [result EXCEPT ![p] = Answer(op[p], e)]
            /\ UNCHANGED <<file, op, mem>>
        BY <2>5, <3>2 DEF Apply
      <4>2. Stages' = [Stages EXCEPT ![p] = "answered"] /\ Stages[p] = "read"
        BY <2>t, <4>1, StageFacts DEF Stages, TypeOK
      <4>3. Copies[p] = e
        BY DEF Copies
      <4>4. Shared!Reply(p)
        BY <3>2, <4>1, <4>2, <4>3, SameSharedSchema DEF Shared!Reply, Stages, Copies
      <4> QED
        BY <4>4 DEF Shared!Next
    <3> QED
      BY <3>1, <3>2
  <2>6. CASE WriteTmp(p)
    <3>1. /\ \/ pc[p] = "migrate_write" /\ pc' = [pc EXCEPT ![p] = "migrate_sync"]
             \/ pc[p] = "save_write" /\ pc' = [pc EXCEPT ![p] = "save_sync"]
          /\ UNCHANGED <<file, op, result, mem>>
      BY <2>6 DEF WriteTmp
    <3> QED
      BY <2>t, <3>1, StageFacts, SameStage
  <2>7. CASE SyncTmp(p)
    <3>1. /\ \/ pc[p] = "migrate_sync" /\ pc' = [pc EXCEPT ![p] = "migrate_rename"]
             \/ pc[p] = "save_sync" /\ pc' = [pc EXCEPT ![p] = "save_rename"]
          /\ UNCHANGED <<file, op, result, mem>>
      BY <2>7 DEF SyncTmp
    <3> QED
      BY <2>t, <3>1, StageFacts, SameStage
  <2>8. CASE Rename(p)
    <3>1. /\ file' = mem[p] /\ mem[p].version = "current" /\ UNCHANGED <<op, mem>>
          /\ \/ /\ pc[p] = "migrate_rename" /\ pc' = [pc EXCEPT ![p] = "apply"]
                /\ UNCHANGED result
             \/ /\ pc[p] = "save_rename" /\ pc' = [pc EXCEPT ![p] = "done"]
                /\ result' = [result EXCEPT ![p] = "ok"]
      BY <2>8 DEF Rename, OwnCopy, OnlyCurrentWritten
    <3>2. Copies' = Copies /\ file'.repos = Copies[p] /\ file'.version = "current"
      BY <3>1 DEF Copies
    <3>3. CASE pc[p] = "migrate_rename"
      <4>1. pc' = [pc EXCEPT ![p] = "apply"] /\ UNCHANGED result
        BY <3>1, <3>3
      <4>2. Stages' = [Stages EXCEPT ![p] = "read"] /\ Stages[p] = "migrates"
        BY <2>t, <3>3, <4>1, StageFacts DEF Stages, TypeOK
      <4>3. Shared!Migrate(p)
        BY <3>1, <3>2, <4>1, <4>2 DEF Shared!Migrate, Shared!Replace, Stages, Copies
      <4> QED
        BY <4>3 DEF Shared!Next
    <3>4. CASE pc[p] = "save_rename"
      <4>1. pc' = [pc EXCEPT ![p] = "done"] /\ result' = [result EXCEPT ![p] = "ok"]
        BY <3>1, <3>4
      <4>2. Stages' = [Stages EXCEPT ![p] = "answered"] /\ Stages[p] = "changed"
        BY <2>t, <3>4, <4>1, StageFacts DEF Stages, TypeOK
      <4>3. Shared!Commit(p)
        BY <3>1, <3>2, <4>1, <4>2 DEF Shared!Commit, Shared!Replace, Stages, Copies
      <4> QED
        BY <4>3 DEF Shared!Next
    <3> QED
      BY <3>1, <3>3, <3>4
  <2>9. CASE IOError(p)
    <3>1. /\ pc[p] \in {"load", "backup", "fill_backup"} \cup WritePcs
          /\ pc' = [pc EXCEPT ![p] = "done"]
          /\ result' = [result EXCEPT ![p] = "error"] /\ UNCHANGED <<file, op, mem>>
      BY <2>9 DEF IOError
    <3>2. /\ Stages' = [Stages EXCEPT ![p] = "answered"]
          /\ Stages[p] \in {"asked", "migrates", "changed"}
      BY <2>t, <3>1, StageFacts DEF Stages, TypeOK
    <3>3. Shared!Fail(p)
      BY <3>1, <3>2 DEF Shared!Fail, Stages
    <3> QED
      BY <3>3 DEF Shared!Next
  <2>10. CASE Leave(p)
    <3>1. /\ pc[p] # "idle" /\ pc' = [pc EXCEPT ![p] = "idle"]
          /\ op' = [op EXCEPT ![p] = NoOp] /\ mem' = [mem EXCEPT ![p] = Absent]
          /\ result' = [result EXCEPT ![p] = "none"] /\ UNCHANGED file
      BY <2>10 DEF Leave
    <3>2. Stages' = [Stages EXCEPT ![p] = "none"] /\ Stages[p] # "none"
      BY <2>t, <3>1, StageFacts DEF Stages, TypeOK, Pcs
    <3>3. Copies' = [Copies EXCEPT ![p] = Nothing]
      BY <2>t, <3>1 DEF Copies, TypeOK, Absent
    <3>4. Shared!Leave(p)
      BY <3>1, <3>2, <3>3, SameSharedSchema DEF Shared!Leave, Stages, Copies
    <3> QED
      BY <3>4 DEF Shared!Next
  <2> QED
    BY <2>1, <2>2, <2>3, <2>4, <2>5, <2>6, <2>7, <2>8, <2>9, <2>10
<1> QED
  BY <1>1, <1>2

\* For any number of processes, repositories, values and names of backups: a
\* process reads a whole file and replaces it by a whole one, which is what it
\* read with its own operation done on it, or, if an older RunnerKit wrote what
\* it read, first that itself; an error means its operation was not saved.
THEOREM StoreIsShared == Spec => SharedOperations
<1>1. Init => SharedInv
  <2> SUFFICES ASSUME Init PROVE SharedInv
    OBVIOUS
  <2>1. TypeOK /\ OnlyCurrentWritten
    BY InitIInv DEF IInv
  <2>2. Asked /\ OwnCopy
    BY DEF Init, Asked, OwnCopy
  <2> QED
    BY <2>1, <2>2 DEF SharedInv
<1>2. Init => Shared!Init
  <2> SUFFICES ASSUME Init PROVE Shared!Init
    OBVIOUS
  <2>1. Stages = [p \in Procs |-> "none"] /\ Copies = [p \in Procs |-> Nothing]
    BY StageFacts DEF Init, Stages, Copies, Absent
  <2>2. file.repos \in Entries /\ file.version \in {"absent", "old", "current", "newer"}
    BY SpecialDocs DEF Init, Docs, Versions, Absent
  <2> QED
    BY <2>1, <2>2, SameSharedSchema DEF Init, Shared!Init, Stages, Copies
<1>3. SharedInv /\ [Next]_vars => SharedInv'
  <2> SUFFICES ASSUME SharedInv, [Next]_vars PROVE SharedInv'
    OBVIOUS
  <2>1. TypeOK' /\ OnlyCurrentWritten'
    BY TypeOKStep, OnlyCurrentStep DEF SharedInv
  <2>2. Asked' /\ OwnCopy'
    BY AskedStep, OwnCopyStep DEF SharedInv
  <2> QED
    BY <2>1, <2>2 DEF SharedInv
<1>4. SharedInv /\ [Next]_vars => [Shared!Next]_(Shared!vars)
  BY SharedStep
<1> QED
  BY <1>1, <1>2, <1>3, <1>4, PTL DEF Spec, SharedOperations, Shared!Spec

==============================================================================
