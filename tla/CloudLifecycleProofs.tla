------------------------ MODULE CloudLifecycleProofs ------------------------
(***************************************************************************)
(* For any number of processes and machines: IInv is an inductive          *)
(* invariant of CloudLifecycle, and DestroyedMeansGone follows from it.    *)
(* For one process and any machines: what state.json says of the cloud     *)
(* runner.  With two processes each of the latter theorems fails: nothing  *)
(* keeps them from saving over one another's records.                      *)
(***************************************************************************)
EXTENDS CloudLifecycle, TLAPS

------------------------------------------------------------------------------
(* The operators of the model *)

\* The constant records.
LEMMA RecordsMembers ==
  /\ NoRec \in Records /\ ByoRec \in Records
  /\ NoRec.kind = "none" /\ NoRec.m = NoMachine /\ ~NoRec.ready
  /\ ByoRec.kind = "byo" /\ ByoRec.m = NoMachine /\ ~ByoRec.ready
  BY DEF NoRec, ByoRec, Records

\* A fresh cloud record: its machine and ids, never finished.
LEMMA CloudRecFacts ==
  ASSUME NEW m \in Machines, NEW ids \in SUBSET Kinds
  PROVE  /\ CloudRec(m, ids) \in Records
         /\ CloudRec(m, ids).kind = "cloud" /\ CloudRec(m, ids).m = m
         /\ CloudRec(m, ids).ids = ids /\ ~CloudRec(m, ids).ready
  BY DEF CloudRec, NoRec, Records

\* The final record keeps machine and ids and is finished.
LEMMA FinishedFacts ==
  ASSUME NEW r \in Records
  PROVE  /\ Finished(r) \in Records
         /\ Finished(r).kind = r.kind /\ Finished(r).m = r.m /\ Finished(r).ids = r.ids
         /\ Finished(r).ready
  BY DEF Finished, Records

\* Learning ids only adds ids.
LEMMA LearnedFacts ==
  ASSUME NEW r \in Records, NEW kinds \in SUBSET Kinds, NEW out \in Outcomes
  PROVE  /\ Learned(r, kinds, out) \in Records
         /\ Learned(r, kinds, out).kind = r.kind /\ Learned(r, kinds, out).m = r.m
         /\ Learned(r, kinds, out).ready = r.ready
         /\ r.ids \subseteq Learned(r, kinds, out).ids
         /\ out = "ok" => kinds \subseteq Learned(r, kinds, out).ids
  BY DEF Learned, Records

\* auto_delete is all that FromServer decides.
LEMMA FromServerFacts ==
  ASSUME NEW r \in Records
  PROVE  /\ FromServer(r) \in Records
         /\ FromServer(r).kind = r.kind /\ FromServer(r).m = r.m
         /\ FromServer(r).ready = r.ready /\ FromServer(r).ids = r.ids
  BY DEF FromServer, Records

\* What `up` holds after the server call: an accepted one names the server.
LEMMA ServerFacts ==
  ASSUME NEW r \in Records, NEW kinds \in {{"server"}, {"server", "primary_ip"}},
         NEW out \in Outcomes
  PROVE  LET s == FromServer(Learned(r, kinds, out)) IN
         /\ s \in Records
         /\ s.kind = r.kind /\ s.m = r.m
         /\ ~r.ready => ~s.ready
         /\ r.ids \subseteq s.ids
         /\ out = "ok" => "server" \in s.ids
<1>1. kinds \in SUBSET Kinds BY DEF Kinds
<1>2. Learned(r, kinds, out) \in Records BY <1>1, LearnedFacts
<1>3. QED BY <1>1, <1>2, LearnedFacts, FromServerFacts, ZenonT(60)

\* A command that returns leaves every other process alone.
LEMMA ExitFacts ==
  ASSUME TypeOK, NEW p \in Procs, Exit(p)
  PROVE  /\ pc' \in [Procs -> Pcs] /\ snap' \in [Procs -> Records]
         /\ repl' \in [Procs -> BOOLEAN] /\ partial' \in [Procs -> BOOLEAN]
         /\ pc'[p] = "idle" /\ snap'[p] = NoRec
         /\ \A q \in Procs \ {p} : pc'[q] = pc[q] /\ snap'[q] = snap[q] /\ partial'[q] = partial[q]
  BY RecordsMembers DEF TypeOK, Exit, Goto, Pcs

\* A create call touches its own machine only.
LEMMA CreateFacts ==
  ASSUME AccountTypeOK, NEW m \in Machines, NEW kinds \in SUBSET Kinds, NEW out \in Outcomes,
         Create(m, kinds, out)
  PROVE  /\ AccountTypeOK'
         /\ \A n \in Machines \ {m} : cloud'[n] = cloud[n]
         /\ used \subseteq used' /\ used' \subseteq used \cup {m}
         /\ out # "error" => m \in used'
  BY DEF AccountTypeOK, Create, TookEffect, Outcomes

\* A delete call creates nothing.
LEMMA DeleteFacts ==
  ASSUME AccountTypeOK, NEW m \in Machines, NEW k \in Kinds, NEW out \in Outcomes,
         Delete(m, k, out)
  PROVE  /\ AccountTypeOK'
         /\ \A n \in Machines : cloud'[n] \subseteq cloud[n]
         /\ used' = used
  BY DEF AccountTypeOK, Delete, TookEffect, Outcomes

\* TypeOK when a command returns.
LEMMA ExitType ==
  ASSUME TypeOK, NEW p \in Procs, Exit(p), AccountTypeOK', rec' \in Records,
         rec'.kind = "cloud" => rec'.m \in Machines,
         registered' \in Machines \cup {NoMachine},
         installed' \in SUBSET Machines, unreported' \in SUBSET Machines
  PROVE  TypeOK'
  BY ExitFacts DEF TypeOK, HoldsMachine, Provisioning, CreatePcs, CheckpointPcs, MachinePcs, DestroyPcs

\* TypeOK, read for one process.
LEMMA SnapFacts ==
  ASSUME TypeOK, NEW p \in Procs
  PROVE /\ snap[p] \in Records /\ pc[p] \in Pcs
        /\ HoldsMachine(p) => snap[p].kind = "cloud" /\ snap[p].m \in Machines
  BY DEF TypeOK

------------------------------------------------------------------------------
\* Every step keeps the types.
LEMMA TypeOKStep ==
  ASSUME TypeOK, [Next]_vars
  PROVE  TypeOK'
<1> USE MachinesAssumption, SnapFacts, RecordsMembers
    DEF Kinds, Goto, Pcs, HoldsMachine, Provisioning, CreatePcs, CheckpointPcs,
        MachinePcs, DestroyPcs, TypeOK, AccountTypeOK, accountVars, hostVars
<1>1. ASSUME NEW p \in Procs, UpBegin(p) PROVE TypeOK'
  BY <1>1 DEF UpBegin
<1>2. ASSUME NEW p \in Procs, UpConfirm(p) PROVE TypeOK'
  <2>1. CASE Exit(p) BY <1>2, <2>1, ExitFacts DEF UpConfirm
  <2>2. CASE ~Exit(p)
    <3>1. repl' \in [Procs -> BOOLEAN] BY <1>2, <2>2 DEF UpConfirm
    <3>2. QED BY <1>2, <2>2, <3>1 DEF UpConfirm
  <2>3. QED BY <2>1, <2>2
<1>3. ASSUME NEW p \in Procs, CreateSSHKey(p) PROVE TypeOK'
  <2>1. CASE Exit(p) BY <1>3, <2>1, ExitFacts, CreateFacts, CloudRecFacts DEF CreateSSHKey, Outcomes, Kinds, TookEffect
  <2>2. CASE ~Exit(p) BY <1>3, <2>2, CreateFacts, CloudRecFacts DEF CreateSSHKey, Outcomes, Kinds, TookEffect
  <2>3. QED BY <2>1, <2>2
<1>4. ASSUME NEW p \in Procs, CreateFirewall(p) PROVE TypeOK'
  BY <1>4, CreateFacts, LearnedFacts DEF CreateFirewall, Outcomes, Kinds, TookEffect
<1>5. ASSUME NEW p \in Procs, CreateServer(p) PROVE TypeOK'
  <2>1. PICK o \in Outcomes, kinds \in {{"server"}, {"server", "primary_ip"}} :
          /\ Create(snap[p].m, {"server", "primary_ip"}, o)
          /\ snap' = [snap EXCEPT ![p] = FromServer(Learned(snap[p], kinds, o))]
          /\ pc' = [pc EXCEPT ![p] = IF o = "ok" THEN "save_pending" ELSE "save_failed"]
          /\ unreported' = IF o = "lost" THEN unreported \cup {snap[p].m} ELSE unreported
    BY <1>5 DEF CreateServer
  <2>2. snap[p] \in Records /\ snap[p].kind = "cloud" /\ snap[p].m \in Machines
    BY <1>5 DEF CreateServer
  <2>3. /\ snap' \in [Procs -> Records]
        /\ snap'[p].kind = "cloud" /\ snap'[p].m = snap[p].m
        /\ ~snap[p].ready => ~snap'[p].ready
        /\ snap[p].ids \subseteq snap'[p].ids
        /\ pc'[p] = "save_pending" => "server" \in snap'[p].ids
    <3> DEFINE s == FromServer(Learned(snap[p], kinds, o))
    <3>1. /\ s \in Records /\ s.kind = "cloud" /\ s.m = snap[p].m
          /\ ~snap[p].ready => ~s.ready
          /\ snap[p].ids \subseteq s.ids
          /\ o = "ok" => "server" \in s.ids
      BY ONLY <2>2, o \in Outcomes, kinds \in {{"server"}, {"server", "primary_ip"}}, ServerFacts, ZenonT(60)
    <3>2. snap' = [snap EXCEPT ![p] = s] /\ (pc'[p] = "save_pending" => o = "ok")
      BY <2>1
    <3> HIDE DEF s
    <3>3. QED BY <3>1, <3>2
  <2>4. AccountTypeOK' BY <2>1, <2>2, CreateFacts DEF Kinds
  <2>5. QED BY <1>5, <2>1, <2>2, <2>3, <2>4 DEF CreateServer
<1>6. ASSUME NEW p \in Procs, SavePending(p) PROVE TypeOK'
  <2>1. CASE Exit(p) BY <1>6, <2>1, ExitFacts DEF SavePending
  <2>2. CASE ~Exit(p)
    <3>1. repl' \in [Procs -> BOOLEAN] BY <1>6, <2>2 DEF SavePending
    <3>2. QED BY <1>6, <2>2, <3>1 DEF SavePending
  <2>3. QED BY <2>1, <2>2
<1>7. ASSUME NEW p \in Procs, WaitReady(p) PROVE TypeOK'
  BY <1>7, LearnedFacts DEF WaitReady, Outcomes, Kinds
<1>8. ASSUME NEW p \in Procs, WaitTargetReady(p) PROVE TypeOK'
  BY <1>8 DEF WaitTargetReady
<1>9. ASSUME NEW p \in Procs, SaveReadiness(p) PROVE TypeOK'
  BY <1>9, ExitFacts DEF SaveReadiness
<1>10. ASSUME NEW p \in Procs, Bootstrap(p) PROVE TypeOK'
  <2>1. CASE Exit(p) BY <1>10, <2>1, ExitFacts DEF Bootstrap
  <2>2. CASE ~Exit(p) BY <1>10, <2>2 DEF Bootstrap
  <2>3. QED BY <2>1, <2>2
<1>11. ASSUME NEW p \in Procs, WaitOnline(p) PROVE TypeOK'
  <2>1. CASE Exit(p) BY <1>11, <2>1, ExitFacts DEF WaitOnline
  <2>2. CASE ~Exit(p) BY <1>11, <2>2 DEF WaitOnline
  <2>3. QED BY <2>1, <2>2
<1>12. ASSUME NEW p \in Procs, FinalSave(p) PROVE TypeOK'
  BY <1>12, ExitFacts, FinishedFacts DEF FinalSave
<1>13. ASSUME NEW p \in Procs, ByoBegin(p) PROVE TypeOK'
  BY <1>13 DEF ByoBegin
<1>14. ASSUME NEW p \in Procs, ByoSave(p) PROVE TypeOK'
  BY <1>14, ExitFacts DEF ByoSave
<1>15. ASSUME NEW p \in Procs, DestroyBegin(p) PROVE TypeOK'
  BY <1>15 DEF DestroyBegin
<1>16. ASSUME NEW p \in Procs, RemoteCleanup(p) PROVE TypeOK'
  BY <1>16, ZenonT(60) DEF RemoteCleanup, Note
<1>17. ASSUME NEW p \in Procs, DeleteGitHubRunner(p) PROVE TypeOK'
  BY <1>17 DEF DeleteGitHubRunner, Note
<1>18. ASSUME NEW p \in Procs, ProviderUnavailable(p) PROVE TypeOK'
  BY <1>18 DEF ProviderUnavailable, Note
<1>19. ASSUME NEW p \in Procs, DetachFirewall(p) PROVE TypeOK'
  BY <1>19 DEF DetachFirewall, Detach
<1>20. ASSUME NEW p \in Procs, NEW out \in DeleteOutcomes, DeleteServer(p, out) PROVE TypeOK'
  <2>1. snap[p].m \in Machines /\ "server" \in Kinds /\ out \in Outcomes
    BY <1>20 DEF DeleteServer, DeleteResource, DeleteOutcomes, Outcomes, Kinds
  <2>2. AccountTypeOK'
    BY <1>20, <2>1, DeleteFacts DEF DeleteServer, DeleteResource
  <2>3. installed' \in SUBSET Machines
    BY <1>20 DEF DeleteServer
  <2>4. partial' \in [Procs -> BOOLEAN]
    BY <1>20 DEF DeleteServer, DeleteResource, Note
  <2>5. QED
    BY <1>20, <2>2, <2>3, <2>4, ZenonT(60) DEF DeleteServer, DeleteResource
<1>21. ASSUME NEW p \in Procs, NEW out \in DeleteOutcomes, DeleteSSHKey(p, out) PROVE TypeOK'
  <2>1. snap[p].m \in Machines /\ "ssh_key" \in Kinds /\ out \in Outcomes
    BY <1>21 DEF DeleteSSHKey, DeleteResource, DeleteOutcomes, Outcomes, Kinds
  <2>2. AccountTypeOK'
    BY <1>21, <2>1, DeleteFacts DEF DeleteSSHKey, DeleteResource
  <2>3. installed' \in SUBSET Machines
    BY <1>21 DEF DeleteSSHKey
  <2>4. partial' \in [Procs -> BOOLEAN]
    BY <1>21 DEF DeleteSSHKey, DeleteResource, Note
  <2>5. QED
    BY <1>21, <2>2, <2>3, <2>4, ZenonT(60) DEF DeleteSSHKey, DeleteResource
<1>22. ASSUME NEW p \in Procs, NEW out \in DeleteOutcomes, DeletePrimaryIP(p, out) PROVE TypeOK'
  <2>1. snap[p].m \in Machines /\ "primary_ip" \in Kinds /\ out \in Outcomes
    BY <1>22 DEF DeletePrimaryIP, DeleteResource, DeleteOutcomes, Outcomes, Kinds
  <2>2. AccountTypeOK'
    BY <1>22, <2>1, DeleteFacts DEF DeletePrimaryIP, DeleteResource
  <2>3. installed' \in SUBSET Machines
    BY <1>22 DEF DeletePrimaryIP
  <2>4. partial' \in [Procs -> BOOLEAN]
    BY <1>22 DEF DeletePrimaryIP, DeleteResource, Note
  <2>5. QED
    BY <1>22, <2>2, <2>3, <2>4 DEF DeletePrimaryIP, DeleteResource
<1>23. ASSUME NEW p \in Procs, NEW out \in DeleteOutcomes, DeleteFirewall(p, out) PROVE TypeOK'
  <2>1. snap[p].m \in Machines /\ "firewall" \in Kinds /\ out \in Outcomes
    BY <1>23 DEF DeleteFirewall, DeleteResource, DeleteOutcomes, Outcomes, Kinds
  <2>2. AccountTypeOK'
    BY <1>23, <2>1, DeleteFacts DEF DeleteFirewall, DeleteResource
  <2>3. installed' \in SUBSET Machines
    BY <1>23 DEF DeleteFirewall
  <2>4. partial' \in [Procs -> BOOLEAN]
    BY <1>23 DEF DeleteFirewall, DeleteResource, Note
  <2>5. QED
    BY <1>23, <2>2, <2>3, <2>4 DEF DeleteFirewall, DeleteResource
<1>24. ASSUME NEW p \in Procs, VerifyDestroyed(p) PROVE TypeOK'
  BY <1>24 DEF VerifyDestroyed, Note
<1>25. ASSUME NEW p \in Procs, DestroyFinish(p) PROVE TypeOK'
  BY <1>25, ExitFacts DEF DestroyFinish
<1>26. ASSUME NEW p \in Procs, Crash(p) PROVE TypeOK'
  BY <1>26, ExitFacts DEF Crash
<1>27. ASSUME AutoDelete PROVE TypeOK'
  BY <1>27, DeleteFacts DEF AutoDelete, Cascade, procVars, Outcomes, Kinds
<1>28. ASSUME UNCHANGED vars PROVE TypeOK'
  BY <1>28 DEF vars, procVars
<1>29. QED
  BY <1>1, <1>2, <1>3, <1>4, <1>5, <1>6, <1>7, <1>8, <1>9, <1>10, <1>11,
     <1>12, <1>13, <1>14, <1>15, <1>16, <1>17, <1>18, <1>19, <1>20, <1>21,
     <1>22, <1>23, <1>24, <1>25, <1>26, <1>27, <1>28
  DEF Next, CloudUp, ByoUp, Destroy

------------------------------------------------------------------------------
\* No step refers to a machine without a resource.
LEMMA KnownMachinesStep ==
  ASSUME TypeOK, TypeOK', KnownMachines, [Next]_vars
  PROVE  KnownMachines'
<1> USE MachinesAssumption, SnapFacts, RecordsMembers
    DEF KnownMachines, Goto, Pcs, HoldsMachine, Provisioning, CreatePcs, CheckpointPcs,
        MachinePcs, DestroyPcs, TypeOK, AccountTypeOK, accountVars, hostVars
<1>1. ASSUME NEW p \in Procs, UpBegin(p) PROVE KnownMachines'
  BY <1>1 DEF UpBegin
<1>2. ASSUME NEW p \in Procs, UpConfirm(p) PROVE KnownMachines'
  <2>1. CASE Exit(p) BY <1>2, <2>1, ExitFacts DEF UpConfirm
  <2>2. CASE ~Exit(p) BY <1>2, <2>2 DEF UpConfirm
  <2>3. QED BY <2>1, <2>2
<1>3. ASSUME NEW p \in Procs, CreateSSHKey(p) PROVE KnownMachines'
  <2>1. CASE Exit(p) BY <1>3, <2>1, ExitFacts, CreateFacts, CloudRecFacts DEF CreateSSHKey, Outcomes, Kinds, TookEffect
  <2>2. CASE ~Exit(p) BY <1>3, <2>2, CreateFacts, CloudRecFacts DEF CreateSSHKey, Outcomes, Kinds, TookEffect
  <2>3. QED BY <2>1, <2>2
<1>4. ASSUME NEW p \in Procs, CreateFirewall(p) PROVE KnownMachines'
  BY <1>4, CreateFacts, LearnedFacts DEF CreateFirewall, Outcomes, Kinds, TookEffect
<1>5. ASSUME NEW p \in Procs, CreateServer(p) PROVE KnownMachines'
  BY <1>5, CreateFacts, FromServerFacts, LearnedFacts DEF CreateServer, Outcomes, Kinds, TookEffect
<1>6. ASSUME NEW p \in Procs, SavePending(p) PROVE KnownMachines'
  <2>1. CASE Exit(p) BY <1>6, <2>1, ExitFacts DEF SavePending
  <2>2. CASE ~Exit(p) BY <1>6, <2>2 DEF SavePending
  <2>3. QED BY <2>1, <2>2
<1>7. ASSUME NEW p \in Procs, WaitReady(p) PROVE KnownMachines'
  BY <1>7, LearnedFacts DEF WaitReady, Outcomes, Kinds
<1>8. ASSUME NEW p \in Procs, WaitTargetReady(p) PROVE KnownMachines'
  BY <1>8 DEF WaitTargetReady
<1>9. ASSUME NEW p \in Procs, SaveReadiness(p) PROVE KnownMachines'
  BY <1>9, ExitFacts DEF SaveReadiness
<1>10. ASSUME NEW p \in Procs, Bootstrap(p) PROVE KnownMachines'
  <2>1. CASE Exit(p) BY <1>10, <2>1, ExitFacts DEF Bootstrap
  <2>2. CASE ~Exit(p) BY <1>10, <2>2 DEF Bootstrap
  <2>3. QED BY <2>1, <2>2
<1>11. ASSUME NEW p \in Procs, WaitOnline(p) PROVE KnownMachines'
  <2>1. CASE Exit(p) BY <1>11, <2>1, ExitFacts DEF WaitOnline
  <2>2. CASE ~Exit(p) BY <1>11, <2>2 DEF WaitOnline
  <2>3. QED BY <2>1, <2>2
<1>12. ASSUME NEW p \in Procs, FinalSave(p) PROVE KnownMachines'
  BY <1>12, ExitFacts, FinishedFacts DEF FinalSave
<1>13. ASSUME NEW p \in Procs, ByoBegin(p) PROVE KnownMachines'
  BY <1>13 DEF ByoBegin
<1>14. ASSUME NEW p \in Procs, ByoSave(p) PROVE KnownMachines'
  BY <1>14, ExitFacts DEF ByoSave
<1>15. ASSUME NEW p \in Procs, DestroyBegin(p) PROVE KnownMachines'
  BY <1>15 DEF DestroyBegin
<1>16. ASSUME NEW p \in Procs, RemoteCleanup(p) PROVE KnownMachines'
  BY <1>16 DEF RemoteCleanup, Note
<1>17. ASSUME NEW p \in Procs, DeleteGitHubRunner(p) PROVE KnownMachines'
  BY <1>17 DEF DeleteGitHubRunner, Note
<1>18. ASSUME NEW p \in Procs, ProviderUnavailable(p) PROVE KnownMachines'
  BY <1>18 DEF ProviderUnavailable, Note
<1>19. ASSUME NEW p \in Procs, DetachFirewall(p) PROVE KnownMachines'
  BY <1>19 DEF DetachFirewall, Detach
<1>20. ASSUME NEW p \in Procs, NEW out \in DeleteOutcomes, DeleteServer(p, out) PROVE KnownMachines'
  BY <1>20, DeleteFacts DEF DeleteServer, DeleteResource, Note, DeleteOutcomes, Outcomes, Kinds
<1>21. ASSUME NEW p \in Procs, NEW out \in DeleteOutcomes, DeleteSSHKey(p, out) PROVE KnownMachines'
  BY <1>21, DeleteFacts DEF DeleteSSHKey, DeleteResource, Note, DeleteOutcomes, Outcomes, Kinds
<1>22. ASSUME NEW p \in Procs, NEW out \in DeleteOutcomes, DeletePrimaryIP(p, out) PROVE KnownMachines'
  BY <1>22, DeleteFacts DEF DeletePrimaryIP, DeleteResource, Note, DeleteOutcomes, Outcomes, Kinds
<1>23. ASSUME NEW p \in Procs, NEW out \in DeleteOutcomes, DeleteFirewall(p, out) PROVE KnownMachines'
  BY <1>23, DeleteFacts DEF DeleteFirewall, DeleteResource, Note, DeleteOutcomes, Outcomes, Kinds
<1>24. ASSUME NEW p \in Procs, VerifyDestroyed(p) PROVE KnownMachines'
  BY <1>24 DEF VerifyDestroyed, Note
<1>25. ASSUME NEW p \in Procs, DestroyFinish(p) PROVE KnownMachines'
  BY <1>25, ExitFacts DEF DestroyFinish
<1>26. ASSUME NEW p \in Procs, Crash(p) PROVE KnownMachines'
  BY <1>26, ExitFacts DEF Crash
<1>27. ASSUME AutoDelete PROVE KnownMachines'
  BY <1>27, DeleteFacts DEF AutoDelete, Cascade, procVars, Outcomes, Kinds
<1>28. ASSUME UNCHANGED vars PROVE KnownMachines'
  BY <1>28 DEF vars, procVars
<1>29. QED
  BY <1>1, <1>2, <1>3, <1>4, <1>5, <1>6, <1>7, <1>8, <1>9, <1>10, <1>11,
     <1>12, <1>13, <1>14, <1>15, <1>16, <1>17, <1>18, <1>19, <1>20, <1>21,
     <1>22, <1>23, <1>24, <1>25, <1>26, <1>27, <1>28
  DEF Next, CloudUp, ByoUp, Destroy

------------------------------------------------------------------------------
\* No step lets a second process in on the machine of an `up`.
LEMMA UpOwnsMachineStep ==
  ASSUME TypeOK, TypeOK', KnownMachines, UpOwnsMachine, [Next]_vars
  PROVE  UpOwnsMachine'
<1> USE MachinesAssumption, SnapFacts, RecordsMembers
    DEF UpOwnsMachine, Goto, Pcs, HoldsMachine, Provisioning, CreatePcs, CheckpointPcs,
        MachinePcs, DestroyPcs, TypeOK, AccountTypeOK, accountVars, hostVars
<1>1. ASSUME NEW p \in Procs, UpBegin(p) PROVE UpOwnsMachine'
  BY <1>1 DEF UpBegin
<1>2. ASSUME NEW p \in Procs, UpConfirm(p) PROVE UpOwnsMachine'
  <2>1. CASE Exit(p) BY <1>2, <2>1, ExitFacts DEF UpConfirm
  <2>2. CASE ~Exit(p) BY <1>2, <2>2 DEF UpConfirm
  <2>3. QED BY <2>1, <2>2
<1>3. ASSUME NEW p \in Procs, CreateSSHKey(p) PROVE UpOwnsMachine'
  <2>1. PICK m \in Machines \ used, o \in {"ok", "error", "lost"} :
          /\ Create(m, {"ssh_key"}, o)
          /\ IF o = "ok" THEN /\ pc' = [pc EXCEPT ![p] = "create_fw"]
                              /\ snap' = [snap EXCEPT ![p] = CloudRec(m, {"ssh_key"})]
                              /\ partial' = partial
                         ELSE Exit(p)
    BY <1>3 DEF CreateSSHKey
  <2>2. CASE o = "ok"
    <3>1. ~snap'[p].ready /\ snap'[p].m = m
      BY <2>1, <2>2, CloudRecFacts DEF Kinds
    <3>2. rec' = rec /\ rec.m # m /\ \A q \in Procs \ {p} : snap'[q] = snap[q] /\ snap[q].m # m
      BY <1>3, <2>1, <2>2 DEF CreateSSHKey, KnownMachines
    <3>3. QED BY <2>1, <2>2, <3>1, <3>2
  <2>3. CASE o # "ok" BY <1>3, <2>1, <2>3, ExitFacts DEF CreateSSHKey
  <2>4. QED BY <2>2, <2>3
<1>4. ASSUME NEW p \in Procs, CreateFirewall(p) PROVE UpOwnsMachine'
  BY <1>4, CreateFacts, LearnedFacts DEF CreateFirewall, Outcomes, Kinds, TookEffect
<1>5. ASSUME NEW p \in Procs, CreateServer(p) PROVE UpOwnsMachine'
  BY <1>5, CreateFacts, FromServerFacts, LearnedFacts DEF CreateServer, Outcomes, Kinds, TookEffect
<1>6. ASSUME NEW p \in Procs, SavePending(p) PROVE UpOwnsMachine'
  <2>1. CASE Exit(p) BY <1>6, <2>1, ExitFacts DEF SavePending
  <2>2. CASE ~Exit(p) BY <1>6, <2>2 DEF SavePending
  <2>3. QED BY <2>1, <2>2
<1>7. ASSUME NEW p \in Procs, WaitReady(p) PROVE UpOwnsMachine'
  BY <1>7, LearnedFacts DEF WaitReady, Outcomes, Kinds
<1>8. ASSUME NEW p \in Procs, WaitTargetReady(p) PROVE UpOwnsMachine'
  BY <1>8 DEF WaitTargetReady
<1>9. ASSUME NEW p \in Procs, SaveReadiness(p) PROVE UpOwnsMachine'
  BY <1>9, ExitFacts DEF SaveReadiness
<1>10. ASSUME NEW p \in Procs, Bootstrap(p) PROVE UpOwnsMachine'
  <2>1. CASE Exit(p) BY <1>10, <2>1, ExitFacts DEF Bootstrap
  <2>2. CASE ~Exit(p) BY <1>10, <2>2 DEF Bootstrap
  <2>3. QED BY <2>1, <2>2
<1>11. ASSUME NEW p \in Procs, WaitOnline(p) PROVE UpOwnsMachine'
  <2>1. CASE Exit(p) BY <1>11, <2>1, ExitFacts DEF WaitOnline
  <2>2. CASE ~Exit(p) BY <1>11, <2>2 DEF WaitOnline
  <2>3. QED BY <2>1, <2>2
<1>12. ASSUME NEW p \in Procs, FinalSave(p) PROVE UpOwnsMachine'
  BY <1>12, ExitFacts, FinishedFacts DEF FinalSave
<1>13. ASSUME NEW p \in Procs, ByoBegin(p) PROVE UpOwnsMachine'
  BY <1>13 DEF ByoBegin
<1>14. ASSUME NEW p \in Procs, ByoSave(p) PROVE UpOwnsMachine'
  BY <1>14, ExitFacts DEF ByoSave
<1>15. ASSUME NEW p \in Procs, DestroyBegin(p) PROVE UpOwnsMachine'
  BY <1>15 DEF DestroyBegin
<1>16. ASSUME NEW p \in Procs, RemoteCleanup(p) PROVE UpOwnsMachine'
  BY <1>16 DEF RemoteCleanup, Note
<1>17. ASSUME NEW p \in Procs, DeleteGitHubRunner(p) PROVE UpOwnsMachine'
  BY <1>17 DEF DeleteGitHubRunner, Note
<1>18. ASSUME NEW p \in Procs, ProviderUnavailable(p) PROVE UpOwnsMachine'
  BY <1>18 DEF ProviderUnavailable, Note
<1>19. ASSUME NEW p \in Procs, DetachFirewall(p) PROVE UpOwnsMachine'
  BY <1>19 DEF DetachFirewall, Detach
<1>20. ASSUME NEW p \in Procs, NEW out \in DeleteOutcomes, DeleteServer(p, out) PROVE UpOwnsMachine'
  BY <1>20, DeleteFacts DEF DeleteServer, DeleteResource, Note, DeleteOutcomes, Outcomes, Kinds
<1>21. ASSUME NEW p \in Procs, NEW out \in DeleteOutcomes, DeleteSSHKey(p, out) PROVE UpOwnsMachine'
  BY <1>21, DeleteFacts DEF DeleteSSHKey, DeleteResource, Note, DeleteOutcomes, Outcomes, Kinds
<1>22. ASSUME NEW p \in Procs, NEW out \in DeleteOutcomes, DeletePrimaryIP(p, out) PROVE UpOwnsMachine'
  BY <1>22, DeleteFacts DEF DeletePrimaryIP, DeleteResource, Note, DeleteOutcomes, Outcomes, Kinds
<1>23. ASSUME NEW p \in Procs, NEW out \in DeleteOutcomes, DeleteFirewall(p, out) PROVE UpOwnsMachine'
  BY <1>23, DeleteFacts DEF DeleteFirewall, DeleteResource, Note, DeleteOutcomes, Outcomes, Kinds
<1>24. ASSUME NEW p \in Procs, VerifyDestroyed(p) PROVE UpOwnsMachine'
  BY <1>24 DEF VerifyDestroyed, Note
<1>25. ASSUME NEW p \in Procs, DestroyFinish(p) PROVE UpOwnsMachine'
  BY <1>25, ExitFacts DEF DestroyFinish
<1>26. ASSUME NEW p \in Procs, Crash(p) PROVE UpOwnsMachine'
  BY <1>26, ExitFacts DEF Crash
<1>27. ASSUME AutoDelete PROVE UpOwnsMachine'
  BY <1>27, DeleteFacts DEF AutoDelete, Cascade, procVars, Outcomes, Kinds
<1>28. ASSUME UNCHANGED vars PROVE UpOwnsMachine'
  BY <1>28 DEF vars, procVars
<1>29. QED
  BY <1>1, <1>2, <1>3, <1>4, <1>5, <1>6, <1>7, <1>8, <1>9, <1>10, <1>11,
     <1>12, <1>13, <1>14, <1>15, <1>16, <1>17, <1>18, <1>19, <1>20, <1>21,
     <1>22, <1>23, <1>24, <1>25, <1>26, <1>27, <1>28
  DEF Next, CloudUp, ByoUp, Destroy

------------------------------------------------------------------------------
\* No step loses a collected id.
LEMMA IdsCollectedStep ==
  ASSUME TypeOK, TypeOK', IdsCollected, [Next]_vars
  PROVE  IdsCollected'
<1> USE MachinesAssumption, SnapFacts, RecordsMembers
    DEF IdsCollected, Complete, Goto, Pcs, HoldsMachine, Provisioning, CreatePcs, CheckpointPcs,
        MachinePcs, DestroyPcs, TypeOK, AccountTypeOK, accountVars, hostVars
<1>1. ASSUME NEW p \in Procs, UpBegin(p) PROVE IdsCollected'
  BY <1>1 DEF UpBegin
<1>2. ASSUME NEW p \in Procs, UpConfirm(p) PROVE IdsCollected'
  <2>1. CASE Exit(p) BY <1>2, <2>1, ExitFacts DEF UpConfirm
  <2>2. CASE ~Exit(p) BY <1>2, <2>2 DEF UpConfirm
  <2>3. QED BY <2>1, <2>2
<1>3. ASSUME NEW p \in Procs, CreateSSHKey(p) PROVE IdsCollected'
  <2>1. CASE Exit(p) BY <1>3, <2>1, ExitFacts, CreateFacts, CloudRecFacts DEF CreateSSHKey, Outcomes, Kinds, TookEffect
  <2>2. CASE ~Exit(p) BY <1>3, <2>2, CreateFacts, CloudRecFacts DEF CreateSSHKey, Outcomes, Kinds, TookEffect
  <2>3. QED BY <2>1, <2>2
<1>4. ASSUME NEW p \in Procs, CreateFirewall(p) PROVE IdsCollected'
  BY <1>4, CreateFacts, LearnedFacts DEF CreateFirewall, Outcomes, Kinds, TookEffect
<1>5. ASSUME NEW p \in Procs, CreateServer(p) PROVE IdsCollected'
  BY <1>5, CreateFacts, FromServerFacts, LearnedFacts DEF CreateServer, Outcomes, Kinds, TookEffect
<1>6. ASSUME NEW p \in Procs, SavePending(p) PROVE IdsCollected'
  <2>1. CASE Exit(p) BY <1>6, <2>1, ExitFacts DEF SavePending
  <2>2. CASE ~Exit(p) BY <1>6, <2>2 DEF SavePending
  <2>3. QED BY <2>1, <2>2
<1>7. ASSUME NEW p \in Procs, WaitReady(p) PROVE IdsCollected'
  BY <1>7, LearnedFacts DEF WaitReady, Outcomes, Kinds
<1>8. ASSUME NEW p \in Procs, WaitTargetReady(p) PROVE IdsCollected'
  BY <1>8 DEF WaitTargetReady
<1>9. ASSUME NEW p \in Procs, SaveReadiness(p) PROVE IdsCollected'
  BY <1>9, ExitFacts DEF SaveReadiness
<1>10. ASSUME NEW p \in Procs, Bootstrap(p) PROVE IdsCollected'
  <2>1. CASE Exit(p) BY <1>10, <2>1, ExitFacts DEF Bootstrap
  <2>2. CASE ~Exit(p) BY <1>10, <2>2 DEF Bootstrap
  <2>3. QED BY <2>1, <2>2
<1>11. ASSUME NEW p \in Procs, WaitOnline(p) PROVE IdsCollected'
  <2>1. CASE Exit(p) BY <1>11, <2>1, ExitFacts DEF WaitOnline
  <2>2. CASE ~Exit(p) BY <1>11, <2>2 DEF WaitOnline
  <2>3. QED BY <2>1, <2>2
<1>12. ASSUME NEW p \in Procs, FinalSave(p) PROVE IdsCollected'
  BY <1>12, ExitFacts, FinishedFacts DEF FinalSave
<1>13. ASSUME NEW p \in Procs, ByoBegin(p) PROVE IdsCollected'
  BY <1>13 DEF ByoBegin
<1>14. ASSUME NEW p \in Procs, ByoSave(p) PROVE IdsCollected'
  BY <1>14, ExitFacts DEF ByoSave
<1>15. ASSUME NEW p \in Procs, DestroyBegin(p) PROVE IdsCollected'
  BY <1>15 DEF DestroyBegin
<1>16. ASSUME NEW p \in Procs, RemoteCleanup(p) PROVE IdsCollected'
  BY <1>16 DEF RemoteCleanup, Note
<1>17. ASSUME NEW p \in Procs, DeleteGitHubRunner(p) PROVE IdsCollected'
  BY <1>17 DEF DeleteGitHubRunner, Note
<1>18. ASSUME NEW p \in Procs, ProviderUnavailable(p) PROVE IdsCollected'
  BY <1>18 DEF ProviderUnavailable, Note
<1>19. ASSUME NEW p \in Procs, DetachFirewall(p) PROVE IdsCollected'
  BY <1>19 DEF DetachFirewall, Detach
<1>20. ASSUME NEW p \in Procs, NEW out \in DeleteOutcomes, DeleteServer(p, out) PROVE IdsCollected'
  BY <1>20, DeleteFacts DEF DeleteServer, DeleteResource, Note, DeleteOutcomes, Outcomes, Kinds
<1>21. ASSUME NEW p \in Procs, NEW out \in DeleteOutcomes, DeleteSSHKey(p, out) PROVE IdsCollected'
  BY <1>21, DeleteFacts DEF DeleteSSHKey, DeleteResource, Note, DeleteOutcomes, Outcomes, Kinds
<1>22. ASSUME NEW p \in Procs, NEW out \in DeleteOutcomes, DeletePrimaryIP(p, out) PROVE IdsCollected'
  BY <1>22, DeleteFacts DEF DeletePrimaryIP, DeleteResource, Note, DeleteOutcomes, Outcomes, Kinds
<1>23. ASSUME NEW p \in Procs, NEW out \in DeleteOutcomes, DeleteFirewall(p, out) PROVE IdsCollected'
  BY <1>23, DeleteFacts DEF DeleteFirewall, DeleteResource, Note, DeleteOutcomes, Outcomes, Kinds
<1>24. ASSUME NEW p \in Procs, VerifyDestroyed(p) PROVE IdsCollected'
  BY <1>24 DEF VerifyDestroyed, Note
<1>25. ASSUME NEW p \in Procs, DestroyFinish(p) PROVE IdsCollected'
  BY <1>25, ExitFacts DEF DestroyFinish
<1>26. ASSUME NEW p \in Procs, Crash(p) PROVE IdsCollected'
  BY <1>26, ExitFacts DEF Crash
<1>27. ASSUME AutoDelete PROVE IdsCollected'
  BY <1>27, DeleteFacts DEF AutoDelete, Cascade, procVars, Outcomes, Kinds
<1>28. ASSUME UNCHANGED vars PROVE IdsCollected'
  BY <1>28 DEF vars, procVars
<1>29. QED
  BY <1>1, <1>2, <1>3, <1>4, <1>5, <1>6, <1>7, <1>8, <1>9, <1>10, <1>11,
     <1>12, <1>13, <1>14, <1>15, <1>16, <1>17, <1>18, <1>19, <1>20, <1>21,
     <1>22, <1>23, <1>24, <1>25, <1>26, <1>27, <1>28
  DEF Next, CloudUp, ByoUp, Destroy

------------------------------------------------------------------------------
\* No step undoes what a destroy has established.
LEMMA DestroyedSoFarStep ==
  ASSUME TypeOK, TypeOK', KnownMachines, UpOwnsMachine, IdsCollected, DestroyedSoFar, [Next]_vars
  PROVE  DestroyedSoFar'
<1> USE MachinesAssumption, SnapFacts, RecordsMembers
    DEF DestroyedSoFar, VerifiedGone, Goto, Pcs, HoldsMachine, Provisioning, CreatePcs, CheckpointPcs,
        MachinePcs, DestroyPcs, TypeOK, AccountTypeOK, accountVars, hostVars
<1>1. ASSUME NEW p \in Procs, UpBegin(p) PROVE DestroyedSoFar'
  BY <1>1 DEF UpBegin
<1>2. ASSUME NEW p \in Procs, UpConfirm(p) PROVE DestroyedSoFar'
  <2>1. CASE Exit(p) BY <1>2, <2>1, ExitFacts DEF UpConfirm
  <2>2. CASE ~Exit(p) BY <1>2, <2>2 DEF UpConfirm
  <2>3. QED BY <2>1, <2>2
<1>3. ASSUME NEW p \in Procs, CreateSSHKey(p) PROVE DestroyedSoFar'
  <2>1. PICK m \in Machines \ used, o \in {"ok", "error", "lost"} :
          /\ Create(m, {"ssh_key"}, o)
          /\ IF o = "ok" THEN /\ pc' = [pc EXCEPT ![p] = "create_fw"]
                              /\ snap' = [snap EXCEPT ![p] = CloudRec(m, {"ssh_key"})]
                              /\ partial' = partial
                         ELSE Exit(p)
    BY <1>3 DEF CreateSSHKey
  <2>2. \A q \in Procs : HoldsMachine(q) => snap[q].m \in Machines \ {m}
    BY <2>1 DEF KnownMachines
  <2>3. \A q \in Procs : HoldsMachine(q) => cloud'[snap[q].m] = cloud[snap[q].m]
    BY <2>1, <2>2, CreateFacts DEF Kinds, Outcomes
  <2>4. \A q \in Procs \ {p} : snap'[q] = snap[q] /\ pc'[q] = pc[q] /\ partial'[q] = partial[q]
    BY <1>3, <2>1, ExitFacts DEF CreateSSHKey
  <2>5. pc'[p] \notin DestroyPcs /\ registered' = registered
    BY <1>3, <2>1, ExitFacts DEF CreateSSHKey
  <2>6. QED BY <2>3, <2>4, <2>5
<1>4. ASSUME NEW p \in Procs, CreateFirewall(p) PROVE DestroyedSoFar'
  <2>1. PICK o \in Outcomes : Create(snap[p].m, {"firewall"}, o)
    BY <1>4 DEF CreateFirewall
  <2>2. \A q \in Procs \ {p} : HoldsMachine(q) => snap[q].m \in Machines \ {snap[p].m}
    BY <1>4 DEF CreateFirewall, UpOwnsMachine
  <2>3. \A n \in Machines \ {snap[p].m} : cloud'[n] = cloud[n]
    <3>1. snap[p].m \in Machines BY <1>4 DEF CreateFirewall
    <3>2. QED BY <2>1, <3>1, CreateFacts DEF Kinds
  <2>4. \A q \in Procs \ {p} : snap'[q] = snap[q] /\ pc'[q] = pc[q] /\ partial'[q] = partial[q]
    BY <1>4 DEF CreateFirewall
  <2>5. pc'[p] \notin DestroyPcs /\ registered' = registered
    BY <1>4 DEF CreateFirewall
  <2>6. QED BY <2>2, <2>3, <2>4, <2>5
<1>5. ASSUME NEW p \in Procs, CreateServer(p) PROVE DestroyedSoFar'
  <2>1. PICK o \in Outcomes : Create(snap[p].m, {"server", "primary_ip"}, o)
    BY <1>5 DEF CreateServer
  <2>2. \A q \in Procs \ {p} : HoldsMachine(q) => snap[q].m \in Machines \ {snap[p].m}
    BY <1>5 DEF CreateServer, UpOwnsMachine
  <2>3. \A n \in Machines \ {snap[p].m} : cloud'[n] = cloud[n]
    <3>1. snap[p].m \in Machines BY <1>5 DEF CreateServer
    <3>2. QED BY <2>1, <3>1, CreateFacts DEF Kinds
  <2>4. \A q \in Procs \ {p} : snap'[q] = snap[q] /\ pc'[q] = pc[q] /\ partial'[q] = partial[q]
    BY <1>5 DEF CreateServer
  <2>5. pc'[p] \notin DestroyPcs /\ registered' = registered
    BY <1>5 DEF CreateServer
  <2>6. QED BY <2>2, <2>3, <2>4, <2>5
<1>6. ASSUME NEW p \in Procs, SavePending(p) PROVE DestroyedSoFar'
  <2>1. CASE Exit(p) BY <1>6, <2>1, ExitFacts DEF SavePending
  <2>2. CASE ~Exit(p) BY <1>6, <2>2 DEF SavePending
  <2>3. QED BY <2>1, <2>2
<1>7. ASSUME NEW p \in Procs, WaitReady(p) PROVE DestroyedSoFar'
  BY <1>7, LearnedFacts DEF WaitReady, Outcomes, Kinds
<1>8. ASSUME NEW p \in Procs, WaitTargetReady(p) PROVE DestroyedSoFar'
  BY <1>8 DEF WaitTargetReady
<1>9. ASSUME NEW p \in Procs, SaveReadiness(p) PROVE DestroyedSoFar'
  BY <1>9, ExitFacts DEF SaveReadiness
<1>10. ASSUME NEW p \in Procs, Bootstrap(p) PROVE DestroyedSoFar'
  <2>1. /\ pc'[p] \notin DestroyPcs /\ cloud' = cloud
        /\ registered' \in {registered, snap[p].m}
    BY <1>10, ExitFacts DEF Bootstrap
  <2>2. \A q \in Procs \ {p} : snap'[q] = snap[q] /\ pc'[q] = pc[q] /\ partial'[q] = partial[q]
    BY <1>10, ExitFacts DEF Bootstrap
  <2>3. \A q \in Procs \ {p} : snap[q].ready => snap[q].m # snap[p].m
    BY <1>10 DEF Bootstrap, UpOwnsMachine
  <2>4. QED BY <2>1, <2>2, <2>3
<1>11. ASSUME NEW p \in Procs, WaitOnline(p) PROVE DestroyedSoFar'
  <2>1. CASE Exit(p) BY <1>11, <2>1, ExitFacts DEF WaitOnline
  <2>2. CASE ~Exit(p) BY <1>11, <2>2 DEF WaitOnline
  <2>3. QED BY <2>1, <2>2
<1>12. ASSUME NEW p \in Procs, FinalSave(p) PROVE DestroyedSoFar'
  BY <1>12, ExitFacts, FinishedFacts DEF FinalSave
<1>13. ASSUME NEW p \in Procs, ByoBegin(p) PROVE DestroyedSoFar'
  BY <1>13 DEF ByoBegin
<1>14. ASSUME NEW p \in Procs, ByoSave(p) PROVE DestroyedSoFar'
  BY <1>14, ExitFacts DEF ByoSave
<1>15. ASSUME NEW p \in Procs, DestroyBegin(p) PROVE DestroyedSoFar'
  BY <1>15 DEF DestroyBegin
<1>16. ASSUME NEW p \in Procs, RemoteCleanup(p) PROVE DestroyedSoFar'
  BY <1>16 DEF RemoteCleanup, Note
<1>17. ASSUME NEW p \in Procs, DeleteGitHubRunner(p) PROVE DestroyedSoFar'
  <2>1. \A q \in Procs : HoldsMachine(q) => snap[q].m \in Machines
    OBVIOUS
  <2>2. /\ pc' = [pc EXCEPT ![p] = "d_detach"]
        /\ registered' \in {registered, NoMachine}
        /\ ~partial'[p] => ~partial[p] /\ registered' = NoMachine
        /\ \A q \in Procs \ {p} : partial'[q] = partial[q]
        /\ UNCHANGED <<cloud, snap>>
    BY <1>17, ZenonT(60) DEF DeleteGitHubRunner, Note, TookEffect
  <2>3. QED BY <1>17, <2>1, <2>2 DEF DeleteGitHubRunner
<1>18. ASSUME NEW p \in Procs, ProviderUnavailable(p) PROVE DestroyedSoFar'
  BY <1>18 DEF ProviderUnavailable, Note
<1>19. ASSUME NEW p \in Procs, DetachFirewall(p) PROVE DestroyedSoFar'
  BY <1>19 DEF DetachFirewall, Detach
<1>20. ASSUME NEW p \in Procs, NEW out \in DeleteOutcomes, DeleteServer(p, out) PROVE DestroyedSoFar'
  BY <1>20, DeleteFacts DEF DeleteServer, DeleteResource, Note, DeleteOutcomes, Outcomes, Kinds
<1>21. ASSUME NEW p \in Procs, NEW out \in DeleteOutcomes, DeleteSSHKey(p, out) PROVE DestroyedSoFar'
  BY <1>21, DeleteFacts DEF DeleteSSHKey, DeleteResource, Note, DeleteOutcomes, Outcomes, Kinds
<1>22. ASSUME NEW p \in Procs, NEW out \in DeleteOutcomes, DeletePrimaryIP(p, out) PROVE DestroyedSoFar'
  BY <1>22, DeleteFacts DEF DeletePrimaryIP, DeleteResource, Note, DeleteOutcomes, Outcomes, Kinds
<1>23. ASSUME NEW p \in Procs, NEW out \in DeleteOutcomes, DeleteFirewall(p, out) PROVE DestroyedSoFar'
  BY <1>23, DeleteFacts DEF DeleteFirewall, DeleteResource, Note, DeleteOutcomes, Outcomes, Kinds
<1>24. ASSUME NEW p \in Procs, VerifyDestroyed(p) PROVE DestroyedSoFar'
  BY <1>24 DEF VerifyDestroyed, Note
<1>25. ASSUME NEW p \in Procs, DestroyFinish(p) PROVE DestroyedSoFar'
  BY <1>25, ExitFacts DEF DestroyFinish
<1>26. ASSUME NEW p \in Procs, Crash(p) PROVE DestroyedSoFar'
  BY <1>26, ExitFacts DEF Crash
<1>27. ASSUME AutoDelete PROVE DestroyedSoFar'
  BY <1>27, DeleteFacts DEF AutoDelete, Cascade, procVars, Outcomes, Kinds
<1>28. ASSUME UNCHANGED vars PROVE DestroyedSoFar'
  BY <1>28 DEF vars, procVars
<1>29. QED
  BY <1>1, <1>2, <1>3, <1>4, <1>5, <1>6, <1>7, <1>8, <1>9, <1>10, <1>11,
     <1>12, <1>13, <1>14, <1>15, <1>16, <1>17, <1>18, <1>19, <1>20, <1>21,
     <1>22, <1>23, <1>24, <1>25, <1>26, <1>27, <1>28
  DEF Next, CloudUp, ByoUp, Destroy

------------------------------------------------------------------------------
(* The theorems *)

\* The initial states satisfy the inductive invariant.
LEMMA InitIInv == Init => IInv
<1> SUFFICES ASSUME Init PROVE IInv
  OBVIOUS
<1> USE RecordsMembers, MachinesAssumption
    DEF Init, AccountInit, HoldsMachine, Provisioning, Pcs, CreatePcs, CheckpointPcs,
        MachinePcs, DestroyPcs
<1>1. TypeOK BY DEF TypeOK, AccountTypeOK, Kinds
<1>2. KnownMachines BY DEF KnownMachines
<1>3. UpOwnsMachine BY DEF UpOwnsMachine
<1>4. IdsCollected BY DEF IdsCollected
<1>5. DestroyedSoFar BY DEF DestroyedSoFar
<1>6. QED BY <1>1, <1>2, <1>3, <1>4, <1>5 DEF IInv

\* IInv holds in every reachable state, for any sets Procs and Machines.
THEOREM Invariance == Spec => []IInv
<1>1. IInv /\ [Next]_vars => IInv'
  <2> SUFFICES ASSUME IInv, [Next]_vars PROVE IInv'
    OBVIOUS
  <2>1. TypeOK' BY TypeOKStep DEF IInv
  <2>2. KnownMachines' BY <2>1, KnownMachinesStep DEF IInv
  <2>3. UpOwnsMachine' BY <2>1, UpOwnsMachineStep DEF IInv
  <2>4. IdsCollected' BY <2>1, IdsCollectedStep DEF IInv
  <2>5. DestroyedSoFar' BY <2>1, DestroyedSoFarStep DEF IInv
  <2>6. QED BY <2>1, <2>2, <2>3, <2>4, <2>5 DEF IInv
<1>2. QED BY InitIInv, <1>1, PTL DEF Spec

\* Types hold in every reachable state.
THEOREM TypeCorrect == Spec => []TypeOK
<1>1. IInv => TypeOK BY DEF IInv
<1>2. QED BY Invariance, <1>1, PTL

\* When destroy is about to report success, however many other commands ran
\* meanwhile, nothing of its machine but addresses on their way out is left:
\* a finished record names every other kind, and each was read back as gone.
THEOREM DestroyReportsTruth == Spec => []DestroyedMeansGone
<1>1. IInv => DestroyedMeansGone
  <2> SUFFICES ASSUME IInv, NEW p \in Procs, pc[p] = "d_finish", ~partial[p]
               PROVE  cloud[snap[p].m] \subseteq {"primary_ip"} /\ registered # snap[p].m
    BY DEF DestroyedMeansGone
  <2>1. snap[p].ready /\ registered # snap[p].m /\ VerifiedGone(snap[p])
    BY DEF IInv, DestroyedSoFar, DestroyPcs
  <2>2. {"ssh_key", "firewall", "server"} \subseteq snap[p].ids
    BY <2>1 DEF IInv, IdsCollected, Complete
  <2>3. cloud[snap[p].m] \subseteq Kinds
    BY DEF IInv, TypeOK, AccountTypeOK, HoldsMachine, DestroyPcs
  <2>4. QED BY <2>1, <2>2, <2>3 DEF VerifiedGone, Kinds
<1>2. QED BY Invariance, <1>1, PTL

------------------------------------------------------------------------------
(* One process at a time *)

Sole == \A p, q \in Procs : p = q

\* The stages of a command that found no cloud record and has saved none.
BeforeRecord == {"up_confirm", "create_key", "byo_save"} \cup CreatePcs \cup CheckpointPcs

\* What the record is to the command that runs: not yet that of a cloud
\* machine, that of the machine `up` works on, or the one `destroy` read.
RecordWhile(p) ==
  /\ ~HoldsMachine(p) => snap[p].kind # "cloud"
  /\ pc[p] \in BeforeRecord => rec.kind # "cloud"
  /\ pc[p] \in {"create_key"} \cup CreatePcs \cup CheckpointPcs => rec.kind = "none" \/ repl[p]
  /\ pc[p] \in CreatePcs \cup CheckpointPcs => "ssh_key" \in snap[p].ids
  /\ pc[p] \in MachinePcs =>
       /\ rec.kind = "cloud" /\ rec.m = snap[p].m
       /\ rec.ids \ {"primary_ip"} = snap[p].ids \ {"primary_ip"}
  /\ pc[p] \in DestroyPcs => rec = snap[p]

\* A cloud record names a resource, so that `up` refuses to start over it.
RecordNamesKey == rec.kind = "cloud" => "ssh_key" \in rec.ids

RecordInv == RecordNamesKey /\ \A p \in Procs : RecordWhile(p)

------------------------------------------------------------------------------
\* With one process its stage alone decides.
LEMMA SoleRecordInv ==
  ASSUME Sole, NEW p \in Procs
  PROVE  /\ RecordInv <=> RecordNamesKey /\ RecordWhile(p)
         /\ RecordNamesKey' /\ RecordWhile(p)' => RecordInv'
BY DEF Sole, RecordInv

\* A command that returns asks nothing of the record but the name of its key.
LEMMA ExitRecord ==
  ASSUME Sole, TypeOK, NEW p \in Procs, Exit(p), RecordNamesKey'
  PROVE  RecordInv'
BY SoleRecordInv, ExitFacts, RecordsMembers
DEF RecordWhile, HoldsMachine, Provisioning, BeforeRecord, CreatePcs, CheckpointPcs, MachinePcs, DestroyPcs

\* The steps of `destroy` between its first and its last: they delete, and
\* leave the record and what was read of it alone.
DestroyWork(p) ==
  \/ RemoteCleanup(p) \/ DeleteGitHubRunner(p) \/ ProviderUnavailable(p)
  \/ DetachFirewall(p) \/ VerifyDestroyed(p)
  \/ \E out \in DeleteOutcomes :
       \/ DeleteServer(p, out) \/ DeleteSSHKey(p, out)
       \/ DeletePrimaryIP(p, out) \/ DeleteFirewall(p, out)

LEMMA DestroyWorkFacts ==
  ASSUME TypeOK, NEW p \in Procs, DestroyWork(p)
  PROVE  /\ pc[p] \in DestroyPcs /\ pc'[p] \in DestroyPcs
         /\ UNCHANGED <<rec, snap, unreported>>
         /\ registered' \in {registered, NoMachine}
         /\ \A m \in Machines : cloud'[m] \subseteq cloud[m]
<1>1. pc \in [Procs -> Pcs] /\ AccountTypeOK
  BY DEF TypeOK
<1>2. pc[p] \in DestroyPcs => snap[p].m \in Machines
  BY SnapFacts DEF HoldsMachine
<1> USE <1>1 DEF Goto, DestroyPcs
<1>3. CASE RemoteCleanup(p)
  BY <1>3 DEF RemoteCleanup, accountVars, hostVars
<1>4. CASE DeleteGitHubRunner(p)
  BY <1>4 DEF DeleteGitHubRunner, accountVars, hostVars
<1>5. CASE ProviderUnavailable(p)
  BY <1>5 DEF ProviderUnavailable, accountVars, hostVars
<1>6. CASE DetachFirewall(p)
  BY <1>6 DEF DetachFirewall, Detach, accountVars, hostVars
<1>7. CASE VerifyDestroyed(p)
  BY <1>7 DEF VerifyDestroyed, accountVars, hostVars
<1>8. ASSUME NEW out \in DeleteOutcomes, NEW k \in Kinds, NEW here \in DestroyPcs,
             NEW next \in DestroyPcs, DeleteResource(p, k, here, next, out)
      PROVE  /\ pc[p] \in DestroyPcs /\ pc'[p] \in DestroyPcs
             /\ UNCHANGED <<rec, snap, unreported, registered>>
             /\ \A m \in Machines : cloud'[m] \subseteq cloud[m]
  <2>1. /\ pc[p] = here /\ pc' = [pc EXCEPT ![p] = next]
        /\ UNCHANGED <<rec, snap, unreported, registered>>
        /\ UNCHANGED accountVars \/ Delete(snap[p].m, k, out)
    BY <1>8 DEF DeleteResource
  <2>2. out \in Outcomes /\ snap[p].m \in Machines
    BY <1>2, <2>1 DEF DeleteOutcomes, Outcomes
  <2>3. \A m \in Machines : cloud'[m] \subseteq cloud[m]
    BY <2>1, <2>2, DeleteFacts DEF accountVars
  <2>4. QED BY <2>1, <2>3
<1>9. ASSUME NEW out \in DeleteOutcomes, DeleteServer(p, out) \/ DeleteSSHKey(p, out)
      PROVE  \E k \in Kinds, here, next \in DestroyPcs : DeleteResource(p, k, here, next, out)
  BY <1>9 DEF DeleteServer, DeleteSSHKey, Kinds
<1>10. ASSUME NEW out \in DeleteOutcomes, DeletePrimaryIP(p, out) \/ DeleteFirewall(p, out)
       PROVE  \/ \E k \in Kinds, here, next \in DestroyPcs : DeleteResource(p, k, here, next, out)
              \/ /\ pc[p] \in DestroyPcs /\ pc'[p] \in DestroyPcs
                 /\ UNCHANGED <<rec, snap, unreported, registered, cloud>>
  BY <1>10 DEF DeletePrimaryIP, DeleteFirewall, Kinds, accountVars, hostVars
<1>11. QED
  BY <1>3, <1>4, <1>5, <1>6, <1>7, <1>8, <1>9, <1>10 DEF DestroyWork

\* Every step keeps the record what it is to the running command.
LEMMA RecordStep ==
  ASSUME Sole, TypeOK, RecordInv, [Next]_vars
  PROVE  RecordInv'
<1> USE MachinesAssumption, SnapFacts, RecordsMembers, SoleRecordInv, ExitRecord
    DEF RecordWhile, RecordNamesKey, Goto, Pcs, HoldsMachine, Provisioning, BeforeRecord,
        CreatePcs, CheckpointPcs, MachinePcs, DestroyPcs, TypeOK
<1>1. ASSUME NEW p \in Procs, UpBegin(p) \/ ByoBegin(p) PROVE RecordInv'
  BY <1>1 DEF UpBegin, ByoBegin, Refused, LiveIDs
<1>2. ASSUME NEW p \in Procs, UpConfirm(p) PROVE RecordInv'
  <2>1. CASE Exit(p) BY <1>2, <2>1 DEF UpConfirm
  <2>2. CASE ~Exit(p)
    <3>1. ~Refused(rec) /\ UNCHANGED <<rec, snap>> /\ pc'[p] = "create_key" /\ repl'[p] = (rec.kind # "none")
      BY <1>2, <2>2 DEF UpConfirm
    <3>2. QED BY <1>2, <3>1 DEF UpConfirm, Refused, LiveIDs
  <2>3. QED BY <2>1, <2>2
<1>3. ASSUME NEW p \in Procs, CreateSSHKey(p) PROVE RecordInv'
  <2>1. CASE Exit(p) BY <1>3, <2>1 DEF CreateSSHKey
  <2>2. CASE ~Exit(p) BY <1>3, <2>2, CloudRecFacts DEF CreateSSHKey, Kinds
  <2>3. QED BY <2>1, <2>2
<1>4. ASSUME NEW p \in Procs, CreateFirewall(p) PROVE RecordInv'
  <2>1. PICK o \in Outcomes : snap' = [snap EXCEPT ![p] = Learned(snap[p], {"firewall"}, o)]
    BY <1>4 DEF CreateFirewall
  <2>2. snap[p] \in Records /\ {"firewall"} \in SUBSET Kinds /\ "ssh_key" \in snap[p].ids
    BY <1>4 DEF CreateFirewall, Kinds
  <2>3. "ssh_key" \in snap'[p].ids
    <3> DEFINE s == Learned(snap[p], {"firewall"}, o)
    <3>1. snap[p].ids \subseteq s.ids
      BY ONLY <2>2, o \in Outcomes, LearnedFacts
    <3> HIDE DEF s
    <3>2. QED BY <2>1, <2>2, <3>1 DEF s
  <2>4. pc'[p] \in {"create_server", "save_failed"} /\ UNCHANGED <<rec, repl>> /\ pc[p] = "create_fw"
    BY <1>4 DEF CreateFirewall
  <2>5. QED BY <2>3, <2>4
<1>5. ASSUME NEW p \in Procs, CreateServer(p) PROVE RecordInv'
  <2>1. PICK o \in Outcomes, kinds \in {{"server"}, {"server", "primary_ip"}} :
          snap' = [snap EXCEPT ![p] = FromServer(Learned(snap[p], kinds, o))]
    BY ONLY <1>5, ZenonT(60) DEF CreateServer
  <2>2. snap[p] \in Records /\ "ssh_key" \in snap[p].ids
    BY <1>5 DEF CreateServer
  <2>3. "ssh_key" \in snap'[p].ids
    <3> DEFINE s == FromServer(Learned(snap[p], kinds, o))
    <3>1. snap[p].ids \subseteq s.ids
      BY ONLY <2>2, o \in Outcomes, kinds \in {{"server"}, {"server", "primary_ip"}}, ServerFacts, ZenonT(60)
    <3> HIDE DEF s
    <3>2. QED BY <2>1, <2>2, <3>1 DEF s
  <2>4. pc'[p] \in CheckpointPcs /\ UNCHANGED <<rec, repl>> /\ pc[p] = "create_server"
    BY <1>5 DEF CreateServer
  <2>5. QED BY <2>3, <2>4
<1>6. ASSUME NEW p \in Procs, SavePending(p) PROVE RecordInv'
  <2>1. CASE Exit(p) BY <1>6, <2>1 DEF SavePending
  <2>2. CASE ~Exit(p) BY <1>6, <2>2 DEF SavePending
  <2>3. QED BY <2>1, <2>2
<1>7. ASSUME NEW p \in Procs, WaitReady(p) PROVE RecordInv'
  <2>1. UNCHANGED rec /\ pc[p] = "wait_ready" /\ pc'[p] \in MachinePcs
    BY <1>7 DEF WaitReady
  <2>2. /\ snap'[p].m = snap[p].m
        /\ snap'[p].ids \ {"primary_ip"} = snap[p].ids \ {"primary_ip"}
    BY <1>7 DEF WaitReady, Learned, Records
  <2>3. QED BY <2>1, <2>2
<1>8. ASSUME NEW p \in Procs, WaitTargetReady(p) PROVE RecordInv'
  BY <1>8 DEF WaitTargetReady
<1>9. ASSUME NEW p \in Procs, SaveReadiness(p) PROVE RecordInv'
  BY <1>9 DEF SaveReadiness
<1>10. ASSUME NEW p \in Procs, Bootstrap(p) PROVE RecordInv'
  BY <1>10 DEF Bootstrap
<1>11. ASSUME NEW p \in Procs, WaitOnline(p) PROVE RecordInv'
  BY <1>11 DEF WaitOnline
<1>12. ASSUME NEW p \in Procs, FinalSave(p) PROVE RecordInv'
  BY <1>12, FinishedFacts DEF FinalSave
<1>13. ASSUME NEW p \in Procs, ByoSave(p) PROVE RecordInv'
  BY <1>13 DEF ByoSave
<1>14. ASSUME NEW p \in Procs, DestroyBegin(p) PROVE RecordInv'
  BY <1>14 DEF DestroyBegin
<1>15. ASSUME NEW p \in Procs, DestroyFinish(p) PROVE RecordInv'
  BY <1>15 DEF DestroyFinish
<1>16. ASSUME NEW p \in Procs, DestroyWork(p) PROVE RecordInv'
  <2>1. /\ HoldsMachine(p)' /\ pc'[p] \notin BeforeRecord \cup MachinePcs
        /\ pc[p] \in DestroyPcs /\ UNCHANGED <<rec, snap>>
    BY <1>16, DestroyWorkFacts
  <2>2. rec' = snap'[p] /\ RecordNamesKey'
    BY <2>1
  <2>3. RecordWhile(p)'
    BY <2>1, <2>2
  <2>4. QED BY <2>2, <2>3
<1>17. ASSUME NEW p \in Procs, Crash(p) PROVE RecordInv'
  BY <1>17 DEF Crash
<1>18. ASSUME AutoDelete \/ UNCHANGED vars PROVE RecordInv'
  BY <1>18 DEF AutoDelete, vars, procVars, RecordInv
<1>19. QED
  BY <1>1, <1>2, <1>3, <1>4, <1>5, <1>6, <1>7, <1>8, <1>9, <1>10, <1>11, <1>12,
     <1>13, <1>14, <1>15, <1>16, <1>17, <1>18
  DEF Next, CloudUp, ByoUp, Destroy, DestroyWork

------------------------------------------------------------------------------
(* The record and the registration *)

\* All that a step can do to them: without a cloud record nothing becomes
\* registered; a cloud record stays that of its machine, which may become
\* registered, unless a destroy without a failed step finishes.
RecordChange ==
  \/ /\ rec.kind # "cloud" \/ (rec'.kind = "cloud" /\ rec'.m = rec.m)
     /\ registered' \in {registered, NoMachine}
  \/ /\ rec' = rec /\ rec.kind = "cloud" /\ registered' = rec.m
  \/ /\ \E p \in Procs : pc[p] = "d_finish" /\ ~partial[p] /\ snap[p] = rec
     /\ registered' = registered

LEMMA RecordChanges ==
  ASSUME Sole, TypeOK, RecordInv, [Next]_vars
  PROVE  RecordChange
<1>r. ASSUME NEW p \in Procs PROVE RecordWhile(p)
  BY DEF RecordInv
<1> USE <1>r DEF RecordChange, RecordWhile, BeforeRecord, CreatePcs, CheckpointPcs, MachinePcs, DestroyPcs
<1>1. ASSUME NEW p \in Procs,
             \/ UpBegin(p) \/ ByoBegin(p) \/ UpConfirm(p)
             \/ CreateSSHKey(p) \/ CreateFirewall(p) \/ CreateServer(p)
             \/ WaitReady(p) \/ WaitTargetReady(p) \/ WaitOnline(p) \/ DestroyBegin(p) \/ Crash(p)
      PROVE  UNCHANGED <<rec, registered>>
  BY <1>1
  DEF UpBegin, ByoBegin, UpConfirm, CreateSSHKey, CreateFirewall, CreateServer, WaitReady,
      WaitTargetReady, WaitOnline, DestroyBegin, Crash, hostVars
<1>2. ASSUME NEW p \in Procs, SavePending(p) PROVE RecordChange
  <2>1. rec.kind # "cloud" /\ registered' = registered
    BY <1>2 DEF SavePending, hostVars
  <2>2. QED BY <2>1
<1>3. ASSUME NEW p \in Procs, SaveReadiness(p) PROVE RecordChange
  <2>1. rec' \in {rec, snap[p]} /\ registered' = registered /\ rec.kind = "cloud" /\ rec.m = snap[p].m
    BY <1>3 DEF SaveReadiness, hostVars
  <2>2. snap[p].kind = "cloud"
    BY <1>3, SnapFacts DEF SaveReadiness, HoldsMachine, Provisioning
  <2>3. QED BY <2>1, <2>2
<1>4. ASSUME NEW p \in Procs, Bootstrap(p) PROVE RecordChange
  BY <1>4 DEF Bootstrap, hostVars
<1>5. ASSUME NEW p \in Procs, FinalSave(p) PROVE RecordChange
  <2>1. rec' \in {rec, Finished(snap[p])} /\ registered' = registered /\ rec.kind = "cloud" /\ rec.m = snap[p].m
    BY <1>5 DEF FinalSave, hostVars
  <2>2. snap[p] \in Records /\ snap[p].kind = "cloud"
    BY <1>5, SnapFacts DEF FinalSave, HoldsMachine, Provisioning
  <2>3. QED BY <2>1, <2>2, FinishedFacts
<1>6. ASSUME NEW p \in Procs, ByoSave(p) PROVE RecordChange
  <2>1. rec.kind # "cloud" /\ registered' \in {registered, NoMachine}
    BY <1>6 DEF ByoSave
  <2>2. QED BY <2>1
<1>7. ASSUME NEW p \in Procs, DestroyWork(p) PROVE RecordChange
  BY <1>7, DestroyWorkFacts
<1>8. ASSUME NEW p \in Procs, DestroyFinish(p) PROVE RecordChange
  <2>1. rec = snap[p] /\ rec.kind = "cloud" /\ registered' = registered
    BY <1>8, SnapFacts DEF DestroyFinish, hostVars, HoldsMachine
  <2>2. QED BY <1>8, <2>1 DEF DestroyFinish
<1>9. ASSUME AutoDelete \/ UNCHANGED vars PROVE UNCHANGED <<rec, registered>>
  BY <1>9 DEF AutoDelete, vars, hostVars
<1>10. UNCHANGED <<rec, registered>> => RecordChange
  OBVIOUS
<1>11. QED
  BY <1>1, <1>2, <1>3, <1>4, <1>5, <1>6, <1>7, <1>8, <1>9, <1>10
  DEF Next, CloudUp, ByoUp, Destroy, DestroyWork

\* What the destroy that finishes without a failed step has established.
LEMMA FinishFacts ==
  ASSUME IInv, NEW p \in Procs, pc[p] = "d_finish", ~partial[p]
  PROVE  VerifiedGone(snap[p]) /\ registered # snap[p].m
BY DEF IInv, DestroyedSoFar, DestroyPcs

\* No step leaves a registration without its record.
LEMMA RegistrationStep ==
  ASSUME Sole, IInv, RecordInv, NoOrphanRegistration, [Next]_vars
  PROVE  NoOrphanRegistration'
<1>1. RecordChange
  BY RecordChanges DEF IInv
<1>2. ASSUME NEW p \in Procs, pc[p] = "d_finish", ~partial[p], snap[p] = rec
      PROVE  registered = NoMachine
  BY <1>2, FinishFacts DEF NoOrphanRegistration
<1>3. QED
  BY <1>1, <1>2 DEF RecordChange, NoOrphanRegistration

------------------------------------------------------------------------------
(* The record and the resources *)

\* Unless resources appear, it is enough that none is forgotten.
LEMMA NothingForgotten ==
  ASSUME Sole, NoSilentOrphan, NEW p \in Procs,
         \A m \in Machines : cloud'[m] \subseteq cloud[m],
         unreported \subseteq unreported',
         \A m \in Machines \ unreported' : \A k \in cloud'[m] \ {"primary_ip"} :
           Tracks(rec, m, k) \/ Tracks(snap[p], m, k) => Tracks(rec', m, k) \/ Tracks(snap'[p], m, k)
  PROVE  NoSilentOrphan'
<1> SUFFICES ASSUME NEW m \in Machines \ unreported', NEW k \in cloud'[m] \ {"primary_ip"}
             PROVE  Tracks(rec', m, k) \/ Tracks(snap'[p], m, k)
  BY DEF NoSilentOrphan, Tracks
<1>1. Tracks(rec, m, k) \/ Tracks(snap[p], m, k)
  BY DEF NoSilentOrphan, Sole
<1>2. QED BY <1>1

\* A command that returns with what it knows in the record, and without having
\* created anything, loses nothing.
LEMMA ExitTracks ==
  ASSUME Sole, TypeOK, NoSilentOrphan, NEW p \in Procs, Exit(p), UNCHANGED <<cloud, unreported>>,
         \A m \in Machines : \A k \in Kinds \ {"primary_ip"} :
           Tracks(rec, m, k) \/ Tracks(snap[p], m, k) => Tracks(rec', m, k)
  PROVE  NoSilentOrphan'
BY NothingForgotten DEF TypeOK, AccountTypeOK

\* A create call whose answer named what it created, or whose loss is on
\* record, loses nothing.
LEMMA CreateTracks ==
  ASSUME Sole, TypeOK, NoSilentOrphan, NEW p \in Procs,
         NEW n \in Machines, NEW kinds \in SUBSET Kinds, NEW out \in Outcomes,
         Create(n, kinds, out), rec' = rec, unreported \subseteq unreported',
         out = "lost" => n \in unreported',
         \A m \in Machines, k \in Kinds : Tracks(snap[p], m, k) => Tracks(snap'[p], m, k),
         out \in {"ok", "known"} => \A k \in kinds \ {"primary_ip"} : Tracks(snap'[p], n, k)
  PROVE  NoSilentOrphan'
<1> SUFFICES ASSUME NEW m \in Machines \ unreported', NEW k \in cloud'[m] \ {"primary_ip"}
             PROVE  Tracks(rec', m, k) \/ Tracks(snap'[p], m, k)
  BY DEF NoSilentOrphan, Tracks
<1>1. CASE k \in cloud[m]
  <2>1. k \in Kinds BY <1>1 DEF TypeOK, AccountTypeOK
  <2>2. Tracks(rec, m, k) \/ Tracks(snap[p], m, k)
    BY <1>1 DEF NoSilentOrphan, Sole
  <2>3. QED BY <2>1, <2>2
<1>2. CASE k \notin cloud[m]
  <2>1. m = n /\ k \in kinds /\ out # "error"
    BY <1>2 DEF Create, TypeOK, AccountTypeOK, TookEffect
  <2>2. QED BY <2>1 DEF Outcomes
<1>3. QED BY <1>1, <1>2

\* No step loses a resource silently.
LEMMA OrphanStep ==
  ASSUME Sole, IInv, RecordInv, NoSilentOrphan, [Next]_vars
  PROVE  NoSilentOrphan'
<1>t. /\ TypeOK /\ AccountTypeOK /\ \A m \in Machines : cloud[m] \subseteq Kinds
      /\ snap \in [Procs -> Records]
  BY DEF IInv, TypeOK, AccountTypeOK
<1>r. ASSUME NEW p \in Procs PROVE RecordWhile(p)
  BY DEF RecordInv
<1> USE <1>t, <1>r, SnapFacts
    DEF RecordWhile, HoldsMachine, Provisioning, BeforeRecord, CreatePcs, CheckpointPcs, MachinePcs, DestroyPcs
<1>1. ASSUME NEW p \in Procs, UNCHANGED <<cloud, unreported, rec, snap>>
      PROVE  NoSilentOrphan'
  BY <1>1 DEF NoSilentOrphan, Tracks
<1>2. ASSUME NEW p \in Procs,
             \/ UpBegin(p) \/ ByoBegin(p) \/ WaitTargetReady(p)
      PROVE  NoSilentOrphan'
  BY <1>1, <1>2 DEF UpBegin, ByoBegin, WaitTargetReady, accountVars
<1>3. ASSUME NEW p \in Procs, UpConfirm(p) PROVE NoSilentOrphan'
  <2>1. CASE Exit(p)
    BY <1>3, <2>1, ExitTracks DEF UpConfirm, Tracks, accountVars
  <2>2. CASE ~Exit(p)
    BY <1>1, <1>3, <2>2 DEF UpConfirm, accountVars
  <2>3. QED BY <2>1, <2>2
<1>4. ASSUME NEW p \in Procs, CreateSSHKey(p) PROVE NoSilentOrphan'
  <2>1. PICK m \in Machines \ used, o \in {"ok", "error", "lost"} :
          /\ Create(m, {"ssh_key"}, o)
          /\ IF o = "ok" THEN /\ snap' = [snap EXCEPT ![p] = CloudRec(m, {"ssh_key"})]
                              /\ UNCHANGED unreported
                         ELSE unreported' = IF o = "lost" THEN unreported \cup {m} ELSE unreported
    BY <1>4 DEF CreateSSHKey
  <2>2. rec' = rec /\ o \in Outcomes /\ {"ssh_key"} \in SUBSET Kinds /\ snap[p].kind # "cloud"
    BY <1>4 DEF CreateSSHKey, Outcomes, Kinds
  <2>3. o = "ok" => Tracks(snap'[p], m, "ssh_key")
    BY <2>1, <2>2, CloudRecFacts DEF Tracks
  <2>4. unreported \subseteq unreported' /\ (o = "lost" => m \in unreported')
    BY <2>1
  <2>5. \A n \in Machines, k \in Kinds : ~Tracks(snap[p], n, k)
    BY <2>2 DEF Tracks
  <2>6. QED BY <2>1, <2>2, <2>3, <2>4, <2>5, CreateTracks
<1>5. ASSUME NEW p \in Procs, CreateFirewall(p) PROVE NoSilentOrphan'
  <2>1. PICK o \in Outcomes :
          /\ Create(snap[p].m, {"firewall"}, o)
          /\ snap' = [snap EXCEPT ![p] = Learned(snap[p], {"firewall"}, o)]
          /\ unreported' = IF o = "lost" THEN unreported \cup {snap[p].m} ELSE unreported
    BY <1>5 DEF CreateFirewall
  <2>2. rec' = rec /\ snap[p] \in Records /\ snap[p].kind = "cloud" /\ snap[p].m \in Machines
    BY <1>5 DEF CreateFirewall
  <2>3. /\ snap'[p].kind = "cloud" /\ snap'[p].m = snap[p].m /\ snap[p].ids \subseteq snap'[p].ids
        /\ o \in {"ok", "known"} => "firewall" \in snap'[p].ids
    BY <2>1, <2>2 DEF Learned, Records
  <2>4. unreported \subseteq unreported' /\ (o = "lost" => snap[p].m \in unreported')
    BY <2>1
  <2>5. {"firewall"} \in SUBSET Kinds
    BY DEF Kinds
  <2>6. QED BY <2>1, <2>2, <2>3, <2>4, <2>5, CreateTracks DEF Tracks
<1>6. ASSUME NEW p \in Procs, CreateServer(p) PROVE NoSilentOrphan'
  <2>1. PICK o \in Outcomes, kinds \in {{"server"}, {"server", "primary_ip"}} :
          /\ Create(snap[p].m, {"server", "primary_ip"}, o)
          /\ snap' = [snap EXCEPT ![p] = FromServer(Learned(snap[p], kinds, o))]
          /\ unreported' = IF o = "lost" THEN unreported \cup {snap[p].m} ELSE unreported
    BY <1>6 DEF CreateServer
  <2>2. rec' = rec /\ snap[p] \in Records /\ snap[p].kind = "cloud" /\ snap[p].m \in Machines
    BY <1>6 DEF CreateServer
  <2>3. /\ snap'[p].kind = "cloud" /\ snap'[p].m = snap[p].m /\ snap[p].ids \subseteq snap'[p].ids
        /\ o \in {"ok", "known"} => "server" \in snap'[p].ids
    <3> DEFINE r == Learned(snap[p], kinds, o)
    <3>1. kinds \in SUBSET Kinds /\ "server" \in kinds
      BY DEF Kinds
    <3>2. /\ r \in Records /\ r.kind = "cloud" /\ r.m = snap[p].m /\ snap[p].ids \subseteq r.ids
          /\ o \in {"ok", "known"} => "server" \in r.ids
      BY <2>2, <3>1 DEF Learned, Records
    <3> HIDE DEF r
    <3>3. /\ FromServer(r).kind = "cloud" /\ FromServer(r).m = snap[p].m
          /\ FromServer(r).ids = r.ids
      BY <3>2, FromServerFacts
    <3>4. QED BY <2>1, <3>2, <3>3 DEF r
  <2>4. unreported \subseteq unreported' /\ (o = "lost" => snap[p].m \in unreported')
    BY <2>1
  <2>5. {"server", "primary_ip"} \in SUBSET Kinds
    BY DEF Kinds
  <2>6. QED BY <2>1, <2>2, <2>3, <2>4, <2>5, CreateTracks DEF Tracks
<1>7. ASSUME NEW p \in Procs, SavePending(p) PROVE NoSilentOrphan'
  <2>1. cloud' = cloud /\ rec.kind # "cloud" /\ unreported \subseteq unreported'
    BY <1>7 DEF SavePending, accountVars
  <2>2. CASE rec' = snap[p] /\ UNCHANGED unreported
    BY <2>1, <2>2, NothingForgotten DEF Tracks
  <2>3. CASE rec' = rec /\ snap[p].m \in unreported'
    BY <2>1, <2>3, NothingForgotten DEF Tracks
  <2>4. QED BY <1>7, <2>2, <2>3 DEF SavePending
<1>8. ASSUME NEW p \in Procs, WaitReady(p) PROVE NoSilentOrphan'
  <2>1. /\ UNCHANGED <<cloud, unreported, rec>>
        /\ rec.kind = "cloud" /\ rec.m = snap[p].m
        /\ rec.ids \ {"primary_ip"} = snap[p].ids \ {"primary_ip"}
    BY <1>8 DEF WaitReady, accountVars
  <2>2. QED BY <2>1, NothingForgotten DEF Tracks
<1>9. ASSUME NEW p \in Procs, SaveReadiness(p) PROVE NoSilentOrphan'
  BY <1>9, ExitTracks DEF SaveReadiness, Tracks, accountVars
<1>10. ASSUME NEW p \in Procs, Bootstrap(p) \/ WaitOnline(p) PROVE NoSilentOrphan'
  <2>1. UNCHANGED <<cloud, unreported, rec>> /\ pc[p] \in MachinePcs
    BY <1>10 DEF Bootstrap, WaitOnline, accountVars
  <2>2. CASE Exit(p)
    BY <2>1, <2>2, ExitTracks DEF Tracks
  <2>3. CASE ~Exit(p)
    BY <1>1, <1>10, <2>1, <2>3 DEF Bootstrap, WaitOnline
  <2>4. QED BY <2>2, <2>3
<1>11. ASSUME NEW p \in Procs, FinalSave(p) PROVE NoSilentOrphan'
  BY <1>11, FinishedFacts, ExitTracks DEF FinalSave, Tracks, accountVars
<1>12. ASSUME NEW p \in Procs, ByoSave(p) PROVE NoSilentOrphan'
  BY <1>12, ExitTracks DEF ByoSave, Tracks, accountVars
<1>13. ASSUME NEW p \in Procs, DestroyBegin(p) PROVE NoSilentOrphan'
  <2>1. UNCHANGED <<cloud, unreported, rec>> /\ snap[p].kind # "cloud"
    BY <1>13 DEF DestroyBegin, accountVars
  <2>2. QED BY <2>1, NothingForgotten DEF Tracks
<1>14. ASSUME NEW p \in Procs, DestroyWork(p) PROVE NoSilentOrphan'
  BY <1>14, DestroyWorkFacts, NothingForgotten
<1>15. ASSUME NEW p \in Procs, DestroyFinish(p) PROVE NoSilentOrphan'
  <2>1. UNCHANGED <<cloud, unreported>> /\ Exit(p) /\ rec = snap[p] /\ pc[p] = "d_finish"
    BY <1>15 DEF DestroyFinish, accountVars
  <2>2. CASE rec' = rec
    BY <2>1, <2>2, ExitTracks
  <2>3. CASE ~partial[p]
    <3>1. cloud[rec.m] \cap rec.ids = {}
      BY <2>1, <2>3, FinishFacts DEF VerifiedGone
    <3>2. QED BY <2>1, <3>1, NothingForgotten DEF Tracks
  <2>4. QED BY <1>15, <2>1, <2>2, <2>3 DEF DestroyFinish
<1>16. ASSUME NEW p \in Procs, Crash(p) PROVE NoSilentOrphan'
  <2>1. UNCHANGED <<cloud, rec>> /\ unreported \subseteq unreported'
    BY <1>16 DEF Crash, accountVars
  <2>2. CASE pc[p] \in CreatePcs \cup CheckpointPcs
    BY <1>16, <2>1, <2>2, NothingForgotten DEF Crash, Tracks
  <2>3. CASE pc[p] \in MachinePcs \cup DestroyPcs
    BY <2>1, <2>3, NothingForgotten DEF Tracks
  <2>4. CASE ~HoldsMachine(p)
    BY <2>1, <2>4, NothingForgotten DEF Tracks
  <2>5. QED BY <2>2, <2>3, <2>4
<1>17. ASSUME AutoDelete PROVE NoSilentOrphan'
  BY <1>17, DeleteFacts DEF AutoDelete, Cascade, procVars, Outcomes, Kinds, NoSilentOrphan, Tracks
<1>18. ASSUME UNCHANGED vars PROVE NoSilentOrphan'
  BY <1>1, <1>18 DEF vars, procVars, accountVars, NoSilentOrphan, Tracks
<1>19. QED
  BY <1>2, <1>3, <1>4, <1>5, <1>6, <1>7, <1>8, <1>9, <1>10, <1>11, <1>12,
     <1>13, <1>14, <1>15, <1>16, <1>17, <1>18
  DEF Next, CloudUp, ByoUp, Destroy, DestroyWork

------------------------------------------------------------------------------
(* The theorems *)

\* For one process and any machines: the record is what the running command
\* takes it for.
THEOREM RecordInvariance ==
  ASSUME Sole
  PROVE  Spec => []RecordInv
<1>1. Init => RecordInv
  BY RecordsMembers
  DEF Init, RecordInv, RecordNamesKey, RecordWhile, BeforeRecord, CreatePcs, CheckpointPcs, MachinePcs, DestroyPcs
<1>2. IInv /\ RecordInv /\ [Next]_vars => RecordInv'
  BY RecordStep DEF IInv
<1>3. QED BY <1>1, <1>2, Invariance, PTL DEF Spec

\* One process: no resource of a machine whose calls and saves were all
\* answered is ever lost track of, whatever fails and wherever a command dies.
THEOREM OrphansAreReported ==
  ASSUME Sole
  PROVE  Spec => []NoSilentOrphan
<1>1. Init => NoSilentOrphan
  BY DEF Init, AccountInit, NoSilentOrphan
<1>2. IInv /\ RecordInv /\ NoSilentOrphan /\ [Next]_vars => NoSilentOrphan'
  BY OrphanStep
<1>3. QED BY <1>1, <1>2, Invariance, RecordInvariance, PTL DEF Spec

\* One process: a machine that GitHub lists always has the record by which
\* destroy removes it.
THEOREM RegistrationsRecorded ==
  ASSUME Sole
  PROVE  Spec => []NoOrphanRegistration
<1>1. Init => NoOrphanRegistration
  BY DEF Init, NoOrphanRegistration
<1>2. IInv /\ RecordInv /\ NoOrphanRegistration /\ [Next]_vars => NoOrphanRegistration'
  BY RegistrationStep
<1>3. QED BY <1>1, <1>2, Invariance, RecordInvariance, PTL DEF Spec

\* One process: the record of a cloud machine goes only once every resource it
\* names was read back as gone.
THEOREM DropsOnlyGone ==
  ASSUME Sole
  PROVE  Spec => RecordDroppedOnlyWhenGone
<1>1. ASSUME IInv, RecordInv, [Next]_vars, rec.kind = "cloud", rec'.kind # "cloud" \/ rec'.m # rec.m
      PROVE  VerifiedGone(rec)
  <2>1. RecordChange
    BY <1>1, RecordChanges DEF IInv
  <2>2. PICK p \in Procs : pc[p] = "d_finish" /\ ~partial[p] /\ snap[p] = rec
    BY <1>1, <2>1 DEF RecordChange
  <2>3. QED BY <1>1, <2>2, FinishFacts
<1>2. IInv /\ RecordInv /\ [Next]_vars
        => [rec.kind = "cloud" /\ (rec'.kind # "cloud" \/ rec'.m # rec.m)
              => VerifiedGone(rec)]_vars
  BY <1>1
<1>3. QED BY <1>2, Invariance, RecordInvariance, PTL DEF RecordDroppedOnlyWhenGone, Spec

=============================================================================
