--------------------------- MODULE CloudLifecycle ---------------------------
(***************************************************************************)
(* One repository's cloud runner from `runnerkit up --cloud hetzner` to    *)
(* `runnerkit destroy`, run by CLI processes that share state.json and the *)
(* provider account and nothing else: there is no lock between them.       *)
(*                                                                         *)
(* Each provider, SSH, GitHub or state-file call is one step.  A call may  *)
(* fail, may take effect and still report an error, and the process may    *)
(* die between any two of them.  `rec` is the repository's entry of        *)
(* state.json; module StateStore justifies reading and writing it in one   *)
(* step.  Time only matters as "the retries ran out": any wait may fail.   *)
(*                                                                         *)
(* An operator Mut... is the next definition with a slip in it; no action  *)
(* uses it.  PROJECT.json pairs it with the property that catches it.      *)
(***************************************************************************)
EXTENDS Hetzner

CONSTANT Procs   \* CLI processes that run commands on this repository

VARIABLES
  rec,         \* the saved RepositoryState
  registered,  \* machine the repository's GitHub registration points to
  installed,   \* machines with a runner installed under InstallPath
  pc,          \* where each process is; "idle" between commands
  snap,        \* the RepositoryState a process built (up) or read (destroy)
  repl,        \* up: replaceExisting, decided before provisioning
  partial,     \* destroy: some cleanup step did not succeed
  unreported   \* history: machines with a call or save whose outcome was lost

procVars == <<pc, snap, repl, partial>>
hostVars == <<registered, installed>>
vars == <<accountVars, rec, hostVars, procVars, unreported>>

(***************************************************************************)
(* RepositoryState, reduced to what up and destroy decide on: ids is the   *)
(* union of Provider.IDs, ResourceIDs and Cloud; auto is                   *)
(* PrimaryIPvXAutoDelete; ready distinguishes the final record, the only   *)
(* one with an InstallPath, from a pending checkpoint.                     *)
(***************************************************************************)
Records == [kind: {"none", "byo", "cloud"}, m: Machines \cup {NoMachine},
            ids: SUBSET Kinds, auto: BOOLEAN, ready: BOOLEAN]

NoRec  == [kind |-> "none", m |-> NoMachine, ids |-> {}, auto |-> FALSE, ready |-> FALSE]
ByoRec == [NoRec EXCEPT !.kind = "byo"]
MutCloudRec(m, ids) ==   \* a pending record that already looks finished
  [NoRec EXCEPT !.kind = "cloud", !.m = m, !.ids = ids, !.ready = TRUE]

CloudRec(m, ids) == [NoRec EXCEPT !.kind = "cloud", !.m = m, !.ids = ids]

LiveIDs(r) == IF r.kind = "cloud" THEN r.ids ELSE {}

CreatePcs  == {"create_fw", "create_server"}
CheckpointPcs == {"save_failed", "save_pending"}
MachinePcs == {"wait_ready", "target_ready", "save_readiness", "bootstrap",
               "online", "final_save"}
DestroyPcs == {"d_remote", "d_github", "d_detach", "d_server", "d_key", "d_ip",
               "d_firewall", "d_verify", "d_finish"}
Pcs == {"idle", "up_confirm", "create_key", "byo_save"}
         \cup CreatePcs \cup CheckpointPcs \cup MachinePcs \cup DestroyPcs

Init ==
  /\ AccountInit
  /\ rec \in {NoRec, ByoRec}
  /\ registered = NoMachine
  /\ installed = {}
  /\ pc = [p \in Procs |-> "idle"]
  /\ snap = [p \in Procs |-> NoRec]
  /\ repl = [p \in Procs |-> FALSE]
  /\ partial = [p \in Procs |-> FALSE]
  /\ unreported = {}

Goto(p, there) == pc' = [pc EXCEPT ![p] = there]

\* The command returns; its memory is gone.
Exit(p) ==
  /\ Goto(p, "idle")
  /\ snap' = [snap EXCEPT ![p] = NoRec]
  /\ repl' = [repl EXCEPT ![p] = FALSE]
  /\ partial' = [partial EXCEPT ![p] = FALSE]

------------------------------------------------------------------------------
(* runnerkit up --cloud hetzner *)

MutRefused(r) == r.ready /\ LiveIDs(r) # {}   \* pending records do not count

\* refuseIfLiveCloudState
Refused(r) == LiveIDs(r) # {}

UpBegin(p) ==
  /\ pc[p] = "idle"
  /\ ~Refused(rec)
  /\ Goto(p, "up_confirm")
  /\ UNCHANGED <<accountVars, rec, hostVars, snap, repl, partial, unreported>>

\* The record is read again; replacing one takes --replace or the typed
\* phrase, and either prompt may be declined.
UpConfirm(p) ==
  /\ pc[p] = "up_confirm"
  /\ \/ /\ ~Refused(rec)
        /\ repl' = [repl EXCEPT ![p] = rec.kind # "none"]
        /\ Goto(p, "create_key")
        /\ UNCHANGED <<snap, partial>>
     \/ Exit(p)
  /\ UNCHANGED <<accountVars, rec, hostVars, unreported>>

\* An error drops the key's id even when the key was created.
CreateSSHKey(p) ==
  /\ pc[p] = "create_key"
  /\ \E m \in Machines \ used, out \in {"ok", "error", "lost"} :
       /\ TookEffect(out) => KeyNameFree
       /\ Create(m, {"ssh_key"}, out)
       /\ IF out = "ok"
          THEN /\ Goto(p, "create_fw")
               /\ snap' = [snap EXCEPT ![p] = CloudRec(m, {"ssh_key"})]
               /\ UNCHANGED <<repl, partial, unreported>>
          ELSE /\ Exit(p)
               /\ unreported' = IF out = "lost" THEN unreported \cup {m} ELSE unreported
  /\ UNCHANGED <<rec, hostVars>>

MutLearned(r, kinds, out) ==   \* the ids of a failed call are dropped
  IF out = "ok" THEN [r EXCEPT !.ids = @ \cup kinds] ELSE r

\* The ids a failing Provision hands back inside its ProvisionError.
Learned(r, kinds, out) ==
  IF out \in {"ok", "known"} THEN [r EXCEPT !.ids = @ \cup kinds] ELSE r

CreateFirewall(p) ==
  /\ pc[p] = "create_fw"
  /\ \E out \in Outcomes :
       /\ Create(snap[p].m, {"firewall"}, out)
       /\ snap' = [snap EXCEPT ![p] = Learned(@, {"firewall"}, out)]
       /\ Goto(p, IF out = "ok" THEN "create_server" ELSE "save_failed")
       /\ unreported' = IF out = "lost" THEN unreported \cup {snap[p].m} ELSE unreported
  /\ UNCHANGED <<rec, hostVars, repl, partial>>

\* machineFromServer: addresses the answer already names are recorded as
\* auto_delete.
FromServer(r) == IF "primary_ip" \in r.ids THEN [r EXCEPT !.auto = TRUE] ELSE r

\* The answer may not name the addresses yet.
CreateServer(p) ==
  /\ pc[p] = "create_server"
  /\ \E out \in Outcomes, kinds \in {{"server"}, {"server", "primary_ip"}} :
       /\ Create(snap[p].m, {"server", "primary_ip"}, out)
       /\ snap' = [snap EXCEPT ![p] = FromServer(Learned(@, kinds, out))]
       /\ Goto(p, IF out = "ok" THEN "save_pending" ELSE "save_failed")
       /\ unreported' = IF out = "lost" THEN unreported \cup {snap[p].m} ELSE unreported
  /\ UNCHANGED <<rec, hostVars, repl, partial>>

\* The cloud_provision_pending checkpoint, saved with the replace decision
\* taken before provisioning: a record another process saved meanwhile makes
\* the save fail with ErrRepositoryExists, and any save may fail on I/O.
SavePending(p) ==
  /\ pc[p] \in CheckpointPcs
  /\ \/ /\ rec.kind = "none" \/ repl[p]
        /\ rec' = snap[p]
        /\ IF pc[p] = "save_pending"
           THEN /\ Goto(p, "wait_ready")
                /\ repl' = [repl EXCEPT ![p] = FALSE]   \* later saves always replace
                /\ UNCHANGED <<snap, partial>>
           ELSE Exit(p)
        /\ UNCHANGED unreported
     \/ /\ rec.kind # "none" /\ ~repl[p]
        /\ Exit(p)
        /\ UNCHANGED <<rec, unreported>>
     \/ /\ unreported' = unreported \cup {snap[p].m}
        /\ Exit(p)
        /\ UNCHANGED rec
  /\ UNCHANGED <<accountVars, hostVars>>

\* Hetzner-side readiness; it may learn the addresses' ids, and does not set
\* the auto_delete flags for those.
WaitReady(p) ==
  /\ pc[p] = "wait_ready"
  /\ \/ /\ ~Gone(snap[p].m, "server")
        /\ \E ids \in SUBSET {"primary_ip"} :
             snap' = [snap EXCEPT ![p] = Learned(@, ids, "ok")]
        /\ Goto(p, "target_ready")
     \/ Goto(p, "save_readiness") /\ UNCHANGED snap
  /\ UNCHANGED <<accountVars, rec, hostVars, repl, partial, unreported>>

\* Host key, cloud-init and preflight over SSH.
WaitTargetReady(p) ==
  /\ pc[p] = "target_ready"
  /\ \/ ~Gone(snap[p].m, "server") /\ Goto(p, "bootstrap")
     \/ Goto(p, "save_readiness")
  /\ UNCHANGED <<accountVars, rec, hostVars, snap, repl, partial, unreported>>

\* The cloud_readiness_pending checkpoint: always replaces, and its error is
\* ignored.
SaveReadiness(p) ==
  /\ pc[p] = "save_readiness"
  /\ rec' \in {rec, snap[p]}
  /\ Exit(p)
  /\ UNCHANGED <<accountVars, hostVars, unreported>>

\* Registration token and bootstrap.Apply.  It may stop before anything is
\* installed, after the files but before config.sh, or after config.sh
\* registered the runner (the service did not start).
Bootstrap(p) ==
  LET m == snap[p].m IN
  /\ pc[p] = "bootstrap"
  /\ \/ /\ ~Gone(m, "server")
        /\ installed' = installed \cup {m}
        /\ registered' = m
        /\ \/ Goto(p, "online") /\ UNCHANGED <<snap, repl, partial>>
           \/ Exit(p)
     \/ /\ installed' = installed \cup (IF Gone(m, "server") THEN {} ELSE {m})
        /\ Exit(p)
        /\ UNCHANGED registered
     \/ Exit(p) /\ UNCHANGED hostVars
  /\ UNCHANGED <<accountVars, rec, unreported>>

\* Looks for the name: another process's runner will do.
WaitOnline(p) ==
  /\ pc[p] = "online"
  /\ \/ /\ registered # NoMachine
        /\ ~Gone(registered, "server")
        /\ Goto(p, "final_save")
        /\ UNCHANGED <<snap, repl, partial>>
     \/ Exit(p)
  /\ UNCHANGED <<accountVars, rec, hostVars, unreported>>

Finished(r) == [r EXCEPT !.ready = TRUE]

FinalSave(p) ==
  /\ pc[p] = "final_save"
  /\ rec' \in {rec, Finished(snap[p])}
  /\ Exit(p)
  /\ UNCHANGED <<accountVars, hostVars, unreported>>

------------------------------------------------------------------------------
(* runnerkit up --host, as far as it touches the saved record *)

ByoBegin(p) ==
  /\ pc[p] = "idle"
  /\ ~Refused(rec)
  /\ Goto(p, "byo_save")
  /\ UNCHANGED <<accountVars, rec, hostVars, snap, repl, partial, unreported>>

\* After the whole install, whose config.sh --replace took over the
\* registration of the same name.  A record that exists by now is replaced
\* under --replace or the typed phrase; whether it is a cloud record is not
\* asked.
ByoSave(p) ==
  /\ pc[p] = "byo_save"
  /\ \/ registered' = NoMachine /\ rec' \in {rec, ByoRec}
     \/ UNCHANGED <<rec, registered>>
  /\ Exit(p)
  /\ UNCHANGED <<accountVars, installed, unreported>>

------------------------------------------------------------------------------
(* runnerkit destroy *)

MutNote(p, ok) == partial' = [partial EXCEPT ![p] = ~ok]   \* the last step decides

Note(p, ok) == partial' = [partial EXCEPT ![p] = @ \/ ~ok]

MutDestroyBegin(p) ==   \* destroys whatever is recorded
  /\ pc[p] = "idle"
  /\ rec.kind # "none"
  /\ snap' = [snap EXCEPT ![p] = rec]
  /\ Goto(p, "d_remote")
  /\ UNCHANGED <<accountVars, rec, hostVars, repl, partial, unreported>>

MutDestroyFinishedOnly(p) ==   \* refuses pending records
  /\ pc[p] = "idle"
  /\ rec.kind = "cloud" /\ rec.ready
  /\ snap' = [snap EXCEPT ![p] = rec]
  /\ Goto(p, "d_remote")
  /\ UNCHANGED <<accountVars, rec, hostVars, repl, partial, unreported>>

DestroyBegin(p) ==
  /\ pc[p] = "idle"
  /\ rec.kind = "cloud"
  /\ snap' = [snap EXCEPT ![p] = rec]
  /\ Goto(p, "d_remote")
  /\ UNCHANGED <<accountVars, rec, hostVars, repl, partial, unreported>>

\* Stop, uninstall, config.sh remove and rm -rf run as one script that needs
\* a reachable server, the recorded InstallPath and an installation under it:
\* it starts by changing into that directory, so it never succeeds twice.
RemoteCleanup(p) ==
  LET m == snap[p].m
      canRun == ~Gone(m, "server") /\ snap[p].ready /\ m \in installed
      unregister == IF registered = m THEN NoMachine ELSE registered IN
  /\ pc[p] = "d_remote"
  /\ \/ /\ canRun
        /\ registered' = unregister
        /\ \/ installed' = installed \ {m} /\ Note(p, TRUE)
           \/ installed' \in {installed, installed \ {m}} /\ Note(p, FALSE)
     \/ Note(p, FALSE) /\ UNCHANGED hostVars
  /\ Goto(p, "d_github")
  /\ UNCHANGED <<accountVars, rec, snap, repl, unreported>>

\* Every registration of the repository carries the same runner name, so the
\* candidate is whichever machine is registered.  None is not an error.
DeleteGitHubRunner(p) ==
  /\ pc[p] = "d_github"
  /\ \E out \in {"ok", "error", "lost"} :
       /\ registered' = IF TookEffect(out) THEN NoMachine ELSE registered
       /\ Note(p, out = "ok")
  /\ Goto(p, "d_detach")
  /\ UNCHANGED <<accountVars, rec, installed, snap, repl, unreported>>

\* No provider configured, or its credentials are gone.
ProviderUnavailable(p) ==
  /\ pc[p] = "d_detach"
  /\ Note(p, FALSE)
  /\ Goto(p, "d_finish")
  /\ UNCHANGED <<accountVars, rec, hostVars, snap, repl, unreported>>

\* Best effort: a failure is only a warning.
CanDetach(r) == {"server", "firewall"} \subseteq r.ids

DetachFirewall(p) ==
  /\ pc[p] = "d_detach"
  /\ IF CanDetach(snap[p])
     THEN \E out \in {"ok", "error"} : Detach(snap[p].m, out)
     ELSE UNCHANGED accountVars
  /\ Goto(p, "d_server")
  /\ UNCHANGED <<rec, hostVars, snap, repl, partial, unreported>>

\* apply(): an id that is not tracked is skipped, one already absent is done.
DeleteResource(p, k, here, next, out) ==
  /\ pc[p] = here
  /\ IF k \in snap[p].ids
     THEN Delete(snap[p].m, k, out) /\ Note(p, out = "ok")
     ELSE UNCHANGED <<accountVars, partial>>
  /\ Goto(p, next)
  /\ UNCHANGED <<rec, registered, snap, repl, unreported>>

\* The runner's installation goes with the server's disk.
DeleteServer(p, out) ==
  /\ DeleteResource(p, "server", "d_server", "d_key", out)
  /\ installed' = {m \in installed : "server" \in cloud'[m]}

DeleteSSHKey(p, out) ==
  /\ DeleteResource(p, "ssh_key", "d_key", "d_ip", out)
  /\ UNCHANGED installed

\* Recorded auto_delete addresses are left to the cascade.  Others answer
\* 409 must_be_unassigned while the server or its cascade still holds them:
\* done once that ends, pending when the retries run out first.
DeletePrimaryIP(p, out) ==
  /\ pc[p] = "d_ip"
  /\ IF snap[p].auto
     THEN /\ Goto(p, "d_firewall")
          /\ UNCHANGED <<accountVars, rec, hostVars, snap, repl, partial, unreported>>
     ELSE /\ TookEffect(out) => Gone(snap[p].m, "server")
          /\ DeleteResource(p, "primary_ip", "d_ip", "d_firewall", out)
          /\ UNCHANGED installed

\* resource_in_use while the firewall is still attached to a server.
DeleteFirewall(p, out) ==
  /\ pc[p] = "d_firewall"
  /\ TookEffect(out) => ~FirewallInUse(snap[p].m)
  /\ DeleteResource(p, "firewall", "d_firewall", "d_verify", out)
  /\ UNCHANGED installed

\* VerifyDestroyed reads back every id the record tracks.
VerifiedGone(r) == cloud[r.m] \cap r.ids = {}

VerifyDestroyed(p) ==
  /\ pc[p] = "d_verify"
  /\ \/ VerifiedGone(snap[p]) /\ Note(p, TRUE)
     \/ Note(p, FALSE)
  /\ Goto(p, "d_finish")
  /\ UNCHANGED <<accountVars, rec, hostVars, snap, repl, unreported>>

MutDestroyFinish(p) ==   \* only the provider's answer decides
  /\ pc[p] = "d_finish"
  /\ rec' = IF VerifiedGone(snap[p]) THEN NoRec ELSE snap[p]
  /\ Exit(p)
  /\ UNCHANGED <<accountVars, hostVars, unreported>>

\* Partial cleanup writes the record read at the start back over whatever is
\* saved by now (keepCloudDestroyState); otherwise the entry is removed.
\* Either write may fail.
DestroyFinish(p) ==
  /\ pc[p] = "d_finish"
  /\ \/ partial[p] /\ rec' = IF rec.kind = "none" THEN rec ELSE snap[p]
     \/ ~partial[p] /\ rec' = NoRec
     \/ UNCHANGED rec
  /\ Exit(p)
  /\ UNCHANGED <<accountVars, hostVars, unreported>>

------------------------------------------------------------------------------
Crash(p) ==
  /\ pc[p] # "idle"
  /\ unreported' = IF pc[p] \in CreatePcs \cup CheckpointPcs
                   THEN unreported \cup {snap[p].m} ELSE unreported
  /\ Exit(p)
  /\ UNCHANGED <<accountVars, rec, hostVars>>

AutoDelete ==
  /\ \E m \in Machines : Cascade(m)
  /\ UNCHANGED <<rec, hostVars, procVars, unreported>>

CloudUp(p) ==
  \/ UpBegin(p) \/ UpConfirm(p)
  \/ CreateSSHKey(p) \/ CreateFirewall(p) \/ CreateServer(p)
  \/ SavePending(p) \/ WaitReady(p) \/ WaitTargetReady(p) \/ SaveReadiness(p)
  \/ Bootstrap(p) \/ WaitOnline(p) \/ FinalSave(p)

ByoUp(p) == ByoBegin(p) \/ ByoSave(p)

DeleteOutcomes == {"ok", "error", "lost"}

Destroy(p) ==
  \/ DestroyBegin(p) \/ RemoteCleanup(p) \/ DeleteGitHubRunner(p)
  \/ ProviderUnavailable(p) \/ DetachFirewall(p)
  \/ \E out \in DeleteOutcomes :
       \/ DeleteServer(p, out) \/ DeleteSSHKey(p, out)
       \/ DeletePrimaryIP(p, out) \/ DeleteFirewall(p, out)
  \/ VerifyDestroyed(p) \/ DestroyFinish(p)

Next ==
  \/ \E p \in Procs : CloudUp(p) \/ ByoUp(p) \/ Destroy(p) \/ Crash(p)
  \/ AutoDelete

Spec == Init /\ [][Next]_vars

------------------------------------------------------------------------------
(* What must hold *)

Provisioning(p) == pc[p] \in CreatePcs \cup CheckpointPcs \cup MachinePcs

HoldsMachine(p) == Provisioning(p) \/ pc[p] \in DestroyPcs

\* Types; a process past its first create or read works on a cloud machine.
TypeOK ==
  /\ AccountTypeOK
  /\ rec \in Records
  /\ registered \in Machines \cup {NoMachine}
  /\ installed \in SUBSET Machines
  /\ pc \in [Procs -> Pcs]
  /\ snap \in [Procs -> Records]
  /\ repl \in [Procs -> BOOLEAN]
  /\ partial \in [Procs -> BOOLEAN]
  /\ unreported \in SUBSET Machines
  /\ rec.kind = "cloud" => rec.m \in Machines
  /\ \A p \in Procs : HoldsMachine(p) => snap[p].kind = "cloud" /\ snap[p].m \in Machines

Tracks(r, m, k) == r.kind = "cloud" /\ r.m = m /\ k \in r.ids

\* A billable resource is never lost track of behind a command that knew of
\* it: unless a call or a save of its attempt ended without an answer or with
\* the process, its id is in state.json or in the memory of the running
\* command.  Addresses follow their server and need no record.  One process.
NoSilentOrphan ==
  \A m \in Machines \ unreported : \A k \in cloud[m] \ {"primary_ip"} :
    \/ Tracks(rec, m, k)
    \/ \E p \in Procs : Tracks(snap[p], m, k)

\* "Cloud runner destroyed. GitHub runner is absent and RunnerKit-created
\* Hetzner resources are deleted": when destroy is about to report success,
\* nothing of the machine but addresses awaiting the cascade is left, not
\* even a resource whose id was lost while it was provisioned.  Any number
\* of concurrent processes.
DestroyedMeansGone ==
  \A p \in Procs : pc[p] = "d_finish" /\ ~partial[p] =>
    /\ cloud[snap[p].m] \subseteq {"primary_ip"}
    /\ registered # snap[p].m

\* The registration GitHub shows for a cloud machine always has the record
\* that `destroy` needs to remove it.  One process.
NoOrphanRegistration ==
  registered # NoMachine => rec.kind = "cloud" /\ rec.m = registered

\* The record of a cloud machine is removed or replaced only once every
\* resource it names is gone.  One process.
RecordDroppedOnlyWhenGone ==
  [][rec.kind = "cloud" /\ (rec'.kind # "cloud" \/ rec'.m # rec.m)
       => VerifiedGone(rec)]_vars

------------------------------------------------------------------------------
(* Why DestroyedMeansGone holds: the inductive invariant *)

\* Nothing refers to a machine before its first resource exists.
KnownMachines ==
  /\ rec.m \in used \cup {NoMachine}
  /\ \A p \in Procs : snap[p].m \in used \cup {NoMachine}

\* The machine of a running `up` is its own: no other `up` has it, nobody
\* knows of it before the first checkpoint, and nobody holds a finished
\* record of it before the final save.
UpOwnsMachine ==
  \A p \in Procs : Provisioning(p) =>
    /\ ~snap[p].ready
    /\ rec.m = snap[p].m => pc[p] \in MachinePcs /\ ~rec.ready
    /\ \A q \in Procs \ {p} : snap[q].m = snap[p].m =>
         pc[p] \in MachinePcs /\ ~Provisioning(q) /\ ~snap[q].ready

Complete(r) == {"ssh_key", "firewall", "server"} \subseteq r.ids

\* The ids an `up` has collected by each stage; a finished record names all.
IdsCollected ==
  /\ rec.ready => Complete(rec)
  /\ \A p \in Procs :
       /\ pc[p] \in CreatePcs => "ssh_key" \in snap[p].ids
       /\ pc[p] = "create_server" => "firewall" \in snap[p].ids
       /\ pc[p] \in MachinePcs \cup {"save_pending"} => Complete(snap[p])
       /\ snap[p].ready => Complete(snap[p])

\* What a destroy with no failed step so far has established.
DestroyedSoFar ==
  \A p \in Procs : pc[p] \in DestroyPcs \ {"d_remote"} /\ ~partial[p] =>
    /\ snap[p].ready
    /\ pc[p] # "d_github" => registered # snap[p].m
    /\ pc[p] = "d_finish" => VerifiedGone(snap[p])

IInv == TypeOK /\ KnownMachines /\ UpOwnsMachine /\ IdsCollected /\ DestroyedSoFar

------------------------------------------------------------------------------
(***************************************************************************)
(* A command that runs goes on or dies; the user keeps running destroy     *)
(* while a cloud record is saved; a call retried for ever succeeds now and *)
(* then; the cascade completes.  Nothing else is fair: a command may crash *)
(* and any call may fail infinitely often.                                 *)
(***************************************************************************)
DetachSucceeds(p) ==
  DetachFirewall(p) /\ (CanDetach(snap[p]) => snap[p].m \in detached')

FinishSucceeds(p) == DestroyFinish(p) /\ (~partial[p] => rec' = NoRec)

Fairness ==
  /\ WF_vars(AutoDelete)
  /\ \A p \in Procs :
       /\ WF_vars(pc[p] # "idle" /\ (CloudUp(p) \/ ByoUp(p) \/ Destroy(p)))
       /\ WF_vars(DestroyBegin(p))
       /\ SF_vars(RemoteCleanup(p))
       /\ SF_vars(DeleteGitHubRunner(p))
       /\ SF_vars(DetachSucceeds(p))
       /\ SF_vars(DeleteServer(p, "ok"))
       /\ SF_vars(DeleteSSHKey(p, "ok"))
       /\ SF_vars(DeletePrimaryIP(p, "ok"))
       /\ SF_vars(DeleteFirewall(p, "ok"))
       /\ SF_vars(VerifyDestroyed(p))
       /\ SF_vars(FinishSucceeds(p))

FairSpec == Spec /\ Fairness

\* Billing stops: once an attempt that answered every call is recorded, all
\* its resources are eventually gone, however often destroy fails half way.
BillingStops ==
  \A m \in Machines :
    (rec.kind = "cloud" /\ rec.m = m /\ m \notin unreported) ~> (cloud[m] = {})

==============================================================================
