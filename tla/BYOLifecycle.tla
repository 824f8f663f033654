---------------------------- MODULE BYOLifecycle ----------------------------
(***************************************************************************)
(* One repository's persistent runner on hosts the user owns: `runnerkit   *)
(* up --host` (register), `down` (unregister) and `recover`, run by CLI    *)
(* processes that share state.json, GitHub and the hosts.                  *)
(*                                                                         *)
(* Each SSH, GitHub or state-file call is one step and may fail, the       *)
(* process may die between any two.  The runner's name depends on the      *)
(* repository only, so GitHub holds at most one registration for all       *)
(* hosts, and the install path is the same on each of them.                *)
(*                                                                         *)
(* An operator Mut... is the next definition with a slip in it; no action  *)
(* uses it.  PROJECT.json pairs it with the property that catches it.      *)
(***************************************************************************)
CONSTANTS
  Hosts,       \* machines reachable by SSH
  NoHost,      \* no registration, no host
  Foreign,     \* a runner of the same name without the runnerkit label
  Procs,       \* CLI processes
  Selections   \* the artifacts a user of down may confirm together

Artifacts == {"github_runner", "host_registration", "systemd_service",
              "runner_files", "local_state"}

ASSUME HostsAssumption ==
  /\ NoHost \notin Hosts /\ Foreign \notin Hosts /\ NoHost # Foreign
  /\ Selections \subseteq SUBSET Artifacts

VARIABLES
  rec,         \* the saved RepositoryState
  registered,  \* where the registration under the runner's name points to
  files,       \* hosts with an install directory
  configured,  \* hosts whose install directory holds .runner and credentials
  unit,        \* hosts with the systemd unit
  active,      \* hosts whose unit runs
  pc,          \* where each process is; "idle" between commands
  mem          \* its local variables

hostVars == <<files, configured, unit, active>>
vars == <<rec, registered, hostVars, pc, mem>>

------------------------------------------------------------------------------
(* Records and local variables *)

Records == [kind: {"none", "byo", "cloud"}, host: Hosts \cup {NoHost}]
NoRec     == [kind |-> "none", host |-> NoHost]
ByoRec(h) == [kind |-> "byo", host |-> h]
CloudRec  == [kind |-> "cloud", host |-> NoHost]

UpPcs   == {"check_name", "download", "configure", "install_service",
            "verify_service", "wait_online", "up_save"}
DownPcs == {"d_stop", "d_uninstall", "d_remove", "d_files", "d_github", "d_finish"}
Pcs     == {"idle", "cloud_save"} \cup UpPcs \cup DownPcs

\* snap: the record down read; reach: SSH works; failed: the stop script
\* did not succeed; partial: nor did a step that counts.
Memory == [host: Hosts \cup {NoHost}, repl: BOOLEAN, snap: Records,
           sel: SUBSET Artifacts, reach: BOOLEAN, failed: BOOLEAN,
           partial: BOOLEAN]
Blank == [host |-> NoHost, repl |-> FALSE, snap |-> NoRec, sel |-> {},
          reach |-> FALSE, failed |-> FALSE, partial |-> FALSE]

\* A call works, fails without effect, or works and reports a failure.
Outcomes == {"ok", "error", "lost"}
TookEffect(out) == out \in {"ok", "lost"}

Init ==
  /\ rec = NoRec
  /\ registered \in {NoHost, Foreign}
  /\ files = {} /\ configured = {} /\ unit = {} /\ active = {}
  /\ pc = [p \in Procs |-> "idle"]
  /\ mem = [p \in Procs |-> Blank]

Goto(p, there) == pc' = [pc EXCEPT ![p] = there] /\ UNCHANGED mem
Exit(p) == pc' = [pc EXCEPT ![p] = "idle"] /\ mem' = [mem EXCEPT ![p] = Blank]
Proceed(p, out, there) == IF out = "ok" THEN Goto(p, there) ELSE Exit(p)

Start(p, there, m) ==
  /\ pc[p] = "idle"
  /\ pc' = [pc EXCEPT ![p] = there]
  /\ mem' = [mem EXCEPT ![p] = m]

------------------------------------------------------------------------------
(* runnerkit up --host *)

\* Replacing a saved record is confirmed before anything is touched.  Its
\* host-key fingerprint is compared with that of the target, so a record must
\* be taken down before the runner can move to another host.
UpBegin(p, h) ==
  /\ rec.kind # "cloud"
  /\ rec.kind = "byo" => rec.host = h
  /\ Start(p, "check_name",
           [Blank EXCEPT !.host = h, !.repl = rec.kind = "byo"])
  /\ UNCHANGED <<rec, registered, hostVars>>

MutCheckName(p, out) ==   \* a managed runner is taken for an installed one
  /\ pc[p] = "check_name"
  /\ IF registered \in Hosts
     THEN Proceed(p, out, "wait_online")
     ELSE IF registered = Foreign THEN Exit(p) ELSE Proceed(p, out, "download")
  /\ UNCHANGED <<rec, registered, hostVars>>

\* ListRunners, the confirmation of the plan, CreateRegistrationToken.
CheckName(p, out) ==
  /\ pc[p] = "check_name"
  /\ IF registered = Foreign THEN Exit(p) ELSE Proceed(p, out, "download")
  /\ UNCHANGED <<rec, registered, hostVars>>

\* fix_dependencies, create_runner_user, setup_runner_image, download_runner
Download(p, out) ==
  /\ pc[p] = "download"
  /\ files' = IF TookEffect(out) THEN files \cup {mem[p].host} ELSE files
  /\ Proceed(p, out, "configure")
  /\ UNCHANGED <<rec, registered, configured, unit, active>>

\* The old credentials are removed first; config.sh --replace then takes
\* the name over, whoever holds it.
ConfigureRunner(p, out) ==
  /\ pc[p] = "configure"
  /\ LET h == mem[p].host IN
     IF TookEffect(out)
     THEN /\ files' = files \cup {h}
          /\ configured' = configured \cup {h}
          /\ registered' = h
     ELSE /\ configured' \in {configured, configured \ {h}}
          /\ UNCHANGED <<files, registered>>
  /\ Proceed(p, out, "install_service")
  /\ UNCHANGED <<rec, unit, active>>

\* svc.sh install refuses to overwrite a unit.
MutInstallService(p, out) ==   \* without the uninstall before the install
  /\ pc[p] = "install_service"
  /\ LET h == mem[p].host IN
     IF out = "ok"
     THEN h \notin unit /\ unit' = unit \cup {h} /\ active' = active \cup {h}
     ELSE UNCHANGED <<unit, active>>
  /\ Proceed(p, out, "verify_service")
  /\ UNCHANGED <<rec, registered, files, configured>>

\* stop, uninstall, install, start, status: a failure may come after any.
InstallService(p, out) ==
  /\ pc[p] = "install_service"
  /\ LET h == mem[p].host IN
     IF out = "ok"
     THEN unit' = unit \cup {h} /\ active' = active \cup {h}
     ELSE \/ unit' = unit \ {h} /\ active' = active \ {h}
          \/ unit' = unit \cup {h} /\ active' \in {active \ {h}, active \cup {h}}
  /\ Proceed(p, out, "verify_service")
  /\ UNCHANGED <<rec, registered, files, configured>>

VerifyService(p, out) ==
  /\ pc[p] = "verify_service"
  /\ out = "ok" => mem[p].host \in active
  /\ Proceed(p, out, "wait_online")
  /\ UNCHANGED <<rec, registered, hostVars>>

\* GitHub shows a runner by its name, not by its host.
WaitOnline(p, out) ==
  /\ pc[p] = "wait_online"
  /\ out = "ok" => registered \in configured \cap active
  /\ Proceed(p, out, "up_save")
  /\ UNCHANGED <<rec, registered, hostVars>>

\* saveRepositoryState asks again if a record appeared meanwhile.
SaveRepositoryState(p, out) ==
  /\ pc[p] = "up_save"
  /\ rec' \in IF out # "ok" THEN {rec}
              ELSE {ByoRec(mem[p].host)}
                   \cup IF rec = NoRec \/ mem[p].repl THEN {} ELSE {rec}
  /\ Exit(p)
  /\ UNCHANGED <<registered, hostVars>>

UpStep(p, out) ==
  \/ CheckName(p, out)
  \/ Download(p, out)
  \/ ConfigureRunner(p, out)
  \/ InstallService(p, out)
  \/ VerifyService(p, out)
  \/ WaitOnline(p, out)
  \/ SaveRepositoryState(p, out)

Up(p) ==
  \/ \E h \in Hosts : UpBegin(p, h)
  \/ \E out \in Outcomes : UpStep(p, out)

------------------------------------------------------------------------------
(* runnerkit down *)

HostArtifacts == {"host_registration", "systemd_service", "runner_files"}
NeedsRunnerStop(sel)  == sel \cap HostArtifacts # {}
NeedsSvcTeardown(sel) == sel \cap {"host_registration", "systemd_service"} # {}

Pending(m) == [m EXCEPT !.partial = TRUE]

\* Takes one step of applyCleanup with the local variables left as m.
Continue(p, there, m) ==
  /\ pc' = [pc EXCEPT ![p] = there]
  /\ mem' = [mem EXCEPT ![p] = m]

\* There is a record, and no cloud provider in it.
ManagedByDown(r) == r.kind = "byo"

\* The record is read, the artifacts are confirmed, the host is probed.
DownBegin(p, sel, reach) ==
  /\ ManagedByDown(rec)
  /\ Start(p, IF reach /\ NeedsRunnerStop(sel) THEN "d_stop" ELSE "d_github",
           [Blank EXCEPT !.host = rec.host, !.snap = rec, !.sel = sel,
                         !.reach = reach])
  /\ UNCHANGED <<rec, registered, hostVars>>

\* Each command of the script may fail without the script failing.
StopRunner(p, out) ==
  /\ pc[p] = "d_stop"
  /\ active' \in IF out = "error" THEN {active} ELSE {active, active \ {mem[p].host}}
  /\ Continue(p, IF NeedsSvcTeardown(mem[p].sel) THEN "d_uninstall" ELSE "d_files",
              [mem[p] EXCEPT !.failed = out # "ok"])
  /\ UNCHANGED <<rec, registered, files, configured, unit>>

AfterService(sel) == IF "runner_files" \in sel THEN "d_files" ELSE "d_github"

MutUninstallService(p, out) ==   \* unconfigures whatever was selected
  /\ pc[p] = "d_uninstall"
  /\ unit' = unit \ {mem[p].host}
  /\ active' = active \ {mem[p].host}
  /\ Goto(p, "d_remove")
  /\ UNCHANGED <<rec, registered, files, configured>>

\* svc.sh lives in the install directory; systemctl disable --now does not
\* delete the unit.  "swallowed": nothing worked, and the script says ok.
UninstallService(p, out) ==
  /\ pc[p] = "d_uninstall"
  /\ LET h == mem[p].host
         sel == mem[p].sel
         m == [mem[p] EXCEPT !.failed = FALSE]
     IN /\ IF TookEffect(out)
           THEN /\ unit' = IF h \in files THEN unit \ {h} ELSE unit
                /\ active' = active \ {h}
           ELSE UNCHANGED <<unit, active>>
        /\ Continue(p,
             IF "host_registration" \in sel THEN "d_remove" ELSE AfterService(sel),
             IF "systemd_service" \in sel
                  /\ (mem[p].failed \/ out \in {"error", "lost"})
             THEN Pending(m) ELSE m)
  /\ UNCHANGED <<rec, registered, files, configured>>

\* config.sh remove: refuses while the service is installed, deletes the
\* registration if the credentials are there, then the credentials.
Unconfigure(h) ==
  /\ h \in files \ unit
  /\ configured' = configured \ {h}
  /\ registered' \in IF h \notin configured \/ registered \notin Hosts THEN {registered}
                     ELSE IF registered = h THEN {NoHost}
                     ELSE {NoHost, registered}

\* No removal token: the command returns at once.  A script that cannot
\* enter the install directory has failed; an answer that the runner is not
\* registered ("absent") has not.
RemoveConfig(p, out) ==
  /\ pc[p] = "d_remove"
  /\ LET h == mem[p].host
         next == AfterService(mem[p].sel)
     IN \/ /\ out = "no_token"
           /\ Exit(p)
           /\ UNCHANGED <<registered, configured>>
        \/ out = "ok" /\ Unconfigure(h) /\ Goto(p, next)
        \/ /\ out = "absent"
           /\ h \in configured \ unit /\ registered # h
           /\ Goto(p, next)
           /\ UNCHANGED <<registered, configured>>
        \/ /\ out = "lost" /\ Unconfigure(h)
           /\ Continue(p, next, Pending(mem[p]))
        \/ /\ out = "error"
           /\ Continue(p, next, Pending(mem[p]))
           /\ UNCHANGED <<registered, configured>>
  /\ UNCHANGED <<rec, files, unit, active>>

\* A failure is shown, and nothing else follows from it.
RemoveFiles(p, out) ==
  /\ pc[p] = "d_files"
  /\ LET h == mem[p].host IN
     IF TookEffect(out)
     THEN files' = files \ {h} /\ configured' = configured \ {h}
     ELSE UNCHANGED <<files, configured>>
  /\ Goto(p, "d_github")
  /\ UNCHANGED <<rec, registered, unit, active>>

MutDeleteRunner(p, out) ==   \* a failed delete does not count as partial
  /\ pc[p] = "d_github"
  /\ registered' = IF "github_runner" \in mem[p].sel /\ TookEffect(out) /\ registered \in Hosts
                   THEN NoHost ELSE registered
  /\ Goto(p, "d_finish")
  /\ UNCHANGED <<rec, hostVars>>

\* deleteGitHubRunnerCandidate; a runner without our labels is none of ours.
DeleteRunner(p, out) ==
  /\ pc[p] = "d_github"
  /\ LET delete == "github_runner" \in mem[p].sel IN
     /\ registered' = IF delete /\ TookEffect(out) /\ registered \in Hosts
                      THEN NoHost ELSE registered
     /\ Continue(p, "d_finish",
                 IF delete /\ out # "ok" THEN Pending(mem[p]) ELSE mem[p])
  /\ UNCHANGED <<rec, hostVars>>

Partial(m) == m.partial \/ ~m.reach

\* UpdateRepository overwrites the entry of that name, if there is one.
Update(r) == IF rec = NoRec THEN rec ELSE r

\* The record goes if it was selected and nothing is left to do; a partial
\* result is written over it.
CleanedUp(m) ==
  IF Partial(m) THEN Update(m.snap)
  ELSE IF "local_state" \in m.sel THEN NoRec ELSE rec

DownFinish(p, out) ==
  /\ pc[p] = "d_finish"
  /\ rec' = IF out = "ok" THEN CleanedUp(mem[p]) ELSE rec
  /\ Exit(p)
  /\ UNCHANGED <<registered, hostVars>>

DownStep(p) ==
  \/ \E out \in Outcomes :
       StopRunner(p, out) \/ RemoveFiles(p, out) \/ DeleteRunner(p, out)
         \/ DownFinish(p, out)
  \/ \E out \in Outcomes \cup {"swallowed"} : UninstallService(p, out)
  \/ \E out \in Outcomes \cup {"absent", "no_token"} : RemoveConfig(p, out)

Down(p) ==
  \/ \E sel \in Selections, reach \in BOOLEAN : DownBegin(p, sel, reach)
  \/ DownStep(p)

\* down without a record deletes one registration, named by its id.
DownWithoutState(p) ==
  /\ pc[p] = "idle"
  /\ rec = NoRec /\ registered # NoHost
  /\ registered' = NoHost
  /\ UNCHANGED <<rec, hostVars, pc, mem>>

------------------------------------------------------------------------------
(* Everything else that acts on the same record and hosts *)

\* runnerkit recover: it restarts an existing service and saves nothing.
RestartService(p) ==
  /\ pc[p] = "idle"
  /\ rec.kind = "byo" /\ rec.host \in unit \ active
  /\ active' = active \cup {rec.host}
  /\ UNCHANGED <<rec, registered, files, configured, unit, pc, mem>>

ServiceStops(h) ==
  /\ h \in active
  /\ active' = active \ {h}
  /\ UNCHANGED <<rec, registered, files, configured, unit, pc, mem>>

\* runnerkit up --cloud and destroy, as far as they concern the record;
\* CloudLifecycle has the rest.
CloudBegin(p) ==
  /\ rec.kind # "cloud"
  /\ Start(p, "cloud_save", [Blank EXCEPT !.repl = rec.kind = "byo"])
  /\ UNCHANGED <<rec, registered, hostVars>>

CloudSave(p) ==
  /\ pc[p] = "cloud_save"
  /\ rec' \in {rec} \cup IF rec = NoRec \/ mem[p].repl THEN {CloudRec} ELSE {}
  /\ Exit(p)
  /\ UNCHANGED <<registered, hostVars>>

CloudDestroyed(p) ==
  /\ pc[p] = "idle"
  /\ rec.kind = "cloud"
  /\ rec' = NoRec
  /\ UNCHANGED <<registered, hostVars, pc, mem>>

\* The process dies, or the user interrupts it.
Crash(p) ==
  /\ pc[p] # "idle"
  /\ Exit(p)
  /\ UNCHANGED <<rec, registered, hostVars>>

Next ==
  \/ \E p \in Procs : \/ Up(p) \/ Down(p) \/ DownWithoutState(p) \/ Crash(p)
                      \/ RestartService(p)
                      \/ CloudBegin(p) \/ CloudSave(p) \/ CloudDestroyed(p)
  \/ \E h \in Hosts : ServiceStops(h)

Spec == Init /\ [][Next]_vars

\* A command that runs takes its next step or dies.
Runs(p) == WF_vars(Crash(p) \/ CloudSave(p) \/ DownStep(p)
                     \/ \E out \in Outcomes : UpStep(p, out))

\* A command the user repeats is repeated, and a call that is made again
\* and again succeeds now and then.
UpFairness == \A p \in Procs :
  /\ Runs(p)
  /\ SF_vars(\E h \in Hosts : UpBegin(p, h))
  /\ SF_vars(CheckName(p, "ok"))
  /\ SF_vars(Download(p, "ok"))
  /\ SF_vars(ConfigureRunner(p, "ok"))
  /\ SF_vars(InstallService(p, "ok"))
  /\ SF_vars(VerifyService(p, "ok"))
  /\ SF_vars(WaitOnline(p, "ok"))
  /\ SF_vars(SaveRepositoryState(p, "ok"))

DownFairness == \A p \in Procs :
  /\ Runs(p)
  /\ SF_vars(DownBegin(p, Artifacts, TRUE))
  /\ SF_vars(StopRunner(p, "ok"))
  /\ SF_vars(UninstallService(p, "ok"))
  /\ SF_vars(RemoveConfig(p, "ok"))
  /\ SF_vars(RemoveFiles(p, "ok"))
  /\ SF_vars(DeleteRunner(p, "ok"))
  /\ SF_vars(DownFinish(p, "ok"))

UpSpec   == Spec /\ UpFairness
DownSpec == Spec /\ DownFairness

------------------------------------------------------------------------------
(* Properties *)

\* Values have their types; nothing runs without a unit and nothing is
\* configured outside an install directory; a process that unconfigures a
\* runner was asked to, and one that works on the host found it reachable.
TypeOK ==
  /\ rec \in Records
  /\ registered \in Hosts \cup {NoHost, Foreign}
  /\ configured \subseteq files /\ files \subseteq Hosts
  /\ active \subseteq unit /\ unit \subseteq Hosts
  /\ pc \in [Procs -> Pcs]
  /\ mem \in [Procs -> Memory]
  /\ \A p \in Procs :
       /\ pc[p] = "d_remove" => "host_registration" \in mem[p].sel
       /\ pc[p] \in {"d_stop", "d_uninstall", "d_remove", "d_files"}
            => mem[p].reach /\ NeedsRunnerStop(mem[p].sel)

\* p's down removes the record.
Dropped(p) == pc[p] = "d_finish" /\ pc'[p] = "idle" /\ rec # NoRec /\ rec' = NoRec

\* When down removes the record, the selected artifacts it can still name
\* are gone: no registration on GitHub, no credentials that belong to one,
\* no unit where it had to unconfigure, however many earlier attempts
\* stopped half way (applyCleanup's partial).
DroppedMeansDeregistered ==
  [][\A p \in Procs :
       Dropped(p)
         => /\ "github_runner" \in mem[p].sel => registered \notin Hosts
            /\ "host_registration" \in mem[p].sel
                 => /\ mem[p].host \notin unit
                    /\ registered = mem[p].host => mem[p].host \notin configured]_vars

SavesAt(p, there) == pc[p] = there /\ pc'[p] = "idle"

\* One process: after the save that ends an `up`, the record names a host where
\* the runner is installed, configured under the saved name, and has its
\* service; reruns over what attempts on other hosts left included (runUp saves
\* last).
SavedMeansServing ==
  [][rec'.kind = "byo" /\ (\E p \in Procs : SavesAt(p, "up_save"))
       => /\ registered = rec'.host
          /\ rec'.host \in configured \cap unit]_vars

UpOnly == \E p \in Procs : Up(p) \/ Crash(p)

\* Downs with --yes of a reachable host in which no call fails, except that
\* unconfiguring may.
DownRunsThrough == \E p \in Procs :
  \/ DownBegin(p, Artifacts, TRUE)
  \/ StopRunner(p, "ok") \/ UninstallService(p, "ok")
  \/ RemoveConfig(p, "ok") \/ RemoveConfig(p, "error")
  \/ RemoveFiles(p, "ok") \/ DeleteRunner(p, "ok") \/ DownFinish(p, "ok")

\* Whatever earlier attempts left on the hosts, a user who repeats `up`
\* gets a recorded runner, if the name is not somebody else's and no cloud
\* record refuses the command (RenderInstallScript, RenderServiceScript).
UpCompletes ==
  <>[][UpOnly]_vars
    => <>[](rec.kind \in {"byo", "cloud"} \/ registered = Foreign)

\* Whatever earlier attempts left, a user who repeats `down --yes` gets rid
\* of the record (cleanup is resumable).
DownCompletes == <>[][DownRunsThrough]_vars => <>[](rec.kind # "byo")
=============================================================================
