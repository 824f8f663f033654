----------------------------- MODULE Ephemeral -----------------------------
(* BYO ephemeral runners of one repository on one host: `up --mode           *)
(* ephemeral`, the runner's one job, the finalizer and the TTL timer on the  *)
(* host, `recover` and `down`.  One command runs at a time; host, runner and *)
(* GitHub act in between, and a command may fail or die at every step.       *)
(*                                                                           *)
(* Every up takes a new name, so what an earlier one left (a registration, a *)
(* unit, a timer that fires 24 hours later) lives on beside the next one.    *)
EXTENDS Health

CONSTANTS
  Runners,   \* runner names, numbered; as many ups get as far as the host
  NoRunner

ASSUME RunnersAssumption == Runners \subseteq Nat /\ NoRunner \notin Runners

VARIABLES
  rec,       \* the runner of the saved record
  dir,       \* a runner's install directory
  reg,       \* its registration on GitHub
  svc,       \* its one-shot service
  timer,     \* its TTL timer
  sentinel,  \* runners whose finalizer wrote state.json
  logs,      \* "diag" until a script tried to copy them; whether it could, nobody knows
  pc, mem    \* the running command

hostVars == <<dir, svc, timer, sentinel, logs>>
vars == <<rec, reg, hostVars, pc, mem>>

Memory == [runner: Runners \cup {NoRunner}, partial: BOOLEAN]
Blank  == [runner |-> NoRunner, partial |-> FALSE]

Pcs == {"idle", "configure", "finalizer", "service", "timer", "verify", "online",
        "save", "restart", "d_stop", "d_uninstall", "d_remove", "d_preserve",
        "d_files", "d_github", "d_finish"}

\* A call works, fails without effect, or works and reports a failure.
Outcomes == {"ok", "error", "lost"}
TookEffect(out) == out \in {"ok", "lost"}

Init ==
  /\ rec = NoRunner
  /\ dir = [r \in Runners |-> "absent"] /\ reg = [r \in Runners |-> "absent"]
  /\ svc = [r \in Runners |-> "absent"] /\ timer = [r \in Runners |-> "absent"]
  /\ sentinel = {} /\ logs = [r \in Runners |-> "none"]
  /\ pc = "idle" /\ mem = Blank

MutExit == pc' = "idle" /\ UNCHANGED mem   \* the next command inherits

Exit == pc' = "idle" /\ mem' = Blank
Proceed(out, there) ==
  IF out = "ok" THEN pc' = there /\ UNCHANGED mem ELSE Exit

------------------------------------------------------------------------------
(* The runner's process *)

\* A listener of the runner is connected, in its unit or left over from it.
Listening(r) == reg[r] \in {"idle", "busy"}

\* run.sh comes up with credentials GitHub still knows; otherwise it ends and
\* its ExecStopPost fails, as that runs as the service user and the state
\* directory belongs to root.
Started(r) ==
  IF dir[r] = "configured" /\ reg[r] # "absent"
  THEN /\ svc' = [svc EXCEPT ![r] = "active"]
       /\ reg' = [reg EXCEPT ![r] = IF @ = "busy" THEN @ ELSE "idle"]
       /\ logs' = [logs EXCEPT ![r] = "diag"]
  ELSE svc' = [svc EXCEPT ![r] = "failed"] /\ UNCHANGED <<reg, logs>>

Offline(r) == IF reg[r] = "absent" THEN reg ELSE [reg EXCEPT ![r] = "offline"]

\* Stopping runs ExecStopPost too.  KillMode=process: only run.sh is signalled,
\* and the listener below it may live on.
Stopped(r) ==
  IF svc[r] = "active"
  THEN svc' = [svc EXCEPT ![r] = "failed"] /\ reg' \in {reg, Offline(r)}
  ELSE UNCHANGED <<svc, reg>>

------------------------------------------------------------------------------
(* up: ApplyEphemeral, waiting, saving *)

Fresh(r) == /\ dir[r] = "absent" /\ reg[r] = "absent" /\ svc[r] = "absent"
            /\ timer[r] = "absent" /\ logs[r] = "none"

\* A random name, here the next one: no name differs from another but by its
\* use.  A saved record is replaced once the user has confirmed.
UpBegin(r) ==
  /\ pc = "idle" /\ Fresh(r) /\ \A q \in Runners : Fresh(q) => r <= q
  /\ pc' = "configure" /\ mem' = [Blank EXCEPT !.runner = r]
  /\ UNCHANGED <<rec, reg, hostVars>>

\* Preparation and download, then config.sh --ephemeral.
Configure(out) ==
  /\ pc = "configure"
  /\ LET r == mem.runner IN
     IF TookEffect(out)
     THEN dir' = [dir EXCEPT ![r] = "configured"] /\ reg' = [reg EXCEPT ![r] = "offline"]
     ELSE dir' \in {dir, [dir EXCEPT ![r] = "bare"]} /\ UNCHANGED reg
  /\ Proceed(out, "finalizer")
  /\ UNCHANGED <<rec, svc, timer, sentinel, logs>>

InstallFinalizer(out) ==
  /\ pc = "finalizer"
  /\ Proceed(out, "service")
  /\ UNCHANGED <<rec, reg, hostVars>>

\* The unit is written and started; it is not enabled.
InstallService(out) ==
  /\ pc = "service"
  /\ IF TookEffect(out) THEN Started(mem.runner)
     ELSE /\ svc' \in {svc, [svc EXCEPT ![mem.runner] = "inactive"]}
          /\ UNCHANGED <<reg, logs>>
  /\ Proceed(out, "timer")
  /\ UNCHANGED <<rec, dir, timer, sentinel>>

\* Written, enabled and started.
InstallTimer(out) ==
  /\ pc = "timer"
  /\ timer' = IF TookEffect(out) THEN [timer EXCEPT ![mem.runner] = "armed"] ELSE timer
  /\ Proceed(out, "verify")
  /\ UNCHANGED <<rec, reg, dir, svc, sentinel, logs>>

VerifyService(out) ==
  /\ pc = "verify"
  /\ out = "ok" => svc[mem.runner] = "active"
  /\ Proceed(out, "online")
  /\ UNCHANGED <<rec, reg, hostVars>>

\* A runner that has finished its job by the first look is not seen any more.
WaitOnline(out) ==
  /\ pc = "online"
  /\ out = "ok" => reg[mem.runner] \in {"idle", "busy"}
  /\ Proceed(out, "save")
  /\ UNCHANGED <<rec, reg, hostVars>>

Save(out) ==
  /\ pc = "save"
  /\ rec' = IF out = "ok" THEN mem.runner ELSE rec
  /\ Exit
  /\ UNCHANGED <<reg, hostVars>>

Up ==
  \/ \E r \in Runners : UpBegin(r)
  \/ \E out \in Outcomes :
       \/ Configure(out) \/ InstallFinalizer(out) \/ InstallService(out)
       \/ InstallTimer(out) \/ VerifyService(out) \/ WaitOnline(out) \/ Save(out)

------------------------------------------------------------------------------
(* status and recover *)

Listed == {r \in Runners : reg[r] # "absent"}

MutCandidates == Listed   \* by the labels only

\* githubFactFor: the recorded id, else whatever has our labels.
Candidates == IF rec \in Listed THEN {rec} ELSE Listed

\* What collectStatus and collectEphemeralFact find when every call works.
\* expired: ExpiresAt is past, which --ephemeral-ttl may put long before or after
\* the timer on the host, always of 24 hours.  pending: no command writes the
\* notes that hasEphemeralCleanupPending looks for.
Observed(expired) ==
  LET one == Candidates # {} /\ \A r, s \in Candidates : r = s
      found == CHOOSE r \in Candidates : TRUE
  IN [saved |-> rec # NoRunner, cloud |-> FALSE, mode |-> "ephemeral",
      github |-> IF Candidates = {} THEN "absent" ELSE IF one THEN "found" ELSE "several",
      online |-> one /\ reg[found] \in {"idle", "busy"},
      busy   |-> one /\ reg[found] = "busy",
      labels |-> one,
      key |-> "matched", reachable |-> TRUE,
      service |-> IF rec = NoRunner \/ svc[rec] = "absent" THEN "missing"
                  ELSE svc[rec],
      provider |-> "byo", pending |-> FALSE, expired |-> expired,
      finalizer |-> IF rec \in sentinel THEN "ttl_expired" ELSE "pending"]

\* The mode is not looked at.
RecoverBegin ==
  /\ pc = "idle" /\ rec # NoRunner
  /\ BuildRecoveryPlan(Observed(FALSE), FALSE) = "restart"
  /\ pc' = "restart" /\ mem' = [Blank EXCEPT !.runner = rec]
  /\ UNCHANGED <<rec, reg, hostVars>>

RestartService(out) ==
  /\ pc = "restart"
  /\ IF TookEffect(out) /\ svc[mem.runner] # "absent" THEN Started(mem.runner)
     ELSE UNCHANGED <<svc, reg, logs>>
  /\ Exit
  /\ UNCHANGED <<rec, dir, timer, sentinel>>

------------------------------------------------------------------------------
(* down, of everything *)

DownBegin(reach) ==
  /\ pc = "idle" /\ rec # NoRunner
  /\ pc' = IF reach THEN "d_stop" ELSE "d_github"
  /\ mem' = [Blank EXCEPT !.runner = rec, !.partial = ~reach]
  /\ UNCHANGED <<rec, reg, hostVars>>

MutContinue(there, counts) ==   \* the last step decides
  pc' = there /\ mem' = [mem EXCEPT !.partial = counts]

Continue(there, counts) ==
  pc' = there /\ mem' = [mem EXCEPT !.partial = @ \/ counts]

\* There is no svc.sh unit: `systemctl stop` and `systemctl disable --now` do
\* the work, each ending in `|| true` ("swallowed").
StopRunner(out) ==
  /\ pc \in {"d_stop", "d_uninstall"}
  /\ IF TookEffect(out) THEN Stopped(mem.runner) ELSE UNCHANGED <<svc, reg>>
  /\ Continue(IF pc = "d_stop" THEN "d_uninstall" ELSE "d_remove",
              out \in {"error", "lost"})
  /\ UNCHANGED <<rec, dir, timer, sentinel, logs>>

\* config.sh remove, which without credentials has nothing to remove.
RemoveConfig(out) ==
  /\ pc = "d_remove"
  /\ out = "ok" => dir[mem.runner] # "absent"
  /\ LET r == mem.runner IN
     IF TookEffect(out) /\ dir[r] = "configured"
     THEN /\ dir' = [dir EXCEPT ![r] = "bare"]
          /\ reg' = [reg EXCEPT ![r] = "absent"]
     ELSE UNCHANGED <<dir, reg>>
  /\ Continue("d_preserve", out # "ok")
  /\ UNCHANGED <<rec, svc, timer, sentinel, logs>>

\* Each `cp` ends in `|| true`: the script has tried, and may have copied nothing.
Archives(r) ==
  IF dir[r] # "absent" /\ logs[r] = "diag" THEN [logs EXCEPT ![r] = "tried"] ELSE logs

\* What counts is a script that could not run or not make the archive's directory.
PreserveLogs(out) ==
  /\ pc = "d_preserve"
  /\ logs' = IF TookEffect(out) THEN Archives(mem.runner) ELSE logs
  /\ Continue("d_files", out # "ok")
  /\ UNCHANGED <<rec, reg, dir, svc, timer, sentinel>>

\* Whether or not the logs were kept; a failure does not count.
RemoveFiles(out) ==
  /\ pc = "d_files"
  /\ LET r == mem.runner IN
     IF TookEffect(out)
     THEN /\ dir' = [dir EXCEPT ![r] = "absent"]
          /\ logs' = IF logs[r] = "diag" THEN [logs EXCEPT ![r] = "lost"] ELSE logs
     ELSE UNCHANGED <<dir, logs>>
  /\ Continue("d_github", FALSE)
  /\ UNCHANGED <<rec, reg, svc, timer, sentinel>>

\* The recorded id, or the name with our labels: never another runner.
DeleteRunner(out) ==
  /\ pc = "d_github"
  /\ reg' = IF TookEffect(out) THEN [reg EXCEPT ![mem.runner] = "absent"] ELSE reg
  /\ Continue("d_finish", out # "ok")
  /\ UNCHANGED <<rec, hostVars>>

\* A partial result writes the record it read at its start, without a note of
\* the logs: nothing decides differently afterwards.
DownFinish(out) ==
  /\ pc = "d_finish"
  /\ rec' = IF out = "ok" /\ ~mem.partial THEN NoRunner ELSE rec
  /\ Exit
  /\ UNCHANGED <<reg, hostVars>>

Down ==
  \/ \E reach \in BOOLEAN : DownBegin(reach)
  \/ \E out \in Outcomes \cup {"swallowed"} : StopRunner(out)
  \/ \E out \in Outcomes :
       \/ RemoveConfig(out) \/ PreserveLogs(out) \/ RemoveFiles(out)
       \/ DeleteRunner(out) \/ DownFinish(out)

Die == pc # "idle" /\ Exit /\ UNCHANGED <<rec, reg, hostVars>>

------------------------------------------------------------------------------
(* Host and GitHub *)

JobStarts(r) ==
  /\ reg[r] = "idle"
  /\ reg' = [reg EXCEPT ![r] = "busy"]
  /\ UNCHANGED <<rec, hostVars, pc, mem>>

\* GitHub removes the registration; the process ends, and may delete its
\* credentials.
JobEnds(r) ==
  /\ reg[r] = "busy"
  /\ reg' = [reg EXCEPT ![r] = "absent"]
  /\ svc' = [svc EXCEPT ![r] = IF @ = "active" THEN "failed" ELSE @]
  /\ dir' \in {dir, IF dir[r] = "configured" THEN [dir EXCEPT ![r] = "bare"] ELSE dir}
  /\ UNCHANGED <<rec, timer, sentinel, logs, pc, mem>>

ServiceDies(r) ==
  /\ svc[r] = "active" /\ Stopped(r)
  /\ UNCHANGED <<rec, dir, timer, sentinel, logs, pc, mem>>

\* One that outlived its unit.
ListenerDies(r) ==
  /\ svc[r] # "active" /\ Listening(r)
  /\ reg' = Offline(r)
  /\ UNCHANGED <<rec, hostVars, pc, mem>>

\* GitHub drops an ephemeral runner that stays away.
RegistrationExpires(r) ==
  /\ reg[r] = "offline" /\ reg' = [reg EXCEPT ![r] = "absent"]
  /\ UNCHANGED <<rec, hostVars, pc, mem>>

MutReboot ==   \* the timer was started, not enabled
  /\ svc' = [r \in Runners |-> IF svc[r] = "absent" THEN "absent" ELSE "inactive"]
  /\ reg' = [r \in Runners |-> IF reg[r] = "absent" THEN "absent" ELSE "offline"]
  /\ timer' = [r \in Runners |-> "absent"]
  /\ UNCHANGED <<rec, dir, sentinel, logs, pc, mem>>

\* The service is not enabled and stays down; the timer is, and starts over.
Reboot ==
  /\ svc' = [r \in Runners |-> IF svc[r] = "absent" THEN "absent" ELSE "inactive"]
  /\ reg' = [r \in Runners |-> IF reg[r] = "absent" THEN "absent" ELSE "offline"]
  /\ timer' = [r \in Runners |-> IF timer[r] = "absent" THEN "absent" ELSE "armed"]
  /\ UNCHANGED <<rec, dir, sentinel, logs, pc, mem>>

\* The TTL service, once: `systemctl stop ... || true`, then the finalizer, as root.
TTLStop(r) ==
  /\ timer[r] = "armed"
  /\ Stopped(r) \/ UNCHANGED <<svc, reg>>
  /\ timer' = [timer EXCEPT ![r] = "stopping"]
  /\ UNCHANGED <<rec, dir, sentinel, logs, pc, mem>>

\* Under set -e a directory that cannot be made, or a state.json that cannot be
\* written, ends the finalizer before it comes to the credentials.
FinalizerFails(r) ==
  /\ logs' \in {logs, Archives(r)}
  /\ sentinel' \in {sentinel, sentinel \ {r}}
  /\ UNCHANGED dir

MutFinalizerSucceeds(r) ==   \* removes the credentials somewhere else
  /\ logs' = Archives(r)
  /\ sentinel' = sentinel \cup {r}
  /\ UNCHANGED dir

FinalizerSucceeds(r) ==
  /\ logs' = Archives(r)
  /\ sentinel' = sentinel \cup {r}
  /\ dir' = IF dir[r] = "absent" THEN dir ELSE [dir EXCEPT ![r] = "bare"]

TTLFinalize(r) ==
  /\ timer[r] = "stopping"
  /\ timer' = [timer EXCEPT ![r] = "fired"]
  /\ FinalizerSucceeds(r) \/ FinalizerFails(r)
  /\ UNCHANGED <<rec, reg, svc, pc, mem>>

Host ==
  \/ Reboot
  \/ \E r \in Runners :
       \/ JobStarts(r) \/ JobEnds(r) \/ ServiceDies(r) \/ ListenerDies(r)
       \/ RegistrationExpires(r)
       \/ TTLStop(r) \/ TTLFinalize(r)

Next ==
  \/ Up \/ Down \/ Die
  \/ RecoverBegin \/ (\E out \in Outcomes : RestartService(out))
  \/ Host

Spec == Init /\ [][Next]_vars

\* The timer elapses in the end, that is the host is not for ever rebooted within
\* the 24 hours, and some run of its service is not cut short by a reboot.
\* Commands, jobs and GitHub owe nothing.
Fairness == \A r \in Runners : WF_timer(TTLStop(r)) /\ SF_timer(TTLFinalize(r))

FairSpec == Spec /\ Fairness

------------------------------------------------------------------------------
(* Properties *)

\* Type correctness.
TypeOK ==
  /\ rec \in Runners \cup {NoRunner}
  /\ dir \in [Runners -> {"absent", "bare", "configured"}]
  /\ reg \in [Runners -> {"absent", "offline", "idle", "busy"}]
  /\ svc \in [Runners -> {"absent", "inactive", "active", "failed"}]
  /\ timer \in [Runners -> {"absent", "armed", "stopping", "fired"}]
  /\ logs \in [Runners -> {"none", "diag", "tried", "lost"}]
  /\ sentinel \subseteq Runners /\ pc \in Pcs /\ mem \in Memory
  /\ pc = "idle" => mem = Blank

\* A job of the recorded runner is seen as such by status until the record
\* expires: neither the registrations of replaced runners nor their leftovers
\* on the host lead to cleanup advice while it runs.
JobSeen ==
  rec # NoRunner /\ reg[rec] = "busy" => Classify(Observed(FALSE)).health = "busy"

\* A down about to drop the record has left no registration behind, whatever its
\* steps met, and removed no logs but behind a preservation script that ended well.
\* That the script copied them is more than it reports.
DroppedClean ==
  pc = "d_finish" /\ ~mem.partial
    => reg[mem.runner] = "absent" /\ logs[mem.runner] # "lost"

\* Once its TTL finalizer has run, nothing brings a runner back: not recover,
\* which ignores the mode, nor a reboot, nor a job.  A listener that outlived the
\* unit may go on, for one job.
FinalizedStaysDown ==
  [][\A r \in sentinel :
       /\ svc[r] # "active" => svc'[r] # "active"
       /\ ~Listening(r) => ~Listening(r)'
       /\ reg[r] = "busy" => reg'[r] # "idle"]_vars

\* From some time after its timer was armed no credentials of the runner are
\* on the host, although its own finalizer, unprivileged, leaves them there;
\* unless the TTL service's finalizer, which runs once per boot, failed.
CredentialsGo == \A r \in Runners :
  timer[r] = "armed" ~>
    [](dir[r] # "configured") \/ (timer[r] = "fired" /\ r \notin sentinel)
==============================================================================
