------------------------------ MODULE Recovery ------------------------------
(* status, doctor and recover of one persistent runner: how the facts that   *)
(* Health judges are collected, one SSH, GitHub or provider call after the   *)
(* other, and what recover does about them, while host, GitHub and provider  *)
(* go on changing.  `up` matters for the fingerprint it saves, `down` for    *)
(* removing the record; BYOLifecycle and CloudLifecycle have the rest.       *)
EXTENDS Health

VARIABLES
  fingerprint, \* in the record: of the host, of its name, none, or no record
  replaced,    \* the host has other keys than when it was saved
  reach,       \* SSH works
  unit,        \* the runner's systemd unit on the host
  listing,     \* what GitHub lists for the record
  job,         \* how GitHub shows the runner
  server,      \* "byo", or the state of the cloud server
  pc, cmd,     \* the running command and its position
  obs, paths,  \* the facts it has collected
  plan,        \* the recovery plan
  quiet,       \* history: nothing changed since the command began
  steady,      \* history: the unit was active all the time since
  foreign,     \* history: the host was a replaced one when it began
  misread,     \* history: calls of it whose failure was taken for a fact
  lost         \* history: calls of it that failed otherwise

recVars  == <<fingerprint, replaced>>
hostVars == <<reach, unit>>
farVars  == <<listing, job, server>>
cmdVars  == <<pc, cmd, obs, paths, plan>>
histVars == <<quiet, steady, foreign, misread, lost>>
envVars  == <<recVars, hostVars, farVars>>
vars == <<envVars, cmdVars, histVars>>

------------------------------------------------------------------------------
(* Host keys *)

Algorithms == {"ed25519", "rsa"}

\* selectHostKeyLine: of the keys the host answered with, always the same.
Preferred(answered) == IF "ed25519" \in answered THEN "ed25519" ELSE "rsa"

\* scanHostKey: ssh-keyscan reports the keys that arrived in time.
Scanned(answered) ==
  IF answered = {} THEN "" ELSE IF replaced THEN "new" ELSE Preferred(answered)

MutObserved(answered) == Scanned(answered)   \* no fallback

\* `up` replaces a missing fingerprint by that of the target's name.
Observed(answered) == IF answered = {} THEN "name" ELSE Scanned(answered)

Fingerprints == Algorithms \cup {"name", "none", "no_record"}

Recorded == fingerprint # "no_record"

\* A record saved while a cloud server was created has neither fingerprint nor
\* service name yet.
Unfinished == fingerprint = "none"

DecideHostKey(answered) ==
  IF ~Recorded THEN "unknown"
  ELSE IF Observed(answered) = fingerprint THEN "accepted" ELSE "mismatch"

------------------------------------------------------------------------------

Blank == [saved |-> FALSE, cloud |-> FALSE, mode |-> "persistent",
          github |-> "absent", online |-> FALSE, busy |-> FALSE, labels |-> FALSE,
          key |-> "not_checked", reachable |-> FALSE, service |-> "unobserved",
          provider |-> "byo", pending |-> FALSE, expired |-> FALSE,
          finalizer |-> "none"]

Commands == {"status", "doctor", "recover", "restart_service"}

Pcs == {"idle", "list_runners", "describe", "host_key", "reachable", "show",
        "list_units", "show_resolved", "verdict", "confirm",
        "resolve", "restart", "verify", "wait_online"}

Init ==
  /\ fingerprint = "no_record" /\ replaced = FALSE
  /\ reach = TRUE /\ unit = "missing"
  /\ listing \in {"absent", "drifted"} /\ job = "offline"
  /\ server \in {"byo", "ok"}
  /\ pc = "idle" /\ cmd = "status" /\ obs = Blank /\ paths = "ok" /\ plan = "nothing"
  /\ quiet = TRUE /\ steady = FALSE /\ foreign = FALSE /\ misread = {} /\ lost = {}

\* Ends the command and forgets what it knew.
Forget ==
  /\ pc' = "idle" /\ cmd' = "status" /\ obs' = Blank /\ paths' = "ok" /\ plan' = "nothing"
  /\ quiet' = TRUE /\ steady' = FALSE /\ foreign' = FALSE /\ misread' = {} /\ lost' = {}

\* Takes the next step of the command with the observation o.
Learn(o, there) ==
  /\ obs' = o /\ pc' = there
  /\ UNCHANGED <<cmd, paths, plan>>

NothingLost == UNCHANGED histVars
Loses(call) == lost' = lost \cup {call} /\ UNCHANGED <<quiet, steady, foreign, misread>>
Misreads(call) == misread' = misread \cup {call} /\ UNCHANGED <<quiet, steady, foreign, lost>>

------------------------------------------------------------------------------
(* up and down, from here *)

\* A cloud server is not used before its key was observed.
Up(answered) ==
  /\ pc = "idle" /\ reach /\ ~Unfinished
  /\ server = "byo" \/ (answered # {} /\ ~Recorded)
  /\ DecideHostKey(answered) # "mismatch"
  /\ fingerprint' = Observed(answered)
  /\ replaced' = (replaced /\ Recorded)
  /\ unit' = "active" /\ listing' = "own" /\ job' = "idle"
  /\ UNCHANGED <<reach, server, cmdVars, histVars>>

CloudPending ==
  /\ pc = "idle" /\ ~Recorded /\ server = "ok"
  /\ fingerprint' = "none" /\ replaced' = FALSE
  /\ UNCHANGED <<hostVars, farVars, cmdVars, histVars>>

Down ==
  /\ pc = "idle" /\ Recorded
  /\ fingerprint' = "no_record" /\ replaced' = FALSE
  /\ unit' = "missing" /\ listing' = "absent" /\ job' = "offline"
  /\ UNCHANGED <<reach, server, cmdVars, histVars>>

------------------------------------------------------------------------------
(* collectStatus *)

Begin(c) ==
  /\ pc = "idle" /\ Recorded
  /\ cmd' = c /\ pc' = "list_runners"
  /\ obs' = [Blank EXCEPT !.saved = TRUE, !.cloud = server # "byo"]
  /\ steady' = (unit = "active") /\ foreign' = replaced
  /\ UNCHANGED <<envVars, paths, plan, quiet, misread, lost>>

\* githubFactFor: the recorded id first, then the name or our labels.
ListRunners ==
  /\ pc = "list_runners"
  /\ \/ /\ Learn([obs EXCEPT
               !.github = CASE listing = "absent" -> "absent"
                            [] listing = "several" -> "several"
                            [] OTHER -> "found",
               !.online = listing \in {"own", "drifted"} /\ job # "offline",
               !.busy   = listing \in {"own", "drifted"} /\ job = "busy",
               !.labels = listing = "own"], "describe")
        /\ NothingLost
     \/ Learn([obs EXCEPT !.github = "error"], "describe") /\ Loses("github")
  /\ UNCHANGED envVars

\* What Describe of the provider returns: the recorded server, which needs
\* attention when it is missing or off, or an error of the call.
Described == {server, "error"}

\* collectProviderFact; an error needs attention just like a missing server.
Describe ==
  /\ pc = "describe"
  /\ IF server = "byo"
       THEN Learn([obs EXCEPT !.provider = "byo"], "host_key") /\ NothingLost
       ELSE \E d \in Described :
              /\ Learn([obs EXCEPT !.provider = IF d = "ok" THEN "ok" ELSE "attention"], "host_key")
              /\ IF d = "error" THEN Misreads("describe") ELSE NothingLost
  /\ UNCHANGED envVars

MutProbeHostKey(answered) ==   \* no key observed: falls back like `up`
  /\ pc = "host_key"
  /\ IF Unfinished \/ Observed(answered) = fingerprint
     THEN Learn([obs EXCEPT !.key = "matched"], "reachable")
     ELSE Learn([obs EXCEPT !.key = "mismatch"], "verdict")
  /\ IF answered = {} THEN Loses("scan") ELSE NothingLost
  /\ UNCHANGED envVars

\* ProbeRemoteStatus: without the saved key nothing else is asked of the host.
ProbeHostKey(answered) ==
  /\ pc = "host_key"
  /\ IF Unfinished THEN Learn(obs, "reachable")
     ELSE IF answered = {} THEN Learn([obs EXCEPT !.key = "unknown"], "verdict")
     ELSE IF Scanned(answered) = fingerprint
       THEN Learn([obs EXCEPT !.key = "matched"], "reachable")
       ELSE Learn([obs EXCEPT !.key = "mismatch"], "verdict")
  /\ IF answered = {} THEN Loses("scan")
     ELSE IF answered # Algorithms THEN Misreads("scan") ELSE NothingLost
  /\ UNCHANGED envVars

ProbeSSH ==
  /\ pc = "reachable"
  /\ \/ reach /\ Learn([obs EXCEPT !.reachable = TRUE], "show") /\ NothingLost
     \/ Learn(obs, "verdict") /\ Loses("ssh")
  /\ UNCHANGED envVars

\* The unit is installed under a longer name than the saved one, which is
\* not-found; the real one is searched for.
ShowService ==
  /\ pc = "show"
  /\ \/ /\ Learn([obs EXCEPT !.service = "missing"],
                 IF Unfinished THEN "verdict" ELSE "list_units")
        /\ NothingLost
     \/ ~Unfinished /\ Learn(obs, "verdict") /\ Loses("show")
  /\ UNCHANGED envVars

ListUnits ==
  /\ pc = "list_units"
  /\ \/ Learn(obs, IF unit = "missing" THEN "verdict" ELSE "show_resolved") /\ NothingLost
     \/ Learn(obs, "verdict") /\ Misreads("units")
  /\ UNCHANGED envVars

ShowResolved ==
  /\ pc = "show_resolved"
  /\ \/ Learn([obs EXCEPT !.service = unit], "verdict") /\ NothingLost
     \/ Learn(obs, "verdict") /\ Misreads("units")
  /\ UNCHANGED envVars

------------------------------------------------------------------------------
(* What the commands do with it *)

\* status shows the health and ends.
ShowStatus ==
  /\ pc = "verdict" /\ cmd = "status"
  /\ Forget
  /\ UNCHANGED envVars

\* collectDoctorChecks: on the host, whatever its key was.
ProbePaths ==
  /\ pc = "verdict" /\ cmd = "doctor"
  /\ \/ /\ reach
        /\ paths' \in IF unit = "missing" THEN {"ok", "bad"} ELSE {"ok"}
        /\ NothingLost
     \/ paths' = "not_run" /\ Loses("paths")
  /\ pc' = "confirm"
  /\ UNCHANGED <<cmd, obs, plan, envVars>>

\* doctor shows its findings, and ends.
ShowFindings ==
  /\ pc = "confirm" /\ cmd = "doctor"
  /\ Forget
  /\ UNCHANGED envVars

\* recover makes a plan, which may be blocked.
MakePlan ==
  /\ pc = "verdict" /\ cmd \in {"recover", "restart_service"}
  /\ plan' = BuildRecoveryPlan(obs, cmd = "restart_service") /\ pc' = "confirm"
  /\ UNCHANGED <<cmd, obs, paths, envVars, histVars>>

\* The plan is blocked or declined, or the command is cut short.
Leave ==
  /\ pc # "idle"
  /\ Forget
  /\ UNCHANGED envVars

MutConfirm ==   \* a blocked plan is applied
  /\ pc = "confirm" /\ cmd \in {"recover", "restart_service"}
  /\ pc' = "resolve"
  /\ UNCHANGED <<cmd, obs, paths, plan, envVars, histVars>>

Confirm ==
  /\ pc = "confirm" /\ plan = "restart"
  /\ pc' = "resolve"
  /\ UNCHANGED <<cmd, obs, paths, plan, envVars, histVars>>

\* ResolveActionsRunnerSystemdUnit; a name that is not found fails later.
ResolveUnit ==
  /\ pc = "resolve" /\ reach /\ unit # "missing" /\ ~Unfinished
  /\ pc' = "restart"
  /\ UNCHANGED <<cmd, obs, paths, plan, envVars, histVars>>

\* systemctl restart ends a job that runs.
RestartService ==
  /\ pc = "restart" /\ reach /\ unit # "missing"
  /\ unit' \in {"active", "failed"}
  /\ job' \in IF job = "busy" THEN {"offline", "idle"} ELSE {job}
  /\ pc' = "verify"
  /\ UNCHANGED <<cmd, obs, paths, plan, recVars, reach, listing, server, histVars>>

VerifyService ==
  /\ pc = "verify" /\ reach /\ unit = "active"
  /\ pc' = "wait_online"
  /\ UNCHANGED <<cmd, obs, paths, plan, envVars, histVars>>

WaitOnline ==
  /\ pc = "wait_online"
  /\ listing = "own" /\ job # "offline"
  /\ Forget
  /\ UNCHANGED envVars

Collect ==
  \/ ListRunners \/ Describe \/ (\E a \in SUBSET Algorithms : ProbeHostKey(a))
  \/ ProbeSSH \/ ShowService \/ ListUnits \/ ShowResolved

Command ==
  \/ (\E c \in Commands : Begin(c))
  \/ Collect \/ ShowStatus \/ ProbePaths \/ ShowFindings \/ MakePlan \/ Leave
  \/ Confirm \/ ResolveUnit \/ RestartService \/ VerifyService \/ WaitOnline

------------------------------------------------------------------------------
(* Everything else: at most one change while a command runs (the bound). *)

Change ==
  /\ quiet' = (pc = "idle")
  /\ steady' = (steady /\ unit' = "active")
  /\ pc # "idle" => quiet
  /\ UNCHANGED <<cmdVars, foreign, misread, lost>>

ServiceChanges ==
  /\ unit # "missing"
  /\ unit' \in {"active", "inactive", "failed", "missing"} \ {unit}
  /\ job' \in {job, IF unit' = "active" THEN "idle" ELSE "offline"}
  /\ UNCHANGED <<recVars, reach, listing, server>>
  /\ Change

JobChanges ==
  /\ unit = "active"
  /\ job' \in {"offline", "idle", "busy"} \ {job}
  /\ UNCHANGED <<recVars, hostVars, listing, server>>
  /\ Change

HostReplaced ==
  /\ ~replaced /\ Recorded
  /\ replaced' = TRUE /\ unit' \in {unit, "missing"}
  /\ UNCHANGED <<fingerprint, reach, farVars>>
  /\ Change

ReachChanges ==
  /\ reach' = ~reach
  /\ UNCHANGED <<recVars, unit, farVars>>
  /\ Change

ListingChanges ==
  /\ listing' \in {"absent", "own", "drifted", "several"} \ {listing}
  /\ UNCHANGED <<recVars, hostVars, job, server>>
  /\ Change

ServerChanges ==
  /\ server # "byo"
  /\ server' \in {"ok", "attention"} \ {server}
  /\ UNCHANGED <<recVars, hostVars, listing, job>>
  /\ Change

Environment ==
  \/ ServiceChanges \/ JobChanges \/ HostReplaced \/ ReachChanges
  \/ ListingChanges \/ ServerChanges

Next ==
  \/ (\E a \in SUBSET Algorithms : Up(a)) \/ CloudPending \/ Down
  \/ Command \/ Environment

Spec == Init /\ [][Next]_vars

------------------------------------------------------------------------------
(* Properties *)

\* Type correctness.
TypeOK ==
  /\ fingerprint \in Fingerprints /\ replaced \in BOOLEAN
  /\ reach \in BOOLEAN /\ unit \in Services \ {"unobserved"}
  /\ obs \in Observations /\ pc \in Pcs /\ cmd \in Commands

\* The host is the one the record names, and a whole scan shows it.
HostMatches ==
  Recorded /\ ~replaced /\ fingerprint = Preferred(Algorithms)

Healthy ==
  /\ unit = "active" /\ listing = "own" /\ job # "offline"
  /\ reach /\ ~replaced /\ server # "attention"

Judged == pc = "verdict" /\ quiet

\* What status says of a runner is true of it: whichever calls failed, "ready"
\* is said only of one that is active, registered and online on the host of
\* the record, "busy" only of one that runs a job there, and a healthy runner
\* is not called broken or in need of attention.
VerdictTrue ==
  LET verdict == Classify(obs).health
  IN Judged =>
       /\ verdict = "ready" => Healthy
       /\ verdict = "busy" => listing = "own" /\ job = "busy" /\ ~replaced
       /\ misread = {} /\ HostMatches /\ Healthy => verdict \in {"ready", "busy", "unknown"}

\* recover and doctor send a user to unregister and install again only when
\* the runner really lacks its service, its registration or its labels: a
\* failed call alone does not cost a healthy runner.
ManualOnlyWhenNeeded ==
  LET manual == \/ plan = "manual"
                \/ /\ cmd = "doctor"
                   /\ \E f \in DoctorFindings(obs, paths) : f.remedy = "manual"
  IN pc = "confirm" /\ quiet /\ misread = {} /\ manual
       => unit = "missing" \/ listing # "own" \/ Unfinished

\* The command status sends a user to has something to offer for the very
\* facts status saw, and the cleanup it names fits the record: never `down`
\* for a cloud server, nor `destroy` for a machine that is not one.
AdviceFits ==
  LET advice == Classify(obs).advice
      advices == {advice} \cup {f.remedy : f \in DoctorFindings(obs, "ok")}
  IN pc = "verdict" =>
       /\ advice = "recover"
            => BuildRecoveryPlan(obs, FALSE) \in {"restart", "manual", "unreachable"}
       /\ advice = "doctor" /\ "show" \notin lost => DoctorFindings(obs, "ok") # {}
       /\ "down" \in advices => ~obs.cloud
       /\ "destroy" \in advices => obs.cloud

\* recover plans a restart for a stopped service it can reach, also when
\* GitHub or the provider does not answer.
PlanHeals ==
  Judged /\ misread \subseteq {"describe"} /\ lost \subseteq {"github"}
         /\ HostMatches /\ reach /\ unit \in {"inactive", "failed"}
    => BuildRecoveryPlan(obs, FALSE) = "restart"

\* recover, unless it is told to restart, never restarts a service that has
\* been active since it began: a job that runs is not ended by a failed call.
RecoverSparesJobs == [][RestartService /\ cmd = "recover" => ~steady]_vars

\* Neither restart is done on a host that was replaced before the command
\* began.
KnownHostOnly == [][RestartService => ~foreign]_vars
==============================================================================
