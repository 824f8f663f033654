------------------------------ MODULE Readiness ------------------------------
(* From the command line to the start of a bootstrap: what `up` and          *)
(* `register` settle with the user, the three waits of `up --cloud` (the     *)
(* server at the provider, its SSH host key, cloud-init as root) while the   *)
(* machine boots, and the preflight of all of them.  Both the provider's API *)
(* and the SSH connections may fail for a while at any time.                 *)
EXTENDS Naturals, FiniteSets, Preflight, Consent

CONSTANTS
  ReadinessAttempts,   \* looks at the server (readinessMaxAttempts)
  ProbeAttempts,       \* scans for the host key (defaultHostKeyProbeAttempts)
  WaitBudget,          \* time for cloud-init, in intervals between attempts
  MaxMissing           \* bound: facts a host of the user may lack

ASSUME ReadinessAssumption ==
  /\ {ReadinessAttempts, ProbeAttempts, WaitBudget} \subseteq Nat \ {0}
  /\ MaxMissing \in Nat

VARIABLES
  path,           \* which setup: cloud, byo, register, or none chosen yet
  confirm,        \* how the plan is confirmed, unless it has been
  owed,           \* history: what the setup needs of the user and has not got
  allowUnknown,   \* --allow-unknown-linux
  facts,          \* what is true of the host
  sudo,           \* what sudo does for the user that RunnerKit logs in as
  stage, faults,  \* of a cloud machine's first boot
  api, ssh,       \* the provider's API, the SSH connections: reliable now?
  pc, tries,
  elapsed, ran,   \* time since the wait for cloud-init began; of its command
  seen, answer    \* what preflight observed

choiceVars == <<path, confirm, owed, allowUnknown>>
hostVars == <<choiceVars, facts>>
bootVars == <<sudo, stage, faults>>
linkVars == <<api, ssh>>
timeVars == <<elapsed, ran>>
seenVars == <<seen, answer>>
vars == <<hostVars, bootVars, linkVars, pc, tries, timeVars, seenVars>>

Facts  == ProbeFacts \cup {"github", "user"}
Stages == <<"created", "running", "sshd", "users", "packages", "finished">>
Rank(s) == CHOOSE i \in DOMAIN Stages : Stages[i] = s
Reached(s) == Rank(stage) >= Rank(s)

Pcs == {"choose", "create_action", "server", "host_key", "wait", "waiting", "probe",
        "privilege", "network", "foundation", "confirm", "ready", "preview",
        "host_install", "failed"}
Ended == {"ready", "preview", "host_install", "failed"}

Init ==
  /\ path = "none" /\ confirm = "none" /\ owed = {} /\ allowUnknown = FALSE
  /\ facts = {} /\ sudo = "no_user" /\ stage = "created" /\ faults = {}
  /\ api = TRUE /\ ssh = TRUE
  /\ pc = "choose" /\ tries = 0 /\ elapsed = 0 /\ ran = 0
  /\ seen = {} /\ answer = "lost"

------------------------------------------------------------------------------
(* The setup.  A cloud machine is created as soon as it is settled; a host of *)
(* the user is as it is.                                                      *)

Choose(setup) ==
  /\ pc = "choose"
  /\ path' = setup.path /\ confirm' = setup.confirm /\ owed' = setup.owed
  /\ allowUnknown' \in IF setup.path = "cloud" THEN {FALSE} ELSE BOOLEAN
  /\ IF setup.path = "cloud"
       THEN /\ facts' \in {Facts, Facts \ {"github"}}
            /\ pc' = "create_action"
            /\ UNCHANGED <<sudo, stage>>
       ELSE /\ facts' \in {Facts \ lack :
                            lack \in {m \in SUBSET Facts : Cardinality(m) <= MaxMissing}}
            /\ sudo' \in {"not_allowed", "password", "passwordless"}
            /\ stage' = "finished" /\ pc' = "probe"
  /\ UNCHANGED <<faults, linkVars, tries, timeVars, seenVars>>

\* A refusal, a question answered no, or a failing call before anything is changed.
Refuse ==
  /\ pc = "choose" /\ pc' = "failed"
  /\ UNCHANGED <<hostVars, bootVars, linkVars, tries, timeVars, seenVars>>

------------------------------------------------------------------------------
(* The machine boots (the image, with the user-data of cloudInitUserData).  *)

Boots(next, newSudo, newFaults) ==
  /\ path = "cloud" /\ Rank(next) = Rank(stage) + 1
  /\ stage' = next /\ sudo' = newSudo /\ faults' = newFaults
  /\ UNCHANGED <<hostVars, linkVars, pc, tries, timeVars, seenVars>>

ServerRuns  == Boots("running", sudo, faults)
SSHDStarts  == Boots("sshd", sudo, faults)

\* The users stanza; some images ignore or misapply its sudo entry.
UsersAdded  == \E s \in {"passwordless", "password"} : Boots("users", s, faults)
PackagesTried == \E f \in {{}, {"packages"}} : Boots("packages", sudo, faults \cup f)

\* The sudoers fragment is installed, or visudo rejects it; the last command of
\* runcmd decides whether cloud-init notices.
RunCmd ==
  \/ Boots("finished", "passwordless", faults)
  \/ \E f \in {{}, {"runcmd"}} : Boots("finished", sudo, faults \cup f)

\* cloud-init stops early.
CloudInitCrashes ==
  /\ path = "cloud" /\ Reached("sshd") /\ stage # "finished"
  /\ stage' = "finished" /\ faults' = faults \cup {"crash"}
  /\ UNCHANGED <<hostVars, sudo, linkVars, pc, tries, timeVars, seenVars>>

\* Only `up --cloud` asks the provider.
LinkChanges ==
  /\ pc # "choose"
  /\ ssh' \in BOOLEAN /\ api' \in IF path = "cloud" THEN BOOLEAN ELSE {api}
  /\ UNCHANGED <<hostVars, bootVars, pc, tries, timeVars, seenVars>>

Machine == ServerRuns \/ SSHDStarts \/ UsersAdded \/ PackagesTried \/ RunCmd \/ CloudInitCrashes

\* `cloud-init status`.
Status == IF stage # "finished" THEN "running"
          ELSE IF faults \cap {"runcmd", "crash"} # {} THEN "error"
          ELSE IF faults = {"packages"} THEN "recoverable error"
          ELSE "done"

\* The exit code of `cloud-init status --wait` (up.go:1049).
StatusExit == CASE Status = "done" -> 0 [] Status = "error" -> 1 [] OTHER -> 2

------------------------------------------------------------------------------
(* The waits *)

Moves(there) == pc' = there /\ tries' = 0

\* WaitForAction.
CreateAction ==
  /\ pc = "create_action"
  /\ \/ Reached("running") /\ Moves("server")
     \/ ~api /\ Moves("failed")
  /\ UNCHANGED <<hostVars, bootVars, linkVars, timeVars, seenVars>>

\* One look of WaitReady: an error of the API ends it, a server that is not
\* running with a public address is looked at again.
LookAtServer ==
  /\ pc = "server"
  /\ \/ Reached("running") /\ Moves("host_key")
     \/ ~Reached("running") /\ tries < ReadinessAttempts - 1 /\ tries' = tries + 1 /\ UNCHANGED pc
     \/ ~Reached("running") /\ tries = ReadinessAttempts - 1 /\ Moves("failed")
     \/ ~api /\ Moves("failed")
  /\ UNCHANGED <<hostVars, bootVars, linkVars, timeVars, seenVars>>

\* One scan of ProbeHostKeyWithRetry; every kind of failure is tried again.
ScanHostKey ==
  /\ pc = "host_key"
  /\ \/ Reached("sshd") /\ Moves("wait")
     \/ /\ ~Reached("sshd") \/ ~ssh
        /\ \/ tries < ProbeAttempts - 1 /\ tries' = tries + 1 /\ UNCHANGED pc
           \/ tries = ProbeAttempts - 1 /\ Moves("failed")
  /\ UNCHANGED <<hostVars, bootVars, linkVars, timeVars, seenVars>>

MutRetry ==
  /\ Moves("failed")
  /\ UNCHANGED timeVars

\* runCloudInitWaitWithRetry after an error of the command, a failing script
\* among them: the deadline is looked at before the sleep.
Retry ==
  /\ UNCHANGED tries
  /\ IF elapsed > WaitBudget
       THEN pc' = "failed" /\ UNCHANGED timeVars
       ELSE pc' = "wait" /\ elapsed' = elapsed + 1 /\ ran' = 0

WaitStarts ==
  /\ pc = "wait"
  /\ \/ Reached("sshd") /\ pc' = "waiting" /\ UNCHANGED <<tries, timeVars>>
     \/ ~ssh /\ Retry
  /\ UNCHANGED <<hostVars, bootVars, linkVars, seenVars>>

MutTimePasses ==
  /\ pc = "waiting"
  /\ ran' = ran + 1 /\ elapsed' = elapsed + 1
  /\ UNCHANGED <<hostVars, bootVars, linkVars, pc, tries, seenVars>>

\* While the command has no answer, or its connection hangs.  It has a timeout of
\* its own, as long as the whole wait.
TimePasses ==
  /\ pc = "waiting" /\ ran < WaitBudget
  /\ stage # "finished" \/ ~ssh
  /\ ran' = ran + 1 /\ elapsed' = elapsed + 1
  /\ UNCHANGED <<hostVars, bootVars, linkVars, pc, tries, seenVars>>

MutScriptPasses == TRUE

\* cloudInitWaitScript once cloud-init has finished: under `set -e` an exit code
\* of `status --wait` other than zero ends the script before it is compared.
ScriptPasses == StatusExit = 0 /\ Status \in {"done", "recoverable error"}

WaitReturns ==
  /\ pc = "waiting"
  /\ \/ stage = "finished" /\ ScriptPasses /\ Moves("probe") /\ UNCHANGED timeVars
     \/ stage = "finished" /\ ~ScriptPasses /\ Retry
     \/ (~ssh \/ (ran = WaitBudget /\ stage # "finished")) /\ Retry
  /\ UNCHANGED <<hostVars, bootVars, linkVars, seenVars>>

------------------------------------------------------------------------------
(* The preflight.  None of its commands is repeated. *)

\* On a cloud machine preflight logs in as the user that cloud-init adds.
\* Without a connection at its start it fails; each later one that is lost
\* hides a fact.
Probe ==
  /\ pc = "probe"
  /\ \/ /\ sudo # "no_user"
        /\ \E s \in SUBSET (facts \cap ProbeFacts) :
             /\ ssh => s = facts \cap ProbeFacts
             /\ seen' = s
             /\ Moves(IF "sudo" \in s THEN "privilege" ELSE "network")
     \/ /\ sudo = "no_user" \/ ~ssh
        /\ Moves("failed") /\ UNCHANGED seen
  /\ UNCHANGED <<hostVars, bootVars, linkVars, timeVars, answer>>

ProbeSudo ==
  /\ pc = "privilege"
  /\ answer' \in {sudo} \cup (IF ssh THEN {} ELSE {"lost"})
  /\ Moves("network")
  /\ UNCHANGED <<hostVars, bootVars, linkVars, timeVars, seen>>

MutConclude(github) ==
  IF ~Passed(seen, answer, github, allowUnknown, path = "cloud") THEN "failed"
  ELSE CASE path = "cloud" -> "ready" [] path = "register" -> "foundation" [] OTHER -> "confirm"

\* Where `up` goes on a report: a password prompt of sudo passes preflight on
\* a host of the user, to be answered with the instructions for the host install.
Conclude(github) ==
  IF ~Passed(seen, answer, github, allowUnknown, path = "cloud") THEN "failed"
  ELSE IF answer = "password" THEN "host_install"
  ELSE CASE path = "cloud" -> "ready" [] path = "register" -> "foundation" [] OTHER -> "confirm"

ProbeNetwork ==
  /\ pc = "network"
  /\ \E github \in {"github" \in facts} \cup (IF ssh THEN {} ELSE {FALSE}) :
       Moves(Conclude(github))
  /\ UNCHANGED <<hostVars, bootVars, linkVars, timeVars, seenVars>>

\* verify_runnerkit_foundation, of `register` only.
ProbeFoundation ==
  /\ pc = "foundation"
  /\ \/ "user" \in facts /\ Moves("confirm")
     \/ ("user" \notin facts \/ ~ssh) /\ Moves("failed")
  /\ UNCHANGED <<hostVars, bootVars, linkVars, timeVars, seenVars>>

\* The dry run ends here; then confirmBootstrapPlan.
ConfirmPlan ==
  /\ pc = "confirm"
  /\ \/ confirm \in {"yes", "prompt"} /\ Moves("ready")
     \/ confirm = "dry_run" /\ Moves("preview")
     \/ confirm \in {"prompt", "none"} /\ Moves("failed")
  /\ UNCHANGED <<hostVars, bootVars, linkVars, timeVars, seenVars>>

Up == \/ CreateAction \/ LookAtServer \/ ScanHostKey
      \/ WaitStarts \/ TimePasses \/ WaitReturns
      \/ Probe \/ ProbeSudo \/ ProbeNetwork \/ ProbeFoundation \/ ConfirmPlan

\* The command has ended.
Rest == pc \in Ended /\ UNCHANGED vars

Next == (\E setup \in Setups : Choose(setup)) \/ Refuse \/ Machine \/ LinkChanges \/ Up \/ Rest

Spec == Init /\ [][Next]_vars

\* Once it has begun, `up` goes on and its time passes; the machine may hang.
FairSpec == Spec /\ WF_vars(Up)

------------------------------------------------------------------------------
(* Properties *)

\* Values have their types; a machine of the provider has no sudo before it has
\* its user.
TypeOK ==
  /\ path \in {"none", "cloud", "byo", "register"} /\ allowUnknown \in BOOLEAN
  /\ confirm \in {"yes", "prompt", "dry_run", "none"}
  /\ owed \subseteq Consents
  /\ facts \subseteq Facts /\ sudo \in SudoAnswers \cup {"no_user"}
  /\ stage \in {Stages[i] : i \in DOMAIN Stages}
  /\ faults \subseteq {"packages", "runcmd", "crash"}
  /\ api \in BOOLEAN /\ ssh \in BOOLEAN
  /\ pc \in Pcs /\ tries \in Nat /\ elapsed \in Nat /\ ran \in 0..WaitBudget
  /\ seen \subseteq facts \cap ProbeFacts /\ answer \in {"lost", sudo}
  /\ path # "cloud" => faults = {} /\ stage = IF path = "none" THEN "created" ELSE "finished"

\* No machine is created and no host changed before all that the setup needs of
\* the user was given, by flags or by typed phrases: the opt-in for experimental
\* setups, also for one chosen at a prompt; the risk of a repository that
\* others can send jobs to, twice for a persistent runner (--allow-public-repo-risk,
\* then a phrase or --yes); a replaced record; an unknown host key; the plan.
ConsentFirst ==
  path = "cloud" \/ pc = "ready" => owed = {} /\ confirm \in {"yes", "prompt"}

\* A bootstrap starts only on a host that can be bootstrapped without a prompt,
\* whatever images make of the user-data and whichever connections are lost on
\* the way (preflight.Run, RequirePasswordlessSudo, host_install_required).
BootstrapFits ==
  pc = "ready" =>
    /\ sudo = "passwordless"
    /\ Needed(allowUnknown) \cup {"github"} \subseteq facts
    /\ path = "register" => "user" \in facts

\* No machine is bootstrapped while its cloud-init still runs or after it
\* reported an error: a marker file of an ended boot is no substitute for the
\* status (comment of cloudInitWaitScript).
NoneOnBrokenBoot ==
  path = "cloud" /\ pc \in {"probe", "privilege", "network", "ready"}
    => Status \notin {"running", "error"}

\* The wait for cloud-init ends, at the latest after twice its budget and a
\* sleep: the last attempt may begin at the deadline and has a timeout of
\* its own (runCloudInitWaitWithRetry).
WaitBounded == elapsed <= 2 * WaitBudget + 1

\* At the last look of each wait what it waits for is there.
InTime ==
  /\ pc = "server" /\ tries = ReadinessAttempts - 1 => Reached("running")
  /\ pc = "host_key" /\ tries = ProbeAttempts - 1 => Reached("sshd") /\ ssh
  /\ pc \in {"wait", "waiting"} /\ elapsed >= WaitBudget => stage = "finished" /\ ssh

\* What the provider promises, and connections that hold once cloud-init is
\* over: preflight asks everything once.
Stable ==
  /\ api /\ (path = "cloud" => "github" \in facts)
  /\ pc \in {"probe", "privilege", "network"} => ssh

\* Connections that fail and services that come and go while a machine boots do
\* not cost it: one that boots without an error in time is bootstrapped
\* (ProbeHostKeyWithRetry, runCloudInitWaitWithRetry).
ConvergedIsUsed ==
  [](path \in {"none", "cloud"} /\ InTime /\ Stable)
     /\ <>(Status = "done") /\ [](stage = "finished" => sudo = "passwordless")
  => <>(pc = "ready")

\* "Exit code 2 means cloud-init finished but some non-fatal module failed ...
\* we treat 2 as success and let bootstrap proceed" (up.go:1049).
RecoverableProceeds ==
  [](path \in {"none", "cloud"} /\ InTime /\ Stable)
     /\ <>(Status = "recoverable error") /\ [](stage = "finished" => sudo = "passwordless")
  => <>(pc = "ready")

==============================================================================
