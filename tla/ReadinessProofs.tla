--------------------------- MODULE ReadinessProofs ---------------------------
(***************************************************************************)
(* Proofs about Readiness, for all numbers of attempts and any time budget: *)
(* the wait for cloud-init is bounded, and only a host that fits is        *)
(* bootstrapped.                                                           *)
(***************************************************************************)
EXTENDS Readiness, TLAPS

USE ReadinessAssumption

\* The order of the boot's stages, computed.
LEMMA StageRanks ==
  /\ Rank("created") = 1 /\ Rank("running") = 2 /\ Rank("sshd") = 3
  /\ Rank("users") = 4 /\ Rank("packages") = 5 /\ Rank("finished") = 6
<1>1. DOMAIN Stages = 1..6
  BY DEF Stages
<1> QED
  BY <1>1 DEF Rank, Stages

StageNames == {"created", "running", "sshd", "users", "packages", "finished"}

\* The stages, listed.
LEMMA StageSet == {Stages[i] : i \in DOMAIN Stages} = StageNames
<1>1. DOMAIN Stages = 1..6
  BY DEF Stages
<1>2. /\ Stages[1] = "created" /\ Stages[2] = "running" /\ Stages[3] = "sshd"
      /\ Stages[4] = "users" /\ Stages[5] = "packages" /\ Stages[6] = "finished"
  BY DEF Stages
<1> QED
  BY <1>1, <1>2 DEF StageNames

\* Where the preflight leads.
LEMMA ConcludeType ==
  ASSUME NEW github
  PROVE  Conclude(github) \in {"failed", "host_install", "ready", "foundation", "confirm"}
BY DEF Conclude

------------------------------------------------------------------------------
(* Time *)

EarlyPcs == {"choose", "create_action", "server", "host_key"}

\* The time that has passed exceeds the budget by one sleep at most when an
\* attempt begins, and an attempt takes no longer than the budget.
TimeInv ==
  /\ pc \in Pcs /\ elapsed \in Nat /\ ran \in 0..WaitBudget
  /\ pc \in EarlyPcs \cup {"wait"} => ran = 0
  /\ pc \in EarlyPcs => elapsed = 0
  /\ elapsed <= WaitBudget + 1 + ran

\* The initial states satisfy it.
LEMMA TimeInit == Init => TimeInv
BY DEF Init, TimeInv, Pcs, EarlyPcs

\* The two actions of the wait in which time matters keep it.
LEMMA RetryKeepsTime ==
  ASSUME TimeInv, Retry, pc \in {"wait", "waiting"}
  PROVE  TimeInv'
<1>1. CASE elapsed > WaitBudget
  BY <1>1 DEF Retry, TimeInv, timeVars, Pcs, EarlyPcs
<1>2. CASE ~(elapsed > WaitBudget)
  BY <1>2 DEF Retry, TimeInv, Pcs, EarlyPcs
<1> QED
  BY <1>1, <1>2

\* Every step keeps it.
LEMMA TimeStep == TimeInv /\ [Next]_vars => TimeInv'
<1> SUFFICES ASSUME TimeInv, [Next]_vars PROVE TimeInv'
  OBVIOUS
<1>1. ASSUME NEW setup \in Setups, Choose(setup) PROVE TimeInv'
  BY <1>1 DEF Choose, TimeInv, timeVars, Pcs, EarlyPcs
<1>2. CASE Refuse
  BY <1>2 DEF Refuse, TimeInv, timeVars, Pcs, EarlyPcs
<1>3. CASE Machine
  BY <1>3 DEF Machine, ServerRuns, SSHDStarts, UsersAdded, PackagesTried, RunCmd, Boots,
              CloudInitCrashes, TimeInv, timeVars
<1>4. CASE LinkChanges
  BY <1>4 DEF LinkChanges, TimeInv, timeVars
<1>5. CASE CreateAction \/ LookAtServer \/ ScanHostKey
  BY <1>5 DEF CreateAction, LookAtServer, ScanHostKey, Moves, TimeInv, timeVars, Pcs, EarlyPcs
<1>6. CASE WaitStarts
  <2>1. CASE Retry
    BY <1>6, <2>1, RetryKeepsTime DEF WaitStarts
  <2>2. CASE pc' = "waiting" /\ UNCHANGED timeVars
    BY <1>6, <2>2 DEF WaitStarts, TimeInv, timeVars, Pcs, EarlyPcs
  <2> QED
    BY <1>6, <2>1, <2>2 DEF WaitStarts
<1>7. CASE TimePasses
  BY <1>7 DEF TimePasses, TimeInv, Pcs, EarlyPcs
<1>8. CASE WaitReturns
  <2>1. CASE Retry
    BY <1>8, <2>1, RetryKeepsTime DEF WaitReturns
  <2>2. CASE Moves("probe") /\ UNCHANGED timeVars
    BY <1>8, <2>2 DEF Moves, TimeInv, timeVars, Pcs, EarlyPcs
  <2> QED
    BY <1>8, <2>1, <2>2 DEF WaitReturns
<1>9. CASE Probe \/ ProbeSudo \/ ProbeNetwork \/ ProbeFoundation \/ ConfirmPlan
  <2>1. UNCHANGED timeVars
    BY <1>9 DEF Probe, ProbeSudo, ProbeNetwork, ProbeFoundation, ConfirmPlan
  <2>2. pc' \in Pcs \ (EarlyPcs \cup {"wait"})
    <3>1. CASE Probe \/ ProbeSudo \/ ProbeFoundation \/ ConfirmPlan
      BY <3>1 DEF Probe, ProbeSudo, ProbeFoundation, ConfirmPlan, Moves, Pcs, EarlyPcs
    <3>2. CASE ProbeNetwork
      BY <3>2, ConcludeType DEF ProbeNetwork, Moves, Pcs, EarlyPcs
    <3> QED
      BY <1>9, <3>1, <3>2
  <2> QED
    BY <2>1, <2>2 DEF TimeInv, timeVars
<1>10. CASE UNCHANGED vars
  BY <1>10 DEF vars, timeVars, TimeInv
<1> QED
  BY <1>1, <1>2, <1>3, <1>4, <1>5, <1>6, <1>7, <1>8, <1>9, <1>10 DEF Next, Up, Rest

\* The wait for cloud-init takes at most twice its budget and a sleep, however
\* connections and machine behave (runCloudInitWaitWithRetry).
THEOREM WaitIsBounded == Spec => []WaitBounded
<1>1. TimeInv => WaitBounded
  BY DEF TimeInv, WaitBounded
<1> QED
  BY <1>1, TimeInit, TimeStep, PTL DEF Spec

------------------------------------------------------------------------------
(* The host *)

\* A machine that has finished its boot changes no more.
LEMMA MachineUnfinished ==
  ASSUME Machine
  PROVE  stage # "finished"
<1>1. ASSUME NEW s, NEW f, NEW next \in {"running", "sshd", "users", "packages", "finished"},
             Boots(next, s, f)
      PROVE  stage # "finished"
  BY <1>1, StageRanks DEF Boots
<1> QED
  BY <1>1 DEF Machine, ServerRuns, SSHDStarts, UsersAdded, PackagesTried, RunCmd, CloudInitCrashes

Asking  == {"probe", "privilege", "network"}
Settled == {"foundation", "confirm", "ready"}

\* What preflight has observed stays true, because it looks at hosts of which
\* nothing changes any more; and what it has judged fits.
HostInv ==
  /\ pc = "choose" => path = "none"
  /\ pc \in Asking \cup Settled => stage = "finished" /\ path # "none"
  /\ stage # "finished" => answer = "lost" /\ seen = {}
  /\ pc \in {"privilege", "network"} => sudo # "no_user"
  /\ pc \in Settled =>
       /\ sudo = "passwordless"
       /\ Needed(allowUnknown) \cup {"github"} \subseteq facts
  /\ pc \in {"confirm", "ready"} /\ path = "register" => "user" \in facts

\* The two kinds of setups, with what was typed for them.
LEMMA BYOSetup ==
  ASSUME NEW j, NEW setup \in BYOSetups(j)
  PROVE  /\ SetupPath(j) = "byo"
         /\ \E risk \in RiskPhrases(j), key \in KeyPhrases(j),
               replace \in (IF "dry_run" \in j.given THEN {{}} ELSE ReplacePhrases(j)) :
              setup = Setup(j, IF j.register THEN "register" ELSE "byo",
                            risk \cup replace \cup key)
<1> DEFINE Path == IF j.register THEN "register" ELSE "byo"
           Replace == IF "dry_run" \in j.given THEN {{}} ELSE ReplacePhrases(j)
<1>1. SetupPath(j) = "byo" /\ HostKnown(j)
  BY DEF BYOSetups
<1>2. setup \in {Setup(j, Path, risk \cup replace \cup key) :
                   risk \in RiskPhrases(j), key \in KeyPhrases(j), replace \in Replace}
  BY <1>1 DEF BYOSetups
<1>3. \E risk \in RiskPhrases(j), key \in KeyPhrases(j), replace \in Replace :
        setup = Setup(j, Path, risk \cup replace \cup key)
  <2> HIDE DEF Path, Replace
  <2> QED
    BY <1>2
<1> QED
  BY <1>1, <1>3, Zenon

LEMMA CloudSetup ==
  ASSUME NEW j, NEW setup \in CloudSetups(j)
  PROVE  /\ SetupPath(j) = "cloud" /\ ConfirmBy(j) \notin {"none", "dry_run"}
         /\ \E risk \in RiskPhrases(j), replace \in ReplacePhrases(j) :
              setup = Setup(j, "cloud", risk \cup replace)
<1>1. SetupPath(j) = "cloud" /\ ConfirmBy(j) \notin {"none", "dry_run"}
  BY DEF CloudSetups
<1>2. setup \in {Setup(j, "cloud", risk \cup replace) :
                   risk \in RiskPhrases(j), replace \in ReplacePhrases(j)}
  BY <1>1 DEF CloudSetups
<1> QED
  BY <1>1, <1>2

\* What a setup is.
LEMMA SetupType ==
  ASSUME NEW setup \in Setups
  PROVE  /\ setup.path \in {"cloud", "byo", "register"}
         /\ setup.confirm \in {"yes", "prompt", "dry_run", "none"}
         /\ setup.owed \subseteq Consents
<1>1. ASSUME NEW i, NEW p \in {"cloud", "byo", "register"}, NEW typed
      PROVE  LET s == Setup(i, p, typed) IN
               /\ s.path \in {"cloud", "byo", "register"}
               /\ s.confirm \in {"yes", "prompt", "dry_run", "none"}
               /\ s.owed \subseteq Consents
  BY <1>1 DEF Setup, ConfirmBy, Required, RiskOf, Consents
<1>2. PICK j : setup \in BYOSetups(j) \cup CloudSetups(j)
  BY DEF Setups
<1>3. CASE setup \in BYOSetups(j)
  <2>1. PICK risk \in RiskPhrases(j), key \in KeyPhrases(j),
             replace \in (IF "dry_run" \in j.given THEN {{}} ELSE ReplacePhrases(j)) :
          setup = Setup(j, IF j.register THEN "register" ELSE "byo", risk \cup replace \cup key)
    BY <1>3, BYOSetup, Zenon
  <2> QED
    BY <1>1, <2>1
<1>4. CASE setup \in CloudSetups(j)
  <2>1. PICK risk \in RiskPhrases(j), replace \in ReplacePhrases(j) : setup = Setup(j, "cloud", risk \cup replace)
    BY <1>4, CloudSetup, Zenon
  <2> QED
    BY <1>1, <2>1
<1> QED
  BY <1>2, <1>3, <1>4

\* The initial states have their types and satisfy the invariant.
LEMMA HostInit == Init => TypeOK /\ HostInv
<1> SUFFICES ASSUME Init PROVE TypeOK /\ HostInv
  OBVIOUS
<1>1. TypeOK
  <2>1. stage \in {Stages[i] : i \in DOMAIN Stages}
    BY StageSet DEF Init, StageNames
  <2>2. pc \in Pcs /\ tries \in Nat /\ elapsed \in Nat /\ ran \in 0..WaitBudget
    BY DEF Init, Pcs
  <2> QED
    BY <2>1, <2>2 DEF Init, TypeOK, SudoAnswers
<1>2. HostInv
  BY DEF Init, HostInv, Asking, Settled
<1> QED
  BY <1>1, <1>2

\* A passing report that is not answered with the host install is of a host
\* that fits.
LEMMA ConcludeFits ==
  ASSUME TypeOK, sudo # "no_user", NEW github, Conclude(github) \in {"ready", "foundation", "confirm"}
  PROVE  /\ sudo = "passwordless" /\ Needed(allowUnknown) \subseteq facts /\ github
         /\ Conclude(github) \in {"ready", "confirm"} => path # "register"
<1>1. Passed(seen, answer, github, allowUnknown, path = "cloud") /\ answer # "password"
  BY DEF Conclude
<1>2. answer \in SudoAnswers /\ seen \subseteq facts
  BY DEF TypeOK, SudoAnswers
<1>3. answer = "passwordless"
  BY <1>1, <1>2 DEF Passed, PrivilegeFailures, SudoAnswers
<1>4. Conclude(github) \in {"ready", "confirm"} => path # "register"
  BY DEF Conclude
<1> QED
  BY <1>1, <1>2, <1>3, <1>4 DEF Passed, TypeOK

\* Every step keeps types and invariant.
LEMMA HostStep == TypeOK /\ HostInv /\ [Next]_vars => TypeOK' /\ HostInv'
<1> SUFFICES ASSUME TypeOK, HostInv, [Next]_vars PROVE TypeOK' /\ HostInv'
  OBVIOUS
<1> USE DEF hostVars, choiceVars, bootVars, linkVars, timeVars, seenVars
<1>1. ASSUME NEW setup \in Setups, Choose(setup) PROVE TypeOK' /\ HostInv'
  <2>1. TypeOK'
    <3>1. stage' \in {Stages[i] : i \in DOMAIN Stages}
      BY <1>1, StageSet DEF Choose, TypeOK, StageNames
    <3>2. /\ setup.path \in {"cloud", "byo", "register"} /\ path' = setup.path
          /\ confirm' \in {"yes", "prompt", "dry_run", "none"}
          /\ owed' \subseteq Consents
          /\ allowUnknown' \in BOOLEAN
      BY <1>1, SetupType DEF Choose
    <3>3. seen = {} /\ answer = "lost" /\ faults = {}
      BY <1>1 DEF Choose, TypeOK, HostInv
    <3>4. /\ facts' \subseteq Facts /\ sudo' \in SudoAnswers \cup {"no_user"}
          /\ pc' \in Pcs
          /\ path' # "cloud" => stage' = "finished"
      BY <1>1, <3>2 DEF Choose, TypeOK, SudoAnswers, Pcs
    <3> QED
      BY <1>1, <3>1, <3>2, <3>3, <3>4 DEF Choose, TypeOK
  <2>2. HostInv'
    BY <1>1, SetupType DEF Choose, TypeOK, HostInv, Asking, Settled
  <2> QED
    BY <2>1, <2>2
<1>2. CASE Refuse
  BY <1>2 DEF Refuse, TypeOK, HostInv, Pcs, Asking, Settled
<1>3. CASE Machine
  <2>1. stage # "finished" /\ path = "cloud" /\ UNCHANGED <<hostVars, pc, tries, timeVars, seenVars, linkVars>>
    BY <1>3, MachineUnfinished DEF Machine, ServerRuns, SSHDStarts, UsersAdded, PackagesTried, RunCmd,
       Boots, CloudInitCrashes
  <2>2. /\ stage' \in {Stages[i] : i \in DOMAIN Stages}
        /\ sudo' \in SudoAnswers \cup {"no_user"}
        /\ faults' \subseteq {"packages", "runcmd", "crash"}
    BY <1>3, StageSet DEF Machine, ServerRuns, SSHDStarts, UsersAdded, PackagesTried, RunCmd,
       Boots, CloudInitCrashes, TypeOK, StageNames, SudoAnswers
  <2> QED
    BY <2>1, <2>2 DEF TypeOK, HostInv, Asking, Settled
<1>4. CASE LinkChanges
  BY <1>4 DEF LinkChanges, TypeOK, HostInv
<1>5. CASE CreateAction \/ LookAtServer \/ ScanHostKey
  <2>1. CASE CreateAction
    BY <2>1 DEF CreateAction, Moves, TypeOK, HostInv, Pcs, Asking, Settled
  <2>2. CASE LookAtServer
    BY <2>2 DEF LookAtServer, Moves, TypeOK, HostInv, Pcs, Asking, Settled
  <2>3. CASE ScanHostKey
    BY <2>3 DEF ScanHostKey, Moves, TypeOK, HostInv, Pcs, Asking, Settled
  <2> QED
    BY <1>5, <2>1, <2>2, <2>3
<1>6. CASE WaitStarts
  BY <1>6 DEF WaitStarts, Retry, TypeOK, HostInv, Pcs, Asking, Settled
<1>7. CASE TimePasses
  BY <1>7 DEF TimePasses, TypeOK, HostInv, Pcs, Asking, Settled
<1>8. CASE WaitReturns
  BY <1>8 DEF WaitReturns, Retry, Moves, TypeOK, HostInv, Pcs, Asking, Settled
<1>9. CASE Probe
  BY <1>9 DEF Probe, Moves, TypeOK, HostInv, Pcs, Asking, Settled
<1>10. CASE ProbeSudo
  BY <1>10 DEF ProbeSudo, Moves, TypeOK, HostInv, Pcs, Asking, Settled
<1>11. CASE ProbeNetwork
  <2>1. PICK github \in {"github" \in facts} \cup (IF ssh THEN {} ELSE {FALSE}) :
          pc' = Conclude(github) /\ tries' = 0
    BY <1>11 DEF ProbeNetwork, Moves
  <2>2. TypeOK'
    BY <1>11, <2>1, ConcludeType DEF ProbeNetwork, TypeOK, Pcs
  <2>3. github => "github" \in facts
    BY <2>1
  <2>4. pc' \in Settled => pc' \in {"ready", "foundation", "confirm"}
    BY DEF Settled
  <2>5. pc' \in Settled =>
          /\ sudo = "passwordless"
          /\ Needed(allowUnknown) \cup {"github"} \subseteq facts
          /\ pc' \in {"confirm", "ready"} => path # "register"
    BY <1>11, <2>1, <2>3, <2>4, ConcludeFits DEF ProbeNetwork, HostInv
  <2>6. pc' \notin Asking \cup {"choose"}
    BY <2>1, ConcludeType DEF Asking
  <2> QED
    BY <1>11, <2>2, <2>5, <2>6 DEF ProbeNetwork, HostInv, Asking, Settled
<1>12. CASE ProbeFoundation \/ ConfirmPlan
  <2>1. CASE ProbeFoundation
    BY <2>1 DEF ProbeFoundation, Moves, TypeOK, HostInv, Pcs, Asking, Settled
  <2>2. CASE ConfirmPlan
    BY <2>2 DEF ConfirmPlan, Moves, TypeOK, HostInv, Pcs, Asking, Settled
  <2> QED
    BY <1>12, <2>1, <2>2
<1>13. CASE UNCHANGED vars
  BY <1>13 DEF vars, TypeOK, HostInv
<1> QED
  BY <1>1, <1>2, <1>3, <1>4, <1>5, <1>6, <1>7, <1>8, <1>9, <1>10, <1>11, <1>12, <1>13 DEF Next, Up, Rest

\* Type correctness.
THEOREM TypeCorrect == Spec => []TypeOK
BY HostInit, HostStep, PTL DEF Spec

\* Whatever images make of the user-data, and whichever connections are lost,
\* only a host that fits and needs no password is bootstrapped.
THEOREM OnlyFitHosts == Spec => []BootstrapFits
<1>1. HostInv => BootstrapFits
  BY DEF HostInv, BootstrapFits, Settled
<1> QED
  BY <1>1, HostInit, HostStep, PTL DEF Spec

------------------------------------------------------------------------------
(* The boot *)

\* While preflight asks a machine of the provider, and after it, the boot is
\* over and without an error.
BootInv == path = "cloud" /\ pc \in Asking \cup Settled => Status \notin {"running", "error"}

\* The initial states satisfy it.
LEMMA BootInit == Init => BootInv
BY DEF Init, BootInv, Asking, Settled

\* Every step keeps it: the script passes only a boot that is done, and a boot
\* that is over changes no more.
LEMMA BootStep == TypeOK /\ HostInv /\ BootInv /\ [Next]_vars => BootInv'
<1> SUFFICES ASSUME TypeOK, HostInv, BootInv, [Next]_vars PROVE BootInv'
  OBVIOUS
<1> USE DEF hostVars, choiceVars, bootVars
<1>1. ASSUME UNCHANGED <<path, stage, faults>>,
             pc' \in Asking \cup Settled => pc \in Asking \cup Settled
      PROVE  BootInv'
  BY <1>1 DEF BootInv, Status
<1>2. ASSUME NEW setup \in Setups, Choose(setup) PROVE BootInv'
  BY <1>2 DEF Choose, BootInv, Asking, Settled
<1>3. CASE Machine
  <2>1. pc' \notin Asking \cup Settled
    BY <1>3, MachineUnfinished DEF Machine, ServerRuns, SSHDStarts, UsersAdded, PackagesTried,
       RunCmd, Boots, CloudInitCrashes, HostInv
  <2> QED
    BY <2>1 DEF BootInv
<1>4. CASE Refuse \/ LinkChanges \/ UNCHANGED vars
  BY <1>1, <1>4 DEF Refuse, LinkChanges, vars, Asking, Settled
<1>5. CASE CreateAction \/ LookAtServer \/ ScanHostKey \/ WaitStarts \/ TimePasses
  BY <1>1, <1>5 DEF CreateAction, LookAtServer, ScanHostKey, WaitStarts, TimePasses, Retry, Moves,
     Asking, Settled
<1>6. CASE WaitReturns
  <2>1. CASE Retry
    BY <1>6, <1>1, <2>1 DEF WaitReturns, Retry, Asking, Settled
  <2>2. CASE ScriptPasses /\ UNCHANGED <<hostVars, bootVars>>
    BY <2>2 DEF ScriptPasses, StatusExit, Status, BootInv
  <2> QED
    BY <1>6, <2>1, <2>2 DEF WaitReturns
<1>7. CASE Probe \/ ProbeSudo \/ ProbeNetwork \/ ProbeFoundation \/ ConfirmPlan
  BY <1>1, <1>7 DEF Probe, ProbeSudo, ProbeNetwork, ProbeFoundation, ConfirmPlan, Asking, Settled
<1> QED
  BY <1>2, <1>3, <1>4, <1>5, <1>6, <1>7 DEF Next, Up, Rest

\* No machine is bootstrapped during its boot or after one that failed.
THEOREM NeverOnBrokenBoot == Spec => []NoneOnBrokenBoot
<1>1. BootInv => NoneOnBrokenBoot
  BY DEF BootInv, NoneOnBrokenBoot, Asking, Settled
<1> QED
  BY <1>1, HostInit, HostStep, BootInit, BootStep, PTL DEF Spec

------------------------------------------------------------------------------
(* Consent *)

\* What is required is obtained, item by item, for a setup i that passes the
\* gates and whose plan is or will be confirmed.
Confirmed(i) == ConfirmBy(i) \in {"yes", "prompt"}

LEMMA ExperimentalObtained ==
  ASSUME NEW i, NEW way, NEW typed, StillAllowed(i), way = "cloud" => "cloud" \in i.given,
         "experimental" \in Required(i, way)
  PROVE  "experimental" \in Obtained(i, typed)
<1>1. way = "cloud" \/ i.mode = "ephemeral"
  BY DEF Required, RiskOf
<1>2. "experimental" \in i.given
  BY <1>1 DEF StillAllowed, GatesPass
<1> QED
  BY <1>2 DEF Obtained

LEMMA RiskObtained ==
  ASSUME NEW i, NEW way, NEW typed, NEW risk \in RiskPhrases(i), risk \subseteq typed,
         Confirmed(i), RiskOf(i) \in Required(i, way)
  PROVE  RiskOf(i) \in Obtained(i, typed)
<1>1. Open(i)
  BY DEF Required, RiskOf
<1>2. CASE i.mode = "ephemeral"
  <2>1. Profile(i) = "ephemeral_cloud" \/ Profile(i) = "ephemeral_byo"
    BY <1>2 DEF Profile
  <2>2. "ephemeral_risk" \in risk \/ {"ephemeral_risk", "yes"} \subseteq i.given
    BY <1>1, <2>1 DEF RiskPhrases
  <2> QED
    BY <1>2, <2>2 DEF Obtained, RiskOf
<1>3. CASE i.mode # "ephemeral"
  <2>1. Profile(i) = "persistent_risky"
    BY <1>1, <1>3 DEF Profile
  <2>2. "public_risk" \in i.given /\ ("public_risk" \in risk \/ ~i.terminal \/ "yes" \in i.given)
    BY <2>1 DEF RiskPhrases
  <2>3. "yes" \in i.given \/ i.terminal
    BY DEF Confirmed, ConfirmBy, CanAsk
  <2> QED
    BY <1>3, <2>2, <2>3 DEF Obtained, RiskOf
<1> QED
  BY <1>2, <1>3

LEMMA ReplaceObtained ==
  ASSUME NEW i, NEW way, NEW typed, NEW replace \in ReplacePhrases(i), replace \subseteq typed,
         "replace" \in Required(i, way)
  PROVE  "replace" \in Obtained(i, typed)
<1>1. i.recorded
  BY DEF Required, RiskOf
<1>2. "replace" \in replace \/ "replace" \in i.given
  BY <1>1 DEF ReplacePhrases
<1> QED
  BY <1>2 DEF Obtained

LEMMA KeyObtained ==
  ASSUME NEW i, NEW way, NEW typed, NEW key \in KeyPhrases(i), key \subseteq typed,
         "host_key" \in Required(i, way)
  PROVE  "host_key" \in Obtained(i, typed)
<1>1. ~i.recorded
  BY DEF Required, RiskOf
<1>2. "host_key" \in key \/ "yes" \in i.given
  BY <1>1 DEF KeyPhrases
<1> QED
  BY <1>2 DEF Obtained

\* Whatever flags are given, and whatever is chosen at the prompts, a setup
\* owes nothing when its plan can be confirmed; a machine is created only then.
LEMMA NothingOwed ==
  ASSUME NEW setup \in Setups
  PROVE  /\ setup.confirm \in {"yes", "prompt"} => setup.owed = {}
         /\ setup.path = "cloud" => setup.confirm \in {"yes", "prompt"}
<1>1. PICK j : StillAllowed(j) /\ setup \in BYOSetups(j) \cup CloudSetups(j)
  BY DEF Setups
<1>2. \A way, typed :
        LET s == Setup(j, way, typed) IN
          /\ s.path = way /\ s.confirm = ConfirmBy(j)
          /\ s.owed = Required(j, way) \ Obtained(j, typed)
  BY DEF Setup
<1>3. \A way : Required(j, way) \subseteq {"experimental", RiskOf(j), "replace", "host_key"}
  BY DEF Required
<1>4. CASE setup \in BYOSetups(j)
  <2> DEFINE way == IF j.register THEN "register" ELSE "byo"
  <2>1. PICK risk \in RiskPhrases(j), key \in KeyPhrases(j),
             replace \in (IF "dry_run" \in j.given THEN {{}} ELSE ReplacePhrases(j)) :
          setup = Setup(j, way, risk \cup replace \cup key)
    BY <1>4, BYOSetup, Zenon
  <2> DEFINE typed == risk \cup replace \cup key
  <2>2. way # "cloud"
    OBVIOUS
  <2>3. setup.path = way /\ setup.confirm = ConfirmBy(j)
        /\ setup.owed = Required(j, way) \ Obtained(j, typed)
    BY <2>1, <1>2
  <2>4. ASSUME Confirmed(j) PROVE Required(j, way) \subseteq Obtained(j, typed)
    <3>1. replace \in ReplacePhrases(j)
      <4>1. "dry_run" \notin j.given
        BY <2>4 DEF Confirmed, ConfirmBy
      <4> QED
        BY <2>1, <4>1
    <3>2. risk \subseteq typed /\ replace \subseteq typed /\ key \subseteq typed
      OBVIOUS
    <3> HIDE DEF typed, way
    <3> QED
      BY <1>1, <1>3, <2>2, <2>4, <3>1, <3>2, ExperimentalObtained, RiskObtained, ReplaceObtained, KeyObtained
  <2> QED
    BY <2>2, <2>3, <2>4 DEF Confirmed
<1>5. CASE setup \in CloudSetups(j)
  <2>1. PICK risk \in RiskPhrases(j), replace \in ReplacePhrases(j) :
          setup = Setup(j, "cloud", risk \cup replace)
    BY <1>5, CloudSetup, Zenon
  <2> DEFINE typed == risk \cup replace
  <2>2. SetupPath(j) = "cloud" /\ ConfirmBy(j) \notin {"none", "dry_run"}
    BY <1>5, CloudSetup, Zenon
  <2>3. "cloud" \in j.given /\ Confirmed(j)
    BY <2>2 DEF SetupPath, Confirmed, ConfirmBy
  <2>4. setup.path = "cloud" /\ setup.confirm = ConfirmBy(j)
        /\ setup.owed = Required(j, "cloud") \ Obtained(j, typed)
    BY <2>1, <1>2
  <2>5. "host_key" \notin Required(j, "cloud")
    BY DEF Required, RiskOf
  <2>6. risk \subseteq typed /\ replace \subseteq typed
    OBVIOUS
  <2>7. Required(j, "cloud") \subseteq Obtained(j, typed)
    <3> HIDE DEF typed
    <3> QED
      BY <1>1, <1>3, <2>3, <2>5, <2>6, ExperimentalObtained, RiskObtained, ReplaceObtained
  <2> QED
    BY <2>3, <2>4, <2>7 DEF Confirmed
<1> QED
  BY <1>1, <1>4, <1>5

\* A confirmed plan owes nothing, and that is how a bootstrap is reached.
ConsentInv ==
  /\ pc = "choose" => path = "none"
  /\ confirm \in {"yes", "prompt"} => owed = {}
  /\ path = "cloud" \/ pc = "ready" => confirm \in {"yes", "prompt"}

\* The initial states satisfy it.
LEMMA ConsentInit == Init => ConsentInv
BY DEF Init, ConsentInv

\* Every step keeps it.
LEMMA ConsentStep == ConsentInv /\ [Next]_vars => ConsentInv'
<1> SUFFICES ASSUME ConsentInv, [Next]_vars PROVE ConsentInv'
  OBVIOUS
<1> USE DEF hostVars, choiceVars
<1>1. ASSUME NEW setup \in Setups, Choose(setup) PROVE ConsentInv'
  BY <1>1, NothingOwed DEF Choose, ConsentInv
<1>2. CASE ConfirmPlan
  BY <1>2 DEF ConfirmPlan, Moves, ConsentInv
<1>3. CASE ProbeNetwork
  <2>1. PICK github : pc' = Conclude(github)
    BY <1>3 DEF ProbeNetwork, Moves
  <2>2. pc' # "choose" /\ (pc' = "ready" => path = "cloud")
    BY <2>1 DEF Conclude
  <2> QED
    BY <1>3, <2>2 DEF ProbeNetwork, ConsentInv
<1>4. ASSUME UNCHANGED hostVars, pc' \notin {"choose", "ready"} \ {pc} PROVE ConsentInv'
  BY <1>4 DEF ConsentInv
<1>5. CASE Refuse \/ Machine \/ LinkChanges \/ UNCHANGED vars
  BY <1>4, <1>5 DEF Refuse, Machine, ServerRuns, SSHDStarts, UsersAdded, PackagesTried, RunCmd,
     Boots, CloudInitCrashes, LinkChanges, vars
<1>6. CASE CreateAction \/ LookAtServer \/ ScanHostKey
  BY <1>4, <1>6 DEF CreateAction, LookAtServer, ScanHostKey, Moves
<1>7. CASE WaitStarts \/ TimePasses \/ WaitReturns
  BY <1>4, <1>7 DEF WaitStarts, TimePasses, WaitReturns, Retry, Moves
<1>8. CASE Probe \/ ProbeSudo \/ ProbeFoundation
  BY <1>4, <1>8 DEF Probe, ProbeSudo, ProbeFoundation, Moves
<1> QED
  BY <1>1, <1>2, <1>3, <1>5, <1>6, <1>7, <1>8 DEF Next, Up, Rest

\* Nothing is created or installed before the user has consented to all that
\* the setup asks for, for every command line and every answer.
THEOREM ConsentIsFirst == Spec => []ConsentFirst
<1>1. ConsentInv => ConsentFirst
  BY DEF ConsentInv, ConsentFirst
<1> QED
  BY <1>1, ConsentInit, ConsentStep, PTL DEF Spec
==============================================================================
