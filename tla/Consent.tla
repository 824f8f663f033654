------------------------------ MODULE Consent -------------------------------
(* What `up` and `register` settle before they change anything: where the    *)
(* runner goes, its mode, and which refusals, flags, typed phrases and       *)
(* prompts stand in between.  No state: Readiness begins with it.            *)
EXTENDS FiniteSets

\* Flags of the command line.  "region" stands for the valid values --cloud
\* needs besides; --cloud itself has one supported value.
Flags == {"repo", "host", "cloud", "region", "experimental", "yes", "json", "non_interactive",
          "replace", "public_risk", "ephemeral_risk", "dry_run"}

Modes == {"persistent", "ephemeral"}

\* A command line, the terminal, the repository and whether it has a record, of
\* this host, without live cloud resources (CloudLifecycle has these, Recovery a
\* host with another key).
Invocations ==
  [register: BOOLEAN, mode: Modes \cup {"unset"}, given: SUBSET Flags,
   terminal: BOOLEAN, private: BOOLEAN, fork: BOOLEAN, recorded: BOOLEAN]

\* EvaluateSafety: others can send it jobs.
Open(i) == ~i.private \/ i.fork

\* `register` has no cloud flags and refuses `up`'s.
Accepted(i) == i.register => {"cloud", "region"} \cap i.given = {}

CanAsk(i) == i.terminal /\ {"json", "non_interactive"} \cap i.given = {}

\* resolveUpRepo: the repository of the working directory is asked about.
RepositoryKnown(i) == "repo" \in i.given \/ (i.terminal /\ "non_interactive" \notin i.given)

\* enforceExperimentalGates.
GatesPass(i) ==
  IF "cloud" \in i.given
    THEN i.mode # "ephemeral" /\ {"experimental", "region"} \subseteq i.given
    ELSE i.mode = "ephemeral" => "experimental" \in i.given

\* resolveModeDecision: i, or what the user chooses when asked.
Prompted(i) ==
  IF i.mode = "unset" /\ {"host", "cloud", "yes"} \cap i.given = {} /\ CanAsk(i)
    THEN [register: {i.register}, mode: Modes, given: {i.given, i.given \cup {"cloud"}},
          terminal: {i.terminal}, private: {i.private}, fork: {i.fork}, recorded: {i.recorded}]
    ELSE {i}

MutStillAllowed(i) == i.register => "cloud" \notin i.given

\* A prompt may have chosen cloud or ephemeral.
StillAllowed(i) == (i.register => "cloud" \notin i.given) /\ GatesPass(i)

\* profileFor.
Profile(i) ==
  CASE i.mode = "ephemeral" -> IF "cloud" \in i.given THEN "ephemeral_cloud" ELSE "ephemeral_byo"
    [] OTHER                -> IF Open(i) THEN "persistent_risky" ELSE "persistent_trusted"

\* enforceModeSafetyDecision: the sets of phrases one of which the user has
\* to type; none to be typed, or no way on.
RiskPhrases(i) ==
  CASE Profile(i) = "ephemeral_cloud" -> {}
    [] Profile(i) = "ephemeral_byo" /\ Open(i) ->
         (IF {"ephemeral_risk", "yes"} \subseteq i.given THEN {{}}
          ELSE IF i.terminal /\ "json" \notin i.given THEN {{"ephemeral_risk"}} ELSE {})
    [] Profile(i) = "persistent_risky" ->
         (IF "public_risk" \notin i.given THEN {}
          ELSE IF i.terminal /\ "yes" \notin i.given THEN {{"public_risk"}} ELSE {{}})
    [] OTHER -> {{}}

\* resolveSetupPath; its own prompt is never reached, resolveModeDecision has
\* asked under the same condition.
SetupPath(i) ==
  IF "host" \in i.given THEN "byo"
  ELSE IF "cloud" \in i.given THEN "cloud"
  ELSE IF i.mode # "unset" THEN "byo"
  ELSE "none"

\* resolveBYOTarget.
HostKnown(i) == "host" \in i.given \/ CanAsk(i)

\* confirmStateReplace: --yes alone replaces nothing.
ReplacePhrases(i) ==
  IF ~i.recorded \/ "replace" \in i.given THEN {{}}
  ELSE IF CanAsk(i) /\ "yes" \notin i.given THEN {{"replace"}}
  ELSE {}

\* verifyTargetHostKey, of a host that answers with the recorded key if any.
KeyPhrases(i) ==
  IF i.recorded \/ "yes" \in i.given THEN {{}}
  ELSE IF CanAsk(i) THEN {{"host_key"}}
  ELSE {}

\* confirmCloudProvisionPlan, confirmBootstrapPlan.
ConfirmBy(i) ==
  IF "dry_run" \in i.given THEN "dry_run"
  ELSE IF "yes" \in i.given THEN "yes"
  ELSE IF CanAsk(i) THEN "prompt"
  ELSE "none"

------------------------------------------------------------------------------

Consents == {"experimental", "public_risk", "ephemeral_risk", "replace", "host_key"}

\* Persistent and ephemeral runners have a risk, a flag and a phrase each.
RiskOf(i) == IF i.mode = "ephemeral" THEN "ephemeral_risk" ELSE "public_risk"

\* What the setup asks of the user, and flags or typed phrases can give.
Required(i, path) ==
  (IF path = "cloud" \/ i.mode = "ephemeral" THEN {"experimental"} ELSE {})
    \cup (IF Open(i) THEN {RiskOf(i)} ELSE {})
    \cup (IF i.recorded THEN {"replace"} ELSE {})
    \cup (IF path # "cloud" /\ ~i.recorded THEN {"host_key"} ELSE {})

Obtained(i, typed) ==
  typed \cup (i.given \cap {"experimental", "replace"})
        \cup (IF "yes" \in i.given THEN {"host_key"} ELSE {})
        \cup (IF {"yes", RiskOf(i)} \subseteq i.given THEN {RiskOf(i)} ELSE {})

Setup(i, path, typed) ==
  [path |-> path, confirm |-> ConfirmBy(i), owed |-> Required(i, path) \ Obtained(i, typed)]

\* runUp up to its first command on a host.
BYOSetups(i) ==
  IF SetupPath(i) # "byo" \/ ~HostKnown(i) THEN {}
  ELSE {Setup(i, IF i.register THEN "register" ELSE "byo", risk \cup replace \cup key) :
          risk \in RiskPhrases(i), key \in KeyPhrases(i),
          replace \in IF "dry_run" \in i.given THEN {{}} ELSE ReplacePhrases(i)}

\* runCloudUp up to Provision.
CloudSetups(i) ==
  IF SetupPath(i) # "cloud" \/ ConfirmBy(i) \in {"none", "dry_run"} THEN {}
  ELSE {Setup(i, "cloud", risk \cup replace) :
          risk \in RiskPhrases(i), replace \in ReplacePhrases(i)}

Started == {i \in Invocations : Accepted(i) /\ GatesPass(i) /\ RepositoryKnown(i)}

\* All that commands which are not refused before may go on with.
Setups ==
  UNION {BYOSetups(j) \cup CloudSetups(j) :
           j \in {k \in UNION {Prompted(i) : i \in Started} : StillAllowed(k)}}

==============================================================================
