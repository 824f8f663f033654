--------------------------- MODULE RecoveryProofs ---------------------------
(***************************************************************************)
(* Proofs about Recovery: what recover restarts, and on which host; and    *)
(* that what status, doctor and recover say of a runner is true of it.  A  *)
(* restart comes minutes after the facts it was planned from; the          *)
(* invariants say what of them still holds.                                *)
(***************************************************************************)
EXTENDS Recovery, HealthProofs

Applying == {"resolve", "restart", "verify", "wait_online"}
Probing  == {"reachable", "show", "list_units", "show_resolved"}

USE DEF recVars, hostVars, farVars, envVars, cmdVars, histVars

\* A plan to restart is made on a host that was reached and, unless the user
\* asked for it, of a service seen stopped.
LEMMA RestartPlanned ==
  ASSUME NEW o, NEW requested, BuildRecoveryPlan(o, requested) = "restart"
  PROVE  o.reachable /\ (~requested => o.service \in {"inactive", "failed"})
BY DEF BuildRecoveryPlan, RestartRecommended, ServiceFailed

\* What a command knows and plans, and that only a recorded host is replaced.
Planned ==
  /\ ~Recorded => ~replaced
  /\ pc \in Applying => plan = "restart"
  /\ pc = "idle" => obs = Blank /\ plan = "nothing" /\ ~steady /\ ~foreign

\* A service that was active all the time was not seen stopped, so recover has
\* no plan to restart it.
SteadyInv ==
  /\ steady /\ pc \notin {"verify", "wait_online"} => unit = "active"
  /\ steady => obs.service \notin {"inactive", "failed"}
  /\ steady /\ cmd = "recover" => plan # "restart"

\* A host that was replaced before the command began is still one; past its
\* key only a record gets that has none, and no unit to restart.
ForeignInv ==
  /\ foreign => replaced
  /\ foreign /\ (pc \in Probing \/ obs.reachable \/ plan = "restart") => Unfinished
  /\ pc \in {"restart"} => ~Unfinished

IInv == TypeOK /\ Planned /\ SteadyInv /\ ForeignInv

\* Blank is an observation.
LEMMA BlankFacts == Blank \in Observations /\ Blank.service = "unobserved" /\ ~Blank.reachable
BY DEF Blank, Observations, Modes, Listings, KeyStates, Services, Finalizers

\* The initial states satisfy it.
LEMMA InitIInv == Init => IInv
<1> SUFFICES ASSUME Init PROVE IInv
  OBVIOUS
<1>1. TypeOK
  BY BlankFacts DEF Init, TypeOK, Fingerprints, Services, Pcs, Commands
<1>2. Planned /\ SteadyInv /\ ForeignInv
  BY BlankFacts DEF Init, Planned, SteadyInv, ForeignInv, Applying, Probing, Recorded
<1> QED
  BY <1>1, <1>2 DEF IInv

\* A command that ends forgets all it knew.
LEMMA ForgetKeeps ==
  ASSUME IInv, Forget, UNCHANGED envVars
  PROVE  IInv'
<1>1. TypeOK'
  BY BlankFacts DEF IInv, Forget, TypeOK, Pcs, Commands
<1>2. Planned' /\ SteadyInv' /\ ForeignInv'
  BY BlankFacts DEF Forget, IInv, Planned, SteadyInv, ForeignInv, Applying, Probing, Recorded
<1> QED
  BY <1>1, <1>2 DEF IInv

\* up and down run while no other command does.
LEMMA OthersKeep ==
  ASSUME IInv, (\E a \in SUBSET Algorithms : Up(a)) \/ CloudPending \/ Down
  PROVE  IInv'
<1>1. pc = "idle" /\ UNCHANGED <<cmdVars, histVars, reach>>
  BY DEF Up, CloudPending, Down
<1>2. fingerprint' \in Fingerprints /\ replaced' \in BOOLEAN /\ (fingerprint' = "no_record" => ~replaced')
  <2>1. ASSUME NEW a \in SUBSET Algorithms, Up(a)
        PROVE  fingerprint' \in Fingerprints /\ replaced' \in BOOLEAN /\ (fingerprint' = "no_record" => ~replaced')
    <3>1. CASE Recorded
      <4>1. fingerprint' = fingerprint
        BY <2>1, <3>1 DEF Up, DecideHostKey
      <4> QED
        BY <2>1, <3>1, <4>1 DEF Up, IInv, TypeOK, Recorded
    <3>2. CASE ~Recorded
      <4>1. fingerprint' \in {"name", "ed25519", "rsa"}
        BY <2>1, <3>2 DEF Up, Observed, Scanned, Preferred, IInv, Planned
      <4>2. ~replaced'
        BY <2>1, <3>2 DEF Up
      <4> QED
        BY <2>1, <3>2, <4>1, <4>2 DEF Up, Fingerprints, Algorithms
    <3> QED
      BY <3>1, <3>2
  <2> QED
    BY <2>1 DEF CloudPending, Down, Fingerprints
<1>3. unit' \in Services \ {"unobserved"}
  BY DEF Up, CloudPending, Down, IInv, TypeOK, Services
<1>4. TypeOK'
  BY <1>1, <1>2, <1>3 DEF IInv, TypeOK
<1>5. Planned' /\ SteadyInv' /\ ForeignInv'
  BY <1>1, <1>2, BlankFacts DEF IInv, Planned, SteadyInv, ForeignInv, Applying, Probing, Recorded
<1> QED
  BY <1>4, <1>5 DEF IInv

\* The world changes the unit, of which `steady` keeps track, and replaces a
\* host, never the other way round.
LEMMA EnvironmentKeeps ==
  ASSUME IInv, Environment
  PROVE  IInv'
<1>1. Change /\ fingerprint' = fingerprint
  BY DEF Environment, ServiceChanges, JobChanges, HostReplaced, ReachChanges,
         ListingChanges, ServerChanges
<1>2. /\ replaced' \in BOOLEAN /\ (replaced => replaced') /\ (~Recorded => ~replaced')
      /\ reach' \in BOOLEAN /\ unit' \in Services \ {"unobserved"}
  <2>1. CASE HostReplaced
    BY <2>1 DEF HostReplaced, IInv, TypeOK, Services
  <2>2. CASE ReachChanges
    <3>1. reach' \in BOOLEAN
      BY <2>2, Zenon DEF ReachChanges
    <3> QED
      BY <2>2, <3>1 DEF ReachChanges, IInv, TypeOK, Planned
  <2>3. CASE ServiceChanges \/ JobChanges \/ ListingChanges \/ ServerChanges
    BY <2>3 DEF ServiceChanges, JobChanges, ListingChanges, ServerChanges, IInv, TypeOK, Planned, Services
  <2> QED
    BY <2>1, <2>2, <2>3 DEF Environment
<1>3. TypeOK'
  BY <1>1, <1>2 DEF Change, IInv, TypeOK
<1>4. Planned' /\ SteadyInv' /\ ForeignInv'
  BY <1>1, <1>2 DEF Change, IInv, Planned, SteadyInv, ForeignInv, Unfinished, Recorded
<1> QED
  BY <1>3, <1>4 DEF IInv

\* A probe learns o and goes on; its call may have failed.
LEMMA LearnKeeps ==
  ASSUME IInv, UNCHANGED envVars, NEW o \in Observations, NEW there \in Pcs, Learn(o, there),
         steady' = steady, foreign' = foreign,
         pc \notin Applying \cup {"idle"}, there \notin Applying \cup {"idle"},
         o.service \in {obs.service, unit, "missing", "unobserved"},
         foreign /\ (there \in Probing \/ o.reachable) => Unfinished
  PROVE  IInv'
<1>1. TypeOK'
  BY DEF Learn, IInv, TypeOK
<1>2. Planned' /\ SteadyInv' /\ ForeignInv'
  BY DEF Learn, IInv, Planned, SteadyInv, ForeignInv, Unfinished, Recorded, Applying, Probing
<1> QED
  BY <1>1, <1>2 DEF IInv

\* Collecting the facts keeps the invariant: the host's key stands before every
\* other question to the host.
LEMMA CollectKeeps ==
  ASSUME IInv, Collect
  PROVE  IInv'
<1> USE DEF NothingLost, Loses, Misreads
<1>1. obs \in Observations /\ pc \in Pcs /\ unit \in Services
  BY DEF IInv, TypeOK
<1>2. CASE ListRunners
  <2>1. PICK o \in Observations :
          Learn(o, "describe") /\ o.service = obs.service /\ o.reachable = obs.reachable
    <3>1. ASSUME NEW g \in Listings, NEW on \in BOOLEAN, NEW b \in BOOLEAN, NEW l \in BOOLEAN
          PROVE  LET o == [obs EXCEPT !.github = g, !.online = on, !.busy = b, !.labels = l]
                 IN  o \in Observations /\ o.service = obs.service /\ o.reachable = obs.reachable
      BY <1>1, ZenonT(60) DEF Observations
    <3>2. ASSUME NEW g \in Listings
          PROVE  LET o == [obs EXCEPT !.github = g]
                 IN  o \in Observations /\ o.service = obs.service /\ o.reachable = obs.reachable
      BY <1>1 DEF Observations
    <3>3. CASE Learn([obs EXCEPT !.github = "error"], "describe")
      BY <3>2, <3>3 DEF Listings
    <3>4. CASE \E g \in Listings, on \in BOOLEAN, b \in BOOLEAN, l \in BOOLEAN :
                 Learn([obs EXCEPT !.github = g, !.online = on, !.busy = b, !.labels = l], "describe")
      BY <3>1, <3>4, ZenonT(60)
    <3> DEFINE g == CASE listing = "absent" -> "absent"
                      [] listing = "several" -> "several"
                      [] OTHER -> "found"
               on == listing \in {"own", "drifted"} /\ job # "offline"
               b  == listing \in {"own", "drifted"} /\ job = "busy"
               l  == listing = "own"
    <3>5. g \in Listings /\ on \in BOOLEAN /\ b \in BOOLEAN /\ l \in BOOLEAN
      BY DEF Listings
    <3>6. \/ Learn([obs EXCEPT !.github = "error"], "describe")
          \/ Learn([obs EXCEPT !.github = g, !.online = on, !.busy = b, !.labels = l], "describe")
      BY <1>2, Zenon DEF ListRunners
    <3> HIDE DEF g, on, b, l
    <3> QED
      BY <3>3, <3>4, <3>5, <3>6
  <2>2. UNCHANGED <<envVars, steady, foreign>> /\ pc = "list_runners"
    BY <1>2 DEF ListRunners
  <2>3. foreign /\ o.reachable => Unfinished
    BY <2>1 DEF IInv, ForeignInv
  <2> QED
    BY <2>1, <2>2, <2>3, LearnKeeps DEF Applying, Probing, Pcs
<1>3. CASE Describe
  <2>1. PICK o \in Observations :
          Learn(o, "host_key") /\ o.service = obs.service /\ o.reachable = obs.reachable
    BY <1>1, <1>3 DEF Describe, Described, Observations
  <2>2. UNCHANGED <<envVars, steady, foreign>> /\ pc = "describe"
    BY <1>3 DEF Describe
  <2>3. foreign /\ o.reachable => Unfinished
    BY <2>1 DEF IInv, ForeignInv
  <2> QED
    BY <2>1, <2>2, <2>3, LearnKeeps DEF Applying, Probing, Pcs
<1>4. ASSUME NEW answered \in SUBSET Algorithms, ProbeHostKey(answered) PROVE IInv'
  <2>1. UNCHANGED <<envVars, steady, foreign>> /\ pc = "host_key"
    BY <1>4 DEF ProbeHostKey
  <2>2. CASE Unfinished
    <3>1. Learn(obs, "reachable")
      BY <1>4, <2>2 DEF ProbeHostKey
    <3> QED
      BY <1>1, <2>1, <2>2, <3>1, LearnKeeps DEF Applying, Probing, Pcs
  <2>3. CASE ~Unfinished
    <3>1. PICK k \in KeyStates, there \in {"reachable", "verdict"} :
            /\ Learn([obs EXCEPT !.key = k], there)
            /\ there = "reachable" => answered # {} /\ Scanned(answered) = fingerprint
      BY <1>4, <2>3 DEF ProbeHostKey, KeyStates
    <3>2. /\ [obs EXCEPT !.key = k] \in Observations
          /\ [obs EXCEPT !.key = k].service = obs.service
          /\ [obs EXCEPT !.key = k].reachable = obs.reachable
      BY <1>1 DEF Observations
    <3>3. there = "reachable" => ~replaced
      BY <3>1 DEF Scanned, IInv, TypeOK, Fingerprints, Algorithms
    <3>4. ~foreign \/ (~obs.reachable /\ there = "verdict")
      BY <2>3, <3>3 DEF IInv, ForeignInv
    <3> QED
      BY <2>1, <3>1, <3>2, <3>4, LearnKeeps DEF Applying, Probing, Pcs
  <2> QED
    BY <2>2, <2>3
<1>5. CASE ProbeSSH \/ ShowService \/ ListUnits \/ ShowResolved
  <2>1. UNCHANGED <<envVars, steady, foreign>> /\ pc \in Probing
    BY <1>5 DEF ProbeSSH, ShowService, ListUnits, ShowResolved, Probing
  <2>2. PICK o \in Observations, there \in Probing \cup {"verdict"} :
          Learn(o, there) /\ o.service \in {obs.service, unit, "missing"}
    <3>1. CASE ProbeSSH
      <4>1. CASE Learn([obs EXCEPT !.reachable = TRUE], "show")
        <5>1. [obs EXCEPT !.reachable = TRUE] \in Observations
              /\ [obs EXCEPT !.reachable = TRUE].service = obs.service
          BY <1>1 DEF Observations
        <5> QED
          BY <4>1, <5>1 DEF Probing
      <4>2. CASE Learn(obs, "verdict")
        BY <1>1, <4>2
      <4> QED
        BY <3>1, <4>1, <4>2 DEF ProbeSSH
    <3>2. CASE ShowService
      BY <1>1, <3>2 DEF ShowService, Observations, Services, Probing
    <3>3. CASE ListUnits \/ ShowResolved
      BY <1>1, <3>3 DEF ListUnits, ShowResolved, Observations, Probing
    <3> QED
      BY <1>5, <3>1, <3>2, <3>3
  <2>3. foreign => Unfinished
    BY <2>1 DEF IInv, ForeignInv
  <2> QED
    BY <2>1, <2>2, <2>3, LearnKeeps DEF Applying, Probing, Pcs
<1> QED
  BY <1>2, <1>3, <1>4, <1>5 DEF Collect

\* Beginning, planning and applying keep it.
LEMMA CommandKeeps ==
  ASSUME IInv,
         \/ \E c \in Commands : Begin(c)
         \/ ProbePaths \/ MakePlan \/ Confirm \/ ResolveUnit \/ RestartService \/ VerifyService
  PROVE  IInv'
<1> USE DEF NothingLost, Loses
<1>1. ASSUME NEW c \in Commands, Begin(c) PROVE IInv'
  <2>1. obs' \in Observations /\ obs'.service = "unobserved" /\ ~obs'.reachable
    BY <1>1 DEF Begin, Blank, Observations, Modes, Listings, KeyStates, Services, Finalizers
  <2>2. TypeOK'
    BY <1>1, <2>1 DEF Begin, IInv, TypeOK, Pcs
  <2>3. Planned' /\ SteadyInv' /\ ForeignInv'
    BY <1>1, <2>1 DEF Begin, IInv, TypeOK, Planned, SteadyInv, ForeignInv, Recorded, Applying, Probing
  <2> QED
    BY <2>2, <2>3 DEF IInv
<1>2. CASE MakePlan
  <2>1. TypeOK'
    BY <1>2 DEF MakePlan, IInv, TypeOK, Pcs
  <2>2. plan' = "restart" => obs.reachable /\ (cmd # "restart_service" => obs.service \in {"inactive", "failed"})
    BY <1>2, RestartPlanned DEF MakePlan
  <2>3. Planned' /\ SteadyInv' /\ ForeignInv'
    BY <1>2, <2>2 DEF MakePlan, IInv, Planned, SteadyInv, ForeignInv, Unfinished, Recorded, Applying, Probing
  <2> QED
    BY <2>1, <2>3 DEF IInv
<1>3. CASE ProbePaths \/ Confirm
  <2>1. TypeOK'
    BY <1>3 DEF ProbePaths, Confirm, IInv, TypeOK, Pcs
  <2>2. Planned' /\ SteadyInv' /\ ForeignInv'
    BY <1>3 DEF ProbePaths, Confirm, IInv, Planned, SteadyInv, ForeignInv, Unfinished, Recorded, Applying, Probing
  <2> QED
    BY <2>1, <2>2 DEF IInv
<1>4. CASE ResolveUnit \/ VerifyService
  <2>1. TypeOK'
    BY <1>4 DEF ResolveUnit, VerifyService, IInv, TypeOK, Pcs
  <2>2. Planned' /\ SteadyInv' /\ ForeignInv'
    BY <1>4 DEF ResolveUnit, VerifyService, IInv, Planned, SteadyInv, ForeignInv, Unfinished, Recorded, Applying, Probing
  <2> QED
    BY <2>1, <2>2 DEF IInv
<1>5. CASE RestartService
  <2>1. TypeOK'
    BY <1>5 DEF RestartService, IInv, TypeOK, Pcs, Services
  <2>2. Planned' /\ SteadyInv' /\ ForeignInv'
    BY <1>5 DEF RestartService, IInv, Planned, SteadyInv, ForeignInv, Unfinished, Recorded, Applying, Probing
  <2> QED
    BY <2>1, <2>2 DEF IInv
<1> QED
  BY <1>1, <1>2, <1>3, <1>4, <1>5

\* Every step keeps the invariant.
LEMMA StepIInv == IInv /\ [Next]_vars => IInv'
<1> SUFFICES ASSUME IInv, [Next]_vars PROVE IInv'
  OBVIOUS
<1>1. CASE Command
  <2>1. CASE ShowStatus \/ ShowFindings \/ Leave \/ WaitOnline
    BY <2>1, ForgetKeeps DEF ShowStatus, ShowFindings, Leave, WaitOnline
  <2> QED
    BY <1>1, <2>1, CollectKeeps, CommandKeeps DEF Command
<1>2. CASE UNCHANGED vars
  BY <1>2 DEF vars, IInv, TypeOK, Planned, SteadyInv, ForeignInv, Unfinished, Recorded
<1> QED
  BY <1>1, <1>2, OthersKeep, EnvironmentKeeps DEF Next

\* The inductive invariant holds.
THEOREM Invariance == Spec => []IInv
BY InitIInv, StepIInv, PTL DEF Spec

\* Type correctness.
THEOREM TypeCorrect == Spec => []TypeOK
<1>1. IInv => TypeOK
  BY DEF IInv
<1> QED
  BY <1>1, Invariance, PTL

\* recover restarts nothing that has been active since it began, unless told to.
THEOREM JobsSpared == Spec => RecoverSparesJobs
<1>1. IInv => (RestartService /\ cmd = "recover" => ~steady)
  BY DEF IInv, Planned, SteadyInv, RestartService, Applying
<1> QED
  BY <1>1, Invariance, PTL DEF RecoverSparesJobs, Spec

\* Nothing is restarted on a host that was replaced before the command began,
\* --restart-service included.
THEOREM OnlyKnownHosts == Spec => KnownHostOnly
<1>1. IInv => (RestartService => ~foreign)
  BY DEF IInv, Planned, ForeignInv, RestartService, Applying
<1> QED
  BY <1>1, Invariance, PTL DEF KnownHostOnly, Spec

------------------------------------------------------------------------------
(* What the facts collected still say of the world *)

Concluding  == {"verdict", "confirm"}
AfterGitHub == {"describe", "host_key"} \cup Probing \cup Concluding
AfterDescribe == {"host_key"} \cup Probing \cup Concluding
Asking == {"list_runners", "describe", "host_key", "reachable"}

\* Whatever changed meanwhile: what was read of the record, that no question
\* to the host comes before the answer it needs, and that a fact that is
\* missing at the end is missing because of a call that failed.
Kept ==
  /\ server \in {"byo", "ok", "attention"}
  /\ pc # "idle" =>
       /\ obs.saved /\ obs.mode = "persistent"
       /\ obs.cloud = (server # "byo")
       /\ obs.provider = "attention" => obs.cloud
  /\ plan = "manual" =>
       pc = "confirm" /\ obs.github # "error" /\ NeedsReregistration(obs)
  /\ pc \in Asking \ {"reachable"} => obs.key = "not_checked"
  /\ pc \in Asking => ~obs.reachable
  /\ pc \in Asking \cup {"show"} => obs.service = "unobserved"
  /\ pc \in {"list_units", "show_resolved"} => obs.service = "missing" /\ ~Unfinished
  /\ pc \in {"show", "list_units", "show_resolved"} => obs.reachable
  /\ pc \in Concluding /\ obs.reachable =>
       /\ obs.service = "unobserved" => "show" \in lost
       /\ Unfinished => obs.service = "missing"
  /\ pc \in Concluding /\ ~obs.reachable =>
       /\ obs.service = "unobserved"
       /\ obs.key = "mismatch" \/ {"ssh", "scan"} \cap lost # {}

\* Each of the rest holds while nothing changed: what GitHub answered,
GitHubSeen ==
  pc \in AfterGitHub /\ obs.github # "error" =>
    /\ obs.github \in {"absent", "several", "found"}
    /\ obs.github = "absent" <=> listing = "absent"
    /\ obs.github = "several" <=> listing = "several"
    /\ obs.online => job # "offline"
    /\ obs.busy => job = "busy"
    /\ obs.labels = (listing = "own")

\* the provider,
ProviderSeen ==
  pc \in AfterDescribe =>
    IF obs.provider = "attention" THEN server = "attention" \/ "describe" \in misread
                                  ELSE server # "attention"

\* the host of its key,
KeySeen ==
  /\ pc \in Probing \cup Concluding /\ obs.key = "mismatch" => ~HostMatches \/ "scan" \in misread
  /\ pc \in Probing \/ (pc \in Concluding /\ obs.reachable) => Unfinished \/ ~replaced

\* and of its service and its directories.
HostSeen ==
  /\ pc \in Probing \cup Concluding /\ obs.reachable => reach
  /\ pc = "show_resolved" => unit # "missing"
  /\ pc \in Concluding =>
       /\ obs.service \in {"unobserved", "missing", unit}
       /\ obs.service = "missing" => unit = "missing" \/ Unfinished \/ "units" \in misread
  /\ pc = "confirm" /\ cmd = "doctor" /\ paths = "bad" => unit = "missing"

Seen == quiet => GitHubSeen /\ ProviderSeen /\ KeySeen /\ HostSeen

Facts == Kept /\ Seen

\* Where nothing is collected nothing is claimed of the world.
LEMMA NothingSeen ==
  ASSUME pc' \notin {"describe", "host_key"} \cup Probing \cup Concluding
  PROVE  Seen'
BY DEF Seen, GitHubSeen, ProviderSeen, KeySeen, HostSeen, AfterGitHub, AfterDescribe, Probing, Concluding

\* A command that ends claims nothing more.
LEMMA ForgetFacts ==
  ASSUME Kept, Forget, UNCHANGED envVars
  PROVE  Facts'
<1>1. Seen'
  BY NothingSeen DEF Forget, Probing, Concluding
<1>2. Kept'
  BY DEF Kept, Forget, Asking, Concluding
<1> QED
  BY <1>1, <1>2 DEF Facts

\* Between commands up and down may change everything.
LEMMA OthersFacts ==
  ASSUME IInv, Kept, (\E a \in SUBSET Algorithms : Up(a)) \/ CloudPending \/ Down
  PROVE  Facts'
<1>1. pc = "idle" /\ UNCHANGED <<cmdVars, histVars, server>>
  BY DEF Up, CloudPending, Down
<1>2. Seen'
  BY <1>1, NothingSeen DEF Probing, Concluding
<1>3. plan # "manual"
  BY <1>1 DEF IInv, Planned
<1>4. Kept'
  BY <1>1, <1>3 DEF Kept, Asking, Concluding
<1> QED
  BY <1>2, <1>4 DEF Facts

\* A change while a command runs takes its facts back, except for the record.
LEMMA EnvironmentFacts ==
  ASSUME Kept, Environment
  PROVE  Facts'
<1>1. Change /\ fingerprint' = fingerprint
  BY DEF Environment, ServiceChanges, JobChanges, HostReplaced, ReachChanges,
         ListingChanges, ServerChanges
<1>2. server' \in {"byo", "ok", "attention"} /\ (server' = "byo" <=> server = "byo")
  BY DEF Environment, ServiceChanges, JobChanges, HostReplaced, ReachChanges,
         ListingChanges, ServerChanges, Kept
<1>3. CASE pc = "idle"
  <2>1. Seen'
    BY <1>1, <1>3, NothingSeen DEF Change, Probing, Concluding
  <2>2. Kept'
    BY <1>1, <1>2, <1>3 DEF Change, Kept, Asking, Concluding
  <2> QED
    BY <2>1, <2>2 DEF Facts
<1>4. CASE pc # "idle"
  <2>1. Seen'
    BY <1>1, <1>4 DEF Change, Seen
  <2>2. Kept'
    BY <1>1, <1>2 DEF Change, Kept, Unfinished
  <2> QED
    BY <2>1, <2>2 DEF Facts
<1> QED
  BY <1>3, <1>4

\* GitHub's answer.
LEMMA ListRunnersFacts ==
  ASSUME IInv, Facts, ListRunners
  PROVE  Facts'
<1>1. obs \in Observations /\ pc = "list_runners" /\ pc' = "describe" /\ UNCHANGED <<envVars, plan, cmd>>
  BY DEF ListRunners, Learn, IInv, TypeOK
<1>2. /\ obs'.saved = obs.saved /\ obs'.mode = obs.mode /\ obs'.cloud = obs.cloud
      /\ obs'.provider = obs.provider /\ obs'.reachable = obs.reachable /\ obs'.service = obs.service
      /\ obs'.key = obs.key
  BY <1>1 DEF ListRunners, Learn, Observations
<1>3. plan # "manual"
  BY <1>1 DEF Facts, Kept
<1>4. Kept'
  BY <1>1, <1>2, <1>3 DEF Facts, Kept, Asking, Concluding, Unfinished
<1>5. \/ obs'.github = "error"
      \/ /\ obs'.github = CASE listing = "absent" -> "absent"
                           [] listing = "several" -> "several"
                           [] OTHER -> "found"
         /\ obs'.online => job # "offline"
         /\ obs'.busy => job = "busy"
         /\ obs'.labels = (listing = "own")
  BY <1>1 DEF ListRunners, Learn, Observations
<1>6. GitHubSeen'
  BY <1>1, <1>5 DEF GitHubSeen
<1>7. ProviderSeen' /\ KeySeen' /\ HostSeen'
  BY <1>1 DEF ProviderSeen, KeySeen, HostSeen, AfterDescribe, Probing, Concluding
<1> QED
  BY <1>4, <1>6, <1>7 DEF Facts, Seen

\* The provider's answer, or its failure.
LEMMA DescribeFacts ==
  ASSUME IInv, Facts, Describe
  PROVE  Facts'
<1>1. obs \in Observations /\ pc = "describe" /\ pc' = "host_key" /\ UNCHANGED <<envVars, plan, cmd, quiet>>
  BY DEF Describe, Learn, IInv, TypeOK, NothingLost, Misreads
<1>2. /\ obs'.saved = obs.saved /\ obs'.mode = obs.mode /\ obs'.cloud = obs.cloud
      /\ obs'.github = obs.github /\ obs'.online = obs.online /\ obs'.busy = obs.busy
      /\ obs'.labels = obs.labels /\ obs'.reachable = obs.reachable /\ obs'.service = obs.service
      /\ obs'.key = obs.key
  BY <1>1 DEF Describe, Learn, Observations
<1>3. IF server = "byo" THEN obs'.provider = "byo"
      ELSE \E d \in Described : /\ obs'.provider = IF d = "ok" THEN "ok" ELSE "attention"
                                /\ d = "error" => "describe" \in misread'
  BY <1>1 DEF Describe, Learn, Observations, Misreads, NothingLost
<1>4. server \in {"byo", "ok", "attention"} /\ plan # "manual" /\ obs.cloud = (server # "byo")
  BY <1>1 DEF Facts, Kept
<1>5. /\ obs'.provider = "attention" => server = "attention" \/ "describe" \in misread'
      /\ obs'.provider # "attention" => server # "attention"
      /\ obs'.provider = "attention" => server # "byo"
  BY <1>3, <1>4 DEF Described
<1>6. Kept'
  BY <1>1, <1>2, <1>4, <1>5 DEF Facts, Kept, Asking, Concluding, Unfinished
<1>7. GitHubSeen \/ ~quiet
  BY DEF Facts, Seen
<1>8. GitHubSeen' \/ ~quiet
  BY <1>1, <1>2, <1>7 DEF GitHubSeen, AfterGitHub
<1>9. ProviderSeen'
  BY <1>1, <1>5 DEF ProviderSeen
<1>10. KeySeen' /\ HostSeen'
  BY <1>1 DEF KeySeen, HostSeen, Probing, Concluding
<1> QED
  BY <1>1, <1>6, <1>8, <1>9, <1>10 DEF Facts, Seen

\* A step that asks the host learns nothing about GitHub or the provider.
LEMMA HostStepKeepsRest ==
  ASSUME Seen, UNCHANGED <<envVars, quiet>>, misread \subseteq misread',
         pc \in {"host_key"} \cup Probing, pc' \in Probing \cup Concluding,
         /\ obs'.github = obs.github /\ obs'.online = obs.online /\ obs'.busy = obs.busy
         /\ obs'.labels = obs.labels /\ obs'.provider = obs.provider
  PROVE  quiet' => GitHubSeen' /\ ProviderSeen'
<1>1. quiet => GitHubSeen /\ ProviderSeen
  BY DEF Seen
<1>2. quiet => GitHubSeen'
  BY <1>1 DEF GitHubSeen, AfterGitHub
<1>3. quiet => ProviderSeen'
  BY <1>1 DEF ProviderSeen, AfterDescribe
<1> QED
  BY <1>2, <1>3

\* The host key: only that of the recorded host is taken for it, and a whole
\* scan of that host is not taken for another's.
LEMMA ProbeHostKeyFacts ==
  ASSUME IInv, Facts, NEW answered \in SUBSET Algorithms, ProbeHostKey(answered)
  PROVE  Facts'
<1>1. /\ obs \in Observations /\ pc = "host_key" /\ UNCHANGED <<envVars, plan, cmd, quiet>>
      /\ pc' \in {"reachable", "verdict"} /\ misread \subseteq misread' /\ lost \subseteq lost'
  BY DEF ProbeHostKey, Learn, IInv, TypeOK, NothingLost, Misreads, Loses
<1>2. /\ obs'.saved = obs.saved /\ obs'.mode = obs.mode /\ obs'.cloud = obs.cloud
      /\ obs'.github = obs.github /\ obs'.online = obs.online /\ obs'.busy = obs.busy
      /\ obs'.labels = obs.labels /\ obs'.reachable = obs.reachable /\ obs'.service = obs.service
      /\ obs'.provider = obs.provider
  BY <1>1 DEF ProbeHostKey, Learn, Observations
<1>3. ~obs.reachable /\ obs.service = "unobserved" /\ plan # "manual" /\ obs.key = "not_checked"
  BY <1>1 DEF Facts, Kept, Asking
<1>4. pc' = "reachable" => Unfinished \/ ~replaced
  <2>1. Scanned(answered) = fingerprint /\ answered # {} => ~replaced
    BY DEF Scanned, IInv, TypeOK, Fingerprints, Algorithms
  <2> QED
    BY <2>1 DEF ProbeHostKey, Learn
<1>5. pc' = "verdict" => obs'.key = "mismatch" \/ "scan" \in lost'
  BY <1>1 DEF ProbeHostKey, Learn, Observations, Loses
<1>6. obs'.key = "mismatch" => ~HostMatches \/ "scan" \in misread'
  <2>1. ASSUME HostMatches, answered = Algorithms PROVE Scanned(answered) = fingerprint
    BY <2>1 DEF HostMatches, Scanned, Algorithms
  <2> QED
    BY <1>1, <1>3, <2>1 DEF ProbeHostKey, Learn, Observations, Misreads
<1>7. Kept'
  BY <1>1, <1>2, <1>3, <1>5 DEF Facts, Kept, Asking, Concluding, Unfinished
<1>8. KeySeen' /\ HostSeen'
  <2>1. HostMatches' = HostMatches
    BY <1>1 DEF HostMatches, Recorded
  <2> QED
    BY <1>1, <1>2, <1>3, <1>4, <1>6, <2>1 DEF KeySeen, HostSeen, Probing, Concluding, Unfinished
<1>9. quiet' => GitHubSeen' /\ ProviderSeen'
  BY <1>1, <1>2, HostStepKeepsRest DEF Facts, Probing, Concluding
<1> QED
  BY <1>7, <1>8, <1>9 DEF Facts, Seen

\* Whether the host answers.
LEMMA ProbeSSHFacts ==
  ASSUME IInv, Facts, ProbeSSH
  PROVE  Facts'
<1>1. /\ obs \in Observations /\ pc = "reachable" /\ UNCHANGED <<envVars, plan, cmd, quiet, misread>>
      /\ \/ pc' = "show" /\ obs'.reachable /\ reach /\ lost' = lost
         \/ pc' = "verdict" /\ obs'.reachable = obs.reachable /\ "ssh" \in lost'
  BY DEF ProbeSSH, Learn, IInv, TypeOK, NothingLost, Loses, Observations
<1>2. /\ obs'.saved = obs.saved /\ obs'.mode = obs.mode /\ obs'.cloud = obs.cloud
      /\ obs'.github = obs.github /\ obs'.online = obs.online /\ obs'.busy = obs.busy
      /\ obs'.labels = obs.labels /\ obs'.service = obs.service
      /\ obs'.provider = obs.provider /\ obs'.key = obs.key
  BY <1>1 DEF ProbeSSH, Learn, Observations
<1>3. ~obs.reachable /\ obs.service = "unobserved" /\ plan # "manual"
  BY <1>1 DEF Facts, Kept, Asking
<1>4. Kept'
  BY <1>1, <1>2, <1>3 DEF Facts, Kept, Asking, Concluding, Unfinished
<1>5. quiet' => GitHubSeen' /\ ProviderSeen'
  BY <1>1, <1>2, HostStepKeepsRest DEF Facts, Probing, Concluding
<1>6. quiet' => KeySeen' /\ HostSeen'
  <2>1. HostMatches' = HostMatches /\ (quiet => KeySeen)
    BY <1>1 DEF HostMatches, Recorded, Facts, Seen
  <2> QED
    BY <1>1, <1>2, <1>3, <2>1 DEF KeySeen, HostSeen, Probing, Concluding, Unfinished
<1> QED
  BY <1>4, <1>5, <1>6 DEF Facts, Seen

\* The service, asked for by its saved name, then searched for, then by its
\* real name: it is missing only where it was not found.
LEMMA ServiceFacts ==
  ASSUME IInv, Facts, ShowService \/ ListUnits \/ ShowResolved
  PROVE  Facts'
<1>1. /\ obs \in Observations /\ pc \in {"show", "list_units", "show_resolved"}
      /\ UNCHANGED <<envVars, plan, cmd, quiet>> /\ misread \subseteq misread' /\ lost \subseteq lost'
      /\ pc' \in Probing \cup Concluding
  BY DEF ShowService, ListUnits, ShowResolved, Learn, IInv, TypeOK, NothingLost, Loses, Misreads,
         Probing, Concluding
<1>2. /\ obs'.saved = obs.saved /\ obs'.mode = obs.mode /\ obs'.cloud = obs.cloud
      /\ obs'.github = obs.github /\ obs'.online = obs.online /\ obs'.busy = obs.busy
      /\ obs'.labels = obs.labels /\ obs'.reachable = obs.reachable
      /\ obs'.provider = obs.provider /\ obs'.key = obs.key
  BY <1>1 DEF ShowService, ListUnits, ShowResolved, Learn, Observations
<1>3. obs.reachable /\ plan # "manual" /\ (quiet => KeySeen /\ HostSeen)
  BY <1>1 DEF Facts, Kept, Seen
<1>4. \/ pc' = "list_units" /\ ~Unfinished /\ obs'.service = "missing"
      \/ pc' = "show_resolved" /\ ~Unfinished /\ obs'.service = "missing" /\ unit # "missing"
      \/ /\ pc' = "verdict"
         /\ \/ obs'.service = "missing" /\ (unit = "missing" \/ Unfinished \/ "units" \in misread')
            \/ obs'.service = unit /\ unit # "unobserved" /\ ~Unfinished
            \/ obs'.service = "unobserved" /\ "show" \in lost' /\ ~Unfinished
  <2>1. CASE ShowService
    <3>1. pc = "show" /\ obs.service = "unobserved"
      BY <2>1 DEF ShowService, Facts, Kept
    <3> QED
      BY <1>1, <2>1, <3>1 DEF ShowService, Learn, Observations, NothingLost, Loses
  <2>2. CASE ListUnits
    <3>1. pc = "list_units" /\ obs.service = "missing" /\ ~Unfinished
      BY <2>2 DEF ListUnits, Facts, Kept
    <3> QED
      BY <1>1, <2>2, <3>1 DEF ListUnits, Learn, Observations, NothingLost, Misreads
  <2>3. CASE ShowResolved
    <3>1. pc = "show_resolved" /\ obs.service = "missing" /\ ~Unfinished /\ unit # "unobserved"
      BY <2>3 DEF ShowResolved, Facts, Kept, IInv, TypeOK
    <3> QED
      BY <1>1, <2>3, <3>1 DEF ShowResolved, Learn, Observations, NothingLost, Misreads
  <2> QED
    BY <2>1, <2>2, <2>3
<1>5. Kept'
  BY <1>1, <1>2, <1>3, <1>4 DEF Facts, Kept, Asking, Concluding, Unfinished
<1>6. quiet' => GitHubSeen' /\ ProviderSeen'
  BY <1>1, <1>2, HostStepKeepsRest DEF Facts, Probing, Concluding
<1>7. quiet' => KeySeen'
  <2>1. HostMatches' = HostMatches
    BY <1>1 DEF HostMatches, Recorded
  <2> QED
    BY <1>1, <1>2, <1>3, <2>1 DEF KeySeen, Probing, Concluding, Unfinished
<1>8. quiet' => HostSeen'
  BY <1>1, <1>2, <1>3, <1>4 DEF HostSeen, Probing, Concluding, Unfinished
<1> QED
  BY <1>5, <1>6, <1>7, <1>8 DEF Facts, Seen

\* A command begins with no facts, concludes from those it has, and applies
\* its plan without them.
LEMMA CommandFacts ==
  ASSUME IInv, Facts,
         \/ \E c \in Commands : Begin(c)
         \/ ProbePaths \/ MakePlan \/ Confirm \/ ResolveUnit \/ RestartService \/ VerifyService
  PROVE  Facts'
<1>1. ASSUME NEW c \in Commands, Begin(c) PROVE Facts'
  <2>1. plan # "manual" /\ server \in {"byo", "ok", "attention"}
    BY <1>1 DEF Begin, Facts, Kept
  <2>2. Kept'
    BY <1>1, <2>1 DEF Begin, Kept, Blank, Asking, Concluding
  <2>3. Seen'
    BY <1>1, NothingSeen DEF Begin, Probing, Concluding
  <2> QED
    BY <2>2, <2>3 DEF Facts
<1>2. CASE ProbePaths \/ MakePlan
  <2>1. /\ pc = "verdict" /\ pc' = "confirm" /\ UNCHANGED <<obs, cmd, envVars, quiet, misread>>
        /\ lost \subseteq lost'
    BY <1>2 DEF ProbePaths, MakePlan, NothingLost, Loses
  <2>2. plan' = "manual" => obs.github # "error" /\ NeedsReregistration(obs)
    <3>1. CASE MakePlan
      BY <3>1 DEF MakePlan, BuildRecoveryPlan
    <3>2. CASE ProbePaths
      BY <3>2 DEF ProbePaths, Facts, Kept
    <3> QED
      BY <1>2, <3>1, <3>2
  <2>3. Kept'
    BY <2>1, <2>2 DEF Facts, Kept, Asking, Concluding, Unfinished
  <2>4. cmd = "doctor" /\ paths' = "bad" => unit = "missing"
    BY <1>2 DEF ProbePaths, MakePlan
  <2>5. HostMatches' = HostMatches /\ (quiet => GitHubSeen /\ ProviderSeen /\ KeySeen /\ HostSeen)
    BY <2>1 DEF HostMatches, Recorded, Facts, Seen
  <2>6. quiet' => GitHubSeen' /\ ProviderSeen'
    BY <2>1, <2>5 DEF GitHubSeen, ProviderSeen, AfterGitHub, AfterDescribe, Concluding
  <2>7. quiet' => KeySeen' /\ HostSeen'
    BY <2>1, <2>4, <2>5 DEF KeySeen, HostSeen, Probing, Concluding, Unfinished
  <2> QED
    BY <2>3, <2>6, <2>7 DEF Facts, Seen
<1>3. CASE Confirm \/ ResolveUnit \/ RestartService \/ VerifyService
  <2>1. pc' \in Applying /\ pc \in {"confirm"} \cup Applying /\ plan' = plan /\ plan = "restart"
        /\ UNCHANGED <<obs, server>>
    BY <1>3 DEF Confirm, ResolveUnit, RestartService, VerifyService, Applying, IInv, Planned
  <2>2. Kept'
    BY <2>1 DEF Facts, Kept, Asking, Concluding, Applying
  <2>3. Seen'
    BY <2>1, NothingSeen DEF Applying, Probing, Concluding
  <2> QED
    BY <2>2, <2>3 DEF Facts
<1> QED
  BY <1>1, <1>2, <1>3

\* Every step keeps the facts true.
LEMMA FactsStep == IInv /\ Facts /\ [Next]_vars => Facts'
<1> SUFFICES ASSUME IInv, Facts, [Next]_vars PROVE Facts'
  OBVIOUS
<1>1. CASE Command
  <2>1. CASE ShowStatus \/ ShowFindings \/ Leave \/ WaitOnline
    BY <2>1, ForgetFacts DEF ShowStatus, ShowFindings, Leave, WaitOnline, Facts
  <2>2. CASE Collect
    BY <2>2, ListRunnersFacts, DescribeFacts, ProbeHostKeyFacts, ProbeSSHFacts, ServiceFacts DEF Collect
  <2> QED
    BY <1>1, <2>1, <2>2, CommandFacts DEF Command
<1>2. CASE UNCHANGED vars
  BY <1>2 DEF vars, Facts, Kept, Seen, GitHubSeen, ProviderSeen, KeySeen, HostSeen,
              HostMatches, Recorded, Unfinished
<1> QED
  BY <1>1, <1>2, OthersFacts, EnvironmentFacts DEF Next, Facts

\* While nothing changes, what a command knows is true, for any order of
\* failed calls.
THEOREM FactsInvariance == Spec => []Facts
<1>1. Init => Facts
  <2> SUFFICES ASSUME Init PROVE Facts
    OBVIOUS
  <2>1. Kept
    BY DEF Init, Kept, Asking, Concluding
  <2>2. Seen
    BY DEF Init, Seen, GitHubSeen, ProviderSeen, KeySeen, HostSeen, AfterGitHub, AfterDescribe,
           Probing, Concluding
  <2> QED
    BY <2>1, <2>2 DEF Facts
<1> QED
  BY <1>1, FactsStep, Invariance, PTL DEF Spec

------------------------------------------------------------------------------
(* What the commands say and advise *)

\* "ready" and "busy" are true when they are said, and a healthy runner is not
\* called broken or in need of attention, whichever calls failed.
THEOREM VerdictsHold == Spec => []VerdictTrue
<1>1. ASSUME IInv, Facts PROVE VerdictTrue
  <2> SUFFICES ASSUME Judged
      PROVE  /\ Classify(obs).health = "ready" => Healthy
             /\ Classify(obs).health = "busy" => listing = "own" /\ job = "busy" /\ ~replaced
             /\ misread = {} /\ HostMatches /\ Healthy
                  => Classify(obs).health \in {"ready", "busy", "unknown"}
    BY DEF VerdictTrue
  <2> USE <1>1
  <2>1. /\ pc = "verdict" /\ obs.mode = "persistent" /\ server \in {"byo", "ok", "attention"}
        /\ GitHubSeen /\ ProviderSeen /\ KeySeen /\ HostSeen
        /\ obs \in Observations /\ obs.saved
    BY DEF Judged, Facts, Kept, Seen, IInv, TypeOK
  <2>2. ASSUME Classify(obs).health \in {"ready", "busy"}
        PROVE  /\ listing = "own" /\ reach /\ ~replaced /\ server # "attention"
               /\ Classify(obs).health = "busy" => job = "busy"
               /\ Classify(obs).health = "ready" => job # "offline" /\ unit = "active"
    <3>1. /\ obs.github = "found" /\ obs.labels /\ obs.reachable /\ obs.provider # "attention"
          /\ obs.service # "missing"
          /\ Classify(obs).health = "busy" => obs.busy
          /\ Classify(obs).health = "ready" => obs.online /\ obs.service = "active"
      BY <2>1, <2>2, GoodGrounds
    <3>2. listing = "own" /\ (obs.busy => job = "busy") /\ (obs.online => job # "offline")
      BY <2>1, <3>1 DEF GitHubSeen, AfterGitHub, Concluding
    <3>3. server # "attention"
      BY <2>1, <3>1 DEF ProviderSeen, AfterDescribe, Concluding
    <3>4. reach /\ (obs.service = "active" => unit = "active")
      BY <2>1, <3>1 DEF HostSeen, Concluding
    <3>5. ~Unfinished
      BY <2>1, <3>1 DEF Facts, Kept, Concluding
    <3>6. ~replaced
      BY <2>1, <3>1, <3>5 DEF KeySeen, Concluding
    <3> QED
      BY <3>1, <3>2, <3>3, <3>4, <3>6
  <2>3. ASSUME misread = {}, HostMatches, Healthy
        PROVE  Classify(obs).health \in {"ready", "busy", "unknown"}
    <3>1. /\ unit = "active" /\ listing = "own" /\ server # "attention" /\ ~Unfinished
      BY <2>3 DEF Healthy, HostMatches, Unfinished, Preferred, Algorithms
    <3>2. obs.github \in {"error", "found"} /\ (obs.github = "found" => obs.labels)
      BY <2>1, <3>1 DEF GitHubSeen, AfterGitHub, Concluding
    <3>3. obs.provider # "attention"
      BY <2>1, <2>3, <3>1 DEF ProviderSeen, AfterDescribe, Concluding
    <3>4. obs.key # "mismatch"
      BY <2>1, <2>3 DEF KeySeen, Concluding
    <3>5. obs.service \in {"unobserved", "active"}
      BY <2>1, <2>3, <3>1 DEF HostSeen, Concluding
    <3> QED
      BY <2>1, <3>2, <3>3, <3>4, <3>5, BadGrounds
  <2> QED
    BY <2>2, <2>3 DEF Healthy
<1> QED
  BY <1>1, Invariance, FactsInvariance, PTL

\* A failed call alone does not send the user of a healthy runner to install it
\* again.
THEOREM ManualIsNeeded == Spec => []ManualOnlyWhenNeeded
<1>1. ASSUME Facts PROVE ManualOnlyWhenNeeded
  <2> SUFFICES ASSUME pc = "confirm", quiet, misread = {},
                      \/ plan = "manual"
                      \/ /\ cmd = "doctor"
                         /\ \E f \in DoctorFindings(obs, paths) : f.remedy = "manual"
               PROVE  unit = "missing" \/ listing # "own" \/ Unfinished
    BY DEF ManualOnlyWhenNeeded
  <2>1. GitHubSeen /\ HostSeen
    BY <1>1 DEF Facts, Seen
  <2>2. \/ obs.service = "missing"
        \/ obs.github # "error" /\ (obs.github # "found" \/ ~obs.labels)
        \/ cmd = "doctor" /\ paths = "bad"
    <3>1. CASE plan = "manual"
      BY <1>1, <3>1 DEF Facts, Kept, NeedsReregistration, ServiceMissing
    <3>2. CASE cmd = "doctor" /\ \E f \in DoctorFindings(obs, paths) : f.remedy = "manual"
      <4>1. PICK f \in DoctorFindings(obs, paths) : f.remedy = "manual"
        BY <3>2
      <4>2. Cleanup(obs) # "manual"
        BY DEF Cleanup
      <4> QED
        BY <3>2, <4>1, <4>2, RemedyGrounds
    <3> QED
      BY <3>1, <3>2
  <2>3. obs.service = "missing" => unit = "missing" \/ Unfinished
    BY <2>1 DEF HostSeen, Concluding
  <2>4. obs.github # "error" /\ (obs.github # "found" \/ ~obs.labels) => listing # "own"
    BY <2>1 DEF GitHubSeen, AfterGitHub, Concluding
  <2>5. cmd = "doctor" /\ paths = "bad" => unit = "missing"
    BY <2>1 DEF HostSeen
  <2> QED
    BY <2>2, <2>3, <2>4, <2>5
<1> QED
  BY <1>1, FactsInvariance, PTL

\* The command status sends a user to has something to offer for the facts it
\* saw, changed or not, and the cleanup it names fits the record.
THEOREM AdviceIsUsable == Spec => []AdviceFits
<1>1. ASSUME IInv, Facts PROVE AdviceFits
  <2> DEFINE advice == Classify(obs).advice
  <2> SUFFICES ASSUME pc = "verdict"
      PROVE  /\ advice = "recover"
                  => BuildRecoveryPlan(obs, FALSE) \in {"restart", "manual", "unreachable"}
             /\ advice = "doctor" /\ "show" \notin lost => DoctorFindings(obs, "ok") # {}
             /\ "down" \in {advice} \cup {f.remedy : f \in DoctorFindings(obs, "ok")} => ~obs.cloud
             /\ "destroy" \in {advice} \cup {f.remedy : f \in DoctorFindings(obs, "ok")} => obs.cloud
    BY DEF AdviceFits
  <2>1. /\ obs.mode = "persistent" /\ obs.saved /\ obs.service \in Services /\ obs.cloud \in BOOLEAN
        /\ obs.provider = "attention" => obs.cloud
        /\ obs.reachable /\ obs.service = "unobserved" => "show" \in lost
    BY <1>1 DEF Facts, Kept, Concluding, IInv, TypeOK, Observations
  <2>2. ASSUME NEW f \in DoctorFindings(obs, "ok")
        PROVE  (f.remedy = "down" => ~obs.cloud) /\ (f.remedy = "destroy" => obs.cloud)
    BY <2>1, RemedyGrounds DEF Cleanup
  <2>3. (advice = "down" => ~obs.cloud) /\ (advice = "destroy" => obs.cloud)
    BY <2>1, CleanupAdvised
  <2>4. advice = "recover" => BuildRecoveryPlan(obs, FALSE) \in {"restart", "manual", "unreachable"}
    BY <2>1, RecoverAdvised
  <2>5. advice = "doctor" /\ "show" \notin lost => DoctorFindings(obs, "ok") # {}
    BY <2>1, DoctorAdvised
  <2> HIDE DEF advice
  <2> QED
    BY <2>2, <2>3, <2>4, <2>5
<1> QED
  BY <1>1, Invariance, FactsInvariance, PTL

\* A stopped service on a host that answers is restarted, also when GitHub or
\* the provider does not answer.
THEOREM PlansHeal == Spec => []PlanHeals
<1>1. ASSUME Facts PROVE PlanHeals
  <2> SUFFICES ASSUME Judged, misread \subseteq {"describe"}, lost \subseteq {"github"},
                      HostMatches, reach, unit \in {"inactive", "failed"}
               PROVE  BuildRecoveryPlan(obs, FALSE) = "restart"
    BY DEF PlanHeals
  <2>1. pc = "verdict" /\ KeySeen /\ HostSeen /\ ~Unfinished
    BY <1>1 DEF Judged, Facts, Seen, HostMatches, Unfinished, Preferred, Algorithms
  <2>2. obs.key # "mismatch"
    BY <2>1 DEF KeySeen, Concluding
  <2>3. obs.reachable /\ obs.service # "unobserved"
    BY <1>1, <2>1, <2>2 DEF Facts, Kept, Concluding
  <2>4. obs.service = unit
    BY <2>1, <2>3 DEF HostSeen, Concluding
  <2> QED
    BY <2>2, <2>3, <2>4 DEF BuildRecoveryPlan, RestartRecommended, ServiceMissing, ServiceFailed
<1> QED
  BY <1>1, FactsInvariance, PTL
==============================================================================
