--------------------------- MODULE BootstrapProofs ---------------------------
(***************************************************************************)
(* Proofs about Bootstrap, for any set of repositories that share a host:  *)
(* the image marker stands for what it says, and a successful up leaves a  *)
(* verified runner, whatever else was interrupted or runs beside it.       *)
(***************************************************************************)
EXTENDS Bootstrap, TLAPS

\* The positions of an `up` behind which a step lies.
Unpacking  == {"check_cache", "open_cache", "fill_cache", "sum_cache", "untar_cache"}
Installing == {"configure_runner", "install_service", "verify_service", "done"}
Unpacks    == {"fetch_package", "sum_package"} \cup Installing
Prepared   == Unpacking \cup Unpacks

\* What the steps before a position have achieved.  Nothing of it is undone by
\* other repositories: the host only gains, and each has its own directory.
Progress ==
  \A r \in Repos :
    /\ pc[r] \notin {"idle", "fix_dependencies"} => "packages" \in host
    /\ pc[r] \in Prepared \cup {"setup_runner_image"} => "user" \in host
    /\ pc[r] = "setup_runner_image" => ubuntu
    /\ pc[r] \in Prepared /\ ubuntu => marker = CurrentMarker
    /\ pc[r] \in Unpacks => "all" \in tree[r]
    /\ pc[r] \in Installing => pkg[r] = "whole"
    /\ pc[r] \in {"install_service", "verify_service", "done"} => r \in creds
    /\ pc[r] = "done" => r \in serving

IInv == TypeOK /\ MarkerMeansReady /\ Progress

USE DEF CurrentMarker

\* The initial states satisfy it.
LEMMA InitIInv == Init => IInv
<1> SUFFICES ASSUME Init PROVE IInv
  OBVIOUS
<1>1. TypeOK
  BY DEF Init, TypeOK, Facts, Markers, Copies, Trees, Pcs
<1>2. MarkerMeansReady
  BY DEF Init, MarkerMeansReady
<1>3. Progress
  BY DEF Init, Progress, Prepared, Unpacking, Unpacks, Installing
<1> QED
  BY <1>1, <1>2, <1>3 DEF IInv

\* Where the step after the preparation's leads.
LEMMA AfterFacts ==
  /\ After("fix_dependencies") = "create_runner_user"
  /\ After("create_runner_user") = (IF ubuntu THEN "setup_runner_image" ELSE "check_cache")
  /\ After("setup_runner_image") = "check_cache"
BY DEF After

\* Unpacking leaves a tree, and never takes a member away.
LEMMA UnpackedFacts ==
  ASSUME NEW old \in Trees, NEW copy
  PROVE  /\ Unpacked(old, copy) \in Trees /\ "all" \in Unpacked(old, copy)
         /\ \A t \in Broken(old) : t \in Trees /\ ("all" \in old => "all" \in t)
BY DEF Unpacked, Broken, Trees

\* The steps on the host keep the invariant.
LEMMA HostStep ==
  ASSUME IInv, NEW r \in Repos,
         UpBegin(r) \/ FixDependencies(r) \/ CreateRunnerUser(r) \/ SetupRunnerImage(r)
  PROVE  IInv'
<1> USE DEF IInv, hostVars, diskVars, agentVars, Goto, Fail
<1>1. CASE UpBegin(r)
  <2>1. TypeOK' /\ MarkerMeansReady'
    BY <1>1 DEF UpBegin, TypeOK, MarkerMeansReady, Pcs
  <2>2. Progress'
    BY <1>1 DEF UpBegin, TypeOK, Progress, Prepared, Unpacking, Unpacks, Installing
  <2> QED
    BY <2>1, <2>2
<1>2. CASE FixDependencies(r)
  <2>1. TypeOK' /\ MarkerMeansReady'
    BY <1>2, AfterFacts DEF FixDependencies, TypeOK, MarkerMeansReady, Pcs, Facts
  <2>2. Progress'
    BY <1>2, AfterFacts DEF FixDependencies, TypeOK, Progress, Prepared, Unpacking, Unpacks, Installing
  <2> QED
    BY <2>1, <2>2
<1>3. CASE CreateRunnerUser(r)
  <2>1. TypeOK' /\ MarkerMeansReady'
    BY <1>3, AfterFacts DEF CreateRunnerUser, TypeOK, MarkerMeansReady, Pcs, Facts
  <2>2. Progress'
    BY <1>3, AfterFacts DEF CreateRunnerUser, TypeOK, MarkerMeansReady, Progress, Prepared, Unpacking, Unpacks, Installing
  <2> QED
    BY <2>1, <2>2
<1>4. CASE SetupRunnerImage(r)
  <2>1. "user" \in host /\ ubuntu
    BY <1>4 DEF SetupRunnerImage, Progress
  <2>0. /\ ImageGains = {"tools", "docker"} /\ Optional = SUBSET {"rust"}
        /\ {"tools", "docker", "rust"} \subseteq Facts
    BY <2>1 DEF ImageGains, Optional, Facts
  <2>2. /\ host \subseteq host' /\ host' \subseteq Facts
        /\ marker' \in Markers /\ marker' \in {marker, CurrentMarker}
        /\ marker' = CurrentMarker => {"user", "tools", "docker"} \subseteq host'
    <3>1. CASE UNCHANGED <<host, marker>>
      BY <3>1 DEF TypeOK, MarkerMeansReady
    <3>2. CASE marker' = CurrentMarker /\ \E extra \in Optional : host' = host \cup ImageGains \cup extra
      BY <2>0, <2>1, <3>2 DEF TypeOK, Markers
    <3>3. CASE marker # CurrentMarker /\ UNCHANGED marker /\ \E some \in SUBSET ImageGains : host' = host \cup some
      BY <2>0, <3>3 DEF TypeOK
    <3> QED
      BY <1>4, <3>1, <3>2, <3>3 DEF SetupRunnerImage
  <2>3. /\ pc' = [pc EXCEPT ![r] = "idle"] \/ (pc' = [pc EXCEPT ![r] = "check_cache"] /\ marker' = CurrentMarker)
        /\ UNCHANGED <<ubuntu, diskVars, agentVars>>
    BY <1>4, AfterFacts DEF SetupRunnerImage
  <2>4. TypeOK' /\ MarkerMeansReady'
    BY <2>1, <2>2, <2>3 DEF TypeOK, MarkerMeansReady, Pcs
  <2>5. Progress'
    BY <1>4, <2>1, <2>2, <2>3 DEF SetupRunnerImage, TypeOK, Progress, Prepared, Unpacking, Unpacks, Installing
  <2> QED
    BY <2>4, <2>5
<1> QED
  BY <1>1, <1>2, <1>3, <1>4

\* The steps on the cache keep it: they touch no directory.
LEMMA CacheStep ==
  ASSUME IInv, NEW r \in Repos,
         CheckCache(r) \/ OpenCache(r) \/ FillCache(r) \/ SumCache(r) \/ Interrupt(r)
  PROVE  IInv'
<1> USE DEF IInv, hostVars, diskVars, agentVars, Goto, Fail
<1>1. UNCHANGED <<hostVars, pkg, tree, agentVars>> /\ cache' \in Copies
  BY DEF CheckCache, OpenCache, FillCache, SumCache, Interrupt, TypeOK, Copies
<1>2. \E there \in Unpacking \cup {"idle"} :
         pc' = [pc EXCEPT ![r] = there] /\ (there # "idle" => pc[r] \in Unpacking)
  BY DEF CheckCache, OpenCache, FillCache, SumCache, Interrupt, Unpacking
<1>3. TypeOK' /\ MarkerMeansReady'
  BY <1>1, <1>2 DEF TypeOK, MarkerMeansReady, Pcs, Unpacking
<1>4. Progress'
  BY <1>1, <1>2 DEF TypeOK, Progress, Prepared, Unpacking, Unpacks, Installing
<1> QED
  BY <1>3, <1>4

\* The steps on the install directory keep it.
LEMMA DirectoryStep ==
  ASSUME IInv, NEW r \in Repos, UntarCache(r) \/ FetchPackage(r) \/ SumPackage(r)
  PROVE  IInv'
<1> USE DEF IInv, hostVars, diskVars, agentVars, Goto, Fail
<1>1. tree[r] \in Trees
  BY DEF TypeOK
<1>2. CASE UntarCache(r)
  <2>1. /\ tree' \in [Repos -> Trees]
        /\ \A q \in Repos : "all" \in tree[q] => "all" \in tree'[q]
        /\ \/ pc' = [pc EXCEPT ![r] = "idle"]
           \/ pc' = [pc EXCEPT ![r] = "fetch_package"] /\ "all" \in tree'[r]
    BY <1>1, <1>2, UnpackedFacts DEF UntarCache, TypeOK
  <2>2. TypeOK' /\ MarkerMeansReady'
    BY <1>2, <2>1 DEF UntarCache, TypeOK, MarkerMeansReady, Pcs
  <2>3. Progress'
    BY <1>2, <2>1 DEF UntarCache, TypeOK, Progress, Prepared, Unpacking, Unpacks, Installing
  <2> QED
    BY <2>2, <2>3
<1>3. CASE FetchPackage(r)
  <2>1. /\ pkg' \in [Repos -> Copies] /\ \A q \in Repos \ {r} : pkg'[q] = pkg[q]
        /\ pc' = [pc EXCEPT ![r] = "idle"] \/ pc' = [pc EXCEPT ![r] = "sum_package"]
    BY <1>3 DEF FetchPackage, TypeOK, Copies
  <2>2. TypeOK' /\ MarkerMeansReady'
    BY <1>3, <2>1 DEF FetchPackage, TypeOK, MarkerMeansReady, Pcs, Facts
  <2>3. Progress'
    BY <1>3, <2>1 DEF FetchPackage, TypeOK, Progress, Prepared, Unpacking, Unpacks, Installing
  <2> QED
    BY <2>2, <2>3
<1>4. CASE SumPackage(r)
  <2>1. /\ tree' \in [Repos -> Trees]
        /\ \A q \in Repos : "all" \in tree[q] => "all" \in tree'[q]
        /\ \/ pc' = [pc EXCEPT ![r] = "idle"]
           \/ pc' = [pc EXCEPT ![r] = "configure_runner"] /\ pkg[r] = "whole" /\ "all" \in tree'[r]
    BY <1>1, <1>4, UnpackedFacts DEF SumPackage, TypeOK
  <2>2. TypeOK' /\ MarkerMeansReady'
    BY <1>4, <2>1 DEF SumPackage, TypeOK, MarkerMeansReady, Pcs
  <2>3. Progress'
    BY <1>4, <2>1 DEF SumPackage, TypeOK, Progress, Prepared, Unpacking, Unpacks, Installing
  <2> QED
    BY <2>2, <2>3
<1> QED
  BY <1>2, <1>3, <1>4

\* The steps on credentials and service keep it, and so does `down`.
LEMMA AgentStep ==
  ASSUME IInv, NEW r \in Repos,
         ConfigureRunner(r) \/ InstallService(r) \/ VerifyService(r) \/ RemoveInstallation(r)
  PROVE  IInv'
<1> USE DEF IInv, hostVars, diskVars, agentVars, Goto, Fail
<1>1. CASE ConfigureRunner(r)
  <2>1. TypeOK' /\ MarkerMeansReady'
    BY <1>1 DEF ConfigureRunner, TypeOK, MarkerMeansReady, Pcs
  <2>2. Progress'
    BY <1>1 DEF ConfigureRunner, TypeOK, Progress, Prepared, Unpacking, Unpacks, Installing
  <2> QED
    BY <2>1, <2>2
<1>2. CASE InstallService(r)
  <2>1. "all" \in tree[r]
    BY <1>2 DEF InstallService, Progress, Unpacks, Installing
  <2>2. TypeOK' /\ MarkerMeansReady'
    BY <1>2, <2>1 DEF InstallService, TypeOK, MarkerMeansReady, Pcs
  <2>3. Progress'
    BY <1>2 DEF InstallService, TypeOK, Progress, Prepared, Unpacking, Unpacks, Installing
  <2> QED
    BY <2>2, <2>3
<1>3. CASE VerifyService(r)
  <2>1. TypeOK' /\ MarkerMeansReady'
    BY <1>3 DEF VerifyService, TypeOK, MarkerMeansReady, Pcs
  <2>2. Progress'
    BY <1>3 DEF VerifyService, TypeOK, Progress, Prepared, Unpacking, Unpacks, Installing
  <2> QED
    BY <2>1, <2>2
<1>4. CASE RemoveInstallation(r)
  <2>1. TypeOK' /\ MarkerMeansReady'
    BY <1>4 DEF RemoveInstallation, TypeOK, MarkerMeansReady, Pcs, Copies, Trees
  <2>2. Progress'
    BY <1>4 DEF RemoveInstallation, TypeOK, Progress, Prepared, Unpacking, Unpacks, Installing
  <2> QED
    BY <2>1, <2>2
<1> QED
  BY <1>1, <1>2, <1>3, <1>4

\* Every step of an execution keeps the invariant.
LEMMA StepIInv == IInv /\ [Next]_vars => IInv'
<1> SUFFICES ASSUME IInv, [Next]_vars PROVE IInv'
  OBVIOUS
<1>1. CASE Next
  BY <1>1, HostStep, CacheStep, DirectoryStep, AgentStep DEF Next, Up, Apply
<1>2. CASE UNCHANGED vars
  BY <1>2 DEF vars, hostVars, diskVars, agentVars, IInv, TypeOK, MarkerMeansReady, Progress
<1> QED
  BY <1>1, <1>2

\* The inductive invariant holds for any repositories.
THEOREM Invariance == Spec => []IInv
BY InitIInv, StepIInv, PTL DEF Spec

\* Type correctness; nothing runs without its files.
THEOREM TypeCorrect == Spec => []TypeOK
<1>1. IInv => TypeOK
  BY DEF IInv
<1> QED
  BY <1>1, Invariance, PTL

\* The image marker is never written before the host has what it stands for.
THEOREM MarkerIsReady == Spec => []MarkerMeansReady
<1>1. IInv => MarkerMeansReady
  BY DEF IInv
<1> QED
  BY <1>1, Invariance, PTL

\* An up that reports success leaves a verified runner on a prepared host.
THEOREM UpInstalls == Spec => []UpLeavesRunner
<1>1. IInv => UpLeavesRunner
  BY DEF IInv, Progress, UpLeavesRunner, Prepared, Unpacks, Installing
<1> QED
  BY <1>1, Invariance, PTL

\* Only an up that found no cache writes to it: once it is whole and none of
\* those is left, no step of any repository touches it.
THEOREM CacheIsSettled == Spec => CacheSettles
<1> DEFINE Filling == \E r \in Repos : pc[r] \in {"open_cache", "fill_cache"}
<1>1. ASSUME NEW r \in Repos, Up(r) \/ RemoveInstallation(r), ~Filling
      PROVE  cache' = cache
  <2>1. ~OpenCache(r) /\ ~FillCache(r)
    BY <1>1 DEF OpenCache, FillCache
  <2>2. CASE UpBegin(r) \/ Interrupt(r)
    BY <2>2 DEF UpBegin, Interrupt, diskVars
  <2>3. CASE FixDependencies(r) \/ CreateRunnerUser(r) \/ SetupRunnerImage(r)
    BY <2>3 DEF FixDependencies, CreateRunnerUser, SetupRunnerImage, diskVars
  <2>4. CASE CheckCache(r) \/ SumCache(r) \/ UntarCache(r)
    BY <2>4 DEF CheckCache, SumCache, UntarCache, diskVars
  <2>5. CASE FetchPackage(r) \/ SumPackage(r)
    BY <2>5 DEF FetchPackage, SumPackage
  <2>6. CASE ConfigureRunner(r) \/ InstallService(r) \/ VerifyService(r)
    BY <2>6 DEF ConfigureRunner, InstallService, VerifyService, diskVars
  <2>7. CASE RemoveInstallation(r)
    BY <2>7 DEF RemoveInstallation
  <2> QED
    BY <1>1, <2>1, <2>2, <2>3, <2>4, <2>5, <2>6, <2>7 DEF Up, Apply
<1>2. [Next]_vars
        => [cache = "whole" /\ (\A r \in Repos : pc[r] \notin {"open_cache", "fill_cache"})
              => cache' = "whole"]_vars
  BY <1>1 DEF Next
<1> QED
  BY <1>2, PTL DEF CacheSettles, Spec
==============================================================================
