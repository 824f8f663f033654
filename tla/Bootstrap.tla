------------------------------ MODULE Bootstrap ------------------------------
(* What Apply (internal/bootstrap) runs on a host of the user: prepare the  *)
(* host, fetch and unpack the runner, configure it, start its service.      *)
(* Repositories share the host, the service user, the image marker and the  *)
(* tarball cache; each has an install directory and one `up` at a time, and *)
(* the ups of different repositories overlap.  A script may be interrupted  *)
(* (connection, reboot, a full disk) between any two of its commands.       *)
EXTENDS Naturals

CONSTANT Repos

VARIABLES
  ubuntu,    \* isUbuntuLike: the host gets the image setup
  host,      \* which of Facts hold on the host
  marker,    \* version in image-setup.json
  cache,     \* the shared tarball
  pkg,       \* the tarball in each install directory
  tree,      \* the unpacked runner files of each install directory
  creds,     \* repositories with .runner and .credentials
  serving,   \* repositories whose service runs
  pc         \* position of each repository's `up`

hostVars  == <<ubuntu, host, marker>>
diskVars  == <<cache, pkg, tree>>
agentVars == <<creds, serving>>
vars == <<hostVars, diskVars, agentVars, pc>>

\* "tools" stands for the programs whose failed installation aborts the
\* image script; "rust" is one it tries and does without.
Facts   == {"packages", "user", "tools", "rust", "docker"}
Markers == {"none", "1", "2"}
CurrentMarker == "2"                                   \* ImageSetupVersion

\* A tarball on disk: absent, half written, complete with the wrong or with
\* the published content.
Copies == {"none", "partial", "corrupt", "whole"}

\* Unpacked files: "all" members are there; some is "bad" (cut short, or of
\* another content than the published one).
Trees == SUBSET {"all", "bad"}

Pcs == {"idle", "fix_dependencies", "create_runner_user", "setup_runner_image",
        "check_cache", "open_cache", "fill_cache", "sum_cache", "untar_cache",
        "fetch_package", "sum_package", "configure_runner",
        "install_service", "verify_service", "done"}

\* A new host, or one that an old release prepared: it ran the image setup
\* before the service user existed (P0-2).
Init ==
  /\ ubuntu \in BOOLEAN
  /\ \/ host = {} /\ marker = "none"
     \/ ubuntu /\ host = {"packages", "tools", "user"} /\ marker = "1"
  /\ cache = "none"
  /\ pkg = [r \in Repos |-> "none"]
  /\ tree = [r \in Repos |-> {}]
  /\ creds = {} /\ serving = {}
  /\ pc = [r \in Repos |-> "idle"]

------------------------------------------------------------------------------
(* The order of the commands (Apply, prepareHostCommands). *)

MutAfter(step) ==
  CASE step = "fix_dependencies"   -> IF ubuntu THEN "setup_runner_image" ELSE "create_runner_user"
    [] step = "setup_runner_image" -> "create_runner_user"
    [] step = "create_runner_user" -> "check_cache"

After(step) ==
  CASE step = "fix_dependencies"   -> "create_runner_user"
    [] step = "create_runner_user" -> IF ubuntu THEN "setup_runner_image" ELSE "check_cache"
    [] step = "setup_runner_image" -> "check_cache"

Goto(r, there) == pc' = [pc EXCEPT ![r] = there]

\* A failing command ends the script (set -e) and the script ends Apply
\* (runBootstrapCommands): the user runs `up` again or does not.
Fail(r) == Goto(r, "idle")

UpBegin(r) ==
  /\ pc[r] \in {"idle", "done"}
  /\ Goto(r, "fix_dependencies")
  /\ UNCHANGED <<hostVars, diskVars, agentVars>>

FixDependencies(r) ==
  /\ pc[r] = "fix_dependencies"
  /\ \/ host' = host \cup {"packages"} /\ Goto(r, After("fix_dependencies"))
     \/ UNCHANGED host /\ Fail(r)
  /\ UNCHANGED <<ubuntu, marker, diskVars, agentVars>>

CreateRunnerUser(r) ==
  /\ pc[r] = "create_runner_user"
  /\ \/ host' = host \cup {"user"} /\ Goto(r, After("create_runner_user"))
     \/ UNCHANGED host /\ Fail(r)
  /\ UNCHANGED <<ubuntu, marker, diskVars, agentVars>>

\* What a run of the image script to its end installs: the required tools;
\* the group membership if the user exists (`|| true`); Rust if also its
\* download works (`|| true`).
ImageGains == {"tools"} \cup (IF "user" \in host THEN {"docker"} ELSE {})
Optional   == IF "user" \in host THEN SUBSET {"rust"} ELSE {{}}

\* The marker is written last and skips the script from then on.
SetupRunnerImage(r) ==
  /\ pc[r] = "setup_runner_image"
  /\ \/ /\ marker = CurrentMarker
        /\ UNCHANGED <<host, marker>>
        /\ Goto(r, After("setup_runner_image"))
     \/ /\ marker # CurrentMarker
        /\ \E extra \in Optional : host' = host \cup ImageGains \cup extra
        /\ marker' = CurrentMarker
        /\ Goto(r, After("setup_runner_image"))
     \/ /\ marker # CurrentMarker                          \* stopped half way
        /\ \E some \in SUBSET ImageGains : host' = host \cup some
        /\ UNCHANGED marker
        /\ Fail(r)
  /\ UNCHANGED <<ubuntu, diskVars, agentVars>>

------------------------------------------------------------------------------
(* download_runner: the cache is filled and verified only if the file is    *)
(* absent; every run unpacks it.                                            *)

MutCheckCache(r) ==
  /\ pc[r] = "check_cache"
  /\ Goto(r, "open_cache")
  /\ UNCHANGED <<hostVars, diskVars, agentVars>>

CheckCache(r) ==
  /\ pc[r] = "check_cache"
  /\ Goto(r, IF cache = "none" THEN "open_cache" ELSE "untar_cache")
  /\ UNCHANGED <<hostVars, diskVars, agentVars>>

\* curl creates, or truncates, the file with the first bytes it receives; if
\* none arrive it fails without a file.
OpenCache(r) ==
  /\ pc[r] = "open_cache"
  /\ \/ cache' = "partial" /\ Goto(r, "fill_cache")
     \/ UNCHANGED cache /\ Fail(r)
  /\ UNCHANGED <<hostVars, pkg, tree, agentVars>>

FillsCacheToo(r) == \E q \in Repos \ {r} : pc[q] = "fill_cache"

\* The transfer ends.  A failed one leaves the part it received.  Two curls
\* into one file write the same bytes at the same places: it is complete when
\* the last of them ends.
FillCache(r) ==
  /\ pc[r] = "fill_cache"
  /\ \/ /\ IF FillsCacheToo(r) THEN UNCHANGED cache ELSE cache' \in {"whole", "corrupt"}
        /\ Goto(r, "sum_cache")
     \/ UNCHANGED cache /\ Fail(r)
  /\ UNCHANGED <<hostVars, pkg, tree, agentVars>>

SumCache(r) ==
  /\ pc[r] = "sum_cache"
  /\ IF cache = "whole" THEN Goto(r, "untar_cache") ELSE Fail(r)
  /\ UNCHANGED <<hostVars, diskVars, agentVars>>

\* Unpacking a copy to its end: --skip-old-files adds what is missing and keeps
\* what is there, a file cut short by an earlier run included.
Unpacked(old, copy) ==
  IF "all" \in old THEN old
  ELSE old \cup {"all"} \cup (IF copy = "whole" THEN {} ELSE {"bad"})

\* What an unpacking that fails or is interrupted may leave.
Broken(old) == IF "all" \in old THEN {old} ELSE {old, old \cup {"bad"}}

UntarCache(r) ==
  /\ pc[r] = "untar_cache"
  /\ \/ /\ cache \in {"whole", "corrupt"}
        /\ tree' = [tree EXCEPT ![r] = Unpacked(@, cache)]
        /\ Goto(r, "fetch_package")
     \/ /\ \E t \in Broken(tree[r]) : tree' = [tree EXCEPT ![r] = t]
        /\ Fail(r)
  /\ UNCHANGED <<hostVars, cache, pkg, agentVars>>

------------------------------------------------------------------------------
(* configure_runner: fetches the package once more into the install         *)
(* directory if it is absent there, and verifies it on every run.           *)

FetchPackage(r) ==
  /\ pc[r] = "fetch_package"
  /\ \/ pkg[r] # "none" /\ UNCHANGED pkg /\ Goto(r, "sum_package")
     \/ /\ pkg[r] = "none"
        /\ \E c \in {"whole", "corrupt"} : pkg' = [pkg EXCEPT ![r] = c]
        /\ Goto(r, "sum_package")
     \/ /\ pkg[r] = "none"
        /\ \E c \in {"none", "partial"} : pkg' = [pkg EXCEPT ![r] = c]
        /\ Fail(r)
  /\ host' = host \cup {"user"}                   \* useradd again, if missing
  /\ UNCHANGED <<ubuntu, marker, cache, tree, agentVars>>

MutSumPackage(r) ==
  /\ pc[r] = "sum_package"
  /\ IF pkg[r] # "none"
       THEN tree' = [tree EXCEPT ![r] = Unpacked(@, pkg[r])] /\ Goto(r, "configure_runner")
       ELSE UNCHANGED tree /\ Fail(r)
  /\ UNCHANGED <<hostVars, cache, pkg, agentVars>>

SumPackage(r) ==
  /\ pc[r] = "sum_package"
  /\ IF pkg[r] = "whole"
       THEN tree' = [tree EXCEPT ![r] = Unpacked(@, pkg[r])] /\ Goto(r, "configure_runner")
       ELSE UNCHANGED tree /\ Fail(r)
  /\ UNCHANGED <<hostVars, cache, pkg, agentVars>>

\* The old credentials go before config.sh writes new ones.
ConfigureRunner(r) ==
  /\ pc[r] = "configure_runner"
  /\ \/ creds' = creds \cup {r} /\ Goto(r, "install_service")
     \/ creds' = creds \ {r} /\ Fail(r)
  /\ UNCHANGED <<hostVars, diskVars, serving>>

\* Stop and uninstall what is there, install, start, ask for the status.
InstallService(r) ==
  /\ pc[r] = "install_service"
  /\ \/ serving' = serving \cup {r} /\ Goto(r, "verify_service")
     \/ serving' \in {serving, serving \ {r}} /\ Fail(r)
  /\ UNCHANGED <<hostVars, diskVars, creds>>

VerifyService(r) ==
  /\ pc[r] = "verify_service"
  /\ \/ r \in serving /\ Goto(r, "done")
     \/ Fail(r)
  /\ UNCHANGED <<hostVars, diskVars, agentVars>>

\* The script dies between two commands.
Interrupt(r) ==
  /\ pc[r] \notin {"idle", "done", "untar_cache"}  \* UntarCache has its own
  /\ Fail(r)
  /\ UNCHANGED <<hostVars, diskVars, agentVars>>

MutKeepsService(r) ==
  /\ pc[r] \in {"idle", "done"}
  /\ Goto(r, "idle")
  /\ pkg' = [pkg EXCEPT ![r] = "none"]
  /\ tree' = [tree EXCEPT ![r] = {}]
  /\ creds' = creds \ {r} /\ UNCHANGED serving
  /\ UNCHANGED <<hostVars, cache>>

MutRemovesCache(r) ==
  /\ pc[r] \in {"idle", "done"}
  /\ Goto(r, "idle")
  /\ pkg' = [pkg EXCEPT ![r] = "none"]
  /\ tree' = [tree EXCEPT ![r] = {}]
  /\ creds' = creds \ {r} /\ serving' = serving \ {r}
  /\ cache' = "none" /\ UNCHANGED hostVars

\* `down` removes the install directory and the service; the cache stays.
RemoveInstallation(r) ==
  /\ pc[r] \in {"idle", "done"}
  /\ Goto(r, "idle")
  /\ pkg' = [pkg EXCEPT ![r] = "none"]
  /\ tree' = [tree EXCEPT ![r] = {}]
  /\ creds' = creds \ {r} /\ serving' = serving \ {r}
  /\ UNCHANGED <<hostVars, cache>>

\* Apply, by command, for one repository.
Apply(r) ==
  \/ FixDependencies(r) \/ CreateRunnerUser(r) \/ SetupRunnerImage(r)
  \/ CheckCache(r) \/ OpenCache(r) \/ FillCache(r) \/ SumCache(r) \/ UntarCache(r)
  \/ FetchPackage(r) \/ SumPackage(r) \/ ConfigureRunner(r)
  \/ InstallService(r) \/ VerifyService(r)

Up(r) == UpBegin(r) \/ Apply(r) \/ Interrupt(r)

Next == \E r \in Repos : Up(r) \/ RemoveInstallation(r)

Spec == Init /\ [][Next]_vars

\* A command goes on or dies, and the user repeats `up`.
Fairness == \A r \in Repos : WF_vars(Up(r))

FairSpec == Spec /\ Fairness

------------------------------------------------------------------------------
(* Properties *)

\* Values have their types, an image marker of the current version appears on
\* Ubuntu-like hosts only, and no repository runs without its files.
TypeOK ==
  /\ ubuntu \in BOOLEAN /\ host \subseteq Facts /\ marker \in Markers
  /\ cache \in Copies /\ pkg \in [Repos -> Copies] /\ tree \in [Repos -> Trees]
  /\ creds \subseteq Repos /\ serving \subseteq Repos
  /\ pc \in [Repos -> Pcs]
  /\ marker = CurrentMarker => ubuntu
  /\ \A r \in serving : "all" \in tree[r]

\* The marker stops every later run of the image script, so it must not be
\* written before the host has what a job needs, on hosts that an older release
\* left with its marker too (prepareHostCommands, P0-2).
MarkerMeansReady ==
  marker = CurrentMarker => {"user", "tools", "docker"} \subseteq host

\* When `up` reports the service as verified, everything the steps before it
\* were for is there, whatever interrupted runs left and whatever the ups of
\* other repositories do in between (runBootstrapCommands stops at a failure).
UpLeavesRunner ==
  \A r \in Repos : pc[r] = "done" =>
    /\ r \in creds \cap serving
    /\ "all" \in tree[r] /\ pkg[r] = "whole"
    /\ {"packages", "user"} \subseteq host
    /\ ubuntu => marker = CurrentMarker

\* A tarball that passed its verification is not fetched again, for whatever
\* repository (downloadRunnerCommand: once per version), so no `up` unpacks
\* it while another one rewrites it: except those that found the cache empty
\* before it was filled.
CacheSettles ==
  [][cache = "whole" /\ (\A r \in Repos : pc[r] \notin {"open_cache", "fill_cache"})
       => cache' = "whole"]_vars

\* A step of an `up` with network and disk healthy again: what it downloads is
\* what was published, and only a bad copy makes it fail.
Healthy(r) ==
  /\ UpBegin(r) \/ Apply(r)
  /\ cache' = "corrupt" => cache = "corrupt"
  /\ pkg'[r] = "corrupt" => pkg[r] = "corrupt"
  /\ pc'[r] = "idle" => \/ pc[r] \in {"sum_cache", "untar_cache"} /\ cache # "whole"
                        \/ pc[r] = "sum_package" /\ pkg[r] # "whole"
                        \/ pc[r] \in {"configure_runner", "install_service", "verify_service"}
                             /\ "bad" \in tree[r]

HealthyUps == <>[][\E r \in Repos : Healthy(r)]_vars

\* No bad copy of the package, or file of it, is left behind.
GoodCopies ==
  /\ cache \in {"partial", "corrupt"}
       => \E r \in Repos : pc[r] \in {"fill_cache", "sum_cache"}
  /\ \A r \in Repos : pkg[r] \in {"none", "whole"} /\ "bad" \notin tree[r]

\* Whatever else earlier attempts left (files missing from a tree, lost
\* credentials, half an image setup), repeating `up` installs the runner of each
\* repository, also when the ups overlap, if nothing bad stays behind.
UpsConverge ==
  HealthyUps /\ <>[]GoodCopies => \A r \in Repos : []<>(pc[r] = "done")

\* "Once egress and disk are healthy, re-run runnerkit up"
\* (docs/troubleshooting/bootstrap.md, RKD-BOOT-013): without that condition.
RerunInstalls ==
  HealthyUps => \A r \in Repos : []<>(pc[r] = "done")

==============================================================================
