# Verification of RunnerKit

RunnerKit is a command-line tool that turns a host the user owns (BYO) or a
Hetzner Cloud server (experimental) into a self-hosted GitHub Actions runner and
takes it down again. It has no daemon: every command is a process that reads
`state.json`, calls GitHub, the host (SSH) and the Hetzner API one call after the
other, and writes `state.json`. What can go wrong is therefore not inside one
call but between them: a call fails half way, its answer is lost, the process
dies, the world changes between two answers, another terminal or a CI job runs a
second command. The models are about that.

## Inventory

| Part | State | Operations | Hard behaviour | What makes it correct | Module |
|---|---|---|---|---|---|
| Cloud lifecycle (`cli/up.go` cloud path, `cli/destroy.go`, `provider/hetzner`) | saved record, provider resources, registration, installation | `up --cloud`, `destroy` | partial provisioning, lost answers, crash before the checkpoint, delete order, asynchronous cascade, commands that overlap | no billed resource is lost track of; success means gone; the record goes last; retries end the billing | `CloudLifecycle`, `Hetzner` |
| State store (`state/`) | `state.json`, its backups and temporary files | load (with migration), save, upsert, update, remove | crash and I/O failure between file operations, migration, two processes | atomic operations, true answers, the original survives a migration; two processes lose no more than what a whole-file replacement must | `StateStore`, `AtomicStore`, `SharedStore`, `StateSchema` |
| BYO up and down (`cli/up.go`, `cli/down.go`, `ops/cleanup.go`) | record, service, installation, registration | `up --host`, `down` | nine cleanup steps of which any may fail, record saved last | record removed only when nothing selected is left; a rerun takes over any leftovers | `BYOLifecycle` |
| Bootstrap (`bootstrap/`) | host user, image marker, tarball cache, install directories, services | the install sequence, step by step | interrupted steps, re-runs over leftovers, repositories that share a host | a re-run converges; success means a verified runner | `Bootstrap` |
| Setup decisions (`cli/register.go`, `cli/experimental_gates.go`, `runmode`, `github/safety.go`) | flags and answers | choose mode and path, gates, confirmations | prompts that choose something gated after the gates were passed | nothing is created without the consents it needs | `Consent`, `Readiness` |
| Cloud readiness (`provider/hetzner/readiness.go`, probes in `provision.go`, `up.go`) | attempts, time | wait for server, host key, cloud-init | a boot that is slow, degraded or broken; connections that fail | bounded wait; a machine that converged is used, a broken one is not | `Readiness` |
| Preflight (`preflight/checks.go`) | facts of the host | `Run` | each fact is asked once over a connection that may fail | only a host that fits is bootstrapped | `Preflight`, `Readiness` |
| Health and recovery (`ops/status.go`, `ops/probes.go`, `ops/recovery.go`, `cli/status.go`, `cli/recover.go`, `cli/doctor.go`) | none (facts observed) | probe, classify, advise, plan, repair | overlapping conditions, facts of different moments, changed host keys | verdicts that are true, plans that heal, no job ended by a failed call | `Health`, `Recovery` |
| Ephemeral runner (`bootstrap/script.go`, `runmode`, `cli/down.go`) | unit, timer, finalizer state, logs | one job, finalizer, TTL expiry, log archive | timer, finalizer, reboot and commands in any order | a job is seen; the record goes last; a finalized runner does not come back; credentials go | `Ephemeral` |
| SSH and host keys (`remote/`) | known fingerprint | probe, verify, run | key changes, which algorithm is chosen | a changed key is never accepted silently | in `Recovery`, `Readiness` |
| GitHub client (`github/`) | none | tokens, list, delete | paging, rate limits | its effect is modelled where it is used | in the lifecycle modules |
| Logs, list, upgrade check, labels, pricing, checklist, rendering, redaction | none that decides | read-only | none that a model checker adds to | | not modelled |

`PROJECT.json` lists the same parts with their files and status, and every
hazard with its line in the source and the property that covers it, if one does.

Commands interact only through shared things: `state.json` (whole-file
read-modify-write without a lock), the host, the Hetzner project and the GitHub
registrations. Within a process everything is sequential. So the unit of
interleaving is one external call.

## Modules

    Hetzner          the provider account (external)
    CloudLifecycle   up --cloud, up --host (its save) and destroy; EXTENDS Hetzner
    CloudLifecycleProofs

    BYOLifecycle     up --host, down and recover on hosts of the user
    BYOLifecycleProofs
    Bootstrap        the commands of an install on a host several repositories share
    BootstrapProofs

    Consent          flags, gates and confirmations, as operators
    Preflight        which checks fail on which observations, as operators
    Readiness        from the command line to the bootstrap; EXTENDS both
    ReadinessProofs

    Health           classes, findings, advice and plans, as operators
    HealthProofs     what they decide, as lemmas for the two below
    Recovery         status, doctor, recover in a changing world; EXTENDS Health
    RecoveryProofs   EXTENDS HealthProofs
    Ephemeral        ephemeral runners; EXTENDS Health
    EphemeralProofs  EXTENDS HealthProofs

    StateSchema      entries of state.json and the operations on them
    AtomicStore      what the store promises one process;    EXTENDS StateSchema
    SharedStore      what it promises processes that overlap; EXTENDS StateSchema
    StateStore       how internal/state does it;     EXTENDS StateSchema, refines both
    StateStoreProofs

    MC*              instances for TLC

The modules cut a command's run in phases and share its boundaries: `Readiness`
ends where `Bootstrap` and the install steps of `BYOLifecycle` begin, and
`CloudLifecycle` has the calls around both as single steps that may fail.
`CloudLifecycle`, `BYOLifecycle` and `Ephemeral` read and write the record in one
step; that is the atomicity which `StateStore` refining `AtomicStore` establishes
for one process at a time. For processes that overlap the store is only a
`SharedStore`: one step reads the whole file, a later one replaces it.

An operator `Mut...` is the definition below it with a plausible slip: no action
uses it. `PROJECT.json` pairs each checked property with such a slip that the run
must detect.

### CloudLifecycle

| Variable | In the program |
|---|---|
| `rec` | the repository's `RepositoryState` in `state.json`, reduced to: none / byo / cloud, the machine, the recorded resource ids, the auto_delete flag, and whether it is the final record (the only one with an `InstallPath`) |
| `cloud`, `detached`, `used` | the Hetzner project: existing resources of each machine, detached firewalls, machines that ever existed |
| `registered`, `installed` | the GitHub registration under the repository's runner name; runner files on a server |
| `pc`, `snap`, `repl`, `partial` | local variables of each process: position in `runCloudUp` / `applyCloudDestroy`, the `RepositoryState` it built or read, `replaceExisting`, `partial` |
| `unreported` | history: attempts in which an answer, a save or the process was lost between a create call and the checkpoint |

Each action is one external call with its local code. A create or delete call
ends in one of four ways (`Outcomes`): it works, it fails, it takes effect but
the answer is lost, or it takes effect and the answer carries an error and the
id (what `ProvisionError` exists for). `Crash` ends any command anywhere. All
deadlines and retries become "this step may fail": no property here needs
durations (`Readiness` has them). IPv4 and IPv6 addresses run through the same
code and are one kind.

Facts of the code that shape the model, and that a reader may not expect:

* the first check, `UpBegin`, is repeated at the confirmation, `UpConfirm`, and
  the replace decision taken there is used for the first checkpoint only;
* `CreateSSHKey` drops the key's id on every error, `CreateFirewall` and
  `CreateServer` hand theirs over;
* the cleanup script changes into the recorded install directory under `set -e`,
  so it fails for a pending record and after it has run once;
* a failed detach is a warning, not a partial result;
* addresses recorded as auto_delete are not deleted but left to the cascade;
* a partial destroy writes back the record it read at its start.

### BYOLifecycle

| Variable | In the program |
|---|---|
| `rec` | the `RepositoryState`: kind and host (`Machine`); its notes and pending checkpoints decide nothing and are left out |
| `registered` | the host that GitHub's registration under the runner's name points to; `Foreign` is a runner of that name without the runnerkit label |
| `files`, `configured`, `unit`, `active` | hosts with an install directory, with `.runner` and credentials in it, with the systemd unit, with the unit running |
| `pc`, `mem` | local variables of `runUp` and `applyCleanup` |

The name of a persistent runner is made from the repository alone
(`labels.Build`), so there is one registration for all hosts and
`config.sh --replace` moves it. Each command sent to a host is one step; the
scripts' own structure shows in what a failing step may leave behind:
`ConfigureRunner` has removed the old credentials, `InstallService` stops after any
of its five commands, `UninstallService` may do nothing and still succeed (every
line ends in `|| true`), `RemoveConfig` cannot succeed without the install
directory or with the service installed. What `svc.sh` and `config.sh` do is
external. `TypeOK` holds that nothing is active without a unit.

The module is about persistent runners. Blocked paths (records written by `up`
never have any) are left out; preparation and download are one step that may
fail, `Bootstrap` has their insides. `CloudBegin`, `CloudSave` and
`CloudDestroyed` stand for the cloud commands as far as `down` can meet them.

### Bootstrap

`Apply` sends scripts one after the other; here each step of a script that another
repository or a rerun can notice is an action. `host` and `marker` are what the
preparation leaves (`Facts`), `cache` the tarball shared by all repositories of the
host, `pkg` and `tree` the copy and the unpacked files in each install directory,
`creds` and `serving` the result. Copies on disk are `none`, `partial`, `corrupt`
(complete, wrong content) or `whole`. `Interrupt` is a connection, a reboot or a full
disk between two commands; an interrupted `tar` has its own outcome because
`--skip-old-files` keeps the file it cut short. The user repeats `up`
(`Fairness`); two ups of different repositories overlap freely, two of one
repository do not.

The initial states are a new host and one an older release prepared (the image
marker "1" it left, without the docker group: the case `ImageSetupVersion` and the
order of `prepareHostCommands` are for). What an installer does with its optional
parts (`|| true`) is a choice.

### Consent, Preflight and Readiness

`Consent` follows the command line: `Invocations` are the flags that decide
(`--host`, `--cloud`, mode, experimental opt-in, `--yes`, risk and key flags, dry
run, terminal or not), `Open`, `Prompted`, `GatesPass`, `Required` and `Obtained` are
the functions that ask or refuse. Its result is a set of `Setups`: path, how the
plan is still to be confirmed, and what is *owed*, that is required of the user and
not obtained. A phrase is given or not given, never a text.

`Readiness` starts with any such setup (`Choose`) and follows it. A cloud machine
boots by itself (`Stages`; `faults` are failed packages, a failed runcmd or a crash
of cloud-init; `sudo` is what images make of the user-data); the provider's API and
the connections become unreliable and reliable again at any time. `up` looks at the
server, scans for the host key, waits for cloud-init, and runs preflight, each
command of which is sent once. Time is counted in sleeps between attempts
(`elapsed`, `ran`) because one property is about it.

### Health and Recovery

`Health` has the decision tables as operators over a record of facts:
`Classify` (the class and the advice of status), `DoctorFindings`,
`BuildRecoveryPlan`, `Cleanup`. `Recovery` produces those facts the way the program
does, one call after the other, from a host, a GitHub listing and a provider that
change meanwhile, and applies the plan. History variables say what a property
needs to know of the run: nothing changed since the command began (`quiet`), the
unit was active all the time (`steady`), the host was a replaced one
(`foreign`), which calls failed and how the program took it (`lost`: as unknown,
`misread`: as a fact). Fingerprints are the algorithm of the key chosen from what
`ssh-keyscan` answered; `name` is the synthetic one `up` saves when no key came.

### Ephemeral

Every `up --mode ephemeral` takes a random name, so registrations, units and timers
of earlier ones live on beside the recorded runner; `Runners` are those names.
`svc` is the one-shot unit, `timer` its TTL timer, `sentinel` the finalizer's state
file, `logs` what became of the run's logs. The unit is stopped with
`KillMode=process`, so `Stopped` may leave the listener below `run.sh` connected
(`Listening`), which then takes its job without a unit. Scripts hide failures: a stop
that did nothing is `swallowed` by `down` and by `TTLStop`, a script that copies
leaves the logs `tried` (`Archives`), copied or not, and only what ends a script under
`set -e` shows (`FinalizerFails`; the outcomes of `PreserveLogs`). One command runs at a
time, the host, the job and GitHub act in between. The unit's own finalizer (`ExecStopPost`) runs as
the service user and cannot write to root's directories, so it changes nothing;
only the one started by the TTL timer does. The code refuses ephemeral runners in
the cloud, so there are none in the model.

### StateStore

`file`, `backup` and `tmp` are the three kinds of files, `mem` the loaded
`State`, `pc`, `op` and `result` the position, operation and answer of a store
call; `original` is the file before the first command. `Load` branches as
`Store.Load` does: newer schema refused, older one backed up, migrated and saved,
absent file an empty state. `os.WriteFile` is two steps (truncate, fill),
`writeAtomic` three (create, write and fsync, rename). Every file operation may
fail (`IOError`) and the process may die between any two (`Leave`). The second
that names a backup is a constant per process, `Second`, so that equal and
different seconds can be told apart. JSON itself and permissions are left out;
loss of power (as opposed to death of the process) is not modelled.

`AtomicStore` and `SharedStore` are what the store promises. The first has an
operation take effect and answer in one step. The second has `Read`, which copies
all entries, `Change`, which does the operation on the copy, and `Commit`, which
replaces all entries by the copy; what others committed in between is lost, of every
repository. `Migrate` shows that this happens to a process that only reads, too: it
writes back what it read of an old file. Backups, temporary files, torn writes,
errors and deaths show in neither.

## Runs

| Run | Instance | Shows |
|---|---|---|
| `CloudOneProcess` | 1 process, 2 machines, fair | `NoSilentOrphan`, `NoOrphanRegistration`, `RecordDroppedOnlyWhenGone`, `BillingStops` |
| `CloudTwoProcesses` | 2 processes, 1 machine | the inductive invariant `IInv`, `DestroyedMeansGone` |
| `StoreOneProcess` | 1 process, 2 repositories, 2 values | `AtomicStore` is implemented; the file is never torn |
| `StoreTwoProcesses` | 2 processes, own seconds, 2 repositories | `OriginalKept`: the original survives; `SharedOperations`: `SharedStore` is implemented |
| `ByoOneProcess` | 1 process, 2 hosts, fair | `SavedMeansServing`, `DroppedMeansDeregistered`, `UpCompletes` |
| `BootstrapTwoRepos` | 2 repositories, 1 host, fair | `MarkerMeansReady`, `UpLeavesRunner`, `CacheSettles`, `UpsConverge` |
| `Recovery` | 1 runner, 1 change per command | `VerdictTrue`, `ManualOnlyWhenNeeded`, `AdviceFits`, `PlanHeals`, `RecoverSparesJobs`, `KnownHostOnly` |
| `EphemeralTwoRunners` | 2 runner names, fair timer | `JobSeen`, `DroppedClean`, `FinalizedStaysDown`, `CredentialsGo` |
| `Readiness` | 2 looks, 3 scans, a budget of 2 sleeps, fair | `ConsentFirst`, `BootstrapFits`, `NoneOnBrokenBoot`, `WaitBounded`, `ConvergedIsUsed` |
| `ByoDownResumes` | 1 process, 1 host, fair | `DownCompletes` is violated: finding 1 |
| `BootstrapRerun` | 1 repository, fair | `RerunInstalls` is violated: finding 2 |
| `RecoverableError` | as `Readiness` | `RecoverableProceeds` is violated: finding 3 |

A run of each module checks its `TypeOK` too. Deadlock is checked in every run: a
process can always start a command, and `Readiness`, a single command, has the
explicit step `Rest` for its end.

**Bounds.**

* `CloudLifecycle`: a machine is one provisioning attempt, never reused. Two of
  them are an old and a new machine under one repository name, which is all that
  `rec`, `registered` and a snapshot can confuse. Two processes give every pair of
  commands every overlap; the theorems cover any number. `CloudTwoProcesses`
  identifies states that differ only in the history variable `unreported`, which no
  action and no property there reads.
* `BYOLifecycle`: two hosts are an old and a new home of the runner. `--yes`
  selects every artifact, the prompts any subset; `SomeSelections` takes those in
  which the files and the record are selected together, `YesSelection` all.
* `Bootstrap`: two repositories are enough for one that rewrites what another
  reads; nothing else is shared.
* `Recovery`: one change of the world while a command runs (none at rest is
  excluded). More make every statement about what was observed empty.
* `Ephemeral`: two names are the recorded runner and a leftover. Timers, units and
  directories of different runners share nothing.
* `Readiness`: small numbers of attempts, with the order of the constants in the
  code (more scans than looks); `MaxMissing` facts a host lacks, because the checks
  are independent of each other.
* `StateStore`: two repositories show that a change keeps the others, or, with two
  processes, takes them back; two processes show a truncated backup. With two
  processes an entry has one value: there or not is all that an overlap confuses.

Nothing else is bounded: commands repeat for ever.

**Safety with one and with many processes.** `NoSilentOrphan`,
`NoOrphanRegistration` and `RecordDroppedOnlyWhenGone` are properties of one
process at a time, and so are `SavedMeansServing` and `DroppedMeansDeregistered`.
With two they fail, because nothing locks `state.json` or the host: the hazards that
follow are listed in `PROJECT.json`. That a cloud record survives `up --host` and
`down` is not stated at all: one process cannot get there, as both look at the record
first, and with two nothing in the code keeps it. `DestroyedMeansGone` holds for
any number of processes and is proved.

**Fairness.**

* `CloudLifecycle`: a process that runs takes its next step or dies; the user runs
  `destroy` again while a cloud record is saved (the documentation asks for it at
  each failure); a call of destroy that is made again and again succeeds now and
  then (strong fairness per call, nothing about two calls in the same run);
  Hetzner's cascade completes. No command is assumed to run to its end.
* `BYOLifecycle`: the same; commands take their next step or die, the user repeats
  the command, each call succeeds now and then. `UpCompletes` adds as its premise
  that eventually only `up` runs, `DownCompletes` that eventually only `down --yes`
  runs and no call fails but, possibly, the unconfigure script.
* `Bootstrap`: an `up` takes its next step or dies, and the user repeats it.
  `UpsConverge` and `RerunInstalls` add as premise that eventually network and disk
  are healthy; the first also that no bad copy stays on disk, which is what the second
  shows to be needed.
* `Ephemeral`: the timer elapses in the end, and some run of its service is not cut
  short by a reboot. As `OnActiveSec=24h` starts over at each boot, this assumes that
  the host is not for ever rebooted within 24 hours. Commands, jobs and GitHub owe
  nothing, and neither a stop nor the finalizer is assumed to succeed.
* `Readiness`: once begun, `up` goes on and time passes. The machine may hang for
  ever; `ConvergedIsUsed` has as its premise that it does not.

## Findings

1. **down is not resumable once the files are gone** (`cli/down.go:301`). Files are
   removed even if unconfiguring or the deletion at GitHub failed; the next
   unconfigure cannot enter the directory, which is not recognised as "already
   absent". Every `down --yes` is then partial. A user who deselects the step at the
   prompt gets out; the documentation advises the opposite order.
2. **an interrupted download poisons the host** (`bootstrap/install.go:308`). The
   shared tarball is downloaded and verified only when no file is there. A partial
   one is unpacked by every later run, of every repository of the host, and fails;
   the documented remedy, running `up` again, cannot help.
3. **recoverable cloud-init errors stop up** (`cli/up.go:1055`). The script means to
   treat exit code 2 as success, but under `set -e` it ends at the command whose
   code it wants to look at. The wait is repeated until its deadline and fails.
Observations, most of which contradict no document:

* *Cloud.* destroy can stay partial for ever (README.md:60 of the repository lists
  it): its step on the host succeeds only for a finished record with an installed,
  reachable runner. Billing stops all the same. A BYO `up` checks for live cloud ids
  before the install and saves, minutes later, without checking again.
* *Store.* Commands that overlap lose each other's changes, of every repository, also
  to one that only reads while it migrates (`SharedStore` is as much as holds). Two
  migrations in the same second use one backup name; the second
  truncates the backup after the first replaced the original.
* *down.* A failed removal of the runner's files is not counted as partial, so the
  record goes while the files stay (`down.go:358`). A partial down of a reachable
  host leaves no pending note for its unconfigure or service step (`down.go:391`). A
  cloud record another process saves while `down` runs is removed or overwritten
  by name (`down.go:385`).
* *Consent.* The prompt of `resolveSetupPath` (`up.go:678`) is never reached: the
  mode decision has asked under the same condition. `--host` with `--cloud` silently
  takes the host. `--non-interactive` still prompts for the typed risk phrases at a
  terminal. `--allow-public-repo-risk` without a terminal and without `--yes` passes
  the risk gate and is stopped by the plan's confirmation only.
* *Readiness.* The total wait for cloud-init may be twice its budget
  (`WaitBounded` states this bound). A provider error ends the wait for the server at
  once, while SSH errors are retried; preflight retries nothing. The last command of
  the runcmd stanza decides its exit code, so a rejected sudoers file need not show
  in cloud-init's status; `RequirePasswordlessSudo` catches it. arm64 is only a
  warning although the image setup is for amd64.
* *Host keys.* When `ssh-keyscan` answers in part at `up`, another algorithm's or a
  synthetic fingerprint is saved and every later probe says mismatch
  (`up.go:1570`). docs/troubleshooting/ssh.md:33 advises a flag `recover` does not
  have. The ssh command itself checks no key (`UserKnownHostsFile=/dev/null`).
* *Status.* A failed search for the unit's real name is shown as a missing service,
  a failed provider call as "needs attention"; "busy" is said on GitHub's word alone.
* *Ephemeral.* The unprivileged finalizer never writes its completion (README.md:40
  and docs/safety.md admit that credentials stay until the TTL). The timer is
  always of 24 hours while the record's expiry follows `--ephemeral-ttl`. The
  service is started before its timer is installed: an `up` that dies in between
  leaves a runner without one. A registration of a replaced runner may be taken for
  the record's own. A job that is over before `waitForRunnerOnline` looks makes `up`
  time out without a record. The comment at `down.go:336` speaks of notes that are
  not written. Logs can be lost without a word: every copy of the preservation
  script ends in `|| true` (`script.go:260`), so it succeeds when nothing was copied;
  `down` looks at its exit code only, removes the installation and the record and
  reports no failed step (docs/troubleshooting/cleanup.md:160 promises a warning when
  the expected archive was not produced, docs/safety.md calls the step best-effort).
  The TTL does not guarantee an end: a failed stop is ignored and the
  listener may outlive its unit (`KillMode=process`), and after the finalizer, failed or
  not, the timer is spent until the next boot.

## Proofs

`CloudLifecycleProofs` proves, for every finite or infinite set of machines and
processes with `NoMachine` not a machine (`MachinesAssumption`):

* `Invariance`: `Spec => []IInv`; `TypeCorrect`: `Spec => []TypeOK`;
* `DestroyReportsTruth`: `Spec => []DestroyedMeansGone`.

`DestroyedMeansGone` is not inductive. A destroy verifies only the ids its record
names, so one must know that a record which lets destroy succeed names every
kind: only a finished record can pass the remote step (`DestroyedSoFar`), and a
finished record holds all ids because `up` collected them in order
(`IdsCollected`). What was verified stays true because nobody creates anything on
that machine any more: a machine belongs to the `up` that provisions it
(`UpOwnsMachine`), and while it does nobody holds a finished record of it. That a
fresh machine is unknown to everybody needs `KnownMachines`. There is a lemma per
conjunct, one step per action under each.

Under the hypothesis `Sole`, that there is one process, it proves the properties
about the record, which two processes violate:

* `OrphansAreReported`: `Spec => []NoSilentOrphan`;
* `RegistrationsRecorded`: `Spec => []NoOrphanRegistration`;
* `DropsOnlyGone`: `Spec => RecordDroppedOnlyWhenGone`.

They rest on `RecordInvariance`. `RecordInv` says what the record is to the command that
runs (`RecordWhile`): not a cloud record before the command's own checkpoint, unless
the command is a destroy; the record of the machine `up` works on from there, with the
ids `up` holds; the very record destroy read while it deletes. And a cloud record
names at least the key (`RecordNamesKey`), so that `up` refuses to start over it
(`Refused`) until destroy has looked up what the record names and removed it.

`StateStoreProofs` proves `TypeCorrect` for any processes and `BackupPersists`
(`Spec => []OriginalKept`) under the hypothesis that no two processes name their
backups alike; without it `OriginalKept` fails (two migrations in one second). The
invariant says that only documents of the current schema replace the file
(`OnlyCurrentWritten`), so an old file is the original and one that was replaced
is never loaded as old again; that a process migrates only behind its own whole
copy (`MigrationOrder`); and that the owner of the surviving copy is past the
point of truncating it (`CopySettled`).

`StoreIsAtomic` (`Sole => (Spec => AtomicOperations)`, where `Sole` says that there is
one process) is the refinement itself, for any repositories and values. Its link
invariant (`Tracks`) says that the loaded entries are those of the file until an
operation is applied, and afterwards what the operation makes of them, so that the
rename is the one step in which the operation takes effect.

`StoreIsShared` (`Spec => SharedOperations`) is the refinement for any number of
processes, without a hypothesis on the seconds. What `Tracks` says of the file is no longer
true; what is left is that a process renames its own copy (`OwnCopy`), because no
other writes a temporary file of that name, and that it is whole and of the current
schema when it does.

`BYOLifecycleProofs` proves `TypeCorrect` for any hosts, selections and processes, and,
under `Sole`, `DropIsClean` and `SavedServes`. `Trust` states what a
command may rely on between its steps: an up works on the host of the record and has
name, credentials and unit once it is past the steps for them (`UpTrust`); a down
works on the record it read, and without a failure that counts what it was asked to
remove is gone once the step for it is past (`DownTrust`). A down that skips the host
is one that did not reach it, and that counts as a failure.

`BootstrapProofs` proves `MarkerIsReady` and `UpInstalls` for any repositories on a
host. `Progress` states what the steps before a position have achieved; other
repositories cannot undo it, because the shared host only gains and each has its own
directory. `CacheIsSettled` goes through the steps that touch the shared tarball.

`ReadinessProofs` proves, for any numbers of attempts and any budgets:

* `WaitIsBounded`: `elapsed` is at most the budget, a sleep and what the running
  attempt has taken (`TimeInv`), and an attempt has the budget as its timeout;
* `OnlyFitHosts`: what preflight observed stays true, because it asks only machines
  that have finished their boot (`MachineUnfinished`, `HostInv`);
* `NeverOnBrokenBoot`: the script passes only a boot that is done (`BootInv`);
* `ConsentIsFirst`: by `NothingOwed`, which goes through what may be required item by
  item, for every command line and every choice at the prompts.

`HealthProofs` reads `Classify` as a list of rules of which the first that applies
decides: there is one (`FirstExists`), it is unique, and it is the entry of the list
for every runner, for ephemeral or for persistent ones that it looks like
(`Decided`, `PersistentDecided`). From that it derives on which observations each
verdict and each piece of advice is given (`GoodGrounds`, `BadGrounds`, `RecoverAdvised`,
`DoctorAdvised`, `CleanupAdvised`, `RemedyGrounds`, `EphemeralBusy`).

`RecoveryProofs` proves `JobsSpared` and `OnlyKnownHosts`. A service that was active all
the time was not seen stopped, so there is no plan to restart it (`SteadyInv`); a host
that was replaced before the command began does not get past the comparison of its
key, unless the record has none, and then there is no unit to restart
(`ForeignInv`).

It proves `VerdictsHold`, `ManualIsNeeded`, `AdviceIsUsable` and `PlansHeal` from a second
invariant, `Facts`. As long as nothing has changed since the command began
(`quiet`), each fact it has collected is true of the thing it was asked about, or is
the value that the failed call leaves, or its call was misread (`GitHubSeen`, `ProviderSeen`,
`KeySeen`, `HostSeen`, one per call). With the lemmas about `Health` each property is
then about facts, not about steps.

`EphemeralProofs` proves `RecordGoesLast`, `StaysDown` and `BusyIsSeen` for any number of
runners. A finalized runner has no credentials to start with and its name is not used
again, because its timer unit is still there (`Finalized`); so no step can be the one
that starts a unit or connects a listener of it, which only a configured directory lets
happen (`Revives`, `OnlyConfiguredRevive`). A down without a failed step has run the
preservation script to its end before it removes the directory, so no logs are left
that it did not at least try to copy (`DownSoFar`, `LogsInv`, `Tried`); whether the
copies worked the script does not tell, and the theorem does not say. A
registered recorded runner is the only candidate (`RecordFound`), and the rule for its
job comes before all that its host or its finalizer could trigger.

Every invariant and action property that a passing run checks, and both refinements
of the store, are theorems. Only model-checked is liveness, which is out of the
prover's reach: `BillingStops`, `UpCompletes`, `UpsConverge`, `CredentialsGo`
and `ConvergedIsUsed`. The properties proved under `Sole` are false without it, as runs of
the same configurations with a second process show.

## Not modelled

* Cost plan and pricing, labels and workflow text, rendering, redaction: no state,
  and nothing that depends on an order of steps.
* Logs, list, state, init, wizard, the update check, the checklist file: read-only
  or cosmetic.
* The HTTP and SSH transports, parsing of their output, paging of the runner list
  (a hazard listed in `PROJECT.json`), authentication.
* doctor's scan of a shared host and its repairs of the host's packages.
* A finalizer that, as root, cannot remove the credentials (its last command; that it
  fails before is modelled), and logs written after they were preserved by a runner
  whose stop failed in silence; images without cloud-init (the branch of the
  script for them is unreachable with the images the plan offers); concurrent ups of
  one repository in `Bootstrap`, and concurrent commands in `Recovery`,
  `Ephemeral` and `Readiness`.

## Plan

Done: the modules above, and the proofs about every one of them that has actions.

Next: what commands that overlap may still rely on, above the store. `SharedStore` says
it of `state.json`; for `CloudLifecycle` and `BYOLifecycle` the weaker forms of
`NoSilentOrphan` and `SavedMeansServing` that hold for any number of processes (no loss
but by a command that overlapped) need a history of the overlaps in the model.
