--------------------------- MODULE EphemeralProofs ---------------------------
(***************************************************************************)
(* Proofs about Ephemeral, for any number of runners: a runner whose TTL   *)
(* finalizer has run stays down, a down that drops the record has left no  *)
(* registration and removed no logs but behind a preservation that ended   *)
(* well, and status sees a job that runs.                                  *)
(***************************************************************************)
EXTENDS Ephemeral, HealthProofs

USE RunnersAssumption DEF hostVars

Unarmed == {"configure", "finalizer", "service", "timer"}
Downs   == {"d_stop", "d_uninstall", "d_remove", "d_preserve", "d_files", "d_github", "d_finish"}

\* A command has a runner; an up that has not installed its timer yet has one
\* that was never finalized.
Busy ==
  /\ pc # "idle" => mem.runner \in Runners
  /\ pc \in Unarmed => timer[mem.runner] = "absent"
  /\ pc = "configure" => logs[mem.runner] = "none"

\* The finalizer leaves nothing a service could start with, for good.
Finalized == \A r \in sentinel : timer[r] # "absent" /\ dir[r] # "configured"

\* Logs nobody has tried to copy are in the directory, and lost only with it.
LogsInv == \A r \in Runners :
  /\ logs[r] = "diag" => dir[r] # "absent"
  /\ logs[r] = "lost" => dir[r] = "absent"

\* What a down without a failed step has done so far.
DownSoFar ==
  ~mem.partial =>
    /\ pc \in {"d_preserve", "d_files"} => dir[mem.runner] # "absent"
    /\ pc = "d_files" => logs[mem.runner] # "diag"
    /\ pc \in {"d_github", "d_finish"} => logs[mem.runner] # "lost"
    /\ pc = "d_finish" => reg[mem.runner] = "absent"

IInv == TypeOK /\ Busy /\ Finalized /\ LogsInv /\ DownSoFar

\* The initial states satisfy it.
LEMMA InitIInv == Init => IInv
<1> SUFFICES ASSUME Init PROVE IInv
  OBVIOUS
<1>1. Blank \in Memory
  BY DEF Blank, Memory
<1>2. TypeOK
  BY <1>1 DEF Init, TypeOK, Pcs
<1>3. Busy /\ Finalized /\ LogsInv /\ DownSoFar
  BY DEF Init, Busy, Finalized, LogsInv, DownSoFar, Unarmed
<1> QED
  BY <1>2, <1>3 DEF IInv

\* A step brings a unit, a listener or a readiness for jobs back.
Revives(q) ==
  \/ svc[q] # "active" /\ svc'[q] = "active"
  \/ ~Listening(q) /\ Listening(q)'
  \/ reg[q] = "busy" /\ reg'[q] = "idle"

\* A step leaves logs alone or tries to copy them.
Tried(q) ==
  logs'[q] = logs[q] \/ (logs[q] = "diag" /\ logs'[q] = "tried")

\* What a service that starts, or is stopped, changes.
LEMMA StartedFacts ==
  ASSUME TypeOK, NEW r \in Runners, Started(r)
  PROVE  /\ svc' \in [Runners -> {"absent", "inactive", "active", "failed"}]
         /\ reg' \in [Runners -> {"absent", "offline", "idle", "busy"}]
         /\ logs' \in [Runners -> {"none", "diag", "tried", "lost"}]
         /\ \A q \in Runners : reg[q] = "absent" => reg'[q] = "absent"
         /\ \A q \in Runners : logs'[q] = logs[q] \/ (q = r /\ logs'[q] = "diag" /\ dir[q] = "configured")
         /\ \A q \in Runners : Revives(q) => dir[q] = "configured"
BY DEF Started, Revives, Listening, TypeOK

LEMMA StoppedFacts ==
  ASSUME TypeOK, NEW r \in Runners, Stopped(r)
  PROVE  /\ svc' \in [Runners -> {"absent", "inactive", "active", "failed"}]
         /\ reg' \in [Runners -> {"absent", "offline", "idle", "busy"}]
         /\ \A q \in Runners : reg[q] = "absent" => reg'[q] = "absent"
         /\ \A q \in Runners : ~Revives(q)
BY DEF Stopped, Offline, Revives, Listening, TypeOK

\* What becomes of logs that a script tries to copy.
LEMMA ArchivesFacts ==
  ASSUME TypeOK, NEW r \in Runners, logs' = Archives(r)
  PROVE  /\ logs' \in [Runners -> {"none", "diag", "tried", "lost"}]
         /\ \A q \in Runners : Tried(q)
         /\ dir[r] # "absent" => logs'[r] # "diag"
BY DEF Archives, Tried, TypeOK

\* What host and GitHub leave as it is: that a timer, a directory or a lost
\* registration is there or not; logs change only when a script tries to copy them.
LEMMA HostFrame ==
  ASSUME IInv, TypeOK', UNCHANGED <<pc, mem>>,
         \A q \in Runners : timer'[q] = "absent" <=> timer[q] = "absent",
         \A q \in Runners : dir'[q] = "absent" <=> dir[q] = "absent",
         \A q \in Runners : dir'[q] = "configured" => dir[q] = "configured",
         \A q \in Runners : Tried(q),
         \A q \in Runners : reg[q] = "absent" => reg'[q] = "absent",
         \A q \in sentinel' : q \in sentinel \/ (timer[q] # "absent" /\ dir'[q] # "configured")
  PROVE  IInv'
<1>1. Busy'
  BY DEF IInv, Busy, Unarmed, Tried
<1>2. Finalized'
  <2> SUFFICES ASSUME NEW q \in sentinel' PROVE timer'[q] # "absent" /\ dir'[q] # "configured"
    BY DEF Finalized
  <2>1. q \in Runners
    BY DEF TypeOK
  <2> QED
    BY <2>1 DEF IInv, Finalized
<1>3. LogsInv'
  BY DEF IInv, LogsInv, Tried
<1>4. DownSoFar'
  <2> SUFFICES ASSUME pc # "idle" PROVE DownSoFar'
    BY DEF DownSoFar
  <2>1. mem.runner \in Runners
    BY DEF IInv, Busy
  <2> QED
    BY <2>1 DEF IInv, DownSoFar, Tried
<1> QED
  BY <1>1, <1>2, <1>3, <1>4 DEF IInv

\* A step of the host or GitHub keeps the invariant.
LEMMA HostKeeps ==
  ASSUME IInv, Host
  PROVE  IInv'
<1>1. CASE Reboot
  <2>1. TypeOK'
    BY <1>1 DEF Reboot, IInv, TypeOK
  <2> QED
    BY <1>1, <2>1, HostFrame DEF Reboot, Tried, IInv, TypeOK
<1>2. ASSUME NEW r \in Runners, JobStarts(r) PROVE IInv'
  <2>1. TypeOK'
    BY <1>2 DEF JobStarts, IInv, TypeOK
  <2> QED
    BY <1>2, <2>1, HostFrame DEF JobStarts, Tried, IInv, TypeOK
<1>3. ASSUME NEW r \in Runners, JobEnds(r) PROVE IInv'
  <2>1. TypeOK'
    BY <1>3 DEF JobEnds, IInv, TypeOK
  <2> QED
    BY <1>3, <2>1, HostFrame DEF JobEnds, Tried, IInv, TypeOK
<1>4. ASSUME NEW r \in Runners, RegistrationExpires(r) PROVE IInv'
  <2>1. TypeOK'
    BY <1>4 DEF RegistrationExpires, IInv, TypeOK
  <2> QED
    BY <1>4, <2>1, HostFrame DEF RegistrationExpires, Tried, IInv, TypeOK
<1>5. ASSUME NEW r \in Runners, ServiceDies(r) PROVE IInv'
  <2>1. TypeOK' /\ \A q \in Runners : reg[q] = "absent" => reg'[q] = "absent"
    BY <1>5, StoppedFacts DEF ServiceDies, IInv, TypeOK
  <2> QED
    BY <1>5, <2>1, HostFrame DEF ServiceDies, Tried
<1>6. ASSUME NEW r \in Runners, TTLStop(r) PROVE IInv'
  <2>1. TypeOK' /\ \A q \in Runners : reg[q] = "absent" => reg'[q] = "absent"
    <3>1. CASE Stopped(r)
      BY <1>6, <3>1, StoppedFacts DEF TTLStop, IInv, TypeOK
    <3>2. CASE UNCHANGED <<svc, reg>>
      BY <1>6, <3>2 DEF TTLStop, IInv, TypeOK
    <3> QED
      BY <1>6, <3>1, <3>2 DEF TTLStop
  <2> QED
    BY <1>6, <2>1, HostFrame DEF TTLStop, Tried, IInv, TypeOK
<1>7. ASSUME NEW r \in Runners, TTLFinalize(r) PROVE IInv'
  <2>1. /\ logs' \in [Runners -> {"none", "diag", "tried", "lost"}]
        /\ \A q \in Runners : Tried(q)
    <3>1. logs' = Archives(r) \/ logs' = logs
      BY <1>7 DEF TTLFinalize, FinalizerSucceeds, FinalizerFails
    <3> QED
      BY <3>1, ArchivesFacts DEF IInv, TypeOK, Tried
  <2>2. \/ UNCHANGED dir /\ sentinel' \subseteq sentinel
        \/ /\ dir' = IF dir[r] = "absent" THEN dir ELSE [dir EXCEPT ![r] = "bare"]
           /\ sentinel' = sentinel \cup {r}
    BY <1>7 DEF TTLFinalize, FinalizerSucceeds, FinalizerFails
  <2>3. TypeOK'
    BY <1>7, <2>1, <2>2 DEF TTLFinalize, IInv, TypeOK
  <2>4. timer[r] # "absent" /\ \A q \in sentinel' : q \in sentinel \/ (q = r /\ dir'[r] # "configured")
    BY <1>7, <2>2 DEF TTLFinalize, IInv, TypeOK
  <2> QED
    BY <1>7, <2>1, <2>2, <2>3, <2>4, HostFrame DEF TTLFinalize, IInv, TypeOK
<1>8. ASSUME NEW r \in Runners, ListenerDies(r) PROVE IInv'
  <2>1. TypeOK' /\ \A q \in Runners : reg[q] = "absent" => reg'[q] = "absent"
    BY <1>8 DEF ListenerDies, Offline, IInv, TypeOK
  <2> QED
    BY <1>8, <2>1, HostFrame DEF ListenerDies, Tried
<1> QED
  BY <1>1, <1>2, <1>3, <1>4, <1>5, <1>6, <1>7, <1>8 DEF Host

\* A command that ends.
LEMMA ExitFacts == Blank \in Memory /\ ~Blank.partial
BY DEF Blank, Memory

\* up keeps it: it works on a name nothing else has used.
LEMMA UpKeeps ==
  ASSUME IInv, Up
  PROVE  IInv'
<1> USE ExitFacts DEF Exit, Proceed, TookEffect, Outcomes
<1>1. ASSUME NEW r \in Runners, UpBegin(r) PROVE IInv'
  <2>1. mem' \in Memory /\ mem'.runner = r /\ ~mem'.partial
    BY <1>1 DEF UpBegin, Blank, Memory
  <2> QED
    BY <1>1, <2>1 DEF UpBegin, Fresh, IInv, TypeOK, Busy, Finalized, LogsInv, DownSoFar, Pcs, Unarmed
<1>2. ASSUME NEW out \in Outcomes, Configure(out) PROVE IInv'
  <2> DEFINE r == mem.runner
  <2>1. r \in Runners /\ timer[r] = "absent" /\ logs[r] = "none" /\ r \notin sentinel
    BY <1>2 DEF Configure, IInv, Busy, Finalized, Unarmed
  <2>2. /\ dir' \in [Runners -> {"absent", "bare", "configured"}]
        /\ reg' \in [Runners -> {"absent", "offline", "idle", "busy"}]
        /\ \A q \in Runners \ {r} : dir'[q] = dir[q]
    BY <1>2, <2>1 DEF Configure, IInv, TypeOK
  <2>3. TypeOK'
    BY <1>2, <2>2 DEF Configure, IInv, TypeOK, Pcs
  <2>4. Busy' /\ Finalized' /\ LogsInv' /\ DownSoFar'
    BY <1>2, <2>1, <2>2 DEF Configure, IInv, TypeOK, Busy, Finalized, LogsInv, DownSoFar, Unarmed
  <2> QED
    BY <2>3, <2>4 DEF IInv
<1>3. ASSUME NEW out \in Outcomes, InstallFinalizer(out) \/ VerifyService(out) \/ WaitOnline(out) PROVE IInv'
  <2>1. /\ UNCHANGED <<rec, reg, hostVars>>
        /\ \/ pc' = "idle" /\ mem' = Blank
           \/ /\ pc' \in {"service", "online", "save"} /\ UNCHANGED mem
              /\ pc # "idle" /\ (pc' = "service" => pc = "finalizer")
    BY <1>3 DEF InstallFinalizer, VerifyService, WaitOnline
  <2>2. TypeOK'
    BY <2>1 DEF IInv, TypeOK, Pcs
  <2>3. Busy'
    BY <2>1 DEF IInv, Busy, Unarmed
  <2>4. Finalized' /\ LogsInv' /\ DownSoFar'
    BY <2>1 DEF IInv, Finalized, LogsInv, DownSoFar
  <2> QED
    BY <2>2, <2>3, <2>4 DEF IInv
<1>4. ASSUME NEW out \in Outcomes, InstallService(out) PROVE IInv'
  <2> DEFINE r == mem.runner
  <2>1. r \in Runners
    BY <1>4 DEF InstallService, IInv, Busy
  <2>2. /\ svc' \in [Runners -> {"absent", "inactive", "active", "failed"}]
        /\ reg' \in [Runners -> {"absent", "offline", "idle", "busy"}]
        /\ logs' \in [Runners -> {"none", "diag", "tried", "lost"}]
        /\ \A q \in Runners : logs'[q] = logs[q] \/ (logs'[q] = "diag" /\ dir[q] = "configured")
    BY <1>4, <2>1, StartedFacts DEF InstallService, IInv, TypeOK
  <2>3. TypeOK'
    BY <1>4, <2>2 DEF InstallService, IInv, TypeOK, Pcs
  <2>4. Busy' /\ Finalized' /\ LogsInv' /\ DownSoFar'
    BY <1>4, <2>2 DEF InstallService, IInv, TypeOK, Busy, Finalized, LogsInv, DownSoFar, Unarmed
  <2> QED
    BY <2>3, <2>4 DEF IInv
<1>5. ASSUME NEW out \in Outcomes, InstallTimer(out) PROVE IInv'
  <2>1. /\ mem.runner \in Runners /\ UNCHANGED <<reg, dir, svc, sentinel, logs>>
        /\ pc = "timer" /\ pc' \in {"verify", "idle"} /\ (pc' = "verify" => UNCHANGED mem)
        /\ \A q \in Runners : timer'[q] = timer[q] \/ timer'[q] = "armed"
    BY <1>5 DEF InstallTimer, IInv, TypeOK, Busy
  <2>2. TypeOK'
    BY <1>5, <2>1 DEF InstallTimer, IInv, TypeOK, Pcs
  <2>3. Busy'
    BY <2>1 DEF Busy, Unarmed
  <2>4. Finalized' /\ LogsInv'
    BY <2>1 DEF IInv, TypeOK, Finalized, LogsInv
  <2>5. DownSoFar'
    BY <2>1 DEF DownSoFar
  <2> QED
    BY <2>2, <2>3, <2>4, <2>5 DEF IInv
<1>6. ASSUME NEW out \in Outcomes, Save(out) PROVE IInv'
  <2>1. TypeOK'
    BY <1>6 DEF Save, IInv, TypeOK, Busy, Pcs
  <2>2. Busy' /\ Finalized' /\ LogsInv' /\ DownSoFar'
    BY <1>6 DEF Save, IInv, Busy, Finalized, LogsInv, DownSoFar, Unarmed
  <2> QED
    BY <2>1, <2>2 DEF IInv
<1> QED
  BY <1>1, <1>2, <1>3, <1>4, <1>5, <1>6 DEF Up

\* recover, and the end of a command that dies.
LEMMA OthersKeep ==
  ASSUME IInv, RecoverBegin \/ (\E out \in Outcomes : RestartService(out)) \/ Die
  PROVE  IInv'
<1> USE ExitFacts DEF Exit, TookEffect, Outcomes
<1>1. CASE RecoverBegin
  <2>1. rec \in Runners /\ mem' \in Memory /\ mem'.runner = rec /\ ~mem'.partial
    BY <1>1 DEF RecoverBegin, Blank, Memory, IInv, TypeOK
  <2> QED
    BY <1>1, <2>1 DEF RecoverBegin, IInv, TypeOK, Busy, Finalized, LogsInv, DownSoFar, Pcs, Unarmed
<1>2. ASSUME NEW out \in Outcomes, RestartService(out) PROVE IInv'
  <2>1. mem.runner \in Runners
    BY <1>2 DEF RestartService, IInv, Busy
  <2>2. /\ svc' \in [Runners -> {"absent", "inactive", "active", "failed"}]
        /\ reg' \in [Runners -> {"absent", "offline", "idle", "busy"}]
        /\ logs' \in [Runners -> {"none", "diag", "tried", "lost"}]
        /\ \A q \in Runners : logs'[q] = logs[q] \/ (logs'[q] = "diag" /\ dir[q] = "configured")
    <3>1. CASE Started(mem.runner)
      BY <2>1, <3>1, StartedFacts DEF IInv
    <3>2. CASE UNCHANGED <<svc, reg, logs>>
      BY <3>2 DEF IInv, TypeOK
    <3> QED
      BY <1>2, <3>1, <3>2 DEF RestartService
  <2>3. pc' = "idle" /\ mem' = Blank /\ UNCHANGED <<rec, dir, timer, sentinel>>
    BY <1>2 DEF RestartService
  <2>4. TypeOK'
    BY <2>2, <2>3 DEF IInv, TypeOK, Pcs
  <2>5. Busy' /\ Finalized' /\ LogsInv' /\ DownSoFar'
    BY <2>2, <2>3 DEF IInv, Busy, Finalized, LogsInv, DownSoFar, Unarmed
  <2> QED
    BY <2>4, <2>5 DEF IInv
<1>3. CASE Die
  BY <1>3 DEF Die, IInv, TypeOK, Busy, Finalized, LogsInv, DownSoFar, Pcs, Unarmed
<1> QED
  BY <1>1, <1>2, <1>3

\* down keeps it: it goes on after a failure, but remembers it.
LEMMA DownKeeps ==
  ASSUME IInv, Down
  PROVE  IInv'
<1> USE ExitFacts DEF Exit, TookEffect, Outcomes, Continue
<1>1. ASSUME NEW reach \in BOOLEAN, DownBegin(reach) PROVE IInv'
  <2>1. rec \in Runners /\ mem' \in Memory /\ mem'.runner = rec /\ mem'.partial = ~reach
    BY <1>1 DEF DownBegin, Blank, Memory, IInv, TypeOK
  <2>2. pc' \in {"d_stop", "d_github"} /\ (pc' = "d_github" => mem'.partial)
    BY <1>1, <2>1 DEF DownBegin
  <2> QED
    BY <1>1, <2>1, <2>2 DEF DownBegin, IInv, TypeOK, Busy, Finalized, LogsInv, DownSoFar, Pcs, Unarmed
<1>2. mem \in Memory
  BY DEF IInv, TypeOK
<1>3. ASSUME NEW out \in Outcomes \cup {"swallowed"}, StopRunner(out) PROVE IInv'
  <2>1. mem.runner \in Runners
    BY <1>3 DEF StopRunner, IInv, Busy
  <2>2. /\ svc' \in [Runners -> {"absent", "inactive", "active", "failed"}]
        /\ reg' \in [Runners -> {"absent", "offline", "idle", "busy"}]
    BY <1>3, <2>1, StoppedFacts DEF StopRunner, IInv, TypeOK
  <2>3. mem' \in Memory /\ mem'.runner = mem.runner
    BY <1>2, <1>3 DEF StopRunner, Memory
  <2>4. pc' \in {"d_uninstall", "d_remove"}
    BY <1>3 DEF StopRunner
  <2> QED
    BY <1>3, <2>1, <2>2, <2>3, <2>4 DEF StopRunner, IInv, TypeOK, Busy, Finalized, LogsInv, DownSoFar, Pcs, Unarmed
<1>4. ASSUME NEW out \in Outcomes, RemoveConfig(out) PROVE IInv'
  <2> DEFINE r == mem.runner
  <2>1. r \in Runners
    BY <1>4 DEF RemoveConfig, IInv, Busy
  <2>2. /\ dir' \in [Runners -> {"absent", "bare", "configured"}]
        /\ reg' \in [Runners -> {"absent", "offline", "idle", "busy"}]
        /\ \A q \in Runners : dir'[q] = dir[q] \/ (dir[q] = "configured" /\ dir'[q] = "bare")
    BY <1>4, <2>1 DEF RemoveConfig, IInv, TypeOK
  <2>3. mem' \in Memory /\ mem'.runner = r /\ (~mem'.partial => out = "ok") /\ pc' = "d_preserve"
    BY <1>2, <1>4 DEF RemoveConfig, Memory
  <2>4. ~mem'.partial => dir[r] # "absent"
    BY <1>4, <2>3 DEF RemoveConfig
  <2> QED
    BY <1>4, <2>1, <2>2, <2>3, <2>4 DEF RemoveConfig, IInv, TypeOK, Busy, Finalized, LogsInv, DownSoFar, Pcs, Unarmed
<1>5. ASSUME NEW out \in Outcomes, PreserveLogs(out) PROVE IInv'
  <2> DEFINE r == mem.runner
  <2>1. r \in Runners
    BY <1>5 DEF PreserveLogs, IInv, Busy
  <2>2. /\ logs' \in [Runners -> {"none", "diag", "tried", "lost"}]
        /\ \A q \in Runners : Tried(q)
        /\ out = "ok" /\ dir[r] # "absent" => logs'[r] # "diag"
    BY <1>5, <2>1, ArchivesFacts DEF PreserveLogs, Tried, IInv, TypeOK
  <2>3. mem' \in Memory /\ mem'.runner = r /\ (~mem'.partial => out = "ok" /\ ~mem.partial) /\ pc' = "d_files"
    BY <1>2, <1>5 DEF PreserveLogs, Memory
  <2> QED
    BY <1>5, <2>1, <2>2, <2>3 DEF PreserveLogs, Tried, IInv, TypeOK, Busy, Finalized, LogsInv, DownSoFar, Pcs, Unarmed
<1>6. ASSUME NEW out \in Outcomes, RemoveFiles(out) PROVE IInv'
  <2> DEFINE r == mem.runner
  <2>1. r \in Runners
    BY <1>6 DEF RemoveFiles, IInv, Busy
  <2>2. /\ dir' \in [Runners -> {"absent", "bare", "configured"}]
        /\ logs' \in [Runners -> {"none", "diag", "tried", "lost"}]
        /\ \A q \in Runners : \/ dir'[q] = dir[q] /\ logs'[q] = logs[q]
                              \/ /\ q = r /\ dir'[q] = "absent"
                                 /\ logs'[q] = IF logs[q] = "diag" THEN "lost" ELSE logs[q]
    BY <1>6, <2>1 DEF RemoveFiles, IInv, TypeOK
  <2>3. mem' \in Memory /\ mem'.runner = r /\ (~mem'.partial => ~mem.partial) /\ pc' = "d_github"
    BY <1>2, <1>6 DEF RemoveFiles, Memory
  <2> QED
    BY <1>6, <2>1, <2>2, <2>3 DEF RemoveFiles, IInv, TypeOK, Busy, Finalized, LogsInv, DownSoFar, Pcs, Unarmed
<1>7. ASSUME NEW out \in Outcomes, DeleteRunner(out) PROVE IInv'
  <2> DEFINE r == mem.runner
  <2>1. r \in Runners
    BY <1>7 DEF DeleteRunner, IInv, Busy
  <2>2. /\ reg' \in [Runners -> {"absent", "offline", "idle", "busy"}]
        /\ out = "ok" => reg'[r] = "absent"
    BY <1>7, <2>1 DEF DeleteRunner, IInv, TypeOK
  <2>3. mem' \in Memory /\ mem'.runner = r /\ (~mem'.partial => out = "ok" /\ ~mem.partial) /\ pc' = "d_finish"
    BY <1>2, <1>7 DEF DeleteRunner, Memory
  <2> QED
    BY <1>7, <2>1, <2>2, <2>3 DEF DeleteRunner, IInv, TypeOK, Busy, Finalized, LogsInv, DownSoFar, Pcs, Unarmed
<1>8. ASSUME NEW out \in Outcomes, DownFinish(out) PROVE IInv'
  BY <1>8 DEF DownFinish, IInv, TypeOK, Busy, Finalized, LogsInv, DownSoFar, Pcs, Unarmed
<1> QED
  BY <1>1, <1>3, <1>4, <1>5, <1>6, <1>7, <1>8 DEF Down

\* Every step keeps the invariant.
LEMMA StepIInv == IInv /\ [Next]_vars => IInv'
<1> SUFFICES ASSUME IInv, [Next]_vars PROVE IInv'
  OBVIOUS
<1>1. CASE UNCHANGED vars
  BY <1>1 DEF vars, IInv, TypeOK, Busy, Finalized, LogsInv, DownSoFar
<1> QED
  BY <1>1, UpKeeps, DownKeeps, OthersKeep, HostKeeps DEF Next

\* The inductive invariant holds for any runners.
THEOREM Invariance == Spec => []IInv
BY InitIInv, StepIInv, PTL DEF Spec

\* Type correctness.
THEOREM TypeCorrect == Spec => []TypeOK
<1>1. IInv => TypeOK
  BY DEF IInv
<1> QED
  BY <1>1, Invariance, PTL

\* A down about to drop the record has left no registration, and removed no
\* logs but behind a preservation that ended well.
THEOREM RecordGoesLast == Spec => []DroppedClean
<1>1. IInv => DroppedClean
  BY DEF IInv, DownSoFar, DroppedClean
<1> QED
  BY <1>1, Invariance, PTL

\* Only where the runner is configured does anything bring it back.
LEMMA OnlyConfiguredRevive ==
  ASSUME IInv, Next
  PROVE  \A r \in Runners : Revives(r) => dir[r] = "configured"
<1>1. ASSUME UNCHANGED <<svc, reg>> PROVE \A r \in Runners : ~Revives(r)
  BY <1>1 DEF Revives, Listening
<1>2. ASSUME NEW r \in Runners, reg' = [reg EXCEPT ![r] = "absent"], svc' \in {svc, [svc EXCEPT ![r] = "failed"]}
      PROVE  \A q \in Runners : ~Revives(q)
  BY <1>2 DEF Revives, Listening, IInv, TypeOK
<1>3. CASE RecoverBegin \/ (\E out \in Outcomes : RestartService(out)) \/ Die
  <2>1. CASE \E out \in Outcomes : RestartService(out)
    <3>1. mem.runner \in Runners
      BY <2>1 DEF RestartService, IInv, Busy
    <3> QED
      BY <1>1, <2>1, <3>1, StartedFacts DEF RestartService, IInv
  <2> QED
    BY <1>1, <1>3, <2>1 DEF RecoverBegin, Die, hostVars
<1>4. CASE Host
  <2>1. CASE \E r \in Runners : ServiceDies(r) \/ TTLStop(r)
    BY <1>1, <2>1, StoppedFacts DEF ServiceDies, TTLStop, IInv
  <2>2. CASE Reboot
    BY <2>2 DEF Reboot, Revives, Listening, IInv, TypeOK
  <2>3. CASE \E r \in Runners : JobEnds(r)
    BY <2>3 DEF JobEnds, Revives, Listening, IInv, TypeOK
  <2>4. CASE \E r \in Runners : JobStarts(r)
    BY <2>4 DEF JobStarts, Revives, Listening, IInv, TypeOK
  <2>5. ASSUME NEW r \in Runners, ListenerDies(r) \/ RegistrationExpires(r)
        PROVE  \A q \in Runners : ~Revives(q)
    <3>1. UNCHANGED svc /\ reg' \in {reg, [reg EXCEPT ![r] = "offline"], [reg EXCEPT ![r] = "absent"]}
      BY <2>5 DEF ListenerDies, RegistrationExpires, Offline, hostVars
    <3> QED
      BY <3>1 DEF Revives, Listening, IInv, TypeOK
  <2>6. CASE \E r \in Runners : TTLFinalize(r)
    BY <1>1, <2>6 DEF TTLFinalize
  <2> QED
    BY <1>4, <2>1, <2>2, <2>3, <2>4, <2>5, <2>6 DEF Host
<1>5. CASE Up
  <2>1. CASE \E out \in Outcomes : Configure(out)
    <3>1. mem.runner \in Runners /\ UNCHANGED svc
      BY <2>1 DEF Configure, IInv, Busy
    <3>2. reg' = reg \/ reg' = [reg EXCEPT ![mem.runner] = "offline"]
      BY <2>1 DEF Configure
    <3> QED
      BY <3>1, <3>2 DEF Revives, Listening, IInv, TypeOK
  <2>2. CASE \E out \in Outcomes : InstallService(out)
    <3>1. mem.runner \in Runners
      BY <2>2 DEF InstallService, IInv, Busy
    <3>2. CASE Started(mem.runner)
      BY <3>1, <3>2, StartedFacts DEF IInv
    <3>3. CASE svc' \in {svc, [svc EXCEPT ![mem.runner] = "inactive"]} /\ UNCHANGED reg
      BY <3>1, <3>3 DEF Revives, Listening, IInv, TypeOK
    <3> QED
      BY <2>2, <3>2, <3>3 DEF InstallService
  <2>3. CASE \/ \E r \in Runners : UpBegin(r)
             \/ \E out \in Outcomes :
                  \/ InstallFinalizer(out) \/ InstallTimer(out)
                  \/ VerifyService(out) \/ WaitOnline(out) \/ Save(out)
    BY <1>1, <2>3 DEF UpBegin, InstallFinalizer, InstallTimer, VerifyService, WaitOnline, Save
  <2> QED
    BY <1>5, <2>1, <2>2, <2>3 DEF Up
<1>6. CASE Down
  <2>1. CASE \E out \in Outcomes \cup {"swallowed"} : StopRunner(out)
    <3>1. mem.runner \in Runners
      BY <2>1 DEF StopRunner, IInv, Busy
    <3> QED
      BY <1>1, <2>1, <3>1, StoppedFacts DEF StopRunner, IInv
  <2>2. CASE \E out \in Outcomes : RemoveConfig(out) \/ DeleteRunner(out)
    <3>1. mem.runner \in Runners /\ UNCHANGED svc
      BY <2>2 DEF RemoveConfig, DeleteRunner, IInv, Busy
    <3>2. reg' = reg \/ reg' = [reg EXCEPT ![mem.runner] = "absent"]
      BY <2>2 DEF RemoveConfig, DeleteRunner
    <3> QED
      BY <1>1, <1>2, <3>1, <3>2
  <2>3. CASE \/ \E reach \in BOOLEAN : DownBegin(reach)
             \/ \E out \in Outcomes : PreserveLogs(out) \/ RemoveFiles(out) \/ DownFinish(out)
    BY <1>1, <2>3 DEF DownBegin, PreserveLogs, RemoveFiles, DownFinish
  <2> QED
    BY <1>6, <2>1, <2>2, <2>3 DEF Down
<1> QED
  BY <1>3, <1>4, <1>5, <1>6 DEF Next

\* Nothing brings a finalized runner back, neither its unit nor a listener.
THEOREM StaysDown == Spec => FinalizedStaysDown
<1>1. ASSUME IInv, [Next]_vars
      PROVE  [\A r \in sentinel :
                /\ svc[r] # "active" => svc'[r] # "active"
                /\ ~Listening(r) => ~Listening(r)'
                /\ reg[r] = "busy" => reg'[r] # "idle"]_vars
  <2>1. CASE UNCHANGED vars
    BY <2>1
  <2>2. CASE Next
    BY <1>1, <2>2, OnlyConfiguredRevive DEF IInv, Finalized, TypeOK, Revives
  <2> QED
    BY <1>1, <2>1, <2>2
<1> QED
  BY <1>1, Invariance, PTL DEF FinalizedStaysDown, Spec

------------------------------------------------------------------------------
(* What status says of a runner at work *)

\* The recorded runner is the one found as long as it is registered, whatever
\* other registrations carry its labels.
LEMMA RecordFound ==
  ASSUME TypeOK, NEW expired, rec # NoRunner, reg[rec] # "absent"
  PROVE  /\ Ordinary(Observed(expired)) /\ Observed(expired).mode = "ephemeral"
         /\ Observed(expired).github = "found"
         /\ Observed(expired).busy <=> reg[rec] = "busy"
         /\ ~Observed(expired).pending /\ (Observed(expired).expired <=> expired)
<1>1. rec \in Listed
  BY DEF TypeOK, Listed
<1>2. Candidates = {rec}
  BY <1>1 DEF Candidates
<1>3. (CHOOSE r \in Candidates : TRUE) = rec
  BY <1>2
<1>4. Candidates # {} /\ \A r, s \in Candidates : r = s
  BY <1>2
<1> QED
  BY <1>2, <1>3, <1>4 DEF Observed, Ordinary

\* A job is seen, whatever the other runners' leftovers and its own finalizer
\* look like.
THEOREM BusyIsSeen == Spec => []JobSeen
<1>1. TypeOK => JobSeen
  <2> SUFFICES ASSUME TypeOK, rec # NoRunner, reg[rec] = "busy"
               PROVE  Classify(Observed(FALSE)).health = "busy"
    BY DEF JobSeen
  <2>1. /\ Ordinary(Observed(FALSE)) /\ Observed(FALSE).mode = "ephemeral"
        /\ Observed(FALSE).github = "found" /\ Observed(FALSE).busy
        /\ ~Observed(FALSE).pending /\ ~Observed(FALSE).expired
    BY RecordFound
  <2> QED
    BY <2>1, EphemeralBusy
<1> QED
  BY <1>1, TypeCorrect, PTL
==============================================================================
