-------------------------- MODULE BYOLifecycleProofs --------------------------
(***************************************************************************)
(* Proofs about BYOLifecycle, for any hosts and any selections: the types, *)
(* with any number of processes, and with one process at a time what the   *)
(* record says after up and down.                                          *)
(***************************************************************************)
EXTENDS BYOLifecycle, TLAPS

USE HostsAssumption DEF hostVars

WorldOK ==
  /\ rec \in Records /\ (rec.kind = "byo" => rec.host \in Hosts)
  /\ registered \in Hosts \cup {NoHost, Foreign}
  /\ configured \subseteq files /\ files \subseteq Hosts
  /\ active \subseteq unit /\ unit \subseteq Hosts

\* A process at x with the local variables m: it works on a host, and down
\* does only what was selected.
ProcOK(x, m) ==
  /\ x \in Pcs /\ m \in Memory
  /\ x \in UpPcs => m.host \in Hosts
  /\ m.snap.kind = "byo" => m.snap.host \in Hosts
  /\ x = "d_remove" => "host_registration" \in m.sel
  /\ x \in {"d_stop", "d_uninstall", "d_remove", "d_files"}
       => m.reach /\ NeedsRunnerStop(m.sel)

ProcsOK ==
  /\ pc \in [Procs -> Pcs] /\ mem \in [Procs -> Memory]
  /\ \A p \in Procs : ProcOK(pc[p], mem[p])

Typed == WorldOK /\ ProcsOK

\* What the run of TLC checks follows.
LEMMA TypedType == Typed => TypeOK
BY DEF Typed, WorldOK, ProcsOK, ProcOK, TypeOK

\* Records and local variables of a process that does nothing.
LEMMA BlankFacts ==
  /\ NoRec \in Records /\ CloudRec \in Records
  /\ Blank \in Memory /\ ProcOK("idle", Blank)
  /\ NoRec.kind = "none" /\ CloudRec.kind = "cloud" /\ Blank.snap = NoRec
BY DEF Blank, Memory, NoRec, CloudRec, Records, ProcOK, Pcs, UpPcs, DownPcs

\* One process moves, the others stay.
LEMMA Move ==
  ASSUME ProcsOK, NEW p \in Procs, NEW x, NEW m, ProcOK(x, m),
         pc' = [pc EXCEPT ![p] = x], mem' = [mem EXCEPT ![p] = m]
  PROVE  ProcsOK'
BY DEF ProcsOK, ProcOK

LEMMA MoveOn ==
  ASSUME ProcsOK, NEW p \in Procs, NEW x, ProcOK(x, mem[p]), Goto(p, x)
  PROVE  ProcsOK'
BY DEF ProcsOK, ProcOK, Goto

LEMMA MoveOut ==
  ASSUME ProcsOK, NEW p \in Procs, Exit(p)
  PROVE  ProcsOK'
BY Move, BlankFacts DEF Exit

\* A process of up keeps its local variables until it ends.
LEMMA MoveUp ==
  ASSUME ProcsOK, NEW p \in Procs, NEW out, NEW x \in UpPcs, pc[p] \in UpPcs,
         Proceed(p, out, x)
  PROVE  ProcsOK'
<1>1. ProcOK(x, mem[p])
  BY DEF ProcsOK, ProcOK, Pcs, UpPcs
<1> QED
  BY <1>1, MoveOn, MoveOut DEF Proceed

LEMMA TypedInit == Init => Typed
<1> SUFFICES ASSUME Init PROVE Typed
  OBVIOUS
<1>1. WorldOK
  BY BlankFacts DEF Init, WorldOK
<1>2. ProcsOK
  BY BlankFacts DEF Init, ProcsOK, Pcs
<1> QED
  BY <1>1, <1>2 DEF Typed

LEMMA UpTyped ==
  ASSUME Typed, NEW p \in Procs, Up(p)
  PROVE  Typed'
<1> USE DEF Typed
<1>h. pc[p] \in UpPcs => mem[p].host \in Hosts
  BY DEF ProcsOK, ProcOK
<1>1. ASSUME NEW h \in Hosts, UpBegin(p, h) PROVE Typed'
  <2> DEFINE m == [Blank EXCEPT !.host = h, !.repl = rec.kind = "byo"]
  <2>1. ProcOK("check_name", m)
    BY BlankFacts DEF ProcOK, Memory, Pcs, UpPcs, Blank
  <2>2. ProcsOK'
    BY <1>1, <2>1, Move DEF UpBegin, Start
  <2> QED
    BY <1>1, <2>2 DEF UpBegin, WorldOK
<1>2. ASSUME NEW out \in Outcomes, UpStep(p, out) PROVE Typed'
  <2>1. CASE CheckName(p, out)
    <3>1. ProcsOK'
      BY <2>1, MoveUp, MoveOut DEF CheckName, UpPcs
    <3> QED
      BY <2>1, <3>1 DEF CheckName, WorldOK
  <2>2. CASE Download(p, out)
    <3>1. ProcsOK'
      BY <2>2, MoveUp DEF Download, UpPcs
    <3> QED
      BY <1>h, <2>2, <3>1 DEF Download, WorldOK, UpPcs
  <2>3. CASE ConfigureRunner(p, out)
    <3>1. ProcsOK'
      BY <2>3, MoveUp DEF ConfigureRunner, UpPcs
    <3> QED
      BY <1>h, <2>3, <3>1 DEF ConfigureRunner, WorldOK, UpPcs
  <2>4. CASE InstallService(p, out)
    <3>1. ProcsOK'
      BY <2>4, MoveUp DEF InstallService, UpPcs
    <3> QED
      BY <1>h, <2>4, <3>1 DEF InstallService, WorldOK, UpPcs
  <2>5. CASE VerifyService(p, out) \/ WaitOnline(p, out)
    <3>1. ProcsOK'
      BY <2>5, MoveUp DEF VerifyService, WaitOnline, UpPcs
    <3> QED
      BY <2>5, <3>1 DEF VerifyService, WaitOnline, WorldOK
  <2>6. CASE SaveRepositoryState(p, out)
    <3>1. ProcsOK'
      BY <2>6, MoveOut DEF SaveRepositoryState
    <3> QED
      BY <1>h, <2>6, <3>1 DEF SaveRepositoryState, WorldOK, UpPcs, ByoRec, Records
  <2> QED
    BY <1>2, <2>1, <2>2, <2>3, <2>4, <2>5, <2>6 DEF UpStep
<1> QED
  BY <1>1, <1>2 DEF Up

LEMMA DownTyped ==
  ASSUME Typed, NEW p \in Procs, Down(p)
  PROVE  Typed'
<1> USE DEF Typed
<1>m. ProcOK(pc[p], mem[p])
  BY DEF ProcsOK
<1>p. /\ {"idle", "d_stop", "d_uninstall", "d_remove", "d_files", "d_github", "d_finish"} \subseteq Pcs
      /\ UpPcs \cap {"idle", "d_stop", "d_uninstall", "d_remove", "d_files", "d_github", "d_finish"} = {}
  BY DEF Pcs, UpPcs, DownPcs
<1>1. ASSUME NEW sel \in Selections, NEW reach \in BOOLEAN, DownBegin(p, sel, reach) PROVE Typed'
  <2> DEFINE m == [Blank EXCEPT !.host = rec.host, !.snap = rec, !.sel = sel, !.reach = reach]
             x == IF reach /\ NeedsRunnerStop(sel) THEN "d_stop" ELSE "d_github"
  <2>1. ProcOK(x, m)
    BY <1>p, BlankFacts DEF ProcOK, Memory, Blank, WorldOK, Records
  <2>2. ProcsOK'
    BY <1>1, <2>1, Move DEF DownBegin, Start
  <2> QED
    BY <1>1, <2>2 DEF DownBegin, WorldOK
<1>2. ASSUME NEW out \in Outcomes, StopRunner(p, out) PROVE Typed'
  <2> DEFINE m == [mem[p] EXCEPT !.failed = out # "ok"]
             x == IF NeedsSvcTeardown(mem[p].sel) THEN "d_uninstall" ELSE "d_files"
  <2>1. ProcOK(x, m)
    BY <1>2, <1>m, <1>p DEF StopRunner, ProcOK, Memory
  <2>2. ProcsOK'
    BY <1>2, <2>1, Move DEF StopRunner, Continue
  <2> QED
    BY <1>2, <2>2 DEF StopRunner, WorldOK
<1>3. ASSUME NEW out \in Outcomes \cup {"swallowed"}, UninstallService(p, out) PROVE Typed'
  <2> DEFINE c == [mem[p] EXCEPT !.failed = FALSE]
             m == IF "systemd_service" \in mem[p].sel
                       /\ (mem[p].failed \/ out \in {"error", "lost"})
                  THEN Pending(c) ELSE c
             x == IF "host_registration" \in mem[p].sel THEN "d_remove"
                  ELSE AfterService(mem[p].sel)
  <2>1. ProcOK(x, m)
    BY <1>3, <1>m, <1>p DEF UninstallService, ProcOK, Memory, Pending, AfterService
  <2>2. ProcsOK'
    BY <1>3, <2>1, Move DEF UninstallService, Continue
  <2> QED
    BY <1>3, <2>2 DEF UninstallService, WorldOK
<1>4. ASSUME NEW out \in Outcomes \cup {"absent", "no_token"}, RemoveConfig(p, out) PROVE Typed'
  <2> DEFINE x == AfterService(mem[p].sel)
  <2>1. ProcOK(x, mem[p]) /\ ProcOK(x, Pending(mem[p]))
    BY <1>4, <1>m, <1>p DEF RemoveConfig, ProcOK, Memory, Pending, AfterService
  <2>2. ProcsOK'
    BY <1>4, <2>1, Move, MoveOn, MoveOut DEF RemoveConfig, Continue
  <2>3. /\ configured' \subseteq configured
        /\ registered' \in {registered, NoHost}
    BY <1>4 DEF RemoveConfig, Unconfigure
  <2> QED
    BY <1>4, <2>2, <2>3 DEF RemoveConfig, WorldOK
<1>5. ASSUME NEW out \in Outcomes, RemoveFiles(p, out) PROVE Typed'
  <2>1. ProcOK("d_github", mem[p])
    BY <1>5, <1>m, <1>p DEF RemoveFiles, ProcOK
  <2>2. ProcsOK'
    BY <1>5, <2>1, MoveOn DEF RemoveFiles
  <2> QED
    BY <1>5, <2>2 DEF RemoveFiles, WorldOK
<1>6. ASSUME NEW out \in Outcomes, DeleteRunner(p, out) PROVE Typed'
  <2>1. ProcOK("d_finish", mem[p]) /\ ProcOK("d_finish", Pending(mem[p]))
    BY <1>6, <1>m, <1>p DEF DeleteRunner, ProcOK, Memory, Pending
  <2>2. ProcsOK'
    BY <1>6, <2>1, Move DEF DeleteRunner, Continue
  <2> QED
    BY <1>6, <2>2 DEF DeleteRunner, WorldOK
<1>7. ASSUME NEW out \in Outcomes, DownFinish(p, out) PROVE Typed'
  <2>1. rec' \in {rec, mem[p].snap, NoRec}
    BY <1>7 DEF DownFinish, CleanedUp, Update
  <2>2. ProcsOK'
    BY <1>7, MoveOut DEF DownFinish
  <2>3. rec' \in Records /\ (rec'.kind = "byo" => rec'.host \in Hosts)
    BY <1>m, <2>1, BlankFacts DEF WorldOK, ProcOK, Memory
  <2> QED
    BY <1>7, <2>2, <2>3 DEF DownFinish, WorldOK
<1> QED
  BY <1>1, <1>2, <1>3, <1>4, <1>5, <1>6, <1>7 DEF Down, DownStep

LEMMA OthersTyped ==
  ASSUME Typed, NEW p \in Procs,
         \/ DownWithoutState(p) \/ Crash(p) \/ RestartService(p)
         \/ CloudBegin(p) \/ CloudSave(p) \/ CloudDestroyed(p)
  PROVE  Typed'
<1> USE DEF Typed
<1>1. CASE DownWithoutState(p) \/ RestartService(p) \/ CloudDestroyed(p)
  BY <1>1, BlankFacts DEF DownWithoutState, RestartService, CloudDestroyed, WorldOK, ProcsOK
<1>2. CASE Crash(p)
  BY <1>2, MoveOut DEF Crash, WorldOK
<1>3. CASE CloudBegin(p)
  <2>1. ProcOK("cloud_save", [Blank EXCEPT !.repl = rec.kind = "byo"])
    BY BlankFacts DEF ProcOK, Memory, Pcs, UpPcs, Blank
  <2>2. ProcsOK'
    BY <1>3, <2>1, Move DEF CloudBegin, Start
  <2> QED
    BY <1>3, <2>2 DEF CloudBegin, WorldOK
<1>4. CASE CloudSave(p)
  <2>1. ProcsOK'
    BY <1>4, MoveOut DEF CloudSave
  <2> QED
    BY <1>4, <2>1, BlankFacts DEF CloudSave, WorldOK
<1> QED
  BY <1>1, <1>2, <1>3, <1>4

LEMMA TypedStep == Typed /\ [Next]_vars => Typed'
<1> SUFFICES ASSUME Typed, [Next]_vars PROVE Typed'
  OBVIOUS
<1>1. CASE UNCHANGED vars
  BY <1>1 DEF vars, Typed, WorldOK, ProcsOK
<1>2. CASE \E h \in Hosts : ServiceStops(h)
  BY <1>2 DEF ServiceStops, Typed, WorldOK, ProcsOK
<1> QED
  BY <1>1, <1>2, UpTyped, DownTyped, OthersTyped DEF Next

LEMMA AlwaysTyped == Spec => []Typed
BY TypedInit, TypedStep, PTL DEF Spec

\* Type correctness, for any number of processes.
THEOREM TypeCorrect == Spec => []TypeOK
BY AlwaysTyped, TypedType, PTL

------------------------------------------------------------------------------
(* One process at a time *)

Sole == \A p, q \in Procs : p = q

\* An up works on the host of the record, if there is one, and has the name
\* and a unit there once the steps for them are past.
UpTrust(p) ==
  /\ pc[p] \in UpPcs => /\ rec.kind # "cloud"
                        /\ rec.kind = "byo" => rec.host = mem[p].host
  /\ pc[p] \in {"install_service", "verify_service", "wait_online", "up_save"}
       => registered = mem[p].host /\ mem[p].host \in configured
  /\ pc[p] \in {"verify_service", "wait_online", "up_save"} => mem[p].host \in unit

\* A down works on the record it read.  Without a failure that counts, what it
\* was asked to remove is gone once the step for it is past.
DownTrust(p) ==
  /\ pc[p] \in DownPcs => rec = mem[p].snap /\ rec.kind = "byo"
  /\ pc[p] \in {"d_files", "d_github", "d_finish"}
       /\ "host_registration" \in mem[p].sel /\ ~Partial(mem[p])
     => mem[p].host \notin unit /\ (registered = mem[p].host => mem[p].host \notin configured)
  /\ pc[p] = "d_finish" /\ "github_runner" \in mem[p].sel /\ ~Partial(mem[p])
     => registered \notin Hosts

Trust == \A p \in Procs : UpTrust(p) /\ DownTrust(p)

IInv == Typed /\ Trust

\* Where a process that moves is.
LEMMA Moved ==
  ASSUME Typed, NEW p \in Procs, NEW x, NEW m,
         pc' = [pc EXCEPT ![p] = x], mem' = [mem EXCEPT ![p] = m]
  PROVE  pc'[p] = x /\ mem'[p] = m
BY DEF Typed, ProcsOK

\* What it trusts depends on where it is.
LEMMA SoleTrust ==
  ASSUME Sole, NEW p \in Procs,
         \/ pc'[p] \in UpPcs /\ UpTrust(p)'
         \/ pc'[p] \in DownPcs /\ DownTrust(p)'
         \/ pc'[p] \in {"idle", "cloud_save"}
  PROVE  Trust'
<1>1. \A q \in Procs : q = p
  BY DEF Sole
<1>2. UpTrust(p)' /\ DownTrust(p)'
  BY DEF UpTrust, DownTrust, UpPcs, DownPcs
<1> QED
  BY <1>1, <1>2 DEF Trust

LEMMA ExitTrust ==
  ASSUME Sole, Typed, NEW p \in Procs, Exit(p)
  PROVE  Trust'
BY Moved, SoleTrust DEF Exit

LEMMA UpKeepsTrust ==
  ASSUME Sole, IInv, NEW p \in Procs, Up(p)
  PROVE  Trust'
<1>t. Typed /\ UpTrust(p) /\ (pc[p] \in UpPcs => mem[p].host \in Hosts)
  BY DEF IInv, Trust, Typed, ProcsOK, ProcOK
<1>g. ASSUME NEW x, Goto(p, x) PROVE pc'[p] = x /\ mem'[p] = mem[p]
  BY <1>g, <1>t DEF Goto, Typed, ProcsOK
<1>1. ASSUME NEW h \in Hosts, UpBegin(p, h) PROVE Trust'
  <2> DEFINE m == [Blank EXCEPT !.host = h, !.repl = rec.kind = "byo"]
  <2>1. pc'[p] = "check_name" /\ mem'[p] = m
    BY <1>1, <1>t, Moved DEF UpBegin, Start
  <2>2. mem'[p].host = h
    BY <2>1 DEF Blank
  <2>3. UpTrust(p)'
    BY <1>1, <2>1, <2>2 DEF UpBegin, UpTrust
  <2> QED
    BY <2>1, <2>3, SoleTrust DEF UpPcs
<1>2. ASSUME NEW out \in Outcomes, UpStep(p, out) PROVE Trust'
  <2>1. CASE Exit(p)
    BY <2>1, <1>t, ExitTrust
  <2>2. CASE CheckName(p, out) /\ ~Exit(p)
    <3>1. /\ pc[p] = "check_name" /\ pc'[p] = "download" /\ mem'[p] = mem[p]
          /\ UNCHANGED <<rec, registered, hostVars>>
      BY <2>2, <1>g DEF CheckName, Proceed
    <3> QED
      BY <1>t, <3>1, SoleTrust DEF UpTrust, UpPcs
  <2>3. CASE Download(p, out) /\ ~Exit(p)
    <3>1. /\ pc[p] = "download" /\ pc'[p] = "configure" /\ mem'[p] = mem[p]
          /\ UNCHANGED <<rec, registered, configured, unit>>
      BY <2>3, <1>g DEF Download, Proceed
    <3> QED
      BY <1>t, <3>1, SoleTrust DEF UpTrust, UpPcs
  <2>4. CASE ConfigureRunner(p, out) /\ ~Exit(p)
    <3>1. /\ pc[p] = "configure" /\ pc'[p] = "install_service" /\ mem'[p] = mem[p]
          /\ registered' = mem[p].host /\ mem[p].host \in configured'
          /\ UNCHANGED <<rec, unit>>
      BY <2>4, <1>g DEF ConfigureRunner, Proceed, TookEffect
    <3> QED
      BY <1>t, <3>1, SoleTrust DEF UpTrust, UpPcs
  <2>5. CASE InstallService(p, out) /\ ~Exit(p)
    <3>1. /\ pc[p] = "install_service" /\ pc'[p] = "verify_service" /\ mem'[p] = mem[p]
          /\ mem[p].host \in unit'
          /\ UNCHANGED <<rec, registered, configured>>
      BY <2>5, <1>g DEF InstallService, Proceed
    <3> QED
      BY <1>t, <3>1, SoleTrust DEF UpTrust, UpPcs
  <2>6. CASE (VerifyService(p, out) \/ WaitOnline(p, out)) /\ ~Exit(p)
    <3>1. /\ pc[p] \in {"verify_service", "wait_online"} /\ pc'[p] \in {"wait_online", "up_save"}
          /\ mem'[p] = mem[p]
          /\ UNCHANGED <<rec, registered, hostVars>>
      BY <2>6, <1>g DEF VerifyService, WaitOnline, Proceed
    <3> QED
      BY <1>t, <3>1, SoleTrust DEF UpTrust, UpPcs
  <2> QED
    BY <1>2, <2>1, <2>2, <2>3, <2>4, <2>5, <2>6 DEF UpStep, SaveRepositoryState
<1> QED
  BY <1>1, <1>2 DEF Up

LEMMA DownKeepsTrust ==
  ASSUME Sole, IInv, NEW p \in Procs, Down(p)
  PROVE  Trust'
<1>t. Typed /\ DownTrust(p) /\ ProcOK(pc[p], mem[p])
  BY DEF IInv, Trust, Typed, ProcsOK
<1>c. ASSUME NEW x, NEW m, Continue(p, x, m) PROVE pc'[p] = x /\ mem'[p] = m
  BY <1>c, <1>t, Moved DEF Continue
<1>g. ASSUME NEW x, Goto(p, x) PROVE pc'[p] = x /\ mem'[p] = mem[p]
  BY <1>g, <1>t DEF Goto, Typed, ProcsOK
<1>1. ASSUME NEW sel \in Selections, NEW reach \in BOOLEAN, DownBegin(p, sel, reach) PROVE Trust'
  <2> DEFINE m == [Blank EXCEPT !.host = rec.host, !.snap = rec, !.sel = sel, !.reach = reach]
             x == IF reach /\ NeedsRunnerStop(sel) THEN "d_stop" ELSE "d_github"
  <2>1. pc'[p] = x /\ mem'[p] = m
    BY <1>1, <1>t, Moved DEF DownBegin, Start
  <2>2. mem'[p].snap = rec /\ mem'[p].sel = sel /\ mem'[p].reach = reach
    BY <2>1 DEF Blank
  <2>3. DownTrust(p)'
    BY <1>1, <2>1, <2>2
    DEF DownBegin, ManagedByDown, DownTrust, Partial, NeedsRunnerStop, HostArtifacts
  <2> QED
    BY <2>1, <2>3, SoleTrust DEF DownPcs
<1>2. ASSUME NEW out \in Outcomes, StopRunner(p, out) PROVE Trust'
  <2>1. /\ pc[p] = "d_stop" /\ pc'[p] \in {"d_uninstall", "d_files"}
        /\ pc'[p] = "d_files" => "host_registration" \notin mem[p].sel
        /\ mem'[p] = [mem[p] EXCEPT !.failed = out # "ok"]
        /\ UNCHANGED <<rec, registered, files, configured, unit>>
    BY <1>2, <1>c DEF StopRunner, NeedsSvcTeardown
  <2>2. mem'[p].snap = mem[p].snap /\ mem'[p].sel = mem[p].sel
    BY <2>1, <1>t DEF ProcOK, Memory
  <2> QED
    BY <1>t, <2>1, <2>2, SoleTrust DEF DownTrust, DownPcs
<1>3. ASSUME NEW out \in Outcomes \cup {"swallowed"}, UninstallService(p, out) PROVE Trust'
  <2> DEFINE c == [mem[p] EXCEPT !.failed = FALSE]
             m == IF "systemd_service" \in mem[p].sel
                       /\ (mem[p].failed \/ out \in {"error", "lost"})
                  THEN Pending(c) ELSE c
             x == IF "host_registration" \in mem[p].sel THEN "d_remove"
                  ELSE AfterService(mem[p].sel)
  <2>1. /\ pc[p] = "d_uninstall" /\ pc'[p] = x /\ mem'[p] = m
        /\ UNCHANGED <<rec, registered, files, configured>>
    BY <1>3, <1>c DEF UninstallService
  <2>2. m.snap = mem[p].snap /\ m.sel = mem[p].sel
    BY <1>t DEF ProcOK, Memory, Pending
  <2>3. x \in {"d_remove", "d_files", "d_github"} /\ (x # "d_remove" => "host_registration" \notin mem[p].sel)
    BY DEF AfterService
  <2> HIDE DEF x, m
  <2> QED
    BY <1>t, <2>1, <2>2, <2>3, SoleTrust DEF DownTrust, DownPcs
<1>4. ASSUME NEW out \in Outcomes \cup {"absent", "no_token"}, RemoveConfig(p, out) PROVE Trust'
  <2> DEFINE x == AfterService(mem[p].sel)
             h == mem[p].host
  <2>0. x \in {"d_files", "d_github"} /\ pc[p] = "d_remove" /\ UNCHANGED <<rec, unit>>
    BY <1>4 DEF RemoveConfig, AfterService
  <2>1. CASE Exit(p)
    BY <2>1, <1>t, ExitTrust
  <2>2. CASE Goto(p, x) /\ out \in {"ok", "absent"}
    <3>1. h \notin unit
      BY <1>4, <2>2 DEF RemoveConfig, Unconfigure
    <3>2. registered' = h => h \notin configured'
      BY <1>4, <2>2 DEF RemoveConfig, Unconfigure
    <3>3. pc'[p] = x /\ mem'[p] = mem[p]
      BY <2>2, <1>g
    <3> QED
      BY <1>t, <2>0, <3>1, <3>2, <3>3, SoleTrust DEF DownTrust, DownPcs
  <2>3. CASE Continue(p, x, Pending(mem[p]))
    <3>1. Partial(Pending(mem[p])) /\ Pending(mem[p]).snap = mem[p].snap
      BY <1>t DEF Partial, Pending, ProcOK, Memory
    <3>2. pc'[p] = x /\ mem'[p] = Pending(mem[p])
      BY <2>3, <1>c
    <3>3. Partial(mem'[p]) /\ mem'[p].snap = mem[p].snap
      BY <3>1, <3>2
    <3> QED
      BY <1>t, <2>0, <3>2, <3>3, SoleTrust DEF DownTrust, DownPcs
  <2> QED
    BY <1>4, <2>1, <2>2, <2>3 DEF RemoveConfig
<1>5. ASSUME NEW out \in Outcomes, RemoveFiles(p, out) PROVE Trust'
  <2>1. /\ pc[p] = "d_files" /\ pc'[p] = "d_github" /\ mem'[p] = mem[p]
        /\ configured' \subseteq configured /\ UNCHANGED <<rec, registered, unit>>
    BY <1>5, <1>g DEF RemoveFiles
  <2> QED
    BY <1>t, <2>1, SoleTrust DEF DownTrust, DownPcs
<1>6. ASSUME NEW out \in Outcomes, DeleteRunner(p, out) PROVE Trust'
  <2> DEFINE delete == "github_runner" \in mem[p].sel
             m == IF delete /\ out # "ok" THEN Pending(mem[p]) ELSE mem[p]
  <2>1. /\ m.snap = mem[p].snap /\ m.sel = mem[p].sel /\ m.host = mem[p].host
        /\ ~Partial(m) => ~Partial(mem[p]) /\ (delete => out = "ok")
    BY <1>t DEF ProcOK, Memory, Pending, Partial
  <2>2. /\ registered' \in {registered, NoHost}
        /\ delete /\ out = "ok" => registered' \notin Hosts
        /\ UNCHANGED <<rec, hostVars>>
        /\ pc[p] = "d_github" /\ Continue(p, "d_finish", m)
    BY <1>6 DEF DeleteRunner, TookEffect
  <2>3. pc'[p] = "d_finish" /\ mem'[p] = m
    BY <1>c, <2>2
  <2>4. NoHost \notin configured
    BY <1>t DEF Typed, WorldOK
  <2> HIDE DEF m
  <2>5. DownTrust(p)'
    BY <1>t, <2>1, <2>2, <2>3, <2>4 DEF DownTrust, DownPcs
  <2> QED
    BY <2>3, <2>5, SoleTrust DEF DownPcs
<1>7. ASSUME NEW out \in Outcomes, DownFinish(p, out) PROVE Trust'
  BY <1>7, <1>t, ExitTrust DEF DownFinish
<1> QED
  BY <1>1, <1>2, <1>3, <1>4, <1>5, <1>6, <1>7 DEF Down, DownStep

LEMMA OthersKeepTrust ==
  ASSUME Sole, IInv, NEW p \in Procs,
         \/ DownWithoutState(p) \/ Crash(p) \/ RestartService(p)
         \/ CloudBegin(p) \/ CloudSave(p) \/ CloudDestroyed(p)
  PROVE  Trust'
<1>t. Typed
  BY DEF IInv
<1>1. CASE DownWithoutState(p) \/ RestartService(p) \/ CloudDestroyed(p)
  <2>1. \A q \in Procs : pc[q] = "idle" /\ pc'[q] = "idle"
    BY <1>1 DEF DownWithoutState, RestartService, CloudDestroyed, Sole
  <2> QED
    BY <2>1 DEF Trust, UpTrust, DownTrust, UpPcs, DownPcs
<1>2. CASE Crash(p) \/ CloudSave(p)
  BY <1>2, <1>t, ExitTrust DEF Crash, CloudSave
<1>3. CASE CloudBegin(p)
  <2>1. \A q \in Procs : pc'[q] = "cloud_save"
    BY <1>3, <1>t DEF CloudBegin, Start, Sole, Typed, ProcsOK
  <2> QED
    BY <2>1 DEF Trust, UpTrust, DownTrust, UpPcs, DownPcs
<1> QED
  BY <1>1, <1>2, <1>3

\* The inductive invariant of one process at a time.
THEOREM Invariance ==
  ASSUME Sole
  PROVE  Spec => []IInv
<1>1. Init => IInv
  <2> SUFFICES ASSUME Init PROVE Trust
    BY TypedInit DEF IInv
  <2> QED
    BY DEF Init, Trust, UpTrust, DownTrust, UpPcs, DownPcs
<1>2. ASSUME IInv, [Next]_vars PROVE IInv'
  <2>1. Typed'
    BY <1>2, TypedStep DEF IInv
  <2>2. CASE UNCHANGED vars
    BY <1>2, <2>1, <2>2 DEF vars, IInv, Trust, UpTrust, DownTrust
  <2>3. CASE \E h \in Hosts : ServiceStops(h)
    BY <1>2, <2>1, <2>3 DEF ServiceStops, IInv, Trust, UpTrust, DownTrust
  <2> QED
    BY <1>2, <2>1, <2>2, <2>3, UpKeepsTrust, DownKeepsTrust, OthersKeepTrust DEF Next, IInv
<1> QED
  BY <1>1, <1>2, PTL DEF Spec

\* The step in which the only process ends an up or a down is its save, or it
\* dies.
LEMMA SaveSteps ==
  ASSUME Sole, Typed, Next, NEW p \in Procs,
         pc[p] \in {"up_save", "d_finish"}, pc'[p] = "idle"
  PROVE  /\ UNCHANGED <<registered, hostVars>>
         /\ \/ rec' = rec
            \/ \E out \in Outcomes : SaveRepositoryState(p, out) \/ DownFinish(p, out)
<1>1. ~ \E h \in Hosts : ServiceStops(h)
  BY DEF ServiceStops
<1>2. PICK q \in Procs : \/ Up(q) \/ Down(q) \/ DownWithoutState(q) \/ Crash(q)
                         \/ RestartService(q)
                         \/ CloudBegin(q) \/ CloudSave(q) \/ CloudDestroyed(q)
  BY <1>1 DEF Next
<1>3. q = p
  BY DEF Sole
<1>4. Up(p) => \E out \in Outcomes : SaveRepositoryState(p, out)
  BY DEF Up, UpBegin, Start, UpStep, CheckName, Download, ConfigureRunner, InstallService,
         VerifyService, WaitOnline
<1>5. Down(p) => \E out \in Outcomes : DownFinish(p, out)
  BY DEF Down, DownBegin, Start, DownStep, StopRunner, UninstallService, RemoveConfig,
         RemoveFiles, DeleteRunner
<1>6. ~DownWithoutState(p) /\ ~RestartService(p) /\ ~CloudBegin(p) /\ ~CloudSave(p) /\ ~CloudDestroyed(p)
  BY DEF DownWithoutState, RestartService, CloudBegin, Start, CloudSave, CloudDestroyed
<1> QED
  BY <1>2, <1>3, <1>4, <1>5, <1>6 DEF Crash, SaveRepositoryState, DownFinish

\* One process at a time, any hosts and selections: a down that drops the record
\* has left nothing of what it was asked to remove.
THEOREM DropIsClean ==
  ASSUME Sole
  PROVE  Spec => DroppedMeansDeregistered
<1>1. ASSUME IInv, [Next]_vars, NEW p \in Procs, Dropped(p)
      PROVE  /\ "github_runner" \in mem[p].sel => registered \notin Hosts
             /\ "host_registration" \in mem[p].sel
                  => /\ mem[p].host \notin unit
                     /\ registered = mem[p].host => mem[p].host \notin configured
  <2>1. Next /\ pc[p] = "d_finish" /\ pc'[p] = "idle" /\ rec # NoRec /\ rec' = NoRec
    BY <1>1 DEF Dropped, vars
  <2>2. PICK out \in Outcomes : DownFinish(p, out)
    BY <1>1, <2>1, SaveSteps DEF IInv, SaveRepositoryState
  <2>3. rec = mem[p].snap /\ DownTrust(p)
    BY <1>1, <2>1 DEF IInv, Trust, DownTrust, DownPcs
  <2>4. ~Partial(mem[p])
    BY <2>1, <2>2, <2>3 DEF DownFinish, CleanedUp, Update
  <2> QED
    BY <2>1, <2>3, <2>4 DEF DownTrust
<1>2. IInv /\ [Next]_vars
        => [\A p \in Procs :
              Dropped(p)
                => /\ "github_runner" \in mem[p].sel => registered \notin Hosts
                   /\ "host_registration" \in mem[p].sel
                        => /\ mem[p].host \notin unit
                           /\ registered = mem[p].host => mem[p].host \notin configured]_vars
  BY <1>1
<1> QED
  BY <1>2, Invariance, PTL DEF DroppedMeansDeregistered, Spec

\* One process at a time, any hosts: the record an up saves, or finds saved,
\* names a host where the runner is configured and has its service.
THEOREM SavedServes ==
  ASSUME Sole
  PROVE  Spec => SavedMeansServing
<1>1. ASSUME IInv, [Next]_vars, rec'.kind = "byo", NEW p \in Procs, SavesAt(p, "up_save")
      PROVE  registered = rec'.host /\ rec'.host \in configured \cap unit
  <2>1. Next /\ pc[p] = "up_save" /\ pc'[p] = "idle"
    BY <1>1 DEF SavesAt, vars
  <2>2. UpTrust(p)
    BY <1>1, <2>1 DEF IInv, Trust
  <2>3. rec' = rec \/ rec' = ByoRec(mem[p].host)
    BY <1>1, <2>1, SaveSteps DEF IInv, SaveRepositoryState, DownFinish
  <2>4. rec'.host = mem[p].host
    BY <1>1, <2>1, <2>2, <2>3 DEF UpTrust, UpPcs, ByoRec
  <2> QED
    BY <2>1, <2>2, <2>4 DEF UpTrust
<1>2. IInv /\ [Next]_vars
        => [rec'.kind = "byo" /\ (\E p \in Procs : SavesAt(p, "up_save"))
              => /\ registered = rec'.host
                 /\ rec'.host \in configured \cap unit]_vars
  BY <1>1
<1> QED
  BY <1>2, Invariance, PTL DEF SavedMeansServing, Spec

===============================================================================
