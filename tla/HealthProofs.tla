---------------------------- MODULE HealthProofs ----------------------------
(***************************************************************************)
(* What Classify decides, without the search for the first rule: the two   *)
(* lists a persistent and an ephemeral runner go through, and what the     *)
(* verdicts and the commands advised say of the observation.               *)
(***************************************************************************)
EXTENDS Health, TLAPS

\* The position Classify looks for, when some rule applies by then.
IsFirst(r, i) == r[i].when /\ \A j \in 1 .. i - 1 : ~r[j].when

\* Wherever a rule applies, some rule is the first that does.
FirstBy(r, n) == (\E i \in 1 .. n : r[i].when) => \E i \in 1 .. n : IsFirst(r, i)

\* One rule more.
LEMMA FirstByStep ==
  ASSUME NEW r, NEW n \in Nat, FirstBy(r, n)
  PROVE  FirstBy(r, n + 1)
<1>1. CASE \E i \in 1 .. n : r[i].when
  BY <1>1 DEF FirstBy
<1>2. CASE ~\E i \in 1 .. n : r[i].when
  <2>1. r[n + 1].when => IsFirst(r, n + 1)
    BY <1>2 DEF IsFirst
  <2> QED
    BY <1>2, <2>1 DEF FirstBy
<1> QED
  BY <1>1, <1>2

\* Of 21 rules, the last of which always applies, there is exactly one.
LEMMA FirstExists ==
  ASSUME NEW r, r[21].when
  PROVE  \E i \in 1 .. 21 : IsFirst(r, i)
<1>1. FirstBy(r, 0)
  BY DEF FirstBy
<1>2. FirstBy(r, 7)
  BY <1>1, FirstByStep
<1>3. FirstBy(r, 14)
  BY <1>2, FirstByStep
<1>4. FirstBy(r, 21)
  BY <1>3, FirstByStep
<1> QED
  BY <1>4 DEF FirstBy

\* No other rule is.
LEMMA FirstUnique ==
  ASSUME NEW r, NEW i \in 1 .. 21, NEW k \in 1 .. 21, IsFirst(r, i), IsFirst(r, k)
  PROVE  i = k
BY DEF IsFirst

\* So that is the one Classify looks for.
LEMMA FirstChosen ==
  ASSUME NEW r, DOMAIN r = 1 .. 21, NEW i \in 1 .. 21, IsFirst(r, i)
  PROVE  (CHOOSE k \in DOMAIN r : r[k].when /\ \A j \in 1 .. k - 1 : ~r[j].when) = i
BY FirstUnique DEF IsFirst


------------------------------------------------------------------------------
(* The list of rules *)

Rules(o) == FirstRules(o) \o EphemeralRules(o) \o PersistentRules(o)

\* The entries of three lists of 4, 5 and 12.
LEMMA Concatenated ==
  ASSUME NEW a1, NEW a2, NEW a3, NEW a4, NEW b1, NEW b2, NEW b3, NEW b4, NEW b5,
         NEW c1, NEW c2, NEW c3, NEW c4, NEW c5, NEW c6, NEW c7, NEW c8, NEW c9,
         NEW c10, NEW c11, NEW c12
  PROVE  LET r == <<a1, a2, a3, a4>> \o <<b1, b2, b3, b4, b5>>
                    \o <<c1, c2, c3, c4, c5, c6, c7, c8, c9, c10, c11, c12>>
         IN  /\ DOMAIN r = 1 .. 21
             /\ r[1] = a1 /\ r[2] = a2 /\ r[3] = a3 /\ r[4] = a4
             /\ r[5] = b1 /\ r[6] = b2 /\ r[7] = b3 /\ r[8] = b4 /\ r[9] = b5
             /\ r[10] = c1 /\ r[11] = c2 /\ r[12] = c3 /\ r[13] = c4 /\ r[14] = c5
             /\ r[15] = c6 /\ r[16] = c7 /\ r[17] = c8 /\ r[18] = c9 /\ r[19] = c10
             /\ r[20] = c11 /\ r[21] = c12
OBVIOUS

\* The three lists one after the other.
LEMMA RulesFacts ==
  ASSUME NEW o
  PROVE  /\ DOMAIN Rules(o) = 1 .. 21
         /\ \A i \in 1 .. 4 : Rules(o)[i] = FirstRules(o)[i]
         /\ \A i \in 5 .. 9 : Rules(o)[i] = EphemeralRules(o)[i - 4]
         /\ \A i \in 10 .. 21 : Rules(o)[i] = PersistentRules(o)[i - 9]
<1> DEFINE f == FirstRules(o)
           e == EphemeralRules(o)
           p == PersistentRules(o)
<1>1. f = <<f[1], f[2], f[3], f[4]>>
  BY DEF FirstRules
<1>2. e = <<e[1], e[2], e[3], e[4], e[5]>>
  BY DEF EphemeralRules
<1>3. p = <<p[1], p[2], p[3], p[4], p[5], p[6], p[7], p[8], p[9], p[10], p[11], p[12]>>
  BY DEF PersistentRules
<1>4. Rules(o) = f \o e \o p
  BY DEF Rules
<1> HIDE DEF f, e, p
<1>5. Rules(o) = <<f[1], f[2], f[3], f[4]>> \o <<e[1], e[2], e[3], e[4], e[5]>>
         \o <<p[1], p[2], p[3], p[4], p[5], p[6], p[7], p[8], p[9], p[10], p[11], p[12]>>
  BY <1>1, <1>2, <1>3, <1>4
<1>6. /\ DOMAIN Rules(o) = 1 .. 21
      /\ \A i \in 1 .. 4 : Rules(o)[i] = f[i]
      /\ \A i \in 5 .. 9 : Rules(o)[i] = e[i - 4]
      /\ \A i \in 10 .. 21 : Rules(o)[i] = p[i - 9]
  BY <1>5, Concatenated
<1> QED
  BY <1>6 DEF f, e, p

\* Classify returns the first rule that applies.
LEMMA Decided ==
  ASSUME NEW o
  PROVE  \E i \in 1 .. 21 : IsFirst(Rules(o), i) /\ Classify(o) = Rules(o)[i]
<1> DEFINE r == Rules(o)
<1>1. r[21].when
  <2>1. Rules(o)[21] = PersistentRules(o)[12]
    BY RulesFacts
  <2> QED
    BY <2>1 DEF PersistentRules, Rule
<1>2. DOMAIN r = 1 .. 21
  BY RulesFacts
<1>3. Classify(o) = r[CHOOSE i \in DOMAIN r : r[i].when /\ \A j \in 1 .. i - 1 : ~r[j].when]
  BY DEF Classify, Rules
<1> HIDE DEF r
<1>4. PICK i \in 1 .. 21 : IsFirst(r, i)
  BY <1>1, FirstExists
<1>5. Classify(o) = r[i]
  BY <1>2, <1>3, <1>4, FirstChosen
<1> QED
  BY <1>4, <1>5 DEF r

------------------------------------------------------------------------------
(* The rules, read *)

\* When the rules for every runner apply.
LEMMA FirstWhen ==
  ASSUME NEW o
  PROVE  LET r == FirstRules(o)
         IN  /\ r[1].when <=> ~o.saved
             /\ r[2].when <=> o.github = "error"
             /\ r[3].when <=> o.github = "several"
             /\ r[4].when <=> o.key = "mismatch"
BY DEF FirstRules, Rule

\* What they say.
LEMMA FirstSays ==
  ASSUME NEW o
  PROVE  LET r == FirstRules(o)
         IN  /\ r[1].health = "unknown" /\ r[1].advice = "status"
             /\ r[2].health = "unknown" /\ r[2].advice = "doctor"
             /\ r[3].health = "broken" /\ r[3].advice = Cleanup(o)
             /\ r[4].health = "broken" /\ r[4].advice = "doctor"
BY DEF FirstRules, Rule

\* When those for ephemeral runners apply.
LEMMA EphemeralWhen ==
  ASSUME NEW o
  PROVE  LET r == EphemeralRules(o)
             e == o.mode = "ephemeral"
         IN  /\ r[1].when <=> e /\ o.pending /\ (o.finalizer = "completed" \/ o.github # "found")
             /\ r[2].when <=> e /\ o.expired /\ o.finalizer # "completed"
             /\ r[3].when <=> e /\ o.github # "found" /\ o.finalizer = "completed"
             /\ r[4].when <=> e /\ o.github = "found" /\ o.busy
             /\ r[5].when <=> e /\ o.github = "found" /\ o.online
BY DEF EphemeralRules, Rule

\* When those for persistent runners apply.
LEMMA PersistentWhen ==
  ASSUME NEW o
  PROVE  LET r == PersistentRules(o)
         IN  /\ r[1].when <=> o.service = "missing" /\ o.github # "found"
             /\ r[2].when <=> o.service = "missing"
             /\ r[3].when <=> o.github # "found"
             /\ r[4].when <=> ~o.labels
             /\ r[5].when <=> o.provider = "attention"
             /\ r[6].when <=> ~o.online /\ o.reachable /\ o.service = "failed"
             /\ r[7].when <=> o.service = "failed"
             /\ r[8].when <=> o.service = "inactive"
             /\ r[9].when <=> ~o.reachable
             /\ r[10].when <=> o.busy
             /\ r[11].when <=> o.online /\ o.service = "active"
             /\ r[12].when
BY DEF PersistentRules, Rule, ServiceFailed

\* What they say.
LEMMA PersistentSays ==
  ASSUME NEW o
  PROVE  LET r == PersistentRules(o)
         IN  /\ r[1].health = "broken" /\ r[1].advice = "doctor"
             /\ \A i \in 2 .. 8 : r[i].health = "needs_attention"
             /\ \A i \in {2, 3, 4, 8} : r[i].advice = "recover"
             /\ r[5].advice = "destroy" /\ r[6].advice = "doctor" /\ r[7].advice = "logs"
             /\ r[9].health = "unknown" /\ r[9].advice = "doctor"
             /\ r[10].health = "busy" /\ r[10].advice = "wait"
             /\ r[11].health = "ready" /\ r[11].advice = "none"
             /\ r[12].health = "unknown" /\ r[12].advice = "doctor"
BY DEF PersistentRules, Rule

------------------------------------------------------------------------------
(* A persistent runner *)

\* None of the rules that hold for every runner applies.
Ordinary(o) == o.saved /\ o.github \notin {"error", "several"} /\ o.key # "mismatch"

\* What they say.
LEMMA FirstRulesFacts ==
  ASSUME NEW o, NEW i \in 1 .. 4, IsFirst(FirstRules(o), i)
  PROVE  LET r == FirstRules(o)[i]
         IN  \/ ~o.saved /\ r.health = "unknown" /\ r.advice = "status"
             \/ o.github = "error" /\ r.health = "unknown" /\ r.advice = "doctor"
             \/ o.github = "several" /\ r.health = "broken" /\ r.advice = Cleanup(o)
             \/ o.key = "mismatch" /\ o.github # "error" /\ r.health = "broken" /\ r.advice = "doctor"
BY FirstWhen, FirstSays DEF IsFirst

\* It goes through the rules for all runners, then those for persistent ones.
LEMMA PersistentDecided ==
  ASSUME NEW o, o.mode = "persistent"
  PROVE  \/ \E i \in 1 .. 4 : IsFirst(FirstRules(o), i) /\ Classify(o) = FirstRules(o)[i]
         \/ /\ Ordinary(o)
            /\ \E i \in 1 .. 12 : IsFirst(PersistentRules(o), i) /\ Classify(o) = PersistentRules(o)[i]
<1>1. PICK k \in 1 .. 21 : IsFirst(Rules(o), k) /\ Classify(o) = Rules(o)[k]
  BY Decided
<1>2. CASE k \in 1 .. 4
  <2>1. Rules(o)[k] = FirstRules(o)[k] /\ \A j \in 1 .. k - 1 : Rules(o)[j] = FirstRules(o)[j]
    BY <1>2, RulesFacts
  <2> QED
    BY <1>1, <1>2, <2>1 DEF IsFirst
<1>3. CASE k \in 5 .. 9
  <2>1. Rules(o)[k] = EphemeralRules(o)[k - 4] /\ k - 4 \in 1 .. 5
    BY <1>3, RulesFacts
  <2>2. \A i \in 1 .. 5 : ~EphemeralRules(o)[i].when
    BY EphemeralWhen
  <2> QED
    BY <1>1, <2>1, <2>2 DEF IsFirst
<1>4. CASE k \in 10 .. 21
  <2>1. Rules(o)[k] = PersistentRules(o)[k - 9] /\ k - 9 \in 1 .. 12
    BY <1>4, RulesFacts
  <2>2. \A j \in 1 .. (k - 9) - 1 : Rules(o)[j + 9] = PersistentRules(o)[j]
    BY <1>4, RulesFacts
  <2>3. \A j \in 1 .. (k - 9) - 1 : ~PersistentRules(o)[j].when
    BY <1>1, <1>4, <2>2 DEF IsFirst
  <2>4. \A j \in 1 .. 4 : ~FirstRules(o)[j].when
    BY <1>1, <1>4, RulesFacts DEF IsFirst
  <2>5. Ordinary(o)
    BY <2>4, FirstWhen DEF Ordinary
  <2> QED
    BY <1>1, <2>1, <2>3, <2>5 DEF IsFirst
<1> QED
  BY <1>1, <1>2, <1>3, <1>4

\* What it means that the rules before them do not apply.
LEMMA NothingWrong ==
  ASSUME NEW o, \A j \in 1 .. 9 : ~PersistentRules(o)[j].when
  PROVE  /\ o.github = "found" /\ o.labels /\ o.reachable /\ o.provider # "attention"
         /\ o.service \notin {"missing", "failed", "inactive"}
<1> DEFINE r == PersistentRules(o)
<1>1. /\ ~r[2].when /\ ~r[3].when /\ ~r[4].when /\ ~r[5].when
      /\ ~r[7].when /\ ~r[8].when /\ ~r[9].when
  OBVIOUS
<1> QED
  BY <1>1, PersistentWhen

\* "ready" and "busy" are said on these grounds only.
LEMMA GoodGrounds ==
  ASSUME NEW o, o.mode = "persistent", Classify(o).health \in {"ready", "busy"}
  PROVE  /\ o.github = "found" /\ o.labels /\ o.reachable /\ o.provider # "attention"
         /\ o.service \notin {"missing", "failed", "inactive"}
         /\ Classify(o).health = "busy" => o.busy
         /\ Classify(o).health = "ready" => o.online /\ o.service = "active"
<1>1. PICK i \in 1 .. 12 : IsFirst(PersistentRules(o), i) /\ Classify(o) = PersistentRules(o)[i]
  BY PersistentDecided, FirstRulesFacts
<1>2. i \in {10, 11}
  <2>1. \A j \in (1 .. 12) \ {10, 11} : PersistentRules(o)[j].health \notin {"ready", "busy"}
    BY PersistentSays
  <2> QED
    BY <1>1, <2>1
<1>3. \A j \in 1 .. 9 : ~PersistentRules(o)[j].when
  BY <1>1, <1>2 DEF IsFirst
<1>4. /\ o.service # "missing" /\ o.github = "found" /\ o.labels /\ o.provider # "attention"
      /\ o.service \notin {"failed", "inactive"} /\ o.reachable
  BY <1>3, NothingWrong
<1>5. CASE i = 10
  BY <1>1, <1>4, <1>5, PersistentWhen, PersistentSays DEF IsFirst
<1>6. CASE i = 11
  BY <1>1, <1>4, <1>6, PersistentWhen, PersistentSays DEF IsFirst
<1> QED
  BY <1>2, <1>5, <1>6

\* Without one of these grounds a runner is not called broken or in need of
\* attention.
LEMMA BadGrounds ==
  ASSUME NEW o, o.mode = "persistent",
         o.github \in {"error", "found"}, o.github = "found" => o.labels,
         o.key # "mismatch", o.service \in {"unobserved", "active"}, o.provider # "attention"
  PROVE  Classify(o).health \in {"ready", "busy", "unknown"}
<1>1. CASE \E i \in 1 .. 4 : IsFirst(FirstRules(o), i) /\ Classify(o) = FirstRules(o)[i]
  BY <1>1, FirstRulesFacts
<1>2. CASE Ordinary(o) /\ \E i \in 1 .. 12 : /\ IsFirst(PersistentRules(o), i)
                                             /\ Classify(o) = PersistentRules(o)[i]
  <2>1. PICK i \in 1 .. 12 : IsFirst(PersistentRules(o), i) /\ Classify(o) = PersistentRules(o)[i]
    BY <1>2
  <2>2. o.github = "found" /\ o.labels
    BY <1>2 DEF Ordinary
  <2>3. \A j \in 1 .. 8 : ~PersistentRules(o)[j].when
    BY <2>2, PersistentWhen
  <2>4. i \in 9 .. 12
    BY <2>1, <2>3 DEF IsFirst
  <2> QED
    BY <2>1, <2>4, PersistentSays
<1> QED
  BY <1>1, <1>2, PersistentDecided

\* "recover" is advised where the plan has a step, names the manual way, or
\* only has to reach the host again.
LEMMA RecoverAdvised ==
  ASSUME NEW o, o.mode = "persistent", Classify(o).advice = "recover"
  PROVE  BuildRecoveryPlan(o, FALSE) \in {"restart", "manual", "unreachable"}
<1>1. PICK i \in 1 .. 12 : Ordinary(o) /\ IsFirst(PersistentRules(o), i) /\ Classify(o) = PersistentRules(o)[i]
  BY PersistentDecided, FirstRulesFacts DEF Cleanup
<1>2. i \in {2, 3, 4, 8}
  <2>1. \A j \in (1 .. 12) \ {2, 3, 4, 8} : PersistentRules(o)[j].advice # "recover"
    BY PersistentSays
  <2> QED
    BY <1>1, <2>1
<1>3. PersistentRules(o)[i].when
  BY <1>1 DEF IsFirst
<1>4. o.service \in {"missing", "inactive"} \/ o.github # "found" \/ ~o.labels
  BY <1>2, <1>3, PersistentWhen
<1> QED
  BY <1>1, <1>4
  DEF Ordinary, BuildRecoveryPlan, RestartRecommended, NeedsReregistration, ServiceMissing, ServiceFailed

\* When doctor has something to say.
LEMMA SomeFinding ==
  ASSUME NEW o, NEW paths,
         \/ o.github \in {"error", "absent"} \/ (o.github = "found" /\ ~o.online)
         \/ o.key = "mismatch" \/ ~o.reachable
         \/ ServiceFailed(o) \/ o.service = "missing"
  PROVE  DoctorFindings(o, paths) # {}
<1>1. \A w, id, x : w => Finding(w, id, x) # {}
  BY DEF Finding
<1>2. CASE o.github \in {"error", "absent"} \/ (o.github = "found" /\ ~o.online)
  <2> DEFINE gone == o.github = "absent" \/ (o.github = "found" /\ ~o.online)
  <2>1. o.github = "error" \/ gone
    BY <1>2
  <2>2. \/ Finding(o.github = "error", "github_unavailable", "github") # {}
        \/ Finding(gone, "github_runner_offline", "logs") # {}
    BY ONLY <1>1, <2>1
  <2> QED
    BY <2>2 DEF DoctorFindings
<1>3. CASE o.key = "mismatch" \/ ~o.reachable
  <2>1. \/ Finding(o.key = "mismatch", "ssh_host_key_mismatch", "verify") # {}
        \/ Finding(~o.reachable /\ o.key # "mismatch", "ssh_unreachable", "ssh") # {}
    BY <1>1, <1>3
  <2> QED
    BY <2>1 DEF DoctorFindings
<1>4. CASE ServiceFailed(o) \/ o.service = "missing"
  <2>1. \/ Finding(ServiceFailed(o), "service_failed", "logs") # {}
        \/ Finding(o.service = "missing", "service_missing", "manual") # {}
    BY <1>1, <1>4
  <2> QED
    BY <2>1 DEF DoctorFindings
<1> QED
  BY <1>2, <1>3, <1>4

\* "doctor" is advised where doctor has a finding, unless the service of a
\* runner that is online was not observed.
LEMMA DoctorAdvised ==
  ASSUME NEW o, o.mode = "persistent", o.saved, o.service \in Services, NEW paths,
         Classify(o).advice = "doctor"
  PROVE  DoctorFindings(o, paths) # {} \/ (o.reachable /\ o.service = "unobserved")
<1>1. \/ o.github = "error" \/ o.key = "mismatch"
      \/ o.service = "missing" \/ ServiceFailed(o) \/ ~o.reachable
      \/ o.github = "found" /\ ~o.online
      \/ o.reachable /\ o.service = "unobserved"
  <2>1. CASE \E i \in 1 .. 4 : IsFirst(FirstRules(o), i) /\ Classify(o) = FirstRules(o)[i]
    BY <2>1, FirstRulesFacts DEF Cleanup
  <2>2. CASE \E i \in 1 .. 12 : IsFirst(PersistentRules(o), i) /\ Classify(o) = PersistentRules(o)[i]
    <3>1. PICK i \in 1 .. 12 : IsFirst(PersistentRules(o), i) /\ Classify(o) = PersistentRules(o)[i]
      BY <2>2
    <3>2. i \in {1, 6, 9, 12}
      <4>1. \A j \in (1 .. 12) \ {1, 6, 9, 12} : PersistentRules(o)[j].advice # "doctor"
        BY PersistentSays
      <4> QED
        BY <3>1, <4>1
    <3>3. CASE i \in {1, 6, 9}
      <4>1. PersistentRules(o)[i].when
        BY <3>1 DEF IsFirst
      <4> QED
        BY <3>3, <4>1, PersistentWhen DEF ServiceFailed
    <3>4. CASE i = 12
      <4>1. \A j \in 1 .. 11 : ~PersistentRules(o)[j].when
        BY <3>1, <3>4 DEF IsFirst
      <4>2. /\ o.service \notin {"missing", "failed", "inactive"} /\ o.github = "found"
            /\ o.reachable /\ ~(o.online /\ o.service = "active")
        <5>1. ~PersistentRules(o)[11].when /\ \A j \in 1 .. 9 : ~PersistentRules(o)[j].when
          BY <4>1
        <5> QED
          BY <5>1, NothingWrong, PersistentWhen
      <4> QED
        BY <4>2 DEF Services
    <3> QED
      BY <3>2, <3>3, <3>4
  <2> QED
    BY <2>1, <2>2, PersistentDecided
<1> QED
  BY <1>1, SomeFinding

\* The cleanup command fits the record.
LEMMA CleanupAdvised ==
  ASSUME NEW o, o.mode = "persistent", o.cloud \in BOOLEAN, o.provider = "attention" => o.cloud
  PROVE  /\ Classify(o).advice = "down" => ~o.cloud
         /\ Classify(o).advice = "destroy" => o.cloud
<1>1. CASE \E i \in 1 .. 4 : IsFirst(FirstRules(o), i) /\ Classify(o) = FirstRules(o)[i]
  BY <1>1, FirstRulesFacts DEF Cleanup
<1>2. CASE \E i \in 1 .. 12 : IsFirst(PersistentRules(o), i) /\ Classify(o) = PersistentRules(o)[i]
  <2>1. PICK i \in 1 .. 12 : IsFirst(PersistentRules(o), i) /\ Classify(o) = PersistentRules(o)[i]
    BY <1>2
  <2>2. /\ \A j \in (1 .. 12) \ {5} : PersistentRules(o)[j].advice \notin {"down", "destroy"}
        /\ PersistentRules(o)[5].advice = "destroy"
    BY PersistentSays
  <2>3. PersistentRules(o)[5].when => o.provider = "attention"
    BY PersistentWhen
  <2> QED
    BY <2>1, <2>2, <2>3 DEF IsFirst
<1> QED
  BY <1>1, <1>2, PersistentDecided

\* Each remedy of doctor has its ground: it is by hand only for the host, the
\* service or the labels, and cleans up as the record wants it.
LEMMA RemedyGrounds ==
  ASSUME NEW o, NEW paths, NEW f \in DoctorFindings(o, paths)
  PROVE  \/ f.remedy \in {"github", "logs", "verify", "ssh"}
         \/ f.remedy = Cleanup(o)
         \/ f.remedy = "destroy" /\ o.provider = "attention"
         \/ /\ f.remedy = "manual"
            /\ \/ o.service = "missing" \/ (o.github = "found" /\ ~o.labels)
               \/ (o.reachable /\ paths = "bad")
<1> DEFINE gone == o.github = "absent" \/ (o.github = "found" /\ ~o.online)
           away == ~o.reachable /\ o.key # "mismatch"
           drift == o.github = "found" /\ ~o.labels
<1>1. \/ f \in Finding(o.github = "error", "github_unavailable", "github")
      \/ f \in Finding(gone, "github_runner_offline", "logs")
      \/ f \in Finding(o.github = "several", "github_duplicate_candidates", Cleanup(o))
      \/ f \in Finding(o.key = "mismatch", "ssh_host_key_mismatch", "verify")
      \/ f \in Finding(away, "ssh_unreachable", "ssh")
      \/ f \in Finding(ServiceFailed(o), "service_failed", "logs")
      \/ f \in Finding(o.service = "missing", "service_missing", "manual")
      \/ f \in Finding(drift, "label_drift", "manual")
      \/ f \in Finding(o.provider = "attention", "provider", "destroy")
      \/ f \in Finding(paths # "ok", "paths", PathRemedy(o, paths))
  BY DEF DoctorFindings
<1>2. PathRemedy(o, paths) = "manual" => o.reachable /\ paths = "bad"
  BY DEF PathRemedy
<1>3. PathRemedy(o, paths) \in {"manual", "ssh"}
  BY DEF PathRemedy
<1>4. f \in Finding(o.github = "error", "github_unavailable", "github")
        \cup Finding(gone, "github_runner_offline", "logs")
        \cup Finding(o.key = "mismatch", "ssh_host_key_mismatch", "verify")
        \cup Finding(away, "ssh_unreachable", "ssh")
        \cup Finding(ServiceFailed(o), "service_failed", "logs")
      => f.remedy \in {"github", "logs", "verify", "ssh"}
  BY DEF Finding
<1>5. f \in Finding(o.github = "several", "github_duplicate_candidates", Cleanup(o))
      => f.remedy = Cleanup(o)
  BY DEF Finding
<1>6. f \in Finding(o.provider = "attention", "provider", "destroy")
      => f.remedy = "destroy" /\ o.provider = "attention"
  BY DEF Finding
<1>7. f \in Finding(o.service = "missing", "service_missing", "manual")
        \cup Finding(drift, "label_drift", "manual")
      => f.remedy = "manual" /\ (o.service = "missing" \/ drift)
  BY DEF Finding
<1>8. f \in Finding(paths # "ok", "paths", PathRemedy(o, paths))
      => f.remedy = PathRemedy(o, paths)
  BY DEF Finding
<1> HIDE DEF gone, away
<1>9. CASE f.remedy = PathRemedy(o, paths)
  BY <1>2, <1>3, <1>9
<1> QED
  BY <1>1, <1>4, <1>5, <1>6, <1>7, <1>8, <1>9

------------------------------------------------------------------------------
(* An ephemeral runner *)

\* What the rule for its job says.
LEMMA EphemeralSays ==
  ASSUME NEW o
  PROVE  EphemeralRules(o)[4].health = "busy" /\ EphemeralRules(o)[4].advice = "wait"
BY DEF EphemeralRules, Rule

\* While its job runs nothing comes before that, as long as neither a note of
\* a cleanup nor the end of its time is looked at: not what the finalizer
\* left, not the service, the host or its labels.
LEMMA EphemeralBusy ==
  ASSUME NEW o, o.mode = "ephemeral", Ordinary(o), o.github = "found", o.busy,
         ~o.pending, ~o.expired
  PROVE  Classify(o).health = "busy" /\ Classify(o).advice = "wait"
<1>1. PICK i \in 1 .. 21 : IsFirst(Rules(o), i) /\ Classify(o) = Rules(o)[i]
  BY Decided
<1>2. \A j \in 1 .. 4 : ~Rules(o)[j].when
  <2>1. \A j \in 1 .. 4 : ~FirstRules(o)[j].when
    BY FirstWhen DEF Ordinary
  <2> QED
    BY <2>1, RulesFacts
<1>3. \A j \in 5 .. 7 : ~Rules(o)[j].when
  <2>1. \A j \in 1 .. 3 : ~EphemeralRules(o)[j].when
    BY EphemeralWhen
  <2> QED
    BY <2>1, RulesFacts
<1>4. Rules(o)[8] = EphemeralRules(o)[4]
  BY RulesFacts
<1>5. Rules(o)[8].when
  BY <1>4, EphemeralWhen
<1>6. i = 8
  <2>1. i \in 8 .. 21
    BY <1>1, <1>2, <1>3 DEF IsFirst
  <2> QED
    BY <1>1, <1>5, <2>1 DEF IsFirst
<1> QED
  BY <1>1, <1>4, <1>6, EphemeralSays

=============================================================================
