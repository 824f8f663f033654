------------------------------- MODULE Health -------------------------------
(* What RunnerKit concludes from the facts it observed of a runner: the      *)
(* health that `status` reports and the command it advises (Classify), the   *)
(* plan of `recover` (BuildRecoveryPlan) and the findings of `doctor`        *)
(* (BuildDoctorReport).  No state: Recovery and Ephemeral observe the facts. *)
(*                                                                           *)
(* An observation o (ObservedRunner, with what the functions read of the     *)
(* saved record) has the fields                                              *)
(*   saved      the repository has a record        cloud  of a cloud server  *)
(*   mode       "persistent" or "ephemeral"                                  *)
(*   github     "error", "absent", "found" or "several" candidates           *)
(*   online, busy, labels   of the runner found; labels: they match          *)
(*   key        host key "not_checked", "unknown", "mismatch" or "matched"   *)
(*   reachable  SSH works                                                    *)
(*   service    "unobserved", "missing", "active", "inactive" or "failed"    *)
(*   provider   "byo", "ok" or "attention" (an error, missing, drifted)      *)
(*   pending, expired, finalizer   of an ephemeral runner                    *)
EXTENDS Naturals, Sequences

Modes     == {"persistent", "ephemeral"}
Services  == {"unobserved", "missing", "active", "inactive", "failed"}
KeyStates == {"not_checked", "unknown", "mismatch", "matched"}
Listings  == {"error", "absent", "found", "several"}
Finalizers == {"none", "pending", "completed", "ttl_expired"}

Observations ==
  [saved: BOOLEAN, cloud: BOOLEAN, mode: Modes,
   github: Listings, online: BOOLEAN, busy: BOOLEAN, labels: BOOLEAN,
   key: KeyStates, reachable: BOOLEAN, service: Services,
   provider: {"byo", "ok", "attention"},
   pending: BOOLEAN, expired: BOOLEAN, finalizer: Finalizers]

MutCleanup(o) == "down"   \* not told apart by the record's provider

\* The cleanup command for the record: `down` would drop the only record of
\* a server that keeps billing.
Cleanup(o) == IF o.cloud THEN "destroy" ELSE "down"

------------------------------------------------------------------------------
(* Classify: the first rule that applies decides *)

Rule(when, health, reason, advice) ==
  [when |-> when, health |-> health, reason |-> reason, advice |-> advice]

\* A process that ended badly also counts as failed, whatever its unit is.
ServiceFailed(o) == o.service = "failed"

FirstRules(o) ==
  << Rule(~o.saved, "unknown", "state_missing", "status"),
     Rule(o.github = "error", "unknown", "collection_error", "doctor"),
     Rule(o.github = "several", "broken", "github_duplicate_candidates", Cleanup(o)),
     Rule(o.key = "mismatch", "broken", "ssh_host_key_mismatch", "doctor") >>

\* What an ephemeral runner has done comes before what a persistent one lacks.
EphemeralRules(o) ==
  LET e == o.mode = "ephemeral" IN
  << Rule(e /\ o.pending /\ (o.finalizer = "completed" \/ o.github # "found"),
          "needs_attention", "ephemeral_cleanup_pending", Cleanup(o)),
     Rule(e /\ o.expired /\ o.finalizer # "completed",
          "needs_attention", "ephemeral_ttl_expired", Cleanup(o)),
     Rule(e /\ o.github # "found" /\ o.finalizer = "completed",
          "needs_attention", "ephemeral_completed", Cleanup(o)),
     Rule(e /\ o.github = "found" /\ o.busy, "busy", "ephemeral_busy", "wait"),
     Rule(e /\ o.github = "found" /\ o.online, "ready", "ephemeral_waiting", "none") >>

PersistentRules(o) ==
  << Rule(o.service = "missing" /\ o.github # "found",
          "broken", "service_missing", "doctor"),
     Rule(o.service = "missing", "needs_attention", "service_missing", "recover"),
     Rule(o.github # "found", "needs_attention", "github_runner_missing", "recover"),
     Rule(~o.labels, "needs_attention", "label_drift", "recover"),
     Rule(o.provider = "attention", "needs_attention", "provider", "destroy"),
     Rule(~o.online /\ o.reachable /\ ServiceFailed(o),
          "needs_attention", "github_runner_offline", "doctor"),
     Rule(ServiceFailed(o), "needs_attention", "service_failed", "logs"),
     Rule(o.service = "inactive", "needs_attention", "service_inactive", "recover"),
     Rule(~o.reachable, "unknown", "ssh_unreachable", "doctor"),
     Rule(o.busy, "busy", "github_runner_busy", "wait"),
     Rule(o.online /\ o.service = "active", "ready", "none", "none"),
     Rule(TRUE, "unknown", "collection_error", "doctor") >>

Classify(o) ==
  LET rules == FirstRules(o) \o EphemeralRules(o) \o PersistentRules(o)
      first == CHOOSE i \in DOMAIN rules :
                 rules[i].when /\ \A j \in 1 .. i - 1 : ~rules[j].when
  IN rules[first]

------------------------------------------------------------------------------
(* BuildRecoveryPlan *)

ServiceMissing(o) == o.service = "missing"

MutRestartRecommended(o) ==   \* a service that was not observed counts as inactive
  ~ServiceMissing(o) /\ o.service # "active"

\* The only step recover still has.
RestartRecommended(o) ==
  ~ServiceMissing(o) /\ (ServiceFailed(o) \/ o.service = "inactive")

\* Without GitHub's answer a missing runner cannot be told from a failed call.
NeedsReregistration(o) ==
  o.github # "error" /\ (ServiceMissing(o) \/ o.github # "found" \/ ~o.labels)

MutBuildRecoveryPlan(o, requested) ==   \* GitHub's answer is asked for first
  IF o.key = "mismatch" THEN "mismatch"
  ELSE IF ~o.reachable THEN "unreachable"
  ELSE IF o.github = "error" THEN "no_github"
  ELSE IF requested \/ RestartRecommended(o) THEN "restart"
  ELSE IF NeedsReregistration(o) THEN "manual"
  ELSE "nothing"

\* requested: --restart-service.  Everything but "restart" blocks the plan;
\* "manual" tells the user to run the cleanup command and `up` again.
BuildRecoveryPlan(o, requested) ==
  IF o.key = "mismatch" THEN "mismatch"
  ELSE IF ~o.reachable THEN "unreachable"
  ELSE IF requested \/ RestartRecommended(o) THEN "restart"
  ELSE IF o.github = "error" THEN "no_github"
  ELSE IF NeedsReregistration(o) THEN "manual"
  ELSE "nothing"

------------------------------------------------------------------------------
(* BuildDoctorReport: what it warns of, each with the remedy it names.  Left  *)
(* out: warnings from the record's notes and version, the preflight probes    *)
(* and the journals, none of which bears on what is checked here.             *)

Finding(when, id, remedy) == IF when THEN {[id |-> id, remedy |-> remedy]} ELSE {}

\* paths: the install and work directories "ok", "bad", or "not_run" when the
\* probe itself failed.
PathRemedy(o, paths) == IF o.reachable /\ paths = "bad" THEN "manual" ELSE "ssh"

MutDoctorFindings(o, paths) ==   \* label drift inferred from an empty answer
  Finding(~o.reachable, "ssh_unreachable", "ssh")
    \cup Finding(o.service = "missing", "service_missing", "manual")
    \cup Finding(~o.labels, "label_drift", "manual")
    \cup Finding(paths # "ok", "paths", PathRemedy(o, paths))

DoctorFindings(o, paths) ==
  Finding(o.github = "error", "github_unavailable", "github")
    \cup Finding(o.github = "absent" \/ (o.github = "found" /\ ~o.online),
                 "github_runner_offline", "logs")
    \cup Finding(o.github = "several", "github_duplicate_candidates", Cleanup(o))
    \cup Finding(o.key = "mismatch", "ssh_host_key_mismatch", "verify")
    \cup Finding(~o.reachable /\ o.key # "mismatch", "ssh_unreachable", "ssh")
    \cup Finding(ServiceFailed(o), "service_failed", "logs")
    \cup Finding(o.service = "missing", "service_missing", "manual")
    \cup Finding(o.github = "found" /\ ~o.labels, "label_drift", "manual")
    \cup Finding(o.provider = "attention", "provider", "destroy")
    \cup Finding(paths # "ok", "paths", PathRemedy(o, paths))
==============================================================================
