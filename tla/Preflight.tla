------------------------------ MODULE Preflight ------------------------------
(* preflight.Run: which of its checks fail on what it observed of a host.   *)
(* Memory, swap, clock and arm64 only warn and change no outcome; the       *)
(* runner conflict is a failure that no executor of the program reports.    *)

\* What Probe looks for on a host, over an SSH connection for each.  "tools"
\* stands for RequiredTools.
ProbeFacts == {"host_key", "linux", "os", "arch", "systemd", "sudo", "disk", "tools"}

\* Answers to the command under `sudo -n`: by its exit code, then its stderr.
\* "lost" is every other failure, a dropped connection among them.
SudoAnswers == {"passwordless", "password", "not_allowed", "lost"}

\* An unknown distribution fails unless the user allows it; missing tools are
\* only a warning, for the bootstrap to install.
Needed(allowUnknown) ==
  (ProbeFacts \ {"tools", "os"}) \cup (IF allowUnknown THEN {} ELSE {"os"})

PrivilegeFailures(answer, requirePasswordless) ==
  CASE answer = "passwordless" -> {}
    [] answer = "password"     -> IF requirePasswordless THEN {"cloud_bootstrap"} ELSE {}
    [] answer = "not_allowed"  -> {"no_sudo"}
    [] answer = "lost"         -> {"privilege"}

\* Report.Passed of a report over these observations.
Passed(seen, answer, github, allowUnknown, requirePasswordless) ==
  /\ Needed(allowUnknown) \subseteq seen
  /\ PrivilegeFailures(answer, requirePasswordless) = {}
  /\ github

==============================================================================
