------------------------------- MODULE Hetzner -------------------------------
(***************************************************************************)
(* The Hetzner Cloud project that `runnerkit up --cloud` creates resources *)
(* in and `runnerkit destroy` deletes them from.  It is not code of this   *)
(* repository: the module states only what internal/provider/hetzner and   *)
(* the README rely on.                                                     *)
(*                                                                         *)
(* A machine is one provisioning attempt with the four kinds of resource   *)
(* it may own.  The primary IPv4 and IPv6 addresses are handled by the     *)
(* same code and are one kind here.                                        *)
(***************************************************************************)
EXTENDS Naturals

CONSTANTS Machines,   \* provisioning attempts (bounds the number of `up`s)
          NoMachine   \* "no machine": the value of an empty reference

ASSUME MachinesAssumption == NoMachine \notin Machines

Kinds == {"ssh_key", "firewall", "server", "primary_ip"}

(***************************************************************************)
(* How a call to the API ends.  "lost": it took effect but the answer, and *)
(* with it the resource id, never arrived.  "known": it took effect and    *)
(* the answer carries both the id and an error.                            *)
(***************************************************************************)
Outcomes == {"ok", "error", "lost", "known"}

TookEffect(out) == out # "error"

VARIABLES cloud,      \* cloud[m]: kinds of m that exist (and may bill)
          detached,   \* machines whose firewall was detached from the server
          used        \* machines that ever had a resource: ids are never reused

accountVars == <<cloud, detached, used>>

AccountTypeOK ==
  /\ cloud \in [Machines -> SUBSET Kinds]
  /\ detached \in SUBSET Machines
  /\ used \in SUBSET Machines

AccountInit ==
  /\ cloud = [m \in Machines |-> {}]
  /\ detached = {}
  /\ used = {}

Gone(m, k) == k \notin cloud[m]

\* `up` always uploads the key under the repository's one name, so the
\* project refuses a second live one (uniqueness_error, README.md:49).
KeyNameFree == \A m \in Machines : Gone(m, "ssh_key")

FirewallInUse(m) == ~Gone(m, "server") /\ m \notin detached

Create(m, kinds, out) ==
  /\ cloud' = [cloud EXCEPT ![m] = IF TookEffect(out) THEN @ \cup kinds ELSE @]
  /\ used' = IF TookEffect(out) THEN used \cup {m} ELSE used
  /\ UNCHANGED detached

Delete(m, k, out) ==
  /\ cloud' = [cloud EXCEPT ![m] = IF TookEffect(out) THEN @ \ {k} ELSE @]
  /\ detached' = IF k = "server" /\ TookEffect(out) THEN detached \ {m} ELSE detached
  /\ UNCHANGED used

Detach(m, out) ==
  /\ detached' = IF TookEffect(out) THEN detached \cup {m} ELSE detached
  /\ UNCHANGED <<cloud, used>>

\* Addresses allocated with the server carry auto_delete: once the server is
\* gone the project removes them by itself, some time later.
Cascade(m) ==
  /\ Gone(m, "server")
  /\ ~Gone(m, "primary_ip")
  /\ Delete(m, "primary_ip", "ok")

==============================================================================
