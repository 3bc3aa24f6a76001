------------------------------ MODULE DnsGate ------------------------------
(***************************************************************************)
(* What DNS says of a host the target will serve, and what is decided on   *)
(* it (dns/resolve.py, dns/gate.py and their callers in engine/steps.py):  *)
(* the baseline taken at PLAN, the refusal at the end of CREATE and the    *)
(* gate before the target starts.                                          *)
(*                                                                         *)
(* A look is what the nameservers hold and which of the two lookups fails: *)
(* [exists, a, aaaa, failed], where a and aaaa are the addresses of the    *)
(* records and failed is a subset of {"A", "AAAA"}.                        *)
(***************************************************************************)
LOCAL INSTANCE FiniteSets

RecordTypes == {"A", "AAAA"}

Records(look) == IF look.exists THEN look.a \cup look.aaaa ELSE {}

RecordsOf(look, type) == IF type = "A" THEN look.a ELSE look.aaaa

\* resolve_one: NXDOMAIN on the A lookup ends the loop, and one address clears
\* every error, those of a lookup that failed included.
Asked(look) ==
  IF ~look.exists /\ "A" \notin look.failed THEN {"A"} ELSE RecordTypes

Resolve(look) ==
  LET addresses == IF look.exists
                   THEN UNION {RecordsOf(look, t) : t \in RecordTypes \ look.failed}
                   ELSE {}
      errors == {[type |-> t, kind |-> IF t \in look.failed THEN "failed" ELSE "NXDOMAIN"] :
                   t \in {u \in Asked(look) : u \in look.failed \/ ~look.exists}}
  IN  [addresses |-> addresses,
       errors |-> IF addresses # {} THEN {} ELSE {e.kind : e \in errors}]

IsDefinitive(resolution) ==
  \/ resolution.addresses # {}
  \/ "NXDOMAIN" \in resolution.errors
  \/ resolution.errors = {}

\* server_addresses: every address a server answers as.
OnlyOf(ips, others) == ips \ others

(***************************************************************************)
(* classify.  A host is [generated, underSource, underTarget], the last    *)
(* two for the wildcard bases of the servers.                              *)
(***************************************************************************)
NoAddress(resolution, baseline) ==
  CASE baseline # {} /\ ~IsDefinitive(resolution) -> "unanswered"
    [] baseline # {} /\ IsDefinitive(resolution) -> "vanished"
    [] OTHER -> "unresolved"

\* Mutant: an address both servers answer as counts for the target.
ByAddress_SharedIsTarget(addresses, sourceIps, targetIps) ==
  CASE addresses \cap targetIps # {} -> "ready"
    [] addresses \cap sourceIps # {} -> "cutover_needed"
    [] OTHER -> "elsewhere"

ByAddress(addresses, sourceIps, targetIps) ==
  CASE addresses \cap OnlyOf(targetIps, sourceIps) # {} -> "ready"
    [] /\ addresses \cap OnlyOf(targetIps, sourceIps) = {}
       /\ addresses \cap OnlyOf(sourceIps, targetIps) # {} -> "cutover_needed"
    [] OTHER -> "elsewhere"

Classify(host, resolution, baseline, sourceIps, targetIps) ==
  CASE host.underSource -> "server_bound"
    [] ~host.underSource /\ host.generated -> "generated"
    [] OTHER -> IF resolution.addresses = {}
                THEN NoAddress(resolution, baseline)
                ELSE ByAddress(resolution.addresses, sourceIps, targetIps)

Blocking == {"cutover_needed", "elsewhere", "vanished", "unanswered"}

\* DnsGateReport.unaccepted: --accept-dns answers a cutover and nothing else.
Unaccepted(verdict, acceptCutover, acceptedHost) ==
  /\ verdict \in Blocking
  /\ ~acceptedHost
  /\ ~(acceptCutover /\ verdict = "cutover_needed")

(***************************************************************************)
(* The three moments.                                                      *)
(***************************************************************************)
\* planner.dns_baseline: the custom hosts the source serves, fail-soft.
Baseline(host, look) ==
  IF host.generated \/ host.underSource THEN {} ELSE Resolve(look).addresses

\* elsewhere_note: the heads-up of the plan.
ElsewhereNote(baseline, sourceIps, targetIps) ==
  /\ baseline # {}
  /\ baseline \cap (OnlyOf(sourceIps, targetIps) \cup OnlyOf(targetIps, sourceIps)) = {}

\* _refuse_moved_dns, at the end of CREATE.
RefusesMoved(baseline, look, sourceIps) ==
  LET now == Resolve(look)
  IN  /\ baseline \cap sourceIps # {}
      /\ IsDefinitive(now)
      /\ now.addresses \cap sourceIps = {}

\* bound_to_source: no acceptance answers it.  A host that only a variable of a
\* service names (service_env) is exempt, and is no host here: nothing routes it.
BoundToSource(host) == host.underSource /\ ~host.underTarget

\* step_dns_gate: real_hostnames first, then the bound hosts, then the verdicts.
Passes(host, baseline, look, sourceIps, targetIps, acceptCutover, acceptedHost) ==
  \/ host.generated
  \/ /\ ~BoundToSource(host)
     /\ ~Unaccepted(Classify(host, Resolve(look), baseline, sourceIps, targetIps),
                    acceptCutover, acceptedHost)

=============================================================================
