----------------------------- MODULE HostNames -----------------------------
(***************************************************************************)
(* What becomes of a domain string on its way to the target                *)
(* (domain/domains.py, domain by domain in api/resources.py).  A domain    *)
(* string is the set of its hosts.  A host under a server's wildcard and a *)
(* generated one (sslip.io) are bound to a server; a custom one is the     *)
(* same wherever the resource runs.                                        *)
(***************************************************************************)
Kinds == {"custom", "wildcard", "generated"}

Custom(name) == [name |-> name, kind |-> "custom", on |-> "anywhere"]
Wildcard(name, server) == [name |-> name, kind |-> "wildcard", on |-> server]
Generated(name, server) == [name |-> name, kind |-> "generated", on |-> server]

IsCustom(host) == host.kind = "custom"

CustomHosts(value) == {h \in value : IsCustom(h)}

WithoutCustom(value) == {h \in value : ~IsCustom(h)}

WithoutGenerated(value) == {h \in value : h.kind # "generated"}

\* _remap_domains: without a wildcard on the target a bound host is dropped.
RemapDomains(value, targetHasWildcard) ==
  CustomHosts(value) \cup
    {Wildcard(h.name, "target") : h \in {g \in value : targetHasWildcard /\ g.kind = "wildcard"}}

CreateValue(value, targetHasWildcard) ==
  RemapDomains(WithoutCustom(WithoutGenerated(value)), targetHasWildcard)

ClaimValue(value, targetHasWildcard) ==
  RemapDomains(WithoutGenerated(value), targetHasWildcard)

\* custom_hosts_not_held and missing_custom_hosts.
NotHeld(wanted, held) == CustomHosts(wanted) \ held

\* restore_patch: nothing is sent unless something differs.
Differs(body, current) == body # current

=============================================================================
