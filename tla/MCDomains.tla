----------------------------- MODULE MCDomains -----------------------------
(***************************************************************************)
(* Two resources: one with a custom host, a host under the source's        *)
(* wildcard and a generated one; one that shares the custom host.          *)
(***************************************************************************)
EXTENDS Domains

ServesTwo ==
  << {Custom("shop"), Wildcard("app", "source"), Generated("gen", "source")},
     {Custom("shop"), Custom("api")} >>

Shop == {Custom("shop")}

=============================================================================
