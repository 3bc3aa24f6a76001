------------------------------ MODULE HandOver ------------------------------
(***************************************************************************)
(* What the hand-over of domains promises (domain/domains.py): make before *)
(* break.  One holder at a time takes hosts or lets go of them, and lets   *)
(* go only of those that somebody else holds at that moment.               *)
(***************************************************************************)
CONSTANTS Hosts, Holders

VARIABLE holds      \* per host: who holds it

HandOverInit == holds \in [Hosts -> (SUBSET Holders) \ {{}}]

Take(x, hosts) ==
  holds' = [h \in Hosts |-> IF h \in hosts THEN holds[h] \cup {x} ELSE holds[h]]

LetGo(x, hosts) ==
  /\ \A h \in hosts : holds[h] \ {x} # {}
  /\ holds' = [h \in Hosts |-> IF h \in hosts THEN holds[h] \ {x} ELSE holds[h]]

HandOverNext ==
  \E x \in Holders, hosts \in SUBSET Hosts : Take(x, hosts) \/ LetGo(x, hosts)

HandOverSpec == HandOverInit /\ [][HandOverNext]_holds

\* Whoever lets go when, a host has a holder.
AlwaysHeld == \A h \in Hosts : holds[h] # {}

=============================================================================
