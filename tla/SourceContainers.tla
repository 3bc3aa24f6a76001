-------------------------- MODULE SourceContainers --------------------------
(***************************************************************************)
(* Which containers of the source server the gates see (engine/steps.py,   *)
(* discovery/docker.py).  Every gate that proves the source quiet asks     *)
(* Docker for the name labels, which Coolify writes at a deploy and never  *)
(* renews; PREFLIGHT looks once without them.                              *)
(*                                                                         *)
(* A container is [labels, managed, carriesUuid, mounts, running, pin]:    *)
(* its labels are "current" or "stale", and pin is "none" or the migration *)
(* whose pin label it wears, "ours" or "foreign".                          *)
(***************************************************************************)

\* resource_containers and the wait of QUIESCE: all three name labels match.
ListContainers(containers) == {c \in containers : c.labels = "current"}

ManagedContainers(containers) == {c \in containers : c.managed}

\* A volume whose probe Docker does not answer adds nothing.
ContainersMounting(containers, volumes, answered) ==
  {c \in containers : c.mounts \cap volumes \cap answered # {}}

\* pins.is_pin: a container that runs is none, whatever its labels say.
IsPin(c) == c.pin # "none" /\ ~c.running

ForeignPins(containers, volumes, answered) ==
  {c \in ContainersMounting(containers, volumes, answered) : IsPin(c) /\ c.pin = "foreign"}

\* Mutant: every container with a pin's label is one.
LabelIndependent_AnyPin(containers, volumes, answered) ==
  {c \in ManagedContainers(containers) : c.carriesUuid}
    \cup {c \in ContainersMounting(containers, volumes, answered) : c.pin = "none"}

LabelIndependent(containers, volumes, answered) ==
  {c \in ManagedContainers(containers) : c.carriesUuid}
    \cup {c \in ContainersMounting(containers, volumes, answered) : ~IsPin(c)}

\* step_preflight's look at one resource.
Discoverable(containers, volumes, answered, policy) ==
  /\ policy = "delete" => ForeignPins(containers, volumes, answered) = {}
  /\ LabelIndependent(containers, volumes, answered) \subseteq ListContainers(containers)

\* wait_until_stopped.
Quiet(containers) == \A c \in ListContainers(containers) : ~c.running

=============================================================================
