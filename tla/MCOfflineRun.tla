---------------------------- MODULE MCOfflineRun ----------------------------
(***************************************************************************)
(* Two environments; the first has two stacks, so that one can block the   *)
(* offer of the other, be stopped already, or fail to start again.         *)
(***************************************************************************)
EXTENDS OfflineRun

CONSTANTS app, service, other

MCStacks == {app, service, other}
MCEnvOf == [s \in MCStacks |-> IF s = other THEN 2 ELSE 1]
=============================================================================
