---------------------------- MODULE MCVolumePins ----------------------------
(***************************************************************************)
(* Two containers with a volume each, an anonymous volume, and one that    *)
(* nothing mounts.                                                         *)
(***************************************************************************)
EXTENDS VolumePins, TLC

CONSTANTS app, db, files, data, scratch, old

UsersOf == (files :> {app}) @@ (data :> {db}) @@ (scratch :> {db}) @@ (old :> {})

=============================================================================
