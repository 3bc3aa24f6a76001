---------------------------- MODULE MCCopyPhase ----------------------------
(***************************************************************************)
(* A database with two files, a web container with none, and a preview of  *)
(* the application that shares one.                                        *)
(***************************************************************************)
EXTENDS CopyPhase, TLC

CONSTANTS db, web, preview, rows, index

MountsOf == (db :> {rows, index}) @@ (web :> {}) @@ (preview :> {rows})

=============================================================================
