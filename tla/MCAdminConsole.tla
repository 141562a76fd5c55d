---------------------------- MODULE MCAdminConsole ----------------------------
(***************************************************************************)
(* Small instances of AdminConsole for TLC.                                *)
(***************************************************************************)
EXTENDS AdminConsole

CONSTANTS n1, all, active

=============================================================================
