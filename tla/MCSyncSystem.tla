----------------------------- MODULE MCSyncSystem -----------------------------
(***************************************************************************)
(* Small instances of SyncSystem for TLC: edits at two times by either     *)
(* device, so that edits tie, and a deletion.                              *)
(***************************************************************************)
EXTENDS SyncSystem

CONSTANTS a, d1, d2

Written(time, by) ==
    [body |-> a, updated |-> time, deleted |-> NotDeleted, device |-> by]

Removed(time, by) ==
    [body |-> a, updated |-> time, deleted |-> time, device |-> by]

SomeEdits == {Written(1, d1), Written(2, d1), Written(1, d2), Removed(2, d2)}

=============================================================================
