----------------------------- MODULE MCSyncStore -----------------------------
(***************************************************************************)
(* Small instances of SyncStore for TLC: the changes that clients push are *)
(* a few that compare in every way that push tells apart (older, equal,    *)
(* same time with another body, tombstone at and after the edit it hides). *)
(***************************************************************************)
EXTENDS AdminReads

CONSTANTS a, b, d1, noDevice

Live(body, time, by) ==
    [body |-> body, updated |-> time, deleted |-> NotDeleted, device |-> by]

Deleted(body, time, by) ==
    [body |-> body, updated |-> time, deleted |-> time, device |-> by]

\* Enough for faults: an edit, a later one of a device that leaves its id out,
\* and a tombstone of the same time.
FewChanges == {Live(a, 1, d1), Live(b, 2, noDevice), Deleted(a, 2, d1)}

\* A tombstone whose deleted_at is before its updated_at, so that it ties with the
\* first edit (as the one above ties with the later edit).
TiedChanges ==
    {Live(a, 1, d1), Live(b, 2, noDevice),
     [body |-> a, updated |-> 2, deleted |-> 1, device |-> noDevice]}

-----------------------------------------------------------------------------
(* For the console's queries: two categories, one of them blank, a search that *)
(* finds one body, and titles that make file names meet: one of which nothing  *)
(* is left, so that the id is used, and one that is the id of another note.    *)

Categories == [body \in {a, b} |-> IF body = a THEN Blank ELSE "inbox"]

Searches == [search \in {"one"} |-> {b}]

Titles == [body \in {a, b} |-> IF body = a THEN <<"-", "?", " ">> ELSE <<"?", "2", "-">>]

Numbers == [k \in 2 .. 4 |-> <<ToString(k)>>]

Ids == [n \in NoteIds |-> <<ToString(n)>>]

Ascii == [ch \in {"1", "2", "3", "4"} |-> ch]

=============================================================================
