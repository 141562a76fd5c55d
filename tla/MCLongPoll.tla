------------------------------ MODULE MCLongPoll ------------------------------
(* Two clients and three revisions, for TLC. *)
EXTENDS LongPoll

CONSTANTS c1, c2

TwoClients == {c1, c2}

=============================================================================
