---------------------------- MODULE MCAdminAccount ----------------------------
(* Clients, requests and passwords for TLC. *)
EXTENDS AdminAccount

CONSTANTS c1, c2, r1, r2, p1, p2

TwoClients == {c1, c2}
TwoSlots == {r1, r2}
TwoPasswords == {p1, p2}

=============================================================================
