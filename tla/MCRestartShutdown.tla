-------------------------- MODULE MCRestartShutdown --------------------------
(* Listeners and clients for TLC. *)
EXTENDS RestartShutdown

CONSTANTS sync1, sync2, admin1, c1, c2

TwoListeners == {sync1, admin1}
ThreeListeners == {sync1, sync2, admin1}
Admin == {admin1}
TwoClients == {c1, c2}

=============================================================================
