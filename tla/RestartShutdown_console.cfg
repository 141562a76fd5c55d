\* Requests at any time and a listener that fails.
CONSTANTS
    sync1 = sync1
    sync2 = sync2
    admin1 = admin1
    c1 = c1
    c2 = c2
    Listeners <- ThreeListeners
    AdminListeners <- Admin
    Clients <- TwoClients
    MaxFailures = 1

SPECIFICATION FairSpec

INVARIANTS TypeOK ExitIsGraceful NoLostWakeup
PROPERTIES FailureEnds RestartHappens
