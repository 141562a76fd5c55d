\* Requests at any time.
CONSTANTS
    sync1 = sync1
    sync2 = sync2
    admin1 = admin1
    c1 = c1
    c2 = c2
    Listeners <- TwoListeners
    AdminListeners <- Admin
    Clients <- TwoClients
    MaxFailures = 0

SPECIFICATION FairSpec

PROPERTIES RestartAlwaysHappens
