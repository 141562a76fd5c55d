\* Two clients, a restart at any step and a lost request; safety and liveness.
CONSTANTS
    c1 = c1
    c2 = c2
    Clients <- TwoClients
    MaxRevision = 3
    MaxRestarts = 1
    MaxDrops = 1

SPECIFICATION FairSpec

INVARIANTS TypeOK NoSleepThroughChange ChangedMeansNewer CursorsWereSent
PROPERTIES CursorsCatchUp
