\* One note, two queries, a change of the store, a failed request.
CONSTANTS
    n1 = n1
    all = all
    active = active
    None = None
    Notes = {n1}
    Queries = {all, active}
    DefaultQuery = all
    MaxRevision = 1
    MaxCalls = 2
    MaxFailures = 1

SPECIFICATION Spec

INVARIANTS TypeOK
PROPERTIES ListFollowsStore DetailFollowsStore BusyEnds
