\* Two browsers, overlapping requests, three passwords in turn.
CONSTANTS
    c1 = c1
    c2 = c2
    r1 = r1
    r2 = r2
    p1 = p1
    p2 = p2
    Clients <- TwoClients
    Slots <- TwoSlots
    Passwords <- TwoPasswords
    Lifetime = 1
    MaxTime = 1
    MaxHashes = 3

SPECIFICATION Spec

INVARIANTS TypeOK SessionsKnowPassword
PROPERTIES EndedStaysEnded ChangeEndsOthers
