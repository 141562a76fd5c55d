\* Two devices and two notes; a restore leaves one of them or both.
CONSTANTS
    a = a
    d1 = d1
    d2 = d2
    NoteIds = {1, 2}
    Bodies = {a}
    Devices = {d1, d2}
    MaxTime = 2
    Edits <- SomeEdits
    BackupFiles = {f1}
    MaxRevision = 8
    MaxEdits = 2
    MaxLosses = 1
    MaxRestores = 1

SPECIFICATION SystemSpec

INVARIANTS ReplicaExact Inv
PROPERTY Converges
