\* One process at a time, no command line, writes that fail.
CONSTANTS
    address = address
    otherAddress = otherAddress
    path = path
    otherPath = otherPath
    token1 = token1
    token2 = token2
    hash1 = hash1
    noFile = noFile
    NoFile = noFile
    Values <- SomeValues
    Generated <- Tokens
    InitialFiles <- Files
    SettingPatches <- Settings
    ToolPatches <- Sets
    Overrides <- NoOverride
    ToolBesideServer = FALSE
    MaxErrors = 1

SPECIFICATION Spec

INVARIANTS TypeOK PendingIsExact FileLoads
PROPERTIES SecretStays SavesLoseNothing SavedIsLoaded

