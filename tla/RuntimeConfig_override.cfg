\* A start with --listen, then a saved setting.
CONSTANTS
    address = address
    otherAddress = otherAddress
    path = path
    otherPath = otherPath
    token1 = token1
    token2 = token2
    hash1 = hash1
    noFile = noFile
    NoFile = noFile
    Values <- SomeValues
    Generated <- Tokens
    InitialFiles <- OneFile
    SettingPatches <- Settings
    ToolPatches <- NoPatch
    Overrides <- OneOverride
    ToolBesideServer = TRUE
    MaxErrors = 0

SPECIFICATION Spec

PROPERTIES OverridesNotSaved
