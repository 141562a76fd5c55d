----------------------------- MODULE RuntimeConfig -----------------------------
(***************************************************************************)
(* The configuration (src/config.rs, src/main.rs): one TOML file, which    *)
(* the server reads at its start and writes when a setting is saved, and   *)
(* which the command line tool (`config show`, `config set`) reads and     *)
(* writes as a process of its own.                                         *)
(*                                                                         *)
(* The server keeps two copies: "persisted", what it believes is in the    *)
(* file, and "effective", what it runs with.  Some fields of a saved       *)
(* setting are in force at once, the others wait for a restart.            *)
(*                                                                         *)
(* A file is what serde reads of it.  Blanks around a value are not told   *)
(* apart from the value, nor a path from the same path relative to the     *)
(* file.  A write goes to a temporary file that is renamed, so it is one   *)
(* step.  The build has the admin feature.                                 *)
(***************************************************************************)
EXTENDS Naturals

CONSTANTS
    Values,          \* addresses, paths, levels, tokens, secrets, password hashes
    Generated,       \* the values generate_token may return
    NoFile,          \* no file
    InitialFiles,    \* what a deployment may begin with
    SettingPatches,  \* what the console asks to be saved
    ToolPatches,     \* what `config set` is called with
    Overrides,       \* what --listen, --db and --token of a start may say
    ToolBesideServer,\* TRUE: the tool may run while the server does
    MaxErrors        \* bound: writes that fail

\* The empty text or list, which also stands for a missing field, save for paths
\* and logLevel: serde gives a missing one its default.
Absent == "absent"

\* A text of spaces; of a listen field, a list without a valid address.
Blank == "blank"

Ipv4Only == "0.0.0.0:8787"
Ipv6Only == "[::]:8787"
DualStack == "0.0.0.0:8787, [::]:8787"

\* The default of adminListen, of each path and of logLevel.
Default == "default"

AllValues == Values \cup {Absent, Blank, Ipv4Only, Ipv6Only, DualStack, Default}

ListenFields == {"syncListen", "adminListen"}
PathFields == {"dbPath", "exportDir", "logPath"}

\* In force at once, and only after a restart.
LiveFields == {"syncToken", "passwordHash", "sessionSecret", "logLevel"}
RestartFields == ListenFields \cup PathFields
Fields == LiveFields \cup RestartFields

\* Names of earlier releases, read and never written.
LegacyFields == {"listen", "bind", "token"}

ServerConfigs == [Fields -> AllValues]
StoredConfigs == [Fields \cup LegacyFields -> AllValues]

\* No patch holds a session secret.
IsPatch(patch) ==
    /\ DOMAIN patch \subseteq Fields \ {"sessionSecret"}
    /\ patch \in [DOMAIN patch -> AllValues \ {Absent}]

\* A start without --listen, --db and --token.
NoOverrides == [f \in {} |-> Absent]

ASSUME ValuesAssumption ==
    /\ Values \cap {Absent, Blank, Ipv4Only, Ipv6Only, DualStack, Default} = {}
    /\ Generated \subseteq Values
    /\ NoFile \notin StoredConfigs
    /\ InitialFiles \subseteq StoredConfigs \cup {NoFile}
ASSUME PatchesAssumption ==
    \A patch \in SettingPatches \cup ToolPatches \cup Overrides : IsPatch(patch)
ASSUME ModesAssumption == ToolBesideServer \in BOOLEAN /\ MaxErrors \in Nat

VARIABLES
    file,       \* the file
    pc,         \* of each process: "down", "read", "loaded", "serving"
    stored,     \* of each process: the configuration it has read
    effective,  \* the server's RuntimeConfigState
    persisted,
    overrides,  \* the command line of the running server
    errors      \* writes that have failed

vars == <<file, pc, stored, effective, persisted, overrides, errors>>

Processes == {"server", "tool"}

-----------------------------------------------------------------------------
(* Loading *)

OrElse(value, other) == IF value = Absent THEN other ELSE value

\* sync_listen, or else the field an earlier release had.
StoredListen(config) ==
    OrElse(config["syncListen"], OrElse(config["listen"], OrElse(config["bind"], DualStack)))

\* Mutant of WithDualStack: any single address is taken for the old default.
WithDualStackAlways(listen) == DualStack

\* A single address that was once the default becomes both defaults.
WithDualStack(listen) == IF listen \in {Ipv4Only, Ipv6Only} THEN DualStack ELSE listen

\* The listen fields must hold valid addresses; everything else can be repaired.
Loadable(config) == StoredListen(config) # Blank /\ config["adminListen"] # Blank

ASSUME InitialFilesAssumption == \A config \in InitialFiles \ {NoFile} : Loadable(config)

NotBlank(value, other) == IF value \in {Absent, Blank} THEN other ELSE value

\* Mutant of Normalised: a session secret is generated at each load.
NormalisedAnew(config, token, secret) ==
    [config EXCEPT
        !["syncListen"] = WithDualStack(StoredListen(config)),
        !["listen"] = Absent, !["bind"] = Absent,
        !["adminListen"] = OrElse(@, Default),
        !["dbPath"] = NotBlank(@, Default), !["exportDir"] = NotBlank(@, Default),
        !["logPath"] = NotBlank(@, Default), !["logLevel"] = NotBlank(@, Default),
        !["syncToken"] = NotBlank(@, NotBlank(config["token"], token)),
        !["token"] = Absent,
        !["passwordHash"] = NotBlank(@, Absent),
        !["sessionSecret"] = secret]

\* normalize_stored_config; token and secret are what generate_token returns
\* where there is none.
Normalised(config, token, secret) ==
    [config EXCEPT
        !["syncListen"] = WithDualStack(StoredListen(config)),
        !["listen"] = Absent, !["bind"] = Absent,
        !["adminListen"] = OrElse(@, Default),
        !["dbPath"] = NotBlank(@, Default), !["exportDir"] = NotBlank(@, Default),
        !["logPath"] = NotBlank(@, Default), !["logLevel"] = NotBlank(@, Default),
        !["syncToken"] = NotBlank(@, NotBlank(config["token"], token)),
        !["token"] = Absent,
        !["passwordHash"] = NotBlank(@, Absent),
        !["sessionSecret"] = NotBlank(@, secret)]

\* StoredConfig::default
NewFile == [f \in Fields \cup LegacyFields |-> Absent]

\* A process reads the file; one that needs no repair is not written.
Read(p) ==
    /\ pc[p] = "down"
    /\ ToolBesideServer \/ \A q \in Processes : pc[q] = "down"
    /\ file # NoFile => Loadable(file)
    /\ \E token, secret \in Generated :
           LET config == Normalised(IF file = NoFile THEN NewFile ELSE file, token, secret)
           IN  /\ stored' = [stored EXCEPT ![p] = config]
               /\ pc' = [pc EXCEPT ![p] = IF config = file THEN "loaded" ELSE "read"]
    /\ UNCHANGED <<file, effective, persisted, overrides, errors>>

Rewrite(p) ==
    /\ pc[p] = "read"
    /\ file' = stored[p]
    /\ pc' = [pc EXCEPT ![p] = "loaded"]
    /\ UNCHANGED <<stored, effective, persisted, overrides, errors>>

\* The write fails, and with it the process.
RewriteFails(p) ==
    /\ pc[p] = "read" /\ errors < MaxErrors
    /\ errors' = errors + 1
    /\ pc' = [pc EXCEPT ![p] = "down"]
    /\ UNCHANGED <<file, stored, effective, persisted, overrides>>

-----------------------------------------------------------------------------
(* Changing *)

Patched(config, patch) ==
    [f \in DOMAIN config |-> IF f \in DOMAIN patch THEN patch[f] ELSE config[f]]

\* Mutant of Loaded: the names of earlier releases are kept.
LoadedWhole(config) == config

\* The fields of a ServerConfig.
Loaded(config) == [f \in Fields |-> config[f]]

\* StoredConfig::from_server_config
Stored(config) ==
    [f \in Fields \cup LegacyFields |-> IF f \in Fields THEN config[f] ELSE Absent]

\* Mutant of Accepted: apply_config_patch takes any patch.
AcceptedAlways(patch) == TRUE

\* apply_config_patch refuses what is empty after trim(), except of a path.
Accepted(patch) == \A f \in DOMAIN patch \ PathFields : patch[f] # Blank

\* The command line counts for this start: RuntimeConfig::new makes of it both
\* the effective and the persisted configuration.
Serve ==
    /\ pc["server"] = "loaded"
    /\ \E given \in Overrides :
           /\ Accepted(given)
           /\ overrides' = given
           /\ effective' = Patched(Loaded(stored["server"]), given)
    /\ persisted' = effective'
    /\ pc' = [pc EXCEPT !["server"] = "serving"]
    /\ UNCHANGED <<file, stored, errors>>

\* Mutant of Save: the patch is applied to the effective configuration.
SaveFromEffective(patch) ==
    /\ pc["server"] = "serving" /\ Accepted(patch)
    /\ persisted' = Patched(effective, patch)
    /\ file' = Stored(persisted')
    /\ effective' = [f \in Fields |-> IF f \in LiveFields THEN persisted'[f] ELSE effective[f]]
    /\ UNCHANGED <<pc, stored, overrides, errors>>

\* RuntimeConfig::apply_patch, under the write lock: the file first, then the
\* persisted configuration and the live fields of the effective one.
Save(patch) ==
    /\ pc["server"] = "serving" /\ Accepted(patch)
    /\ persisted' = Patched(persisted, patch)
    /\ file' = Stored(persisted')
    /\ effective' = [f \in Fields |-> IF f \in LiveFields THEN persisted'[f] ELSE effective[f]]
    /\ UNCHANGED <<pc, stored, overrides, errors>>

\* Mutant of SaveFails: the memory is changed before the file is written.
SaveFailsLate(patch) ==
    /\ pc["server"] = "serving" /\ Accepted(patch) /\ errors < MaxErrors
    /\ errors' = errors + 1
    /\ persisted' = Patched(persisted, patch)
    /\ effective' = [f \in Fields |-> IF f \in LiveFields THEN persisted'[f] ELSE effective[f]]
    /\ UNCHANGED <<file, pc, stored, overrides>>

\* The write fails, and nothing has changed.
SaveFails(patch) ==
    /\ pc["server"] = "serving" /\ Accepted(patch) /\ errors < MaxErrors
    /\ errors' = errors + 1
    /\ UNCHANGED <<file, pc, stored, effective, persisted, overrides>>

\* `config set`: update_config_file changes the configuration it has loaded.
Set(patch) ==
    /\ pc["tool"] = "loaded" /\ Accepted(patch)
    /\ file' = Stored(Patched(Loaded(stored["tool"]), patch))
    /\ pc' = [pc EXCEPT !["tool"] = "down"]
    /\ UNCHANGED <<stored, effective, persisted, overrides, errors>>

\* `config show` is done, a write of the tool fails, the server is stopped or
\* restarted, or the process dies.
Exit(p) ==
    /\ pc[p] # "down"
    /\ pc' = [pc EXCEPT ![p] = "down"]
    /\ UNCHANGED <<file, stored, effective, persisted, overrides, errors>>

-----------------------------------------------------------------------------

Init ==
    /\ file \in InitialFiles
    /\ pc = [p \in Processes |-> "down"]
    /\ stored = [p \in Processes |-> NewFile]
    /\ effective = Loaded(NewFile)
    /\ persisted = Loaded(NewFile)
    /\ overrides = NoOverrides
    /\ errors = 0

Load == \E p \in Processes : Read(p) \/ Rewrite(p) \/ RewriteFails(p) \/ Exit(p)

Next ==
    \/ Load
    \/ Serve
    \/ \E patch \in SettingPatches : Save(patch) \/ SaveFails(patch)
    \/ \E patch \in ToolPatches : Set(patch)

Spec == Init /\ [][Next]_vars

-----------------------------------------------------------------------------
(* What the console shows *)

\* pending_restart_fields_for
PendingFields == {f \in RestartFields : effective[f] # persisted[f]}

-----------------------------------------------------------------------------
(* Properties *)

\* Every variable has the type of the source's value.
TypeOK ==
    /\ file \in StoredConfigs \cup {NoFile}
    /\ pc \in [Processes -> {"down", "read", "loaded", "serving"}]
    /\ stored \in [Processes -> StoredConfigs]
    /\ effective \in ServerConfigs
    /\ persisted \in ServerConfigs
    /\ IsPatch(overrides)
    /\ errors \in 0 .. MaxErrors

\* What the next start, without a command line, would run with.
AfterRestart(f) == Normalised(file, Absent, Absent)[f]

\* What may become of a value that was saved, when it is loaded again.  Two are
\* replaced, though apply_config_patch takes them: a listen address that was once the
\* default by itself, and a path of spaces.
Reread(f, value) ==
    CASE f = "syncListen" /\ value \in {Ipv4Only, Ipv6Only} -> DualStack
      [] f \in PathFields /\ value = Blank -> Default
      [] OTHER -> value

\* Whatever was saved by either process, the next start accepts the file: what a
\* patch may hold (apply_config_patch) is no more than what a load takes.
FileLoads == file # NoFile => Loadable(file)

\* The fields marked for a restart are those a restart would change, and the
\* others are in force: of the server's two copies and the file, also after
\* saves that failed (one process at a time, no command line).  Where a load will
\* replace what was saved (Reread) the console does not know what it will be.
PendingIsExact ==
    LET Kept == {f \in Fields : Reread(f, persisted[f]) = persisted[f]}
    IN  pc["server"] = "serving" =>
            PendingFields \cap Kept = {f \in Kept : effective[f] # AfterRestart(f)}

\* The session secret never changes once it is written, so sessions survive
\* saves and restarts (src/config.rs:308-321; one process at a time).
SecretStays ==
    [][file # NoFile /\ file["sessionSecret"] \notin {Absent, Blank}
           => file'["sessionSecret"] = file["sessionSecret"]]_file

\* Neither a save in the console nor `config set` changes a field of the file but
\* those it is about, also while other fields wait for a restart and where the load
\* repaired the file first (one process at a time, no command line; src/config.rs:731,
\* the test config_set_updates_selected_fields_without_losing_existing_values).
SavesLoseNothing ==
    [][\A patch \in SettingPatches \cup ToolPatches : Save(patch) \/ Set(patch) =>
           \A f \in Fields \ DOMAIN patch : file'[f] = file[f]]_vars

\* What is saved is what the next start runs with, also after failed writes and
\* saves by the other process (config.rs:398-468), but for the two values that Reread
\* names (docs/deployment.md:345-355 gives one of them as a setting): the repairs of
\* normalize_stored_config, made for files of earlier releases, reach no other.
SavedIsLoaded ==
    [][\A patch \in SettingPatches \cup ToolPatches : Save(patch) \/ Set(patch) =>
           \A f \in DOMAIN patch : AfterRestart(f)' = Reread(f, patch[f])]_vars

\* An override counts for one start and does not reach the file
\* (docs/deployment.md:391).
OverridesNotSaved ==
    [][\A patch \in SettingPatches : Save(patch) =>
           \A f \in DOMAIN overrides \ DOMAIN patch : file'[f] = file[f]]_vars

=============================================================================
