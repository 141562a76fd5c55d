------------------------- MODULE RuntimeConfigProofs -------------------------
(***************************************************************************)
(* Proofs about module RuntimeConfig: whatever is saved can be loaded,     *)
(* loading repairs a file once, and one process at a time loses nothing.   *)
(***************************************************************************)
EXTENDS RuntimeConfig, TLAPS

-----------------------------------------------------------------------------
(* Loading and changing *)

\* The fields, one by one.
LEMMA AllFields ==
    Fields \cup LegacyFields =
        {"syncListen", "adminListen", "dbPath", "exportDir", "logPath", "syncToken",
         "passwordHash", "sessionSecret", "logLevel", "listen", "bind", "token"}
BY DEF Fields, LegacyFields, RestartFields, LiveFields, ListenFields, PathFields

\* What a load makes of a file is a stored configuration, with no field of an
\* earlier release.
LEMMA NormalisedType ==
    ASSUME NEW config \in StoredConfigs, NEW token \in AllValues, NEW secret \in AllValues
    PROVE  /\ Normalised(config, token, secret) \in StoredConfigs
           /\ \A f \in LegacyFields : Normalised(config, token, secret)[f] = Absent
<1>1. \A f \in Fields \cup LegacyFields : config[f] \in AllValues
    BY DEF StoredConfigs
<1>2. Absent \in AllValues /\ Default \in AllValues /\ DualStack \in AllValues
    BY DEF AllValues
<1>3. WithDualStack(StoredListen(config)) \in AllValues
    BY <1>1, <1>2, AllFields DEF StoredListen, OrElse, WithDualStack
<1>4. \A value, other \in AllValues :
          OrElse(value, other) \in AllValues /\ NotBlank(value, other) \in AllValues
    BY DEF OrElse, NotBlank
<1>5. Normalised(config, token, secret) \in StoredConfigs
    BY <1>1, <1>2, <1>3, <1>4, AllFields DEF Normalised, StoredConfigs
<1> QED
    BY <1>5, AllFields DEF Normalised, StoredConfigs, LegacyFields

\* What a load makes of each field.
LEMMA NormalisedFields ==
    ASSUME NEW config \in StoredConfigs, NEW token, NEW secret,
           NEW N, N = Normalised(config, token, secret)
    PROVE  /\ N = [f \in Fields \cup LegacyFields |-> N[f]]
           /\ N["syncListen"] = WithDualStack(StoredListen(config))
           /\ N["adminListen"] = OrElse(config["adminListen"], Default)
           /\ \A f \in PathFields \cup {"logLevel"} : N[f] = NotBlank(config[f], Default)
           /\ N["syncToken"] = NotBlank(config["syncToken"], NotBlank(config["token"], token))
           /\ N["sessionSecret"] = NotBlank(config["sessionSecret"], secret)
           /\ N["passwordHash"] = NotBlank(config["passwordHash"], Absent)
           /\ \A f \in LegacyFields : N[f] = Absent
<1>1. N = [f \in Fields \cup LegacyFields |-> N[f]]
    BY DEF Normalised, StoredConfigs
<1> QED
    BY <1>1, AllFields DEF Normalised, StoredConfigs, PathFields, LegacyFields

\* Addresses a server can be started with.
Addresses(config) == config["syncListen"] \notin {Absent, Blank} /\ config["adminListen"] # Blank

\* A normalised configuration has them if the file loads.
LEMMA NormalisedLoads ==
    ASSUME NEW config \in StoredConfigs, NEW token, NEW secret, Loadable(config)
    PROVE  Addresses(Normalised(config, token, secret))
<1>1. StoredListen(config) \notin {Absent, Blank} /\ config["adminListen"] # Blank
    BY DEF Loadable, StoredListen, OrElse, DualStack, Absent, Blank
<1>2. WithDualStack(StoredListen(config)) \notin {Absent, Blank}
    BY <1>1 DEF WithDualStack, DualStack, Absent, Blank
<1>3. OrElse(config["adminListen"], Default) # Blank
    BY <1>1 DEF OrElse, Default, Absent, Blank
<1> QED
    BY <1>2, <1>3, AllFields DEF Addresses, Normalised, StoredConfigs

\* A load repairs a file once: what it has written, the next load leaves alone.
\* So a start never rewrites the file of a start (normalize_stored_config).
THEOREM LoadRepairsOnce ==
    ASSUME NEW config \in StoredConfigs,
           NEW token \in Values, NEW secret \in Values, NEW other, NEW another
    PROVE  Normalised(Normalised(config, token, secret), other, another)
               = Normalised(config, token, secret)
<1> DEFINE N == Normalised(config, token, secret)
           M == Normalised(N, other, another)
<1>1. token \notin {Absent, Blank} /\ secret \notin {Absent, Blank}
    BY ValuesAssumption
<1>2. N \in StoredConfigs
    BY NormalisedType DEF AllValues
<1>3. \A value : /\ OrElse(value, Default) # Absent
                 /\ NotBlank(value, Default) \notin {Absent, Blank}
    BY DEF OrElse, NotBlank, Default, Absent, Blank
<1>4. /\ N["syncListen"] = WithDualStack(StoredListen(config))
      /\ N["adminListen"] = OrElse(config["adminListen"], Default)
      /\ \A f \in PathFields \cup {"logLevel"} : N[f] = NotBlank(config[f], Default)
      /\ N["syncToken"] = NotBlank(config["syncToken"], NotBlank(config["token"], token))
      /\ N["sessionSecret"] = NotBlank(config["sessionSecret"], secret)
      /\ N["passwordHash"] = NotBlank(config["passwordHash"], Absent)
      /\ \A f \in LegacyFields : N[f] = Absent
    BY NormalisedFields
<1> HIDE DEF N
<1>5. N["syncListen"] # Absent /\ WithDualStack(N["syncListen"]) = N["syncListen"]
  <2>1. StoredListen(config) # Absent
      BY DEF StoredListen, OrElse, DualStack, Absent
  <2> QED
      BY <1>4, <2>1 DEF WithDualStack, DualStack, Ipv4Only, Ipv6Only, Absent
<1>6. WithDualStack(StoredListen(N)) = N["syncListen"]
    BY <1>5 DEF StoredListen, OrElse
<1>7. OrElse(N["adminListen"], Default) = N["adminListen"]
    BY <1>3, <1>4 DEF OrElse
<1>8. \A f \in PathFields \cup {"logLevel"} : NotBlank(N[f], Default) = N[f]
    BY <1>3, <1>4 DEF NotBlank
<1>9. /\ N["syncToken"] \notin {Absent, Blank}
      /\ N["sessionSecret"] \notin {Absent, Blank}
    BY <1>1, <1>4 DEF NotBlank
<1>10. NotBlank(N["passwordHash"], Absent) = N["passwordHash"]
    BY <1>4 DEF NotBlank, Absent, Blank
<1>11. /\ NotBlank(N["syncToken"], NotBlank(N["token"], other)) = N["syncToken"]
       /\ NotBlank(N["sessionSecret"], another) = N["sessionSecret"]
    BY <1>9 DEF NotBlank
<1>12. /\ M = [f \in Fields \cup LegacyFields |-> M[f]]
       /\ M["syncListen"] = WithDualStack(StoredListen(N))
       /\ M["adminListen"] = OrElse(N["adminListen"], Default)
       /\ \A f \in PathFields \cup {"logLevel"} : M[f] = NotBlank(N[f], Default)
       /\ M["syncToken"] = NotBlank(N["syncToken"], NotBlank(N["token"], other))
       /\ M["sessionSecret"] = NotBlank(N["sessionSecret"], another)
       /\ M["passwordHash"] = NotBlank(N["passwordHash"], Absent)
       /\ \A f \in LegacyFields : M[f] = Absent
    BY <1>2, NormalisedFields, SMTT(20)
<1>13. N = [f \in Fields \cup LegacyFields |-> N[f]]
    BY <1>2 DEF StoredConfigs
<1> HIDE DEF M
<1>14. \A f \in Fields \cup LegacyFields : M[f] = N[f]
    BY <1>4, <1>6, <1>7, <1>8, <1>10, <1>11, <1>12
    DEF Fields, LiveFields, RestartFields, ListenFields
<1>15. M = N
    BY <1>12, <1>13, <1>14
<1> QED
    BY <1>15 DEF M, N

\* A file begins as something a load takes.
LEMMA NewFileType == NewFile \in StoredConfigs /\ Loadable(NewFile)
<1>1. NewFile \in StoredConfigs
    BY DEF NewFile, StoredConfigs, AllValues
<1>2. \A f \in Fields \cup LegacyFields : NewFile[f] = Absent
    BY DEF NewFile
<1>3. Loadable(NewFile)
    BY <1>2, AllFields DEF Loadable, StoredListen, OrElse, Absent, Blank, DualStack
<1> QED
    BY <1>1, <1>3

\* A patched server configuration is one.
LEMMA PatchedType ==
    ASSUME NEW config \in ServerConfigs, NEW patch, IsPatch(patch)
    PROVE  Patched(config, patch) \in ServerConfigs
BY DEF ServerConfigs, IsPatch, Patched

\* A server configuration as it is stored, and what is loaded of a stored one.
LEMMA StoredType ==
    /\ \A config \in ServerConfigs : Stored(config) \in StoredConfigs
    /\ \A config \in StoredConfigs : Loaded(config) \in ServerConfigs
BY DEF ServerConfigs, StoredConfigs, Stored, Loaded, AllValues

\* An accepted patch keeps the addresses usable.
LEMMA PatchedLoads ==
    ASSUME NEW config \in ServerConfigs, NEW patch,
           IsPatch(patch), Accepted(patch), Addresses(config)
    PROVE  Addresses(Patched(config, patch))
<1>1. "syncListen" \in Fields \ PathFields /\ "adminListen" \in Fields \ PathFields
    BY DEF Fields, RestartFields, ListenFields, PathFields
<1>2. ASSUME NEW f \in DOMAIN patch \ PathFields PROVE patch[f] \notin {Absent, Blank}
    BY DEF IsPatch, Accepted
<1>3. \A f \in Fields : Patched(config, patch)[f] = IF f \in DOMAIN patch THEN patch[f] ELSE config[f]
    BY DEF ServerConfigs, Patched
<1> QED
    BY <1>1, <1>2, <1>3 DEF Addresses

\* Storing and loading keep them, and a file with them loads.
LEMMA StoredLoads ==
    /\ \A config : Addresses(config) => Addresses(Stored(config)) /\ Addresses(Loaded(config))
    /\ \A config : Addresses(config) => Loadable(config)
<1>1. "syncListen" \in Fields /\ "adminListen" \in Fields
    BY DEF Fields, RestartFields, ListenFields
<1> QED
    BY <1>1 DEF Addresses, Stored, Loaded, Loadable, StoredListen, OrElse

-----------------------------------------------------------------------------
(* Every file can be loaded *)

\* The addresses of each copy that may be written are usable.
Usable ==
    /\ FileLoads
    /\ \A p \in Processes : pc[p] \in {"read", "loaded"} => Addresses(stored[p])
    /\ pc["server"] = "serving" => Addresses(persisted)

Inv == TypeOK /\ Usable

\* A deployment begins with a file that loads, or none.
LEMMA InitInv == Init => Inv
<1> SUFFICES ASSUME Init PROVE Inv
    OBVIOUS
<1>1. NewFile \in StoredConfigs /\ Loaded(NewFile) \in ServerConfigs
    BY NewFileType, StoredType
<1>2. IsPatch(NoOverrides)
    BY DEF IsPatch, NoOverrides
<1>3. TypeOK
    BY <1>1, <1>2, ValuesAssumption, ModesAssumption DEF Init, TypeOK
<1>4. Usable
    BY InitialFilesAssumption DEF Init, Usable, FileLoads, Processes
<1> QED
    BY <1>3, <1>4 DEF Inv

\* A read leaves a process with a usable configuration.
LEMMA ReadStep ==
    ASSUME Inv, NEW p \in Processes, Read(p)
    PROVE  Inv'
<1> DEFINE from == IF file = NoFile THEN NewFile ELSE file
<1>1. PICK token \in Generated, secret \in Generated :
          /\ stored' = [stored EXCEPT ![p] = Normalised(from, token, secret)]
          /\ pc' = [pc EXCEPT ![p] = IF Normalised(from, token, secret) = file
                                    THEN "loaded" ELSE "read"]
    BY DEF Read
<1>2. UNCHANGED <<file, effective, persisted, overrides, errors>>
    BY DEF Read
<1>3. from \in StoredConfigs /\ Loadable(from)
    BY NewFileType DEF Read, Inv, TypeOK
<1> DEFINE config == Normalised(from, token, secret)
<1>4. token \in AllValues /\ secret \in AllValues
    BY ValuesAssumption DEF AllValues
<1> HIDE DEF from
<1>5. config \in StoredConfigs /\ Addresses(config)
    BY <1>3, <1>4, NormalisedType, NormalisedLoads
<1>6. /\ stored' = [stored EXCEPT ![p] = config]
      /\ pc' = [pc EXCEPT ![p] = IF config = file THEN "loaded" ELSE "read"]
    BY <1>1
<1> HIDE DEF config
<1>7. TypeOK'
    BY <1>2, <1>5, <1>6 DEF Inv, TypeOK
<1>8. Usable'
    BY <1>2, <1>5, <1>6 DEF Inv, TypeOK, Usable, FileLoads, Processes
<1> QED
    BY <1>7, <1>8 DEF Inv

\* What a load repairs can be loaded again.
LEMMA RewriteStep ==
    ASSUME Inv, NEW p \in Processes, Rewrite(p)
    PROVE  Inv'
<1>1. TypeOK'
    BY DEF Inv, TypeOK, Rewrite
<1>2. Addresses(stored[p])
    BY DEF Inv, Usable, Rewrite
<1>3. Usable'
    BY <1>2, StoredLoads DEF Inv, TypeOK, Usable, FileLoads, Rewrite, Processes
<1> QED
    BY <1>1, <1>3 DEF Inv

\* A server that has loaded begins to serve, with what its command line says.
LEMMA ServeStep == Inv /\ Serve => Inv'
<1> SUFFICES ASSUME Inv, Serve PROVE Inv'
    OBVIOUS
<1>1. PICK given \in Overrides :
          /\ Accepted(given)
          /\ overrides' = given
          /\ effective' = Patched(Loaded(stored["server"]), given)
    BY DEF Serve
<1>2. IsPatch(given)
    BY <1>1, PatchesAssumption
<1>3. Loaded(stored["server"]) \in ServerConfigs /\ Addresses(Loaded(stored["server"]))
    BY StoredType, StoredLoads DEF Inv, TypeOK, Usable, Serve, Processes
<1>4. effective' \in ServerConfigs /\ Addresses(effective')
    BY <1>1, <1>2, <1>3, PatchedType, PatchedLoads
<1>5. TypeOK'
    BY <1>1, <1>2, <1>4 DEF Inv, TypeOK, Serve
<1>6. Usable'
    BY <1>4 DEF Inv, TypeOK, Usable, FileLoads, Serve, Processes
<1> QED
    BY <1>5, <1>6 DEF Inv

\* A saved setting is a file that loads.
LEMMA SaveStep ==
    ASSUME Inv, NEW patch \in SettingPatches, Save(patch)
    PROVE  Inv'
<1>1. IsPatch(patch) /\ Accepted(patch)
    BY PatchesAssumption DEF Save
<1>2. persisted' \in ServerConfigs /\ Addresses(persisted')
    BY <1>1, PatchedType, PatchedLoads DEF Inv, TypeOK, Usable, Save
<1>3. file' \in StoredConfigs /\ Loadable(file')
    BY <1>2, StoredType, StoredLoads DEF Save
<1>4. effective' \in ServerConfigs
    BY <1>2 DEF Inv, TypeOK, Save, ServerConfigs
<1>5. TypeOK'
    BY <1>2, <1>3, <1>4 DEF Inv, TypeOK, Save
<1>6. Usable'
    BY <1>2, <1>3 DEF Inv, Usable, FileLoads, Save
<1> QED
    BY <1>5, <1>6 DEF Inv

\* So is what `config set` writes.
LEMMA SetStep ==
    ASSUME Inv, NEW patch \in ToolPatches, Set(patch)
    PROVE  Inv'
<1>1. IsPatch(patch) /\ Accepted(patch)
    BY PatchesAssumption DEF Set
<1>2. Loaded(stored["tool"]) \in ServerConfigs /\ Addresses(Loaded(stored["tool"]))
    BY StoredType, StoredLoads DEF Inv, TypeOK, Usable, Set, Processes
<1>3. file' \in StoredConfigs /\ Loadable(file')
    BY <1>1, <1>2, PatchedType, PatchedLoads, StoredType, StoredLoads DEF Set
<1>4. TypeOK'
    BY <1>3 DEF Inv, TypeOK, Set
<1>5. Usable'
    BY <1>3 DEF Inv, TypeOK, Usable, FileLoads, Set, Processes
<1> QED
    BY <1>4, <1>5 DEF Inv

\* Every step keeps the invariant.
LEMMA NextInv == Inv /\ [Next]_vars => Inv'
<1> SUFFICES ASSUME Inv, [Next]_vars PROVE Inv'
    OBVIOUS
<1>1. CASE Load
  <2>1. PICK p \in Processes : Read(p) \/ Rewrite(p) \/ RewriteFails(p) \/ Exit(p)
      BY <1>1 DEF Load
  <2>2. CASE RewriteFails(p)
      BY <2>2, ModesAssumption DEF Inv, TypeOK, Usable, FileLoads, RewriteFails, Processes
  <2>3. CASE Exit(p)
      BY <2>3 DEF Inv, TypeOK, Usable, FileLoads, Exit, Processes
  <2> QED
      BY <2>1, <2>2, <2>3, ReadStep, RewriteStep
<1>2. ASSUME NEW patch \in SettingPatches, SaveFails(patch) PROVE Inv'
    BY <1>2, ModesAssumption DEF Inv, TypeOK, Usable, FileLoads, SaveFails
<1>3. CASE UNCHANGED vars
    BY <1>3 DEF Inv, TypeOK, Usable, FileLoads, vars
<1> QED
    BY <1>1, <1>2, <1>3, ServeStep, SaveStep, SetStep DEF Next

\* Type correctness.
THEOREM SpecTypeOK == Spec => []TypeOK
<1>1. Inv => TypeOK
    BY DEF Inv
<1> QED
    BY <1>1, InitInv, NextInv, PTL DEF Spec

\* Whatever the console and `config set` save, in whatever order and also side
\* by side, the next start loads the file: apply_config_patch accepts nothing
\* that normalize_stored_config refuses.
THEOREM SpecFileLoads == Spec => []FileLoads
<1>1. Inv => FileLoads
    BY DEF Inv, Usable
<1> QED
    BY <1>1, InitInv, NextInv, PTL DEF Spec

-----------------------------------------------------------------------------
(* One process at a time loses nothing *)

\* What a process will change is what the file holds: a loaded configuration is
\* the file, and so is what the server believes to be in it.
Believed ==
    /\ \A p, q \in Processes : p # q => pc[p] = "down" \/ pc[q] = "down"
    /\ \A p \in Processes : pc[p] = "loaded" => file = stored[p]
    /\ \A p \in Processes : pc[p] \in {"read", "loaded"} =>
           \A f \in LegacyFields : stored[p][f] = Absent
    /\ pc["server"] = "serving" => file = Stored(persisted)

\* A normalised configuration survives being loaded and stored.
LEMMA StoredLoaded ==
    ASSUME NEW config \in StoredConfigs, \A f \in LegacyFields : config[f] = Absent
    PROVE  Stored(Loaded(config)) = config
<1>1. config = [f \in Fields \cup LegacyFields |-> config[f]]
    BY DEF StoredConfigs
<1>2. ASSUME NEW f \in Fields \cup LegacyFields
      PROVE  config[f] = IF f \in Fields THEN Loaded(config)[f] ELSE Absent
    BY DEF Loaded
<1>3. Stored(Loaded(config)) = [f \in Fields \cup LegacyFields |-> config[f]]
    BY <1>2 DEF Stored
<1> QED
    BY <1>1, <1>3

\* Processes that take turns keep it, as long as no command line comes between
\* the file and the server.
LEMMA BelievedStep ==
    ASSUME ~ToolBesideServer, Overrides = {NoOverrides}, Inv, Believed, [Next]_vars
    PROVE  Believed'
<1>1. ASSUME NEW p \in Processes, Read(p) PROVE Believed'
  <2> DEFINE from == IF file = NoFile THEN NewFile ELSE file
  <2>1. PICK token \in Generated, secret \in Generated :
            /\ stored' = [stored EXCEPT ![p] = Normalised(from, token, secret)]
            /\ pc' = [pc EXCEPT ![p] = IF Normalised(from, token, secret) = file
                                      THEN "loaded" ELSE "read"]
      BY <1>1 DEF Read
  <2>2. from \in StoredConfigs /\ token \in AllValues /\ secret \in AllValues
      BY NewFileType, ValuesAssumption DEF Inv, TypeOK, AllValues
  <2> DEFINE config == Normalised(from, token, secret)
  <2> HIDE DEF from
  <2>3. \A f \in LegacyFields : config[f] = Absent
      BY <2>2, NormalisedType
  <2>4. /\ stored' = [stored EXCEPT ![p] = config]
        /\ pc' = [pc EXCEPT ![p] = IF config = file THEN "loaded" ELSE "read"]
      BY <2>1
  <2> HIDE DEF config
  <2>5. /\ \A q \in Processes : pc[q] = "down"
        /\ UNCHANGED <<file, persisted>>
      BY <1>1 DEF Read
  <2> QED
      BY <2>3, <2>4, <2>5 DEF Believed, Inv, TypeOK, Processes
<1>2. ASSUME NEW p \in Processes, Rewrite(p) \/ RewriteFails(p) \/ Exit(p) PROVE Believed'
    BY <1>2 DEF Rewrite, RewriteFails, Exit, Believed, Inv, TypeOK, Processes
<1>3. CASE Serve
  <2>1. effective' = Patched(Loaded(stored["server"]), NoOverrides)
      BY <1>3 DEF Serve
  <2>2. Patched(Loaded(stored["server"]), NoOverrides) = Loaded(stored["server"])
      BY DEF Patched, Loaded, NoOverrides
  <2>3. file = stored["server"]
      BY <1>3 DEF Serve, Believed, Processes
  <2>4. Stored(Loaded(stored["server"])) = stored["server"]
      BY <1>3, StoredLoaded DEF Serve, Believed, Inv, TypeOK, Processes
  <2>5. file' = Stored(persisted')
      BY <1>3, <2>1, <2>2, <2>3, <2>4 DEF Serve
  <2> QED
      BY <1>3, <2>5 DEF Serve, Believed, Inv, TypeOK, Processes
<1>4. ASSUME NEW patch \in SettingPatches, Save(patch) PROVE Believed'
  <2>1. \A p \in Processes : pc[p] \notin {"read", "loaded"}
      BY <1>4 DEF Save, Believed, Processes
  <2> QED
      BY <1>4, <2>1 DEF Save, Believed, Processes
<1>5. ASSUME NEW patch \in SettingPatches, SaveFails(patch) PROVE Believed'
    BY <1>5 DEF SaveFails, Believed
<1>6. ASSUME NEW patch \in ToolPatches, Set(patch) PROVE Believed'
  <2>1. pc["server"] = "down" /\ pc["tool"] = "loaded"
      BY <1>6 DEF Set, Believed, Processes
  <2> QED
      BY <1>6, <2>1 DEF Set, Believed, Inv, TypeOK, Processes
<1>7. CASE UNCHANGED vars
    BY <1>7 DEF Believed, vars
<1> QED
    BY <1>1, <1>2, <1>3, <1>4, <1>5, <1>6, <1>7 DEF Next, Load

\* A patch applied to what the file holds leaves the other fields of it alone.
LEMMA PatchLosesNothing ==
    ASSUME NEW config \in ServerConfigs, NEW patch, NEW f \in Fields \ DOMAIN patch
    PROVE  Stored(Patched(config, patch))[f] = Stored(config)[f]
BY DEF ServerConfigs, Stored, Patched

\* With the tool and the server taking turns and no command line, a save in the
\* console and `config set` change no field but those they are about, after
\* any number of loads, repairs, failed writes, deaths and restarts.
THEOREM SpecSavesLoseNothing ==
    ASSUME ~ToolBesideServer, Overrides = {NoOverrides}
    PROVE  Spec => SavesLoseNothing
<1>1. Init => Believed
    BY DEF Init, Believed, Processes
<1>2. Inv /\ Believed /\ [Next]_vars => Believed'
    BY BelievedStep
<1>3. ASSUME Inv, Believed, NEW patch, Save(patch),
             NEW f \in Fields \ DOMAIN patch
      PROVE  file'[f] = file[f]
    BY <1>3, PatchLosesNothing DEF Save, Believed, Inv, TypeOK
<1>4. ASSUME Inv, Believed, NEW patch, Set(patch),
             NEW f \in Fields \ DOMAIN patch
      PROVE  file'[f] = file[f]
  <2>1. stored["tool"] \in StoredConfigs /\ Loaded(stored["tool"]) \in ServerConfigs
      BY <1>4, StoredType DEF Inv, TypeOK, Processes
  <2>2. Stored(Loaded(stored["tool"]))[f] = stored["tool"][f]
      BY <1>4 DEF Stored, Loaded
  <2>3. file = stored["tool"]
      BY <1>4 DEF Set, Believed, Processes
  <2> QED
      BY <1>4, <2>1, <2>2, <2>3, PatchLosesNothing DEF Set
<1>5. Inv /\ Believed =>
          [\A patch \in SettingPatches \cup ToolPatches : Save(patch) \/ Set(patch) =>
               \A f \in Fields \ DOMAIN patch : file'[f] = file[f]]_vars
    BY <1>3, <1>4
<1> QED
    BY <1>1, <1>2, <1>5, InitInv, NextInv, PTL DEF Spec, SavesLoseNothing

-----------------------------------------------------------------------------
(* What is saved is what is loaded *)

\* What a load makes of a field that is not empty: what Reread says.
LEMMA LoadRereads ==
    ASSUME NEW config \in StoredConfigs, NEW f \in Fields,
           config[f] # Absent,
           config[f] = Blank => f \in PathFields
    PROVE  Normalised(config, Absent, Absent)[f] = Reread(f, config[f])
<1> DEFINE N == Normalised(config, Absent, Absent)
<1>1. /\ N["syncListen"] = WithDualStack(StoredListen(config))
      /\ N["adminListen"] = OrElse(config["adminListen"], Default)
      /\ \A g \in PathFields \cup {"logLevel"} : N[g] = NotBlank(config[g], Default)
      /\ N["syncToken"] = NotBlank(config["syncToken"], NotBlank(config["token"], Absent))
      /\ N["sessionSecret"] = NotBlank(config["sessionSecret"], Absent)
      /\ N["passwordHash"] = NotBlank(config["passwordHash"], Absent)
    BY NormalisedFields
<1> HIDE DEF N
<1>2. CASE f = "syncListen"
  <2>1. StoredListen(config) = config[f]
    BY <1>2 DEF StoredListen, OrElse
  <2> QED
    BY <1>1, <1>2, <2>1 DEF WithDualStack, Reread, PathFields, N
<1>3. CASE f = "adminListen"
    BY <1>1, <1>3 DEF OrElse, Reread, PathFields, N
<1>4. CASE f \in PathFields \cup {"logLevel"}
    BY <1>1, <1>4 DEF NotBlank, Reread, PathFields, N
<1>5. CASE f \in {"syncToken", "sessionSecret", "passwordHash"}
    BY <1>1, <1>5 DEF NotBlank, Reread, PathFields, N
<1> QED
    BY <1>2, <1>3, <1>4, <1>5 DEF Fields, LiveFields, RestartFields, ListenFields

\* An accepted patch empties no field; only of a path is it spaces.
LEMMA PatchIsFilled ==
    ASSUME NEW patch, IsPatch(patch), Accepted(patch), NEW f \in DOMAIN patch
    PROVE  /\ patch[f] # Absent
           /\ patch[f] = Blank => f \in PathFields
BY DEF IsPatch, Accepted

\* A patch is what the next start loads of the configuration it is stored with.
LEMMA PatchIsLoaded ==
    ASSUME NEW config \in ServerConfigs,
           NEW patch, IsPatch(patch), Accepted(patch), NEW f \in DOMAIN patch
    PROVE  Normalised(Stored(Patched(config, patch)), Absent, Absent)[f] = Reread(f, patch[f])
<1> DEFINE written == Stored(Patched(config, patch))
<1>1. f \in Fields
    BY DEF IsPatch
<1>2. written \in StoredConfigs
    BY PatchedType, StoredType
<1>3. written[f] = patch[f]
    BY <1>1 DEF Stored, Patched, ServerConfigs
<1> HIDE DEF written
<1>4. Normalised(written, Absent, Absent)[f] = Reread(f, written[f])
    BY <1>1, <1>2, <1>3, PatchIsFilled, LoadRereads
<1> QED
    BY <1>3, <1>4 DEF written

\* Whichever of the server and the tool saves a setting, also side by side and with
\* a command line, the next start runs with it, or with what Reread puts in its place.
THEOREM SpecSavedIsLoaded == Spec => SavedIsLoaded
<1>1. ASSUME Inv, NEW patch \in SettingPatches \cup ToolPatches, Save(patch) \/ Set(patch),
             NEW f \in DOMAIN patch
      PROVE  AfterRestart(f)' = Reread(f, patch[f])
  <2>1. IsPatch(patch) /\ Accepted(patch)
    BY <1>1, PatchesAssumption DEF Save, Set
  <2>2. PICK config \in ServerConfigs : file' = Stored(Patched(config, patch))
    <3>1. persisted \in ServerConfigs /\ stored["tool"] \in StoredConfigs
      BY <1>1 DEF Inv, TypeOK, Processes
    <3>2. Loaded(stored["tool"]) \in ServerConfigs
      BY <3>1, StoredType
    <3> QED
      BY <1>1, <3>1, <3>2 DEF Save, Set
  <2> QED
    BY <2>1, <2>2, PatchIsLoaded DEF AfterRestart
<1>2. Inv =>
          [\A patch \in SettingPatches \cup ToolPatches : Save(patch) \/ Set(patch) =>
               \A f \in DOMAIN patch : AfterRestart(f)' = Reread(f, patch[f])]_vars
    BY <1>1
<1> QED
    BY <1>2, InitInv, NextInv, PTL DEF Spec, SavedIsLoaded

-----------------------------------------------------------------------------
(* What is pending *)

\* A configuration in which a load would replace nothing but what Reread does.
Repaired(config) ==
    /\ \A f \in Fields \ {"passwordHash"} : config[f] # Absent
    /\ \A f \in Fields \ PathFields : config[f] # Blank

\* What a process has loaded is repaired, and so is what the server has made of it,
\* of whose fields the live ones are in force.
Mended ==
    /\ \A p \in Processes : pc[p] \in {"read", "loaded"} => Repaired(stored[p])
    /\ pc["server"] = "serving" =>
           Repaired(persisted) /\ \A f \in LiveFields : effective[f] = persisted[f]

\* A load repairs.
LEMMA NormalisedRepaired ==
    ASSUME NEW config \in StoredConfigs, Loadable(config),
           NEW token \in Values, NEW secret \in Values
    PROVE  Repaired(Normalised(config, token, secret))
<1> DEFINE N == Normalised(config, token, secret)
<1>1. token \notin {Absent, Blank} /\ secret \notin {Absent, Blank}
    BY ValuesAssumption
<1>2. /\ N["syncListen"] = WithDualStack(StoredListen(config))
      /\ N["adminListen"] = OrElse(config["adminListen"], Default)
      /\ \A f \in PathFields \cup {"logLevel"} : N[f] = NotBlank(config[f], Default)
      /\ N["syncToken"] = NotBlank(config["syncToken"], NotBlank(config["token"], token))
      /\ N["sessionSecret"] = NotBlank(config["sessionSecret"], secret)
      /\ N["passwordHash"] = NotBlank(config["passwordHash"], Absent)
    BY NormalisedFields
<1>3. Addresses(N)
    BY NormalisedLoads
<1> HIDE DEF N
<1>5. N["adminListen"] # Absent
    BY <1>2 DEF OrElse, Default, Absent
<1>6. \A f \in PathFields \cup {"logLevel"} : N[f] \notin {Absent, Blank}
    BY <1>2 DEF NotBlank, Default, Absent, Blank
<1>7. N["syncToken"] \notin {Absent, Blank} /\ N["sessionSecret"] \notin {Absent, Blank}
    BY <1>1, <1>2 DEF NotBlank
<1>8. N["passwordHash"] # Blank
    BY <1>2 DEF NotBlank, Absent, Blank
<1> QED
    BY <1>3, <1>5, <1>6, <1>7, <1>8
    DEF Repaired, Addresses, Fields, LiveFields, RestartFields, ListenFields, N

\* An accepted patch does not undo it.
LEMMA PatchedRepaired ==
    ASSUME NEW config \in ServerConfigs, Repaired(config),
           NEW patch, IsPatch(patch), Accepted(patch)
    PROVE  Repaired(Patched(config, patch))
<1>1. \A f \in Fields : Patched(config, patch)[f] = IF f \in DOMAIN patch THEN patch[f] ELSE config[f]
    BY DEF ServerConfigs, Patched
<1>2. \A f \in DOMAIN patch : patch[f] # Absent /\ (patch[f] = Blank => f \in PathFields)
    BY PatchIsFilled
<1> HIDE DEF Patched
<1> QED
    BY <1>1, <1>2 DEF Repaired

\* Of what is repaired the next start loads what Reread says.
LEMMA RepairedIsLoaded ==
    ASSUME NEW config \in ServerConfigs, Repaired(config), NEW f \in Fields
    PROVE  Normalised(Stored(config), Absent, Absent)[f] = Reread(f, config[f])
<1>1. Stored(config) \in StoredConfigs /\ Stored(config)[f] = config[f]
    BY StoredType DEF Stored
<1>2. CASE f = "passwordHash" /\ config[f] = Absent
  <2>1. Normalised(Stored(config), Absent, Absent)["passwordHash"]
            = NotBlank(Stored(config)["passwordHash"], Absent)
    BY <1>1, NormalisedFields
  <2> QED
    BY <1>1, <1>2, <2>1 DEF NotBlank, Reread, PathFields
<1>3. CASE ~(f = "passwordHash" /\ config[f] = Absent)
  <2>1. config[f] # Absent /\ (config[f] = Blank => f \in PathFields)
    BY <1>3 DEF Repaired, Absent, Blank
  <2> QED
    BY <1>1, <2>1, LoadRereads
<1> QED
    BY <1>2, <1>3

\* Every step keeps it, as long as no command line comes in between.
LEMMA MendedStep ==
    ASSUME Overrides = {NoOverrides}, Inv, Mended, [Next]_vars
    PROVE  Mended'
<1>1. ASSUME NEW p \in Processes, Read(p) PROVE Mended'
  <2> DEFINE from == IF file = NoFile THEN NewFile ELSE file
  <2>1. PICK token \in Generated, secret \in Generated :
            /\ stored' = [stored EXCEPT ![p] = Normalised(from, token, secret)]
            /\ pc' = [pc EXCEPT ![p] = IF Normalised(from, token, secret) = file
                                      THEN "loaded" ELSE "read"]
      BY <1>1 DEF Read
  <2>2. from \in StoredConfigs /\ Loadable(from) /\ token \in Values /\ secret \in Values
      BY <1>1, NewFileType, ValuesAssumption DEF Read, Inv, TypeOK
  <2> DEFINE config == Normalised(from, token, secret)
  <2> HIDE DEF from
  <2>3. Repaired(config)
      BY <2>2, NormalisedRepaired
  <2>4. /\ stored' = [stored EXCEPT ![p] = config]
        /\ pc' = [pc EXCEPT ![p] = IF config = file THEN "loaded" ELSE "read"]
      BY <2>1
  <2>5. UNCHANGED <<effective, persisted>>
      BY <1>1 DEF Read
  <2> HIDE DEF config
  <2> QED
      BY <2>3, <2>4, <2>5 DEF Mended, Inv, TypeOK, Processes
<1>2. ASSUME NEW p \in Processes, Rewrite(p) \/ RewriteFails(p) \/ Exit(p) PROVE Mended'
    BY <1>2 DEF Rewrite, RewriteFails, Exit, Mended, Inv, TypeOK, Processes
<1>3. CASE Serve
  <2>1. effective' = Patched(Loaded(stored["server"]), NoOverrides)
      BY <1>3 DEF Serve
  <2>2. Patched(Loaded(stored["server"]), NoOverrides) = Loaded(stored["server"])
      BY DEF Patched, Loaded, NoOverrides
  <2>3. Repaired(stored["server"])
      BY <1>3 DEF Serve, Mended, Processes
  <2>4. Repaired(Loaded(stored["server"]))
      BY <2>3 DEF Repaired, Loaded
  <2> QED
      BY <1>3, <2>1, <2>2, <2>4 DEF Serve, Mended, Inv, TypeOK, Processes
<1>4. ASSUME NEW patch \in SettingPatches, Save(patch) PROVE Mended'
  <2>1. IsPatch(patch) /\ Accepted(patch)
      BY <1>4, PatchesAssumption DEF Save
  <2>2. Repaired(persisted')
      BY <1>4, <2>1, PatchedRepaired DEF Save, Mended, Inv, TypeOK
  <2>3. \A f \in LiveFields : effective'[f] = persisted'[f]
      BY <1>4 DEF Save, Fields
  <2> QED
      BY <1>4, <2>2, <2>3 DEF Save, Mended
<1>5. ASSUME NEW patch \in SettingPatches, SaveFails(patch) PROVE Mended'
    BY <1>5 DEF SaveFails, Mended
<1>6. ASSUME NEW patch \in ToolPatches, Set(patch) PROVE Mended'
    BY <1>6 DEF Set, Mended, Inv, TypeOK, Processes
<1>7. CASE UNCHANGED vars
    BY <1>7 DEF Mended, vars
<1> QED
    BY <1>1, <1>2, <1>3, <1>4, <1>5, <1>6, <1>7 DEF Next, Load

\* The fields the console marks for a restart are those a restart would change, and
\* all others are in force, after any number of saves, failed writes, deaths and
\* restarts: for one process at a time and no command line.
THEOREM SpecPendingIsExact ==
    ASSUME ~ToolBesideServer, Overrides = {NoOverrides}
    PROVE  Spec => []PendingIsExact
<1>1. Init => Believed /\ Mended
    BY DEF Init, Believed, Mended, Processes
<1>2. Inv /\ Believed /\ Mended /\ [Next]_vars => Believed' /\ Mended'
    BY BelievedStep, MendedStep
<1>3. Inv /\ Believed /\ Mended => PendingIsExact
  <2> DEFINE Kept == {f \in Fields : Reread(f, persisted[f]) = persisted[f]}
  <2> SUFFICES ASSUME Inv, Believed, Mended, pc["server"] = "serving"
               PROVE  PendingFields \cap Kept = {f \in Kept : effective[f] # AfterRestart(f)}
    BY DEF PendingIsExact
  <2>1. file = Stored(persisted) /\ persisted \in ServerConfigs /\ Repaired(persisted)
    BY DEF Believed, Mended, Inv, TypeOK
  <2>2. \A f \in Kept : AfterRestart(f) = persisted[f]
    BY <2>1, RepairedIsLoaded DEF AfterRestart
  <2>3. \A f \in LiveFields : effective[f] = persisted[f]
    BY DEF Mended
  <2> QED
    BY <2>2, <2>3 DEF PendingFields, Fields
<1> QED
    BY <1>1, <1>2, <1>3, InitInv, NextInv, PTL DEF Spec

-----------------------------------------------------------------------------
(* The session secret *)

HasSecret == file # NoFile /\ file["sessionSecret"] \notin {Absent, Blank}

\* A secret in the file is that of every configuration that may yet be written.
SecretShared ==
    /\ \A p, q \in Processes : p # q => pc[p] = "down" \/ pc[q] = "down"
    /\ \A p \in Processes : pc[p] \in {"read", "loaded"} /\ HasSecret =>
           stored[p]["sessionSecret"] = file["sessionSecret"]
    /\ pc["server"] = "serving" /\ HasSecret =>
           persisted["sessionSecret"] = file["sessionSecret"]

\* A patch changes no secret, nor do storing and loading.
LEMMA SecretPasses ==
    /\ \A patch : IsPatch(patch) => \A config \in ServerConfigs :
           Patched(config, patch)["sessionSecret"] = config["sessionSecret"]
    /\ \A config : /\ Stored(config)["sessionSecret"] = config["sessionSecret"]
                   /\ Loaded(config)["sessionSecret"] = config["sessionSecret"]
<1>1. "sessionSecret" \in Fields
    BY DEF Fields, LiveFields
<1> QED
    BY <1>1 DEF IsPatch, Patched, ServerConfigs, Stored, Loaded

\* Every step keeps it and the secret, whatever the command line says.
LEMMA SecretStep ==
    ASSUME ~ToolBesideServer, Inv, SecretShared, [Next]_vars
    PROVE  SecretShared' /\ (HasSecret => file'["sessionSecret"] = file["sessionSecret"])
<1>1. ASSUME NEW p \in Processes, Read(p)
      PROVE  SecretShared' /\ UNCHANGED file
  <2> DEFINE from == IF file = NoFile THEN NewFile ELSE file
  <2>1. PICK token \in Generated, secret \in Generated :
            /\ stored' = [stored EXCEPT ![p] = Normalised(from, token, secret)]
            /\ pc' = [pc EXCEPT ![p] = IF Normalised(from, token, secret) = file
                                      THEN "loaded" ELSE "read"]
      BY <1>1 DEF Read
  <2>2. from \in StoredConfigs
      BY NewFileType DEF Inv, TypeOK
  <2> DEFINE config == Normalised(from, token, secret)
  <2>3. HasSecret => from = file
      BY DEF HasSecret
  <2> HIDE DEF from
  <2>4. config["sessionSecret"] = NotBlank(from["sessionSecret"], secret)
      BY <2>2, NormalisedFields
  <2>5. HasSecret => config["sessionSecret"] = file["sessionSecret"]
      BY <2>3, <2>4 DEF HasSecret, NotBlank
  <2>6. /\ stored' = [stored EXCEPT ![p] = config]
        /\ pc' = [pc EXCEPT ![p] = IF config = file THEN "loaded" ELSE "read"]
      BY <2>1
  <2> HIDE DEF config
  <2>7. /\ \A q \in Processes : pc[q] = "down"
        /\ UNCHANGED <<file, persisted>>
      BY <1>1 DEF Read
  <2>8. HasSecret' <=> HasSecret
      BY <2>7 DEF HasSecret
  <2> QED
      BY <2>5, <2>6, <2>7, <2>8 DEF SecretShared, Inv, TypeOK, Processes
<1>2. ASSUME NEW p \in Processes, Rewrite(p)
      PROVE  SecretShared' /\ (HasSecret => file'["sessionSecret"] = file["sessionSecret"])
  <2>1. pc[p] = "read" /\ file' = stored[p] /\ pc' = [pc EXCEPT ![p] = "loaded"]
      BY <1>2 DEF Rewrite
  <2>2. \A q \in Processes : q # p => pc[q] = "down"
      BY <2>1 DEF SecretShared
  <2> QED
      BY <1>2, <2>1, <2>2 DEF Rewrite, SecretShared, Inv, TypeOK, Processes
<1>3. ASSUME NEW p \in Processes, RewriteFails(p) \/ Exit(p)
      PROVE  SecretShared' /\ UNCHANGED file
    BY <1>3 DEF RewriteFails, Exit, SecretShared, HasSecret, Inv, TypeOK, Processes
<1>4. CASE Serve
  <2>1. PICK given \in Overrides : effective' = Patched(Loaded(stored["server"]), given)
      BY <1>4 DEF Serve
  <2>2. IsPatch(given) /\ Loaded(stored["server"]) \in ServerConfigs
      BY PatchesAssumption, StoredType DEF Inv, TypeOK, Processes
  <2>3. persisted'["sessionSecret"] = stored["server"]["sessionSecret"]
      BY <1>4, <2>1, <2>2, SecretPasses DEF Serve
  <2> QED
      BY <1>4, <2>3 DEF Serve, SecretShared, HasSecret, Inv, TypeOK, Processes
<1>5. ASSUME NEW patch \in SettingPatches, Save(patch)
      PROVE  SecretShared' /\ (HasSecret => file'["sessionSecret"] = file["sessionSecret"])
  <2>1. /\ file'["sessionSecret"] = persisted'["sessionSecret"]
        /\ persisted'["sessionSecret"] = persisted["sessionSecret"]
      BY <1>5, PatchesAssumption, SecretPasses DEF Save, Inv, TypeOK
  <2>2. \A p \in Processes : pc[p] \notin {"read", "loaded"}
      BY <1>5 DEF Save, SecretShared, Processes
  <2> QED
      BY <1>5, <2>1, <2>2 DEF Save, SecretShared, Processes
<1>6. ASSUME NEW patch \in SettingPatches, SaveFails(patch)
      PROVE  SecretShared' /\ UNCHANGED file
    BY <1>6 DEF SaveFails, SecretShared, HasSecret
<1>7. ASSUME NEW patch \in ToolPatches, Set(patch)
      PROVE  SecretShared' /\ (HasSecret => file'["sessionSecret"] = file["sessionSecret"])
  <2>1. pc["server"] = "down" /\ pc["tool"] = "loaded"
      BY <1>7 DEF Set, SecretShared, Processes
  <2>2. file'["sessionSecret"] = stored["tool"]["sessionSecret"]
    <3>1. Loaded(stored["tool"]) \in ServerConfigs
      BY StoredType DEF Inv, TypeOK, Processes
    <3> QED
      BY <1>7, <3>1, PatchesAssumption, SecretPasses DEF Set
  <2> QED
      BY <1>7, <2>1, <2>2 DEF Set, SecretShared, Inv, TypeOK, Processes
<1>8. CASE UNCHANGED vars
    BY <1>8 DEF SecretShared, HasSecret, vars
<1> QED
    BY <1>1, <1>2, <1>3, <1>4, <1>5, <1>6, <1>7, <1>8 DEF Next, Load

\* A session secret outlives every save, failed write, death and restart, with any
\* command line, as long as the tool and the server take turns.
THEOREM SpecSecretStays ==
    ASSUME ~ToolBesideServer
    PROVE  Spec => SecretStays
<1>1. Init => SecretShared
    BY DEF Init, SecretShared, Processes
<1>2. Inv /\ SecretShared /\ [Next]_vars =>
          SecretShared' /\ [HasSecret => file'["sessionSecret"] = file["sessionSecret"]]_file
    BY SecretStep
<1> QED
    BY <1>1, <1>2, InitInv, NextInv, PTL DEF Spec, SecretStays, HasSecret

=============================================================================
