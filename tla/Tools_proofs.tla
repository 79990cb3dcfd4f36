---------------------------- MODULE Tools_proofs ----------------------------
(***************************************************************************)
(* Safety of the tools that share nothing: SettingsFile and the command    *)
(* executor, as MCTools has them side by side; and of AsyncSerial, on      *)
(* which the serial ports are built.                                       *)
(***************************************************************************)
EXTENDS AsyncSerial, MCTools,
        FiniteSetTheorems, SequenceTheorems, WellFoundedInduction, TLAPS

-----------------------------------------------------------------------------
(* SettingsFile, for every set of values: what the user saves is kept.  The  *)
(* property itself is nearly inductive: the invariant adds the types and what *)
(* the file can have of the one setting that no save writes.                 *)

(* The settings by name. *)
LEMMA AllSettings ==
  /\ All = {"macros", "com", "port", "can", "connection", "app", "filters", "exclusions",
            "backups", "buffers", "pages"}
  /\ \A s \in All : \E i \in DOMAIN LoadOrder : LoadOrder[i] = s
  /\ DOMAIN LoadOrder = 1..11 /\ Len(LoadOrder) = 11
<1> DEFINE Names == {"macros", "com", "port", "can", "connection", "app", "filters", "exclusions",
                     "backups", "buffers", "pages"}
<1>1. DOMAIN LoadOrder = 1..11 /\ Len(LoadOrder) = 11
  BY DEF LoadOrder
<1>2. /\ LoadOrder[1] = "macros" /\ LoadOrder[2] = "com" /\ LoadOrder[3] = "port"
      /\ LoadOrder[4] = "can" /\ LoadOrder[5] = "connection" /\ LoadOrder[6] = "app"
      /\ LoadOrder[7] = "filters" /\ LoadOrder[8] = "exclusions" /\ LoadOrder[9] = "backups"
      /\ LoadOrder[10] = "buffers" /\ LoadOrder[11] = "pages"
  BY DEF LoadOrder
<1>3. \A i \in 1..11 : i = 1 \/ i = 2 \/ i = 3 \/ i = 4 \/ i = 5 \/ i = 6 \/ i = 7 \/ i = 8 \/ i = 9
                        \/ i = 10 \/ i = 11
  OBVIOUS
<1>4. All = {LoadOrder[i] : i \in 1..11}
  BY <1>1 DEF All, ToSet
<1>5. ASSUME NEW s \in Names
      PROVE  \E i \in 1..11 : LoadOrder[i] = s
  BY <1>2
<1>6. \A i \in 1..11 : LoadOrder[i] \in Names
  BY <1>2, <1>3
<1> QED
  BY <1>1, <1>4, <1>5, <1>6

SettingValues == Levels \cup {None, COM0, 0, 1, 2}

SettingsType ==
  /\ sfFile = <<>> \/ sfFile \in [All -> SettingValues]
  /\ sfMem \in [All -> SettingValues]
  /\ sfPanel \in [OnPanel -> SettingValues]
  /\ sfWanted \in [All -> SettingValues]
  /\ sfTouched \subseteq WrittenKeys /\ sfByHand \subseteq All

(* Of the Modbus connection the file has what was written by hand, or since  *)
(* a save nothing; without a file there is what is compiled in.              *)
ConnectionInv ==
  IF sfFile = <<>> THEN ~Running /\ \A s \in WrittenKeys : sfWanted[s] = DefaultFile[s]
                   ELSE sfFile["connection"] \in {None, sfWanted["connection"]}

SettingsInv == SettingsType /\ ConnectionInv /\ SettingsKept

LEMMA InitSettings == SettingsInit => SettingsInv
<1> SUFFICES ASSUME SettingsInit PROVE SettingsInv
  OBVIOUS
<1>1. OnPanel \subseteq All /\ "connection" \in All
  BY AllSettings DEF OnPanel, Shown
<1>2. SettingsType
  BY AllSettings, <1>1 DEF SettingsInit, SettingsType, DefaultFile, CompiledIn, SettingValues, WrittenKeys
<1>3. ConnectionInv
  BY <1>1 DEF SettingsInit, ConnectionInv, DefaultFile, Running, WrittenKeys, None
<1>4. SettingsKept
  BY <1>1 DEF SettingsInit, SettingsKept, FileKeeps, MemoryKeeps, PanelKeeps, DefaultFile,
              Running, WrittenKeys
<1> QED
  BY <1>2, <1>3, <1>4 DEF SettingsInv

(* What a load leaves of a setting that no fault touches. *)
LEMMA LoadFacts ==
  ASSUME NEW file \in [All -> SettingValues], NEW mem \in [All -> SettingValues],
         NEW out \in Outcomes(file, mem)
  PROVE  /\ out.mem \in [All -> SettingValues] /\ out.spoiled \subseteq All
         /\ \A s \in All \ out.spoiled :
              /\ out.mem[s] = file[s] /\ file["macros"] # None
              /\ file["connection"] = None => s # "connection"
<1> DEFINE Upto(f, n) == LoadUpTo(f, mem, n)
<1>1. ASSUME NEW f \in [All -> SettingValues], NEW n \in Nat
      PROVE  Upto(f, n) \in [All -> SettingValues]
  <2>1. \A s \in All : LoadedValue(s, mem[s], f[s]) \in SettingValues
    BY <1>1 DEF LoadedValue, Excluded, SettingValues
  <2> QED
    BY <1>1, <2>1 DEF LoadUpTo, SettingValues
<1>2. ASSUME NEW f \in [All -> SettingValues], NEW s \in All
      PROVE  Upto(f, 12)[s] = LoadedValue(s, mem[s], f[s])
  <2> DEFINE i == CHOOSE j \in DOMAIN LoadOrder : LoadOrder[j] = s
  <2>1. i \in 1..11
    BY AllSettings
  <2> HIDE DEF i
  <2>2. i < 12
    BY <2>1
  <2>3. LoadUpTo(f, mem, 12)[s] = IF i < 12 THEN LoadedValue(s, mem[s], f[s])
                                  ELSE IF s = "macros" THEN 0 ELSE mem[s]
    BY DEF LoadUpTo, i
  <2> QED
    BY <2>2, <2>3
<1>3. Len(LoadOrder) + 1 = 12
  BY AllSettings
<1> HIDE DEF Upto
<1>4. /\ file["macros"] = None => out = [mem |-> Upto(file, 1), spoiled |-> All]
      /\ file["macros"] # None /\ file["connection"] # None =>
           out = [mem |-> Upto(file, 12), spoiled |-> Altered(file, mem)]
      /\ file["macros"] # None /\ file["connection"] = None =>
           \/ out = [mem |-> Upto(file, 5), spoiled |-> All]
           \/ \E v \in Levels : out = [mem |-> Upto([file EXCEPT !["connection"] = v], 12),
                                       spoiled |-> {"connection"} \cup Altered(file, mem)]
  BY <1>3 DEF Outcomes, Upto
<1>5. Altered(file, mem) \subseteq All /\ {"connection"} \subseteq All
  BY AllSettings DEF Altered
<1>6. ASSUME NEW s \in All, s \notin Altered(file, mem)
      PROVE  LoadedValue(s, mem[s], file[s]) = file[s]
  BY <1>6 DEF LoadedValue, Altered
<1>7. CASE file["macros"] = None
  BY <1>1, <1>4, <1>7
<1>8. CASE file["macros"] # None /\ file["connection"] # None
  BY <1>1, <1>2, <1>4, <1>5, <1>6, <1>8
<1>9. CASE file["macros"] # None /\ file["connection"] = None
  <2>1. CASE out = [mem |-> Upto(file, 5), spoiled |-> All]
    BY <1>1, <1>9, <2>1
  <2>2. CASE \E v \in Levels : out = [mem |-> Upto([file EXCEPT !["connection"] = v], 12),
                                      spoiled |-> {"connection"} \cup Altered(file, mem)]
    <3>1. PICK v \in Levels : out = [mem |-> Upto([file EXCEPT !["connection"] = v], 12),
                                     spoiled |-> {"connection"} \cup Altered(file, mem)]
      BY <2>2
    <3>2. PICK f \in [All -> SettingValues] : f = [file EXCEPT !["connection"] = v]
      BY DEF SettingValues
    <3>3. \A s \in All \ {"connection"} : f[s] = file[s]
      BY <3>2
    <3> QED
      BY <1>1, <1>2, <1>5, <1>6, <1>9, <3>1, <3>2, <3>3
  <2> QED
    BY <1>4, <1>9, <2>1, <2>2
<1> QED
  BY <1>7, <1>8, <1>9

(* The load of a start or of a reload. *)
LEMMA LoadKeeps ==
  ASSUME SettingsInv, NEW mem \in [All -> SettingValues], SettingsLoadFile(mem),
         UNCHANGED sfWanted
  PROVE  /\ sfFile' \in [All -> SettingValues] /\ sfMem' \in [All -> SettingValues]
         /\ sfByHand' = {}
         /\ FileKeeps'
         /\ sfFile'["connection"] \in {None, sfWanted["connection"]}
         /\ \A s \in All \ sfSpoiled' : sfMem'[s] \in {sfWanted[s], Given(s)}
<1> DEFINE file == IF sfFile = <<>> THEN DefaultFile ELSE sfFile
<1>1. sfFile' = file /\ sfByHand' = {}
  BY DEF SettingsLoadFile
<1>2. PICK out \in Outcomes(file, mem) : sfMem' = WithLog(out.mem) /\ sfSpoiled' = sfSpoiled \cup out.spoiled
  BY DEF SettingsLoadFile
<1>3. file \in [All -> SettingValues]
  BY DEF DefaultFile, SettingValues, SettingsInv, SettingsType
<1>4. \A s \in WrittenKeys \ sfSpoiled :
         \/ file[s] \in {sfWanted[s], Given(s)}
         \/ s = "macros" /\ file[s] = None /\ sfWanted[s] = 0
  BY DEF SettingsInv, ConnectionInv, SettingsKept, FileKeeps
<1>5. file["connection"] \in {None, sfWanted["connection"]}
  BY AllSettings DEF SettingsInv, ConnectionInv, DefaultFile
<1> HIDE DEF file
<1>6. /\ out.mem \in [All -> SettingValues]
      /\ \A s \in All \ out.spoiled : /\ out.mem[s] = file[s] /\ file["macros"] # None
                                      /\ file["connection"] = None => s # "connection"
  BY <1>3, LoadFacts
<1>7. /\ sfMem' \in [All -> SettingValues]
      /\ \A s \in All : sfMem'[s] = IF s = "pages" /\ out.mem[s] = 0 THEN 1 ELSE out.mem[s]
  BY <1>2, <1>6, AllSettings DEF WithLog, SettingValues
<1>8. /\ \A s \in All : Given(s) = IF s = "pages" /\ sfWanted[s] = 0 THEN 1 ELSE sfWanted[s]
      /\ Given("pages") # 0
  BY AllSettings DEF Given, WithLog, SettingsInv, SettingsType
<1>9. FileKeeps'
  <2>1. \A s : Given(s)' = Given(s)
    BY DEF Given, WithLog
  <2> QED
    BY <1>1, <1>2, <1>4, <2>1 DEF FileKeeps
<1>10. ASSUME NEW s \in All \ sfSpoiled'
       PROVE  sfMem'[s] \in {sfWanted[s], Given(s)}
  <2>1. s \notin sfSpoiled /\ s \notin out.spoiled
    BY <1>2
  <2>2. out.mem[s] = file[s] /\ file["macros"] # None /\ (file["connection"] = None => s # "connection")
    BY <1>6, <2>1
  <2>3. file[s] \in {sfWanted[s], Given(s)}
    BY <1>4, <1>5, <2>1, <2>2 DEF WrittenKeys
  <2> QED
    BY <1>7, <1>8, <2>2, <2>3
<1> QED
  BY <1>1, <1>3, <1>5, <1>7, <1>9, <1>10

(* A start and a reload: memory and panel show what the file has.            *)
LEMMA LoadStep ==
  ASSUME SettingsInv, Start \/ OnReload
  PROVE  SettingsInv'
<1>1. PICK mem \in [All -> SettingValues] : SettingsLoadFile(mem)
  BY DEF Start, OnReload, CompiledIn, SettingValues, SettingsInv, SettingsType
<1>2. UNCHANGED sfWanted
  BY DEF Start, OnReload
<1>3. /\ sfFile' \in [All -> SettingValues] /\ sfMem' \in [All -> SettingValues]
      /\ sfByHand' = {} /\ FileKeeps'
      /\ sfFile'["connection"] \in {None, sfWanted["connection"]}
      /\ \A s \in All \ sfSpoiled' : sfMem'[s] \in {sfWanted[s], Given(s)}
  BY <1>1, <1>2, LoadKeeps
<1>4. PICK old \in [OnPanel -> SettingValues] : sfPanel' = UpdatePanel(old, sfMem', sfPorts')
  BY DEF Start, OnReload, SettingsInv, SettingsType, SettingValues
<1>13. sfPorts' \in PortLists
  BY DEF Start, OnReload
<1>5. sfTouched' \subseteq WrittenKeys
  BY DEF Start, OnReload, SettingsInv, SettingsType
<1>6. OnPanel \subseteq All /\ Shown \subseteq OnPanel
  BY AllSettings DEF OnPanel, Shown
<1>7. /\ sfPanel' \in [OnPanel -> SettingValues]
      /\ \A s \in Shown \ {"port"} : sfPanel'[s] = sfMem'[s]
      /\ sfPanel'["port"] = Choice(sfPorts', sfMem'["port"])
  <2>1. Choice(sfPorts', sfMem'["port"]) \in SettingValues
    BY <1>13, <1>3, AllSettings DEF Choice, PortLists, SettingValues
  <2>2. "port" \in OnPanel
    BY DEF OnPanel, Shown
  <2> QED
    BY <1>3, <1>4, <1>6, <2>1, <2>2 DEF UpdatePanel
<1>8. SettingsType'
  BY <1>2, <1>3, <1>5, <1>7 DEF SettingsInv, SettingsType, SettingValues
<1>9. sfFile' # <<>>
  <2>1. "macros" \in DOMAIN sfFile'
    BY <1>3, AllSettings
  <2> QED
    BY <2>1
<1>10. ConnectionInv'
  BY <1>2, <1>3, <1>9 DEF ConnectionInv
<1>11. \A s : Given(s)' = Given(s)
  BY <1>2 DEF Given, WithLog
<1>12. SettingsKept'
  BY <1>2, <1>3, <1>7, <1>11 DEF SettingsKept, MemoryKeeps, PanelKeeps
<1> QED
  BY <1>8, <1>10, <1>12 DEF SettingsInv

(* A save: what was changed in memory is what is wanted from now on. *)
LEMMA SaveKeeps ==
  ASSUME SettingsInv, Running, Running', NEW given, SettingsSaveFile(given),
         InMemory \subseteq given, given \subseteq sfTouched, UNCHANGED <<sfPanel, sfPorts>>,
         sfMem' \in [All -> SettingValues],
         \A s \in All \ sfSpoiled' : sfMem'[s] = Kept(s, given),
         \A s \in Shown \ (sfTouched \cup {"port"}) : sfMem'[s] = sfPanel[s]
  PROVE  SettingsInv'
<1>1. /\ sfFile' = WrittenNow'
      /\ sfWanted' = [s \in All |-> IF s \in (given \cup sfByHand) \cap WrittenKeys
                                    THEN Kept(s, given) ELSE sfWanted[s]]
      /\ sfTouched' = (sfTouched \cap OnPanel) \ {s \in OnPanel : sfMem'[s] = sfPanel[s]}
      /\ sfByHand' = sfByHand \ WrittenKeys
      /\ sfSpoiled \subseteq sfSpoiled' \cup given
  BY DEF SettingsSaveFile
<1>2. /\ sfMem \in [All -> SettingValues] /\ sfWanted \in [All -> SettingValues]
      /\ sfTouched \subseteq WrittenKeys /\ sfByHand \subseteq All
      /\ sfPanel \in [OnPanel -> SettingValues]
  BY DEF SettingsInv, SettingsType
<1>13. OnPanel \subseteq All /\ Shown \subseteq OnPanel /\ "port" \in OnPanel
  BY AllSettings DEF OnPanel, Shown
<1>14. \A s \in All : Kept(s, given) \in SettingValues
  BY <1>2 DEF Kept, SettingValues
<1>3. \A s \in All : sfFile'[s] = IF s = "connection" \/ (s = "macros" /\ sfMem'[s] = 0)
                                  THEN None ELSE sfMem'[s]
  BY <1>1 DEF WrittenNow, WrittenKeys
<1>4. sfFile' \in [All -> SettingValues]
  BY <1>1 DEF WrittenNow, SettingValues
<1>5. SettingsType'
  BY <1>1, <1>2, <1>4, <1>14 DEF SettingsType, SettingValues
<1>6. sfFile' # <<>>
  <2>1. "macros" \in DOMAIN sfFile'
    BY <1>4, AllSettings
  <2> QED
    BY <2>1
<1>7. ConnectionInv'
  BY <1>3, <1>6, AllSettings DEF ConnectionInv
<1>8. /\ \A s \in All : Given(s) = IF s = "pages" /\ sfWanted[s] = 0 THEN 1 ELSE sfWanted[s]
      /\ \A s \in All : Given(s)' = IF s = "pages" /\ sfWanted'[s] = 0 THEN 1 ELSE sfWanted'[s]
  <2>1. sfWanted' \in [All -> SettingValues]
    BY <1>5 DEF SettingsType, SettingValues
  <2> QED
    BY <1>2, <2>1, AllSettings DEF Given, WithLog
<1>9. ASSUME NEW s \in All \ sfSpoiled', s \notin sfByHand'
      PROVE  sfMem'[s] \in {sfWanted'[s], Given(s)'}
  <2>1. CASE s \in (given \cup sfByHand) \cap WrittenKeys
    BY <1>1, <1>9, <2>1
  <2>2. CASE s \notin (given \cup sfByHand) \cap WrittenKeys
    <3>1. s \notin given /\ s \notin InMemory /\ s \notin sfByHand /\ s \notin sfSpoiled
      BY <1>1, <1>2, <1>9, <2>2
    <3>2. sfMem'[s] = sfMem[s]
      BY <1>9, <3>1 DEF Kept
    <3>3. sfMem[s] \in {sfWanted[s], Given(s)}
      BY <1>9, <3>1 DEF SettingsInv, SettingsKept, MemoryKeeps
    <3>4. sfWanted'[s] = sfWanted[s]
      BY <1>1, <2>2
    <3> QED
      BY <1>8, <3>2, <3>3, <3>4
  <2> QED
    BY <2>1, <2>2
<1>10. FileKeeps'
  <2> SUFFICES ASSUME NEW s \in WrittenKeys, s \notin sfSpoiled'
               PROVE  \/ sfFile'[s] \in {sfWanted'[s], Given(s)'}
                      \/ s = "macros" /\ sfFile'[s] = None /\ sfWanted'[s] = 0
    BY DEF FileKeeps
  <2>1. s \in All /\ s # "connection" /\ s \notin sfByHand'
    BY <1>1 DEF WrittenKeys
  <2>2. sfMem'[s] \in {sfWanted'[s], Given(s)'}
    BY <1>9, <2>1
  <2> QED
    BY <1>3, <1>8, <2>1, <2>2
<1>11. MemoryKeeps'
  BY <1>9 DEF MemoryKeeps
<1>12. PanelKeeps'
  <2>1. \A s \in Shown \ (sfTouched' \cup {"port"}) : sfPanel'[s] = sfMem'[s]
    BY <1>1, <1>13
  <2>2. ASSUME "port" \notin sfTouched' \cup sfSpoiled'
        PROVE  sfPanel'["port"] \in {sfMem'["port"], Choice(sfPorts', sfMem'["port"])}
    <3>1. CASE "port" \in sfTouched
      BY <1>1, <1>13, <2>2, <3>1
    <3>2. CASE "port" \notin sfTouched
      <4>1. "port" \notin given /\ "port" \notin sfSpoiled
        BY <1>1, <2>2, <3>2
      <4>2. sfMem'["port"] = sfMem["port"]
        BY <1>13, <2>2, <4>1 DEF Kept
      <4>3. sfPanel["port"] \in {sfMem["port"], Choice(sfPorts, sfMem["port"])}
        BY <3>2, <4>1 DEF SettingsInv, SettingsKept, PanelKeeps
      <4> QED
        BY <4>2, <4>3 DEF Choice
    <3> QED
      BY <3>1, <3>2
  <2> QED
    BY <2>1, <2>2 DEF PanelKeeps
<1> QED
  BY <1>5, <1>7, <1>10, <1>11, <1>12 DEF SettingsInv, SettingsKept

(* The user changes a setting, in the panel or elsewhere. *)
LEMMA ChangeStep ==
  ASSUME SettingsInv, NEW s \in WrittenKeys, ChangeSetting(s),
         sfMem' \in [All -> SettingValues], sfPanel' \in [OnPanel -> SettingValues],
         \A t \in All \ {s} : sfMem'[t] = sfMem[t],
         \A t \in OnPanel \ {s} : sfPanel'[t] = sfPanel[t],
         s \in OnPanel => sfMem'[s] = sfMem[s]
  PROVE  SettingsInv'
<1>1. /\ sfTouched' = sfTouched \cup {s} /\ Running
      /\ UNCHANGED <<sfFile, sfPorts, sfRun, sfWanted, sfByHand, sfSpoiled>>
  BY DEF ChangeSetting
<1>2. SettingsType' /\ ConnectionInv'
  BY <1>1 DEF SettingsInv, SettingsType, ConnectionInv, SettingValues, Running
<1>3. \A t : Given(t)' = Given(t)
  BY <1>1 DEF Given, WithLog
<1>4. Shown \subseteq OnPanel /\ OnPanel \subseteq All
  BY AllSettings DEF OnPanel, Shown
<1>5. FileKeeps' /\ MemoryKeeps'
  BY <1>1, <1>3, <1>4 DEF SettingsInv, SettingsKept, FileKeeps, MemoryKeeps, InMemory, Running
<1>6. PanelKeeps'
  <2>1. "port" \in OnPanel
    BY DEF OnPanel, Shown
  <2> QED
    BY <1>1, <1>4, <2>1 DEF SettingsInv, SettingsKept, PanelKeeps, Choice, Running
<1> QED
  BY <1>2, <1>5, <1>6 DEF SettingsInv, SettingsKept

LEMMA EditStep ==
  ASSUME SettingsInv, NEW s \in {"connection", "filters", "port"}, NEW v \in Levels, EditFile(s, v)
  PROVE  SettingsInv'
<1>1. /\ sfFile # <<>>
      /\ sfFile' = [sfFile EXCEPT ![s] = v] /\ sfWanted' = [sfWanted EXCEPT ![s] = v]
      /\ sfByHand' = sfByHand \cup {s}
      /\ UNCHANGED <<sfMem, sfPanel, sfPorts, sfRun, sfTouched, sfSpoiled>>
  BY DEF EditFile
<1>2. s \in All /\ sfFile \in [All -> SettingValues] /\ sfWanted \in [All -> SettingValues]
  BY <1>1, AllSettings DEF SettingsInv, SettingsType
<1>3. /\ sfFile' \in [All -> SettingValues] /\ sfWanted' \in [All -> SettingValues]
      /\ \A t \in All : /\ sfFile'[t] = IF t = s THEN v ELSE sfFile[t]
                        /\ sfWanted'[t] = IF t = s THEN v ELSE sfWanted[t]
  BY <1>1, <1>2 DEF SettingValues
<1>4. SettingsType'
  BY <1>1, <1>2, <1>3 DEF SettingsInv, SettingsType, SettingValues
<1>5. sfFile' # <<>>
  <2>1. "macros" \in DOMAIN sfFile'
    BY <1>3, AllSettings
  <2> QED
    BY <2>1
<1>6. ConnectionInv'
  BY <1>1, <1>3, <1>5, AllSettings DEF SettingsInv, ConnectionInv
<1>7. \A t \in All \ {s} : Given(t)' = Given(t)
  BY <1>2, <1>3, AllSettings DEF Given, WithLog
<1>8. FileKeeps'
  <2> SUFFICES ASSUME NEW t \in WrittenKeys \ sfSpoiled
               PROVE  \/ sfFile'[t] \in {sfWanted'[t], Given(t)'}
                      \/ t = "macros" /\ sfFile'[t] = None /\ sfWanted'[t] = 0
    BY <1>1 DEF FileKeeps
  <2>1. t \in All
    BY DEF WrittenKeys
  <2> QED
    BY <1>1, <1>3, <1>7, <2>1 DEF SettingsInv, SettingsKept, FileKeeps
<1>9. MemoryKeeps'
  BY <1>1, <1>3, <1>7 DEF SettingsInv, SettingsKept, MemoryKeeps, InMemory, Running
<1>10. PanelKeeps'
  BY <1>1 DEF SettingsInv, SettingsKept, PanelKeeps, Choice, Running
<1> QED
  BY <1>4, <1>6, <1>8, <1>9, <1>10 DEF SettingsInv, SettingsKept

(* The program ends: nothing is saved. *)
LEMMA EndStep ==
  ASSUME SettingsInv, SettingsExit \/ SaveClickThrows
  PROVE  SettingsInv'
<1>1. /\ ~Running' /\ sfMem' = CompiledIn /\ sfPanel' = [s \in OnPanel |-> 0] /\ sfTouched' = {}
      /\ UNCHANGED <<sfFile, sfWanted, sfByHand, sfSpoiled>>
      /\ Running
  BY DEF SettingsExit, SaveClickThrows, Running
<1>2. SettingsType' /\ ConnectionInv'
  BY <1>1 DEF SettingsInv, SettingsType, ConnectionInv, CompiledIn, SettingValues
<1>3. SettingsKept'
  <2>1. \A t : Given(t)' = Given(t)
    BY <1>1 DEF Given, WithLog
  <2> QED
    BY <1>1, <2>1 DEF SettingsInv, SettingsKept, FileKeeps, MemoryKeeps, PanelKeeps
<1> QED
  BY <1>2, <1>3 DEF SettingsInv

LEMMA SettingsStep ==
  ASSUME SettingsInv, [SettingsNext]_sfVars
  PROVE  SettingsInv'
<1>1. /\ OnPanel \subseteq WrittenKeys /\ Elsewhere \subseteq WrittenKeys /\ Shown \subseteq OnPanel
      /\ OnPanel \subseteq All /\ WrittenKeys \subseteq All
  BY AllSettings DEF OnPanel, Shown, WrittenKeys, Elsewhere
<1>2. /\ sfMem \in [All -> SettingValues] /\ sfPanel \in [OnPanel -> SettingValues]
      /\ Levels \subseteq SettingValues
  BY DEF SettingsInv, SettingsType, SettingValues
<1>3. ASSUME NEW s \in OnPanel, NEW v \in Levels, TypeInPanel(s, v)
      PROVE  SettingsInv'
  <2>1. /\ s \in WrittenKeys /\ ChangeSetting(s) /\ UNCHANGED sfMem
        /\ sfPanel' = [sfPanel EXCEPT ![s] = v]
    BY <1>1, <1>3 DEF TypeInPanel
  <2> QED
    BY <1>2, <2>1, ChangeStep DEF SettingValues
<1>4. CASE TypeEcuId
  <2>1. "com" \in WrittenKeys /\ ChangeSetting("com") /\ UNCHANGED <<sfMem, sfPanel>>
    BY <1>1, <1>4 DEF TypeEcuId, OnPanel, Shown
  <2> QED
    BY <1>2, <2>1, ChangeStep DEF SettingValues
<1>5. ASSUME NEW s \in Elsewhere, NEW v \in Levels \cup {2}, ChangeElsewhere(s, v)
      PROVE  SettingsInv'
  <2>1. /\ s \in WrittenKeys /\ s \notin OnPanel /\ ChangeSetting(s) /\ UNCHANGED sfPanel
        /\ sfMem' = [sfMem EXCEPT ![s] = IF s = "exclusions" THEN Excluded(@, v) ELSE v]
    BY <1>1, <1>5 DEF ChangeElsewhere, OnPanel, Shown, Elsewhere
  <2>2. s \in All /\ (IF s = "exclusions" THEN Excluded(sfMem[s], v) ELSE v) \in SettingValues
    BY <1>1, <1>2, <2>1 DEF Excluded, SettingValues
  <2> QED
    BY <1>2, <2>1, <2>2, ChangeStep DEF SettingValues
<1>6. CASE SaveClick
  <2>1. /\ Running /\ Running' /\ SettingsSaveFile(sfTouched) /\ UNCHANGED <<sfPanel, sfPorts>>
        /\ sfMem' = [s \in All |-> IF s \in OnPanel THEN Applied(s) ELSE sfMem[s]]
    BY <1>6 DEF SaveClick, Running
  <2>2. \A s \in OnPanel \ {"port"} : Applied(s) = sfPanel[s]
    BY DEF Applied
  <2>3. sfMem' \in [All -> SettingValues]
    <3>1. \A s \in OnPanel : Applied(s) \in SettingValues
      BY <1>1, <1>2 DEF Applied, SettingValues
    <3> QED
      BY <1>2, <2>1, <3>1
  <2>4. \A s \in Shown \ (sfTouched \cup {"port"}) : sfMem'[s] = sfPanel[s]
    BY <1>1, <2>1, <2>2
  <2>5. ASSUME NEW s \in All \ sfSpoiled'
        PROVE  sfMem'[s] = Kept(s, sfTouched)
    <3>1. CASE s \in {"can", "port"}
      BY <2>1, <2>5, <3>1 DEF SettingsSaveFile
    <3>2. CASE s \in OnPanel \ {"can", "port"}
      <4>1. s \in Shown \ {"port"} /\ sfMem'[s] = sfPanel[s]
        BY <1>1, <2>1, <2>2, <3>2 DEF OnPanel
      <4>2. s \notin sfTouched => sfPanel[s] = sfMem[s]
        BY <2>1, <4>1 DEF SettingsInv, SettingsKept, PanelKeeps
      <4> QED
        BY <3>2, <4>1, <4>2 DEF Kept
    <3>3. CASE s \notin OnPanel
      BY <2>1, <3>3 DEF Kept
    <3> QED
      BY <3>1, <3>2, <3>3
  <2>6. InMemory \subseteq sfTouched
    BY DEF InMemory
  <2> QED
    BY <2>1, <2>3, <2>4, <2>5, <2>6, SaveKeeps
<1>7. CASE SaveElsewhere
  <2>1. /\ Running /\ Running' /\ SettingsSaveFile(InMemory) /\ UNCHANGED <<sfPanel, sfPorts, sfMem>>
    BY <1>7 DEF SaveElsewhere, Running
  <2>2. \A s \in Shown \ (sfTouched \cup {"port"}) : sfMem'[s] = sfPanel[s]
    BY <2>1 DEF SettingsInv, SettingsKept, PanelKeeps
  <2>3. sfMem' \in [All -> SettingValues]
    BY <1>2, <2>1 DEF SettingValues
  <2>4. \A s \in All \ sfSpoiled' : sfMem'[s] = Kept(s, InMemory)
    BY <2>1 DEF Kept, InMemory
  <2>5. InMemory \subseteq sfTouched
    BY DEF InMemory
  <2> QED
    BY <2>1, <2>2, <2>3, <2>4, <2>5, SaveKeeps
<1>8. CASE UNCHANGED sfVars
  BY <1>8 DEF sfVars, SettingsInv, SettingsType, ConnectionInv, SettingsKept, FileKeeps,
              MemoryKeeps, PanelKeeps, InMemory, Choice, Given, WithLog, Running, SettingValues
<1> QED
  <2>1. "buffers" \in Elsewhere
    BY DEF Elsewhere
  <2> QED
    BY <1>3, <1>4, <1>5, <1>6, <1>7, <1>8, <2>1, LoadStep, EndStep, EditStep DEF SettingsNext

(* For any settings and changes: what the user gave to a setting and saved   *)
(* is in the file, in memory and on the panel, through any reloads, restarts *)
(* and saves of other settings, unless one of the six faults touched it.     *)
THEOREM SettingsAreKept == SettingsSpec => []SettingsKept
<1>1. SettingsInv /\ [SettingsNext]_sfVars => SettingsInv'
  BY SettingsStep
<1>2. SettingsInv => SettingsKept
  BY DEF SettingsInv
<1> QED
  BY InitSettings, <1>1, <1>2, PTL DEF SettingsSpec

-----------------------------------------------------------------------------
(* AsyncSerial, for every number of writes, openings and failures of the     *)
(* device: what reaches the wire is what was written, in order.              *)

Rising(s) == \A i, j \in 1..Len(s) : i < j => s[i] < s[j]
AllBelow(s, t) == \A i \in 1..Len(s), j \in 1..Len(t) : s[i] < t[j]
UpTo(s, n) == \A i \in 1..Len(s) : s[i] <= n

(* The wire, the buffer of the write that is outstanding, and the queue are  *)
(* rising, each before the next.  A buffer that a failed write left behind   *)
(* takes no part in it any more: writing is not set again while bufferSet is.*)
OrderInv ==
  /\ Rising(wire) /\ Rising(writeQueue) /\ AllBelow(wire, writeQueue)
  /\ UpTo(wire, writes) /\ UpTo(writeQueue, writes)
  /\ writing => /\ Rising(writeBuffer) /\ UpTo(writeBuffer, writes)
                /\ AllBelow(wire, writeBuffer) /\ AllBelow(writeBuffer, writeQueue)
  /\ ~bufferSet => writeBuffer = <<>>

(* AllBelow the first opening there is nothing; only then does Open clear an   *)
(* error of the first connection.                                            *)
FirstInv ==
  /\ NothingLost
  /\ opens = 0 => /\ writes = 0 /\ thread = "none"
                  /\ wire = <<>> /\ writeBuffer = <<>> /\ writeQueue = <<>>

IInv == TypeOK /\ OrderInv /\ FirstInv

-----------------------------------------------------------------------------
(* Lemmas on sequences of numbers. *)

(* Two rising sequences, one before the other, make a rising one.            *)
LEMMA RisingConcat ==
  ASSUME NEW s \in Seq(Nat), NEW t \in Seq(Nat), Rising(s), Rising(t), AllBelow(s, t)
  PROVE  Rising(s \o t)
<1> SUFFICES ASSUME NEW i \in 1..Len(s \o t), NEW j \in 1..Len(s \o t), i < j
             PROVE  (s \o t)[i] < (s \o t)[j]
  BY DEF Rising
<1>1. /\ Len(s) \in Nat /\ Len(t) \in Nat /\ Len(s \o t) = Len(s) + Len(t)
      /\ \A k \in 1..Len(s) + Len(t) : (s \o t)[k] = IF k <= Len(s) THEN s[k] ELSE t[k - Len(s)]
  BY ConcatProperties, LenProperties
<1>2. CASE j <= Len(s)
  BY <1>1, <1>2 DEF Rising
<1>3. CASE i <= Len(s) /\ j > Len(s)
  BY <1>1, <1>3 DEF AllBelow
<1>4. CASE i > Len(s)
  <2>1. i - Len(s) \in 1..Len(t) /\ j - Len(s) \in 1..Len(t) /\ i - Len(s) < j - Len(s)
    BY <1>1, <1>4
  <2>2. t[i - Len(s)] < t[j - Len(s)]
    BY <2>1 DEF Rising
  <2>3. (s \o t)[i] = t[i - Len(s)] /\ (s \o t)[j] = t[j - Len(s)]
    BY <1>1, <1>4
  <2> QED
    BY <2>2, <2>3
<1> QED
  BY <1>1, <1>2, <1>3, <1>4

(* What is before or after both parts, or bounds them, does so of the whole. *)
LEMMA ConcatBounds ==
  ASSUME NEW s \in Seq(Nat), NEW t \in Seq(Nat), NEW u \in Seq(Nat), NEW n \in Nat
  PROVE  /\ AllBelow(s, u) /\ AllBelow(t, u) => AllBelow(s \o t, u)
         /\ UpTo(s, n) /\ UpTo(t, n) => UpTo(s \o t, n)
<1>1. /\ Len(s) \in Nat /\ Len(t) \in Nat /\ Len(s \o t) = Len(s) + Len(t)
      /\ \A k \in 1..Len(s) + Len(t) : (s \o t)[k] = IF k <= Len(s) THEN s[k] ELSE t[k - Len(s)]
  BY ConcatProperties, LenProperties
<1>2. ASSUME NEW k \in 1..Len(s \o t)
      PROVE  \/ k \in 1..Len(s) /\ (s \o t)[k] = s[k]
             \/ k - Len(s) \in 1..Len(t) /\ (s \o t)[k] = t[k - Len(s)]
  BY <1>1
<1>3. AllBelow(s, u) /\ AllBelow(t, u) => AllBelow(s \o t, u)
  BY <1>2 DEF AllBelow
<1>4. UpTo(s, n) /\ UpTo(t, n) => UpTo(s \o t, n)
  BY <1>2 DEF UpTo
<1> QED
  BY <1>3, <1>4

(* A prefix has the elements of the sequence, at their places.               *)
LEMMA Prefix ==
  ASSUME NEW s \in Seq(Nat), NEW n \in 0..Len(s)
  PROVE  /\ SubSeq(s, 1, n) \in Seq(Nat) /\ Len(SubSeq(s, 1, n)) = n
         /\ \A i \in 1..n : i \in 1..Len(s) /\ SubSeq(s, 1, n)[i] = s[i]
<1>1. Len(s) \in Nat /\ \A i \in 1..n : s[i] \in Nat
  BY LenProperties, ElementOfSeq
<1>2. /\ SubSeq(s, 1, n) \in Seq(Nat)
      /\ Len(SubSeq(s, 1, n)) = IF 1 <= n THEN n - 1 + 1 ELSE 0
      /\ \A i \in 1..n - 1 + 1 : SubSeq(s, 1, n)[i] = s[1 + i - 1]
  BY <1>1, SubSeqProperties
<1> QED
  BY <1>1, <1>2

(* Appending to the last part is appending to the whole.                     *)
LEMMA AppendConcat ==
  ASSUME NEW s \in Seq(Nat), NEW t \in Seq(Nat), NEW e \in Nat
  PROVE  s \o Append(t, e) = Append(s \o t, e)
<1>1. /\ s \o t \in Seq(Nat) /\ Len(s \o t) = Len(s) + Len(t)
      /\ \A k \in 1..Len(s) + Len(t) : (s \o t)[k] = IF k <= Len(s) THEN s[k] ELSE t[k - Len(s)]
  BY ConcatProperties
<1>2. /\ Append(t, e) \in Seq(Nat) /\ Len(Append(t, e)) = Len(t) + 1
      /\ \A k \in 1..Len(t) + 1 : Append(t, e)[k] = IF k = Len(t) + 1 THEN e ELSE t[k]
  OBVIOUS
<1>3. /\ s \o Append(t, e) \in Seq(Nat) /\ Len(s \o Append(t, e)) = Len(s) + Len(t) + 1
      /\ \A k \in 1..Len(s) + (Len(t) + 1) : (s \o Append(t, e))[k] =
            IF k <= Len(s) THEN s[k] ELSE Append(t, e)[k - Len(s)]
  BY <1>2, ConcatProperties
<1>4. /\ Append(s \o t, e) \in Seq(Nat) /\ Len(Append(s \o t, e)) = Len(s) + Len(t) + 1
      /\ \A k \in 1..Len(s) + Len(t) + 1 : Append(s \o t, e)[k] =
            IF k = Len(s) + Len(t) + 1 THEN e ELSE (s \o t)[k]
  BY <1>1
<1>5. Len(s) \in Nat /\ Len(t) \in Nat
  BY LenProperties
<1>6. \A k \in 1..Len(s) + Len(t) + 1 : (s \o Append(t, e))[k] = Append(s \o t, e)[k]
  BY <1>1, <1>2, <1>3, <1>4, <1>5
<1> QED
  BY <1>3, <1>4, <1>6, SeqEqual

(* The first n numbers, and one more.                                        *)
LEMMA AppendNumber ==
  ASSUME NEW n \in Nat
  PROVE  Append([i \in 1..n |-> i], n + 1) = [i \in 1..n + 1 |-> i]
  OBVIOUS

-----------------------------------------------------------------------------
(* The invariant. *)

USE BoundsAssumption

LEMMA InitIInv == Init => IInv
<1> SUFFICES ASSUME Init PROVE IInv
  OBVIOUS
<1>1. /\ wire = <<>> /\ writeBuffer = <<>> /\ writeQueue = <<>> /\ Len(<<>>) = 0
      /\ writes = 0 /\ opens = 0 /\ thread = "none"
  BY DEF Init
<1>2. TypeOK
  <2>1. handlers \in Seq({"doRead", "doWrite", "doClose"})
    BY DEF Init
  <2>2. writeQueue \in Seq(Nat) /\ writeBuffer \in Seq(Nat) /\ wire \in Seq(Nat)
    BY <1>1, EmptySeq
  <2> QED
    BY <2>1, <2>2 DEF Init, TypeOK
<1>3. OrderInv
  BY <1>1 DEF Init, OrderInv, Rising, AllBelow, UpTo
<1>4. NothingLost
  <2>1. <<>> \o <<>> = <<>>
    BY EmptySeq, ConcatEmptySeq
  <2>2. <<>> = [i \in 1..0 |-> i]
    OBVIOUS
  <2> QED
    BY <1>1, <2>1, <2>2 DEF NothingLost
<1> QED
  BY <1>1, <1>2, <1>3, <1>4 DEF IInv, FirstInv

(* Steps that leave the writer and the number of writes alone, and clear no  *)
(* error but on the first opening, keep its part of the invariant.           *)
LEMMA WriterKept ==
  ASSUME IInv, writer' = writer, writes' = writes, opens' = opens, unplugs' >= unplugs,
         unplugs' \in Nat, error => error', opens = 0 => thread' = "none"
  PROVE  OrderInv' /\ FirstInv'
<1>1. /\ writing' = writing /\ writeQueue' = writeQueue /\ writeBuffer' = writeBuffer
      /\ bufferSet' = bufferSet /\ wire' = wire
  BY DEF writer
<1>2. OrderInv'
  BY <1>1 DEF IInv, OrderInv, Rising, AllBelow, UpTo
<1>3. ~error' /\ unplugs' = 0 /\ opens' <= 1 => ~error /\ unplugs = 0 /\ opens <= 1
  BY DEF IInv, TypeOK
<1>4. FirstInv'
  BY <1>1, <1>3 DEF IInv, FirstInv, NothingLost
<1> QED
  BY <1>2, <1>4

LEMMA OpenStep ==
  ASSUME IInv, Open
  PROVE  IInv'
<1>1. TypeOK'
  <2>1. handlers' \in Seq({"doRead", "doWrite", "doClose"})
    <3>1. handlers \in Seq({"doRead", "doWrite", "doClose"})
      BY DEF IInv, TypeOK
    <3>2. CASE handlers' = handlers
      BY <3>1, <3>2
    <3>3. CASE handlers' = Append(handlers, "doRead")
      BY <3>1, <3>3
    <3> QED
      BY <3>2, <3>3 DEF Open
  <2>2. thread' \in {"none", "running", "ended"} /\ (thread' # "running" => ~reading /\ ~writing)
    BY DEF IInv, TypeOK, Open
  <2>3. open' \in BOOLEAN /\ error' \in BOOLEAN /\ device' \in BOOLEAN
    <3>1. CASE plugged
      BY <3>1 DEF IInv, TypeOK, Open
    <3>2. CASE ~plugged
      BY <3>2 DEF IInv, TypeOK, Open
    <3> QED
      BY <3>1, <3>2
  <2>4. /\ plugged' \in BOOLEAN /\ reading' = reading /\ caller' \in {"idle", "joining"}
        /\ writes' \in Nat /\ opens' \in Nat /\ unplugs' \in Nat
        /\ reading \in BOOLEAN
    BY DEF IInv, TypeOK, Open
  <2>5. /\ writing' = writing /\ bufferSet' = bufferSet /\ wire' = wire
        /\ writeQueue' = writeQueue /\ writeBuffer' = writeBuffer
    BY DEF Open, writer
  <2>6. /\ writing \in BOOLEAN /\ bufferSet \in BOOLEAN /\ (writing => bufferSet)
        /\ writeQueue \in Seq(Nat) /\ writeBuffer \in Seq(Nat) /\ wire \in Seq(Nat)
    BY DEF IInv, TypeOK
  <2> QED
    BY <2>1, <2>2, <2>3, <2>4, <2>5, <2>6 DEF TypeOK
<1>2. /\ writing' = writing /\ writeQueue' = writeQueue /\ writeBuffer' = writeBuffer
      /\ bufferSet' = bufferSet /\ wire' = wire /\ writes' = writes /\ opens' = opens + 1
      /\ opens \in Nat /\ unplugs' = unplugs
  BY DEF IInv, TypeOK, Open, writer
<1>3. OrderInv'
  BY <1>2 DEF IInv, OrderInv, Rising, AllBelow, UpTo
<1>4. NothingLost'
  <2> SUFFICES ASSUME opens' <= 1
               PROVE  wire' \o writeBuffer' \o writeQueue' = [i \in 1..writes' |-> i]
    BY DEF NothingLost
  <2>1. writes = 0 /\ wire = <<>> /\ writeBuffer = <<>> /\ writeQueue = <<>>
    BY <1>2 DEF IInv, FirstInv
  <2>2. <<>> \o <<>> = <<>>
    BY EmptySeq, ConcatEmptySeq
  <2>3. <<>> = [i \in 1..0 |-> i]
    OBVIOUS
  <2> QED
    BY <1>2, <2>1, <2>2, <2>3
<1>5. FirstInv'
  BY <1>2, <1>4 DEF FirstInv
<1> QED
  BY <1>1, <1>3, <1>5 DEF IInv

LEMMA WriteStep ==
  ASSUME IInv, Write
  PROVE  IInv'
<1>1. TypeOK'
  BY DEF IInv, TypeOK, Write, flags
<1>2. /\ wire' = wire /\ writeBuffer' = writeBuffer /\ writing' = writing
      /\ bufferSet' = bufferSet /\ error' = error /\ opens' = opens /\ unplugs' = unplugs
      /\ writeQueue' = Append(writeQueue, writes + 1) /\ writes' = writes + 1
      /\ opens > 0
  BY DEF Write, flags
<1>3. /\ writes \in Nat /\ wire \in Seq(Nat) /\ writeBuffer \in Seq(Nat)
      /\ writeQueue \in Seq(Nat) /\ opens \in Nat
  BY DEF IInv, TypeOK
<1>4. /\ Len(writeQueue') = Len(writeQueue) + 1 /\ Len(writeQueue) \in Nat
      /\ \A i \in 1..Len(writeQueue') :
           writeQueue'[i] = IF i = Len(writeQueue) + 1 THEN writes + 1 ELSE writeQueue[i]
  BY <1>2, <1>3
<1>5. \A i \in 1..Len(writeQueue) : writeQueue[i] \in Nat
  BY <1>3, ElementOfSeq
<1>6. UpTo(writeQueue, writes) /\ Rising(writeQueue)
  BY DEF IInv, OrderInv
<1>13. UpTo(writeQueue', writes')
  <2> SUFFICES ASSUME NEW i \in 1..Len(writeQueue') PROVE writeQueue'[i] <= writes'
    BY DEF UpTo
  <2>1. CASE i = Len(writeQueue) + 1
    BY <2>1, <1>2, <1>3, <1>4
  <2>2. CASE i \in 1..Len(writeQueue)
    <3>1. writeQueue[i] <= writes /\ writeQueue[i] \in Nat
      BY <2>2, <1>5, <1>6 DEF UpTo
    <3> QED
      BY <3>1, <2>2, <1>2, <1>3, <1>4
  <2> QED
    BY <2>1, <2>2, <1>4
<1>14. Rising(writeQueue')
  <2> SUFFICES ASSUME NEW i \in 1..Len(writeQueue'), NEW j \in 1..Len(writeQueue'), i < j
               PROVE  writeQueue'[i] < writeQueue'[j]
    BY DEF Rising
  <2>1. i \in 1..Len(writeQueue) /\ writeQueue'[i] = writeQueue[i]
    BY <1>4
  <2>2. writeQueue[i] \in Nat /\ writeQueue[i] <= writes
    BY <2>1, <1>5, <1>6 DEF UpTo
  <2>3. CASE j = Len(writeQueue) + 1
    <3>1. writeQueue'[j] = writes + 1
      BY <2>3, <1>4
    <3> QED
      BY <2>1, <2>2, <3>1, <1>3
  <2>4. CASE j \in 1..Len(writeQueue)
    <3>1. writeQueue[i] < writeQueue[j]
      BY <2>1, <2>4, <1>6 DEF Rising
    <3>2. writeQueue'[j] = writeQueue[j]
      BY <2>4, <1>4
    <3> QED
      BY <2>1, <3>1, <3>2
  <2> QED
    BY <2>3, <2>4, <1>4
<1>7. \A i \in 1..Len(wire) : wire[i] \in Nat
  BY <1>3, ElementOfSeq
<1>8. /\ UpTo(wire, writes) /\ Rising(wire) /\ AllBelow(wire, writeQueue)
  BY DEF IInv, OrderInv
<1>15. UpTo(wire', writes') /\ Rising(wire')
  BY <1>2, <1>3, <1>7, <1>8 DEF UpTo, Rising
<1>16. AllBelow(wire', writeQueue')
  BY <1>2, <1>3, <1>4, <1>7, <1>8 DEF UpTo, AllBelow
<1>9. \A i \in 1..Len(writeBuffer) : writeBuffer[i] \in Nat
  BY <1>3, ElementOfSeq
<1>10. writing => /\ Rising(writeBuffer') /\ UpTo(writeBuffer', writes')
                  /\ AllBelow(wire', writeBuffer') /\ AllBelow(writeBuffer', writeQueue')
  BY <1>2, <1>3, <1>4, <1>7, <1>9, SMTT(30) DEF IInv, OrderInv, Rising, UpTo, AllBelow
<1>11. OrderInv'
  BY <1>2, <1>10, <1>13, <1>14, <1>15, <1>16 DEF IInv, OrderInv
<1>12. NothingLost'
  <2> SUFFICES ASSUME ~error, unplugs = 0, opens <= 1
               PROVE  wire' \o writeBuffer' \o writeQueue' = [i \in 1..writes' |-> i]
    BY <1>2 DEF NothingLost
  <2>1. wire \o writeBuffer \o writeQueue = [i \in 1..writes |-> i]
    BY DEF IInv, FirstInv, NothingLost
  <2>2. wire \o writeBuffer \in Seq(Nat)
    BY <1>3, ConcatProperties
  <2>3. wire \o writeBuffer \o Append(writeQueue, writes + 1)
          = Append(wire \o writeBuffer \o writeQueue, writes + 1)
    BY <1>3, <2>2, AppendConcat
  <2> QED
    BY <1>2, <1>3, <2>1, <2>3, AppendNumber
<1> QED
  BY <1>1, <1>2, <1>3, <1>11, <1>12 DEF IInv, FirstInv

(* doWrite: the queue becomes the buffer, unless one is set.                 *)
LEMMA DoWriteStep ==
  ASSUME IInv, DoWrite
  PROVE  IInv'
<1>1. TypeOK'
  <2>1. handlers' \in Seq({"doRead", "doWrite", "doClose"})
    BY DEF IInv, TypeOK, DoWrite, RunHandler
  <2> QED
    BY <2>1, EmptySeq DEF IInv, TypeOK, DoWrite, RunHandler, flags, history, writer
<1>2. CASE bufferSet
  <2>1. /\ writer' = writer /\ writes' = writes /\ opens' = opens /\ unplugs' = unplugs
        /\ error' = error /\ thread' = thread /\ thread = "running"
    BY <1>2 DEF DoWrite, RunHandler, flags, history
  <2>2. unplugs \in Nat /\ opens # 0
    BY <2>1 DEF IInv, TypeOK, FirstInv
  <2>3. OrderInv' /\ FirstInv'
    BY <2>1, <2>2, WriterKept
  <2> QED
    BY <1>1, <2>3 DEF IInv
<1>3. CASE ~bufferSet
  <2>1. /\ writeBuffer' = writeQueue /\ bufferSet' /\ writeQueue' = <<>> /\ writing'
        /\ wire' = wire /\ error' = error /\ writes' = writes /\ opens' = opens
        /\ unplugs' = unplugs /\ Len(<<>>) = 0 /\ writeBuffer = <<>>
        /\ thread = "running"
    BY <1>3 DEF IInv, OrderInv, DoWrite, RunHandler, flags, history
  <2>2. OrderInv'
    BY <2>1 DEF IInv, OrderInv, Rising, AllBelow, UpTo
  <2>3. wire \in Seq(Nat) /\ writeQueue \in Seq(Nat) /\ wire \o writeQueue \in Seq(Nat)
    BY ConcatProperties DEF IInv, TypeOK
  <2>4. wire \o <<>> \o writeQueue = wire \o writeQueue \o <<>>
    BY <2>3, ConcatEmptySeq
  <2>5. NothingLost'
    BY <2>1, <2>4 DEF IInv, FirstInv, NothingLost
  <2>6. FirstInv'
    BY <2>1, <2>5 DEF IInv, FirstInv
  <2> QED
    BY <1>1, <2>2, <2>6 DEF IInv
<1> QED
  BY <1>2, <1>3

(* writeEnd: the buffer is on the wire, the queue becomes the buffer.        *)
LEMMA WriteDoneStep ==
  ASSUME IInv, WriteDone
  PROVE  IInv'
<1>1. /\ wire \in Seq(Nat) /\ writeBuffer \in Seq(Nat) /\ writeQueue \in Seq(Nat)
      /\ writes \in Nat
  BY DEF IInv, TypeOK
<1>2. /\ wire' = wire \o writeBuffer /\ writeBuffer' = writeQueue /\ writeQueue' = <<>>
      /\ writing' = (writeQueue # <<>>) /\ bufferSet' = (writeQueue # <<>>)
      /\ error' = error /\ writes' = writes /\ opens' = opens /\ unplugs' = unplugs
      /\ writing /\ Len(<<>>) = 0 /\ thread = "running"
  BY DEF WriteDone, flags, history
<1>3. wire' \in Seq(Nat) /\ writeQueue' \in Seq(Nat)
  BY <1>1, <1>2, ConcatProperties, EmptySeq
<1>4. TypeOK'
  <2>1. writing' \in BOOLEAN /\ bufferSet' \in BOOLEAN /\ (writing' => bufferSet')
    BY <1>2
  <2> QED
    BY <1>1, <1>2, <1>3, <2>1 DEF IInv, TypeOK, WriteDone, flags, history
<1>5. Rising(wire') /\ UpTo(wire', writes') /\ AllBelow(wire', writeBuffer')
  BY <1>1, <1>2, RisingConcat, ConcatBounds DEF IInv, OrderInv
<1>6. OrderInv'
  <2>1. Rising(writeQueue) /\ UpTo(writeQueue, writes)
    BY DEF IInv, OrderInv
  <2>2. Rising(writeBuffer') /\ UpTo(writeBuffer', writes')
    BY <1>2, <2>1
  <2>3. /\ Rising(writeQueue') /\ UpTo(writeQueue', writes') /\ AllBelow(wire', writeQueue')
        /\ AllBelow(writeBuffer', writeQueue')
    BY <1>2 DEF Rising, UpTo, AllBelow
  <2>4. ~bufferSet' => writeBuffer' = <<>>
    BY <1>2
  <2> QED
    BY <1>5, <2>2, <2>3, <2>4 DEF OrderInv
<1>7. wire' \o writeBuffer' \o writeQueue' = wire \o writeBuffer \o writeQueue
  <2>1. wire \o writeBuffer \o writeQueue \in Seq(Nat)
    BY <1>1, <1>2, <1>3, ConcatProperties
  <2> QED
    BY <1>2, <2>1, ConcatEmptySeq
<1>8. opens # 0
  BY <1>2 DEF IInv, FirstInv
<1>9. FirstInv'
  BY <1>2, <1>7, <1>8 DEF IInv, FirstInv, NothingLost
<1> QED
  BY <1>4, <1>6, <1>9 DEF IInv

(* A write that fails: a part of the buffer is on the wire, the buffer stays *)
(* set and is not written again.                                             *)
LEMMA WriteFailsStep ==
  ASSUME IInv, WriteFails
  PROVE  IInv'
<1>1. /\ wire \in Seq(Nat) /\ writeBuffer \in Seq(Nat) /\ writeQueue \in Seq(Nat)
      /\ writes \in Nat
  BY DEF IInv, TypeOK
<1>2. PICK n \in 0..Len(writeBuffer) : wire' = wire \o SubSeq(writeBuffer, 1, n)
  BY DEF WriteFails
<1> DEFINE sent == SubSeq(writeBuffer, 1, n)
<1>3. /\ sent \in Seq(Nat) /\ Len(sent) = n
      /\ \A i \in 1..n : i \in 1..Len(writeBuffer) /\ sent[i] = writeBuffer[i]
  BY <1>1, Prefix
<1> HIDE DEF sent
<1>4. /\ writing /\ thread = "running" /\ ~writing' /\ error' /\ writeQueue' = writeQueue /\ bufferSet' = bufferSet
      /\ writeBuffer' = writeBuffer /\ writes' = writes /\ opens' = opens
      /\ wire' = wire \o sent
  BY <1>2 DEF WriteFails, history, sent
<1>5. wire' \in Seq(Nat)
  BY <1>1, <1>3, <1>4, ConcatProperties
<1>6. TypeOK'
  BY <1>5 DEF IInv, TypeOK, WriteFails, history
<1>7. /\ Rising(sent) /\ UpTo(sent, writes) /\ AllBelow(wire, sent)
      /\ AllBelow(sent, writeQueue)
  BY <1>1, <1>3, <1>4 DEF IInv, OrderInv, Rising, UpTo, AllBelow
<1>8. Rising(wire') /\ UpTo(wire', writes') /\ AllBelow(wire', writeQueue')
  BY <1>1, <1>3, <1>4, <1>7, RisingConcat, ConcatBounds DEF IInv, OrderInv
<1>9. OrderInv'
  BY <1>4, <1>8 DEF IInv, OrderInv, Rising, UpTo
<1>10. bufferSet /\ opens # 0
  BY <1>4 DEF IInv, TypeOK, FirstInv
<1>11. FirstInv'
  BY <1>4, <1>10 DEF IInv, FirstInv, NothingLost
<1> QED
  BY <1>6, <1>9, <1>11 DEF IInv

(* The steps that touch neither the buffer nor the queue.                    *)
LEMMA OtherSteps ==
  ASSUME IInv, Close \/ Joined \/ DoRead \/ CloseHandler \/ ReadFails \/ RunReturns
               \/ Unplug \/ PlugIn
  PROVE  IInv'
<1>1. /\ writer' = writer /\ writes' = writes /\ opens' = opens
      /\ unplugs' \in {unplugs, unplugs + 1} /\ (error => error')
      /\ (thread' = thread \/ thread' = "none" \/ thread = "running")
  <2>1. CASE Close \/ Joined \/ PlugIn
    BY <2>1 DEF Close, Joined, PlugIn, flags, history
  <2>2. CASE Unplug
    BY <2>2 DEF Unplug, flags
  <2>3. CASE DoRead \/ CloseHandler \/ RunReturns
    BY <2>3 DEF IInv, TypeOK, DoRead, CloseHandler, DoClose, RunHandler, RunReturns, flags, history
  <2>4. CASE ReadFails
    BY <2>4 DEF ReadFails, history
  <2> QED
    BY <2>1, <2>2, <2>3, <2>4
<1>2. unplugs \in Nat /\ unplugs' \in Nat /\ unplugs' >= unplugs
  BY <1>1 DEF IInv, TypeOK
<1>3. opens = 0 => thread' = "none"
  BY <1>1 DEF IInv, FirstInv
<1>4. OrderInv' /\ FirstInv'
  BY <1>1, <1>2, <1>3, WriterKept
<1>5. TypeOK'
  <2>1. handlers' \in Seq({"doRead", "doWrite", "doClose"})
    <3>1. handlers \in Seq({"doRead", "doWrite", "doClose"})
      BY DEF IInv, TypeOK
    <3>2. CASE handlers' = handlers
      BY <3>1, <3>2
    <3>3. CASE handlers' = Append(handlers, "doClose")
      BY <3>1, <3>3
    <3>4. CASE handlers # <<>> /\ handlers' = Tail(handlers)
      BY <3>1, <3>4
    <3> QED
      BY <3>2, <3>3, <3>4 DEF Close, Joined, DoRead, CloseHandler, RunHandler, ReadFails,
                              RunReturns, Unplug, PlugIn
  <2>2. /\ writing' = writing /\ bufferSet' = bufferSet /\ wire' = wire
        /\ writeQueue' = writeQueue /\ writeBuffer' = writeBuffer
    BY <1>1 DEF writer
  <2>3. CASE Close
    BY <2>1, <2>2, <2>3 DEF IInv, TypeOK, Close, history
  <2>4. CASE Joined
    BY <2>1, <2>2, <2>4 DEF IInv, TypeOK, Joined, flags, history
  <2>5. CASE DoRead
    BY <2>1, <2>2, <2>5 DEF IInv, TypeOK, DoRead, RunHandler, flags, history
  <2>6. CASE CloseHandler
    BY <2>1, <2>2, <2>6 DEF IInv, TypeOK, CloseHandler, DoClose, RunHandler, history
  <2>7. CASE ReadFails
    BY <2>1, <2>2, <2>7 DEF IInv, TypeOK, ReadFails, history
  <2>8. CASE RunReturns
    BY <2>1, <2>2, <2>8 DEF IInv, TypeOK, RunReturns, flags, history
  <2>9. CASE Unplug
    <3>1. /\ open' = open /\ error' = error /\ device' = device /\ plugged' = FALSE
          /\ reading' = reading /\ thread' = thread /\ caller' = caller
          /\ writes' = writes /\ opens' = opens
      BY <2>9 DEF Unplug, flags
    <3> QED
      BY <1>2, <2>1, <2>2, <3>1 DEF IInv, TypeOK
  <2>10. CASE PlugIn
    BY <2>1, <2>2, <2>10 DEF IInv, TypeOK, PlugIn, flags, history
  <2> QED
    BY <2>3, <2>4, <2>5, <2>6, <2>7, <2>8, <2>9, <2>10
<1> QED
  BY <1>4, <1>5 DEF IInv

LEMMA NextIInv ==
  ASSUME IInv, [Next]_vars
  PROVE  IInv'
<1>1. CASE UNCHANGED vars
  <2>1. /\ writer' = writer /\ writes' = writes /\ opens' = opens /\ unplugs' = unplugs
        /\ error' = error /\ thread' = thread
    BY <1>1 DEF vars, flags, history
  <2>2. unplugs \in Nat /\ (opens = 0 => thread = "none")
    BY DEF IInv, TypeOK, FirstInv
  <2>3. OrderInv' /\ FirstInv'
    BY <2>1, <2>2, WriterKept
  <2>4. TypeOK'
    BY <1>1 DEF IInv, TypeOK, vars, flags, writer, history
  <2> QED
    BY <2>3, <2>4 DEF IInv
<1> QED
  BY <1>1, OpenStep, WriteStep, DoWriteStep, WriteDoneStep, WriteFailsStep, OtherSteps
  DEF Next, Owner, BackgroundThread

(* What reaches the device is what was written, in order and none twice, over*)
(* every number of writes, failures, unpluggings and reopenings; and on the  *)
(* first connection, until an error, the wire, the buffer of writeStart and  *)
(* the write queue together hold everything that was written                 *)
(* (AsyncSerial.cpp, doWrite and writeEnd).                                  *)
THEOREM WireIsFaithful == Spec => []WireFaithful
<1>1. IInv => WireFaithful
  BY DEF IInv, OrderInv, FirstInv, Rising, WireInOrder, WireFaithful
<1> QED
  BY InitIInv, NextIInv, <1>1, PTL DEF Spec
(* The buffer handed to async_write is not touched while that operation is   *)
(* outstanding, by no later write() and no failure: doWrite starts one only  *)
(* over a buffer that is not set, and a write under way has it set           *)
(* (AsyncSerial.cpp, doWrite, writeStart and writeEnd).                      *)
THEOREM BufferIsStable == Spec => BufferStable
<1>1. ASSUME IInv, [Next]_vars, writing, writing', writeBuffer' # writeBuffer
      PROVE  wire' = wire \o writeBuffer
  <2>1. bufferSet
    BY <1>1 DEF IInv, TypeOK
  <2>2. ~DoWrite
    BY <1>1, <2>1 DEF DoWrite, writer
  <2>3. ~Owner /\ ~Unplug /\ ~PlugIn /\ ~UNCHANGED vars
    BY <1>1 DEF Owner, Open, Write, Close, Joined, Unplug, PlugIn, vars, writer
  <2>4. ~DoRead /\ ~CloseHandler /\ ~ReadFails /\ ~RunReturns /\ ~WriteFails
    BY <1>1 DEF DoRead, CloseHandler, ReadFails, RunReturns, WriteFails, writer
  <2>5. WriteDone
    BY <1>1, <2>2, <2>3, <2>4 DEF Next, BackgroundThread
  <2> QED
    BY <2>5 DEF WriteDone
<1>2. IInv /\ [Next]_vars =>
        [writing /\ writing' /\ writeBuffer' # writeBuffer => wire' = wire \o writeBuffer]_vars
  BY <1>1
<1> QED
  BY InitIInv, NextIInv, <1>2, PTL DEF Spec, BufferStable
HIDE BoundsAssumption
-----------------------------------------------------------------------------
(* CmdPages, for every file, number of columns and bound: the store, the     *)
(* notebook and the file name the same pages and commands.                   *)

(* What the library's InsertAt and RemoveAt give. *)
IsInserted(r, s, i, e, S) ==
  /\ r \in Seq(S) /\ Len(r) = Len(s) + 1
  /\ \A j \in 1..(Len(s) + 1) : r[j] = IF j < i THEN s[j] ELSE IF j = i THEN e ELSE s[j - 1]
IsRemoved(r, s, i, S) ==
  /\ r \in Seq(S) /\ Len(r) = Len(s) - 1
  /\ \A j \in 1..(Len(s) - 1) : r[j] = IF j < i THEN s[j] ELSE s[j + 1]

LEMMA Inserted ==
  ASSUME NEW S, NEW s \in Seq(S), NEW i \in 1..(Len(s) + 1), NEW e \in S
  PROVE  IsInserted(InsertAt(s, i, e), s, i, e, S)
<1> DEFINE a == SubSeq(s, 1, i - 1)
           z == SubSeq(s, i, Len(s))
           b == a \o <<e>>
           r == b \o z
<1>1. a \in Seq(S) /\ Len(a) = i - 1 /\ (\A j \in 1..(i - 1) : a[j] = s[j])
  OBVIOUS
<1>2. z \in Seq(S) /\ Len(z) = Len(s) - i + 1 /\ (\A j \in 1..(Len(s) - i + 1) : z[j] = s[i + j - 1])
  OBVIOUS
<1> HIDE DEF a, z
<1>3. b \in Seq(S) /\ Len(b) = i /\ b[i] = e /\ (\A j \in 1..(i - 1) : b[j] = s[j])
  BY <1>1
<1> HIDE DEF b
<1>4. InsertAt(s, i, e) = r
  BY DEF InsertAt, a, b, z
<1>5. /\ r \in Seq(S) /\ Len(r) = Len(b) + Len(z)
      /\ \A j \in 1..(Len(b) + Len(z)) : r[j] = IF j <= Len(b) THEN b[j] ELSE z[j - Len(b)]
  BY <1>2, <1>3, ConcatProperties, Zenon
<1> HIDE DEF r
<1>6. Len(b) + Len(z) = Len(s) + 1
  BY <1>2, <1>3
<1>7. ASSUME NEW j \in 1..(Len(s) + 1) PROVE r[j] = IF j < i THEN s[j] ELSE IF j = i THEN e ELSE s[j - 1]
  <2>0. r[j] = IF j <= i THEN b[j] ELSE z[j - i]
    BY <1>3, <1>5, <1>6
  <2>1. CASE j <= i
    BY <1>3, <2>0, <2>1
  <2>2. CASE j > i
    <3>1. r[j] = z[j - i] /\ j - i \in 1..(Len(s) - i + 1)
      BY <2>0, <2>2
    <3>2. i + (j - i) - 1 = j - 1
      OBVIOUS
    <3>3. z[j - i] = s[j - 1]
      BY <1>2, <3>1, <3>2
    <3> QED
      BY <2>2, <3>1, <3>3
  <2> QED
    BY <2>1, <2>2
<1> QED
  BY <1>4, <1>5, <1>6, <1>7 DEF IsInserted

LEMMA Removed ==
  ASSUME NEW S, NEW s \in Seq(S), NEW i \in 1..Len(s)
  PROVE  IsRemoved(RemoveAt(s, i), s, i, S)
<1> DEFINE a == SubSeq(s, 1, i - 1)
           z == SubSeq(s, i + 1, Len(s))
           r == a \o z
<1>1. a \in Seq(S) /\ Len(a) = i - 1 /\ (\A j \in 1..(i - 1) : a[j] = s[j])
  OBVIOUS
<1>2. z \in Seq(S) /\ Len(z) = Len(s) - i /\ (\A j \in 1..(Len(s) - i) : z[j] = s[i + j])
  OBVIOUS
<1> HIDE DEF a, z
<1>4. RemoveAt(s, i) = r
  BY DEF RemoveAt, a, z
<1>5. /\ r \in Seq(S) /\ Len(r) = Len(a) + Len(z)
      /\ \A j \in 1..(Len(a) + Len(z)) : r[j] = IF j <= Len(a) THEN a[j] ELSE z[j - Len(a)]
  BY <1>1, <1>2, ConcatProperties, Zenon
<1> HIDE DEF r
<1>6. Len(a) + Len(z) = Len(s) - 1
  BY <1>1, <1>2
<1>7. ASSUME NEW j \in 1..(Len(s) - 1) PROVE r[j] = IF j < i THEN s[j] ELSE s[j + 1]
  <2>0. r[j] = IF j <= i - 1 THEN a[j] ELSE z[j - (i - 1)]
    BY <1>1, <1>5, <1>6
  <2>1. CASE j < i
    BY <1>1, <2>0, <2>1
  <2>2. CASE j >= i
    <3>1. r[j] = z[j - (i - 1)] /\ j - (i - 1) \in 1..(Len(s) - i)
      BY <2>0, <2>2
    <3>2. i + (j - (i - 1)) = j + 1
      OBVIOUS
    <3>3. z[j - (i - 1)] = s[j + 1]
      BY <1>2, <3>1, <3>2
    <3> QED
      BY <2>2, <3>1, <3>3
  <2> QED
    BY <2>1, <2>2
<1> QED
  BY <1>4, <1>5, <1>6, <1>7 DEF IsRemoved

-----------------------------------------------------------------------------
Pages == [cols : ColumnsOf, own : PageNames]
Tabs == [name : PageNames, cols : Seq(Seq(Nat))]
Files == [page : Seq(PagesInFile), more : Nat]

PagesType ==
  /\ cxStore \in Seq(Pages) /\ cxNames \in Seq(PageNames) /\ cxTabs \in Seq(Tabs) /\ cxFile \in Files
  /\ cxCurrent \in Nat \ {0} /\ cxMade \in Nat
  /\ cxShort \in BOOLEAN /\ cxMixed \in BOOLEAN /\ cxStray \in BOOLEAN
  /\ cxEnd \in {"none", "save", "load", "range"}

(* The columns of a tab are those of its page, and perhaps more that are     *)
(* empty, and each of its buttons has a command.                             *)
Covers(t, p) ==
  /\ Len(p) <= Len(t)
  /\ \A c \in 1..Len(t) : \A i \in 1..Len(t[c]) :
       c \in 1..Len(p) /\ \E j \in 1..Len(p[c]) : t[c][i] = p[c][j].id
TabOfPage(tab, page) == Covers(tab.cols, page.cols)

(* Tabs beyond the pages have no columns; there are none, and no columns     *)
(* beyond those of the page, unless the file was short.                      *)
RestIsEmpty(store, tabs) == \A k \in 1..Len(tabs) : k > Len(store) => tabs[k].cols = <<>>
NoRest(store, tabs) ==
  Len(tabs) = Len(store) /\ \A k \in 1..Len(store) : Len(tabs[k].cols) = Len(store[k].cols)
TabsOfPages ==
  cxEnd # "save" =>
    /\ Len(cxStore) <= Len(cxTabs)
    /\ \A k \in 1..Len(cxStore) : TabOfPage(cxTabs[k], cxStore[k])
    /\ cxEnd # "load" => /\ RestIsEmpty(cxStore, cxTabs)
                         /\ ~cxShort => NoRest(cxStore, cxTabs)

(* There is a name for every page, its own one unless the names are mixed,   *)
(* as they are in the file.                                                  *)
NamesOfPages ==
  cxEnd # "save" =>
    /\ Len(cxStore) <= Len(cxNames)
    /\ ~cxMixed => \A k \in 1..Len(cxStore) : cxNames[k] = cxStore[k].own /\ cxTabs[k].name = cxStore[k].own
OwnNames(file) == \A k \in 1..Len(file.page) : file.page[k].name = file.page[k].own
NamesInFile == ~cxMixed => OwnNames(cxFile)

PagesInv == PagesType /\ TabsOfPages /\ NamesOfPages /\ NamesInFile /\ RangeNeedsStray

LEMMA PagesAreSafe == PagesInv => CmdPagesSafe
<1> SUFFICES ASSUME PagesInv PROVE CmdPagesSafe
  OBVIOUS
<1>1. PagesType
  BY DEF PagesInv
<1>2. PagesKeepNames
  <2> SUFFICES ASSUME ~cxMixed, cxEnd \in {"none", "range", "load"}
               PROVE  /\ Len(cxTabs) >= Len(cxStore) /\ Len(cxNames) >= Len(cxStore)
                      /\ \A k \in DOMAIN cxStore : cxNames[k] = cxStore[k].own /\ cxTabs[k].name = cxStore[k].own
    BY DEF PagesKeepNames
  <2>1. DOMAIN cxStore = 1..Len(cxStore) /\ Len(cxStore) \in Nat /\ Len(cxNames) \in Nat /\ Len(cxTabs) \in Nat
    BY <1>1 DEF PagesType
  <2> QED
    BY <2>1 DEF PagesInv, TabsOfPages, NamesOfPages
<1>3. ButtonsHaveCommands
  <2> SUFFICES ASSUME cxEnd # "save", NEW k \in DOMAIN cxTabs, NEW c \in DOMAIN cxTabs[k].cols,
                      cxTabs[k].cols[c] # <<>>, HasPage(k) \/ cxEnd # "load"
               PROVE  HasColumn(k, c) /\ ToSet(cxTabs[k].cols[c]) \subseteq ToSet(Ids(cxStore[k].cols)[c])
    BY DEF ButtonsHaveCommands
  <2>1. cxTabs \in Seq(Tabs) /\ cxStore \in Seq(Pages) /\ k \in 1..Len(cxTabs) /\ cxTabs[k] \in Tabs
        /\ Len(cxStore) \in Nat
    BY <1>1 DEF PagesType
  <2>2. k \in 1..Len(cxStore)
    <3>1. CASE HasPage(k)
      BY <2>1, <3>1 DEF HasPage
    <3>2. CASE cxEnd # "load" /\ k > Len(cxStore)
      <4>1. cxTabs[k].cols = <<>>
        BY <2>1, <3>2 DEF PagesInv, TabsOfPages, RestIsEmpty
      <4> QED
        BY <4>1
    <3> QED
      BY <2>1, <3>1, <3>2 DEF HasPage
  <2>3. TabOfPage(cxTabs[k], cxStore[k]) /\ cxStore[k] \in Pages
    BY <2>1, <2>2 DEF PagesInv, TabsOfPages
  <2> DEFINE t == cxTabs[k].cols
             p == cxStore[k].cols
  <2>4. t \in Seq(Seq(Nat)) /\ p \in Seq(Seq(Commands)) /\ Covers(t, p) /\ c \in DOMAIN t /\ t[c] # <<>>
    BY <2>1, <2>3 DEF Tabs, Pages, ColumnsOf, TabOfPage
  <2> HIDE DEF t, p
  <2>5. c \in 1..Len(t) /\ t[c] \in Seq(Nat)
    BY <2>4
  <2>6. 1 \in 1..Len(t[c])
    BY <2>4, <2>5
  <2>7. c \in 1..Len(p) /\ c \in DOMAIN p /\ p[c] \in Seq(Commands)
    <3>1. c \in 1..Len(p)
      BY <2>4, <2>5, <2>6 DEF Covers
    <3> QED
      BY <2>4, <3>1
  <2>8. ToSet(t[c]) \subseteq ToSet(Ids(p)[c])
    <3>1. DOMAIN t[c] = 1..Len(t[c]) /\ DOMAIN p[c] = 1..Len(p[c])
      BY <2>5, <2>7
    <3>2. Ids(p)[c] = [i \in 1..Len(p[c]) |-> p[c][i].id]
      BY <2>7, <3>1 DEF Ids
    <3>3. \A i \in 1..Len(t[c]) : \E j \in 1..Len(p[c]) : t[c][i] = p[c][j].id
      BY <2>4, <2>5 DEF Covers
    <3>4. DOMAIN Ids(p)[c] = 1..Len(p[c]) /\ \A j \in 1..Len(p[c]) : Ids(p)[c][j] = p[c][j].id
      BY <3>2
    <3>5. \A i \in DOMAIN t[c] : \E j \in DOMAIN Ids(p)[c] : t[c][i] = Ids(p)[c][j]
      BY <3>1, <3>3, <3>4
    <3> QED
      BY <3>5 DEF ToSet
  <2>9. HasColumn(k, c)
    <3>1. k <= Len(cxStore) /\ c <= Len(p)
      BY <2>1, <2>2, <2>4, <2>7
    <3> QED
      BY <3>1 DEF HasColumn, HasPage, p
  <2> QED
    BY <2>8, <2>9 DEF t, p
<1> QED
  BY <1>2, <1>3 DEF PagesInv, CmdPagesSafe

-----------------------------------------------------------------------------
(* Commands and names that may be saved and loaded.                          *)
Paired(store, names) ==
  /\ store \in Seq(Pages) /\ names \in Seq(PageNames) /\ Len(store) <= Len(names)
  /\ ~cxMixed => \A k \in 1..Len(store) : names[k] = store[k].own

LEMMA PairedInsert ==
  ASSUME NEW store, NEW names, Paired(store, names), NEW i \in 1..(Len(store) + 1),
         NEW page \in Pages, NEW name \in PageNames, ~cxMixed => name = page.own
  PROVE  Paired(InsertAt(store, i, page), InsertAt(names, i, name))
<1> DEFINE s == InsertAt(store, i, page)
           n == InsertAt(names, i, name)
<1>1. store \in Seq(Pages) /\ names \in Seq(PageNames) /\ Len(store) <= Len(names)
      /\ Len(store) \in Nat /\ Len(names) \in Nat
  BY DEF Paired
<1>2. IsInserted(s, store, i, page, Pages)
  BY <1>1, Inserted, Zenon
<1>3. i \in 1..(Len(names) + 1)
  BY <1>1
<1>4. IsInserted(n, names, i, name, PageNames)
  BY <1>1, <1>3, Inserted, Zenon
<1> HIDE DEF s, n
<1>5. ASSUME ~cxMixed, NEW j \in 1..(Len(store) + 1) PROVE n[j] = s[j].own
  <2>0. j \in 1..(Len(names) + 1)
    BY <1>1
  <2>1. CASE j < i
    <3>1. j \in 1..Len(store)
      BY <1>1, <2>1
    <3>2. s[j] = store[j] /\ n[j] = names[j]
      BY <1>2, <1>4, <2>0, <2>1 DEF IsInserted
    <3> QED
      BY <1>5, <3>1, <3>2 DEF Paired
  <2>2. CASE j = i
    BY <1>2, <1>4, <1>5, <2>0, <2>2 DEF IsInserted
  <2>3. CASE j > i
    <3>1. j - 1 \in 1..Len(store)
      BY <1>1, <2>3
    <3>2. s[j] = store[j - 1] /\ n[j] = names[j - 1]
      BY <1>2, <1>4, <2>0, <2>3 DEF IsInserted
    <3> QED
      BY <1>5, <3>1, <3>2 DEF Paired
  <2> QED
    BY <2>1, <2>2, <2>3
<1>6. Len(s) <= Len(n)
  BY <1>1, <1>2, <1>4 DEF IsInserted
<1>7. Paired(s, n)
  BY <1>2, <1>4, <1>5, <1>6 DEF Paired, IsInserted
<1> QED
  BY <1>7 DEF s, n
LEMMA PairedRemove ==
  ASSUME NEW store, NEW names, Paired(store, names), NEW i \in 1..Len(store)
  PROVE  Paired(RemoveAt(store, i), RemoveAt(names, i))
<1> DEFINE s == RemoveAt(store, i)
           n == RemoveAt(names, i)
<1>1. store \in Seq(Pages) /\ names \in Seq(PageNames) /\ Len(store) <= Len(names)
      /\ Len(store) \in Nat /\ Len(names) \in Nat
  BY DEF Paired
<1>2. IsRemoved(s, store, i, Pages)
  BY <1>1, Removed, Zenon
<1>3. i \in 1..Len(names)
  BY <1>1
<1>4. IsRemoved(n, names, i, PageNames)
  BY <1>1, <1>3, Removed, Zenon
<1> HIDE DEF s, n
<1>5. ASSUME ~cxMixed, NEW j \in 1..(Len(store) - 1) PROVE n[j] = s[j].own
  <2>0. j \in 1..(Len(names) - 1) /\ j \in 1..Len(store) /\ j + 1 \in 1..Len(store)
    BY <1>1
  <2>1. CASE j < i
    BY <1>2, <1>4, <1>5, <2>0, <2>1 DEF Paired, IsRemoved
  <2>2. CASE j >= i
    <3>1. s[j] = store[j + 1] /\ n[j] = names[j + 1]
      BY <1>2, <1>4, <2>0, <2>2 DEF IsRemoved
    <3> QED
      BY <1>5, <2>0, <3>1 DEF Paired
  <2> QED
    BY <2>1, <2>2
<1>6. Len(s) <= Len(n)
  BY <1>1, <1>2, <1>4 DEF IsRemoved
<1>7. Paired(s, n)
  BY <1>2, <1>4, <1>5, <1>6 DEF Paired, IsRemoved
<1> QED
  BY <1>7 DEF s, n
LEMMA PairedColumns ==
  ASSUME NEW store, NEW names, Paired(store, names), NEW i \in 1..Len(store), NEW cols \in ColumnsOf
  PROVE  Paired([store EXCEPT ![i].cols = cols], names)
<1> DEFINE s == [store EXCEPT ![i].cols = cols]
<1>1. store \in Seq(Pages) /\ names \in Seq(PageNames) /\ Len(store) <= Len(names)
  BY DEF Paired
<1>2. [store[i] EXCEPT !.cols = cols] \in Pages /\ [store[i] EXCEPT !.cols = cols].own = store[i].own
  <2>1. store[i] \in Pages
    BY <1>1
  <2> QED
    BY <2>1 DEF Pages
<1>3. s \in Seq(Pages) /\ Len(s) = Len(store)
  BY <1>1, <1>2
<1>4. \A j \in 1..Len(store) : s[j].own = store[j].own
  BY <1>1, <1>2
<1> HIDE DEF s
<1>5. Paired(s, names)
  BY <1>1, <1>3, <1>4 DEF Paired
<1> QED
  BY <1>5 DEF s
-----------------------------------------------------------------------------
LEMMA NoneIs ==
  ASSUME NEW S, NEW x \in S, NEW n \in Nat
  PROVE  NoneOf(x, n) \in Seq(S) /\ Len(NoneOf(x, n)) = n /\ \A i \in 1..n : NoneOf(x, n)[i] = x
<1>1. NoneOf(x, n) = [i \in 1..n |-> x]
  BY DEF NoneOf
<1> QED
  BY <1>1

(* A sequence with n times x after it. *)
IsPadded(r, s, x, n, S) ==
  /\ r \in Seq(S) /\ Len(r) = Len(s) + n /\ Len(s) \in Nat
  /\ \A i \in 1..Len(s) : r[i] = s[i]
  /\ \A i \in 1..(Len(s) + n) : i > Len(s) => r[i] = x

LEMMA PaddedIs ==
  ASSUME NEW S, NEW s \in Seq(S), NEW x \in S, NEW n \in Nat
  PROVE  IsPadded(s \o NoneOf(x, n), s, x, n, S)
<1> DEFINE z == NoneOf(x, n)
           r == s \o z
<1>1. z \in Seq(S) /\ Len(z) = n /\ \A i \in 1..n : z[i] = x
  BY NoneIs
<1>2. Len(s) \in Nat
  OBVIOUS
<1> HIDE DEF z
<1>3. /\ r \in Seq(S) /\ Len(r) = Len(s) + Len(z)
      /\ \A i \in 1..(Len(s) + Len(z)) : r[i] = IF i <= Len(s) THEN s[i] ELSE z[i - Len(s)]
  BY <1>1, ConcatProperties, Zenon
<1> HIDE DEF r
<1>4. \A i \in 1..Len(s) : r[i] = s[i]
  BY <1>1, <1>2, <1>3
<1>5. ASSUME NEW i \in 1..(Len(s) + n), i > Len(s) PROVE r[i] = x
  <2>1. i - Len(s) \in 1..n /\ r[i] = z[i - Len(s)]
    BY <1>1, <1>2, <1>3, <1>5
  <2> QED
    BY <1>1, <2>1
<1>6. IsPadded(r, s, x, n, S)
  BY <1>1, <1>2, <1>3, <1>4, <1>5 DEF IsPadded
<1> QED
  BY <1>6 DEF r, z

LEMMA EmptyColumnIsIn == <<>> \in Seq(Nat) /\ <<>> \in Seq(Seq(Nat)) /\ Untitled \in Tabs /\ Untitled.cols = <<>>
<1>1. <<>> \in Seq(Nat) /\ <<>> \in Seq(Seq(Nat))
  OBVIOUS
<1>2. "Page" \in PageNames
  BY DEF PageNames
<1> QED
  BY <1>1, <1>2 DEF Untitled, Tabs

LEMMA IdsOf ==
  ASSUME NEW cols \in ColumnsOf
  PROVE  /\ Ids(cols) \in Seq(Seq(Nat)) /\ Len(Ids(cols)) = Len(cols)
         /\ \A c \in 1..Len(cols) : /\ Len(Ids(cols)[c]) = Len(cols[c])
                                   /\ \A i \in 1..Len(cols[c]) : Ids(cols)[c][i] = cols[c][i].id
<1>1. cols \in Seq(Seq(Commands)) /\ DOMAIN cols = 1..Len(cols) /\ Len(cols) \in Nat
  BY DEF ColumnsOf
<1>2. ASSUME NEW c \in 1..Len(cols)
      PROVE  /\ Ids(cols)[c] \in Seq(Nat) /\ Len(Ids(cols)[c]) = Len(cols[c])
             /\ \A i \in 1..Len(cols[c]) : Ids(cols)[c][i] = cols[c][i].id
  <2> DEFINE col == cols[c]
             ids == [i \in DOMAIN col |-> col[i].id]
  <2>1. Ids(cols)[c] = ids
    BY <1>1 DEF Ids
  <2>2. col \in Seq(Commands)
    BY <1>1
  <2> HIDE DEF col
  <2>3. DOMAIN col = 1..Len(col) /\ Len(col) \in Nat /\ \A i \in 1..Len(col) : col[i].id \in Nat
    <3>1. DOMAIN col = 1..Len(col) /\ Len(col) \in Nat /\ \A i \in 1..Len(col) : col[i] \in Commands
      BY <2>2
    <3> QED
      BY <3>1 DEF Commands
  <2>4. ids \in Seq(Nat) /\ Len(ids) = Len(col) /\ \A i \in 1..Len(col) : ids[i] = col[i].id
    BY <2>3
  <2> QED
    BY <2>1, <2>4 DEF col
<1>3. Ids(cols) = [c \in 1..Len(cols) |-> Ids(cols)[c]]
  BY <1>1 DEF Ids
<1>4. Ids(cols) \in Seq(Seq(Nat)) /\ Len(Ids(cols)) = Len(cols)
  <2> DEFINE ids == Ids(cols)
  <2>1. ids = [c \in 1..Len(cols) |-> ids[c]] /\ \A c \in 1..Len(cols) : ids[c] \in Seq(Nat)
    BY <1>2, <1>3
  <2> HIDE DEF ids
  <2>2. ids \in Seq(Seq(Nat)) /\ Len(ids) = Len(cols)
    BY <1>1, <2>1
  <2> QED
    BY <2>2 DEF ids
<1> QED
  BY <1>2, <1>4
LEMMA TabIs ==
  ASSUME NEW p, p.name \in PageNames, p.cols \in ColumnsOf, p.more \in Nat
  PROVE  /\ Tab(p) \in Tabs /\ Tab(p).name = p.name /\ TabOfPage(Tab(p), p)
         /\ Len(Tab(p).cols) = Len(p.cols) + p.more
<1> DEFINE q == p.cols
           s == Ids(q)
           none == <<>>
           t == s \o NoneOf(none, p.more)
<1>1. /\ s \in Seq(Seq(Nat)) /\ Len(s) = Len(q)
      /\ \A c \in 1..Len(q) : /\ Len(s[c]) = Len(q[c])
                             /\ \A i \in 1..Len(q[c]) : s[c][i] = q[c][i].id
  BY IdsOf, Zenon
<1>2. Tab(p) = [name |-> p.name, cols |-> t]
  BY DEF Tab
<1>3. none \in Seq(Nat) /\ Len(none) = 0
  OBVIOUS
<1>4. q \in Seq(Seq(Commands)) /\ Len(q) \in Nat
  BY DEF ColumnsOf
<1> HIDE DEF s, none
<1>5. IsPadded(t, s, none, p.more, Seq(Nat))
  BY <1>1, <1>3, PaddedIs, Zenon
<1> HIDE DEF t, q
<1>6. t \in Seq(Seq(Nat)) /\ Len(t) = Len(q) + p.more
  BY <1>1, <1>5 DEF IsPadded
<1>7. Covers(t, q)
  <2>1. Len(q) <= Len(t)
    BY <1>4, <1>6
  <2>2. ASSUME NEW c \in 1..Len(t), NEW i \in 1..Len(t[c])
        PROVE  c \in 1..Len(q) /\ \E j \in 1..Len(q[c]) : t[c][i] = q[c][j].id
    <3>1. CASE c <= Len(q)
      <4>1. c \in 1..Len(q)
        BY <1>4, <3>1
      <4>2. t[c] = s[c]
        BY <1>1, <1>5, <4>1 DEF IsPadded
      <4>3. i \in 1..Len(q[c]) /\ t[c][i] = q[c][i].id
        BY <1>1, <2>2, <4>1, <4>2
      <4> QED
        BY <4>1, <4>3
    <3>2. CASE c > Len(q)
      <4>1. t[c] = none
        BY <1>1, <1>5, <1>6, <3>2 DEF IsPadded
      <4> QED
        BY <1>3, <2>2, <4>1
    <3> QED
      BY <1>4, <3>1, <3>2
  <2> QED
    BY <2>1, <2>2 DEF Covers
<1>8. Tab(p) \in Tabs /\ Tab(p).name = p.name /\ Tab(p).cols = t
  BY <1>2, <1>6 DEF Tabs
<1>9. TabOfPage(Tab(p), p)
  BY <1>7, <1>8 DEF TabOfPage, q
<1> QED
  BY <1>6, <1>8, <1>9 DEF q

(* What is loaded: the pages, with their tabs first among the tabs.          *)
IsLoaded(store, tabs, pages) ==
  /\ store \in Seq(Pages) /\ Len(store) = Len(pages) /\ Len(pages) \in Nat
  /\ tabs \in Seq(Tabs) /\ Len(pages) <= Len(tabs)
  /\ \A k \in 1..Len(pages) : /\ TabOfPage(tabs[k], store[k])
                             /\ tabs[k].name = pages[k].name
                             /\ store[k].own = pages[k].own

LEMMA PagesOf ==
  ASSUME NEW pages \in Seq(PagesInFile)
  PROVE  /\ DOMAIN pages = 1..Len(pages) /\ Len(pages) \in Nat
         /\ \A k \in 1..Len(pages) : /\ pages[k].name \in PageNames /\ pages[k].own \in PageNames
                                    /\ pages[k].cols \in ColumnsOf /\ pages[k].more \in Nat
<1>1. DOMAIN pages = 1..Len(pages) /\ Len(pages) \in Nat /\ \A k \in 1..Len(pages) : pages[k] \in PagesInFile
  OBVIOUS
<1> QED
  BY <1>1 DEF PagesInFile

LEMMA StoreOf ==
  ASSUME NEW pages \in Seq(PagesInFile)
  PROVE  /\ Loaded(pages) \in Seq(Pages) /\ Len(Loaded(pages)) = Len(pages)
         /\ \A k \in 1..Len(pages) : Loaded(pages)[k].cols = pages[k].cols /\ Loaded(pages)[k].own = pages[k].own
<1>1. /\ DOMAIN pages = 1..Len(pages) /\ Len(pages) \in Nat
      /\ \A k \in 1..Len(pages) : pages[k].own \in PageNames /\ pages[k].cols \in ColumnsOf
  BY PagesOf
<1>2. \A k \in 1..Len(pages) : [cols |-> pages[k].cols, own |-> pages[k].own] \in Pages
  BY <1>1 DEF Pages
<1>3. Loaded(pages) = [k \in 1..Len(pages) |-> [cols |-> pages[k].cols, own |-> pages[k].own]]
  BY <1>1 DEF Loaded
<1> QED
  BY <1>1, <1>2, <1>3

LEMMA TabsOfIs ==
  ASSUME NEW pages \in Seq(PagesInFile)
  PROVE  /\ TabsOf(pages) \in Seq(Tabs) /\ Len(TabsOf(pages)) = Len(pages)
         /\ \A k \in 1..Len(pages) : /\ TabsOf(pages)[k].name = pages[k].name
                                    /\ TabOfPage(TabsOf(pages)[k], Loaded(pages)[k])
                                    /\ Len(TabsOf(pages)[k].cols) = Len(Loaded(pages)[k].cols) + pages[k].more
<1>1. /\ DOMAIN pages = 1..Len(pages) /\ Len(pages) \in Nat
      /\ \A k \in 1..Len(pages) : /\ pages[k].name \in PageNames /\ pages[k].own \in PageNames
                                 /\ pages[k].cols \in ColumnsOf /\ pages[k].more \in Nat
  BY PagesOf
<1>2. ASSUME NEW k \in 1..Len(pages)
      PROVE  /\ Tab(pages[k]) \in Tabs /\ Tab(pages[k]).name = pages[k].name /\ TabOfPage(Tab(pages[k]), pages[k])
             /\ Len(Tab(pages[k]).cols) = Len(pages[k].cols) + pages[k].more
  BY <1>1, TabIs, Zenon
<1>3. TabsOf(pages) = [k \in 1..Len(pages) |-> Tab(pages[k])]
  BY <1>1 DEF TabsOf
<1>4. TabsOf(pages) \in Seq(Tabs) /\ Len(TabsOf(pages)) = Len(pages)
  BY <1>1, <1>2, <1>3
<1>5. \A k \in 1..Len(pages) : Loaded(pages)[k].cols = pages[k].cols
  BY StoreOf
<1>6. ASSUME NEW k \in 1..Len(pages)
      PROVE  /\ TabsOf(pages)[k].name = pages[k].name
             /\ TabOfPage(TabsOf(pages)[k], Loaded(pages)[k])
             /\ Len(TabsOf(pages)[k].cols) = Len(Loaded(pages)[k].cols) + pages[k].more
  <2>1. TabsOf(pages)[k] = Tab(pages[k]) /\ Loaded(pages)[k].cols = pages[k].cols
    BY <1>3, <1>5
  <2>2. TabOfPage(Tab(pages[k]), Loaded(pages)[k])
    BY <1>2, <2>1 DEF TabOfPage
  <2> QED
    BY <1>2, <2>1, <2>2
<1> QED
  BY <1>4, <1>6

(* More tabs after those of the pages.                                       *)
LEMMA LoadedIs ==
  ASSUME NEW pages \in Seq(PagesInFile), NEW tabs \in Seq(Tabs), Len(pages) <= Len(tabs),
         \A k \in 1..Len(pages) : tabs[k] = TabsOf(pages)[k]
  PROVE  IsLoaded(Loaded(pages), tabs, pages)
<1>1. Len(pages) \in Nat
  OBVIOUS
<1>2. Loaded(pages) \in Seq(Pages) /\ Len(Loaded(pages)) = Len(pages)
      /\ \A k \in 1..Len(pages) : Loaded(pages)[k].own = pages[k].own
  BY StoreOf
<1>3. \A k \in 1..Len(pages) : TabsOf(pages)[k].name = pages[k].name
                              /\ TabOfPage(TabsOf(pages)[k], Loaded(pages)[k])
  BY TabsOfIs
<1> QED
  BY <1>1, <1>2, <1>3 DEF IsLoaded

(* The names of pages after others.                                          *)
NamesAfter(names, old, pages) ==
  /\ names \in Seq(PageNames) /\ Len(names) \in Nat /\ Len(old) \in Nat /\ Len(pages) \in Nat
  /\ Len(old) + Len(pages) <= Len(names)
  /\ \A k \in 1..Len(old) : names[k] = old[k]
  /\ \A k \in 1..Len(pages) : names[Len(old) + k] = pages[k].name

LEMMA NamesAfterIs ==
  ASSUME NEW old \in Seq(PageNames), NEW pages \in Seq(PagesInFile)
  PROVE  NamesAfter(old \o NamesOf(pages), old, pages)
<1> DEFINE n == NamesOf(pages)
           r == old \o n
<1>1. DOMAIN pages = 1..Len(pages) /\ Len(pages) \in Nat /\ Len(old) \in Nat
      /\ \A k \in 1..Len(pages) : pages[k].name \in PageNames
  BY PagesOf
<1>2. n \in Seq(PageNames) /\ Len(n) = Len(pages) /\ \A k \in 1..Len(pages) : n[k] = pages[k].name
  BY <1>1 DEF NamesOf
<1> HIDE DEF n
<1>3. /\ r \in Seq(PageNames) /\ Len(r) = Len(old) + Len(n)
      /\ \A k \in 1..(Len(old) + Len(n)) : r[k] = IF k <= Len(old) THEN old[k] ELSE n[k - Len(old)]
  BY <1>2, ConcatProperties, Zenon
<1> HIDE DEF r
<1>4. ASSUME NEW k \in 1..Len(pages) PROVE r[Len(old) + k] = pages[k].name
  <2>1. Len(old) + k \in 1..(Len(old) + Len(n)) /\ ~(Len(old) + k <= Len(old)) /\ (Len(old) + k) - Len(old) = k
    BY <1>1, <1>2
  <2>2. r[Len(old) + k] = n[k]
    BY <1>3, <2>1
  <2> QED
    BY <1>2, <2>2
<1>5. \A k \in 1..Len(old) : r[k] = old[k]
  BY <1>1, <1>2, <1>3
<1>6. NamesAfter(r, old, pages)
  BY <1>1, <1>2, <1>3, <1>4, <1>5 DEF NamesAfter
<1> QED
  BY <1>6 DEF r, n

IsSaved(file, store, names) ==
  /\ file \in Files /\ file.page \in Seq(PagesInFile) /\ Len(file.page) = Len(store)
  /\ \A k \in 1..Len(store) : file.page[k].name = names[k] /\ file.page[k].own = store[k].own

LEMMA SavedIs ==
  ASSUME NEW store, NEW names, Paired(store, names)
  PROVE  IsSaved(Saved(store, names), store, names)
<1> DEFINE f == Saved(store, names).page
<1>1. /\ store \in Seq(Pages) /\ names \in Seq(PageNames) /\ Len(store) <= Len(names)
      /\ DOMAIN store = 1..Len(store) /\ Len(store) \in Nat /\ Len(names) \in Nat
  BY DEF Paired
<1>2. \A k \in 1..Len(store) : store[k] \in Pages /\ names[k] \in PageNames
  BY <1>1
<1>3. \A k \in 1..Len(store) : store[k].own \in PageNames /\ store[k].cols \in ColumnsOf
  BY <1>2 DEF Pages
<1>4. ASSUME NEW k \in 1..Len(store)
      PROVE  [c \in DOMAIN store[k].cols |-> Written(store[k].cols[c])] \in ColumnsOf
  <2> DEFINE p == store[k].cols
  <2>1. p \in Seq(Seq(Commands))
    BY <1>3 DEF ColumnsOf
  <2> HIDE DEF p
  <2>2. DOMAIN p = 1..Len(p) /\ Len(p) \in Nat /\ \A c \in 1..Len(p) : p[c] \in Seq(Commands)
    BY <2>1
  <2>3. ASSUME NEW col \in Seq(Commands) PROVE Written(col) \in Seq(Commands)
    <3>1. DOMAIN col = 1..Len(col) /\ Len(col) \in Nat /\ \A i \in 1..Len(col) : col[i] \in Commands
      OBVIOUS
    <3>2. \A i \in 1..Len(col) : [col[i] EXCEPT !.colour = FALSE] \in Commands
      BY <3>1 DEF Commands
    <3>3. Written(col) = [i \in 1..Len(col) |-> [col[i] EXCEPT !.colour = FALSE]]
      BY <3>1 DEF Written
    <3> QED
      BY <3>1, <3>2, <3>3
  <2>4. \A c \in 1..Len(p) : Written(p[c]) \in Seq(Commands)
    BY <2>2, <2>3
  <2>5. [c \in 1..Len(p) |-> Written(p[c])] \in Seq(Seq(Commands))
    BY <2>2, <2>4
  <2> QED
    BY <2>2, <2>5 DEF p, ColumnsOf
<1> DEFINE cols(k) == [c \in DOMAIN store[k].cols |-> Written(store[k].cols[c])]
           one(k) == [name |-> names[k], own |-> store[k].own, more |-> 0, cols |-> cols(k)]
           none == 0
<1>5. f = [k \in 1..Len(store) |-> one(k)] /\ Saved(store, names) = [more |-> none, page |-> f]
  BY <1>1 DEF Saved
<1>6. \A k \in 1..Len(store) : cols(k) \in ColumnsOf
  BY <1>4
<1> HIDE DEF f, cols
<1>7. ASSUME NEW k \in 1..Len(store)
      PROVE  one(k) \in PagesInFile /\ one(k).name = names[k] /\ one(k).own = store[k].own /\ one(k).more = 0
  BY <1>2, <1>3, <1>6 DEF PagesInFile
<1> HIDE DEF one
<1>8. f \in Seq(PagesInFile) /\ Len(f) = Len(store)
  BY <1>1, <1>5, <1>7
<1>9. \A k \in 1..Len(store) : f[k].name = names[k] /\ f[k].own = store[k].own /\ f[k].more = 0
  BY <1>5, <1>7
<1>10. Saved(store, names) \in Files
  BY <1>5, <1>8 DEF Files
<1> QED
  BY <1>8, <1>9, <1>10 DEF f, IsSaved

(* The tabs that Load makes.                                                 *)
TabsToo(tabs, file, store) ==
  /\ tabs \in Seq(Tabs) /\ RestIsEmpty(store, tabs)
  /\ ~IsShort(file) => NoRest(store, tabs)

LEMMA LoadIs ==
  ASSUME NEW file \in Files, NEW names \in Seq(PageNames), Load(file, names)
  PROVE  /\ IsLoaded(cxStore', cxTabs', file.page) /\ NamesAfter(cxNames', names, file.page)
         /\ TabsToo(cxTabs', file, cxStore')
<1> DEFINE pages == file.page
           n == file.more
           s == TabsOf(pages)
           tabs == s \o NoneOf(Untitled, n)
           store == Loaded(pages)
<1>1. pages \in Seq(PagesInFile) /\ n \in Nat /\ Len(pages) \in Nat /\ DOMAIN pages = 1..Len(pages)
  BY DEF Files
<1>2. cxStore' = store /\ cxTabs' = tabs /\ cxNames' = names \o NamesOf(pages)
  BY DEF Load
<1>3. IsShort(file) <=> n > 0 \/ \E k \in 1..Len(pages) : pages[k].more > 0
  BY <1>1 DEF IsShort
<1> HIDE DEF pages, n
<1>4. /\ s \in Seq(Tabs) /\ Len(s) = Len(pages)
      /\ \A k \in 1..Len(pages) : Len(s[k].cols) = Len(store[k].cols) + pages[k].more
  BY <1>1, TabsOfIs, Zenon
<1>5. store \in Seq(Pages) /\ Len(store) = Len(pages)
  BY <1>1, StoreOf, Zenon
<1> HIDE DEF store
<1>6. s = TabsOf(pages)
  OBVIOUS
<1> HIDE DEF s
<1>7. IsPadded(tabs, s, Untitled, n, Tabs)
  BY <1>1, <1>4, EmptyColumnIsIn, PaddedIs, Zenon
<1> HIDE DEF tabs
<1>8. tabs \in Seq(Tabs) /\ Len(tabs) = Len(pages) + n /\ \A k \in 1..Len(pages) : tabs[k] = s[k]
  BY <1>4, <1>7 DEF IsPadded
<1>9. IsLoaded(store, tabs, pages)
  <2>1. Len(pages) <= Len(tabs)
    BY <1>1, <1>8
  <2> QED
    BY <1>1, <1>6, <1>8, <2>1, LoadedIs DEF store
<1>10. NamesAfter(cxNames', names, pages)
  BY <1>1, <1>2, NamesAfterIs
<1>11. RestIsEmpty(store, tabs)
  <2>1. ASSUME NEW k \in 1..Len(tabs), k > Len(store) PROVE tabs[k].cols = <<>>
    <3>1. tabs[k] = Untitled
      BY <1>4, <1>5, <1>7, <1>8, <2>1 DEF IsPadded
    <3> QED
      BY <3>1, EmptyColumnIsIn
  <2> QED
    BY <2>1 DEF RestIsEmpty
<1>12. ASSUME ~IsShort(file) PROVE NoRest(store, tabs)
  <2>1. n = 0 /\ \A k \in 1..Len(pages) : pages[k].more = 0
    <3>1. ~(n > 0) /\ \A k \in 1..Len(pages) : ~(pages[k].more > 0)
      BY <1>3, <1>12
    <3>2. \A k \in 1..Len(pages) : pages[k].more \in Nat
      BY <1>1, PagesOf
    <3> QED
      BY <1>1, <3>1, <3>2
  <2>2. store[1] = store[1] /\ \A k \in 1..Len(pages) : store[k].cols \in Seq(Seq(Commands))
    <3>1. \A k \in 1..Len(store) : store[k] \in Pages
      BY <1>5
    <3> QED
      BY <1>5, <3>1 DEF Pages, ColumnsOf
  <2>3. \A k \in 1..Len(pages) : Len(store[k].cols) \in Nat
    BY <2>2
  <2>4. ASSUME NEW k \in 1..Len(pages) PROVE Len(tabs[k].cols) = Len(store[k].cols)
    <3>1. tabs[k] = s[k] /\ Len(s[k].cols) = Len(store[k].cols) + pages[k].more /\ pages[k].more = 0
      BY <1>4, <1>8, <2>1
    <3> DEFINE l == Len(store[k].cols)
    <3>2. l \in Nat
      BY <2>3
    <3> HIDE DEF l
    <3>3. l + 0 = l
      BY <3>2
    <3> QED
      BY <3>1, <3>3 DEF l
  <2>5. Len(tabs) = Len(pages)
    BY <1>1, <1>8, <2>1
  <2> QED
    BY <1>5, <2>4, <2>5 DEF NoRest
<1>13. TabsToo(tabs, file, store)
  BY <1>8, <1>11, <1>12 DEF TabsToo
<1> QED
  BY <1>2, <1>9, <1>10, <1>13 DEF pages

(* After a loading, of a file that stays what it is or is another one.       *)
LEMMA LoadedKeeps ==
  ASSUME PagesType, cxFile' \in Files, NamesInFile', NEW pages, IsLoaded(cxStore', cxTabs', pages),
         cxNames' \in Seq(PageNames), Len(pages) <= Len(cxNames'),
         ~cxMixed' => \A k \in 1..Len(pages) : cxNames'[k] = pages[k].own /\ pages[k].name = pages[k].own,
         cxEnd' \in {"none", "load"},
         cxEnd' # "load" => RestIsEmpty(cxStore', cxTabs') /\ (~cxShort' => NoRest(cxStore', cxTabs')),
         cxCurrent' \in Nat \ {0}, cxMade' \in Nat,
         cxShort' \in BOOLEAN, cxMixed' \in BOOLEAN, cxStray' \in BOOLEAN
  PROVE  PagesInv'
<1>1. /\ cxStore' \in Seq(Pages) /\ Len(cxStore') = Len(pages) /\ cxTabs' \in Seq(Tabs)
      /\ Len(pages) <= Len(cxTabs')
      /\ \A k \in 1..Len(pages) : /\ TabOfPage(cxTabs'[k], cxStore'[k]) /\ cxTabs'[k].name = pages[k].name
                                 /\ cxStore'[k].own = pages[k].own
  BY DEF IsLoaded
<1>2. PagesType'
  BY <1>1 DEF PagesType
<1>3. TabsOfPages'
  BY <1>1 DEF TabsOfPages
<1>4. NamesOfPages'
  BY <1>1 DEF NamesOfPages
<1>5. RangeNeedsStray'
  BY DEF RangeNeedsStray
<1> QED
  BY <1>2, <1>3, <1>4, <1>5 DEF PagesInv

LEMMA ReloadKeeps ==
  ASSUME PagesInv, cxEnd = "none", NEW store, NEW names, Paired(store, names),
         SaveToTempAndReload(store, names), cxFile' = cxFile, cxMixed' = cxMixed,
         cxCurrent' \in Nat \ {0}, cxMade' \in Nat, cxStray' \in BOOLEAN
  PROVE  PagesInv'
<1>1. PagesType /\ NamesInFile
  BY DEF PagesInv
<1>2. cxFile' \in Files /\ cxMixed' \in BOOLEAN /\ NamesInFile' /\ cxShort \in BOOLEAN
  BY <1>1 DEF PagesType, NamesInFile, OwnNames
<1>3. store \in Seq(Pages) /\ names \in Seq(PageNames) /\ Len(store) <= Len(names)
      /\ Len(store) \in Nat /\ Len(names) \in Nat
      /\ (~cxMixed => \A k \in 1..Len(store) : names[k] = store[k].own)
  BY DEF Paired
<1>4. CASE Load(Saved(store, names), names) /\ cxEnd' = cxEnd
  <2> DEFINE f == Saved(store, names)
             pages == f.page
  <2>0. IsSaved(f, store, names)
    BY SavedIs
  <2>2. cxShort' = IsShort(f) /\ cxShort' \in BOOLEAN
    BY <1>4 DEF Load, IsShort
  <2>3. Load(f, names)
    BY <1>4
  <2> HIDE DEF f
  <2>1. /\ f \in Files /\ Len(pages) = Len(store)
        /\ \A k \in 1..Len(store) : pages[k].name = names[k] /\ pages[k].own = store[k].own
    BY <2>0 DEF IsSaved
  <2>4. IsLoaded(cxStore', cxTabs', pages) /\ NamesAfter(cxNames', names, pages) /\ TabsToo(cxTabs', f, cxStore')
    BY <1>3, <2>1, <2>3, LoadIs
  <2> HIDE DEF pages
  <2>5. cxNames' \in Seq(PageNames) /\ Len(pages) <= Len(cxNames')
    BY <1>3, <2>1, <2>4 DEF NamesAfter
  <2>6. ASSUME ~cxMixed', NEW k \in 1..Len(pages)
        PROVE  cxNames'[k] = pages[k].own /\ pages[k].name = pages[k].own
    <3>1. k \in 1..Len(store) /\ k \in 1..Len(names)
      BY <1>3, <2>1
    <3>2. cxNames'[k] = names[k]
      BY <2>4, <3>1 DEF NamesAfter
    <3> QED
      BY <1>3, <2>1, <2>6, <3>1, <3>2
  <2>7. RestIsEmpty(cxStore', cxTabs') /\ (~cxShort' => NoRest(cxStore', cxTabs'))
    BY <2>2, <2>4 DEF TabsToo
  <2>8. cxEnd' \in {"none", "load"}
    BY <1>4
  <2> QED
    BY <1>1, <1>2, <2>2, <2>4, <2>5, <2>6, <2>7, <2>8, LoadedKeeps
<1>5. CASE cxStore' = store /\ cxNames' = names /\ cxEnd' = "save" /\ cxTabs' = cxTabs /\ cxShort' = cxShort
  <2>1. PagesType'
    BY <1>1, <1>2, <1>3, <1>5 DEF PagesType
  <2>2. TabsOfPages' /\ NamesOfPages' /\ RangeNeedsStray'
    BY <1>5 DEF TabsOfPages, NamesOfPages, RangeNeedsStray
  <2> QED
    BY <1>2, <2>1, <2>2 DEF PagesInv
<1> QED
  BY <1>4, <1>5 DEF SaveToTempAndReload

LEMMA PagesBefore ==
  ASSUME PagesInv, cxEnd = "none"
  PROVE  /\ Paired(cxStore, cxNames)
         /\ Len(cxStore) \in Nat /\ Len(cxTabs) \in Nat /\ Len(cxStore) <= Len(cxTabs)
         /\ DOMAIN cxTabs = 1..Len(cxTabs)
         /\ \A k \in 1..Len(cxStore) : cxStore[k] \in Pages /\ cxTabs[k] \in Tabs /\ TabOfPage(cxTabs[k], cxStore[k])
<1>1. PagesType /\ TabsOfPages /\ NamesOfPages
  BY DEF PagesInv
<1>2. cxStore \in Seq(Pages) /\ cxNames \in Seq(PageNames) /\ cxTabs \in Seq(Tabs)
  BY <1>1 DEF PagesType
<1>3. Len(cxStore) <= Len(cxTabs) /\ \A k \in 1..Len(cxStore) : TabOfPage(cxTabs[k], cxStore[k])
  BY <1>1 DEF TabsOfPages
<1>4. Paired(cxStore, cxNames)
  BY <1>1, <1>2 DEF NamesOfPages, Paired
<1>5. \A k \in 1..Len(cxStore) : cxStore[k] \in Pages /\ cxTabs[k] \in Tabs
  BY <1>2, <1>3
<1> QED
  BY <1>2, <1>3, <1>4, <1>5

LEMMA PageIs ==
  ASSUME PagesInv, cxEnd = "none", NEW k \in DOMAIN cxTabs, HasPage(k)
  PROVE  k \in 1..Len(cxStore)
BY PagesBefore DEF HasPage

(* The menu of a tab. *)
LEMMA AddPageStep ==
  ASSUME PagesInv, cxEnd = "none", NEW k \in DOMAIN cxTabs, AddPage(k)
  PROVE  PagesInv'
<1>1. PagesType /\ Paired(cxStore, cxNames) /\ k \in 1..Len(cxStore) /\ Len(cxStore) \in Nat
  BY PagesBefore, PageIs DEF PagesInv, AddPage
<1> DEFINE cols == << <<Command(cxMade + 1)>> >>
           name == "new"
           page == [cols |-> cols, own |-> name]
           at == k + 1
<1>2. cols \in ColumnsOf
  <2>1. Command(cxMade + 1) \in Commands
    BY <1>1 DEF Command, Commands, PagesType
  <2>2. <<Command(cxMade + 1)>> \in Seq(Commands)
    BY <2>1
  <2> QED
    BY <2>2 DEF ColumnsOf
<1>3. name \in PageNames /\ at \in 1..(Len(cxStore) + 1)
  <2>1. name \in PageNames
    BY DEF PageNames
  <2>2. at \in 1..(Len(cxStore) + 1)
    BY <1>1
  <2> QED
    BY <2>1, <2>2
<1>5. SaveToTempAndReload(InsertAt(cxStore, at, page), InsertAt(cxNames, at, name))
  BY DEF AddPage
<1> HIDE DEF cols, name, at
<1>7. page \in Pages /\ page.own = name
  BY <1>2, <1>3 DEF Pages
<1> HIDE DEF page
<1>4. Paired(InsertAt(cxStore, at, page), InsertAt(cxNames, at, name))
  BY <1>1, <1>3, <1>7, PairedInsert, Zenon
<1>6. /\ cxFile' = cxFile /\ cxMixed' = cxMixed /\ cxCurrent' \in Nat \ {0}
      /\ cxMade' \in Nat /\ cxStray' \in BOOLEAN
  BY <1>1 DEF AddPage, OnTab, PagesType
<1> QED
  BY <1>4, <1>5, <1>6, ReloadKeeps

LEMMA CopyPageStep ==
  ASSUME PagesInv, cxEnd = "none", NEW k \in DOMAIN cxTabs, NEW to \in {k, k + 1}, CopyPage(k, to)
  PROVE  PagesInv'
<1>1. PagesType /\ Paired(cxStore, cxNames) /\ k \in 1..Len(cxStore) /\ Len(cxStore) \in Nat
      /\ cxStore[k] \in Pages
  BY PagesBefore, PageIs DEF PagesInv, CopyPage
<1> DEFINE page == [cxStore[k] EXCEPT !.cols = Copied(@)]
           name == cxNames[k]
           p == cxStore[k].cols
<1>2. Copied(p) \in ColumnsOf
  <2>1. p \in Seq(Seq(Commands)) /\ cxMade + 1 \in Nat
    BY <1>1 DEF Pages, ColumnsOf, PagesType
  <2> HIDE DEF p
  <2> DEFINE one(e) == IF e.id = 0 THEN Separator ELSE [e EXCEPT !.id = cxMade + 1]
             copy(c) == [i \in DOMAIN p[c] |-> one(p[c][i])]
  <2>2. \A e \in Commands : one(e) \in Commands
    BY <2>1 DEF Commands, Separator
  <2>3. DOMAIN p = 1..Len(p) /\ Len(p) \in Nat
    BY <2>1
  <2>4. ASSUME NEW c \in 1..Len(p) PROVE copy(c) \in Seq(Commands)
    <3> DEFINE col == p[c]
    <3>1. col \in Seq(Commands)
      BY <2>1, <2>3
    <3> HIDE DEF col, one
    <3>2. DOMAIN col = 1..Len(col) /\ Len(col) \in Nat /\ \A i \in 1..Len(col) : one(col[i]) \in Commands
      BY <2>2, <3>1
    <3>3. [i \in DOMAIN col |-> one(col[i])] \in Seq(Commands)
      BY <3>2
    <3> QED
      BY <3>3 DEF col
  <2>5. Copied(p) = [c \in 1..Len(p) |-> copy(c)]
    BY <2>3 DEF Copied
  <2> HIDE DEF copy
  <2>6. [c \in 1..Len(p) |-> copy(c)] \in Seq(Seq(Commands))
    BY <2>3, <2>4
  <2> QED
    BY <2>5, <2>6 DEF ColumnsOf
<1>3. page \in Pages /\ page.own = cxStore[k].own
  BY <1>1, <1>2 DEF Pages
<1>4. name \in PageNames /\ (~cxMixed => name = page.own)
  BY <1>1, <1>3 DEF Paired
<1>5. to \in 1..(Len(cxStore) + 1)
  BY <1>1
<1>6. SaveToTempAndReload(InsertAt(cxStore, to, page), InsertAt(cxNames, to, name))
  BY DEF CopyPage
<1> HIDE DEF page, name
<1>7. Paired(InsertAt(cxStore, to, page), InsertAt(cxNames, to, name))
  BY <1>1, <1>3, <1>4, <1>5, PairedInsert
<1>8. /\ cxFile' = cxFile /\ cxMixed' = cxMixed /\ cxCurrent' \in Nat \ {0}
      /\ cxMade' \in Nat /\ cxStray' \in BOOLEAN
  BY <1>1 DEF CopyPage, OnTab, PagesType
<1> QED
  BY <1>6, <1>7, <1>8, ReloadKeeps

LEMMA DeletePageStep ==
  ASSUME PagesInv, cxEnd = "none", NEW k \in DOMAIN cxTabs, DeletePage(k)
  PROVE  PagesInv'
<1>1. PagesType /\ Paired(cxStore, cxNames) /\ k \in 1..Len(cxStore) /\ Len(cxStore) \in Nat
  BY PagesBefore, PageIs DEF PagesInv, DeletePage
<1>2. Paired(RemoveAt(cxStore, k), RemoveAt(cxNames, k))
  BY <1>1, PairedRemove
<1>3. SaveToTempAndReload(RemoveAt(cxStore, k), RemoveAt(cxNames, k))
  BY DEF DeletePage, DeleteName
<1>4. /\ cxFile' = cxFile /\ cxMixed' = cxMixed /\ cxCurrent' \in Nat \ {0}
      /\ cxMade' \in Nat /\ cxStray' \in BOOLEAN
  BY <1>1 DEF DeletePage, OnTab, PagesType
<1> QED
  BY <1>2, <1>3, <1>4, ReloadKeeps

LEMMA ReplaceStep ==
  ASSUME PagesInv, cxEnd = "none", NEW k \in 1..Len(cxStore),
         NEW page \in Pages, NEW tab \in Tabs, TabOfPage(tab, page),
         ~cxShort => Len(tab.cols) = Len(page.cols),
         cxStore' = [cxStore EXCEPT ![k] = page], cxTabs' = [cxTabs EXCEPT ![k] = tab],
         cxNames' \in Seq(PageNames), Len(cxNames') = Len(cxNames),
         \A j \in 1..Len(cxNames) : j # k => cxNames'[j] = cxNames[j],
         ~cxMixed => cxNames'[k] = page.own /\ tab.name = page.own,
         cxFile' = cxFile, cxMixed' = cxMixed, cxStray' = cxStray, cxEnd' = cxEnd, cxShort' = cxShort,
         cxMade' \in Nat, cxCurrent' \in Nat \ {0}
  PROVE  PagesInv'
<1>1. PagesType /\ TabsOfPages /\ NamesOfPages /\ NamesInFile
      /\ Len(cxStore) \in Nat /\ Len(cxTabs) \in Nat /\ Len(cxStore) <= Len(cxTabs)
      /\ \A j \in 1..Len(cxStore) : cxStore[j] \in Pages /\ cxTabs[j] \in Tabs /\ TabOfPage(cxTabs[j], cxStore[j])
  BY PagesBefore DEF PagesInv
<1>2. cxStore \in Seq(Pages) /\ cxNames \in Seq(PageNames) /\ cxTabs \in Seq(Tabs)
  BY <1>1 DEF PagesType
<1>3. /\ cxStore' \in Seq(Pages) /\ Len(cxStore') = Len(cxStore) /\ cxStore'[k] = page
      /\ \A j \in 1..Len(cxStore) : j # k => cxStore'[j] = cxStore[j]
  BY <1>1, <1>2
<1>4. /\ cxTabs' \in Seq(Tabs) /\ Len(cxTabs') = Len(cxTabs) /\ cxTabs'[k] = tab
      /\ \A j \in 1..Len(cxTabs) : j # k => cxTabs'[j] = cxTabs[j]
  <2>1. k \in 1..Len(cxTabs)
    BY <1>1
  <2> QED
    BY <1>2, <2>1
<1>5. PagesType'
  BY <1>1, <1>3, <1>4 DEF PagesType
<1>6. \A j \in 1..Len(cxStore) : j \in 1..Len(cxTabs)
  BY <1>1
<1>7. TabsOfPages'
  <2>1. ASSUME NEW j \in 1..Len(cxStore) PROVE TabOfPage(cxTabs'[j], cxStore'[j])
    <3>1. CASE j = k
      BY <1>3, <1>4, <3>1
    <3>2. CASE j # k
      BY <1>1, <1>3, <1>4, <1>6, <3>2
    <3> QED
      BY <3>1, <3>2
  <2>2. RestIsEmpty(cxStore', cxTabs')
    <3>1. ASSUME NEW j \in 1..Len(cxTabs), j > Len(cxStore) PROVE cxTabs'[j].cols = <<>>
      <4>1. j # k
        BY <1>1, <3>1
      <4>2. cxTabs[j].cols = <<>>
        BY <1>1, <3>1 DEF TabsOfPages, RestIsEmpty
      <4> QED
        BY <1>4, <4>1, <4>2
    <3> QED
      BY <1>3, <1>4, <3>1 DEF RestIsEmpty
  <2>3. ASSUME ~cxShort PROVE NoRest(cxStore', cxTabs')
    <3>1. NoRest(cxStore, cxTabs)
      BY <1>1, <2>3 DEF TabsOfPages
    <3>2. ASSUME NEW j \in 1..Len(cxStore) PROVE Len(cxTabs'[j].cols) = Len(cxStore'[j].cols)
      <4>1. CASE j = k
        BY <1>3, <1>4, <2>3, <4>1
      <4>2. CASE j # k
        BY <1>3, <1>4, <1>6, <3>1, <4>2 DEF NoRest
      <4> QED
        BY <4>1, <4>2
    <3> QED
      BY <1>3, <1>4, <3>1, <3>2 DEF NoRest
  <2> QED
    BY <1>1, <1>3, <1>4, <2>1, <2>2, <2>3 DEF TabsOfPages
<1>8. NamesOfPages'
  <2>1. Len(cxStore) <= Len(cxNames) /\ Len(cxNames) \in Nat
    BY <1>1, <1>2 DEF NamesOfPages
  <2>2. ASSUME ~cxMixed, NEW j \in 1..Len(cxStore)
        PROVE  cxNames'[j] = cxStore'[j].own /\ cxTabs'[j].name = cxStore'[j].own
    <3>1. cxNames[j] = cxStore[j].own /\ cxTabs[j].name = cxStore[j].own /\ j \in 1..Len(cxNames)
      BY <1>1, <2>1, <2>2 DEF NamesOfPages
    <3>2. CASE j = k
      BY <1>3, <1>4, <2>2, <3>2
    <3>3. CASE j # k
      BY <1>3, <1>4, <1>6, <3>1, <3>3
    <3> QED
      BY <3>2, <3>3
  <2> QED
    BY <1>3, <2>1, <2>2 DEF NamesOfPages
<1>9. NamesInFile' /\ RangeNeedsStray'
  BY <1>1 DEF NamesInFile, OwnNames, RangeNeedsStray
<1> QED
  BY <1>5, <1>7, <1>8, <1>9 DEF PagesInv

LEMMA PageBefore ==
  ASSUME PagesInv, cxEnd = "none", NEW k \in 1..Len(cxStore)
  PROVE  /\ cxStore[k] \in Pages /\ cxTabs[k] \in Tabs
         /\ cxStore[k].cols \in Seq(Seq(Commands)) /\ cxTabs[k].cols \in Seq(Seq(Nat))
         /\ Covers(cxTabs[k].cols, cxStore[k].cols)
         /\ ~cxShort => Len(cxTabs[k].cols) = Len(cxStore[k].cols)
         /\ cxNames \in Seq(PageNames) /\ k \in 1..Len(cxNames)
         /\ ~cxMixed => cxNames[k] = cxStore[k].own /\ cxTabs[k].name = cxStore[k].own
<1>1. /\ Paired(cxStore, cxNames) /\ Len(cxStore) \in Nat
      /\ cxStore[k] \in Pages /\ cxTabs[k] \in Tabs /\ TabOfPage(cxTabs[k], cxStore[k])
  BY PagesBefore
<1>2. Covers(cxTabs[k].cols, cxStore[k].cols)
  BY <1>1 DEF TabOfPage
<1>3. cxStore[k].cols \in Seq(Seq(Commands)) /\ cxTabs[k].cols \in Seq(Seq(Nat))
  BY <1>1 DEF Pages, Tabs, ColumnsOf
<1>4. ~cxShort => Len(cxTabs[k].cols) = Len(cxStore[k].cols)
  BY DEF PagesInv, TabsOfPages, NoRest
<1>5. cxNames \in Seq(PageNames) /\ k \in 1..Len(cxNames)
  <2>1. cxNames \in Seq(PageNames) /\ Len(cxStore) <= Len(cxNames)
    BY <1>1 DEF Paired
  <2>2. Len(cxNames) \in Nat
    BY <2>1
  <2> QED
    BY <1>1, <2>1, <2>2
<1>6. ~cxMixed => cxNames[k] = cxStore[k].own /\ cxTabs[k].name = cxStore[k].own
  BY <1>1 DEF PagesInv, NamesOfPages
<1> QED
  BY <1>1, <1>2, <1>3, <1>4, <1>5, <1>6

LEMMA RenameStep ==
  ASSUME PagesInv, cxEnd = "none", NEW k \in DOMAIN cxTabs, Rename(k)
  PROVE  PagesInv'
<1> DEFINE name == "r"
           page == [cxStore[k] EXCEPT !.own = name]
           tab == [cxTabs[k] EXCEPT !.name = name]
<1>1. PagesType /\ TabsOfPages /\ NamesOfPages /\ NamesInFile
      /\ Len(cxStore) \in Nat /\ Len(cxTabs) \in Nat /\ k \in 1..Len(cxTabs)
  BY PagesBefore DEF PagesInv
<1>2. cxNames \in Seq(PageNames) /\ k \in 1..Len(cxNames) /\ cxMade \in Nat /\ cxTabs \in Seq(Tabs)
      /\ cxStore \in Seq(Pages) /\ cxTabs[k] \in Tabs /\ DOMAIN cxStore = 1..Len(cxStore)
  <2>1. cxNames \in Seq(PageNames) /\ cxMade \in Nat /\ cxTabs \in Seq(Tabs) /\ cxStore \in Seq(Pages)
    BY <1>1 DEF PagesType
  <2>2. k <= Len(cxNames) /\ Len(cxNames) \in Nat
    BY <2>1 DEF Rename
  <2> QED
    BY <1>1, <2>1, <2>2
<1>3. name \in PageNames
  BY DEF PageNames
<1>4. /\ cxStore' = [j \in DOMAIN cxStore |-> IF j = k THEN page ELSE cxStore[j]]
      /\ cxTabs' = [cxTabs EXCEPT ![k] = tab] /\ cxNames' = [cxNames EXCEPT ![k] = name]
  BY DEF Rename
<1>5. cxFile' = cxFile /\ cxMixed' = cxMixed /\ cxStray' = cxStray /\ cxMade' = cxMade
      /\ cxEnd' = cxEnd /\ cxShort' = cxShort /\ cxCurrent' = k
  BY DEF Rename, OnTab
<1> HIDE DEF name
<1>7. tab \in Tabs /\ tab.name = name /\ tab.cols = cxTabs[k].cols
  BY <1>2, <1>3 DEF Tabs
<1>9. /\ cxNames' \in Seq(PageNames) /\ Len(cxNames') = Len(cxNames) /\ cxNames'[k] = name
      /\ \A j \in 1..Len(cxNames) : j # k => cxNames'[j] = cxNames[j]
  BY <1>2, <1>3, <1>4
<1>10. cxCurrent' \in Nat \ {0} /\ cxMade' \in Nat
  BY <1>1, <1>2, <1>5
<1>11. CASE k <= Len(cxStore)
  <2>1. k \in 1..Len(cxStore)
    BY <1>1, <1>11
  <2>2. cxStore' = [cxStore EXCEPT ![k] = page]
    BY <1>2, <1>4
  <2>3. cxStore[k] \in Pages
    BY <1>2, <2>1
  <2>4. page \in Pages /\ page.own = name /\ page.cols = cxStore[k].cols
    BY <1>3, <2>3 DEF Pages
  <2> HIDE DEF page, tab
  <2>5. Covers(tab.cols, page.cols) /\ (~cxShort => Len(tab.cols) = Len(page.cols))
    BY <1>7, <2>1, <2>4, PageBefore
  <2>6. TabOfPage(tab, page)
    BY <2>5 DEF TabOfPage
  <2>7. ~cxMixed => cxNames'[k] = page.own /\ tab.name = page.own
    BY <1>7, <1>9, <2>4
  <2> QED
    BY <1>4, <1>5, <1>7, <1>9, <1>10, <2>1, <2>2, <2>4, <2>5, <2>6, <2>7, ReplaceStep
<1>12. CASE k > Len(cxStore)
  <2>1. cxStore' = cxStore
    <3>1. \A j \in 1..Len(cxStore) : j # k
      BY <1>1, <1>12
    <3> HIDE DEF page
    <3>2. cxStore' = [j \in 1..Len(cxStore) |-> cxStore[j]]
      BY <1>2, <1>4, <3>1
    <3> QED
      BY <1>2, <3>2
  <2> HIDE DEF tab
  <2>2. /\ cxTabs' \in Seq(Tabs) /\ Len(cxTabs') = Len(cxTabs)
        /\ \A j \in 1..Len(cxTabs) : cxTabs'[j].cols = cxTabs[j].cols
        /\ \A j \in 1..Len(cxTabs) : j # k => cxTabs'[j] = cxTabs[j]
    BY <1>1, <1>2, <1>4, <1>7
  <2>3. PagesType'
    BY <1>1, <1>5, <1>9, <1>10, <2>1, <2>2 DEF PagesType
  <2>4. Len(cxStore) <= Len(cxTabs) /\ \A j \in 1..Len(cxStore) : j \in 1..Len(cxTabs) /\ j # k
    BY <1>1, <1>12 DEF TabsOfPages
  <2>5. TabsOfPages'
    <3>1. \A j \in 1..Len(cxStore) : TabOfPage(cxTabs'[j], cxStore'[j])
      BY <1>1, <2>1, <2>2, <2>4 DEF TabsOfPages
    <3>2. RestIsEmpty(cxStore', cxTabs')
      BY <1>1, <2>1, <2>2 DEF TabsOfPages, RestIsEmpty
    <3>3. ~cxShort => NoRest(cxStore', cxTabs')
      BY <1>1, <2>1, <2>2, <2>4 DEF TabsOfPages, NoRest
    <3> QED
      BY <1>5, <2>1, <2>2, <2>4, <3>1, <3>2, <3>3 DEF TabsOfPages
  <2>6. NamesOfPages'
    <3>1. Len(cxStore) <= Len(cxNames) /\ Len(cxNames) \in Nat
      BY <1>1, <1>2 DEF NamesOfPages
    <3>2. ASSUME ~cxMixed, NEW j \in 1..Len(cxStore)
          PROVE  cxNames'[j] = cxStore[j].own /\ cxTabs'[j].name = cxStore[j].own
      <4>1. cxNames[j] = cxStore[j].own /\ cxTabs[j].name = cxStore[j].own /\ j \in 1..Len(cxNames)
        BY <1>1, <3>1, <3>2 DEF NamesOfPages
      <4> QED
        BY <1>9, <2>2, <2>4, <4>1
    <3> QED
      BY <1>5, <1>9, <2>1, <3>1, <3>2 DEF NamesOfPages
  <2>7. NamesInFile' /\ RangeNeedsStray'
    BY <1>1, <1>5 DEF NamesInFile, OwnNames, RangeNeedsStray
  <2> QED
    BY <2>3, <2>5, <2>6, <2>7 DEF PagesInv
<1> QED
  BY <1>1, <1>11, <1>12

(* A tab, a name or a column that is not there. *)
LEMMA UndefinedStep ==
  ASSUME PagesInv, cxEnd = "none", Undefined, cxStray' \/ cxShort,
         cxFile' = cxFile, cxMixed' = cxMixed, cxMade' = cxMade, cxCurrent' \in Nat \ {0}, cxStray' \in BOOLEAN
  PROVE  PagesInv'
<1>1. PagesType /\ TabsOfPages /\ NamesOfPages /\ NamesInFile
  BY DEF PagesInv
<1>2. cxEnd' = "range" /\ cxStore' = cxStore /\ cxNames' = cxNames /\ cxTabs' = cxTabs /\ cxShort' = cxShort
  BY DEF Undefined
<1>3. PagesType'
  BY <1>1, <1>2 DEF PagesType
<1>4. TabsOfPages' /\ NamesOfPages'
  BY <1>1, <1>2 DEF TabsOfPages, NamesOfPages
<1>5. NamesInFile' /\ RangeNeedsStray'
  BY <1>1, <1>2 DEF NamesInFile, OwnNames, RangeNeedsStray
<1> QED
  BY <1>3, <1>4, <1>5 DEF PagesInv

(* Where a page or a column of its tab is missing, the file was short.       *)
LEMMA MissingIsShort ==
  ASSUME PagesInv, cxEnd = "none", NEW k \in DOMAIN cxTabs
  PROVE  /\ ~HasPage(k) => cxShort
         /\ \A c \in DOMAIN cxTabs[k].cols : ~HasColumn(k, c) => cxShort
<1>1. Len(cxStore) \in Nat /\ Len(cxTabs) \in Nat /\ k \in 1..Len(cxTabs)
  BY PagesBefore
<1>2. ~cxShort => NoRest(cxStore, cxTabs)
  BY DEF PagesInv, TabsOfPages
<1>3. ~cxShort => k \in 1..Len(cxStore) /\ HasPage(k)
  BY <1>1, <1>2 DEF NoRest, HasPage
<1>4. ASSUME ~cxShort, NEW c \in DOMAIN cxTabs[k].cols PROVE HasColumn(k, c)
  <2>1. cxTabs[k].cols \in Seq(Seq(Nat)) /\ Len(cxTabs[k].cols) = Len(cxStore[k].cols)
    BY <1>3, <1>4, PageBefore
  <2>2. c \in 1..Len(cxTabs[k].cols)
    BY <1>4, <2>1
  <2> DEFINE l == Len(cxTabs[k].cols)
  <2>3. l \in Nat
    BY <2>1
  <2> HIDE DEF l
  <2>4. c <= l
    BY <2>2, <2>3 DEF l
  <2> QED
    BY <1>3, <1>4, <2>1, <2>4 DEF HasColumn, l
<1> QED
  BY <1>3, <1>4

LEMMA OnEmptyTabStep ==
  ASSUME PagesInv, cxEnd = "none", NEW k \in DOMAIN cxTabs, OnEmptyTab(k)
  PROVE  PagesInv'
<1>1. cxShort
  BY MissingIsShort DEF OnEmptyTab
<1>2. Undefined /\ cxFile' = cxFile /\ cxMixed' = cxMixed /\ cxMade' = cxMade /\ cxCurrent' = k /\ cxStray' = cxStray
  BY DEF OnEmptyTab, OnTab
<1>3. cxCurrent' \in Nat \ {0} /\ cxStray' \in BOOLEAN
  <2>1. Len(cxTabs) \in Nat /\ k \in 1..Len(cxTabs)
    BY PagesBefore
  <2> QED
    BY <1>2, <2>1 DEF PagesInv, PagesType
<1> QED
  BY <1>1, <1>2, <1>3, UndefinedStep

-----------------------------------------------------------------------------
LEMMA CoversAppend ==
  ASSUME NEW p \in Seq(Seq(Commands)), NEW t \in Seq(Seq(Nat)), Covers(t, p),
         NEW c \in 1..Len(p), NEW e \in Commands,
         NEW pp, NEW tt, pp = [p EXCEPT ![c] = Append(p[c], e)], tt = [t EXCEPT ![c] = Append(t[c], e.id)]
  PROVE  /\ pp \in Seq(Seq(Commands)) /\ Len(pp) = Len(p)
         /\ tt \in Seq(Seq(Nat)) /\ Len(tt) = Len(t) /\ Covers(tt, pp)
<1>0. Len(p) <= Len(t) /\ Len(p) \in Nat /\ Len(t) \in Nat
  BY DEF Covers
<1>1. c \in 1..Len(t) /\ p[c] \in Seq(Commands) /\ t[c] \in Seq(Nat) /\ e.id \in Nat
  <2>1. c \in 1..Len(t)
    BY <1>0
  <2> QED
    BY <2>1 DEF Commands
<1> DEFINE a == Append(p[c], e)
           b == Append(t[c], e.id)
<1>2. /\ a \in Seq(Commands) /\ Len(a) = Len(p[c]) + 1 /\ a[Len(p[c]) + 1] = e
      /\ \A j \in 1..Len(p[c]) : a[j] = p[c][j]
  BY <1>1
<1>3. /\ b \in Seq(Nat) /\ Len(b) = Len(t[c]) + 1 /\ b[Len(t[c]) + 1] = e.id
      /\ \A j \in 1..Len(t[c]) : b[j] = t[c][j]
  BY <1>1
<1> HIDE DEF a, b
<1>4. pp \in Seq(Seq(Commands)) /\ Len(pp) = Len(p) /\ pp[c] = a /\ \A d \in 1..Len(p) : d # c => pp[d] = p[d]
  BY <1>1, <1>2 DEF a
<1>5. tt \in Seq(Seq(Nat)) /\ Len(tt) = Len(t) /\ tt[c] = b /\ \A d \in 1..Len(t) : d # c => tt[d] = t[d]
  BY <1>1, <1>3 DEF b
<1>6. ASSUME NEW i \in 1..Len(b) PROVE \E j \in 1..Len(a) : b[i] = a[j].id
  <2>0. Len(p[c]) \in Nat /\ Len(t[c]) \in Nat
    BY <1>1
  <2>1. CASE i <= Len(t[c])
    <3>1. i \in 1..Len(t[c])
      BY <2>0, <2>1
    <3>2. PICK j \in 1..Len(p[c]) : t[c][i] = p[c][j].id
      BY <1>1, <3>1 DEF Covers
    <3>3. b[i] = t[c][i]
      BY <1>3, <3>1
    <3>4. a[j] = p[c][j]
      BY <1>2
    <3>5. j \in 1..Len(a)
      BY <1>2, <2>0
    <3>6. b[i] = a[j].id
      BY <3>2, <3>3, <3>4
    <3> QED
      BY <3>5, <3>6
  <2>2. CASE i = Len(t[c]) + 1
    <3>1. Len(p[c]) + 1 \in 1..Len(a) /\ b[i] = a[Len(p[c]) + 1].id
      BY <1>2, <1>3, <2>0, <2>2
    <3> QED
      BY <3>1
  <2> DEFINE many == Len(t[c])
  <2>3. many \in Nat /\ i \in 1..(many + 1)
    BY <1>3, <2>0
  <2> HIDE DEF many
  <2>4. i <= many \/ i = many + 1
    BY <2>3
  <2> QED
    BY <2>1, <2>2, <2>4, Zenon DEF many
<1>7. ASSUME NEW d \in 1..Len(tt), NEW i \in 1..Len(tt[d])
      PROVE  d \in 1..Len(pp) /\ \E j \in 1..Len(pp[d]) : tt[d][i] = pp[d][j].id
  <2>1. CASE d = c
    <3>1. tt[d] = b /\ pp[d] = a /\ d \in 1..Len(pp)
      BY <1>4, <1>5, <2>1
    <3> HIDE DEF a, b
    <3>2. \A x \in 1..Len(b) : \E j \in 1..Len(a) : b[x] = a[j].id
      BY <1>6, Zenon
    <3>3. i \in 1..Len(b)
      BY <3>1
    <3>4. PICK j \in 1..Len(a) : b[i] = a[j].id
      BY <3>2, <3>3, Zenon
    <3>5. j \in 1..Len(pp[d]) /\ tt[d][i] = pp[d][j].id
      BY <3>1, <3>4
    <3> QED
      BY <3>1, <3>5, Zenon
  <2>2. CASE d # c
    <3>1. d \in 1..Len(t) /\ tt[d] = t[d]
      BY <1>5, <2>2
    <3>2. d \in 1..Len(p) /\ \E j \in 1..Len(p[d]) : t[d][i] = p[d][j].id
      BY <3>1 DEF Covers
    <3>3. d \in 1..Len(pp) /\ pp[d] = p[d]
      BY <1>4, <2>2, <3>2
    <3> QED
      BY <3>1, <3>2, <3>3
  <2> QED
    BY <2>1, <2>2
<1>8. Covers(tt, pp)
  BY <1>0, <1>4, <1>5, <1>7 DEF Covers
<1> QED
  BY <1>4, <1>5, <1>8

LEMMA CoversRemove ==
  ASSUME NEW p \in Seq(Seq(Commands)), NEW t \in Seq(Seq(Nat)), Covers(t, p),
         NEW c \in 1..Len(t), NEW k \in 1..Len(t[c]), NEW tt, tt = [t EXCEPT ![c] = RemoveAt(t[c], k)]
  PROVE  tt \in Seq(Seq(Nat)) /\ Len(tt) = Len(t) /\ Covers(tt, p)
<1>1. Len(p) <= Len(t) /\ t[c] \in Seq(Nat) /\ Len(t[c]) \in Nat
  BY DEF Covers
<1> DEFINE b == RemoveAt(t[c], k)
<1>2. IsRemoved(b, t[c], k, Nat)
  BY <1>1, Removed, Zenon
<1> HIDE DEF b
<1>3. tt \in Seq(Seq(Nat)) /\ Len(tt) = Len(t) /\ tt[c] = b /\ \A d \in 1..Len(t) : d # c => tt[d] = t[d]
  BY <1>1, <1>2 DEF b, IsRemoved
<1>4. ASSUME NEW i \in 1..Len(b) PROVE c \in 1..Len(p) /\ \E j \in 1..Len(p[c]) : b[i] = p[c][j].id
  <2>1. (b[i] = t[c][i] /\ i \in 1..Len(t[c])) \/ (b[i] = t[c][i + 1] /\ i + 1 \in 1..Len(t[c]))
    <3>1. Len(b) = Len(t[c]) - 1 /\ i \in 1..(Len(t[c]) - 1) /\ b[i] = IF i < k THEN t[c][i] ELSE t[c][i + 1]
      BY <1>2 DEF IsRemoved
    <3>2. i \in 1..Len(t[c]) /\ i + 1 \in 1..Len(t[c])
      BY <1>1, <3>1
    <3> QED
      BY <3>1, <3>2
  <2>2. \A x \in 1..Len(t[c]) : c \in 1..Len(p) /\ \E j \in 1..Len(p[c]) : t[c][x] = p[c][j].id
    BY Zenon DEF Covers
  <2> QED
    BY <2>1, <2>2
<1>5. ASSUME NEW d \in 1..Len(tt), NEW i \in 1..Len(tt[d])
      PROVE  d \in 1..Len(p) /\ \E j \in 1..Len(p[d]) : tt[d][i] = p[d][j].id
  <2>1. CASE d = c
    <3>1. tt[d] = b
      BY <1>3, <2>1
    <3>2. i \in 1..Len(b)
      BY <3>1
    <3>3. c \in 1..Len(p) /\ \E j \in 1..Len(p[c]) : b[i] = p[c][j].id
      BY <1>4, <3>2, Zenon
    <3> QED
      BY <2>1, <3>1, <3>3
  <2>2. CASE d # c
    <3>1. d \in 1..Len(t) /\ tt[d] = t[d]
      BY <1>3, <2>2
    <3>2. \A x \in 1..Len(t[d]) : d \in 1..Len(p) /\ \E j \in 1..Len(p[d]) : t[d][x] = p[d][j].id
      BY <3>1, Zenon DEF Covers
    <3> QED
      BY <3>1, <3>2
  <2> QED
    BY <2>1, <2>2
<1>6. Covers(tt, p)
  BY <1>1, <1>3, <1>5 DEF Covers
<1> QED
  BY <1>3, <1>6

LEMMA AppendStep ==
  ASSUME PagesInv, cxEnd = "none", NEW k \in DOMAIN cxTabs, NEW c \in DOMAIN cxTabs[k].cols, HasColumn(k, c),
         NEW item \in Commands, Append2(k, c, item), cxMade' \in Nat
  PROVE  PagesInv'
<1> DEFINE p == cxStore[k].cols
           t == cxTabs[k].cols
           pp == [p EXCEPT ![c] = Append(p[c], item)]
           tt == [t EXCEPT ![c] = Append(t[c], item.id)]
           page == [cxStore[k] EXCEPT !.cols = pp]
           tab == [cxTabs[k] EXCEPT !.cols = tt]
<1>0. k \in 1..Len(cxStore)
  BY PageIs DEF HasColumn
<1>1. /\ cxStore[k] \in Pages /\ cxTabs[k] \in Tabs
      /\ p \in Seq(Seq(Commands)) /\ t \in Seq(Seq(Nat)) /\ Covers(t, p) /\ (~cxShort => Len(t) = Len(p))
      /\ cxNames \in Seq(PageNames) /\ k \in 1..Len(cxNames)
      /\ ~cxMixed => cxNames[k] = cxStore[k].own /\ cxTabs[k].name = cxStore[k].own
  BY <1>0, PageBefore
<1>2. cxStore' = [cxStore EXCEPT ![k] = page] /\ cxTabs' = [cxTabs EXCEPT ![k] = tab]
  BY DEF Append2
<1>3. /\ cxFile' = cxFile /\ cxMixed' = cxMixed /\ cxStray' = cxStray /\ cxEnd' = cxEnd
      /\ cxCurrent' = cxCurrent /\ cxNames' = cxNames /\ cxShort' = cxShort
  BY DEF Append2
<1>4. cxCurrent' \in Nat \ {0}
  BY <1>3 DEF PagesInv, PagesType
<1>20. c <= Len(p)
  BY DEF HasColumn
<1> HIDE DEF p
<1>21. c \in DOMAIN t
  OBVIOUS
<1> HIDE DEF t
<1>22. c \in 1..Len(p)
  BY <1>1, <1>20, <1>21
<1>5. /\ pp \in Seq(Seq(Commands)) /\ Len(pp) = Len(p)
      /\ tt \in Seq(Seq(Nat)) /\ Len(tt) = Len(t) /\ Covers(tt, pp)
  BY <1>1, <1>22, CoversAppend
<1> HIDE DEF pp, tt
<1>6. page \in Pages /\ page.own = cxStore[k].own /\ page.cols = pp
  BY <1>1, <1>5 DEF Pages, ColumnsOf
<1>7. tab \in Tabs /\ tab.name = cxTabs[k].name /\ tab.cols = tt
  BY <1>1, <1>5 DEF Tabs
<1> HIDE DEF page, tab
<1>8. TabOfPage(tab, page) /\ (~cxShort => Len(tab.cols) = Len(page.cols))
  BY <1>1, <1>5, <1>6, <1>7 DEF TabOfPage
<1>9. ~cxMixed => cxNames'[k] = page.own /\ tab.name = page.own
  BY <1>1, <1>3, <1>6, <1>7
<1>10. /\ cxNames' \in Seq(PageNames) /\ Len(cxNames') = Len(cxNames)
       /\ \A j \in 1..Len(cxNames) : j # k => cxNames'[j] = cxNames[j]
  BY <1>1, <1>3
<1> QED
  BY <1>0, <1>2, <1>3, <1>4, <1>6, <1>7, <1>8, <1>9, <1>10, ReplaceStep

LEMMA DeleteButtonStep ==
  ASSUME PagesInv, cxEnd = "none", NEW k \in DOMAIN cxTabs, NEW c \in DOMAIN cxTabs[k].cols,
         NEW i \in DOMAIN cxTabs[k].cols[c], DeleteCommandButton(k, c, i)
  PROVE  PagesInv'
<1> DEFINE p == cxStore[k].cols
           t == cxTabs[k].cols
           tt == [t EXCEPT ![c] = RemoveAt(t[c], i)]
           page == cxStore[k]
           tab == [cxTabs[k] EXCEPT !.cols = tt]
<1>0. k \in 1..Len(cxStore)
  <2>1. Len(cxStore) \in Nat /\ Len(cxTabs) \in Nat /\ k \in 1..Len(cxTabs)
    BY PagesBefore
  <2>2. k > Len(cxStore) => cxTabs[k].cols = <<>>
    BY <2>1 DEF PagesInv, TabsOfPages, RestIsEmpty
  <2>3. cxTabs[k].cols # <<>>
    OBVIOUS
  <2> QED
    BY <2>1, <2>2, <2>3
<1>1. /\ page \in Pages /\ cxTabs[k] \in Tabs
      /\ p \in Seq(Seq(Commands)) /\ t \in Seq(Seq(Nat)) /\ Covers(t, p) /\ (~cxShort => Len(t) = Len(p))
      /\ cxNames \in Seq(PageNames) /\ k \in 1..Len(cxNames)
      /\ ~cxMixed => cxNames[k] = page.own /\ cxTabs[k].name = page.own
  BY <1>0, PageBefore
<1>2. cxTabs' = [cxTabs EXCEPT ![k] = tab]
  BY DEF DeleteCommandButton
<1>3. cxStore' = [cxStore EXCEPT ![k] = page]
  <2>1. cxStore' = cxStore /\ cxStore \in Seq(Pages)
    BY DEF DeleteCommandButton, PagesInv, PagesType
  <2> QED
    BY <2>1
<1>4. /\ cxFile' = cxFile /\ cxMixed' = cxMixed /\ cxStray' = cxStray /\ cxEnd' = cxEnd
      /\ cxCurrent' = cxCurrent /\ cxNames' = cxNames /\ cxMade' = cxMade /\ cxShort' = cxShort
  BY DEF DeleteCommandButton, cxPast
<1>5. cxCurrent' \in Nat \ {0} /\ cxMade' \in Nat
  BY <1>4 DEF PagesInv, PagesType
<1>6. c \in 1..Len(t) /\ i \in 1..Len(t[c])
  <2>1. i \in DOMAIN t[c] /\ c \in DOMAIN t
    OBVIOUS
  <2> HIDE DEF t
  <2>2. c \in 1..Len(t) /\ t[c] \in Seq(Nat)
    BY <1>1, <2>1
  <2> QED
    BY <2>1, <2>2
<1>7. p = page.cols
  OBVIOUS
<1> HIDE DEF p, t
<1>8. tt \in Seq(Seq(Nat)) /\ Len(tt) = Len(t) /\ Covers(tt, p)
  BY <1>1, <1>6, CoversRemove
<1> HIDE DEF tt
<1>9. tab \in Tabs /\ tab.name = cxTabs[k].name /\ tab.cols = tt
  BY <1>1, <1>8 DEF Tabs
<1> HIDE DEF page, tab
<1>10. TabOfPage(tab, page) /\ (~cxShort => Len(tab.cols) = Len(page.cols))
  BY <1>1, <1>7, <1>8, <1>9 DEF TabOfPage
<1>11. ~cxMixed => cxNames'[k] = page.own /\ tab.name = page.own
  BY <1>1, <1>4, <1>9
<1>12. /\ cxNames' \in Seq(PageNames) /\ Len(cxNames') = Len(cxNames)
       /\ \A j \in 1..Len(cxNames) : j # k => cxNames'[j] = cxNames[j]
  BY <1>1, <1>4
<1> QED
  BY <1>0, <1>1, <1>2, <1>3, <1>4, <1>5, <1>9, <1>10, <1>11, <1>12, ReplaceStep

LEMMA OnEmptyColumnStep ==
  ASSUME PagesInv, cxEnd = "none", NEW k \in DOMAIN cxTabs, NEW c \in DOMAIN cxTabs[k].cols, OnEmptyColumn(k, c)
  PROVE  PagesInv'
<1>1. cxShort
  BY MissingIsShort DEF OnEmptyColumn
<1>2. /\ Undefined /\ cxFile' = cxFile /\ cxMixed' = cxMixed /\ cxMade' = cxMade
      /\ cxCurrent' = cxCurrent /\ cxStray' = cxStray
  BY DEF OnEmptyColumn
<1>3. cxCurrent' \in Nat \ {0} /\ cxStray' \in BOOLEAN
  BY <1>2 DEF PagesInv, PagesType
<1> QED
  BY <1>1, <1>2, <1>3, UndefinedStep

(* AddCol and DeleteCol. *)
LEMMA ColumnsStep ==
  ASSUME PagesInv, cxEnd = "none", NEW k, ColumnMenu(k), cxCurrent <= Len(cxStore),
         NEW cols \in ColumnsOf,
         SaveToTempAndReload([cxStore EXCEPT ![cxCurrent].cols = cols], cxNames)
  PROVE  PagesInv'
<1>1. PagesType /\ Paired(cxStore, cxNames) /\ Len(cxStore) \in Nat
  BY PagesBefore DEF PagesInv
<1>2. cxCurrent \in 1..Len(cxStore)
  BY <1>1 DEF PagesType
<1>3. Paired([cxStore EXCEPT ![cxCurrent].cols = cols], cxNames)
  BY <1>1, <1>2, PairedColumns
<1>4. /\ cxStray' \in BOOLEAN /\ cxFile' = cxFile /\ cxMixed' = cxMixed
      /\ cxMade' \in Nat /\ cxCurrent' \in Nat \ {0}
  BY <1>1 DEF ColumnMenu, PagesType
<1> QED
  BY <1>3, <1>4, ReloadKeeps

LEMMA ColStep ==
  ASSUME PagesInv, cxEnd = "none", NEW k \in DOMAIN cxTabs, NEW c \in DOMAIN cxTabs[k].cols,
         AddCol(k, c) \/ DeleteCol(k, c)
  PROVE  PagesInv'
<1>1. ColumnMenu(k) /\ PagesType
  BY DEF AddCol, DeleteCol, PagesInv
<1>2. CASE ~HasColumn(cxCurrent, c)
  <2>1. Undefined
    BY <1>2 DEF AddCol, DeleteCol
  <2>2. /\ cxStray' = (cxStray \/ cxCurrent # k) /\ cxFile' = cxFile /\ cxCurrent' = cxCurrent
        /\ cxMade' = cxMade /\ cxMixed' = cxMixed
    BY <1>1 DEF ColumnMenu
  <2>3. cxStray' \in BOOLEAN /\ cxCurrent' \in Nat \ {0}
    BY <1>1, <2>2 DEF PagesType
  <2>4. cxCurrent # k \/ cxShort
    BY <1>2, MissingIsShort
  <2>5. cxStray' \/ cxShort
    BY <2>2, <2>4, Zenon
  <2> QED
    BY <2>1, <2>2, <2>3, <2>5, UndefinedStep
<1>3. CASE HasColumn(cxCurrent, c)
  <2>1. Len(cxStore) \in Nat /\ cxCurrent \in Nat \ {0} /\ cxCurrent <= Len(cxStore)
    BY <1>1, <1>3, PagesBefore DEF PagesType, HasColumn, HasPage
  <2>2. cxCurrent \in 1..Len(cxStore)
    BY <2>1
  <2> DEFINE p == cxStore[cxCurrent].cols
             added == InsertAt(p, c + 1, <<>>)
             deleted == RemoveAt(p, c)
  <2>3. p \in Seq(Seq(Commands))
    BY <2>2, PageBefore
  <2>4. c \in Nat \ {0}
    <3>1. cxTabs \in Seq(Tabs)
      BY <1>1 DEF PagesType
    <3>2. cxTabs[k] \in Tabs
      BY <3>1
    <3>3. cxTabs[k].cols \in Seq(Seq(Nat))
      BY <3>2 DEF Tabs
    <3> QED
      BY <3>3
  <2>5. c \in 1..Len(p) /\ c + 1 \in 1..(Len(p) + 1)
    <3>1. Len(p) \in Nat /\ c <= Len(p)
      BY <1>3, <2>3 DEF HasColumn
    <3> HIDE DEF p
    <3> QED
      BY <2>4, <3>1
  <2>6. CASE AddCol(k, c)
    <3>1. SaveToTempAndReload([cxStore EXCEPT ![cxCurrent].cols = added], cxNames)
      BY <1>3, <2>6 DEF AddCol
    <3> HIDE DEF p
    <3>2. added \in ColumnsOf
      <4>0. <<>> \in Seq(Commands)
        OBVIOUS
      <4> DEFINE none == <<>>
      <4>1. none \in Seq(Commands)
        BY <4>0
      <4> HIDE DEF none
      <4>2. IsInserted(InsertAt(p, c + 1, none), p, c + 1, none, Seq(Commands))
        BY <2>3, <2>5, <4>1, Inserted
      <4> QED
        BY <4>2 DEF IsInserted, ColumnsOf, none
    <3> HIDE DEF added
    <3> QED
      BY <1>1, <2>1, <3>1, <3>2, ColumnsStep
  <2>7. CASE DeleteCol(k, c)
    <3>1. SaveToTempAndReload([cxStore EXCEPT ![cxCurrent].cols = deleted], cxNames)
      BY <1>3, <2>7 DEF DeleteCol
    <3> HIDE DEF p
    <3>2. deleted \in ColumnsOf
      <4>1. IsRemoved(RemoveAt(p, c), p, c, Seq(Commands))
        BY <2>3, <2>5, Removed
      <4> QED
        BY <4>1 DEF IsRemoved, ColumnsOf
    <3> HIDE DEF deleted
    <3> QED
      BY <1>1, <2>1, <3>1, <3>2, ColumnsStep
  <2> QED
    BY <2>6, <2>7
<1> QED
  BY <1>2, <1>3

(* Cmds.xml. *)
LEMMA SaveStep ==
  ASSUME PagesInv, cxEnd = "none", Save
  PROVE  PagesInv'
<1>1. PagesType /\ TabsOfPages /\ NamesOfPages /\ RangeNeedsStray /\ Paired(cxStore, cxNames)
  BY PagesBefore DEF PagesInv
<1> DEFINE f == Saved(cxStore, cxNames)
<1>0. IsSaved(f, cxStore, cxNames)
  BY <1>1, SavedIs
<1>3. /\ cxFile' = f /\ cxStore' = cxStore /\ cxNames' = cxNames /\ cxTabs' = cxTabs /\ cxCurrent' = cxCurrent
      /\ cxMade' = cxMade /\ cxMixed' = cxMixed /\ cxStray' = cxStray /\ cxEnd' = cxEnd /\ cxShort' = cxShort
  BY DEF Save, cxPast
<1> HIDE DEF f
<1>2. /\ f \in Files /\ Len(f.page) = Len(cxStore)
      /\ \A k \in 1..Len(cxStore) : f.page[k].name = cxNames[k] /\ f.page[k].own = cxStore[k].own
  BY <1>0 DEF IsSaved
<1>4. PagesType'
  BY <1>1, <1>2, <1>3 DEF PagesType
<1>5. TabsOfPages' /\ NamesOfPages' /\ RangeNeedsStray'
  BY <1>1, <1>3 DEF TabsOfPages, NamesOfPages, RangeNeedsStray
<1>6. NamesInFile'
  BY <1>1, <1>2, <1>3 DEF NamesInFile, OwnNames, Paired
<1> QED
  BY <1>4, <1>5, <1>6 DEF PagesInv

(* Any file that is loaded. *)
LEMMA FileIs ==
  ASSUME PagesInv, NEW file \in CmdFiles \cup {cxFile}
  PROVE  /\ file \in Files /\ file.page \in Seq(PagesInFile) /\ Len(file.page) \in Nat
         /\ (~cxMixed => OwnNames(file)) /\ IsShort(file) \in BOOLEAN
<1>1. PagesType /\ NamesInFile
  BY DEF PagesInv
<1>2. CASE file \in CmdFiles
  <2>1. file \in Files /\ \A k \in DOMAIN file.page : file.page[k].own = file.page[k].name
    BY <1>2, CmdFilesAssumption DEF Files
  <2>2. file.page \in Seq(PagesInFile)
    BY <2>1 DEF Files
  <2>3. OwnNames(file)
    BY <2>1, <2>2 DEF OwnNames
  <2> QED
    BY <2>1, <2>2, <2>3 DEF IsShort
<1>3. CASE file = cxFile
  <2>1. file \in Files /\ (~cxMixed => OwnNames(file))
    BY <1>1, <1>3 DEF PagesType, NamesInFile
  <2>2. file.page \in Seq(PagesInFile)
    BY <2>1 DEF Files
  <2> QED
    BY <2>1, <2>2 DEF IsShort
<1> QED
  BY <1>2, <1>3

(* The first pages of a file get their names when Cmds.xml is not loaded     *)
(* over others.                                                              *)
LEMMA NamesKept ==
  ASSUME PagesInv, NEW file \in CmdFiles \cup {cxFile}, Reloading(file),
         NEW pages, Len(pages) <= Len(file.page), \A k \in 1..Len(pages) : pages[k] = file.page[k],
         NEW names, NamesAfter(names, cxNames, pages)
  PROVE  /\ NamesInFile'
         /\ ~cxMixed' => \A k \in 1..Len(pages) : names[k] = pages[k].own /\ pages[k].name = pages[k].own
<1> DEFINE n == NamesOf(file.page)
<1>1. /\ cxNames \in Seq(PageNames) /\ cxMixed \in BOOLEAN /\ Len(cxNames) \in Nat
      /\ Len(file.page) \in Nat /\ Len(pages) \in Nat /\ file.page \in Seq(PagesInFile) /\ (~cxMixed => OwnNames(file))
  <2>1. cxNames \in Seq(PageNames) /\ cxMixed \in BOOLEAN
    BY DEF PagesInv, PagesType
  <2> QED
    BY <2>1, FileIs DEF NamesAfter
<1>2. n \in Seq(PageNames) /\ Len(n) = Len(file.page) /\ \A k \in 1..Len(file.page) : n[k] = file.page[k].name
  <2>1. DOMAIN file.page = 1..Len(file.page) /\ \A k \in 1..Len(file.page) : file.page[k].name \in PageNames
    BY <1>1, PagesOf
  <2> QED
    BY <1>1, <2>1 DEF NamesOf
<1>3. cxFile' = file /\ cxMixed' = (cxMixed \/ (cxNames # <<>> /\ ~IsPrefix(n, cxNames)))
  BY DEF Reloading
<1> HIDE DEF n
<1>4. ~cxMixed' => ~cxMixed /\ (cxNames = <<>> \/ IsPrefix(n, cxNames))
  BY <1>3, Zenon
<1>5. NamesInFile'
  BY <1>1, <1>3, <1>4 DEF NamesInFile, OwnNames
<1>6. ASSUME ~cxMixed', NEW k \in 1..Len(pages)
      PROVE  names[k] = pages[k].own /\ pages[k].name = pages[k].own
  <2>1. k \in 1..Len(file.page) /\ pages[k] = file.page[k] /\ pages[k].name = pages[k].own
    BY <1>1, <1>4, <1>6 DEF OwnNames
  <2>2. CASE cxNames = <<>>
    <3>1. names[0 + k] = pages[k].name
      BY <1>6, <2>2 DEF NamesAfter
    <3> QED
      BY <2>1, <3>1
  <2>3. CASE IsPrefix(n, cxNames)
    <3>1. Len(n) <= Len(cxNames) /\ SubSeq(n, 1, Len(n)) = SubSeq(cxNames, 1, Len(n))
      BY <2>3 DEF IsPrefix
    <3>2. SubSeq(n, 1, Len(n))[k] = n[k]
      BY <1>2, <2>1
    <3>3. SubSeq(cxNames, 1, Len(n))[k] = cxNames[k]
      BY <1>1, <1>2, <2>1, <3>1
    <3>4. k \in 1..Len(cxNames)
      BY <1>1, <1>2, <2>1, <3>1
    <3>5. names[k] = cxNames[k]
      BY <3>4 DEF NamesAfter
    <3> QED
      BY <1>2, <2>1, <3>1, <3>2, <3>3, <3>5
  <2> QED
    BY <1>4, <1>6, <2>2, <2>3
<1> QED
  BY <1>5, <1>6

LEMMA ReloadStep ==
  ASSUME PagesInv, cxEnd = "none", Reload
  PROVE  PagesInv'
<1>1. PICK file \in CmdFiles \cup {cxFile} : Reloading(file) /\ Load(file, cxNames) /\ cxEnd' = cxEnd
  BY DEF Reload
<1>2. PagesType /\ cxNames \in Seq(PageNames) /\ Len(cxNames) \in Nat
  BY DEF PagesInv, PagesType
<1> DEFINE pages == file.page
<1>3. file \in Files /\ pages \in Seq(PagesInFile) /\ Len(pages) \in Nat /\ IsShort(file) \in BOOLEAN
  BY FileIs
<1>4. /\ cxFile' = file /\ cxCurrent' = cxCurrent /\ cxMade' = cxMade /\ cxStray' = cxStray
      /\ cxShort' = IsShort(file) /\ cxMixed' \in BOOLEAN
  BY <1>1, <1>2 DEF Reloading, Load, PagesType
<1>5. IsLoaded(cxStore', cxTabs', pages) /\ NamesAfter(cxNames', cxNames, pages) /\ TabsToo(cxTabs', file, cxStore')
  BY <1>1, <1>2, <1>3, LoadIs
<1>6. /\ NamesInFile'
      /\ ~cxMixed' => \A k \in 1..Len(pages) : cxNames'[k] = pages[k].own /\ pages[k].name = pages[k].own
  BY <1>1, <1>3, <1>5, NamesKept
<1> HIDE DEF pages
<1>7. cxNames' \in Seq(PageNames) /\ Len(pages) <= Len(cxNames')
  BY <1>2, <1>3, <1>5 DEF NamesAfter
<1>8. RestIsEmpty(cxStore', cxTabs') /\ (~cxShort' => NoRest(cxStore', cxTabs'))
  BY <1>4, <1>5 DEF TabsToo
<1>9. /\ cxCurrent' \in Nat \ {0} /\ cxMade' \in Nat /\ cxStray' \in BOOLEAN /\ cxShort' \in BOOLEAN
      /\ cxEnd' \in {"none", "load"} /\ cxFile' \in Files
  BY <1>1, <1>2, <1>3, <1>4 DEF PagesType
<1> QED
  BY <1>2, <1>4, <1>5, <1>6, <1>7, <1>8, <1>9, LoadedKeeps

LEMMA BegunIs ==
  ASSUME NEW p \in PagesInFile, NEW named, NEW tab \in BegunTabs(p, named)
  PROVE  tab \in Tabs
<1>1. CASE tab = Untitled
  BY <1>1, EmptyColumnIsIn
<1>2. CASE \E c \in 0..Len(p.cols) : tab = Begun(p, c)
  <2>1. PICK c \in 0..Len(p.cols) : tab = Begun(p, c)
    BY <1>2
  <2> DEFINE q == p.cols
             cols == [d \in DOMAIN q |-> IF d <= c THEN q[d] ELSE <<>>]
             begun == [p EXCEPT !.cols = cols]
             name == Untitled.name
  <2>2. q \in Seq(Seq(Commands)) /\ p.name \in PageNames /\ p.more \in Nat
    BY DEF PagesInFile, ColumnsOf
  <2>3. name \in PageNames
    BY EmptyColumnIsIn DEF Tabs
  <2>4. tab = [Tab(begun) EXCEPT !.name = name]
    BY <2>1 DEF Begun
  <2>5. begun.cols = cols /\ begun.name = p.name /\ begun.more = p.more
    BY DEF PagesInFile
  <2> HIDE DEF q, begun, name
  <2>6. cols \in ColumnsOf
    <3>1. DOMAIN q = 1..Len(q) /\ Len(q) \in Nat /\ \A d \in 1..Len(q) : q[d] \in Seq(Commands)
      BY <2>2
    <3>2. <<>> \in Seq(Commands)
      OBVIOUS
    <3>3. \A d \in 1..Len(q) : (IF d <= c THEN q[d] ELSE <<>>) \in Seq(Commands)
      BY <3>1, <3>2
    <3>4. cols = [d \in 1..Len(q) |-> IF d <= c THEN q[d] ELSE <<>>]
      BY <3>1
    <3> HIDE DEF cols
    <3>5. cols \in Seq(Seq(Commands))
      BY <3>1, <3>3, <3>4
    <3> QED
      BY <3>5 DEF ColumnsOf
  <2> HIDE DEF cols
  <2>7. Tab(begun) \in Tabs
    BY <2>2, <2>5, <2>6, TabIs
  <2> QED
    BY <2>3, <2>4, <2>7 DEF Tabs
<1> QED
  BY <1>1, <1>2 DEF BegunTabs

(* A loading that throws: the pages before it are loaded. *)
LEMMA ThrowStep ==
  ASSUME PagesInv, NEW file \in CmdFiles \cup {cxFile}, Reloading(file), LoadThrows(file, cxNames), cxEnd' = "load"
  PROVE  PagesInv'
<1> DEFINE whole == file.page
           many == Len(whole)
<1>1. whole \in Seq(PagesInFile) /\ many \in Nat /\ DOMAIN whole = 1..many /\ file.more \in Nat /\ file \in Files
  <2>1. file \in Files /\ whole \in Seq(PagesInFile)
    BY FileIs
  <2> QED
    BY <2>1 DEF Files
<1>2. PagesType /\ cxNames \in Seq(PageNames) /\ Len(cxNames) \in Nat
  BY DEF PagesInv, PagesType
<1>3. PICK at \in DOMAIN whole, named \in {0, 1} : \E tab \in BegunTabs(whole[at], named) :
        /\ cxLoads' = cxLoads + 1 /\ cxShort' = TRUE
        /\ cxStore' = Loaded(SubSeq(whole, 1, at - 1))
        /\ cxNames' = cxNames \o NamesOf(SubSeq(whole, 1, at - 1 + named))
        /\ cxTabs' = Append(TabsOf(SubSeq(whole, 1, at - 1)), tab) \o NoneOf(Untitled, many + file.more - at)
  BY DEF LoadThrows
<1>4. PICK tab \in BegunTabs(whole[at], named) :
        /\ cxShort' = TRUE
        /\ cxStore' = Loaded(SubSeq(whole, 1, at - 1))
        /\ cxNames' = cxNames \o NamesOf(SubSeq(whole, 1, at - 1 + named))
        /\ cxTabs' = Append(TabsOf(SubSeq(whole, 1, at - 1)), tab) \o NoneOf(Untitled, many + file.more - at)
  BY <1>3
<1> DEFINE pages == SubSeq(whole, 1, at - 1)
           more == SubSeq(whole, 1, at - 1 + named)
           s == TabsOf(pages)
           b == Append(s, tab)
           n == many + file.more - at
           tabs == b \o NoneOf(Untitled, n)
<1>5. /\ at \in 1..many /\ whole[at] \in PagesInFile
  BY <1>1
<1>6. tab \in Tabs
  BY <1>5, BegunIs
<1>7. /\ pages \in Seq(PagesInFile) /\ Len(pages) = at - 1 /\ \A k \in 1..(at - 1) : pages[k] = whole[k]
  BY <1>1, <1>5
<1>8. /\ more \in Seq(PagesInFile) /\ Len(more) = at - 1 + named
      /\ \A k \in 1..(at - 1 + named) : more[k] = whole[k]
  <2>1. at - 1 + named \in 0..many
    BY <1>1, <1>5
  <2> QED
    BY <1>1, <2>1
<1>9. cxStore' = Loaded(pages) /\ cxNames' = cxNames \o NamesOf(more) /\ cxTabs' = tabs /\ cxShort' = TRUE
  BY <1>4
<1> HIDE DEF pages, more
<1>10. s \in Seq(Tabs) /\ Len(s) = Len(pages)
  BY <1>7, TabsOfIs
<1>11. s = TabsOf(pages) /\ n \in Nat
  BY <1>1, <1>5
<1> HIDE DEF s
<1>12. b \in Seq(Tabs) /\ Len(b) = Len(pages) + 1 /\ \A k \in 1..Len(pages) : b[k] = s[k]
  BY <1>6, <1>10
<1> HIDE DEF b, n, whole, many
<1>13. IsPadded(tabs, b, Untitled, n, Tabs)
  BY <1>11, <1>12, EmptyColumnIsIn, PaddedIs, Zenon
<1> HIDE DEF tabs
<1>14. Len(pages) \in Nat /\ Len(pages) <= Len(tabs) /\ tabs \in Seq(Tabs)
       /\ \A k \in 1..Len(pages) : tabs[k] = s[k]
  <2>1. Len(pages) \in Nat
    BY <1>7
  <2>2. Len(tabs) = Len(b) + n /\ tabs \in Seq(Tabs) /\ \A k \in 1..Len(b) : tabs[k] = b[k]
    BY <1>13 DEF IsPadded
  <2>3. \A k \in 1..Len(pages) : k \in 1..Len(b)
    BY <1>12, <2>1
  <2> QED
    BY <1>11, <1>12, <2>1, <2>2, <2>3
<1>15. IsLoaded(cxStore', cxTabs', pages)
  BY <1>7, <1>9, <1>11, <1>14, LoadedIs
<1>16. NamesAfter(cxNames', cxNames, pages)
  <2>1. NamesAfter(cxNames', cxNames, more)
    BY <1>2, <1>8, <1>9, NamesAfterIs
  <2>2. Len(pages) <= Len(more) /\ \A k \in 1..Len(pages) : k \in 1..Len(more) /\ more[k] = pages[k]
    BY <1>1, <1>5, <1>7, <1>8
  <2>3. Len(cxNames) + Len(pages) <= Len(cxNames')
    BY <1>14, <2>1, <2>2 DEF NamesAfter
  <2> QED
    BY <1>14, <2>1, <2>2, <2>3 DEF NamesAfter
<1>17. Len(pages) <= Len(whole) /\ \A k \in 1..Len(pages) : pages[k] = whole[k]
  BY <1>1, <1>5, <1>7 DEF many
<1>18. /\ NamesInFile'
       /\ ~cxMixed' => \A k \in 1..Len(pages) : cxNames'[k] = pages[k].own /\ pages[k].name = pages[k].own
  BY <1>16, <1>17, NamesKept DEF whole
<1>19. /\ cxFile' = file /\ cxCurrent' = cxCurrent /\ cxMade' = cxMade /\ cxStray' = cxStray /\ cxMixed' \in BOOLEAN
  BY <1>2 DEF Reloading, PagesType
<1>20. cxNames' \in Seq(PageNames) /\ Len(pages) <= Len(cxNames')
  BY <1>2, <1>14, <1>16 DEF NamesAfter
<1>21. /\ cxCurrent' \in Nat \ {0} /\ cxMade' \in Nat /\ cxStray' \in BOOLEAN /\ cxShort' \in BOOLEAN
       /\ cxEnd' \in {"none", "load"} /\ cxFile' \in Files /\ ~(cxEnd' # "load")
  BY <1>1, <1>2, <1>9, <1>19 DEF PagesType
<1> QED
  BY <1>2, <1>15, <1>18, <1>19, <1>20, <1>21, LoadedKeeps

LEMMA ReloadFailsStep ==
  ASSUME PagesInv, cxEnd = "none", ReloadFails
  PROVE  PagesInv'
<1>1. PagesType /\ NamesInFile /\ cxEnd' = "load"
  BY DEF PagesInv, ReloadFails
<1>2. CASE /\ cxStore' = <<>>
           /\ UNCHANGED <<cxNames, cxTabs, cxFile, cxCurrent, cxMade, cxLoads, cxShort, cxMixed, cxStray>>
  <2>1. <<>> \in Seq(Pages) /\ Len(<<>>) = 0
    OBVIOUS
  <2>2. PagesType'
    BY <1>1, <1>2, <2>1 DEF PagesType
  <2>3. Len(cxTabs) \in Nat /\ Len(cxNames) \in Nat
    BY <1>1 DEF PagesType
  <2>4. TabsOfPages' /\ NamesOfPages' /\ RangeNeedsStray' /\ NamesInFile'
    BY <1>1, <1>2, <2>1, <2>3 DEF TabsOfPages, NamesOfPages, RangeNeedsStray, NamesInFile, OwnNames
  <2> QED
    BY <2>2, <2>4 DEF PagesInv
<1>3. CASE \E file \in CmdFiles \cup {cxFile} : Reloading(file) /\ LoadThrows(file, cxNames)
  BY <1>1, <1>3, ThrowStep
<1> QED
  BY <1>2, <1>3 DEF ReloadFails

LEMMA PagesStart == CmdPagesInit => PagesInv
<1> SUFFICES ASSUME CmdPagesInit PROVE PagesInv
  OBVIOUS
<1> DEFINE none == <<>>
<1>1. none \in Seq(Pages) /\ none \in Seq(PageNames) /\ none \in Seq(Tabs) /\ Len(none) = 0
  OBVIOUS
<1>2. /\ cxFile \in CmdFiles /\ cxStore = none /\ cxNames = none /\ cxTabs = none /\ cxCurrent = 1 /\ cxMade = 2
      /\ cxShort = FALSE /\ cxMixed = FALSE /\ cxStray = FALSE /\ cxEnd = "none"
  BY DEF CmdPagesInit
<1> HIDE DEF none
<1>3. cxFile \in Files /\ OwnNames(cxFile)
  <2>1. cxFile \in Files /\ \A k \in DOMAIN cxFile.page : cxFile.page[k].own = cxFile.page[k].name
    BY <1>2, CmdFilesAssumption DEF Files
  <2>2. cxFile.page \in Seq(PagesInFile)
    BY <2>1 DEF Files
  <2> QED
    BY <2>1, <2>2 DEF OwnNames
<1>4. cxShort \in BOOLEAN /\ cxMixed \in BOOLEAN /\ cxStray \in BOOLEAN
  BY <1>2, Zenon
<1>5. cxCurrent \in Nat \ {0} /\ cxMade \in Nat
  BY <1>2
<1>6. PagesType
  BY <1>1, <1>2, <1>3, <1>4, <1>5 DEF PagesType
<1>7. TabsOfPages
  BY <1>1, <1>2 DEF TabsOfPages, RestIsEmpty, NoRest
<1>8. NamesOfPages /\ NamesInFile /\ RangeNeedsStray
  BY <1>1, <1>2, <1>3 DEF NamesOfPages, NamesInFile, RangeNeedsStray
<1> QED
  BY <1>6, <1>7, <1>8 DEF PagesInv

LEMMA PagesStep == PagesInv /\ [CmdPagesNext]_cxVars => PagesInv'
<1> SUFFICES ASSUME PagesInv, [CmdPagesNext]_cxVars PROVE PagesInv'
  OBVIOUS
<1>1. CASE UNCHANGED cxVars
  BY <1>1 DEF cxVars, cxData, cxPast, PagesInv, PagesType, TabsOfPages, NamesOfPages, NamesInFile, RangeNeedsStray
<1>2. CASE CmdPagesNext
  <2>1. cxEnd = "none" /\ cxMade \in Nat
    BY <1>2 DEF CmdPagesNext, PagesInv, PagesType
  <2>2. CASE \E k \in DOMAIN cxTabs : AddPage(k) \/ CopyPage(k, k) \/ CopyPage(k, k + 1) \/ DeletePage(k)
                                      \/ Rename(k) \/ OnEmptyTab(k)
    BY <2>1, <2>2, AddPageStep, CopyPageStep, DeletePageStep, RenameStep, OnEmptyTabStep
  <2>3. CASE \E k \in DOMAIN cxTabs : \E c \in DOMAIN cxTabs[k].cols :
               AddCommand(k, c) \/ AddSeparator(k, c) \/ OnEmptyColumn(k, c)
    <3>1. PICK k \in DOMAIN cxTabs : \E c \in DOMAIN cxTabs[k].cols :
            AddCommand(k, c) \/ AddSeparator(k, c) \/ OnEmptyColumn(k, c)
      BY <2>3
    <3>2. PICK c \in DOMAIN cxTabs[k].cols : AddCommand(k, c) \/ AddSeparator(k, c) \/ OnEmptyColumn(k, c)
      BY <3>1
    <3>3. CASE AddCommand(k, c)
      <4> DEFINE item == Command(cxMade + 1)
      <4>1. item \in Commands /\ Append2(k, c, item) /\ cxMade' \in Nat /\ HasColumn(k, c)
        BY <2>1, <3>3 DEF AddCommand, Command, Commands
      <4> HIDE DEF item
      <4> QED
        BY <2>1, <4>1, AppendStep
    <3>4. CASE AddSeparator(k, c)
      <4>1. Separator \in Commands /\ Append2(k, c, Separator) /\ cxMade' \in Nat /\ HasColumn(k, c)
        BY <2>1, <3>4 DEF AddSeparator, Separator, Commands
      <4> QED
        BY <2>1, <4>1, AppendStep
    <3>5. CASE OnEmptyColumn(k, c)
      BY <2>1, <3>5, OnEmptyColumnStep
    <3> QED
      BY <3>2, <3>3, <3>4, <3>5
  <2>4. CASE \E k \in DOMAIN cxTabs : \E c \in DOMAIN cxTabs[k].cols : AddCol(k, c) \/ DeleteCol(k, c)
    BY <2>1, <2>4, ColStep
  <2>5. CASE \E k \in DOMAIN cxTabs : \E c \in DOMAIN cxTabs[k].cols : \E i \in DOMAIN cxTabs[k].cols[c] :
               DeleteCommandButton(k, c, i)
    BY <2>1, <2>5, DeleteButtonStep
  <2>6. CASE Save \/ Reload \/ ReloadFails
    BY <2>1, <2>6, SaveStep, ReloadStep, ReloadFailsStep
  <2> QED
    BY <1>2, <2>2, <2>3, <2>4, <2>5, <2>6, Zenon DEF CmdPagesNext
<1> QED
  BY <1>1, <1>2

-----------------------------------------------------------------------------
(* CmdParams, for every set of values and of texts: what a save writes, and  *)
(* what a run substitutes.                                                   *)

Holes == [gap : Nat, val : Values]
HoleTexts == [holes : Seq(Holes), tail : Nat]
ParamsType ==
  /\ cpText \in HoleTexts /\ cpParams \in Seq(Values) /\ cpSaved \in Seq(Values) /\ cpFits \in BOOLEAN
ParamsInv == ParamsType /\ SavedInPlace

(* The text before the placeholders is that of the ones before and their     *)
(* gaps.                                                                     *)
IsBefore(h) ==
  /\ Before(h, 1) = 0
  /\ \A i \in 1..(Len(h) + 1) : Before(h, i) \in Nat
  /\ \A i \in 1..Len(h) : Before(h, i + 1) = Before(h, i) + h[i].gap + Hole(h[i])

LEMMA HoleIs ==
  ASSUME NEW x \in Holes
  PROVE  x.gap \in Nat /\ x.val \in Values /\ Width(x.val) \in Nat /\ Hole(x) = Width(x.val) + 12
BY ParamsAssumption DEF Holes, Hole, Opening, Closing

LEMMA BeforeIs ==
  ASSUME NEW h \in Seq(Holes)
  PROVE  IsBefore(h)
<1> DEFINE lens == [k \in 1..Len(h) |-> h[k].gap + Hole(h[k])]
           sum == SumsTo(lens)
<1>1. Len(h) \in Nat /\ \A k \in 1..Len(h) : h[k] \in Holes
  OBVIOUS
<1>2. \A k \in 1..Len(h) : h[k].gap + Hole(h[k]) \in Nat
  BY <1>1, HoleIs
<1>3. lens \in Seq(Nat) /\ Len(lens) = Len(h) /\ \A k \in 1..Len(h) : lens[k] = h[k].gap + Hole(h[k])
  BY <1>1, <1>2
<1>4. \A i : Before(h, i) = sum[i - 1]
  BY DEF Before
<1> HIDE DEF lens
<1>5. /\ sum \in [0..Len(lens) -> Nat] /\ sum[0] = 0
      /\ \A n \in 1..Len(lens) : sum[n] = sum[n - 1] + lens[n]
  BY <1>3, SumsAre, Zenon
<1> HIDE DEF sum
<1>6. Before(h, 1) = 0
  BY <1>4, <1>5
<1>7. \A i \in 1..(Len(h) + 1) : Before(h, i) \in Nat
  <2> TAKE i \in 1..(Len(h) + 1)
  <2>1. i - 1 \in 0..Len(lens)
    BY <1>1, <1>3
  <2>2. sum[i - 1] \in Nat
    BY <1>5, <2>1
  <2>3. Before(h, i) = sum[i - 1]
    BY <1>4
  <2> QED
    BY <2>2, <2>3
<1>8. \A i \in 1..Len(h) : Before(h, i + 1) = Before(h, i) + h[i].gap + Hole(h[i])
  <2> TAKE i \in 1..Len(h)
  <2>1. i \in 1..Len(lens) /\ (i + 1) - 1 = i
    BY <1>1, <1>3
  <2>2. Before(h, i + 1) = sum[i] /\ Before(h, i) = sum[i - 1]
    BY <1>4, <2>1
  <2>3. sum[i] = sum[i - 1] + lens[i] /\ sum[i - 1] \in Nat
    <3>1. i - 1 \in 0..Len(lens)
      BY <2>1
    <3> QED
      BY <1>5, <2>1, <3>1
  <2>4. h[i].gap \in Nat /\ Hole(h[i]) \in Nat
    BY <1>1, HoleIs
  <2>5. lens[i] = h[i].gap + Hole(h[i])
    BY <1>3
  <2> DEFINE gap == h[i].gap hole == Hole(h[i]) last == sum[i - 1]
  <2>6. gap \in Nat /\ hole \in Nat /\ last \in Nat /\ Before(h, i) = last /\ Before(h, i + 1) = last + (gap + hole)
    BY <2>2, <2>3, <2>4, <2>5
  <2> HIDE DEF gap, hole, last
  <2>7. Before(h, i + 1) = Before(h, i) + gap + hole
    BY <2>6
  <2> QED
    BY <2>7 DEF gap, hole
<1> QED
  BY <1>6, <1>7, <1>8 DEF IsBefore

LEMMA BeforeAgree ==
  ASSUME NEW g \in Seq(Holes), NEW h \in Seq(Holes), Len(g) = Len(h), NEW n \in 0..Len(h),
         \A i \in 1..n : g[i] = h[i]
  PROVE  \A i \in 1..(n + 1) : Before(g, i) = Before(h, i)
<1>1. IsBefore(g) /\ IsBefore(h) /\ Len(h) \in Nat
  BY BeforeIs
<1> DEFINE Good == {i \in Nat : i <= n => Before(g, i + 1) = Before(h, i + 1)}
<1>2. 0 \in Good
  BY <1>1 DEF IsBefore
<1>3. ASSUME NEW i \in Nat, i \in Good PROVE i + 1 \in Good
  <2> SUFFICES ASSUME i + 1 <= n PROVE Before(g, (i + 1) + 1) = Before(h, (i + 1) + 1)
    OBVIOUS
  <2>1. i + 1 \in 1..n /\ i + 1 \in 1..Len(g) /\ i + 1 \in 1..Len(h)
    BY <1>1
  <2>2. Before(g, i + 1) = Before(h, i + 1) /\ g[i + 1] = h[i + 1]
    BY <1>3, <2>1
  <2> QED
    BY <1>1, <2>1, <2>2 DEF IsBefore
<1> HIDE DEF Good
<1>4. \A i \in Nat : i \in Good
  BY <1>2, <1>3, SetInduction
<1>5. ASSUME NEW i \in 1..(n + 1) PROVE Before(g, i) = Before(h, i)
  <2>1. i - 1 \in Nat /\ i - 1 <= n /\ (i - 1) + 1 = i
    BY <1>1
  <2>2. i - 1 \in Good
    BY <1>4, <2>1
  <2> QED
    BY <2>1, <2>2 DEF Good
<1> QED
  BY <1>5

LEMMA BeforeRises ==
  ASSUME NEW h \in Seq(Holes), NEW i \in 1..(Len(h) + 1)
  PROVE  \A j \in 1..(Len(h) + 1) : i <= j => Before(h, i) <= Before(h, j)
<1>1. IsBefore(h) /\ Len(h) \in Nat
  BY BeforeIs
<1> DEFINE Good == {d \in Nat : i + d <= Len(h) + 1 => Before(h, i) <= Before(h, i + d)}
<1>2. 0 \in Good
  BY <1>1 DEF IsBefore
<1>3. ASSUME NEW d \in Nat, d \in Good PROVE d + 1 \in Good
  <2> SUFFICES ASSUME i + (d + 1) <= Len(h) + 1 PROVE Before(h, i) <= Before(h, i + (d + 1))
    OBVIOUS
  <2>1. i + d \in 1..Len(h) /\ i + (d + 1) = (i + d) + 1 /\ i + d <= Len(h) + 1 /\ i + d \in 1..(Len(h) + 1)
    BY <1>1
  <2>2. Before(h, i) <= Before(h, i + d)
    BY <1>3, <2>1
  <2>3. Before(h, (i + d) + 1) = Before(h, i + d) + h[i + d].gap + Hole(h[i + d])
    BY <1>1, <2>1 DEF IsBefore
  <2>4. h[i + d].gap \in Nat /\ Hole(h[i + d]) \in Nat
    <3> DEFINE x == h[i + d]
    <3>1. x \in Holes
      BY <2>1
    <3> HIDE DEF x
    <3>2. x.gap \in Nat /\ Width(x.val) \in Nat /\ Hole(x) = Width(x.val) + 12
      BY <3>1, HoleIs
    <3>3. x.gap \in Nat /\ Hole(x) \in Nat
      BY <3>2
    <3> QED
      BY <3>3 DEF x
  <2>5. Before(h, i) \in Nat /\ Before(h, i + d) \in Nat
    BY <1>1, <2>1 DEF IsBefore
  <2> QED
    BY <2>1, <2>2, <2>3, <2>4, <2>5
<1> HIDE DEF Good
<1>4. \A d \in Nat : d \in Good
  BY <1>2, <1>3, SetInduction
<1>5. ASSUME NEW j \in 1..(Len(h) + 1), i <= j PROVE Before(h, i) <= Before(h, j)
  <2>1. j - i \in Nat /\ i + (j - i) = j /\ j <= Len(h) + 1
    BY <1>1, <1>5
  <2>2. j - i \in Good
    BY <1>4, <2>1
  <2> QED
    BY <2>1, <2>2 DEF Good
<1> QED
  BY <1>5

(* What a run substitutes. *)
LEMMA MinIs ==
  ASSUME NEW S, S \subseteq Nat, S # {}
  PROVE  Min(S) \in S /\ \A x \in S : Min(S) <= x
<1>1. PICK d \in S : \A e \in S : d <= e
  BY LeastOf
<1>2. Min(S) = CHOOSE x \in S : \A y \in S : x <= y
  BY DEF Min
<1> QED
  BY <1>1, <1>2

LEMMA Substitutes ==
  ASSUME NEW t \in HoleTexts, NEW params \in Seq(Values),
         \A i \in DOMAIN params \cap DOMAIN t.holes : Width(params[i]) <= Hole(t.holes[i])
  PROVE  Run(t, params).left = 0
<1> DEFINE h == t.holes
           value(i) == IF i \in DOMAIN params THEN params[i] ELSE h[i].val
           lens == [k \in 1..Len(h) |-> h[k].gap + Width(value(k))]
           put == SumsTo(lens)
           stops == {i \in DOMAIN h : put[i] >= LengthOf(t) - 1}
           done == IF stops = {} THEN Len(h) ELSE Min(stops)
<1>1. h \in Seq(Holes) /\ t.tail \in Nat
  BY DEF HoleTexts
<1>2. Run(t, params).left = Len(h) - done
  BY DEF Run
<1>3. LengthOf(t) = Before(h, Len(h) + 1) + t.tail
  BY DEF LengthOf
<1>4. \A i \in DOMAIN params \cap DOMAIN h : Width(params[i]) <= Hole(h[i])
  OBVIOUS
<1> HIDE DEF h
<1>5. IsBefore(h) /\ Len(h) \in Nat /\ DOMAIN h = 1..Len(h) /\ \A i \in 1..Len(h) : h[i] \in Holes
  BY <1>1, BeforeIs
<1>6. ASSUME NEW i \in 1..Len(h)
      PROVE  /\ Width(value(i)) \in Nat /\ Width(value(i)) <= Hole(h[i]) /\ Hole(h[i]) \in Nat /\ Hole(h[i]) >= 12
             /\ h[i].gap \in Nat
  <2>1. h[i].gap \in Nat /\ h[i].val \in Values /\ Width(h[i].val) \in Nat /\ Hole(h[i]) = Width(h[i].val) + 12
    BY <1>5, HoleIs
  <2>2. CASE i \in DOMAIN params
    <3>1. value(i) = params[i] /\ params[i] \in Values
      BY <2>2
    <3>2. Width(params[i]) \in Nat /\ Width(params[i]) <= Hole(h[i])
      BY <1>4, <1>5, <2>2, <3>1, ParamsAssumption
    <3> HIDE DEF value
    <3> QED
      BY <2>1, <3>1, <3>2
  <2>3. CASE i \notin DOMAIN params
    <3>1. value(i) = h[i].val
      BY <2>3
    <3> HIDE DEF value
    <3> QED
      BY <2>1, <3>1
  <2> QED
    BY <2>2, <2>3
<1> HIDE DEF value
<1>7. lens \in Seq(Nat) /\ Len(lens) = Len(h) /\ \A k \in 1..Len(h) : lens[k] = h[k].gap + Width(value(k))
  BY <1>5, <1>6
<1> HIDE DEF lens
<1>8. /\ put \in [0..Len(lens) -> Nat] /\ put[0] = 0
      /\ \A n \in 1..Len(lens) : put[n] = put[n - 1] + lens[n]
  BY <1>7, SumsAre, Zenon
<1> HIDE DEF put
<1> DEFINE Good == {n \in Nat : n <= Len(h) => put[n] <= Before(h, n + 1)}
<1>9. 0 \in Good
  BY <1>5, <1>8 DEF IsBefore
<1>10. ASSUME NEW n \in Nat, n \in Good PROVE n + 1 \in Good
  <2> SUFFICES ASSUME n + 1 <= Len(h) PROVE put[n + 1] <= Before(h, (n + 1) + 1)
    OBVIOUS
  <2>1. n + 1 \in 1..Len(h) /\ n \in 0..Len(lens) /\ n + 1 \in 1..(Len(h) + 1) /\ (n + 1) - 1 = n
    BY <1>5, <1>7
  <2>2. put[n] <= Before(h, n + 1) /\ put[n] \in Nat /\ Before(h, n + 1) \in Nat
    <3>1. n <= Len(h)
      BY <1>5, <2>1
    <3>2. put[n] <= Before(h, n + 1)
      BY <1>10, <3>1
    <3>3. put[n] \in Nat
      BY <1>8, <2>1
    <3>4. Before(h, n + 1) \in Nat
      BY <1>5, <2>1 DEF IsBefore
    <3> QED
      BY <3>2, <3>3, <3>4
  <2>3. put[n + 1] = put[n] + lens[n + 1] /\ lens[n + 1] = h[n + 1].gap + Width(value(n + 1))
    BY <1>7, <1>8, <2>1
  <2>4. Before(h, (n + 1) + 1) = Before(h, n + 1) + h[n + 1].gap + Hole(h[n + 1])
    BY <1>5, <2>1 DEF IsBefore
  <2>5. /\ Width(value(n + 1)) \in Nat /\ Width(value(n + 1)) <= Hole(h[n + 1]) /\ Hole(h[n + 1]) \in Nat
        /\ h[n + 1].gap \in Nat
    BY <1>6, <2>1
  <2> QED
    BY <2>2, <2>3, <2>4, <2>5
<1> HIDE DEF Good
<1>11. \A n \in Nat : n \in Good
  BY <1>9, <1>10, SetInduction
<1>12. ASSUME NEW i \in stops PROVE i = Len(h)
  <2> SUFFICES ASSUME i # Len(h) PROVE FALSE
    OBVIOUS
  <2>1. i \in 1..Len(h) /\ put[i] >= LengthOf(t) - 1
    BY <1>5
  <2>2. i + 1 \in 1..Len(h) /\ i + 1 \in 1..(Len(h) + 1) /\ (i + 1) + 1 \in 1..(Len(h) + 1)
        /\ Len(h) + 1 \in 1..(Len(h) + 1) /\ (i + 1) + 1 <= Len(h) + 1
    BY <1>5, <2>1
  <2>3. put[i] <= Before(h, i + 1)
    BY <1>11, <2>1 DEF Good
  <2>4. Before(h, (i + 1) + 1) = Before(h, i + 1) + h[i + 1].gap + Hole(h[i + 1])
    BY <1>5, <2>2 DEF IsBefore
  <2>5. Hole(h[i + 1]) \in Nat /\ Hole(h[i + 1]) >= 12 /\ h[i + 1].gap \in Nat
    BY <1>6, <2>2
  <2>6. Before(h, (i + 1) + 1) <= Before(h, Len(h) + 1)
    BY <1>1, <2>2, BeforeRises
  <2>7. Before(h, i + 1) \in Nat /\ Before(h, Len(h) + 1) \in Nat
    BY <1>5, <2>2 DEF IsBefore
  <2>8. put[i] \in Nat
    BY <1>7, <1>8, <2>1
  <2> DEFINE all == Before(h, Len(h) + 1) next == Before(h, (i + 1) + 1) here == Before(h, i + 1)
             gap == h[i + 1].gap hole == Hole(h[i + 1]) p == put[i] tail == t.tail
  <2>9. tail \in Nat /\ hole \in Nat /\ gap \in Nat /\ here \in Nat /\ all \in Nat /\ p \in Nat
    BY <1>1, <2>5, <2>7, <2>8
  <2>10. p >= (all + tail) - 1
    BY <1>3, <2>1
  <2>11. p <= here /\ next = here + gap + hole /\ next <= all /\ hole >= 12
    BY <2>3, <2>4, <2>5, <2>6
  <2> HIDE DEF all, next, here, gap, hole, p, tail
  <2> QED
    BY <2>9, <2>10, <2>11
<1>13. done = Len(h)
  <2>1. CASE stops = {}
    BY <2>1
  <2>2. CASE stops # {}
    <3>1. stops \subseteq Nat
      BY <1>5
    <3>2. Min(stops) \in stops
      BY <2>2, <3>1, MinIs
    <3> QED
      BY <1>12, <2>2, <3>2
  <2> QED
    BY <2>1, <2>2
<1> QED
  BY <1>2, <1>5, <1>13

-----------------------------------------------------------------------------
(* What a save finds and replaces. *)
LEMMA EndIs ==
  ASSUME NEW h \in Seq(Holes), NEW i \in 1..Len(h)
  PROVE  /\ StartOf(h, i) \in Nat /\ EndOf(h, i) \in Nat /\ Before(h, i) \in Nat
         /\ StartOf(h, i) = Before(h, i) + h[i].gap /\ h[i].gap \in Nat /\ Width(h[i].val) \in Nat
         /\ EndOf(h, i) = StartOf(h, i) + 9 + Width(h[i].val) /\ EndOf(h, i) + 3 = Before(h, i + 1)
<1>1. IsBefore(h) /\ h[i] \in Holes
  BY BeforeIs
<1>2. h[i].gap \in Nat /\ h[i].val \in Values /\ Width(h[i].val) \in Nat /\ Hole(h[i]) = Width(h[i].val) + 12
  BY <1>1, HoleIs
<1>3. Before(h, i) \in Nat /\ Before(h, i + 1) = Before(h, i) + h[i].gap + Hole(h[i])
  BY <1>1 DEF IsBefore
<1>4. StartOf(h, i) = Before(h, i) + h[i].gap
  BY DEF StartOf
<1>5. EndOf(h, i) = StartOf(h, i) + 9 + Width(h[i].val)
  BY DEF EndOf, Opening
<1> DEFINE start == StartOf(h, i) end == EndOf(h, i) here == Before(h, i) next == Before(h, i + 1)
           gap == h[i].gap width == Width(h[i].val) hole == Hole(h[i])
<1>6. here \in Nat /\ gap \in Nat /\ width \in Nat
  BY <1>2, <1>3
<1>7. start = here + gap /\ end = start + 9 + width /\ next = here + gap + hole /\ hole = width + 12
  BY <1>2, <1>3, <1>4, <1>5
<1> HIDE DEF start, end, here, next, gap, width, hole
<1>8. start \in Nat /\ end \in Nat /\ end + 3 = next
  BY <1>6, <1>7
<1> QED
  BY <1>6, <1>7, <1>8, Zenon DEF start, end, here, next, gap, width

LEMMA FoundIs ==
  ASSUME NEW h \in Seq(Holes), NEW pos \in Nat
  PROVE  FoundFrom(h, pos) \in 0..Len(h)
<1> DEFINE ending == {i \in DOMAIN h : EndOf(h, i) >= pos + 3}
<1>1. ending \subseteq 1..Len(h) /\ ending \subseteq Nat
  OBVIOUS
<1>2. FoundFrom(h, pos) = IF ending # {} /\ StartOf(h, Min(ending)) >= pos - 1 THEN Min(ending) ELSE 0
  BY DEF FoundFrom
<1> HIDE DEF ending
<1>3. ending # {} => Min(ending) \in ending
  BY <1>1, MinIs
<1>4. FoundFrom(h, pos) = 0 \/ FoundFrom(h, pos) \in 1..Len(h)
  BY <1>1, <1>2, <1>3, Zenon
<1>5. Len(h) \in Nat
  OBVIOUS
<1> DEFINE f == FoundFrom(h, pos)
<1> HIDE DEF f
<1>6. f = 0 \/ f \in 1..Len(h)
  BY <1>4 DEF f
<1>7. f \in 0..Len(h)
  BY <1>5, <1>6
<1> QED
  BY <1>7 DEF f

LEMMA FoundNext ==
  ASSUME NEW h \in Seq(Holes), NEW pos \in Nat, NEW k \in 1..Len(h),
         Before(h, k) <= pos + 5, StartOf(h, k) >= pos - 1
  PROVE  FoundFrom(h, pos) = k
<1> DEFINE ending == {i \in DOMAIN h : EndOf(h, i) >= pos + 3}
<1>1. DOMAIN h = 1..Len(h) /\ Len(h) \in Nat
  OBVIOUS
<1>2. FoundFrom(h, pos) = IF ending # {} /\ StartOf(h, Min(ending)) >= pos - 1 THEN Min(ending) ELSE 0
  BY DEF FoundFrom
<1>3. k \in ending
  <2>1. EndOf(h, k) = StartOf(h, k) + 9 + Width(h[k].val) /\ Width(h[k].val) \in Nat /\ StartOf(h, k) \in Nat
    BY EndIs
  <2> QED
    BY <1>1, <2>1
<1>4. ASSUME NEW i \in 1..Len(h), i < k PROVE i \notin ending
  <2>1. EndOf(h, i) + 3 = Before(h, i + 1) /\ EndOf(h, i) \in Nat
    BY EndIs
  <2>2. i + 1 \in 1..(Len(h) + 1) /\ i + 1 <= k /\ k \in 1..(Len(h) + 1)
    BY <1>1, <1>4
  <2>3. Before(h, i + 1) <= Before(h, k)
    BY <2>2, BeforeRises
  <2>4. Before(h, k) \in Nat
    BY EndIs
  <2> QED
    BY <2>1, <2>3, <2>4
<1>5. ending \subseteq 1..Len(h) /\ ending \subseteq Nat
  BY <1>1
<1> HIDE DEF ending
<1>6. Min(ending) \in ending /\ \A x \in ending : Min(ending) <= x
  BY <1>3, <1>5, MinIs
<1> DEFINE first == Min(ending)
<1>7. first \in 1..Len(h) /\ first <= k /\ ~(first < k)
  <2>1. first \in ending /\ first <= k
    BY <1>3, <1>6
  <2>2. first \in 1..Len(h)
    BY <1>5, <2>1
  <2> HIDE DEF first
  <2>3. ~(first < k)
    BY <1>4, <2>1, <2>2
  <2> QED
    BY <2>1, <2>2, <2>3
<1> HIDE DEF first
<1>8. first = k
  BY <1>1, <1>7
<1> QED
  BY <1>2, <1>3, <1>8 DEF first

States == [holes : Seq(Holes), pos : Nat, count : Nat]

LEMMA SaveOneTyped ==
  ASSUME NEW t \in HoleTexts, NEW params \in Seq(Values), NEW s \in States
  PROVE  SaveOne(t, params, s) \in States
<1> DEFINE h == s.holes
           i == FoundFrom(h, s.pos)
           new == params[s.count + 1]
           at == NextFrom(StartOf(h, i), Width(h[i].val), Width(new))
           one == [h[i] EXCEPT !.val = new]
           hh == [h EXCEPT ![i] = one]
           idle == s.pos >= LengthOf(t) - 1 \/ i = 0 \/ s.count >= Len(params)
<1>1. h \in Seq(Holes) /\ s.pos \in Nat /\ s.count \in Nat /\ s \in States
  BY DEF States
<1>2. SaveOne(t, params, s) = IF idle THEN s ELSE [holes |-> hh, pos |-> at, count |-> s.count + 1]
  BY DEF SaveOne
<1>3. CASE ~idle
  <2> HIDE DEF h
  <2>1. i \in 1..Len(h)
    <3>1. i \in 0..Len(h)
      <4>1. \A p \in Nat : FoundFrom(h, p) \in 0..Len(h)
        BY <1>1, FoundIs
      <4> QED
        BY <1>1, <4>1
    <3>2. Len(h) \in Nat
      BY <1>1
    <3>3. i # 0
      BY <1>3
    <3> HIDE DEF i
    <3> QED
      BY <3>1, <3>2, <3>3
  <2>2. s.count + 1 \in 1..Len(params)
    BY <1>1, <1>3
  <2> HIDE DEF i, idle
  <2>3. new \in Values /\ h[i] \in Holes
    BY <1>1, <2>1, <2>2
  <2> HIDE DEF new
  <2>4. one \in Holes
    BY <2>3 DEF Holes
  <2> HIDE DEF one
  <2>5. hh \in Seq(Holes)
    BY <1>1, <2>1, <2>4
  <2>6. StartOf(h, i) \in Nat /\ Width(h[i].val) \in Nat
    BY <1>1, <2>1, EndIs
  <2>7. at \in Nat
    BY <2>6 DEF NextFrom, Opening
  <2> HIDE DEF at, hh
  <2>8. [holes |-> hh, pos |-> at, count |-> s.count + 1] \in States
    BY <1>1, <2>5, <2>7 DEF States
  <2> QED
    BY <1>2, <1>3, <2>8
<1>4. CASE idle
  BY <1>1, <1>2, <1>4
<1> QED
  BY <1>3, <1>4

IsTurns(f, t, params) ==
  f = [n \in 0..Len(t.holes) |-> IF n = 0 THEN [holes |-> t.holes, pos |-> 1, count |-> 0]
                                 ELSE SaveOne(t, params, f[n - 1])]

LEMMA TurnsAre ==
  ASSUME NEW t \in HoleTexts, NEW params \in Seq(Values)
  PROVE  /\ Turns(t, params)[0] = [holes |-> t.holes, pos |-> 1, count |-> 0]
         /\ \A n \in 1..Len(t.holes) : Turns(t, params)[n] = SaveOne(t, params, Turns(t, params)[n - 1])
         /\ \A n \in 0..Len(t.holes) : Turns(t, params)[n] \in States
<1> DEFINE m == Len(t.holes)
           a == [holes |-> t.holes, pos |-> 1, count |-> 0]
           F == [n \in 1..m |-> [s \in States |-> SaveOne(t, params, s)]]
<1>1. m \in Nat /\ a \in States /\ F \in [1..m -> [States -> States]]
  <2>1. t.holes \in Seq(Holes)
    BY DEF HoleTexts
  <2>2. m \in Nat /\ a \in States
    BY <2>1 DEF States
  <2>3. \A s \in States : SaveOne(t, params, s) \in States
    BY SaveOneTyped
  <2>4. [s \in States |-> SaveOne(t, params, s)] \in [States -> States]
    BY <2>3
  <2> HIDE DEF m, a
  <2> QED
    BY <2>2, <2>4
<1> HIDE DEF a
<1>2. PICK f \in [0..m -> States] : f[0] = a /\ \A n \in 1..m : f[n] = F[n][f[n - 1]]
  <2> HIDE DEF F, m
  <2> DEFINE Rec(B, b, k) == \A H \in [1..k -> [B -> B]] :
          \E f \in [0..k -> B] : f[0] = b /\ \A n \in 1..k : f[n] = H[n][f[n - 1]]
  <2>0. \A B : \A b \in B : \A k \in Nat : Rec(B, b, k)
    BY RecAll
  <2> HIDE DEF Rec
  <2>1. Rec(States, a, m)
    BY <1>1, <2>0
  <2> QED
    BY <1>1, <2>1 DEF Rec
<1>3. \A n \in 1..m : f[n] = SaveOne(t, params, f[n - 1])
  <2> TAKE n \in 1..m
  <2> HIDE DEF F
  <2>1. f[n - 1] \in States
    <3>1. n - 1 \in 0..m
      BY <1>1
    <3> QED
      BY <1>2, <3>1
  <2>2. f[n] = F[n][f[n - 1]]
    BY <1>2
  <2>3. F[n] = [s \in States |-> SaveOne(t, params, s)]
    BY DEF F
  <2> QED
    BY <2>1, <2>2, <2>3
<1> HIDE DEF F
<1>4. f = [n \in 0..m |-> IF n = 0 THEN a ELSE SaveOne(t, params, f[n - 1])]
  <2>1. \A n \in 0..m : f[n] = IF n = 0 THEN a ELSE SaveOne(t, params, f[n - 1])
    <3> TAKE n \in 0..m
    <3>1. n = 0 \/ n \in 1..m
      BY <1>1
    <3> QED
      BY <1>2, <1>3, <3>1
  <2> HIDE DEF m
  <2> QED
    BY <1>2, <2>1
<1>5. IsTurns(f, t, params)
  BY <1>4 DEF IsTurns, a
<1>6. Turns(t, params) = CHOOSE g : IsTurns(g, t, params)
  BY DEF Turns, IsTurns
<1>7. IsTurns(Turns(t, params), t, params)
  BY <1>5, <1>6
<1> DEFINE g == Turns(t, params)
<1>8. g = [n \in 0..m |-> IF n = 0 THEN a ELSE SaveOne(t, params, g[n - 1])]
  BY <1>7 DEF IsTurns, a
<1> HIDE DEF g
<1>9. \A n \in 0..m : g[n] = IF n = 0 THEN a ELSE SaveOne(t, params, g[n - 1])
  BY <1>8, Zenon
<1>10. g[0] = a /\ \A n \in 1..m : g[n] = SaveOne(t, params, g[n - 1])
  <2>1. 0 \in 0..m /\ \A n \in 1..m : n \in 0..m /\ n # 0
    BY <1>1
  <2> QED
    BY <1>9, <2>1, Zenon
<1> DEFINE Good == {n \in Nat : n <= m => g[n] \in States}
<1>11. 0 \in Good
  BY <1>1, <1>10
<1>12. ASSUME NEW n \in Nat, n \in Good PROVE n + 1 \in Good
  <2> SUFFICES ASSUME n + 1 <= m PROVE g[n + 1] \in States
    OBVIOUS
  <2>1. n + 1 \in 1..m /\ (n + 1) - 1 = n /\ g[n] \in States
    BY <1>1, <1>12
  <2>2. g[n + 1] = SaveOne(t, params, g[n])
    BY <1>10, <2>1
  <2> QED
    BY <2>1, <2>2, SaveOneTyped
<1> HIDE DEF Good
<1>13. \A n \in Nat : n \in Good
  BY <1>11, <1>12, SetInduction
<1>14. \A n \in 0..m : g[n] \in States
  BY <1>1, <1>13 DEF Good
<1> QED
  BY <1>10, <1>14 DEF g, a

(* The placeholders after m turns: the first m are replaced. *)
FilledTo(h, params, m) == [i \in 1..Len(h) |-> IF i <= m THEN [h[i] EXCEPT !.val = params[i]] ELSE h[i]]

LEMMA FilledIs ==
  ASSUME NEW h \in Seq(Holes), NEW params \in Seq(Values), NEW m \in Nat, m <= Len(h), m <= Len(params)
  PROVE  /\ FilledTo(h, params, m) \in Seq(Holes) /\ Len(FilledTo(h, params, m)) = Len(h)
         /\ Filled(h, params) \in Seq(Holes) /\ Len(Filled(h, params)) = Len(h)
         /\ \A i \in 1..m : FilledTo(h, params, m)[i] = Filled(h, params)[i]
                            /\ FilledTo(h, params, m)[i].val = params[i]
         /\ \A i \in 1..Len(h) : i > m => FilledTo(h, params, m)[i] = h[i]
         /\ \A i \in 1..Len(h) : Filled(h, params)[i].gap = h[i].gap
<1>1. DOMAIN h = 1..Len(h) /\ Len(h) \in Nat /\ DOMAIN params = 1..Len(params) /\ Len(params) \in Nat
      /\ \A i \in 1..Len(h) : h[i] \in Holes
  OBVIOUS
<1>2. \A i \in 1..Len(params) : params[i] \in Values
  OBVIOUS
<1>3. ASSUME NEW i \in 1..Len(h), NEW v \in Values
      PROVE  [h[i] EXCEPT !.val = v] \in Holes /\ [h[i] EXCEPT !.val = v].gap = h[i].gap
             /\ [h[i] EXCEPT !.val = v].val = v
  <2>1. h[i] \in Holes
    BY <1>1
  <2> QED
    BY <2>1 DEF Holes
<1> DEFINE put(i) == [h[i] EXCEPT !.val = params[i]]
           g == FilledTo(h, params, m)
           f == Filled(h, params)
<1>4. \A i \in 1..Len(h) : i \in 1..Len(params) => put(i) \in Holes /\ put(i).gap = h[i].gap /\ put(i).val = params[i]
  BY <1>2, <1>3
<1>5. g = [i \in 1..Len(h) |-> IF i <= m THEN put(i) ELSE h[i]]
  BY DEF FilledTo
<1>6. f = [i \in 1..Len(h) |-> IF i \in 1..Len(params) THEN put(i) ELSE h[i]]
  BY <1>1 DEF Filled
<1> HIDE DEF put, g, f
<1>7. g \in Seq(Holes) /\ Len(g) = Len(h)
  <2>1. \A i \in 1..Len(h) : (IF i <= m THEN put(i) ELSE h[i]) \in Holes
    BY <1>1, <1>4
  <2> QED
    BY <1>1, <1>5, <2>1
<1>8. f \in Seq(Holes) /\ Len(f) = Len(h)
  <2>1. \A i \in 1..Len(h) : (IF i \in 1..Len(params) THEN put(i) ELSE h[i]) \in Holes
    BY <1>1, <1>4
  <2> QED
    BY <1>1, <1>6, <2>1
<1>9. ASSUME NEW i \in 1..m PROVE g[i] = f[i] /\ g[i].val = params[i]
  <2>1. i \in 1..Len(h) /\ i \in 1..Len(params) /\ i <= m
    BY <1>1
  <2> QED
    BY <1>4, <1>5, <1>6, <2>1
<1>10. \A i \in 1..Len(h) : i > m => g[i] = h[i]
  BY <1>5
<1>11. \A i \in 1..Len(h) : f[i].gap = h[i].gap
  BY <1>4, <1>6
<1> QED
  BY <1>7, <1>8, <1>9, <1>10, <1>11 DEF g, f

(* Where the search of the turn after the n-th begins. *)
SearchFrom(h, params, n) ==
  IF n = 0 THEN 1 ELSE StartOf(Filled(h, params), n) + Opening + Width(h[n].val)

LEMMA NextTurn ==
  ASSUME NEW t \in HoleTexts, NEW params \in Seq(Values), Fits(t, params),
         NEW n \in Nat, n < Len(t.holes), n < Len(params), NEW s,
         s = [holes |-> FilledTo(t.holes, params, n), pos |-> SearchFrom(t.holes, params, n), count |-> n]
  PROVE  SaveOne(t, params, s) = [holes |-> FilledTo(t.holes, params, n + 1),
                                  pos |-> SearchFrom(t.holes, params, n + 1), count |-> n + 1]
<1> DEFINE h == t.holes
           H == FilledTo(h, params, n)
           F == Filled(h, params)
           HH == FilledTo(h, params, n + 1)
           pos == SearchFrom(h, params, n)
           k == n + 1
<1>1. h \in Seq(Holes) /\ Len(h) \in Nat /\ Len(params) \in Nat /\ t.tail \in Nat /\ DOMAIN h = 1..Len(h)
      /\ DOMAIN params = 1..Len(params)
  BY DEF HoleTexts
<1>2. LengthOf(t) = Before(h, Len(h) + 1) + t.tail
  BY DEF LengthOf
<1>3. /\ s.holes = H /\ s.pos = pos /\ s.count = n
  OBVIOUS
<1>4. SaveOne(t, params, s) =
        LET i == FoundFrom(H, pos)
        IN  IF pos >= LengthOf(t) - 1 \/ i = 0 \/ n >= Len(params) THEN s
            ELSE [holes |-> [H EXCEPT ![i].val = params[n + 1]],
                  pos |-> NextFrom(StartOf(H, i), Width(H[i].val), Width(params[n + 1])), count |-> n + 1]
  BY <1>3 DEF SaveOne
<1>5. ASSUME NEW i \in 1..n, i < Len(h)
      PROVE  /\ Width(params[i]) - Width(h[i].val) < 3
             /\ Width(h[i].val) - Width(params[i]) <= h[i + 1].gap + 4
             /\ StartOf(F, i) + 9 + Width(h[i].val) < LengthOf(t) - 1
  <2>1. i \in DOMAIN params \cap DOMAIN h
    BY <1>1
  <2>2. FitsAt(t, params, i)
    BY <2>1 DEF Fits
  <2>3. /\ Width(params[i]) - Width(h[i].val) < Closing
        /\ Width(h[i].val) - Width(params[i]) <= h[i + 1].gap + Closing + 1
        /\ StartOf(F, i) + Opening + Width(h[i].val) < LengthOf(t) - 1
    BY <1>5, <2>2, Zenon DEF FitsAt
  <2>4. Opening = 9 /\ Closing = 3
    BY DEF Opening, Closing
  <2>5. h[i + 1].gap \in Nat
    <3>1. h[i + 1] \in Holes
      BY <1>1, <1>5
    <3> QED
      BY <3>1 DEF Holes
  <2> HIDE DEF h, F
  <2> DEFINE gap == h[i + 1].gap
  <2>6. gap \in Nat
    BY <2>5
  <2> HIDE DEF gap
  <2>7. gap + 3 + 1 = gap + 4
    BY <2>6
  <2>8. h[i + 1].gap + 3 + 1 = h[i + 1].gap + 4
    BY <2>7 DEF gap
  <2> QED
    BY <2>3, <2>4, <2>8
<1> HIDE DEF h
<1>6. k \in 1..Len(h) /\ k \in 1..Len(params) /\ n <= Len(h) /\ n <= Len(params)
  BY <1>1 DEF h
<1>7. /\ H \in Seq(Holes) /\ Len(H) = Len(h) /\ F \in Seq(Holes) /\ Len(F) = Len(h)
      /\ \A i \in 1..n : H[i] = F[i] /\ H[i].val = params[i]
      /\ \A i \in 1..Len(h) : i > n => H[i] = h[i]
      /\ \A i \in 1..Len(h) : F[i].gap = h[i].gap
  BY <1>1, <1>6, FilledIs
<1>8. \A i \in 1..(n + 1) : Before(H, i) = Before(F, i)
  <2>1. n \in 0..Len(F) /\ Len(H) = Len(F)
    BY <1>6, <1>7
  <2> HIDE DEF H, F
  <2> QED
    BY <1>7, <2>1, BeforeAgree
<1>9. H = FilledTo(h, params, n) /\ pos = SearchFrom(h, params, n)
  OBVIOUS
<1> HIDE DEF H, F, HH
<1>10. H[k] = h[k] /\ h[k] \in Holes /\ h[k].gap \in Nat /\ Width(h[k].val) \in Nat /\ F[k].gap = h[k].gap
  <2>1. H[k] = h[k] /\ h[k] \in Holes /\ F[k].gap = h[k].gap
    BY <1>1, <1>6, <1>7
  <2> QED
    BY <2>1, HoleIs
<1>11. StartOf(H, k) = Before(H, k) + h[k].gap /\ StartOf(F, k) = StartOf(H, k) /\ Before(H, k) \in Nat
  <2>1. Before(H, k) = Before(F, k)
    BY <1>8
  <2>2. StartOf(H, k) = Before(H, k) + H[k].gap /\ StartOf(F, k) = Before(F, k) + F[k].gap
    BY DEF StartOf
  <2>3. Before(H, k) \in Nat
    BY <1>6, <1>7, EndIs
  <2> QED
    BY <1>10, <2>1, <2>2, <2>3
<1>12. pos \in Nat /\ Before(H, k) <= pos + 5 /\ StartOf(H, k) >= pos - 1 /\ pos < LengthOf(t) - 1
  <2>1. CASE n = 0
    <3>1. pos = 1 /\ Before(H, k) = 0
      <4>1. IsBefore(H)
        BY <1>7, BeforeIs
      <4> QED
        BY <2>1, <4>1 DEF SearchFrom, IsBefore
    <3>2. LengthOf(t) >= 12
      <4>1. IsBefore(h) /\ 1 \in 1..Len(h) /\ Len(h) + 1 \in 1..(Len(h) + 1) /\ 1 + 1 \in 1..(Len(h) + 1)
        BY <1>1, <1>6, BeforeIs
      <4>2. Before(h, 1 + 1) = h[1].gap + Hole(h[1]) /\ h[1] \in Holes /\ Before(h, Len(h) + 1) \in Nat
        BY <1>1, <4>1, HoleIs DEF IsBefore
      <4>3. h[1].gap \in Nat /\ Width(h[1].val) \in Nat /\ Hole(h[1]) = Width(h[1].val) + 12
        BY <4>2, HoleIs
      <4>4. Before(h, 1 + 1) <= Before(h, Len(h) + 1)
        BY <1>1, <4>1, BeforeRises
      <4> DEFINE first == Before(h, 1 + 1) all == Before(h, Len(h) + 1) gap == h[1].gap width == Width(h[1].val)
                 hole == Hole(h[1]) tail == t.tail long == LengthOf(t)
      <4>5. first = gap + hole /\ hole = width + 12 /\ first <= all /\ gap \in Nat /\ width \in Nat /\ all \in Nat
        BY <4>2, <4>3, <4>4
      <4>6. long = all + tail /\ tail \in Nat
        BY <1>1, <1>2 DEF h
      <4> HIDE DEF first, all, gap, width, hole, tail, long
      <4>7. long >= 12
        BY <4>5, <4>6
      <4> QED
        BY <4>7 DEF long
    <3>3. LengthOf(t) \in Nat
      <4>1. Before(h, Len(h) + 1) \in Nat
        BY <1>1, BeforeIs DEF IsBefore
      <4> QED
        BY <1>1, <1>2, <4>1 DEF h
    <3> DEFINE here == Before(H, k) start == StartOf(H, k) gap == h[k].gap long == LengthOf(t)
    <3>4. pos = 1 /\ here = 0 /\ start = here + gap /\ gap \in Nat /\ long \in Nat /\ long >= 12
      BY <1>10, <1>11, <3>1, <3>2, <3>3
    <3> HIDE DEF pos, here, start, gap, long
    <3>5. pos \in Nat /\ here <= pos + 5 /\ start >= pos - 1 /\ pos < long - 1
      BY <3>4
    <3> QED
      BY <3>5 DEF here, start, long
  <2>2. CASE n > 0
    <3>1. n \in 1..n /\ n < Len(h) /\ n \in 1..Len(h) /\ n \in 1..(n + 1)
      BY <1>1, <1>6, <2>2
    <3>2. /\ Width(params[n]) - Width(h[n].val) < 3
          /\ Width(h[n].val) - Width(params[n]) <= h[n + 1].gap + 4
          /\ StartOf(F, n) + 9 + Width(h[n].val) < LengthOf(t) - 1
      BY <1>5, <3>1
    <3>3. pos = StartOf(F, n) + 9 + Width(h[n].val)
      BY <2>2 DEF SearchFrom, F, Opening
    <3>4. H[n] = F[n] /\ H[n].val = params[n]
      BY <1>7, <3>1
    <3>5. /\ StartOf(F, n) \in Nat /\ EndOf(F, n) = StartOf(F, n) + 9 + Width(F[n].val)
          /\ EndOf(F, n) + 3 = Before(F, n + 1) /\ Width(F[n].val) \in Nat
      BY <1>7, <3>1, EndIs
    <3>6. Before(H, k) = Before(F, n + 1)
      BY <1>8
    <3>7. Width(F[n].val) = Width(params[n])
      BY <3>4
    <3>8. Width(h[n].val) \in Nat
      <4>1. h[n] \in Holes
        BY <1>1, <3>1
      <4> QED
        BY <4>1, HoleIs
    <3>9. LengthOf(t) \in Nat
      <4>1. Before(h, Len(h) + 1) \in Nat
        BY <1>1, BeforeIs DEF IsBefore
      <4> QED
        BY <1>1, <1>2, <4>1 DEF h
    <3> DEFINE start == StartOf(F, n) end == EndOf(F, n) here == Before(H, k) next == StartOf(H, k) long == LengthOf(t)
               gap == h[k].gap old == Width(h[n].val) new == Width(params[n])
    <3>10. start \in Nat /\ here \in Nat /\ long \in Nat /\ gap \in Nat /\ old \in Nat /\ new \in Nat
      BY <1>10, <1>11, <3>5, <3>7, <3>8, <3>9
    <3>11. new - old < 3 /\ old - new <= gap + 4 /\ start + 9 + old < long - 1
      BY <3>2
    <3>12. pos = start + 9 + old /\ end = start + 9 + new /\ end + 3 = here /\ next = here + gap
      BY <1>11, <3>3, <3>5, <3>6, <3>7
    <3> HIDE DEF pos, start, end, here, next, long, gap, old, new
    <3>13. pos \in Nat /\ here <= pos + 5 /\ next >= pos - 1 /\ pos < long - 1
      BY <3>10, <3>11, <3>12
    <3> QED
      BY <3>13 DEF here, next, long
  <2> QED
    BY <2>1, <2>2
<1> HIDE DEF pos
<1>13. FoundFrom(H, pos) = k
  BY <1>6, <1>7, <1>12, FoundNext
<1>14. SaveOne(t, params, s) = [holes |-> [H EXCEPT ![k].val = params[k]],
                                pos |-> NextFrom(StartOf(H, k), Width(H[k].val), Width(params[k])), count |-> k]
  <2>1. ~(pos >= LengthOf(t) - 1) /\ k # 0 /\ ~(n >= Len(params))
    <3>1. LengthOf(t) \in Nat
      <4>1. Before(h, Len(h) + 1) \in Nat
        BY <1>1, BeforeIs DEF IsBefore
      <4> QED
        BY <1>1, <1>2, <4>1 DEF h
    <3> QED
      BY <1>1, <1>6, <1>12, <3>1
  <2> HIDE DEF k
  <2> QED
    BY <1>4, <1>13, <2>1 DEF k
<1>15. NextFrom(StartOf(H, k), Width(H[k].val), Width(params[k])) = SearchFrom(h, params, k)
  BY <1>10, <1>11 DEF NextFrom, SearchFrom, F
<1>16. [H EXCEPT ![k].val = params[k]] = HH
  <2> DEFINE one == [H[k] EXCEPT !.val = params[k]]
  <2>1. [H EXCEPT ![k].val = params[k]] = [H EXCEPT ![k] = one]
    OBVIOUS
  <2>2. one = [h[k] EXCEPT !.val = params[k]]
    BY <1>10
  <2> DEFINE put(i) == [h[i] EXCEPT !.val = params[i]]
  <2>3. H = [i \in 1..Len(h) |-> IF i <= n THEN put(i) ELSE h[i]]
    BY <1>9 DEF FilledTo
  <2>4. HH = [i \in 1..Len(h) |-> IF i <= n + 1 THEN put(i) ELSE h[i]]
    BY DEF HH, FilledTo
  <2>5. one = put(k)
    BY <2>2
  <2> HIDE DEF one, put
  <2>6. [H EXCEPT ![k] = one] = HH
    <3>1. \A i \in 1..Len(h) : [H EXCEPT ![k] = one][i] = IF i <= n + 1 THEN put(i) ELSE h[i]
      <4> TAKE i \in 1..Len(h)
      <4>1. CASE i = k
        BY <1>6, <2>3, <2>5, <4>1
      <4>2. CASE i # k
        <5>1. i <= n <=> i <= n + 1
          BY <1>1, <4>2
        <5> QED
          BY <2>3, <4>2, <5>1
      <4> QED
        BY <4>1, <4>2
    <3>2. [H EXCEPT ![k] = one] = [i \in 1..Len(h) |-> [H EXCEPT ![k] = one][i]]
      BY <2>3
    <3> QED
      BY <2>4, <3>1, <3>2
  <2> QED
    BY <2>1, <2>6
<1> QED
  BY <1>14, <1>15, <1>16 DEF HH, h

LEMMA SaveTyped ==
  ASSUME NEW t \in HoleTexts, NEW params \in Seq(Values)
  PROVE  SaveParametersToString(t, params) \in HoleTexts
         /\ SaveParametersToString(t, params).holes = Turns(t, params)[Len(t.holes)].holes
<1> DEFINE last == Turns(t, params)[Len(t.holes)]
<1>1. Len(t.holes) \in Nat
  BY DEF HoleTexts
<1>2. last \in States
  <2>1. Len(t.holes) \in 0..Len(t.holes)
    BY <1>1
  <2> QED
    BY <2>1, TurnsAre
<1>3. SaveParametersToString(t, params) = [t EXCEPT !.holes = last.holes]
  BY DEF SaveParametersToString
<1> HIDE DEF last
<1>4. last.holes \in Seq(Holes)
  BY <1>2 DEF States
<1> DEFINE new == [t EXCEPT !.holes = last.holes]
<1>5. new \in HoleTexts /\ new.holes = last.holes
  BY <1>4 DEF HoleTexts
<1> QED
  BY <1>3, <1>5 DEF last

LEMMA SavesInPlace ==
  ASSUME NEW t \in HoleTexts, NEW params \in Seq(Values), Fits(t, params)
  PROVE  \A i \in DOMAIN params \cap DOMAIN SaveParametersToString(t, params).holes :
           SaveParametersToString(t, params).holes[i].val = params[i]
<1> DEFINE h == t.holes
           N == Len(h)
           L == Len(params)
           T == Turns(t, params)
           Reached(m) == [holes |-> FilledTo(h, params, m), pos |-> SearchFrom(h, params, m), count |-> m]
           Good == {n \in Nat : n <= N => T[n] = Reached(IF n <= L THEN n ELSE L)}
<1>1. h \in Seq(Holes) /\ N \in Nat /\ L \in Nat /\ DOMAIN params = 1..L
  BY DEF HoleTexts
<1>2. T[0] = [holes |-> h, pos |-> 1, count |-> 0] /\ \A n \in 1..N : T[n] = SaveOne(t, params, T[n - 1])
  BY TurnsAre
<1>3. ASSUME NEW n \in Nat, n < N, n < L PROVE SaveOne(t, params, Reached(n)) = Reached(n + 1)
  BY <1>3, NextTurn
<1>4. \A m : Reached(m).count = m
  OBVIOUS
<1>5. Reached(0) = [holes |-> h, pos |-> 1, count |-> 0]
  <2>1. FilledTo(h, params, 0) = h
    <3> HIDE DEF h
    <3>1. h = [i \in 1..Len(h) |-> h[i]]
      BY <1>1 DEF h
    <3>2. \A i \in 1..Len(h) : ~(i <= 0)
      BY <1>1
    <3> QED
      BY <3>1, <3>2 DEF FilledTo
  <2>2. SearchFrom(h, params, 0) = 1
    BY DEF SearchFrom
  <2> QED
    BY <2>1, <2>2
<1>6. \A m : Reached(m).holes = FilledTo(h, params, m)
  OBVIOUS
<1>7. ASSUME NEW s, s.count >= L PROVE SaveOne(t, params, s) = s
  BY <1>7 DEF SaveOne
<1> HIDE DEF h, N, L, T, Reached
<1>8. 0 \in Good
  BY <1>1, <1>2, <1>5
<1>9. ASSUME NEW n \in Nat, n \in Good PROVE n + 1 \in Good
  <2> SUFFICES ASSUME n + 1 <= N PROVE T[n + 1] = Reached(IF n + 1 <= L THEN n + 1 ELSE L)
    OBVIOUS
  <2>1. n + 1 \in 1..N /\ (n + 1) - 1 = n /\ n < N /\ T[n] = Reached(IF n <= L THEN n ELSE L)
    BY <1>1, <1>9
  <2>2. T[n + 1] = SaveOne(t, params, T[n])
    BY <1>2, <2>1
  <2>3. CASE n < L
    <3>1. T[n] = Reached(n)
      BY <1>1, <2>1, <2>3
    <3>2. T[n + 1] = Reached(n + 1)
      BY <1>3, <2>1, <2>2, <2>3, <3>1
    <3> QED
      BY <1>1, <2>3, <3>2
  <2>4. CASE n >= L
    <3>1. T[n] = Reached(L) /\ Reached(L).count >= L
      <4>1. (IF n <= L THEN n ELSE L) = L
        BY <1>1, <2>4
      <4>2. L >= L
        BY <1>1
      <4> QED
        BY <1>4, <2>1, <4>1, <4>2
    <3>2. T[n + 1] = Reached(L)
      BY <1>7, <2>2, <3>1
    <3>3. (IF n + 1 <= L THEN n + 1 ELSE L) = L
      BY <1>1, <2>4
    <3> QED
      BY <3>2, <3>3
  <2> QED
    BY <1>1, <2>3, <2>4
<1> HIDE DEF Good
<1>10. \A n \in Nat : n \in Good
  BY <1>8, <1>9, SetInduction
<1> DEFINE m == IF N <= L THEN N ELSE L
           g == FilledTo(h, params, m)
<1>11. T[N] = Reached(m)
  BY <1>1, <1>10 DEF Good
<1>12. m \in Nat /\ m <= N /\ m <= L /\ \A i \in (1..L) \cap (1..N) : i \in 1..m
  BY <1>1
<1> HIDE DEF m
<1>13. g \in Seq(Holes) /\ Len(g) = N /\ \A i \in 1..m : g[i].val = params[i]
  BY <1>1, <1>12, FilledIs DEF N, L
<1>14. SaveParametersToString(t, params).holes = g
  <2>1. SaveParametersToString(t, params).holes = T[N].holes
    BY SaveTyped DEF T, N, h
  <2> QED
    BY <1>6, <1>11, <2>1
<1> HIDE DEF g
<1>15. DOMAIN g = 1..N
  BY <1>13
<1> QED
  BY <1>1, <1>12, <1>13, <1>14, <1>15

-----------------------------------------------------------------------------
LEMMA ParamsAreSafe == ParamsInv => CmdParamsSafe
<1> SUFFICES ASSUME ParamsInv PROVE CmdParamsSafe
  OBVIOUS
<1>1. cpText \in HoleTexts /\ cpParams \in Seq(Values) /\ SavedInPlace
  BY DEF ParamsInv, ParamsType
<1>2. AllSubstituted
  BY <1>1, Substitutes DEF AllSubstituted
<1> QED
  BY <1>1, <1>2 DEF CmdParamsSafe

LEMMA LoadTyped ==
  ASSUME NEW t \in HoleTexts PROVE LoadParametersFromString(t) \in Seq(Values)
<1> DEFINE h == t.holes
<1>1. h \in Seq(Holes)
  BY DEF HoleTexts
<1>2. LoadParametersFromString(t) = [i \in DOMAIN h |-> h[i].val]
  BY DEF LoadParametersFromString
<1> HIDE DEF h
<1>3. DOMAIN h = 1..Len(h) /\ Len(h) \in Nat /\ \A i \in 1..Len(h) : h[i] \in Holes
  BY <1>1
<1>4. \A i \in 1..Len(h) : h[i].val \in Values
  BY <1>3 DEF Holes
<1> QED
  BY <1>2, <1>3, <1>4

LEMMA ParamsStart == CmdParamsInit => ParamsInv
<1> SUFFICES ASSUME CmdParamsInit PROVE ParamsInv
  OBVIOUS
<1>1. cpText \in HoleTexts
  <2> DEFINE B == BoundedSeq([gap : Gaps, val : Values], MaxHoles)
             h == cpText.holes
  <2>0. cpText \in Texts
    BY Zenon DEF CmdParamsInit
  <2>1. cpText \in [holes : B, tail : {0, 4}]
    BY <2>0 DEF Texts
  <2> HIDE DEF B
  <2>2. h \in B /\ cpText.tail \in Nat /\ cpText = [holes |-> h, tail |-> cpText.tail]
    BY <2>1
  <2> HIDE DEF h
  <2>3. PICK m \in 0..MaxHoles : h \in [1..m -> [gap : Gaps, val : Values]]
    BY <2>2 DEF B, BoundedSeq, SeqOf
  <2>4. \A x \in [gap : Gaps, val : Values] : x \in Holes
    BY ParamsAssumption DEF Holes
  <2>5. m \in Nat
    BY <2>3, ParamsAssumption
  <2>6. h \in Seq(Holes)
    BY <2>3, <2>4, <2>5
  <2> QED
    BY <2>2, <2>6 DEF HoleTexts
<1>2. cpParams \in Seq(Values)
  BY <1>1, LoadTyped DEF CmdParamsInit
<1>3. cpSaved = <<>> /\ cpFits = TRUE
  BY DEF CmdParamsInit
<1>4. <<>> \in Seq(Values)
  OBVIOUS
<1>5. DOMAIN cpSaved = {}
  BY <1>3
<1> QED
  BY <1>1, <1>2, <1>3, <1>4, <1>5 DEF ParamsInv, ParamsType, SavedInPlace

LEMMA ParamsStep == ParamsInv /\ [CmdParamsNext]_cpVars => ParamsInv'
<1> SUFFICES ASSUME ParamsInv, [CmdParamsNext]_cpVars PROVE ParamsInv'
  OBVIOUS
<1>1. cpText \in HoleTexts /\ cpParams \in Seq(Values) /\ cpSaved \in Seq(Values) /\ cpFits \in BOOLEAN
      /\ SavedInPlace
  BY DEF ParamsInv, ParamsType
<1>2. ASSUME cpText' \in HoleTexts, cpParams' \in Seq(Values), cpSaved' = <<>>, cpFits' \in BOOLEAN PROVE ParamsInv'
  <2>1. <<>> \in Seq(Values)
    OBVIOUS
  <2>2. DOMAIN cpSaved' = {}
    BY <1>2
  <2> QED
    BY <1>2, <2>1, <2>2 DEF ParamsInv, ParamsType, SavedInPlace
<1>3. CASE UNCHANGED cpVars \/ OnClick
  <2>1. cpText' = cpText /\ cpParams' = cpParams /\ cpSaved' = cpSaved /\ cpFits' = cpFits
    BY <1>3 DEF cpVars, OnClick
  <2> QED
    BY <2>1 DEF ParamsInv, ParamsType, SavedInPlace
<1>4. CASE OnMiddleClick
  <2>1. PICK i \in DOMAIN cpParams, v \in Values : cpParams' = [cpParams EXCEPT ![i] = v]
    BY <1>4 DEF OnMiddleClick
  <2>2. cpParams' \in Seq(Values)
    BY <1>1, <2>1
  <2> QED
    BY <1>1, <1>2, <1>4, <2>2 DEF OnMiddleClick
<1>5. CASE SetCmd
  <2> DEFINE h == cpText.holes
             v == CHOOSE x \in Values : TRUE
             e == [gap |-> 0, val |-> v]
  <2>1. h \in Seq(Holes) /\ cpText.tail \in Nat
    BY <1>1 DEF HoleTexts
  <2>2. v \in Values
    BY ParamsAssumption
  <2>3. cpText' = [cpText EXCEPT !.holes = Append(h, e)] \/ cpText' = [cpText EXCEPT !.holes = SubSeq(h, 2, Len(h))]
        \/ cpText' = [cpText EXCEPT !.holes = <<>>, !.tail = 4]
    BY <1>5 DEF SetCmd
  <2> HIDE DEF h, v
  <2>4. e \in Holes
    BY <2>2 DEF Holes
  <2> HIDE DEF e
  <2>5. Append(h, e) \in Seq(Holes) /\ SubSeq(h, 2, Len(h)) \in Seq(Holes) /\ <<>> \in Seq(Holes)
    <3>1. Append(h, e) \in Seq(Holes)
      BY <2>1, <2>4
    <3>2. SubSeq(h, 2, Len(h)) \in Seq(Holes)
      BY <2>1
    <3>3. <<>> \in Seq(Holes)
      OBVIOUS
    <3> QED
      BY <3>1, <3>2, <3>3
  <2>6. \A g \in Seq(Holes) : [cpText EXCEPT !.holes = g] \in HoleTexts /\ [cpText EXCEPT !.holes = g, !.tail = 4] \in HoleTexts
    BY <1>1 DEF HoleTexts
  <2>7. cpText' \in HoleTexts
    BY <2>3, <2>5, <2>6
  <2> QED
    BY <1>1, <1>2, <1>5, <2>7 DEF SetCmd
<1>6. CASE SaveCommand
  <2>1. /\ cpText' = SaveParametersToString(cpText, cpParams) /\ cpFits' = Fits(cpText, cpParams)
        /\ cpSaved' = cpParams /\ cpParams' = cpParams
    BY <1>6 DEF SaveCommand
  <2>2. cpText' \in HoleTexts
    BY <1>1, <2>1, SaveTyped
  <2>3. cpFits' \in BOOLEAN
    BY <2>1 DEF Fits
  <2>4. SavedInPlace'
    <3> SUFFICES ASSUME cpFits' PROVE \A i \in DOMAIN cpSaved' \cap DOMAIN cpText'.holes : cpText'.holes[i].val = cpSaved'[i]
      BY DEF SavedInPlace
    <3>1. Fits(cpText, cpParams)
      BY <2>1
    <3> QED
      BY <1>1, <2>1, <3>1, SavesInPlace
  <2> QED
    BY <1>1, <2>1, <2>2, <2>3, <2>4 DEF ParamsInv, ParamsType
<1>7. CASE LoadCommand
  <2>1. cpParams' \in Seq(Values)
    BY <1>1, <1>7, LoadTyped DEF LoadCommand
  <2> QED
    BY <1>1, <1>2, <1>7, <2>1 DEF LoadCommand
<1> QED
  BY <1>3, <1>4, <1>5, <1>6, <1>7 DEF CmdParamsNext

-----------------------------------------------------------------------------
(* The buttons of a page, for every number of columns.                       *)

(* The numbers that stand at the places of the page: at <<c, i>> in the box  *)
(* of a column, at <<0, i>> in the open row.                                 *)
BtnElements == [col : Nat, n : Nat]
PlacesOf(boxes, row) == (UNION {{c} \X DOMAIN boxes[c] : c \in 1..Columns}) \cup ({0} \X DOMAIN row)
Numbering(boxes, row) ==
  [p \in PlacesOf(boxes, row) |-> IF p[1] = 0 THEN row[p[2]].n ELSE boxes[p[1]][p[2]].n]
OnceEach(f, m) ==
  /\ \A p \in DOMAIN f : f[p] \in 1..m
  /\ \A p, q \in DOMAIN f : f[p] = f[q] => p = q
  /\ \A n \in 1..m : \E p \in DOMAIN f : f[p] = n

ButtonsType ==
  /\ cbBoxes \in [1..Columns -> Seq(BtnElements)] /\ cbRow \in Seq(BtnElements)
  /\ cbMade \in Nat /\ cbBase \in BOOLEAN /\ cbCarried \in BOOLEAN /\ cbColumn \in Nat

(* The buttons of an open row are of the column that is loaded, or of the    *)
(* only one.                                                                 *)
RowOfColumn ==
  /\ cbRow # <<>> => cbBase
  /\ ~cbCarried /\ cbColumn <= Columns => \A i \in DOMAIN cbRow : cbRow[i].col = cbColumn
  /\ ~cbCarried /\ cbColumn > Columns /\ Columns = 1 => \A i \in DOMAIN cbRow : cbRow[i].col = 1

OwnColumn == ~cbCarried => \A c \in 1..Columns : \A i \in DOMAIN cbBoxes[c] : cbBoxes[c][i].col \in {0, c}

ButtonsInv == ButtonsType /\ RowOfColumn /\ OwnColumn /\ OnceEach(Numbering(cbBoxes, cbRow), cbMade)

(* A place is in a box or in the row, and has the number that stands there.  *)
IsPlace(p, boxes, row) ==
  \/ \E c \in 1..Columns : \E i \in 1..Len(boxes[c]) : p = <<c, i>>
  \/ \E i \in 1..Len(row) : p = <<0, i>>
IsNumbering(f, boxes, row) ==
  /\ \A p : p \in DOMAIN f <=> IsPlace(p, boxes, row)
  /\ \A c \in 1..Columns : \A i \in 1..Len(boxes[c]) : f[<<c, i>>] = boxes[c][i].n
  /\ \A i \in 1..Len(row) : f[<<0, i>>] = row[i].n

LEMMA NumberingIs ==
  ASSUME NEW boxes \in [1..Columns -> Seq(BtnElements)], NEW row \in Seq(BtnElements)
  PROVE  IsNumbering(Numbering(boxes, row), boxes, row)
<1>1. (\A c \in 1..Columns : DOMAIN boxes[c] = 1..Len(boxes[c])) /\ DOMAIN row = 1..Len(row)
  OBVIOUS
<1> DEFINE P == PlacesOf(boxes, row)
           N == Numbering(boxes, row)
<1>2. ASSUME NEW p PROVE p \in P <=> IsPlace(p, boxes, row)
  <2>1. p \in P <=> \/ \E c \in 1..Columns : p \in {c} \X (1..Len(boxes[c]))
                    \/ p \in {0} \X (1..Len(row))
    <3>1. p \in UNION {{c} \X DOMAIN boxes[c] : c \in 1..Columns}
            <=> \E c \in 1..Columns : p \in {c} \X DOMAIN boxes[c]
      BY Zenon
    <3>2. p \in P <=> p \in UNION {{c} \X DOMAIN boxes[c] : c \in 1..Columns} \/ p \in {0} \X DOMAIN row
      BY Zenon DEF PlacesOf
    <3> QED
      BY <1>1, <3>1, <3>2
  <2>2. ASSUME NEW c, NEW m PROVE p \in {c} \X (1..m) <=> \E i \in 1..m : p = <<c, i>>
    OBVIOUS
  <2>3. \A c \in 1..Columns : p \in {c} \X (1..Len(boxes[c])) <=> \E i \in 1..Len(boxes[c]) : p = <<c, i>>
    BY <2>2
  <2>4. p \in {0} \X (1..Len(row)) <=> \E i \in 1..Len(row) : p = <<0, i>>
    BY <2>2
  <2> HIDE DEF P
  <2> QED
    BY <2>1, <2>3, <2>4 DEF IsPlace
<1>3. DOMAIN N = P
  BY DEF Numbering
<1>4. ASSUME NEW c \in 1..Columns, NEW i \in 1..Len(boxes[c]) PROVE N[<<c, i>>] = boxes[c][i].n
  <2>1. <<c, i>> \in P
    BY <1>2 DEF IsPlace
  <2>2. c # 0 /\ <<c, i>>[1] = c /\ <<c, i>>[2] = i
    BY ColumnsAssumption
  <2> QED
    BY <2>1, <2>2 DEF Numbering
<1>5. ASSUME NEW i \in 1..Len(row) PROVE N[<<0, i>>] = row[i].n
  <2>1. <<0, i>> \in P
    BY <1>2 DEF IsPlace
  <2>2. <<0, i>>[1] = 0 /\ <<0, i>>[2] = i
    OBVIOUS
  <2> QED
    BY <2>1, <2>2 DEF Numbering
<1> HIDE DEF P, N
<1>6. \A p : p \in DOMAIN N <=> IsPlace(p, boxes, row)
  BY <1>2, <1>3
<1>7. IsNumbering(N, boxes, row)
  BY <1>4, <1>5, <1>6 DEF IsNumbering
<1> QED
  BY <1>7 DEF N

(* What moves with its number and one more at a new place.                   *)
LEMMA OneMorePlace ==
  ASSUME NEW f, NEW g, NEW m \in Nat, OnceEach(f, m),
         NEW h \in [DOMAIN f -> DOMAIN g], NEW last \in DOMAIN g,
         \A p \in DOMAIN f : g[h[p]] = f[p],
         g[last] = m + 1,
         \A q \in DOMAIN g : q = last \/ \E p \in DOMAIN f : q = h[p]
  PROVE  OnceEach(g, m + 1)
<1>1. \A q \in DOMAIN g : g[q] \in 1..(m + 1)
  BY DEF OnceEach
<1>2. ASSUME NEW p \in DOMAIN g, NEW q \in DOMAIN g, g[p] = g[q] PROVE p = q
  <2>1. \A x \in DOMAIN g : x = last \/ g[x] \in 1..m
    BY DEF OnceEach
  <2>2. CASE p = last \/ q = last
    BY <1>2, <2>1, <2>2
  <2>3. CASE p # last /\ q # last
    <3>1. PICK a \in DOMAIN f : p = h[a]
      BY <2>3
    <3>2. PICK b \in DOMAIN f : q = h[b]
      BY <2>3
    <3>3. f[a] = f[b]
      BY <1>2, <3>1, <3>2
    <3>4. a = b
      BY <3>3 DEF OnceEach
    <3> QED
      BY <3>1, <3>2, <3>4
  <2> QED
    BY <2>2, <2>3
<1>3. ASSUME NEW n \in 1..(m + 1) PROVE \E p \in DOMAIN g : g[p] = n
  <2>1. CASE n = m + 1
    BY <2>1
  <2>2. CASE n # m + 1
    <3>1. n \in 1..m
      BY <2>2
    <3>2. PICK p \in DOMAIN f : f[p] = n
      BY <3>1 DEF OnceEach
    <3>3. h[p] \in DOMAIN g /\ g[h[p]] = n
      BY <3>2
    <3> QED
      BY <3>3
  <2> QED
    BY <2>1, <2>2
<1> QED
  BY <1>1, <1>2, <1>3 DEF OnceEach

LEMMA ButtonsStart == CmdButtonsInit => ButtonsInv
<1> SUFFICES ASSUME CmdButtonsInit PROVE ButtonsInv
  OBVIOUS
<1>1. ButtonsType
  <2>1. <<>> \in Seq(BtnElements)
    OBVIOUS
  <2>2. cbBoxes \in [1..Columns -> Seq(BtnElements)]
    BY <2>1 DEF CmdButtonsInit
  <2>3. cbRow \in Seq(BtnElements)
    BY <2>1 DEF CmdButtonsInit
  <2> QED
    BY <2>2, <2>3 DEF CmdButtonsInit, ButtonsType
<1>2. RowOfColumn /\ OwnColumn
  BY DEF CmdButtonsInit, RowOfColumn, OwnColumn
<1>3. Len(cbRow) = 0 /\ \A c \in 1..Columns : Len(cbBoxes[c]) = 0
  BY DEF CmdButtonsInit
<1>4. IsNumbering(Numbering(cbBoxes, cbRow), cbBoxes, cbRow)
  BY <1>1, NumberingIs DEF ButtonsType
<1>5. cbMade = 0 /\ \A p : p \notin DOMAIN Numbering(cbBoxes, cbRow)
  <2>1. \A p : ~IsPlace(p, cbBoxes, cbRow)
    BY <1>3 DEF IsPlace
  <2> QED
    BY <1>4, <2>1, Zenon DEF CmdButtonsInit, IsNumbering
<1>6. OnceEach(Numbering(cbBoxes, cbRow), cbMade)
  BY <1>5 DEF OnceEach
<1> QED
  BY <1>1, <1>2, <1>6 DEF ButtonsInv

(* An element at the end of the row. *)
LEMMA RowLonger ==
  ASSUME NEW boxes \in [1..Columns -> Seq(BtnElements)], NEW row \in Seq(BtnElements), NEW m \in Nat,
         NEW b \in BtnElements, b.n = m + 1, OnceEach(Numbering(boxes, row), m)
  PROVE  OnceEach(Numbering(boxes, Append(row, b)), m + 1)
<1> DEFINE new == Append(row, b)
           f == Numbering(boxes, row)
           g == Numbering(boxes, new)
           last == <<0, Len(row) + 1>>
           h == [p \in DOMAIN f |-> p]
<1>1. new \in Seq(BtnElements) /\ Len(new) = Len(row) + 1 /\ Len(row) \in Nat
      /\ new[Len(row) + 1] = b /\ \A i \in 1..Len(row) : new[i] = row[i]
  OBVIOUS
<1> HIDE DEF new
<1>2. IsNumbering(f, boxes, row)
  BY NumberingIs
<1>3. IsNumbering(g, boxes, new)
  BY <1>1, NumberingIs
<1> HIDE DEF f, g
<1>4. last \in DOMAIN g /\ g[last] = m + 1
  <2>1. Len(row) + 1 \in 1..Len(new)
    BY <1>1
  <2> QED
    BY <1>1, <1>3, <2>1 DEF IsNumbering, IsPlace
<1>5. \A p \in DOMAIN f : p \in DOMAIN g /\ g[p] = f[p]
  <2> TAKE p \in DOMAIN f
  <2>1. CASE \E c \in 1..Columns : \E i \in 1..Len(boxes[c]) : p = <<c, i>>
    BY <1>2, <1>3, <2>1 DEF IsNumbering, IsPlace
  <2>2. CASE \E i \in 1..Len(row) : p = <<0, i>>
    <3>1. PICK i \in 1..Len(row) : p = <<0, i>>
      BY <2>2
    <3>2. i \in 1..Len(new) /\ new[i] = row[i]
      BY <1>1
    <3> QED
      BY <1>2, <1>3, <3>1, <3>2 DEF IsNumbering, IsPlace
  <2> QED
    BY <1>2, <2>1, <2>2 DEF IsNumbering, IsPlace
<1>6. \A q \in DOMAIN g : q = last \/ q \in DOMAIN f
  <2> TAKE q \in DOMAIN g
  <2>1. CASE \E c \in 1..Columns : \E i \in 1..Len(boxes[c]) : q = <<c, i>>
    BY <1>2, <2>1 DEF IsNumbering, IsPlace
  <2>2. CASE \E i \in 1..Len(new) : q = <<0, i>>
    <3>1. PICK i \in 1..Len(new) : q = <<0, i>>
      BY <2>2
    <3>2. i = Len(row) + 1 \/ i \in 1..Len(row)
      BY <1>1
    <3> QED
      BY <1>2, <3>1, <3>2 DEF IsNumbering, IsPlace
  <2> QED
    BY <1>3, <2>1, <2>2 DEF IsNumbering, IsPlace
<1>7. h \in [DOMAIN f -> DOMAIN g] /\ (\A p \in DOMAIN f : g[h[p]] = f[p])
      /\ \A q \in DOMAIN g : q = last \/ \E p \in DOMAIN f : q = h[p]
  BY <1>5, <1>6
<1> HIDE DEF h, last
<1>8. OnceEach(f, m)
  BY DEF f
<1>9. OnceEach(g, m + 1)
  BY <1>4, <1>7, <1>8, OneMorePlace
<1> QED
  BY <1>9 DEF g, new

(* An element at the end of a box, after the row r that is put there.        *)
LEMMA BoxLonger ==
  ASSUME NEW boxes \in [1..Columns -> Seq(BtnElements)], NEW row \in Seq(BtnElements), NEW m \in Nat,
         NEW b \in BtnElements, b.n = m + 1, OnceEach(Numbering(boxes, row), m), NEW c \in 1..Columns
  PROVE  OnceEach(Numbering([boxes EXCEPT ![c] = Append(@ \o row, b)], <<>>), m + 1)
<1> DEFINE col == boxes[c]
           whole == Append(col \o row, b)
           new == [boxes EXCEPT ![c] = whole]
           none == <<>>
           f == Numbering(boxes, row)
           g == Numbering(new, none)
           last == <<c, Len(col) + Len(row) + 1>>
           h == [p \in DOMAIN f |-> IF p[1] = 0 THEN <<c, Len(col) + p[2]>> ELSE p]
<1>1. col \in Seq(BtnElements) /\ Len(col) \in Nat /\ Len(row) \in Nat
  OBVIOUS
<1>2. whole \in Seq(BtnElements) /\ Len(whole) = Len(col) + Len(row) + 1
      /\ whole[Len(col) + Len(row) + 1] = b
      /\ (\A i \in 1..Len(col) : whole[i] = col[i])
      /\ \A i \in 1..Len(row) : whole[Len(col) + i] = row[i]
  BY <1>1
<1> HIDE DEF whole
<1>3. new \in [1..Columns -> Seq(BtnElements)] /\ new[c] = whole /\ \A d \in 1..Columns : d # c => new[d] = boxes[d]
  BY <1>2
<1>4. none \in Seq(BtnElements) /\ Len(none) = 0
  OBVIOUS
<1> HIDE DEF new, none
<1>5. IsNumbering(f, boxes, row)
  BY NumberingIs
<1>6. IsNumbering(g, new, none)
  BY <1>3, <1>4, NumberingIs
<1> HIDE DEF f, g
<1>7. /\ \A d \in 1..Columns : \A i \in 1..Len(new[d]) : <<d, i>> \in DOMAIN g /\ g[<<d, i>>] = new[d][i].n
      /\ \A q \in DOMAIN g : \E d \in 1..Columns : \E i \in 1..Len(new[d]) : q = <<d, i>>
  BY <1>4, <1>6 DEF IsNumbering, IsPlace
<1>8. last \in DOMAIN g /\ g[last] = m + 1
  <2>1. Len(col) + Len(row) + 1 \in 1..Len(new[c])
    BY <1>1, <1>2, <1>3
  <2> QED
    BY <1>2, <1>3, <1>7, <2>1
<1>9. ASSUME NEW i \in 1..Len(row)
      PROVE  h[<<0, i>>] = <<c, Len(col) + i>> /\ Len(col) + i \in 1..Len(new[c])
             /\ new[c][Len(col) + i] = row[i] /\ <<0, i>> \in DOMAIN f
  <2>1. <<0, i>> \in DOMAIN f
    BY <1>5 DEF IsNumbering, IsPlace
  <2>2. Len(col) + i \in 1..Len(new[c]) /\ new[c][Len(col) + i] = row[i]
    BY <1>1, <1>2, <1>3
  <2> QED
    BY <2>1, <2>2
<1>10. \A d \in 1..Columns : \A i \in 1..Len(boxes[d]) :
         h[<<d, i>>] = <<d, i>> /\ i \in 1..Len(new[d]) /\ new[d][i] = boxes[d][i] /\ <<d, i>> \in DOMAIN f
  <2> TAKE d \in 1..Columns
  <2> TAKE i \in 1..Len(boxes[d])
  <2>1. <<d, i>> \in DOMAIN f /\ d # 0
    BY <1>5, ColumnsAssumption DEF IsNumbering, IsPlace
  <2>2. h[<<d, i>>] = <<d, i>>
    BY <2>1
  <2>3. CASE d = c
    BY <1>1, <1>2, <1>3, <2>1, <2>2, <2>3
  <2>4. CASE d # c
    BY <1>3, <2>1, <2>2, <2>4
  <2> QED
    BY <2>3, <2>4
<1> HIDE DEF h
<1>11. \A p \in DOMAIN f : h[p] \in DOMAIN g /\ g[h[p]] = f[p]
  <2> TAKE p \in DOMAIN f
  <2>1. ASSUME NEW d \in 1..Columns, NEW i \in 1..Len(boxes[d])
        PROVE  h[<<d, i>>] \in DOMAIN g /\ g[h[<<d, i>>]] = f[<<d, i>>]
    <3>1. h[<<d, i>>] = <<d, i>> /\ i \in 1..Len(new[d]) /\ new[d][i] = boxes[d][i]
      BY <1>10
    <3>2. <<d, i>> \in DOMAIN g /\ g[<<d, i>>] = new[d][i].n /\ f[<<d, i>>] = boxes[d][i].n
      BY <1>5, <1>7, <3>1 DEF IsNumbering
    <3> QED
      BY <3>1, <3>2
  <2>2. ASSUME NEW i \in 1..Len(row)
        PROVE  h[<<0, i>>] \in DOMAIN g /\ g[h[<<0, i>>]] = f[<<0, i>>]
    <3> DEFINE j == Len(col) + i
    <3>1. h[<<0, i>>] = <<c, j>> /\ j \in 1..Len(new[c]) /\ new[c][j] = row[i]
      BY <1>9
    <3> HIDE DEF j
    <3>2. <<c, j>> \in DOMAIN g /\ g[<<c, j>>] = new[c][j].n /\ f[<<0, i>>] = row[i].n
      BY <1>5, <1>7, <3>1 DEF IsNumbering
    <3> QED
      BY <3>1, <3>2
  <2> QED
    BY <1>5, <2>1, <2>2 DEF IsNumbering, IsPlace
<1>12. ASSUME NEW q \in DOMAIN g PROVE q = last \/ \E p \in DOMAIN f : q = h[p]
  <2>0. PICK d \in 1..Columns : \E i \in 1..Len(new[d]) : q = <<d, i>>
    BY <1>7
  <2>1. PICK i \in 1..Len(new[d]) : q = <<d, i>>
    BY <2>0
  <2>2. CASE d # c
    BY <1>3, <1>10, <2>1, <2>2
  <2>3. CASE d = c /\ i <= Len(col)
    BY <1>1, <1>10, <2>1, <2>3
  <2>4. CASE d = c /\ i > Len(col) /\ i <= Len(col) + Len(row)
    <3>1. i - Len(col) \in 1..Len(row) /\ Len(col) + (i - Len(col)) = i
      BY <1>1, <2>4
    <3>2. h[<<0, i - Len(col)>>] = q /\ <<0, i - Len(col)>> \in DOMAIN f
      BY <1>9, <2>1, <2>4, <3>1
    <3> QED
      BY <3>2
  <2>5. CASE d = c /\ i > Len(col) + Len(row)
    BY <1>1, <1>2, <1>3, <2>1, <2>5
  <2> QED
    BY <1>1, <2>2, <2>3, <2>4, <2>5
<1>13. h \in [DOMAIN f -> DOMAIN g]
  BY <1>11 DEF h
<1>14. OnceEach(f, m)
  BY DEF f
<1> HIDE DEF last
<1>15. OnceEach(g, m + 1)
  BY <1>8, <1>11, <1>12, <1>13, <1>14, OneMorePlace
<1> QED
  BY <1>15 DEF g, new, none, whole

(* What `At' gives of the column, and what it leaves. *)
LEMMA AtColumn ==
  ASSUME ButtonsInv, NEW c \in 1..Columns, At(c)
  PROVE  /\ cbMade' = cbMade + 1 /\ cbMade' \in Nat /\ cbColumn' = cbColumn /\ cbCarried' \in BOOLEAN
         /\ cbCarried => cbCarried'
         /\ cbColumn <= Columns => c = cbColumn
         /\ cbColumn > Columns /\ ~cbCarried' /\ cbBase => Columns = 1
<1>1. cbMade \in Nat /\ cbColumn \in Nat /\ cbBase \in BOOLEAN /\ cbCarried \in BOOLEAN /\ Columns \in Nat
  BY ColumnsAssumption DEF ButtonsInv, ButtonsType
<1>2. cbMade' = cbMade + 1 /\ cbMade' \in Nat /\ cbColumn' = cbColumn
  BY <1>1 DEF At, Element
<1>3. CASE cbColumn <= Columns
  BY <1>1, <1>2, <1>3 DEF At
<1>4. CASE ~(cbColumn <= Columns)
  <2>1. cbCarried' = (cbCarried \/ (cbBase /\ Columns > 1))
    BY <1>4 DEF At
  <2>2. ~(Columns > 1) => Columns = 1
    BY <1>1
  <2> QED
    BY <1>1, <1>2, <1>4, <2>1, <2>2
<1> QED
  BY <1>3, <1>4

LEMMA RowStep ==
  ASSUME ButtonsInv, NEW c \in 1..Columns, NEW kind, AddToRow(c, kind)
  PROVE  ButtonsInv'
<1> DEFINE b == [col |-> c, n |-> cbMade + 1]
<1>1. /\ At(c) /\ cbBase' = TRUE /\ cbRow' = Append(cbRow, b) /\ cbBoxes' = cbBoxes
  BY DEF AddToRow, Button
<1>2. /\ cbMade' = cbMade + 1 /\ cbMade' \in Nat /\ cbColumn' = cbColumn /\ cbCarried' \in BOOLEAN
      /\ cbCarried => cbCarried'
      /\ cbColumn <= Columns => c = cbColumn
      /\ cbColumn > Columns /\ ~cbCarried' /\ cbBase => Columns = 1
  BY <1>1, AtColumn
<1>3. b \in BtnElements /\ b.n = cbMade + 1 /\ b.col = c
  BY <1>2, ColumnsAssumption DEF ButtonsInv, ButtonsType, BtnElements
<1> HIDE DEF b
<1>4. /\ cbBoxes \in [1..Columns -> Seq(BtnElements)] /\ cbRow \in Seq(BtnElements) /\ cbMade \in Nat
      /\ cbColumn \in Nat /\ cbCarried \in BOOLEAN
  BY DEF ButtonsInv, ButtonsType
<1>5. cbRow' \in Seq(BtnElements) /\ Len(cbRow') = Len(cbRow) + 1 /\ Len(cbRow) \in Nat
      /\ cbRow'[Len(cbRow) + 1] = b /\ \A i \in 1..Len(cbRow) : cbRow'[i] = cbRow[i]
  BY <1>1, <1>3, <1>4
<1>6. ButtonsType'
  BY <1>1, <1>2, <1>4, <1>5 DEF ButtonsType
<1>7. OnceEach(Numbering(cbBoxes, cbRow), cbMade)'
  <2>1. OnceEach(Numbering(cbBoxes, Append(cbRow, b)), cbMade + 1)
    BY <1>3, <1>4, RowLonger DEF ButtonsInv
  <2> QED
    BY <1>1, <1>2, <2>1
<1>8. ASSUME NEW k \in Nat, ~cbCarried', c = k, \A i \in DOMAIN cbRow : cbRow[i].col = k
      PROVE  \A i \in DOMAIN cbRow' : cbRow'[i].col = k
  <2> TAKE i \in DOMAIN cbRow'
  <2>1. i \in 1..Len(cbRow) \/ i = Len(cbRow) + 1
    BY <1>5
  <2>2. DOMAIN cbRow = 1..Len(cbRow)
    BY <1>4
  <2> QED
    BY <1>3, <1>5, <1>8, <2>1, <2>2
<1>9. RowOfColumn'
  <2>1. ASSUME ~cbCarried', cbColumn <= Columns PROVE \A i \in DOMAIN cbRow' : cbRow'[i].col = cbColumn
    <3>1. c = cbColumn /\ \A i \in DOMAIN cbRow : cbRow[i].col = cbColumn
      BY <1>2, <2>1 DEF ButtonsInv, RowOfColumn
    <3> QED
      BY <1>4, <1>8, <2>1, <3>1
  <2>2. ASSUME ~cbCarried', cbColumn > Columns, Columns = 1 PROVE \A i \in DOMAIN cbRow' : cbRow'[i].col = 1
    <3>1. c = 1 /\ \A i \in DOMAIN cbRow : cbRow[i].col = 1
      BY <1>2, <2>2 DEF ButtonsInv, RowOfColumn
    <3> QED
      BY <1>8, <2>2, <3>1
  <2> QED
    BY <1>1, <1>2, <2>1, <2>2 DEF RowOfColumn
<1>10. OwnColumn'
  BY <1>1, <1>2, <1>4 DEF ButtonsInv, OwnColumn
<1> QED
  BY <1>6, <1>7, <1>9, <1>10 DEF ButtonsInv

LEMMA BoxStep ==
  ASSUME ButtonsInv, NEW c \in 1..Columns, NEW kind, AddToBox(c, kind)
  PROVE  ButtonsInv'
<1> DEFINE b == [col |-> c, n |-> cbMade + 1]
           whole == Append(cbBoxes[c] \o cbRow, b)
<1>0. /\ cbBoxes \in [1..Columns -> Seq(BtnElements)] /\ cbRow \in Seq(BtnElements) /\ cbMade \in Nat
      /\ cbColumn \in Nat /\ cbCarried \in BOOLEAN /\ cbBase \in BOOLEAN
  BY DEF ButtonsInv, ButtonsType
<1>1. /\ At(c) /\ cbBase' = FALSE /\ cbRow' = <<>>
      /\ cbBoxes' = [cbBoxes EXCEPT ![c] = Append(IF cbBase THEN cbBoxes[c] \o cbRow ELSE cbBoxes[c], b)]
  BY DEF AddToBox, Button, RowPut
<1>2. cbBoxes' = [cbBoxes EXCEPT ![c] = whole]
  <2>1. CASE cbBase
    BY <1>1, <2>1
  <2>2. CASE ~cbBase
    <3>1. cbRow = <<>>
      BY <2>2 DEF ButtonsInv, RowOfColumn
    <3>2. cbBoxes[c] \o cbRow = cbBoxes[c]
      BY <1>0, <3>1
    <3> QED
      BY <1>1, <2>2, <3>2
  <2> QED
    BY <2>1, <2>2
<1>3. /\ cbMade' = cbMade + 1 /\ cbMade' \in Nat /\ cbColumn' = cbColumn /\ cbCarried' \in BOOLEAN
      /\ cbCarried => cbCarried'
      /\ cbColumn <= Columns => c = cbColumn
      /\ cbColumn > Columns /\ ~cbCarried' /\ cbBase => Columns = 1
  BY <1>1, AtColumn
<1>4. b \in BtnElements /\ b.n = cbMade + 1 /\ b.col = c
  BY <1>3, ColumnsAssumption DEF ButtonsInv, ButtonsType, BtnElements
<1> HIDE DEF b
<1>5. cbBoxes[c] \in Seq(BtnElements) /\ Len(cbBoxes[c]) \in Nat /\ Len(cbRow) \in Nat
  BY <1>0
<1>6. /\ whole \in Seq(BtnElements) /\ Len(whole) = Len(cbBoxes[c]) + Len(cbRow) + 1
      /\ whole[Len(cbBoxes[c]) + Len(cbRow) + 1] = b
      /\ \A i \in 1..Len(cbBoxes[c]) : whole[i] = cbBoxes[c][i]
      /\ \A i \in 1..Len(cbRow) : whole[Len(cbBoxes[c]) + i] = cbRow[i]
  BY <1>0, <1>4, <1>5
<1>7. OnceEach(Numbering(cbBoxes, cbRow), cbMade)'
  <2>1. OnceEach(Numbering([cbBoxes EXCEPT ![c] = Append(@ \o cbRow, b)], <<>>), cbMade + 1)
    BY <1>0, <1>4, BoxLonger DEF ButtonsInv
  <2> QED
    BY <1>1, <1>2, <1>3, <2>1
<1> HIDE DEF whole
<1>8. ButtonsType'
  <2>1. cbBoxes' \in [1..Columns -> Seq(BtnElements)]
    BY <1>0, <1>2, <1>6
  <2>2. cbRow' \in Seq(BtnElements) /\ cbBase' \in BOOLEAN
    <3>1. cbRow' = <<>> /\ cbBase' = FALSE
      BY <1>1, Zenon
    <3>2. <<>> \in Seq(BtnElements)
      OBVIOUS
    <3> QED
      BY <3>1, <3>2
  <2> QED
    BY <1>0, <1>3, <2>1, <2>2 DEF ButtonsType
<1>9. RowOfColumn'
  BY <1>1 DEF RowOfColumn
<1>10. ASSUME ~cbCarried', NEW d \in 1..Columns, NEW i \in DOMAIN cbBoxes'[d] PROVE cbBoxes'[d][i].col \in {0, d}
  <2>0. ~cbCarried /\ \A e \in 1..Columns : \A j \in DOMAIN cbBoxes[e] : cbBoxes[e][j].col \in {0, e}
    BY <1>0, <1>3, <1>10 DEF ButtonsInv, OwnColumn
  <2>1. CASE d # c
    BY <1>0, <1>2, <1>10, <2>0, <2>1
  <2>2. CASE d = c
    <3>1. cbBoxes'[d] = whole /\ i \in 1..(Len(cbBoxes[c]) + Len(cbRow) + 1)
      BY <1>0, <1>2, <1>6, <1>10, <2>2
    <3>2. \A j \in 1..Len(cbRow) : cbRow[j].col = c
      <4>1. SUFFICES ASSUME cbRow # <<>> PROVE \A j \in DOMAIN cbRow : cbRow[j].col = c
        BY <1>0
      <4>2. cbBase
        BY <4>1 DEF ButtonsInv, RowOfColumn
      <4>3. CASE cbColumn <= Columns
        BY <1>3, <2>0, <4>3 DEF ButtonsInv, RowOfColumn
      <4>4. CASE ~(cbColumn <= Columns)
        <5>1. cbColumn > Columns /\ Columns = 1 /\ c = 1
          BY <1>0, <1>3, <1>10, <4>2, <4>4, ColumnsAssumption
        <5> QED
          BY <2>0, <5>1 DEF ButtonsInv, RowOfColumn
      <4> QED
        BY <4>3, <4>4
    <3>3. CASE i \in 1..Len(cbBoxes[c])
      <4>1. i \in DOMAIN cbBoxes[c] /\ whole[i] = cbBoxes[c][i]
        BY <1>5, <1>6, <3>3
      <4> QED
        BY <2>0, <2>2, <3>1, <4>1
    <3>4. CASE i = Len(cbBoxes[c]) + Len(cbRow) + 1
      BY <1>4, <1>6, <2>2, <3>1, <3>4
    <3>5. CASE i > Len(cbBoxes[c]) /\ i <= Len(cbBoxes[c]) + Len(cbRow)
      <4>1. i - Len(cbBoxes[c]) \in 1..Len(cbRow) /\ Len(cbBoxes[c]) + (i - Len(cbBoxes[c])) = i
        BY <1>5, <3>1, <3>5
      <4>2. whole[i] = cbRow[i - Len(cbBoxes[c])]
        BY <1>6, <4>1
      <4> QED
        BY <2>2, <3>1, <3>2, <4>1, <4>2
    <3> QED
      BY <1>5, <3>1, <3>3, <3>4, <3>5
  <2> QED
    BY <2>1, <2>2
<1>11. OwnColumn'
  BY <1>10 DEF OwnColumn
<1> QED
  BY <1>7, <1>8, <1>9, <1>11 DEF ButtonsInv

(* A line is put into a box behind an empty row, which leaves the open one.  *)
LEMMA LineLonger ==
  ASSUME NEW boxes \in [1..Columns -> Seq(BtnElements)], NEW row \in Seq(BtnElements), NEW m \in Nat,
         NEW b \in BtnElements, b.n = m + 1, OnceEach(Numbering(boxes, row), m), NEW c \in 1..Columns
  PROVE  OnceEach(Numbering([boxes EXCEPT ![c] = Append(@, b)], row), m + 1)
<1> DEFINE col == boxes[c]
           whole == Append(col, b)
           new == [boxes EXCEPT ![c] = whole]
           f == Numbering(boxes, row)
           g == Numbering(new, row)
           last == <<c, Len(col) + 1>>
           h == [p \in DOMAIN f |-> p]
<1>1. col \in Seq(BtnElements) /\ Len(col) \in Nat
  OBVIOUS
<1>2. whole \in Seq(BtnElements) /\ Len(whole) = Len(col) + 1 /\ whole[Len(col) + 1] = b
      /\ (\A i \in 1..Len(col) : whole[i] = col[i])
  BY <1>1
<1> HIDE DEF whole
<1>3. new \in [1..Columns -> Seq(BtnElements)] /\ new[c] = whole /\ \A d \in 1..Columns : d # c => new[d] = boxes[d]
  BY <1>2
<1> HIDE DEF new
<1>4. IsNumbering(f, boxes, row)
  BY NumberingIs
<1>5. IsNumbering(g, new, row)
  BY <1>3, NumberingIs
<1> HIDE DEF f, g
<1>6. last \in DOMAIN g /\ g[last] = m + 1
  <2>1. Len(col) + 1 \in 1..Len(new[c])
    BY <1>1, <1>2, <1>3
  <2> QED
    BY <1>2, <1>3, <1>5, <2>1 DEF IsNumbering, IsPlace
<1>7. \A d \in 1..Columns : \A i \in 1..Len(boxes[d]) : i \in 1..Len(new[d]) /\ new[d][i] = boxes[d][i]
  <2> TAKE d \in 1..Columns
  <2> TAKE i \in 1..Len(boxes[d])
  <2>1. CASE d = c
    BY <1>1, <1>2, <1>3, <2>1
  <2>2. CASE d # c
    BY <1>3, <2>2
  <2> QED
    BY <2>1, <2>2
<1>8. \A d \in 1..Columns : \A i \in 1..Len(new[d]) : i \in 1..Len(boxes[d]) \/ (d = c /\ i = Len(col) + 1)
  <2> TAKE d \in 1..Columns
  <2> TAKE i \in 1..Len(new[d])
  <2>1. CASE d = c
    BY <1>1, <1>2, <1>3, <2>1
  <2>2. CASE d # c
    BY <1>3, <2>2
  <2> QED
    BY <2>1, <2>2
<1>9. \A p \in DOMAIN f : p \in DOMAIN g /\ g[p] = f[p]
  <2> TAKE p \in DOMAIN f
  <2>1. ASSUME NEW d \in 1..Columns, NEW i \in 1..Len(boxes[d])
        PROVE  <<d, i>> \in DOMAIN g /\ g[<<d, i>>] = f[<<d, i>>]
    <3>1. i \in 1..Len(new[d]) /\ new[d][i] = boxes[d][i]
      BY <1>7
    <3>2. g[<<d, i>>] = new[d][i].n /\ <<d, i>> \in DOMAIN g
      BY <1>5, <3>1 DEF IsNumbering, IsPlace
    <3>3. f[<<d, i>>] = boxes[d][i].n
      BY <1>4 DEF IsNumbering
    <3> QED
      BY <3>1, <3>2, <3>3
  <2>2. ASSUME NEW i \in 1..Len(row) PROVE <<0, i>> \in DOMAIN g /\ g[<<0, i>>] = f[<<0, i>>]
    BY <1>4, <1>5 DEF IsNumbering, IsPlace
  <2> QED
    BY <1>4, <2>1, <2>2 DEF IsNumbering, IsPlace
<1>10. \A q \in DOMAIN g : q = last \/ q \in DOMAIN f
  <2> TAKE q \in DOMAIN g
  <2>1. ASSUME NEW d \in 1..Columns, NEW i \in 1..Len(new[d]) PROVE <<d, i>> = last \/ <<d, i>> \in DOMAIN f
    BY <1>4, <1>8 DEF IsNumbering, IsPlace
  <2>2. ASSUME NEW i \in 1..Len(row) PROVE <<0, i>> \in DOMAIN f
    BY <1>4 DEF IsNumbering, IsPlace
  <2> QED
    BY <1>5, <2>1, <2>2 DEF IsNumbering, IsPlace
<1>11. h \in [DOMAIN f -> DOMAIN g] /\ (\A p \in DOMAIN f : g[h[p]] = f[p])
      /\ \A q \in DOMAIN g : q = last \/ \E p \in DOMAIN f : q = h[p]
  BY <1>9, <1>10
<1> HIDE DEF h, last
<1>12. OnceEach(f, m)
  BY DEF f
<1>13. OnceEach(g, m + 1)
  BY <1>6, <1>11, <1>12, OneMorePlace
<1> QED
  BY <1>13 DEF g, new, whole

LEMMA LineStep ==
  ASSUME ButtonsInv, NEW c \in 1..Columns, AddSeparatorElement(c)
  PROVE  ButtonsInv'
<1> DEFINE b == [col |-> 0, n |-> cbMade + 1]
           whole == Append(cbBoxes[c], b)
<1>0. /\ cbBoxes \in [1..Columns -> Seq(BtnElements)] /\ cbRow \in Seq(BtnElements) /\ cbMade \in Nat
      /\ cbColumn \in Nat /\ cbCarried \in BOOLEAN /\ cbBase \in BOOLEAN
  BY DEF ButtonsInv, ButtonsType
<1>1. At(c) /\ cbBase' = cbBase /\ cbRow' = cbRow /\ cbBoxes' = [cbBoxes EXCEPT ![c] = whole]
  BY DEF AddSeparatorElement, Line
<1>3. /\ cbMade' = cbMade + 1 /\ cbMade' \in Nat /\ cbColumn' = cbColumn /\ cbCarried' \in BOOLEAN
      /\ cbCarried => cbCarried'
  BY <1>1, AtColumn
<1>4. b \in BtnElements /\ b.n = cbMade + 1 /\ b.col = 0
  BY <1>3 DEF BtnElements
<1> HIDE DEF b
<1>5. cbBoxes[c] \in Seq(BtnElements) /\ Len(cbBoxes[c]) \in Nat
  BY <1>0
<1>6. /\ whole \in Seq(BtnElements) /\ Len(whole) = Len(cbBoxes[c]) + 1
      /\ whole[Len(cbBoxes[c]) + 1] = b
      /\ \A i \in 1..Len(cbBoxes[c]) : whole[i] = cbBoxes[c][i]
  BY <1>4, <1>5
<1>7. OnceEach(Numbering(cbBoxes, cbRow), cbMade)'
  <2>1. OnceEach(Numbering([cbBoxes EXCEPT ![c] = Append(@, b)], cbRow), cbMade + 1)
    BY <1>0, <1>4, LineLonger DEF ButtonsInv
  <2> QED
    BY <1>1, <1>3, <2>1
<1> HIDE DEF whole
<1>8. ButtonsType'
  BY <1>0, <1>1, <1>3, <1>6 DEF ButtonsType
<1>9. RowOfColumn'
  BY <1>0, <1>1, <1>3 DEF ButtonsInv, RowOfColumn
<1>10. ASSUME ~cbCarried', NEW d \in 1..Columns, NEW i \in DOMAIN cbBoxes'[d] PROVE cbBoxes'[d][i].col \in {0, d}
  <2>0. ~cbCarried /\ \A e \in 1..Columns : \A j \in DOMAIN cbBoxes[e] : cbBoxes[e][j].col \in {0, e}
    BY <1>0, <1>3, <1>10 DEF ButtonsInv, OwnColumn
  <2>1. CASE d # c
    BY <1>0, <1>1, <1>10, <2>0, <2>1
  <2>2. CASE d = c
    <3>1. cbBoxes'[d] = whole /\ i \in 1..(Len(cbBoxes[c]) + 1)
      BY <1>0, <1>1, <1>6, <1>10, <2>2
    <3>2. CASE i \in 1..Len(cbBoxes[c])
      <4>1. i \in DOMAIN cbBoxes[c] /\ whole[i] = cbBoxes[c][i]
        BY <1>5, <1>6, <3>2
      <4> QED
        BY <2>0, <2>2, <3>1, <4>1
    <3>3. CASE i = Len(cbBoxes[c]) + 1
      BY <1>4, <1>6, <2>2, <3>1, <3>3
    <3> QED
      BY <1>5, <3>1, <3>2, <3>3
  <2> QED
    BY <2>1, <2>2
<1>11. OwnColumn'
  BY <1>10 DEF OwnColumn
<1> QED
  BY <1>7, <1>8, <1>9, <1>11 DEF ButtonsInv

LEMMA ButtonsStep == ButtonsInv /\ [CmdButtonsNext]_cbVars => ButtonsInv'
<1> SUFFICES ASSUME ButtonsInv, [CmdButtonsNext]_cbVars PROVE ButtonsInv'
  OBVIOUS
<1>1. CASE NextColumn
  <2>1. ButtonsType /\ Columns \in Nat
    BY ColumnsAssumption DEF ButtonsInv
  <2>2. /\ cbColumn' = cbColumn + 1 /\ cbCarried' = (cbCarried \/ cbBase) /\ cbColumn <= Columns
        /\ cbBoxes' = cbBoxes /\ cbRow' = cbRow /\ cbBase' = cbBase /\ cbMade' = cbMade
    BY <1>1 DEF NextColumn
  <2>3. ButtonsType' /\ (~cbCarried' => ~cbCarried /\ cbRow = <<>>)
    BY <2>1, <2>2 DEF ButtonsType, ButtonsInv, RowOfColumn
  <2>4. RowOfColumn' /\ OwnColumn'
    BY <2>2, <2>3 DEF ButtonsInv, RowOfColumn, OwnColumn
  <2>5. OnceEach(Numbering(cbBoxes, cbRow), cbMade)'
    BY <2>2 DEF ButtonsInv
  <2> QED
    BY <2>3, <2>4, <2>5 DEF ButtonsInv
<1>2. ASSUME NEW c \in 1..Columns, AddSeparatorElement(c) PROVE ButtonsInv'
  BY <1>2, LineStep
<1>3. ASSUME NEW c \in 1..Columns, NEW kind \in Kinds3, AddToRow(c, kind) PROVE ButtonsInv'
  BY <1>3, RowStep
<1>4. ASSUME NEW c \in 1..Columns, NEW kind \in Kinds3, AddToBox(c, kind) PROVE ButtonsInv'
  BY <1>4, BoxStep
<1>5. CASE UNCHANGED cbVars
  <2>1. /\ cbColumn' = cbColumn /\ cbCarried' = cbCarried
        /\ cbBoxes' = cbBoxes /\ cbRow' = cbRow /\ cbBase' = cbBase /\ cbMade' = cbMade
    BY <1>5 DEF cbVars
  <2>2. OnceEach(Numbering(cbBoxes, cbRow), cbMade)'
    BY <2>1 DEF ButtonsInv
  <2> QED
    BY <2>1, <2>2 DEF ButtonsInv, ButtonsType, RowOfColumn, OwnColumn
<1> QED
  BY <1>1, <1>2, <1>3, <1>4, <1>5 DEF CmdButtonsNext

LEMMA ButtonsInvStands == ButtonsInv => ButtonsStand
<1> SUFFICES ASSUME ButtonsInv PROVE ButtonsStand
  OBVIOUS
<1>1. cbBoxes \in [1..Columns -> Seq(BtnElements)] /\ cbRow \in Seq(BtnElements)
  BY DEF ButtonsInv, ButtonsType
<1> DEFINE f == Numbering(cbBoxes, cbRow)
<1>2. DOMAIN f = InBoxes \cup InRow /\ \A p \in DOMAIN f : f[p] = Standing(p).n
  BY DEF Numbering, PlacesOf, InBoxes, InRow, Standing
<1>3. OnceEach(f, cbMade)
  BY DEF ButtonsInv
<1> HIDE DEF f
<1>4. \A n \in 1..cbMade : \E p \in InBoxes \cup InRow : Standing(p).n = n
  BY <1>2, <1>3 DEF OnceEach
<1>5. \A p, q \in InBoxes \cup InRow : Standing(p).n = Standing(q).n => p = q
  BY <1>2, <1>3 DEF OnceEach
<1> QED
  BY <1>4, <1>5 DEF ButtonsInv, RowOfColumn, OwnColumn, ButtonsStand

-----------------------------------------------------------------------------
(* The command executor as the run checks it, its three parts side by side:  *)
(* after every edit, deletion, save and reload the store, the notebook and   *)
(* the file name the same pages and commands, parameters are saved and       *)
(* substituted in their own places as long as their lengths fit, and every   *)
(* command has one button, in its column (CmdExecutor.cpp, CmdExecutorPanel).*)
THEOREM CommandsAreSafe == MCSpec => []CommandsSafe
<1> DEFINE AllInv == PagesInv /\ ParamsInv /\ ButtonsInv
<1>1. MCInit => AllInv
  BY PagesStart, ParamsStart, ButtonsStart, Zenon DEF MCInit
<1>2. AllInv /\ [MCNext]_<<part, cmVars, mcVars, sfVars, geVars>> => AllInv'
  <2> SUFFICES ASSUME AllInv, [MCNext]_<<part, cmVars, mcVars, sfVars, geVars>>
               PROVE  AllInv'
    OBVIOUS
  <2>1. [CmdPagesNext]_cxVars /\ [CmdParamsNext]_cpVars /\ [CmdButtonsNext]_cbVars
    <3>1. CASE MCNext
      BY <3>1, Zenon DEF MCNext, cmVars
    <3>2. CASE UNCHANGED <<part, cmVars, mcVars, sfVars, geVars>>
      BY <3>2, Zenon DEF cmVars
    <3> QED
      BY <3>1, <3>2
  <2>2. PagesInv'
    BY <2>1, PagesStep, Zenon
  <2>3. ParamsInv'
    BY <2>1, ParamsStep, Zenon
  <2>4. ButtonsInv'
    BY <2>1, ButtonsStep, Zenon
  <2> QED
    BY <2>2, <2>3, <2>4
<1>3. AllInv => CommandsSafe
  BY PagesAreSafe, ParamsAreSafe, ButtonsInvStands, Zenon DEF CommandsSafe
<1> QED
  BY <1>1, <1>2, <1>3, PTL DEF MCSpec
=============================================================================
