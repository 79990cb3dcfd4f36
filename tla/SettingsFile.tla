---------------------------- MODULE SettingsFile ----------------------------
(***************************************************************************)
(* settings.ini: Settings::LoadFile and SaveFile (src/src/Settings.cpp),   *)
(* and the settings panel (ComTcpPanel, src/src/gui/Configuration.cpp).    *)
(* The settings are classes, of which each name below stands for those     *)
(* that are loaded, saved, shown and applied alike:                        *)
(*   macros      the applications with macros, a number                    *)
(*   com         ports, sensors: on the panel, loaded early                *)
(*   port        COM of COM_Backend and of CANSender: on the panel a list of  *)
(*               the ports that are there, loaded early                    *)
(*   can         CAN AutoSend, AutoRecord and levels: the panel applies    *)
(*               them and UpdatePanel does not show them                   *)
(*   connection  of ModbusMaster ConnectionType, TcpIp, TcpPort,           *)
(*               ResponseTimeout: read and never written                   *)
(*   app         MinimizeOnExit and so on: on the panel, loaded late       *)
(*   filters     LogFilters and the like: in the file only                 *)
(*   exclusions  of AntiLock: an empty one leaves the old list             *)
(*   backups     their number, cleared when their turn to load comes       *)
(*   buffers     BufferSize of the backups, which is loaded as a flag      *)
(*   pages       UsedPages: none would hide everything                     *)
(* Memory, panel and file are functions over them; None is a key that the  *)
(* file does not have.                                                     *)
(***************************************************************************)
EXTENDS Integers, Sequences, SequencesExt

CONSTANTS Levels,      \* the values of a setting, 0 the one compiled in
          MaxChanges   \* bound: what the user changes

None == -1
COM0 == -2       \* the port that atoi makes of the name of any
LoadOrder == <<"macros", "com", "port", "can", "connection", "app", "filters", "exclusions",
               "backups", "buffers", "pages">>
All == ToSet(LoadOrder)
Shown == {"com", "port", "app"}       \* by UpdatePanel
OnPanel == Shown \cup {"can"}         \* applied by Save
WrittenKeys == All \ {"connection"}

VARIABLES
  sfFile,      \* [All -> Levels \cup {None}], or <<>>: there is no file
  sfMem,       \* [All -> Levels]
  sfPanel,     \* [OnPanel -> Levels]
  sfPorts,     \* the ports in the panel's lists, and the first of them
  sfEcu,       \* the ECU id typed in is a number
  sfRun,       \* the program: "off", "on"
  sfChanges,
  sfWanted,    \* history: what the user last gave to a setting and saved
  sfTouched,   \* history: the settings he changed since, in memory or panel
  sfByHand,    \* history: those he changed in the file since the last load
  sfSpoiled    \* history: those a known fault may have changed: see below

sfVars == <<sfFile, sfMem, sfPanel, sfPorts, sfEcu, sfRun, sfChanges, sfWanted, sfTouched, sfByHand, sfSpoiled>>

CompiledIn == [s \in All |-> 0]
DefaultFile == [s \in All |-> IF s \in {"macros", "backups", "pages"} THEN 1
                              ELSE IF s = "buffers" THEN 2
                              ELSE IF s = "connection" THEN None ELSE 0]

(* SaveFile: without applications there is no section Keys_Global either.    *)
WrittenNow == [s \in All |-> IF s \notin WrittenKeys \/ (s = "macros" /\ sfMem[s] = 0) THEN None ELSE sfMem[s]]

(* LoadExclusions leaves the old list when there is nothing in the new one,  *)
(* and BufferSize, a number, is loaded as a flag.                            *)
Excluded(old, new) == IF new = 0 THEN old ELSE new
LoadedValue(s, old, new) ==
  CASE s = "exclusions" -> Excluded(old, new)
    [] s = "buffers"    -> IF new = 0 THEN 0 ELSE 1
    [] OTHER            -> new
Altered(file, mem) == {s \in {"exclusions", "buffers"} : LoadedValue(s, mem[s], file[s]) # file[s]}

(* The loads of `file' over `mem' that can be: up to a key that is missing,  *)
(* and where the missing key is looked up with find(), with whatever is read *)
(* at its end taken for its value and the rest loaded.                       *)
LoadUpTo(file, mem, n) ==
  [s \in All |-> LET i == CHOOSE j \in DOMAIN LoadOrder : LoadOrder[j] = s
                 IN  IF i < n THEN LoadedValue(s, mem[s], file[s])
                     ELSE IF s = "macros" THEN 0 ELSE mem[s]]
Outcomes(file, mem) ==
  LET whole == Len(LoadOrder) + 1
  IN  IF file["macros"] = None THEN {[mem |-> LoadUpTo(file, mem, 1), spoiled |-> All]}
      ELSE IF file["connection"] # None THEN {[mem |-> LoadUpTo(file, mem, whole), spoiled |-> Altered(file, mem)]}
      ELSE {[mem |-> LoadUpTo(file, mem, 5), spoiled |-> All]} \cup
           {[mem |-> LoadUpTo([file EXCEPT !["connection"] = v], mem, whole), 
              spoiled |-> {"connection"} \cup Altered(file, mem)] : v \in Levels}
(* "Enable at least the Log panel if everything is disabled". *)
WithLog(mem) == [mem EXCEPT !["pages"] = IF @ = 0 THEN 1 ELSE @]

(* The ports that a list of the panel can have, and what is chosen in it:    *)
(* the port in memory, or the first when that one is not there.              *)
PortLists ==
  {p \in [listed : SUBSET Levels, first : Levels \cup {None}] :
     IF p.listed = {} THEN p.first = None ELSE p.first \in p.listed}
NoPorts == [listed |-> {}, first |-> None]
Choice(ports, port) == IF port \in ports.listed THEN port ELSE ports.first

UpdatePanelNever(old, mem, ports) == old      \* mutant: the panel keeps what it shows
UpdatePanel(old, mem, ports) ==
  [s \in OnPanel |-> IF s = "port" THEN Choice(ports, mem[s]) ELSE IF s \in Shown THEN mem[s] ELSE old[s]]

-----------------------------------------------------------------------------
SettingsInit ==
  /\ sfFile \in {<<>>, [DefaultFile EXCEPT !["connection"] = 0]}
  /\ sfMem = CompiledIn /\ sfPanel = [s \in OnPanel |-> 0] /\ sfEcu = TRUE
  /\ sfPorts = NoPorts
  /\ sfRun = "off" /\ sfChanges = 0
  /\ sfWanted = [DefaultFile EXCEPT !["connection"] = 0]
  /\ sfTouched = {} /\ sfByHand = {} /\ sfSpoiled = {}

Running == sfRun = "on"

(* Load, of a file that is written first when there is none.                 *)
SettingsLoadFile(mem) ==
  LET file == IF sfFile = <<>> THEN DefaultFile ELSE sfFile
  IN  /\ sfFile' = file /\ sfByHand' = {}
      /\ \E out \in Outcomes(file, mem) : sfMem' = WithLog(out.mem) /\ sfSpoiled' = sfSpoiled \cup out.spoiled

Start ==
  /\ sfRun = "off" /\ sfRun' = "on"
  /\ SettingsLoadFile(CompiledIn)
  /\ sfPorts' \in PortLists
  /\ sfPanel' = UpdatePanel([s \in OnPanel |-> 0], sfMem', sfPorts') /\ sfEcu' = TRUE
  /\ sfTouched' = {}
  /\ UNCHANGED <<sfChanges, sfWanted>>

(* The tray's Reload.  What is typed into the panel and not saved is gone,   *)
(* of what the panel shows.                                                  *)
OnReload ==
  /\ Running
  /\ SettingsLoadFile(sfMem)
  /\ sfPorts' \in PortLists
  /\ sfPanel' = UpdatePanel(sfPanel, sfMem', sfPorts') /\ sfEcu' = TRUE
  /\ sfTouched' = sfTouched \cap {"can"}
  /\ UNCHANGED <<sfRun, sfChanges, sfWanted>>

(* The end of the program, or a crash, which the missing key of a load may   *)
(* be too: nothing is saved, and what is in memory is gone.                  *)
SettingsExit ==
  /\ Running /\ sfRun' = "off"
  /\ sfMem' = CompiledIn /\ sfPanel' = [s \in OnPanel |-> 0] /\ sfPorts' = NoPorts /\ sfEcu' = TRUE
  /\ sfTouched' = {}
  /\ UNCHANGED <<sfFile, sfChanges, sfWanted, sfByHand, sfSpoiled>>

-----------------------------------------------------------------------------
(* The user. *)
ChangeSetting(s) ==
  /\ sfChanges < MaxChanges /\ sfChanges' = sfChanges + 1
  /\ sfTouched' = sfTouched \cup {s}
  /\ Running
  /\ UNCHANGED <<sfFile, sfPorts, sfRun, sfWanted, sfByHand, sfSpoiled>>

TypeInPanel(s, v) == ChangeSetting(s) /\ sfPanel' = [sfPanel EXCEPT ![s] = v] /\ UNCHANGED <<sfMem, sfEcu>>
TypeEcuId == ChangeSetting("com") /\ sfEcu' = FALSE /\ UNCHANGED <<sfMem, sfPanel>>

(* In other panels and dialogs, which change the memory: the macros, the     *)
(* backups and their buffers, the exclusions, the used pages, the log's      *)
(* filters.                                                                  *)
Elsewhere == {"macros", "filters", "exclusions", "backups", "buffers", "pages"}
ChangeElsewhere(s, v) ==
  /\ ChangeSetting(s)
  /\ sfMem' = [sfMem EXCEPT ![s] = IF s = "exclusions" THEN Excluded(@, v) ELSE v]
  /\ UNCHANGED <<sfPanel, sfEcu>>

(* By hand, in the file. *)
EditFile(s, v) ==
  /\ sfChanges < MaxChanges /\ sfChanges' = sfChanges + 1
  /\ sfFile # <<>>
  /\ sfFile' = [sfFile EXCEPT ![s] = v] /\ sfWanted' = [sfWanted EXCEPT ![s] = v]
  /\ sfByHand' = sfByHand \cup {s}
  /\ UNCHANGED <<sfMem, sfPanel, sfPorts, sfEcu, sfRun, sfTouched, sfSpoiled>>

InMemory == sfTouched \ OnPanel      \* what was changed in memory

(* SaveFile: over what was changed by hand and not loaded, too.  `given' is  *)
(* what the user gave to be saved now, in the panel or in memory.            *)
Kept(s, given) == IF s \in given \cap OnPanel THEN sfPanel[s] ELSE sfMem[s]
SettingsSaveFile(given) ==
  /\ sfFile' = WrittenNow'
  /\ sfWanted' = [s \in All |-> IF s \in (given \cup sfByHand) \cap WrittenKeys THEN Kept(s, given) ELSE sfWanted[s]]
  /\ sfTouched' = (sfTouched \cap OnPanel) \ {s \in OnPanel : sfMem'[s] = sfPanel[s]}
  /\ sfByHand' = sfByHand \ WrittenKeys
  /\ sfSpoiled' = (sfSpoiled \ given) \cup {s \in {"can", "port"} : sfMem'[s] # Kept(s, given)}

(* What Save of the panel puts into memory.  A port is taken only when it is *)
(* not the first of its list, and then its number is read from the third     *)
(* letter of "COM3 (...)" on, where there is none.                           *)
PortChosen == sfPanel["port"] \in sfPorts.listed \ {sfPorts.first}
Applied(s) == IF s = "port" THEN IF PortChosen THEN COM0 ELSE sfMem[s] ELSE sfPanel[s]

(* Save of the settings panel, up to the ECU id, and then the rest and the   *)
(* file.                                                                     *)
SaveClick ==
  /\ Running /\ sfEcu
  /\ sfMem' = [s \in All |-> IF s \in OnPanel THEN Applied(s) ELSE sfMem[s]]
  /\ SettingsSaveFile(sfTouched)
  /\ UNCHANGED <<sfPanel, sfPorts, sfEcu, sfRun, sfChanges>>

(* An id that is no number throws out of the handler, before the file is     *)
(* written: the program ends, and with it what Save had applied.             *)
SaveClickThrows == ~sfEcu /\ SettingsExit

(* Save of the macro panel, Save everything of the menu: what was typed into *)
(* the settings panel stays there.                                           *)
SaveElsewhere ==
  /\ Running /\ UNCHANGED sfMem /\ SettingsSaveFile(InMemory)
  /\ UNCHANGED <<sfPanel, sfPorts, sfEcu, sfRun, sfChanges>>

SettingsNext ==
  \/ Start \/ OnReload \/ SettingsExit \/ TypeEcuId \/ SaveClick \/ SaveClickThrows \/ SaveElsewhere
  \/ \E v \in Levels : \/ \E s \in OnPanel : TypeInPanel(s, v)
                       \/ \E s \in Elsewhere : ChangeElsewhere(s, v)
                       \/ \E s \in {"connection", "filters", "port"} : EditFile(s, v)
  \/ ChangeElsewhere("buffers", 2)

SettingsSpec == SettingsInit /\ [][SettingsNext]_sfVars

-----------------------------------------------------------------------------
(* Properties, of the settings that no known fault has touched since the     *)
(* user last gave them.  The faults are six: a load that is cut short (no    *)
(* application in the file, or no key of the Modbus connection, which no     *)
(* save writes) leaves the rest as compiled in, for the next save to write;  *)
(* one that is not cut short there has read the connection from nowhere; no  *)
(* exclusions in the file do not empty the list; a BufferSize of more than 1 *)
(* is loaded as 1; Save of the panel writes the CAN settings that it does    *)
(* not show; and it makes COM0 of any COM port but the first of the list,    *)
(* which it does not take at all.                                            *)

(* The file keeps what the user gave to a setting and saved, through any     *)
(* reloads, restarts and saves of other settings.                            *)
Given(s) == WithLog(sfWanted)[s]
FileKeeps ==
  sfFile # <<>> => \A s \in WrittenKeys \ sfSpoiled :
    \/ sfFile[s] \in {sfWanted[s], Given(s)}
    \/ s = "macros" /\ sfFile[s] = None /\ sfWanted[s] = 0

(* Memory has it too, from the load on, but for what was changed in it and   *)
(* is not saved yet, or in the file and not loaded yet.                      *)
MemoryKeeps ==
  Running => \A s \in All \ (sfSpoiled \cup InMemory \cup sfByHand) : sfMem[s] \in {sfWanted[s], Given(s)}

(* And the panel shows it, or what the user is typing; of the ports the      *)
(* first, while the one in memory is not there.                              *)
PanelKeeps ==
  Running =>
    /\ \A s \in Shown \ (sfTouched \cup {"port"}) : sfPanel[s] = sfMem[s]
    /\ "port" \notin sfTouched \cup sfSpoiled => sfPanel["port"] \in {sfMem["port"], Choice(sfPorts, sfMem["port"])}

SettingsKept == FileKeeps /\ MemoryKeeps /\ PanelKeeps
=============================================================================
