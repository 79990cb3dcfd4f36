----------------------------- MODULE MCServices -----------------------------
(* The services of the program that share no state, for TLC, side by side:   *)
(* `part' says which of them this behaviour is of, and the others stay in    *)
(* one initial state.                                                        *)
EXTENDS DataSender, DataLines, TcpServer, Sensors, MacroKeys, PowerSaver, BackupRuns,
        ModbusItems, BitEditor, RegisterEditor, AppExit,
        KeyReports, LogEntries

VARIABLE part

F(off, len, type) == [off |-> off, len |-> len, type |-> type]

(* Rows out of order, at one offset, of an unknown type, a float before an   *)
(* integer; loaded one after the other, more fields than there are inputs    *)
(* and two that overlap.                                                     *)
MCFrameMaps == {<<F(2, 5, "u64"), F(0, 2, "u8"), F(0, 3, "u8")>>,
                <<F(4, 2, "i8"), F(2, 2, "float"), F(6, 1, "?")>>}
MCRegisterMaps == {<<>>, <<F(0, 2, "u8"), F(2, 2, "i8")>>, <<F(0, 8, "u64"), F(3, 2, "float")>>,
                   <<F(0, 1, "u8"), F(1, 1, "u8"), F(2, 2, "u8")>>}

MCSources == {"a", "ab"}
MCPrefixOf == {<<"a", "ab">>}
MCOrderOf == [s \in MCSources |-> IF s = "a" THEN 1 ELSE 2]
MCDestinations == [s \in MCSources |-> IF s = "a" THEN <<"d", "e">> ELSE <<"e">>]

MCInit ==
  /\ part \in {"data sender", "data lines", "tcp", "sensors", "macro keys", "power", "backups",
              "items", "bits", "registers", "exit",
              "reports", "log"}
  /\ DataLinesInit /\ TcpInit /\ MacroKeysInit /\ AppInit /\ LogInit
  /\ KeyReportsInit /\ (part # "reports" => krAdvanced /\ ~krForward)
  /\ SensorsInit /\ (part # "sensors" => snRows = 0)
  /\ PowerInit /\ (part # "power" => psTimeout = 1)
  /\ BitEditorInit /\ (part # "bits" => beTx.size = 2 /\ beMap[1].off = 0)
  /\ RegisterEditorInit /\ (part # "registers" => reMap = <<>>)
  /\ ItemsInit /\ (part # "items" => Len(miItems) = 1 /\ \A k \in {1} :
                                       miItems[k].type = "uint16_t" /\ miItems[k].fav = 0)
  /\ DataSenderInit /\ (part # "data sender" => Len(dsEntries) = 1 /\ dsEntries[1].auto
                                                  /\ dsEntries[1].count = 1 /\ dsEntries[1].idle)
  /\ BackupInit     \* two are kept and the hashes compared; or fewer are kept
  /\ \A s \in Sources : \/ bkMax[s] = 2 /\ bkHash[s] /\ ~bkZip[s]
                        \/ part = "backups" /\ bkMax[s] < 2 /\ bkZip[s] = ~bkHash[s]

maVars == <<psVars, bkVars>>
edVars == <<miVars, beVars, reVars>>
seVars == <<dsVars, dlVars, tsVars, snVars, mkVars>>
exVars == <<axVars, krVars, lgVars>>

MCNext ==
  /\ UNCHANGED part
  /\ \/ part = "data sender" /\ DataSenderNext /\ UNCHANGED <<dlVars, tsVars, snVars, mkVars, maVars, edVars, exVars>>
     \/ part = "data lines"  /\ DataLinesNext  /\ UNCHANGED <<dsVars, tsVars, snVars, mkVars, maVars, edVars, exVars>>
     \/ part = "tcp"         /\ TcpNext        /\ UNCHANGED <<dsVars, dlVars, snVars, mkVars, maVars, edVars, exVars>>
     \/ part = "sensors"     /\ SensorsNext    /\ UNCHANGED <<dsVars, dlVars, tsVars, mkVars, maVars, edVars, exVars>>
     \/ part = "macro keys"  /\ MacroKeysNext  /\ UNCHANGED <<dsVars, dlVars, tsVars, snVars, maVars, edVars, exVars>>
     \/ part = "power"       /\ PowerNext      /\ UNCHANGED <<dsVars, dlVars, tsVars, snVars, mkVars, bkVars, edVars, exVars>>
     \/ part = "backups"     /\ BackupNext     /\ UNCHANGED <<dsVars, dlVars, tsVars, snVars, mkVars, psVars, edVars, exVars>>
     \/ part = "items"       /\ ItemsNext      /\ UNCHANGED <<seVars, maVars, beVars, reVars, exVars>>
     \/ part = "bits"        /\ BitEditorNext  /\ UNCHANGED <<seVars, maVars, miVars, reVars, exVars>>
     \/ part = "registers"   /\ RegisterEditorNext /\ UNCHANGED <<seVars, maVars, miVars, beVars, exVars>>
     \/ part = "exit"        /\ AppNext        /\ UNCHANGED <<seVars, maVars, edVars, krVars, lgVars>>
     \/ part = "reports"     /\ KeyReportsNext /\ UNCHANGED <<seVars, maVars, edVars, axVars, lgVars>>
     \/ part = "log"         /\ LogNext        /\ UNCHANGED <<seVars, maVars, edVars, axVars, krVars>>

MCSpec == MCInit /\ [][MCNext]_<<part, dsVars, dlVars, tsVars, snVars, mkVars, maVars, edVars, exVars>>

-----------------------------------------------------------------------------
(* An edit goes where the user made it: a cell to the item of its row, the   *)
(* numbers typed for the fields of a frame or a register to these fields,    *)
(* and nothing else of it changes; an answer goes to the items it is of.     *)
EditsFaithful == ItemsFaithful /\ FrameEditsHit /\ RegisterEditsHit

(* A graph, a mean and an alarm are of what was measured and set; no text of *)
(* a bit editor is read that is not there unless it has too few inputs.      *)
SensorsAndBitsSafe == SensorsSafe /\ BitsSafe /\ RegistersSafe

(* What is read from a stream is taken as it was sent, line by line from the *)
(* data port, report by report from the second keyboard; what is logged is   *)
(* shown as it was logged.                                                   *)
StreamsWhole == LinesWhole /\ KeyReportsSafe /\ LogSafe

(* The power saver's last act, in its destructor, is one of those that need  *)
(* the order of the exit (the comment at CustomKeyboard.cpp:63).             *)
PowerAndExitSafe == PowerSafe /\ AppExitSafe
=============================================================================
