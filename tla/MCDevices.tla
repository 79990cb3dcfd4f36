----------------------------- MODULE MCDevices -----------------------------
(* The parts that talk to devices, for TLC.  They share no state, so one run *)
(* checks them side by side: `part' says which of them this behaviour is of; *)
(* the others stay in one initial state.  Every property of a part therefore *)
(* holds here exactly if it holds of the part alone.                         *)
EXTENDS ModbusMaster, CanTxList, CanScript, CanLog, ModbusLog, DidGrid,
        CanDeviceRx

VARIABLE part

(* A listed frame, one that is sent without being in the list, and an answer *)
(* that has the id of the listed one.                                        *)
MCLogFrames == {[id |-> 1, dir |-> "tx", listed |-> TRUE, level |-> 1, found |-> TRUE],
                [id |-> 2, dir |-> "tx", listed |-> FALSE, level |-> 0, found |-> FALSE],
                [id |-> 1, dir |-> "rx", listed |-> FALSE, level |-> 1, found |-> FALSE]}

(* Rows of one DID twice and of an unknown type; the filter hides DID 2.     *)
MCDid(d, t, l, f) == [did |-> d, type |-> t, len |-> l, found |-> f]
MCDidFile == <<MCDid(2, "string", 2, FALSE), MCDid(1, "ui16", 2, TRUE), MCDid(1, "ui8", 1, TRUE),
               MCDid(4, "?", 1, TRUE)>>

(* A cache with a bad number, an unknown DID and a bad time before a row.    *)
MCCached(d, v, n, s) == [did |-> d, value |-> v, nrc |-> n, stamp |-> s]
MCCacheFiles == {<<>>, <<MCCached(1, <<3>>, NotADigit, "time"), MCCached(5, <<1>>, 0, "time"),
                         MCCached(2, <<1, 2>>, 7, "bad"), MCCached(2, <<1>>, 0, "time")>>}

MCDidAnswers == {<<2, 0>>, <<Nul, 1, 0, 0, 0>>}    \* too short for a string; with a zero byte
MCDidTexts == {<<9>>, <<>>}

MCInit ==
  /\ part \in {"modbus", "tx list", "script", "can log", "modbus log", "dids", "can rx"}
  /\ ModbusInit /\ (part # "modbus" => mbTcp /\ mbPaused)
  /\ TxListInit /\ (part # "tx list" => clList = <<>>)
  /\ ScriptInit
  /\ CanLogInit
  /\ ModbusLogInit /\ (part # "modbus log" => mlRecording)
  /\ DidGridInit /\ (part # "dids" => dgFile = <<>>)
  /\ RxInit /\ (part # "can rx" => rxDevice = "STM32")

busVars == <<mbVars, clVars, csVars>>
loVars == <<lgVars, mlVars, dgVars, rxVars>>

MCNext ==
  /\ UNCHANGED part
  /\ \/ part = "modbus"     /\ ModbusNext    /\ UNCHANGED <<clVars, csVars, loVars>>
     \/ part = "tx list"    /\ TxListNext    /\ UNCHANGED <<mbVars, csVars, loVars>>
     \/ part = "script"     /\ ScriptNext    /\ UNCHANGED <<mbVars, clVars, loVars>>
     \/ part = "can log"    /\ CanLogNext    /\ UNCHANGED <<busVars, mlVars, dgVars, rxVars>>
     \/ part = "modbus log" /\ ModbusLogNext /\ UNCHANGED <<busVars, lgVars, dgVars, rxVars>>
     \/ part = "dids"       /\ DidGridNext   /\ UNCHANGED <<busVars, lgVars, mlVars, rxVars>>
     \/ part = "can rx"     /\ RxNext        /\ UNCHANGED <<busVars, lgVars, mlVars, dgVars>>

MCSpec == MCInit /\ [][MCNext]_<<part, mbVars, clVars, csVars, loVars>>

-----------------------------------------------------------------------------
(* The log panels show what was recorded, once and in order, the DID panel   *)
(* the values that the ECU answered, each in its row; they leave the lists   *)
(* they walk over only when these are changed under them.                    *)
GridsRight == CanLogWhole /\ ModbusLogWhole /\ DidRowsRight

(* The grid of frames to send stays on the list it shows, and the frames     *)
(* received are those sent, missing only where the line was to blame.        *)
CanBusSafe == TxListSafe /\ RxSafe
=============================================================================
