-------------------------- MODULE RegisterEditor --------------------------
(***************************************************************************)
(* The bits of a Modbus register: ModbusBitEditorDialog and the menu of the *)
(* register grids (src/src/gui/ModbusMasterPanel.cpp), GetMapForHolding and *)
(* ApplyEditingOnHolding (src/src/ModbusHandler.cpp), while the worker      *)
(* reads the registers from the slave.  One row, of the holding and of the  *)
(* input registers; a register holds the first two bytes of the value.      *)
(***************************************************************************)
EXTENDS BitFields

CONSTANTS RegisterMaps,   \* m_Mapping of the holding register
          RegisterData,   \* values of a register, as the bytes of m_Value spell them
          RegisterInputs, \* what the user types
          MaxRegEdits     \* bound: edits made

ASSUME RegisterMapsAssumption == \A rows \in RegisterMaps : rows \in Seq(FieldRows)

VARIABLES
  reMap,      \* m_Mapping of the holding register
  reHolding,  \* m_Holding[id]->m_Value
  reInput,    \* m_Input[id]->m_Value
  reDialog,   \* m_BitfieldEditor while it is shown, else <<>>
  rePending,  \* m_pendingHoldingWrites
  rePast, reDown, reEdits

reVars == <<reMap, reHolding, reInput, reDialog, rePending, rePast, reDown, reEdits>>

Rows == {"holding", "input"}

RegisterEditorInit ==
  /\ reMap \in RegisterMaps
  /\ reHolding = 0 /\ reInput = 0
  /\ reDialog = <<>> /\ rePending = <<>>
  /\ rePast = FALSE /\ reDown = FALSE /\ reEdits = 0

RegNoDialog == reDialog = <<>> /\ ~reDown
RegOpen == reDialog # <<>> /\ ~reDown

(* HandleBitReading: the fields of the holding register's mapping, whichever *)
(* of the two is shown.                                                      *)
RegisterCells(row) == Cells(reMap, IF row = "holding" THEN reHolding ELSE reInput, Bytes)

(* GetMapForHolding and Show Bits.  With fewer holding than input registers, *)
(* m_Holding.at throws out of the handler.                                   *)
GetMapForHolding(row) ==
  /\ RegNoDialog
  /\ \/ /\ row = "input"
        /\ reDown' = TRUE /\ UNCHANGED reDialog
     \/ /\ reMap # <<>>
        /\ reDialog' = <<Dialog(row, RegisterCells(row))>> /\ UNCHANGED reDown
  /\ UNCHANGED <<reMap, reHolding, reInput, rePending, rePast, reEdits>>

RegTypeText ==
  /\ RegOpen
  /\ \E k \in DOMAIN reDialog[1].inputs :
       \E t \in {Junk} \cup {Text(n, reDialog[1].base) : n \in RegisterInputs} :
         reDialog' = <<Typed(reDialog[1], k, t)>>
  /\ UNCHANGED <<reMap, reHolding, reInput, rePending, rePast, reDown, reEdits>>

RegRadioButtonClicked ==
  /\ RegOpen
  /\ \E b \in {2, 10, 16} :
       /\ reDown' = Throws(reDialog[1], b)
       /\ reDialog' = IF reDown' THEN reDialog ELSE <<Rebased(reDialog[1], b)>>
  /\ UNCHANGED <<reMap, reHolding, reInput, rePending, rePast, reEdits>>

RegGetOutput == Output(reDialog[1])

(* The value is changed at once and queued for the worker to send.           *)
ApplyEditingOnHolding ==
  LET w == Written(reMap, reHolding, RegGetOutput)
  IN  /\ reHolding' = w.data
      /\ rePending' = Append(rePending, w.data)
      /\ rePast' = (rePast \/ w.past)

(* Input registers are only shown.                                           *)
RegApplyOrOk(again) ==
  /\ RegOpen
  /\ IF reDialog[1].target = "input"
       THEN reDialog' = <<>> /\ UNCHANGED <<reHolding, rePending, rePast, reEdits>>
       ELSE /\ reEdits < MaxRegEdits /\ reEdits' = reEdits + 1
            /\ ApplyEditingOnHolding
            /\ reDialog' = IF again THEN <<Dialog("holding", Cells(reMap, reHolding', Bytes))>> ELSE <<>>
  /\ UNCHANGED <<reMap, reInput, reDown>>

RegOnApply == RegApplyOrOk(TRUE)
RegOnOk == RegApplyOrOk(FALSE)

RegOnClose ==
  /\ RegOpen
  /\ reDialog' = <<>>
  /\ UNCHANGED <<reMap, reHolding, reInput, rePending, rePast, reDown, reEdits>>

(* The worker: a write is sent, the registers are read.                      *)
SendPending ==
  /\ ~reDown /\ rePending # <<>>
  /\ rePending' = Tail(rePending)
  /\ UNCHANGED <<reMap, reHolding, reInput, reDialog, rePast, reDown, reEdits>>

PollRegisters ==
  /\ ~reDown
  /\ \E d \in RegisterData : \/ reHolding' = d /\ UNCHANGED reInput
                             \/ reInput' = d /\ UNCHANGED reHolding
  /\ UNCHANGED <<reMap, reDialog, rePending, rePast, reDown, reEdits>>

RegisterEditorNext ==
  \/ \E row \in Rows : GetMapForHolding(row)
  \/ RegTypeText \/ RegRadioButtonClicked \/ RegOnApply \/ RegOnOk \/ RegOnClose
  \/ SendPending \/ PollRegisters

-----------------------------------------------------------------------------
(* As for a frame, whatever was read from the slave since the dialog was     *)
(* shown; and what is queued for the slave is what the row shows.            *)
RegisterEditsHit ==
  [][reEdits' # reEdits =>
       /\ EditIsRight(reMap, reDialog[1], reHolding, reHolding')
       /\ RestIsKept(reMap, reHolding, reHolding')
       /\ Last(rePending') = reHolding']_reVars

RegistersSafe == rePast => Len(reMap) > MaxFields
=============================================================================
