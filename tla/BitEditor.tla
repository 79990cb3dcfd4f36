----------------------------- MODULE BitEditor -----------------------------
(***************************************************************************)
(* The bits of a CAN frame: the mapping XmlCanMappingLoader loads, the      *)
(* dialog in which CanSenderPanel shows and edits the fields of a frame     *)
(* (src/src/gui/CanPanel), and the scripts that set a field of it on a      *)
(* thread of their own (src/src/CanScriptHandler.cpp).  One frame id, sent  *)
(* and received.                                                            *)
(***************************************************************************)
EXTENDS BitFields

CONSTANTS FrameMaps,     \* what FrameMapping.xml may hold of the frame: rows [off, len, type]
          FrameSizes,    \* DLCs
          FrameData,     \* data of a frame
          InputNumbers,  \* what the user types
          MaxApplies     \* bound: edits made

ASSUME FrameMapsAssumption == \A rows \in FrameMaps : rows \in Seq(FieldRows)

VARIABLES
  beMap,      \* m_mapping[frame_id], in the order of the offsets
  beTx,       \* the entry of the TX list: [data, size]
  beRx,       \* m_rxData: <<>> or <<[data, size]>>
  beDialog,   \* m_BitfieldEditor while it is shown, else <<>>
  beScript,   \* m_FrameIDValues of the frame: <<>> or <<its bytes in memory>>
  bePast,     \* history: a text was read that is not there
  beDown,     \* an exception left a handler
  beApplies   \* history: edits made

beVars == <<beMap, beTx, beRx, beDialog, beScript, bePast, beDown, beApplies>>

-----------------------------------------------------------------------------
(* GetTypeFromString: a row of an unknown type is skipped, as is one at an   *)
(* offset that is taken, by an earlier row or an earlier file.               *)
LoadField(m, r) ==
  LET k == CHOOSE k \in 0..Len(m) : /\ \A j \in 1..k : m[j].off < r.off
                                    /\ \A j \in (k + 1)..Len(m) : r.off < m[j].off
  IN  IF r.type = "?" \/ \E j \in DOMAIN m : m[j].off = r.off THEN m
      ELSE SubSeq(m, 1, k) \o <<r>> \o SubSeq(m, k + 1, Len(m))

LoadFields(map, rows) ==
  LET m[n \in 0..Len(rows)] == IF n = 0 THEN map ELSE LoadField(m[n - 1], rows[n])
  IN  m[Len(rows)]

BitEditorInit ==
  /\ \E rows \in FrameMaps : beMap = LoadFields(<<>>, rows)
  /\ \E d \in FrameData, n \in FrameSizes :
       beTx = [data |-> d - (d % 2^(Bits - n * ByteBits)), size |-> n]
  /\ beRx = <<>> /\ beDialog = <<>> /\ beScript = <<>>
  /\ bePast = FALSE /\ beDown = FALSE /\ beApplies = 0

BitNoDialog == beDialog = <<>> /\ ~beDown
BitOpen == beDialog # <<>> /\ ~beDown

(* LoadMapping does not clear: what was loaded stays.                        *)
LoadMapping ==
  /\ BitNoDialog
  /\ \E rows \in FrameMaps : beMap' = LoadFields(beMap, rows)
  /\ UNCHANGED <<beTx, beRx, beDialog, beScript, bePast, beDown, beApplies>>

(* GetMapForFrameId.                                                         *)
GetMapForFrameId(rx) ==
  IF rx THEN IF beRx = <<>> THEN <<>> ELSE Cells(beMap, beRx[1].data, beRx[1].size)
  ELSE Cells(beMap, beTx.data, beTx.size)

(* Show bits, of the row of a received frame, and Edit bits, of one to send: *)
(* without a field there is only a message.                                  *)
ShowBits ==
  /\ BitNoDialog /\ beRx # <<>> /\ GetMapForFrameId(TRUE) # <<>>
  /\ beDialog' = <<Dialog("rx", GetMapForFrameId(TRUE))>>
  /\ UNCHANGED <<beMap, beTx, beRx, beScript, bePast, beDown, beApplies>>

EditBits ==
  /\ BitNoDialog /\ GetMapForFrameId(FALSE) # <<>>
  /\ beDialog' = <<Dialog("tx", GetMapForFrameId(FALSE))>>
  /\ UNCHANGED <<beMap, beTx, beRx, beScript, bePast, beDown, beApplies>>

RemoveRxFrame ==
  /\ BitNoDialog /\ beRx # <<>>
  /\ beRx' = <<>>
  /\ UNCHANGED <<beMap, beTx, beDialog, beScript, bePast, beDown, beApplies>>

-----------------------------------------------------------------------------
(* The dialog. *)

TypeText ==
  /\ BitOpen
  /\ \E k \in DOMAIN beDialog[1].inputs :
       \E t \in {Junk} \cup {Text(n, beDialog[1].base) : n \in InputNumbers} :
         beDialog' = <<Typed(beDialog[1], k, t)>>
  /\ UNCHANGED <<beMap, beTx, beRx, beScript, bePast, beDown, beApplies>>

OnRadioButtonClicked ==
  /\ BitOpen
  /\ \E b \in {2, 10, 16} :
       /\ beDown' = Throws(beDialog[1], b)
       /\ beDialog' = IF beDown' THEN beDialog ELSE <<Rebased(beDialog[1], b)>>
  /\ UNCHANGED <<beMap, beTx, beRx, beScript, bePast, beApplies>>

GetOutput == Output(beDialog[1])

(* AssignNewBufferToTxEntry: the frame has eight bytes from then on.         *)
AssignNewBufferToTxEntry(data) == beTx' = [data |-> data, size |-> Bytes]

ApplyEditingOnFrameId ==
  LET w == Written(beMap, beTx.data, GetOutput)
  IN  /\ AssignNewBufferToTxEntry(w.data)
      /\ bePast' = (bePast \/ w.past)

(* Of a received frame nothing is written.  Apply shows the dialog again.    *)
OnApplyOrOk(again) ==
  /\ BitOpen
  /\ IF beDialog[1].target = "rx" THEN beDialog' = <<>> /\ UNCHANGED <<beTx, bePast, beApplies>>
     ELSE /\ beApplies < MaxApplies /\ beApplies' = beApplies + 1
          /\ ApplyEditingOnFrameId
          /\ beDialog' = IF again THEN <<Dialog("tx", Cells(beMap, beTx'.data, Bytes))>> ELSE <<>>
  /\ UNCHANGED <<beMap, beRx, beScript, beDown>>

OnApply == OnApplyOrOk(TRUE)
OnOk == OnApplyOrOk(FALSE)

OnClose ==
  /\ BitOpen
  /\ beDialog' = <<>>
  /\ UNCHANGED <<beMap, beTx, beRx, beScript, bePast, beDown, beApplies>>

-----------------------------------------------------------------------------
(* The other threads. *)

OnFrameReceived ==
  /\ ~beDown
  /\ \E d \in FrameData : beRx' = <<[data |-> d, size |-> Bytes]>>
  /\ UNCHANGED <<beMap, beTx, beDialog, beScript, bePast, beDown, beApplies>>

(* SetFrameField of a script, of a field that is no float: in the bytes that *)
(* m_FrameIDValues has in memory, which are kept in the reverse order.       *)
Reversed(v) ==
  FoldLeft(LAMBDA r, k : r * 2^ByteBits + ((v \div 2^(ByteBits * k)) % 2^ByteBits), 0,
           [k \in 1..Bytes |-> k - 1])

ScriptWrites(f, n) ==
  SetBitfield(IF beScript = <<>> THEN 0 ELSE beScript[1], f.off, f.len, AsType(f.type, n))

SetFrameField ==
  /\ ~beDown /\ beApplies < MaxApplies
  /\ \E k \in DOMAIN beMap, n \in InputNumbers :
       LET v == ScriptWrites(beMap[k], n)
       IN  /\ beMap[k].type # "float" /\ beMap[k].off + beMap[k].len <= Bits
           /\ AssignNewBufferToTxEntry(v)
           /\ beScript' = <<Reversed(v)>>
  /\ UNCHANGED <<beMap, beRx, beDialog, bePast, beDown, beApplies>>

BitEditorNext ==
  \/ LoadMapping \/ ShowBits \/ EditBits \/ RemoveRxFrame \/ TypeText
  \/ OnRadioButtonClicked \/ OnApply \/ OnOk \/ OnClose \/ OnFrameReceived \/ SetFrameField

-----------------------------------------------------------------------------
(* An OK or Apply puts every number that was typed in its field, whatever    *)
(* was typed in the others; the fields that were not touched have what the   *)
(* dialog showed or still have their value; other bits stay.                 *)
FrameEditsHit ==
  [][beApplies' # beApplies =>
       /\ EditIsRight(beMap, beDialog[1], beTx.data, beTx'.data)
       /\ RestIsKept(beMap, beTx.data, beTx'.data)]_beVars

(* Only a frame of more fields than the dialog has inputs makes an edit read *)
(* a text that is not there; the mapping has one field for an offset.        *)
BitsSafe ==
  /\ bePast => Len(beMap) > MaxFields
  /\ \A j, k \in DOMAIN beMap : j < k => beMap[j].off < beMap[k].off
=============================================================================
