---------------------------- MODULE ModbusItems ----------------------------
(***************************************************************************)
(* The registers of the Modbus master as the user sees them: the items     *)
(* XmlModbusEnteryLoader::Load makes of Modbus.xml, the decoding of an      *)
(* answer into them (src/src/ModbusHandler.cpp), and the grid that shows    *)
(* and edits them (src/src/gui/ModbusMasterPanel.cpp).  One group of        *)
(* registers is modelled; a register holds 0 or 1.                          *)
(***************************************************************************)
EXTENDS Integers, Sequences, SequencesExt

CONSTANTS ItemTypes,     \* the types of the items of the file
          MaxItems,      \* bound: items of the group
          IndexModulus   \* a changed row is a uint8_t: 256

VARIABLES
  miItems,    \* the items: [type, fav (m_FavLevel), off (m_Offset)]
  miDevice,   \* environment: the registers of the slave
  miValue,    \* m_Value or m_fValue of each item: the registers it was read from
  miRows,     \* the grid: the item a row was made for and the value it shows
  miLevel,    \* the favourite level of the last UpdatePanel
  miEdited,   \* rows whose cell the user typed into and nothing rewrote since
  miHits      \* history: every edit so far was for the item of its row

miVars == <<miItems, miDevice, miValue, miRows, miLevel, miEdited, miHits>>

-----------------------------------------------------------------------------
(* Load: an item starts where the one before it ends. *)

GetSize(type) == IF type \in {"uint32_t", "float"} THEN 2 ELSE 1

Offset(types, k) == FoldLeft(LAMBDA n, t : n + GetSize(t), 0, SubSeq(types, 1, k - 1))

Load(types, favs) ==
  [k \in 1..Len(types) |-> [type |-> types[k], fav |-> favs[k], off |-> Offset(types, k)]]

Registers(items) == Offset([k \in 1..Len(items) |-> items[k].type], Len(items) + 1)

(* UpdatePanel: the items of the level, with m_Value even for a float.       *)
UpdatePanel(items, level, value) ==
  LET shown == SelectSeq([k \in 1..Len(items) |-> k], LAMBDA k : level <= items[k].fav)
  IN  [r \in 1..Len(shown) |->
        [item |-> shown[r],
         cell |-> IF items[shown[r]].type = "float" THEN <<0>> ELSE value[shown[r]]]]

ItemsInit ==
  /\ \E n \in 1..MaxItems : \E types \in [1..n -> ItemTypes], favs \in [1..n -> {0, 1}] :
       miItems = Load(types, favs)
  /\ miDevice = [r \in 1..Registers(miItems) |-> 0]
  /\ miValue = [k \in 1..Len(miItems) |-> <<0>>]
  /\ miLevel = 0
  /\ miRows = UpdatePanel(miItems, 0, miValue)
  /\ miEdited = {} /\ miHits = TRUE

Least(a, b) == IF a < b THEN a ELSE b

-----------------------------------------------------------------------------
(* HandleBoolReading and HandleRegisterReading. *)

Decoded == {"bool", "uint16_t", "uint32_t", "float"}

TakesOne(type) == 1      \* mutant: two-register items are read as one

(* Position in the answer at which the loop meets item k: a decoded item     *)
(* takes its registers, any other one.                                       *)
Takes(type) == IF type \in {"uint32_t", "float"} THEN 2 ELSE 1
At(k) == FoldLeft(LAMBDA n, i : n + Takes(i.type), 0, SubSeq(miItems, 1, k - 1))

(* Of an answer of n registers the items before the first cut one are read.  *)
Reached(k, n) == \A j \in 1..k : At(j) + Takes(miItems[j].type) <= n

NewValue(k, n) ==
  IF miItems[k].type \in Decoded /\ Reached(k, n)
    THEN SubSeq(miDevice, At(k) + 1, At(k) + Takes(miItems[k].type))
    ELSE miValue[k]

Changed(k, n) ==
  /\ miItems[k].type \in Decoded /\ Reached(k, n)
  /\ miItems[k].type \in {"uint32_t", "float"} \/ NewValue(k, n) # miValue[k]

(* UpdateChangesOnly: a row of the grid is addressed by the number of the    *)
(* item, whatever rows are shown; a row that is not there is appended, the   *)
(* last number is skipped.                                                   *)
UpdateChangesOnly(rows, changed, value) ==
  FoldLeft(LAMBDA g, k :
             LET i == ((k - 1) % IndexModulus) + 1
                 new == [item |-> i, cell |-> value[i]]
             IN  IF i = IndexModulus THEN g
                 ELSE IF i > Len(g) THEN Append(g, new)
                 ELSE [g EXCEPT ![i].cell = value[i]],
           rows, changed)

(* One poll: the answer is whole, or holds the first chunks. *)
Poll(n) ==
  LET changed == SelectSeq([k \in 1..Len(miItems) |-> k], LAMBDA k : Changed(k, n))
  IN  /\ miValue' = [k \in 1..Len(miItems) |-> NewValue(k, n)]
      /\ miRows' = UpdateChangesOnly(miRows, changed, miValue')
      /\ miEdited' = miEdited \ { ((changed[c] - 1) % IndexModulus) + 1 : c \in 1..Len(changed) }
      /\ UNCHANGED <<miItems, miDevice, miLevel, miHits>>

-----------------------------------------------------------------------------
(* The user and the slave. *)

(* OnGridLabelRightClick, OnKeyDown (a search pattern hides rows as a level  *)
(* does), the formats of OnCellRightClick.                                   *)
ChangeFilter(level) ==
  /\ miLevel' = level
  /\ miRows' = UpdatePanel(miItems, level, miValue)
  /\ miEdited' = {}
  /\ UNCHANGED <<miItems, miDevice, miValue, miHits>>

(* The slave accepts the write of an item, or not. *)
WriteItem(k, v) ==
  \/ UNCHANGED miDevice
  \/ miDevice' = [r \in DOMAIN miDevice |->
                    IF r = miItems[k].off + 1 THEN v
                    ELSE IF GetSize(miItems[k].type) = 2 /\ r = miItems[k].off + 2 THEN 0
                    ELSE miDevice[r]]

(* OnCellValueChanged: EditHolding(row, value); the item keeps its value.    *)
OnCellValueChanged(row, v) ==
  /\ row \in 1..Len(miRows) /\ row <= Len(miItems)
  /\ miRows' = [miRows EXCEPT ![row].cell = <<v, -1, -1>>]
  /\ miEdited' = miEdited \cup {row}
  /\ miHits' = (miHits /\ miRows[row].item = row)
  /\ WriteItem(row, v)
  /\ UNCHANGED <<miItems, miValue, miLevel>>

(* ApplyEditingOnHolding, from the bit editor of the row: the item has the   *)
(* value at once, the grid does not.                                         *)
ApplyEditing(row, v) ==
  /\ row \in 1..Len(miRows) /\ row <= Len(miItems)
  /\ miItems[row].type = "uint16_t"
  /\ miValue' = [miValue EXCEPT ![row] = <<v>>]
  /\ miEdited' = IF v = miValue[row][1] THEN miEdited ELSE miEdited \cup {row}
  /\ miHits' = (miHits /\ miRows[row].item = row)
  /\ WriteItem(row, v)
  /\ UNCHANGED <<miItems, miRows, miLevel>>

DeviceChanges(r) ==
  /\ miDevice' = [miDevice EXCEPT ![r] = 1 - @]
  /\ UNCHANGED <<miItems, miValue, miRows, miLevel, miEdited, miHits>>

ItemsNext ==
  \/ \E n \in 1..Len(miDevice) : Poll(n)
  \/ \E level \in {0, 1} : ChangeFilter(level)
  \/ \E row \in 1..MaxItems, v \in {1} :
        OnCellValueChanged(row, v) \/ ApplyEditing(row, v)
  \/ \E r \in 1..Len(miDevice) : DeviceChanges(r)

ItemsSpec == ItemsInit /\ [][ItemsNext]_miVars

-----------------------------------------------------------------------------
(* Properties. *)

(* After a poll that got every register each item of a type that is decoded  *)
(* has the values of its own registers, wherever the loader put it.          *)
OwnRegisters(k) ==
  SubSeq(miDevice, miItems[k].off + 1, miItems[k].off + GetSize(miItems[k].type))

PollReadsDecoded ==
  [][(\E k \in 1..Len(miItems) : miItems[k].type \in Decoded /\ miValue'[k] # OwnRegisters(k))
       => ~Poll(Len(miDevice))]_miVars

(* While no item was ever hidden, every row shows the value of its item, but *)
(* for the cells the user edited, the floats before the next poll, and the   *)
(* rows whose number does not fit a uint8_t; and every edit is of the item   *)
(* shown in the row.                                                         *)
NoneHidden == \A k \in 1..Len(miItems) : miItems[k].fav = 1
GridFaithful ==
  NoneHidden =>
    /\ miHits
    /\ Len(miRows) = Len(miItems)
    /\ \A r \in 1..Len(miRows) :
         \/ r >= IndexModulus \/ r \in miEdited \/ miItems[r].type = "float"
         \/ miRows[r] = [item |-> r, cell |-> miValue[r]]

(* Polls fill the items, and the grid shows the items.                       *)
ItemsFaithful == []GridFaithful /\ PollReadsDecoded
=============================================================================
