--------------------------- MODULE Devices_proofs ---------------------------
(***************************************************************************)
(* Safety of the parts of MCDevices: the Modbus master, for every number of *)
(* units, requests and edits (whose answer an item shows, which bytes, and  *)
(* what becomes of an edit); the two log panels and the DID panel, for any  *)
(* frames, messages, lists of DIDs, cache files and answers (what their     *)
(* grids show); the list of frames to send, for every length and number of  *)
(* edits; the parsers of the two CAN adapters, for any number of frames and *)
(* any damage of the line; and the run's properties, of all side by side.   *)
(***************************************************************************)
EXTENDS MCDevices, FiniteSetTheorems, SequenceTheorems, TLAPS

Pieces == (1..Request) \X Kinds

(* Where the worker is in the round and in the list.                         *)
RoundInv ==
  /\ mbPc \in {"poll", "await"} => mbUnit <= MbUnits
  /\ Writing => mbUnit \in (MbUnits + 1)..(MbUnits + mbEnd + 1)
  /\ mbPc = "awaitWrite" => mbUnit <= MbUnits + mbEnd
  /\ Len(mbPending) <= mbEdits
  /\ mbPc \in {"await", "awaitWrite"} => Request > 0
  /\ mbPc = "await" => mbAsked[Request] = Read(mbUnit)

(* Until a request ends without an answer or with a piece, only the request  *)
(* that is waited for is anywhere: in m_SentData, on the line, or answered.  *)
(* Afterwards nothing older than the first such request is.                  *)
Awaiting == mbPc \in {"await", "awaitWrite"}
Alone ==
  /\ mbSent # 0 => Awaiting /\ mbSent = Request /\ mbBus = {} /\ mbRecv = <<>>
  /\ mbBus \subseteq (IF Awaiting THEN {Request} ELSE {})
  /\ mbRecv # <<>> => /\ Awaiting /\ mbRecv[1] = Request
                      /\ mbRecv[2] = "whole" => mbBus = {}
Late ==
  /\ mbSent # 0 => mbSent >= mbFailed
  /\ \A k \in mbBus : k >= mbFailed
  /\ mbRecv # <<>> => mbRecv[1] >= mbFailed
LineInv ==
  /\ MisreadNeedsFailure
  /\ mbFailed = 0 => Alone
  /\ mbFailed # 0 => Late

(* On a serial line the CRC flag is that of m_RecvData, except between the   *)
(* two writes of OnUartDataReceived.                                         *)
CrcInv ==
  /\ PieceNeedsRace
  /\ mbTcp => mbRx = <<>>
  /\ mbRx # <<>> /\ mbRecv # <<>> => mbRecv = mbRx
  /\ ~mbTcp /\ mbRecv # <<>> /\ mbRx = <<>> /\ mbCrcOk => mbRecv[2] = "whole"

(* The number of the edits of the list HandleWrites is done with.            *)
Done == IF mbPc = "write" THEN mbUnit - MbUnits - 1
        ELSE IF mbPc = "awaitWrite" THEN mbUnit - MbUnits ELSE 0

(* The list is rising; an edit made during HandleWrites is the newest one.   *)
EditInv ==
  /\ EditsAccounted
  /\ \A i, j \in 1..Len(mbPending) : i < j => mbPending[i] < mbPending[j]
  /\ \A i \in 1..Len(mbPending) : mbPending[i] <= mbEdits
  /\ Writing => Len(mbPending) = mbEnd \/ mbEdits \in mbDuring
  /\ Writing /\ Len(mbPending) = mbEnd =>
       \A i \in 1..Done : \E k \in Writes : mbAsked[k].n = mbPending[i]
  /\ mbDuring = {} =>
       \A k \in Writes : /\ mbAsked[k].n <= mbEdits
                         /\ \A i \in (Done + 1)..Len(mbPending) : mbAsked[k].n < mbPending[i]

ModbusInv == ModbusTypeOK /\ RoundInv /\ LineInv /\ CrcInv /\ EditInv
-----------------------------------------------------------------------------
(* The type invariant, in groups; and what leaves each group, and each part  *)
(* of the invariant, as it is.                                               *)

USE ModbusAssumption

Asks == [op : {"read", "write"}, n : 0..(MbUnits + MaxEdits)]

WorkerType ==
  /\ mbPc \in {"init", "gate", "poll", "await", "write", "awaitWrite", "ended", "crashed"}
  /\ mbUnit \in 1..(MbUnits + MaxEdits + 1)
  /\ mbTcp \in BOOLEAN /\ mbPaused \in BOOLEAN /\ mbExit \in BOOLEAN
  /\ mbPort \in {"none", "closed", "open"}
ListType ==
  /\ mbPending \in Seq(1..MaxEdits) /\ mbEnd \in 0..Len(mbPending)
  /\ mbEdits \in 0..MaxEdits /\ mbDuring \subseteq 1..mbEdits
LineType ==
  /\ mbSent \in 0..Request
  /\ mbRecv \in {<<>>} \cup Pieces /\ mbRx \in {<<>>} \cup Pieces
  /\ mbCrcOk \in BOOLEAN /\ mbBus \subseteq 1..Request
AskedType ==
  /\ mbTaken \in [unit : 1..MbUnits, ans : 0..Request, whole : BOOLEAN, race : BOOLEAN]
  /\ mbAsked \in Seq(Asks)
  /\ mbFailed \in 0..Request

LEMMA TypeParts == ModbusTypeOK <=> WorkerType /\ ListType /\ LineType /\ AskedType
  BY DEF ModbusTypeOK, WorkerType, ListType, LineType, AskedType, Pieces, Asks

LEMMA TypePartsNext == (WorkerType /\ ListType /\ LineType /\ AskedType)' => ModbusTypeOK'
  BY DEF ModbusTypeOK, WorkerType, ListType, LineType, AskedType, Pieces, Asks

LEMMA RequestNat == AskedType => Request \in Nat
  BY LenProperties DEF AskedType, Request

LEMMA AskedElement == AskedType => \A k \in 1..Request : mbAsked[k] \in Asks
  BY ElementOfSeq DEF AskedType, Request

LEMMA ListTypeFrame ==
  ListType /\ UNCHANGED <<mbPending, mbEnd, mbEdits, mbDuring>> => ListType'
  BY DEF ListType

LEMMA LineTypeFrame == LineType /\ UNCHANGED <<mbLine, mbAsked>> => LineType'
  BY DEF LineType, mbLine, Pieces, Request

LEMMA AskedTypeFrame ==
  AskedType /\ mbTaken' \in {mbTaken, Unread} /\ UNCHANGED <<mbAsked, mbFailed>> => AskedType'
<1> SUFFICES ASSUME AskedType, mbTaken' \in {mbTaken, Unread}, UNCHANGED <<mbAsked, mbFailed>>
             PROVE  AskedType'
  OBVIOUS
<1>1. Request' = Request /\ Request \in Nat
  BY RequestNat DEF Request
<1>2. Unread \in [unit : 1..MbUnits, ans : 0..Request, whole : BOOLEAN, race : BOOLEAN]
  BY <1>1 DEF Unread
<1> QED
  BY <1>1, <1>2 DEF AskedType

LEMMA RoundFrame ==
  RoundInv /\ UNCHANGED <<mbPc, mbUnit, mbEnd, mbAsked, mbPending, mbEdits>> => RoundInv'
  BY DEF RoundInv, Writing, Request

LEMMA LineFrame ==
  ASSUME LineInv, UNCHANGED <<mbSent, mbRecv, mbBus, mbAsked, mbFailed>>,
         Awaiting' = Awaiting, mbTaken' \in {mbTaken, Unread}
  PROVE  LineInv'
<1>1. MisreadNeedsFailure'
  BY DEF LineInv, MisreadNeedsFailure, Unread, Read
<1>2. mbFailed' = 0 => Alone'
  BY DEF LineInv, Alone, Request
<1>3. mbFailed' # 0 => Late'
  BY DEF LineInv, Late
<1> QED
  BY <1>1, <1>2, <1>3 DEF LineInv

LEMMA CrcFrame ==
  ASSUME CrcInv, UNCHANGED <<mbTcp, mbRecv, mbRx, mbCrcOk>>, mbTaken' \in {mbTaken, Unread}
  PROVE  CrcInv'
  BY DEF CrcInv, PieceNeedsRace, Unread

LEMMA EditFrame ==
  ASSUME EditInv, UNCHANGED <<mbPending, mbEnd, mbEdits, mbDuring>>,
         Writing' = Writing, Done' = Done,
         Writes' = Writes, \A k \in Writes : mbAsked'[k] = mbAsked[k]
  PROVE  EditInv'
<1>1. EditsAccounted'
  BY DEF EditInv, EditsAccounted
<1>2. (Writing /\ Len(mbPending) = mbEnd =>
         \A i \in 1..Done : \E k \in Writes : mbAsked[k].n = mbPending[i])'
  BY DEF EditInv
<1>3. (mbDuring = {} =>
         \A k \in Writes : /\ mbAsked[k].n <= mbEdits
                           /\ \A i \in (Done + 1)..Len(mbPending) : mbAsked[k].n < mbPending[i])'
  BY DEF EditInv
<1> QED
  BY <1>1, <1>2, <1>3 DEF EditInv

(* Send: one more request, after the others.                                 *)
LEMMA SendFacts ==
  ASSUME AskedType, LineType, NEW w \in Asks, Send(w)
  PROVE  /\ Request \in Nat /\ Request' = Request + 1 /\ mbSent' = Request + 1
         /\ mbAsked' \in Seq(Asks) /\ mbAsked'[Request + 1] = w
         /\ \A k \in 1..Request : mbAsked'[k] = mbAsked[k]
         /\ Writes' = Writes \cup (IF w.op = "write" THEN {Request + 1} ELSE {})
<1>1. mbAsked' = Append(mbAsked, w) /\ mbSent' = Request + 1 /\ mbAsked \in Seq(Asks)
      /\ Request \in Nat
  BY RequestNat DEF Send, AskedType
<1>2. /\ Request' = Request + 1 /\ mbAsked' \in Seq(Asks) /\ mbAsked'[Request + 1] = w
      /\ \A k \in 1..Request : mbAsked'[k] = mbAsked[k]
  BY <1>1 DEF Request
<1>3. Writes' = Writes \cup (IF w.op = "write" THEN {Request + 1} ELSE {})
  <2>1. Writes' = { k \in 1..(Request + 1) : mbAsked'[k].op = "write" }
    BY <1>2 DEF Writes
  <2>2. ASSUME NEW k
        PROVE  k \in 1..(Request + 1) <=> k \in 1..Request \/ k = Request + 1
    BY <1>1
  <2>3. ASSUME NEW k
        PROVE  k \in Writes' <=> k \in Writes \/ (k = Request + 1 /\ w.op = "write")
    BY <1>2, <2>1, <2>2 DEF Writes
  <2> QED
    BY <2>3
<1> QED
  BY <1>1, <1>2, <1>3

-----------------------------------------------------------------------------
LEMMA InitModbus == ModbusInit => ModbusInv
<1> SUFFICES ASSUME ModbusInit PROVE ModbusInv
  OBVIOUS
<1>1. /\ mbPc = "init" /\ mbUnit = 1 /\ mbPort = "none" /\ mbTcp \in BOOLEAN
      /\ mbPaused \in BOOLEAN /\ mbExit = FALSE /\ mbPending = <<>> /\ mbEnd = 0
      /\ mbSent = 0 /\ mbRecv = <<>> /\ mbCrcOk = TRUE /\ mbRx = <<>> /\ mbBus = {}
      /\ mbTaken = Unread /\ mbAsked = <<>> /\ mbFailed = 0 /\ mbEdits = 0 /\ mbDuring = {}
  BY DEF ModbusInit
<1>2. Request = 0 /\ Len(mbPending) = 0 /\ mbPending \in Seq(1..MaxEdits) /\ mbAsked \in Seq(Asks)
  BY <1>1, EmptySeq DEF Request
<1>3. WorkerType
  <2>1. mbUnit \in 1..(MbUnits + MaxEdits + 1)
    BY <1>1
  <2>2. mbPc \in {"init", "gate", "poll", "await", "write", "awaitWrite", "ended", "crashed"}
    BY <1>1
  <2> QED
    BY <1>1, <2>1, <2>2 DEF WorkerType
<1>4. ListType
  BY <1>1, <1>2 DEF ListType
<1>5. LineType /\ AskedType
  BY <1>1, <1>2 DEF LineType, AskedType, Unread
<1>6. RoundInv
  BY <1>1, <1>2 DEF RoundInv, Writing
<1>7. LineInv /\ CrcInv
  BY <1>1 DEF LineInv, MisreadNeedsFailure, Alone, CrcInv, PieceNeedsRace, Unread
<1>8. EditInv
  <2>1. Writes = {}
    BY <1>2 DEF Writes
  <2> QED
    BY <1>1, <1>2, <2>1 DEF EditInv, EditsAccounted, Writing
<1> QED
  BY <1>3, <1>4, <1>5, <1>6, <1>7, <1>8, TypeParts DEF ModbusInv

-----------------------------------------------------------------------------
(* The GUI and the port. *)

LEMMA GuiKeeps ==
  ASSUME ModbusInv,
         (\E b \in BOOLEAN : SetPollingStatus(b)) \/ ModbusExit \/ ConstructPort
         \/ UNCHANGED mbVars
  PROVE  ModbusInv'
<1>1. /\ WorkerType /\ ListType /\ LineType /\ AskedType
      /\ RoundInv /\ LineInv /\ CrcInv /\ EditInv
  BY TypeParts DEF ModbusInv
<1>2. /\ mbPc' = mbPc /\ mbUnit' = mbUnit /\ mbTcp' = mbTcp /\ mbTaken' = mbTaken
      /\ mbAsked' = mbAsked /\ mbFailed' = mbFailed /\ mbEdits' = mbEdits /\ mbDuring' = mbDuring
      /\ mbPending' = mbPending /\ mbEnd' = mbEnd /\ mbLine' = mbLine
  BY DEF SetPollingStatus, ModbusExit, ConstructPort, mbVars, mbGui, mbList
<1>3. /\ mbPaused' \in BOOLEAN /\ mbExit' \in BOOLEAN /\ mbPort' \in {"none", "closed", "open"}
  <2>1. ASSUME NEW b \in BOOLEAN, SetPollingStatus(b)
        PROVE  mbPaused' \in BOOLEAN /\ mbExit' \in BOOLEAN /\ mbPort' \in {"none", "closed", "open"}
    BY <1>1, <2>1 DEF WorkerType, SetPollingStatus
  <2>2. CASE ModbusExit
    BY <1>1, <2>2 DEF WorkerType, ModbusExit
  <2>3. CASE ConstructPort
    BY <1>1, <2>3 DEF WorkerType, ConstructPort, mbGui
  <2>4. CASE UNCHANGED mbVars
    BY <1>1, <2>4 DEF WorkerType, mbVars, mbGui
  <2> QED
    BY <2>1, <2>2, <2>3, <2>4
<1>4. (WorkerType /\ ListType /\ LineType /\ AskedType)'
  <2>1. WorkerType'
    BY <1>1, <1>2, <1>3 DEF WorkerType
  <2> QED
    BY <1>1, <1>2, <2>1, ListTypeFrame, LineTypeFrame, AskedTypeFrame
<1>5. (RoundInv /\ LineInv /\ CrcInv)'
  BY <1>1, <1>2, RoundFrame, LineFrame, CrcFrame DEF mbLine, Awaiting
<1>6. EditInv'
  BY <1>1, <1>2, EditFrame DEF Writing, Done, Writes, Request
<1> QED
  BY <1>4, <1>5, <1>6, TypePartsNext DEF ModbusInv

(* A new edit goes behind the others; during HandleWrites it is remembered.  *)
LEMMA EditKeeps ==
  ASSUME ModbusInv, EditHolding
  PROVE  ModbusInv'
<1>1. /\ WorkerType /\ ListType /\ LineType /\ AskedType
      /\ RoundInv /\ LineInv /\ CrcInv /\ EditInv
  BY TypeParts DEF ModbusInv
<1>2. /\ mbEdits < MaxEdits /\ mbEdits' = mbEdits + 1
      /\ mbPending' = Append(mbPending, mbEdits + 1)
      /\ mbDuring' = IF Writing THEN mbDuring \cup {mbEdits + 1} ELSE mbDuring
      /\ mbPc' = mbPc /\ mbUnit' = mbUnit /\ mbTcp' = mbTcp /\ mbPort' = mbPort
      /\ mbTaken' = mbTaken /\ mbAsked' = mbAsked /\ mbFailed' = mbFailed
      /\ mbPaused' = mbPaused /\ mbExit' = mbExit /\ mbLine' = mbLine /\ mbEnd' = mbEnd
  BY DEF EditHolding
<1> DEFINE n == Len(mbPending)
<1>3. /\ mbPending \in Seq(1..MaxEdits) /\ mbEnd \in 0..n /\ mbEdits \in 0..MaxEdits
      /\ mbDuring \subseteq 1..mbEdits /\ n \in Nat /\ \A i \in 1..n : mbPending[i] \in 1..MaxEdits
  BY <1>1, LenProperties, ElementOfSeq DEF ListType
<1>4. /\ mbPending' \in Seq(1..MaxEdits) /\ Len(mbPending') = n + 1
      /\ mbPending'[n + 1] = mbEdits + 1 /\ \A i \in 1..n : mbPending'[i] = mbPending[i]
  <2>1. mbEdits + 1 \in 1..MaxEdits
    BY <1>2, <1>3
  <2> QED
    BY <1>2, <1>3, <2>1
<1> HIDE DEF n
<1>5. ListType'
  BY <1>2, <1>3, <1>4 DEF ListType
<1>6. (WorkerType /\ LineType /\ AskedType)'
  <2>1. WorkerType'
    BY <1>1, <1>2 DEF WorkerType
  <2> QED
    BY <1>1, <1>2, <2>1, LineTypeFrame, AskedTypeFrame
<1>7. RoundInv'
  BY <1>1, <1>2, <1>3, <1>4 DEF RoundInv, Writing, Request, n
<1>8. (LineInv /\ CrcInv)'
  BY <1>1, <1>2, LineFrame, CrcFrame DEF mbLine, Awaiting
<1>9. Writing' = Writing /\ Done' = Done /\ Writes' = Writes
  BY <1>2 DEF Writing, Done, Writes, Request
<1>10. /\ \A i \in 1..n : mbPending[i] <= mbEdits
       /\ \A i, j \in 1..n : i < j => mbPending[i] < mbPending[j]
       /\ EditsAccounted
  BY <1>1 DEF EditInv, n
<1>11. EditsAccounted'
  <2>1. ASSUME NEW e \in 1..mbEdits'
        PROVE  \/ \E d \in mbDuring' : d >= e
               \/ \E i \in 1..Len(mbPending') : mbPending'[i] = e
               \/ \E k \in Writes' : mbAsked'[k].n = e
    <3>1. CASE e = mbEdits + 1
      BY <1>3, <1>4, <3>1
    <3>2. CASE e \in 1..mbEdits
      <4>1. CASE \E d \in mbDuring : d >= e
        BY <1>2, <4>1
      <4>2. CASE \E i \in 1..n : mbPending[i] = e
        BY <1>3, <1>4, <4>2
      <4>3. CASE \E k \in Writes : mbAsked[k].n = e
        BY <1>2, <1>9, <4>3
      <4> QED
        BY <1>10, <3>2, <4>1, <4>2, <4>3 DEF EditsAccounted, n
    <3> QED
      BY <1>2, <1>3, <3>1, <3>2
  <2>2. mbDuring' = {} => mbDuring = {}
    BY <1>2
  <2>3. mbDuring' = {} => \A j, k \in Writes' : j < k => mbAsked'[j].n < mbAsked'[k].n
    BY <1>2, <1>9, <1>10, <2>2 DEF EditsAccounted
  <2> QED
    BY <2>1, <2>3 DEF EditsAccounted
<1>12. /\ \A i, j \in 1..(n + 1) : i < j => mbPending'[i] < mbPending'[j]
       /\ \A i \in 1..(n + 1) : mbPending'[i] <= mbEdits'
  BY <1>2, <1>3, <1>4, <1>10
<1>13. Writing => mbEdits' \in mbDuring' /\ Len(mbPending') # mbEnd'
  BY <1>2, <1>3, <1>4
<1>14. mbDuring' = {} =>
         \A k \in Writes : /\ mbAsked[k].n <= mbEdits'
                           /\ \A i \in (Done + 1)..(n + 1) : mbAsked[k].n < mbPending'[i]
  <2> SUFFICES ASSUME mbDuring' = {}, NEW k \in Writes
               PROVE  /\ mbAsked[k].n <= mbEdits'
                      /\ \A i \in (Done + 1)..(n + 1) : mbAsked[k].n < mbPending'[i]
    OBVIOUS
  <2>1. ~Writing /\ mbDuring = {} /\ Done = 0
    BY <1>2 DEF Writing, Done
  <2>2. k \in 1..Request
    BY DEF Writes
  <2>3. mbAsked[k].n \in Nat
    BY <1>1, <2>2, AskedElement DEF Asks
  <2>4. mbAsked[k].n <= mbEdits /\ \A i \in 1..n : mbAsked[k].n < mbPending[i]
    BY <1>1, <2>1 DEF EditInv, n
  <2> QED
    BY <1>2, <1>3, <1>4, <2>1, <2>3, <2>4
<1>15. EditInv'
  BY <1>2, <1>4, <1>9, <1>11, <1>12, <1>13, <1>14 DEF EditInv
<1> QED
  BY <1>5, <1>6, <1>7, <1>8, <1>15, TypePartsNext DEF ModbusInv
-----------------------------------------------------------------------------
(* The thread of the port and the one that delivers answers: they touch      *)
(* neither the worker nor the edits.                                         *)
LEMMA LineKeeps ==
  ASSUME ModbusInv,
         OnDataSent \/ CheckCrc \/ \E k \in mbBus : \E kind \in Kinds : ReceiveData(k, kind)
  PROVE  ModbusInv'
<1>1. /\ WorkerType /\ ListType /\ LineType /\ AskedType
      /\ RoundInv /\ LineInv /\ CrcInv /\ EditInv
  BY TypeParts DEF ModbusInv
<1>2. /\ mbPc' = mbPc /\ mbUnit' = mbUnit /\ mbTcp' = mbTcp /\ mbPort' = mbPort
      /\ mbTaken' = mbTaken /\ mbAsked' = mbAsked /\ mbFailed' = mbFailed /\ mbGui' = mbGui
      /\ mbList' = mbList
  BY DEF OnDataSent, CheckCrc, ReceiveData
<1>3. (WorkerType /\ ListType /\ AskedType /\ RoundInv /\ EditInv)'
  <2>1. /\ mbPaused' = mbPaused /\ mbExit' = mbExit /\ mbEdits' = mbEdits
        /\ mbPending' = mbPending /\ mbEnd' = mbEnd /\ mbDuring' = mbDuring
    BY <1>2 DEF mbGui, mbList
  <2>2. Writing' = Writing /\ Done' = Done /\ Writes' = Writes
    BY <1>2 DEF Writing, Done, Writes, Request
  <2>3. WorkerType'
    BY <1>1, <1>2, <2>1 DEF WorkerType
  <2> QED
    BY <1>1, <1>2, <2>1, <2>2, <2>3, ListTypeFrame, AskedTypeFrame, RoundFrame, EditFrame
<1>4. /\ Request' = Request /\ Request \in Nat /\ Awaiting' = Awaiting /\ Pieces' = Pieces
      /\ MisreadNeedsFailure' /\ PieceNeedsRace'
      /\ mbFailed \in Nat /\ mbTcp \in BOOLEAN
  BY <1>1, <1>2, RequestNat
  DEF Request, Awaiting, Pieces, LineInv, CrcInv, MisreadNeedsFailure, PieceNeedsRace,
      AskedType, WorkerType
<1>5. CASE OnDataSent
  <2>1. /\ mbSent # 0 /\ mbSent' = 0
        /\ mbBus' = mbBus \cup {mbSent} \/ mbBus' = mbBus
        /\ mbRecv' = mbRecv /\ mbCrcOk' = mbCrcOk /\ mbRx' = mbRx
    BY <1>5 DEF OnDataSent
  <2>2. LineType'
    <3>1. mbSent' \in 0..Request /\ mbBus' \subseteq 1..Request
      <4>1. mbSent \in 1..Request /\ mbBus \subseteq 1..Request
        BY <1>1, <1>4, <2>1 DEF LineType
      <4>2. mbSent' \in 0..Request
        BY <1>4, <2>1
      <4> QED
        BY <2>1, <4>1, <4>2
    <3> QED
      BY <1>1, <1>4, <2>1, <3>1 DEF LineType
  <2>3. CrcInv'
    BY <1>1, <1>2, <2>1, CrcFrame
  <2>4. mbFailed = 0 => Alone'
    BY <1>1, <1>4, <2>1 DEF LineInv, Alone
  <2>5. mbFailed # 0 => Late'
    BY <1>1, <1>2, <2>1 DEF LineInv, Late
  <2>6. LineInv'
    BY <1>2, <1>4, <2>4, <2>5 DEF LineInv
  <2> QED
    BY <1>3, <2>2, <2>3, <2>6, TypePartsNext DEF ModbusInv
<1>6. CASE CheckCrc
  <2>1. /\ mbRx # <<>> /\ mbRx' = <<>>
        /\ mbCrcOk' = IF mbRecv # <<>> THEN mbRx[2] = "whole" ELSE mbCrcOk
        /\ mbSent' = mbSent /\ mbRecv' = mbRecv /\ mbBus' = mbBus
    BY <1>6 DEF CheckCrc
  <2>2. LineType'
    BY <1>1, <1>4, <2>1 DEF LineType
  <2>3. CrcInv'
    BY <1>1, <1>2, <1>4, <2>1 DEF CrcInv
  <2>4. LineInv'
    BY <1>1, <1>2, <1>4, <2>1, LineFrame
  <2> QED
    BY <1>3, <2>2, <2>3, <2>4, TypePartsNext DEF ModbusInv
<1>7. CASE \E k \in mbBus : \E kind \in Kinds : ReceiveData(k, kind)
  <2>1. PICK k \in mbBus, kind \in Kinds : ReceiveData(k, kind)
    BY <1>7
  <2>2. /\ mbRx = <<>> /\ mbRecv' = <<k, kind>>
        /\ mbRx' = IF mbTcp THEN <<>> ELSE <<k, kind>>
        /\ mbSent' = mbSent /\ mbCrcOk' = mbCrcOk
    BY <2>1 DEF ReceiveData
  <2>3. /\ mbBus' \subseteq mbBus
        /\ kind = "whole" => mbBus' = mbBus \ {k}
    BY <2>1 DEF ReceiveData
  <2>4. mbRecv' # <<>> /\ mbRecv'[1] = k /\ mbRecv'[2] = kind
    BY <2>2
  <2>5. LineType'
    <3>1. mbRecv' \in Pieces /\ mbRx' \in {<<>>} \cup Pieces
      BY <1>1, <2>2 DEF LineType, Pieces
    <3> QED
      BY <1>1, <1>4, <2>2, <2>3, <3>1 DEF LineType
  <2>6. CrcInv'
    BY <1>1, <1>2, <1>4, <2>2, <2>4 DEF CrcInv
  <2>7. mbFailed = 0 => Alone'
    <3> SUFFICES ASSUME mbFailed = 0 PROVE Alone'
      OBVIOUS
    <3>1. mbBus = {Request} /\ k = Request /\ Awaiting /\ mbSent = 0
      BY <1>1 DEF LineInv, Alone
    <3>2. mbBus' \subseteq {Request} /\ (kind = "whole" => mbBus' = {})
      BY <2>3, <3>1
    <3> QED
      BY <1>4, <2>2, <2>4, <3>1, <3>2 DEF Alone
  <2>8. mbFailed # 0 => Late'
    BY <1>1, <1>2, <2>2, <2>3, <2>4 DEF LineInv, Late
  <2>9. LineInv'
    BY <1>2, <1>4, <2>7, <2>8 DEF LineInv
  <2> QED
    BY <1>3, <2>5, <2>6, <2>9, TypePartsNext DEF ModbusInv
<1> QED
  BY <1>5, <1>6, <1>7

-----------------------------------------------------------------------------
(* The worker. *)

(* Steps before a round and after it: no request is awaited, no list walked  *)
(* afterwards.                                                               *)
LEMMA GateKeeps ==
  ASSUME ModbusInv, WaitUntilInited \/ OpenPort
  PROVE  ModbusInv'
<1>1. /\ WorkerType /\ ListType /\ LineType /\ AskedType
      /\ RoundInv /\ LineInv /\ CrcInv /\ EditInv
  BY TypeParts DEF ModbusInv
<1>2. /\ mbPc \in {"init", "gate"} /\ mbTcp' = mbTcp /\ mbTaken' = mbTaken
      /\ mbAsked' = mbAsked /\ mbFailed' = mbFailed /\ mbGui' = mbGui
      /\ mbLine' = mbLine /\ mbList' = mbList
  BY DEF WaitUntilInited, OpenPort
<1>3. /\ mbPaused' = mbPaused /\ mbExit' = mbExit /\ mbEdits' = mbEdits
      /\ mbPending' = mbPending /\ mbEnd' = mbEnd /\ mbDuring' = mbDuring
      /\ mbSent' = mbSent /\ mbRecv' = mbRecv /\ mbCrcOk' = mbCrcOk /\ mbRx' = mbRx
      /\ mbBus' = mbBus
  BY <1>2 DEF mbGui, mbLine, mbList
<1>4. /\ mbPc' \in {"gate", "crashed", "ended", "poll", "init"}
      /\ mbUnit' \in {mbUnit, 1} /\ (mbPc' = "poll" => mbUnit' = 1)
      /\ mbPort' \in {"none", "closed", "open"}
  <2>1. CASE WaitUntilInited
    BY <1>1, <2>1 DEF WaitUntilInited, WorkerType
  <2>2. CASE OpenPort
    BY <1>1, <2>2 DEF OpenPort, WorkerType
  <2> QED
    BY <2>1, <2>2
<1>5. WorkerType'
  <2>1. mbUnit' \in 1..(MbUnits + MaxEdits + 1)
    BY <1>1, <1>4 DEF WorkerType
  <2>2. mbPc' \in {"init", "gate", "poll", "await", "write", "awaitWrite", "ended", "crashed"}
    BY <1>4
  <2> QED
    BY <1>1, <1>2, <1>3, <1>4, <2>1, <2>2 DEF WorkerType
<1>6. (ListType /\ LineType /\ AskedType)'
  BY <1>1, <1>2, <1>3, ListTypeFrame, LineTypeFrame, AskedTypeFrame
<1>7. /\ ~Awaiting /\ ~Awaiting' /\ Awaiting' = Awaiting /\ ~Writing /\ ~Writing'
      /\ Writing' = Writing /\ Done' = Done /\ Writes' = Writes
      /\ \A k \in Writes : mbAsked'[k] = mbAsked[k]
  BY <1>2, <1>4 DEF Awaiting, Writing, Done, Writes, Request
<1>8. RoundInv'
  BY <1>1, <1>3, <1>4, <1>7 DEF RoundInv, Awaiting
<1>9. (LineInv /\ CrcInv /\ EditInv)'
  BY <1>1, <1>2, <1>3, <1>7, LineFrame, CrcFrame, EditFrame
<1> QED
  BY <1>5, <1>6, <1>8, <1>9, TypePartsNext DEF ModbusInv

(* A request: while none has failed nothing is on its way when it is made.   *)
LEMMA AskingLine ==
  ASSUME LineType, AskedType, LineInv, ~Awaiting, Awaiting', NEW w \in Asks, Send(w),
         UNCHANGED <<mbFailed, mbRecv, mbCrcOk, mbRx, mbBus>>,
         mbTaken' \in {mbTaken, Unread}
  PROVE  LineType' /\ AskedType' /\ LineInv'
<1>1. /\ Request \in Nat /\ Request' = Request + 1 /\ mbSent' = Request + 1
      /\ mbAsked' \in Seq(Asks) /\ \A k \in 1..Request : mbAsked'[k] = mbAsked[k]
  BY SendFacts
<1>2. Pieces \subseteq Pieces'
  BY <1>1 DEF Pieces
<1>3. LineType'
  BY <1>1, <1>2 DEF LineType
<1>4. AskedType'
  <2>1. mbTaken' \in [unit : 1..MbUnits, ans : 0..(Request + 1), whole : BOOLEAN, race : BOOLEAN]
    <3>1. mbTaken \in [unit : 1..MbUnits, ans : 0..(Request + 1), whole : BOOLEAN, race : BOOLEAN]
      <4>1. 0..Request \subseteq 0..(Request + 1)
        BY <1>1
      <4> QED
        BY <4>1 DEF AskedType
    <3>2. Unread \in [unit : 1..MbUnits, ans : 0..(Request + 1), whole : BOOLEAN, race : BOOLEAN]
      BY <1>1 DEF Unread
    <3> QED
      BY <3>1, <3>2
  <2>2. mbFailed' \in 0..(Request + 1)
    BY <1>1 DEF AskedType
  <2> QED
    BY <1>1, <2>1, <2>2 DEF AskedType
<1>5. MisreadNeedsFailure'
  <2>1. mbTaken.ans \in 0..Request /\ mbFailed' = mbFailed
    BY DEF AskedType
  <2>2. mbTaken.ans # 0 => mbAsked'[mbTaken.ans] = mbAsked[mbTaken.ans]
    BY <1>1, <2>1
  <2> QED
    BY <2>1, <2>2 DEF LineInv, MisreadNeedsFailure, Unread, Read
<1>6. mbFailed = 0 => Alone'
  BY <1>1 DEF LineInv, Alone
<1>7. mbFailed # 0 => Late'
  BY <1>1 DEF LineInv, Late, AskedType
<1> QED
  BY <1>3, <1>4, <1>5, <1>6, <1>7 DEF LineInv

LEMMA AskKeeps ==
  ASSUME ModbusInv, AskUnit
  PROVE  ModbusInv'
<1>1. /\ WorkerType /\ ListType /\ LineType /\ AskedType
      /\ RoundInv /\ LineInv /\ CrcInv /\ EditInv
  BY TypeParts DEF ModbusInv
<1>2. /\ mbPc = "poll" /\ mbPc' = "await" /\ Send(Read(mbUnit)) /\ mbTaken' = Unread
      /\ mbUnit' = mbUnit /\ mbTcp' = mbTcp /\ mbPort' = mbPort /\ mbFailed' = mbFailed
      /\ mbGui' = mbGui /\ mbList' = mbList
      /\ mbRecv' = mbRecv /\ mbCrcOk' = mbCrcOk /\ mbRx' = mbRx /\ mbBus' = mbBus
  BY DEF AskUnit
<1>3. /\ mbPaused' = mbPaused /\ mbExit' = mbExit /\ mbEdits' = mbEdits
      /\ mbPending' = mbPending /\ mbEnd' = mbEnd /\ mbDuring' = mbDuring
  BY <1>2 DEF mbGui, mbList
<1>4. Read(mbUnit) \in Asks /\ mbUnit <= MbUnits
  BY <1>1, <1>2 DEF Read, Asks, WorkerType, RoundInv
<1>5. /\ Request \in Nat /\ Request' = Request + 1 /\ mbAsked'[Request + 1] = Read(mbUnit)
      /\ \A k \in 1..Request : mbAsked'[k] = mbAsked[k]
      /\ Writes' = Writes
  <2>1. Read(mbUnit).op = "read"
    BY DEF Read
  <2> QED
    BY <1>1, <1>2, <1>4, <2>1, SendFacts
<1>6. /\ ~Awaiting /\ Awaiting' /\ ~Writing /\ ~Writing'
      /\ Writing' = Writing /\ Done' = Done
  BY <1>2 DEF Awaiting, Writing, Done
<1>7. (LineType /\ AskedType /\ LineInv)'
  BY <1>1, <1>2, <1>4, <1>6, AskingLine
<1>8. WorkerType' /\ ListType' /\ CrcInv'
  <2>1. WorkerType'
    BY <1>1, <1>2, <1>3 DEF WorkerType
  <2> QED
    BY <1>1, <1>2, <1>3, <2>1, ListTypeFrame, CrcFrame
<1>9. RoundInv'
  BY <1>1, <1>2, <1>3, <1>4, <1>5, <1>6 DEF RoundInv, Read
<1>10. EditInv'
  <2>1. \A k \in Writes : mbAsked'[k] = mbAsked[k]
    BY <1>5 DEF Writes
  <2> QED
    BY <1>1, <1>3, <1>5, <1>6, <2>1, EditFrame
<1> QED
  BY <1>7, <1>8, <1>9, <1>10, TypePartsNext DEF ModbusInv
(* The end of a wait: m_RecvData is cleared, and when there was no whole      *)
(* answer, what is still on its way is not older than this request.          *)
LEMMA EndingLine ==
  ASSUME LineType, AskedType, LineInv, Awaiting, ~Awaiting', Request > 0, EndRequest,
         UNCHANGED <<mbSent, mbCrcOk, mbRx, mbBus, mbAsked>>
  PROVE  /\ LineType' /\ mbFailed' \in 0..Request'
         /\ (mbFailed = 0 => Alone)' /\ (mbFailed # 0 => Late)'
         /\ mbFailed # 0 => mbFailed' = mbFailed
<1>1. /\ mbRecv' = <<>> /\ Request' = Request /\ Request \in Nat /\ Pieces' = Pieces
      /\ mbFailed' = IF mbFailed = 0 /\ ~(Ok /\ mbRecv[2] = "whole") THEN Request ELSE mbFailed
  BY RequestNat DEF EndRequest, Request, Pieces
<1>2. LineType' /\ mbFailed' \in 0..Request'
  BY <1>1 DEF LineType, AskedType
<1>3. mbFailed' = 0 => Alone'
  <2> SUFFICES ASSUME mbFailed' = 0 PROVE Alone'
    OBVIOUS
  <2>1. mbFailed = 0 /\ Ok /\ mbRecv[2] = "whole"
    BY <1>1
  <2>2. mbRecv # <<>> /\ mbBus = {} /\ mbSent = 0
    BY <2>1 DEF LineInv, Alone, Ok
  <2> QED
    BY <1>1, <2>2 DEF Alone
<1>4. mbFailed' # 0 => Late'
  <2>1. CASE mbFailed # 0
    BY <1>1, <2>1 DEF LineInv, Late
  <2>2. CASE mbFailed = 0 /\ mbFailed' # 0
    <3>1. mbFailed' = Request /\ (mbSent # 0 => mbSent = Request) /\ mbBus \subseteq {Request}
      BY <1>1, <2>2 DEF LineInv, Alone
    <3> QED
      BY <1>1, <3>1 DEF Late
  <2> QED
    BY <2>1, <2>2
<1>5. mbFailed # 0 => mbFailed' = mbFailed
  BY <1>1
<1> QED
  BY <1>2, <1>3, <1>4, <1>5

LEMMA TakeKeeps ==
  ASSUME ModbusInv, TakeAnswer
  PROVE  ModbusInv'
<1>1. /\ WorkerType /\ ListType /\ LineType /\ AskedType
      /\ RoundInv /\ LineInv /\ CrcInv /\ EditInv
  BY TypeParts DEF ModbusInv
<1>2. PICK a \in Answers : mbTaken' = a /\ mbUnit' = NextUnit(a.ans # 0)
  BY DEF TakeAnswer
<1>3. /\ mbPc = "await" /\ EndRequest /\ mbTcp' = mbTcp /\ mbPort' = mbPort
      /\ mbAsked' = mbAsked /\ mbGui' = mbGui
      /\ mbSent' = mbSent /\ mbCrcOk' = mbCrcOk /\ mbRx' = mbRx /\ mbBus' = mbBus
      /\ mbPending' = mbPending /\ mbDuring' = mbDuring
      /\ \/ mbUnit' <= MbUnits /\ mbPc' = "poll" /\ mbEnd' = mbEnd
         \/ ~(mbUnit' <= MbUnits) /\ mbPc' = "write" /\ mbEnd' = Len(mbPending)
  BY DEF TakeAnswer
<1>4. /\ mbPaused' = mbPaused /\ mbExit' = mbExit /\ mbEdits' = mbEdits
      /\ mbRecv' = <<>> /\ Request' = Request /\ Request \in Nat
      /\ mbAsked[Request] = Read(mbUnit) /\ Request > 0
  BY <1>1, <1>3, RequestNat DEF mbGui, EndRequest, Request, RoundInv
<1>5. /\ Awaiting /\ ~Awaiting' /\ ~Writing /\ Done = 0 /\ Writes' = Writes
      /\ Writing' <=> mbPc' = "write"
  BY <1>3 DEF Awaiting, Writing, Done, Writes, Request
<1>6. mbUnit \in 1..MbUnits /\ mbUnit' \in 1..(MbUnits + 1)
  <2>1. mbUnit \in 1..MbUnits
    BY <1>1, <1>3 DEF WorkerType, RoundInv
  <2>2. NextUnit(a.ans # 0) \in {mbUnit + 1, MbUnits + 1}
    BY DEF NextUnit
  <2> QED
    BY <1>2, <2>1, <2>2
<1>7. /\ LineType' /\ mbFailed' \in 0..Request'
      /\ (mbFailed = 0 => Alone)' /\ (mbFailed # 0 => Late)'
      /\ mbFailed # 0 => mbFailed' = mbFailed
  BY <1>1, <1>3, <1>4, <1>5, EndingLine
<1>8. \/ a = Unread
      \/ /\ Ok
         /\ a = [unit |-> mbUnit, ans |-> mbRecv[1], whole |-> mbRecv[2] = "whole",
                 race |-> mbRx # <<>>]
  BY DEF Answers
<1>9. Ok => mbRecv # <<>> /\ mbRecv[1] \in 1..Request
  BY <1>1 DEF Ok, LineType, Pieces
<1>10. AskedType'
  <2>1. mbTaken' \in [unit : 1..MbUnits, ans : 0..Request, whole : BOOLEAN, race : BOOLEAN]
    <3>1. CASE a = Unread
      BY <1>2, <1>4, <3>1 DEF Unread
    <3>2. CASE a # Unread
      <4>1. mbRecv[1] \in 0..Request /\ mbUnit \in 1..MbUnits
        BY <1>6, <1>8, <1>9, <3>2
      <4>2. (mbRecv[2] = "whole") \in BOOLEAN /\ (mbRx # <<>>) \in BOOLEAN
        OBVIOUS
      <4>3. mbTaken' = [unit |-> mbUnit, ans |-> mbRecv[1], whole |-> mbRecv[2] = "whole",
                        race |-> mbRx # <<>>]
        BY <1>2, <1>8, <3>2
      <4> QED
        BY <4>1, <4>2, <4>3
    <3> QED
      BY <3>1, <3>2
  <2> QED
    BY <1>1, <1>3, <1>4, <1>7, <2>1 DEF AskedType
<1>11. MisreadNeedsFailure'
  <2>1. CASE a = Unread
    BY <1>2, <2>1 DEF MisreadNeedsFailure, Unread
  <2>2. CASE a # Unread
    <3>1. /\ mbTaken'.ans = mbRecv[1] /\ mbTaken'.unit = mbUnit /\ mbRecv # <<>>
          /\ mbRecv[1] \in 1..Request
      BY <1>2, <1>8, <1>9, <2>2
    <3>2. CASE mbFailed = 0
      <4>1. mbRecv[1] = Request
        BY <1>1, <3>1, <3>2 DEF LineInv, Alone
      <4> QED
        BY <1>3, <1>4, <3>1, <4>1 DEF MisreadNeedsFailure, Read
    <3>3. CASE mbFailed # 0
      <4>1. mbRecv[1] >= mbFailed /\ mbFailed \in Nat
        BY <1>1, <3>1, <3>3 DEF LineInv, Late, AskedType
      <4> QED
        BY <1>7, <3>1, <3>3, <4>1 DEF MisreadNeedsFailure
    <3> QED
      BY <3>2, <3>3
  <2> QED
    BY <2>1, <2>2
<1>12. LineInv'
  BY <1>7, <1>11 DEF LineInv
<1>13. CrcInv'
  <2>1. PieceNeedsRace'
    <3>1. CASE a = Unread
      BY <1>2, <3>1 DEF PieceNeedsRace, Unread
    <3>2. CASE a # Unread
      <4>1. /\ mbTaken'.whole = (mbRecv[2] = "whole") /\ mbTaken'.race = (mbRx # <<>>)
            /\ mbRecv # <<>> /\ (mbTcp \/ mbCrcOk)
        BY <1>2, <1>8, <3>2 DEF Ok
      <4> QED
        BY <1>1, <1>3, <4>1 DEF CrcInv, PieceNeedsRace
    <3> QED
      BY <3>1, <3>2
  <2> QED
    BY <1>1, <1>3, <1>4, <2>1 DEF CrcInv
<1>14. ListType' /\ WorkerType'
  <2>1. mbEnd' \in 0..Len(mbPending)
    BY <1>1, <1>3, LenProperties DEF ListType
  <2>2. mbUnit' \in 1..(MbUnits + MaxEdits + 1)
    BY <1>6
  <2> QED
    BY <1>1, <1>3, <1>4, <2>1, <2>2 DEF ListType, WorkerType
<1>15. RoundInv'
  <2>1. mbPc' = "write" => mbUnit' = MbUnits + 1
    BY <1>3, <1>6
  <2>2. mbEnd' \in Nat
    BY <1>1, <1>3, LenProperties DEF ListType
  <2>3. mbPc' \in {"poll", "write"} /\ (mbPc' = "poll" => mbUnit' <= MbUnits)
    BY <1>3
  <2>4. Len(mbPending') <= mbEdits'
    BY <1>1, <1>3, <1>4 DEF RoundInv
  <2>5. Writing' => mbUnit' \in (MbUnits + 1)..(MbUnits + mbEnd' + 1)
    <3>1. MbUnits + 1 \in (MbUnits + 1)..(MbUnits + mbEnd' + 1)
      <4>1. \A m, k \in Nat : m + 1 \in (m + 1)..(m + k + 1)
        OBVIOUS
      <4> QED
        BY <2>2, <4>1
    <3>2. Writing' => mbUnit' = MbUnits + 1
      BY <1>3, <2>1 DEF Writing
    <3> QED
      BY <3>1, <3>2, Zenon
  <2> QED
    BY <2>3, <2>4, <2>5 DEF RoundInv
<1>16. EditInv'
  <2>1. Done' = 0
    <3>1. mbPc' = "write" => mbUnit' = MbUnits + 1
      BY <1>3, <1>6
    <3> QED
      BY <1>3, <3>1 DEF Done
  <2>2. EditsAccounted'
    BY <1>1, <1>3, <1>4, <1>5 DEF EditInv, EditsAccounted
  <2> QED
    BY <1>1, <1>3, <1>4, <1>5, <2>1, <2>2 DEF EditInv
<1> QED
  BY <1>7, <1>10, <1>12, <1>13, <1>14, <1>15, <1>16, TypePartsNext DEF ModbusInv

(* A write: unless an edit came meanwhile, the next one of the list.         *)
LEMMA WriteKeeps ==
  ASSUME ModbusInv, WriteEdit
  PROVE  ModbusInv'
<1>1. /\ WorkerType /\ ListType /\ LineType /\ AskedType
      /\ RoundInv /\ LineInv /\ CrcInv /\ EditInv
  BY TypeParts DEF ModbusInv
<1> DEFINE n == Len(mbPending)
           i0 == mbUnit - MbUnits
<1>2. PICK e \in {mbPending[i0]} \cup (IF n > mbEnd THEN {0} ELSE {}) : Send(Write(e))
  BY DEF WriteEdit
<1>3. /\ mbPc = "write" /\ mbPc' = "awaitWrite" /\ mbUnit > MbUnits /\ i0 <= mbEnd
      /\ mbUnit' = mbUnit /\ mbTcp' = mbTcp /\ mbPort' = mbPort /\ mbTaken' = mbTaken
      /\ mbFailed' = mbFailed /\ mbGui' = mbGui /\ mbList' = mbList
      /\ mbRecv' = mbRecv /\ mbCrcOk' = mbCrcOk /\ mbRx' = mbRx /\ mbBus' = mbBus
  BY DEF WriteEdit
<1>4. /\ mbPaused' = mbPaused /\ mbExit' = mbExit /\ mbEdits' = mbEdits
      /\ mbPending' = mbPending /\ mbEnd' = mbEnd /\ mbDuring' = mbDuring
  BY <1>3 DEF mbGui, mbList
<1>5. /\ mbUnit \in Nat /\ n \in Nat /\ mbEnd \in 0..n /\ i0 \in 1..n /\ mbEdits \in 0..MaxEdits
      /\ mbPending[i0] \in 1..MaxEdits
  <2>1. mbUnit \in Nat /\ n \in Nat /\ mbEnd \in 0..n /\ mbEdits \in 0..MaxEdits
    BY <1>1, LenProperties DEF WorkerType, ListType
  <2>2. i0 \in 1..n
    BY <1>3, <2>1
  <2> HIDE DEF n, i0
  <2>3. mbPending[i0] \in 1..MaxEdits
    BY <1>1, <2>2, ElementOfSeq DEF ListType, n
  <2> QED
    BY <2>1, <2>2, <2>3
<1>6. Write(e) \in Asks /\ Write(e).op = "write" /\ Write(e).n = e
  BY <1>5 DEF Write, Asks
<1> DEFINE r == Request + 1
<1>7. /\ Request \in Nat /\ Request' = r /\ mbAsked'[r] = Write(e)
      /\ \A k \in 1..Request : mbAsked'[k] = mbAsked[k]
      /\ Writes' = Writes \cup {r}
  BY <1>1, <1>2, <1>6, SendFacts
<1>8. ~Awaiting /\ Awaiting' /\ Writing /\ Writing' /\ Done = i0 - 1 /\ Done' = i0
  BY <1>3, <1>5 DEF Awaiting, Writing, Done
<1>9. (LineType /\ AskedType /\ LineInv)'
  BY <1>1, <1>2, <1>3, <1>6, <1>8, AskingLine
<1>10. WorkerType' /\ ListType' /\ CrcInv'
  <2>1. WorkerType'
    BY <1>1, <1>3, <1>4 DEF WorkerType
  <2> QED
    BY <1>1, <1>3, <1>4, <2>1, ListTypeFrame, CrcFrame
<1>11. RoundInv'
  BY <1>1, <1>3, <1>4, <1>5, <1>7, <1>8 DEF RoundInv
<1> HIDE DEF n, i0, r
<1>12. /\ \A k \in Writes : k \in 1..Request /\ mbAsked'[k] = mbAsked[k]
       /\ mbAsked'[r].n = e
  BY <1>6, <1>7 DEF Writes
<1>13. n = mbEnd => e = mbPending[i0]
  BY <1>5
<1>14. mbDuring = {} => n = mbEnd
  BY <1>1, <1>8 DEF EditInv, n
<1>15. mbDuring = {} => \A k \in Writes : /\ mbAsked[k].n <= mbEdits
                                          /\ \A i \in i0..n : mbAsked[k].n < mbPending[i]
  <2>1. Done + 1 = i0
    BY <1>5, <1>8
  <2> QED
    BY <1>1, <2>1 DEF EditInv, n
<1>16. EditsAccounted'
  <2>1. ASSUME NEW d \in 1..mbEdits'
        PROVE  \/ \E x \in mbDuring' : x >= d
               \/ \E i \in 1..Len(mbPending') : mbPending'[i] = d
               \/ \E k \in Writes' : mbAsked'[k].n = d
    <3>1. \/ \E x \in mbDuring : x >= d
          \/ \E i \in 1..Len(mbPending) : mbPending[i] = d
          \/ \E k \in Writes : mbAsked[k].n = d
      BY <1>1, <1>4 DEF EditInv, EditsAccounted
    <3> QED
      BY <1>4, <1>7, <1>12, <3>1
  <2>2. ASSUME mbDuring' = {}, NEW j \in Writes', NEW k \in Writes', j < k
        PROVE  mbAsked'[j].n < mbAsked'[k].n
    <3>1. j \in Writes
      BY <1>7, <1>12, <2>2 DEF r
    <3>2. CASE k \in Writes
      BY <1>1, <1>4, <1>12, <2>2, <3>1, <3>2 DEF EditInv, EditsAccounted
    <3>3. CASE k = r
      <4>1. i0 \in i0..n
        BY <1>5
      <4> QED
        BY <1>4, <1>12, <1>13, <1>14, <1>15, <2>2, <3>1, <3>3, <4>1
    <3> QED
      BY <1>7, <3>2, <3>3
  <2> QED
    BY <2>1, <2>2 DEF EditsAccounted
<1>17. n = mbEnd => \A i \in 1..i0 : \E k \in Writes' : mbAsked'[k].n = mbPending[i]
  <2> SUFFICES ASSUME n = mbEnd, NEW i \in 1..i0
               PROVE  \E k \in Writes' : mbAsked'[k].n = mbPending[i]
    OBVIOUS
  <2>1. CASE i = i0
    BY <1>7, <1>12, <1>13, <2>1
  <2>2. CASE i # i0
    <3>1. i \in 1..Done
      BY <1>5, <1>8, <2>2
    <3>2. \E k \in Writes : mbAsked[k].n = mbPending[i]
      BY <1>1, <1>8, <3>1 DEF EditInv, n
    <3> QED
      BY <1>7, <1>12, <3>2
  <2> QED
    BY <2>1, <2>2
<1>18. mbDuring = {} => \A k \in Writes' :
                          /\ mbAsked'[k].n <= mbEdits
                          /\ \A i \in (i0 + 1)..n : mbAsked'[k].n < mbPending[i]
  <2> SUFFICES ASSUME mbDuring = {}, NEW k \in Writes'
               PROVE  /\ mbAsked'[k].n <= mbEdits
                      /\ \A i \in (i0 + 1)..n : mbAsked'[k].n < mbPending[i]
    OBVIOUS
  <2>1. CASE k \in Writes
    BY <1>5, <1>12, <1>15, <2>1
  <2>2. CASE k = r
    <3>1. mbAsked'[k].n = mbPending[i0]
      BY <1>12, <1>13, <1>14, <2>2
    <3>2. /\ \A i \in 1..n : mbPending[i] <= mbEdits
          /\ \A i, j \in 1..n : i < j => mbPending[i] < mbPending[j]
      BY <1>1 DEF EditInv, n
    <3> QED
      BY <1>5, <3>1, <3>2
  <2> QED
    BY <1>7, <2>1, <2>2
<1>19. EditInv'
  BY <1>1, <1>4, <1>8, <1>16, <1>17, <1>18 DEF EditInv, n
<1> QED
  BY <1>9, <1>10, <1>11, <1>19, TypePartsNext DEF ModbusInv

LEMMA DoneKeeps ==
  ASSUME ModbusInv, WriteDone
  PROVE  ModbusInv'
<1>1. /\ WorkerType /\ ListType /\ LineType /\ AskedType
      /\ RoundInv /\ LineInv /\ CrcInv /\ EditInv
  BY TypeParts DEF ModbusInv
<1>2. /\ mbPc = "awaitWrite" /\ mbPc' = "write" /\ EndRequest /\ mbUnit' = mbUnit + 1
      /\ mbTcp' = mbTcp /\ mbPort' = mbPort /\ mbTaken' = mbTaken /\ mbAsked' = mbAsked
      /\ mbGui' = mbGui /\ mbList' = mbList /\ mbRecv' = <<>>
      /\ mbSent' = mbSent /\ mbCrcOk' = mbCrcOk /\ mbRx' = mbRx /\ mbBus' = mbBus
  BY DEF WriteDone, EndRequest
<1>3. /\ mbPaused' = mbPaused /\ mbExit' = mbExit /\ mbEdits' = mbEdits
      /\ mbPending' = mbPending /\ mbEnd' = mbEnd /\ mbDuring' = mbDuring
      /\ Request' = Request /\ Request > 0
  BY <1>1, <1>2 DEF mbGui, mbList, Request, RoundInv
<1>4. /\ mbUnit \in (MbUnits + 1)..(MbUnits + mbEnd) /\ mbEnd \in 0..MaxEdits
  <2>1. mbEnd \in 0..Len(mbPending) /\ Len(mbPending) <= mbEdits /\ mbEdits \in 0..MaxEdits
        /\ Len(mbPending) \in Nat
    BY <1>1, LenProperties DEF ListType, RoundInv
  <2>2. mbUnit \in (MbUnits + 1)..(MbUnits + mbEnd + 1) /\ mbUnit <= MbUnits + mbEnd
    BY <1>1, <1>2 DEF RoundInv, Writing
  <2> QED
    BY <2>1, <2>2
<1>5. /\ Awaiting /\ ~Awaiting' /\ Writing' = Writing /\ Writing /\ Done' = Done
      /\ Writes' = Writes /\ \A k \in Writes : mbAsked'[k] = mbAsked[k]
  BY <1>2, <1>3, <1>4 DEF Awaiting, Writing, Done, Writes
<1>6. /\ LineType' /\ mbFailed' \in 0..Request'
      /\ (mbFailed = 0 => Alone)' /\ (mbFailed # 0 => Late)'
      /\ mbFailed # 0 => mbFailed' = mbFailed
  BY <1>1, <1>2, <1>3, <1>5, EndingLine
<1>7. AskedType'
  BY <1>1, <1>2, <1>3, <1>6 DEF AskedType
<1>8. LineInv'
  <2>1. MisreadNeedsFailure'
    <3>1. mbFailed \in 1..mbTaken.ans => mbFailed' \in 1..mbTaken.ans
      BY <1>1, <1>6, RequestNat DEF AskedType
    <3> QED
      BY <1>1, <1>2, <3>1 DEF LineInv, MisreadNeedsFailure, Read
  <2> QED
    BY <1>6, <2>1 DEF LineInv
<1>9. CrcInv'
  BY <1>1, <1>2 DEF CrcInv, PieceNeedsRace
<1>10. WorkerType' /\ ListType'
  <2>1. mbUnit' \in 1..(MbUnits + MaxEdits + 1)
    BY <1>2, <1>4
  <2> QED
    BY <1>1, <1>2, <1>3, <2>1, ListTypeFrame DEF WorkerType
<1>11. RoundInv'
  <2>1. mbUnit' \in (MbUnits + 1)..(MbUnits + mbEnd + 1)
    BY <1>2, <1>4
  <2> QED
    BY <1>1, <1>2, <1>3, <2>1 DEF RoundInv
<1>12. EditInv'
  BY <1>1, <1>3, <1>5, EditFrame
<1> QED
  BY <1>6, <1>7, <1>8, <1>9, <1>10, <1>11, <1>12, TypePartsNext DEF ModbusInv

(* The list is cleared: what was in it was written, or was spoiled by the    *)
(* newest edit, which is one of those made during HandleWrites.              *)
LEMMA ClearKeeps ==
  ASSUME ModbusInv, ClearWrites
  PROVE  ModbusInv'
<1>1. /\ WorkerType /\ ListType /\ LineType /\ AskedType
      /\ RoundInv /\ LineInv /\ CrcInv /\ EditInv
  BY TypeParts DEF ModbusInv
<1>2. /\ mbPc = "write" /\ mbPc' \in {"ended", "init"} /\ mbUnit - MbUnits > mbEnd
      /\ mbPending' = <<>> /\ mbEnd' = 0 /\ mbTaken' = Unread
      /\ mbUnit' = mbUnit /\ mbTcp' = mbTcp /\ mbPort' = mbPort /\ mbAsked' = mbAsked
      /\ mbFailed' = mbFailed /\ mbGui' = mbGui /\ mbLine' = mbLine /\ mbDuring' = mbDuring
  BY DEF ClearWrites
<1>3. /\ mbPaused' = mbPaused /\ mbExit' = mbExit /\ mbEdits' = mbEdits
      /\ mbSent' = mbSent /\ mbRecv' = mbRecv /\ mbCrcOk' = mbCrcOk /\ mbRx' = mbRx
      /\ mbBus' = mbBus /\ Len(mbPending') = 0 /\ mbPending' \in Seq(1..MaxEdits)
  BY <1>2, EmptySeq DEF mbGui, mbLine
<1>4. /\ Writing /\ ~Writing' /\ ~Awaiting /\ ~Awaiting' /\ Awaiting' = Awaiting
      /\ Done = mbUnit - MbUnits - 1 /\ Done' = 0 /\ Writes' = Writes
  BY <1>2 DEF Writing, Awaiting, Done, Writes, Request
<1>5. ListType' /\ WorkerType'
  BY <1>1, <1>2, <1>3 DEF ListType, WorkerType
<1>6. (LineType /\ AskedType /\ LineInv /\ CrcInv)'
  BY <1>1, <1>2, <1>3, <1>4, LineTypeFrame, AskedTypeFrame, LineFrame, CrcFrame
<1>7. RoundInv'
  <2>1. mbEdits \in Nat
    BY <1>1 DEF ListType
  <2> QED
    BY <1>2, <1>3, <1>4, <2>1 DEF RoundInv
<1>8. EditsAccounted'
  <2>1. ASSUME NEW e \in 1..mbEdits
        PROVE  \/ \E d \in mbDuring : d >= e
               \/ \E k \in Writes : mbAsked[k].n = e
    <3>1. CASE mbEdits \in mbDuring
      <4>1. mbEdits >= e
        BY <1>1 DEF ListType
      <4> QED
        BY <3>1, <4>1
    <3>2. CASE Len(mbPending) = mbEnd
      <4>1. \A i \in 1..Len(mbPending) : i \in 1..Done
        BY <1>1, <1>2, <1>4, <3>2 DEF WorkerType, ListType
      <4>2. \A i \in 1..Len(mbPending) : \E k \in Writes : mbAsked[k].n = mbPending[i]
        BY <1>1, <1>4, <3>2, <4>1 DEF EditInv
      <4>3. \/ \E d \in mbDuring : d >= e
            \/ \E i \in 1..Len(mbPending) : mbPending[i] = e
            \/ \E k \in Writes : mbAsked[k].n = e
        BY <1>1 DEF EditInv, EditsAccounted
      <4> QED
        BY <4>2, <4>3
    <3> QED
      BY <1>1, <1>4, <3>1, <3>2 DEF EditInv
  <2>2. mbDuring = {} => \A j, k \in Writes : j < k => mbAsked[j].n < mbAsked[k].n
    BY <1>1 DEF EditInv, EditsAccounted
  <2> QED
    BY <1>2, <1>3, <1>4, <2>1, <2>2 DEF EditsAccounted
<1>9. EditInv'
  BY <1>1, <1>2, <1>3, <1>4, <1>8 DEF EditInv
<1> QED
  BY <1>5, <1>6, <1>7, <1>9, TypePartsNext DEF ModbusInv

-----------------------------------------------------------------------------
LEMMA ModbusKeeps == ModbusInv /\ [ModbusNext]_mbVars => ModbusInv'
  BY GuiKeeps, EditKeeps, LineKeeps, GateKeeps, AskKeeps, TakeKeeps, WriteKeeps, DoneKeeps,
     ClearKeeps
  DEF ModbusNext, ModbusWorker

(* The types of the state of the Modbus master, for every number of units,   *)
(* requests and edits: the unit that is read never leaves the round and the  *)
(* list of writes, and an answer is always of a request that was made        *)
(* (ModbusHandler.cpp, ModbusWorker; ModbusMasterSerialPort.cpp).            *)
THEOREM ModbusTypeCorrect == ModbusSpec => []ModbusTypeOK
<1>1. ModbusInv => ModbusTypeOK
  BY DEF ModbusInv
<1> QED
  BY InitModbus, ModbusKeeps, <1>1, PTL DEF ModbusSpec

(* The items show the values the slave gave for them until a request ends    *)
(* without a whole answer, and are filled from a damaged answer only when    *)
(* the wait ended between the two writes of OnUartDataReceived; every edit   *)
(* is sent once and in order, but for those made while HandleWrites was      *)
(* running and the ones before them (NotifyAndWaitForResponse,               *)
(* OnUartDataReceived, HandleWrites and EditHolding).                        *)
THEOREM ModbusIsSafe == ModbusSpec => []ModbusSafe
<1>1. ModbusInv => ModbusSafe
  BY DEF ModbusInv, LineInv, CrcInv, EditInv, ModbusSafe
<1> QED
  BY InitModbus, ModbusKeeps, <1>1, PTL DEF ModbusSpec

-----------------------------------------------------------------------------

CanLogSpec == CanLogInit /\ [][CanLogNext]_lgVars
ModbusLogSpec == ModbusLogInit /\ [][ModbusLogNext]_mlVars

-----------------------------------------------------------------------------
(* A vector of entries of T, the grid that shows them, and a walk.           *)
VecOf(T)  == [items : Seq(T), cap : Nat, moved : Nat]
GridOf(T) == [rows : Seq(T), height : Nat, until : Nat, inserted : BOOLEAN]
Walks     == [at : Nat, moved : Nat]

LEMMA NewOnes ==
  ASSUME NEW T
  PROVE  /\ NoEntries \in VecOf(T) /\ NoEntries.items = <<>> /\ Len(NoEntries.items) = 0
         /\ NewGrid \in GridOf(T) /\ NewGrid.rows = <<>> /\ NewGrid.until = 0
         /\ ~NewGrid.inserted /\ NewGrid.height = 1
BY DEF NoEntries, NewGrid, VecOf, GridOf

LEMMA Pushed ==
  ASSUME NEW T, NEW v \in VecOf(T), NEW e \in T
  PROVE  /\ PushBack(v, e) \in VecOf(T)
         /\ PushBack(v, e).items = Append(v.items, e)
         /\ Len(PushBack(v, e).items) = Len(v.items) + 1
         /\ \A n \in 0..Len(v.items) :
              SubSeq(PushBack(v, e).items, 1, n) = SubSeq(v.items, 1, n)
<1>1. v.items \in Seq(T) /\ v.cap \in Nat /\ v.moved \in Nat
  BY DEF VecOf
<1>2. v.cap + v.cap \div 2 \in Nat /\ Len(v.items) + 1 \in Nat
  BY <1>1
<1>3. Larger(v.cap + v.cap \div 2, Len(v.items) + 1) \in Nat
  BY <1>2 DEF Larger
<1>4. PushBack(v, e).items = Append(v.items, e)
  BY <1>1 DEF PushBack, VecOf
<1>5. PushBack(v, e) \in VecOf(T)
  <2>1. CASE Len(v.items) < v.cap
    BY <1>1, <2>1 DEF PushBack, VecOf
  <2>2. CASE ~(Len(v.items) < v.cap)
    <3>1. PushBack(v, e) = [items |-> Append(v.items, e), moved |-> v.moved + 1,
                            cap |-> Larger(v.cap + v.cap \div 2, Len(v.items) + 1)]
      BY <2>2 DEF PushBack
    <3>2. Append(v.items, e) \in Seq(T)
      BY <1>1
    <3> QED
      BY <3>1, <3>2, <1>1, <1>3 DEF VecOf
  <2> QED
    BY <2>1, <2>2
<1>6. \A n \in 0..Len(v.items) : SubSeq(Append(v.items, e), 1, n) = SubSeq(v.items, 1, n)
  BY <1>1
<1> QED
  BY <1>1, <1>4, <1>5, <1>6

LEMMA Cleared ==
  ASSUME NEW T, NEW v \in VecOf(T)
  PROVE  /\ Clear(v) \in VecOf(T) /\ Clear(v).items = <<>> /\ Len(Clear(v).items) = 0
         /\ Clear(v).moved = v.moved
<1>1. v.cap \in Nat /\ v.moved \in Nat /\ DOMAIN v = {"items", "cap", "moved"}
  BY DEF VecOf
<1>2. Clear(v) = [items |-> <<>>, cap |-> v.cap, moved |-> v.moved]
  BY DEF Clear, VecOf
<1>3. <<>> \in Seq(T) /\ Len(<<>>) = 0
  OBVIOUS
<1> QED
  BY <1>1, <1>2, <1>3 DEF VecOf

LEMMA ClearedGrid ==
  ASSUME NEW T, NEW g
  PROVE  /\ ClearRecordingsFromGrid(g) \in GridOf(T)
         /\ ClearRecordingsFromGrid(g).rows = <<>> /\ ClearRecordingsFromGrid(g).until = 0
         /\ ~ClearRecordingsFromGrid(g).inserted /\ ClearRecordingsFromGrid(g).height = 0
         /\ Len(ClearRecordingsFromGrid(g).rows) = 0
<1> DEFINE c == ClearRecordingsFromGrid(g)
<1>1. NewGrid \in GridOf(T) /\ NewGrid.rows = <<>> /\ NewGrid.until = 0 /\ ~NewGrid.inserted
  BY NewOnes
<1>2. c = [NewGrid EXCEPT !.height = 0]
  BY DEF ClearRecordingsFromGrid
<1>3. c \in GridOf(T) /\ c.rows = <<>> /\ c.until = 0 /\ ~c.inserted /\ c.height = 0
  BY <1>1, <1>2 DEF GridOf
<1>4. Len(<<>>) = 0
  OBVIOUS
<1> QED
  BY <1>3, <1>4, Zenon

LEMMA RowAppended ==
  ASSUME NEW T, NEW g \in GridOf(T), NEW e \in T
  PROVE  /\ AppendRow(g, e) \in GridOf(T)
         /\ AppendRow(g, e).rows = Append(g.rows, e) /\ AppendRow(g, e).until = g.until
         /\ AppendRow(g, e).inserted = g.inserted
         /\ AppendRow(g, e).height = IF g.height <= Len(g.rows) THEN g.height + 1 ELSE g.height
         /\ Len(AppendRow(g, e).rows) = Len(g.rows) + 1
<1>1. g.rows \in Seq(T) /\ g.height \in Nat
  BY DEF GridOf
<1>2. Append(g.rows, e) \in Seq(T) /\ Len(Append(g.rows, e)) = Len(g.rows) + 1
  BY <1>1
<1> DEFINE a == AppendRow(g, e)
           h == IF g.height <= Len(g.rows) THEN g.height + 1 ELSE g.height
<1>3. a = [g EXCEPT !.rows = Append(g.rows, e), !.height = h]
  BY DEF AppendRow
<1>4. h \in Nat
  BY <1>1
<1> HIDE DEF h
<1>5. a \in GridOf(T) /\ a.rows = Append(g.rows, e) /\ a.height = h /\ a.until = g.until
      /\ a.inserted = g.inserted
  BY <1>2, <1>3, <1>4 DEF GridOf
<1> QED
  BY <1>2, <1>5 DEF h

LEMMA WalkFrom ==
  ASSUME NEW T, NEW v \in VecOf(T), NEW g \in GridOf(T)
  PROVE  Walk(v, g) \in Walks /\ Walk(v, g).at = g.until + 1 /\ Walk(v, g).moved = v.moved
BY DEF Walk, Walks, VecOf, GridOf

(* One more entry of a beginning of a list. *)
LEMMA OneMoreOf ==
  ASSUME NEW T, NEW s \in Seq(T), NEW b \in Seq(T), NEW n \in Nat, n < Len(s)
  PROVE  Append(b \o SubSeq(s, 1, n), s[n + 1]) = b \o SubSeq(s, 1, n + 1)
<1>1. SubSeq(s, 1, n + 1) = Append(SubSeq(s, 1, n), s[n + 1])
  OBVIOUS
<1>2. SubSeq(s, 1, n) \in Seq(T) /\ s[n + 1] \in T
  OBVIOUS
<1> QED
  BY <1>1, <1>2, ConcatAppend, Zenon

LEMMA NoneOf ==
  ASSUME NEW T, NEW s \in Seq(T), NEW b \in Seq(T)
  PROVE  b = b \o SubSeq(s, 1, 0)
OBVIOUS

-----------------------------------------------------------------------------
(* The Modbus log.  The rows are never fewer than inserted_until says, and   *)
(* the grid never lower than its rows: so a grid that is not higher than the *)
(* entries are many is continued inside of them.                             *)
MlType ==
  /\ mlVec \in VecOf(Nat) /\ mlGrid \in GridOf(Nat) /\ mlBase \in Seq(Nat) /\ mlLogged \in Nat
  /\ mlWalk \in Walks
  /\ mlSkew \in BOOLEAN /\ mlRace \in BOOLEAN /\ mlWild \in BOOLEAN
  /\ mlAt \in {"idle", "advance", "walk"}

MlShown ==
  /\ mlGrid.until <= Len(mlGrid.rows) /\ Len(mlGrid.rows) <= mlGrid.height
  /\ ~mlGrid.inserted => mlGrid.until = 0
  /\ ~mlSkew => /\ mlGrid.rows = mlBase \o SubSeq(mlVec.items, 1, mlGrid.until)
                /\ mlGrid.until <= Len(mlVec.items)

MlWalking ==
  /\ mlWild => mlRace
  /\ mlAt = "advance" => mlRace \/ mlGrid.until <= Len(mlVec.items)
  /\ mlAt = "walk" =>
       /\ mlWalk.at = mlGrid.until + 1
       /\ mlRace \/ (mlWalk.moved = mlVec.moved /\ mlGrid.until <= Len(mlVec.items))

MlInv == MlType /\ MlShown /\ MlWalking

LEMMA MlInit == ModbusLogInit => MlInv
<1> SUFFICES ASSUME ModbusLogInit PROVE MlInv
  OBVIOUS
<1>1. /\ NoEntries \in VecOf(Nat) /\ NoEntries.items = <<>> /\ NewGrid \in GridOf(Nat)
      /\ NewGrid.rows = <<>> /\ NewGrid.until = 0 /\ NewGrid.height = 1 /\ Len(NoEntries.items) = 0
  BY NewOnes
<1>2. Walk(NoEntries, NewGrid) \in Walks
  BY <1>1, WalkFrom
<1>3. <<>> \in Seq(Nat) /\ Len(<<>>) = 0 /\ <<>> = <<>> \o SubSeq(<<>>, 1, 0)
  OBVIOUS
<1>4. MlType
  BY <1>1, <1>2, <1>3 DEF ModbusLogInit, MlType
<1> QED
  BY <1>1, <1>3, <1>4 DEF ModbusLogInit, MlInv, MlShown, MlWalking

(* An entry is pushed by a thread that is not the GUI's: to a walk this is a *)
(* race.                                                                     *)
LEMMA MlPushed ==
  ASSUME MlInv, ~mlWild, mlVec' = PushBack(mlVec, mlLogged), mlLogged' = mlLogged + 1,
         mlRace' \in BOOLEAN, mlWild' \in BOOLEAN, mlRace \/ mlAt # "idle" => mlRace', mlWild' => mlRace',
         UNCHANGED <<mlGrid, mlAt, mlWalk, mlBase, mlSkew>>
  PROVE  MlInv'
<1>1. MlType /\ MlShown /\ MlWalking
  BY DEF MlInv
<1>2. mlVec \in VecOf(Nat) /\ mlLogged \in Nat /\ mlGrid.until \in Nat
  BY <1>1 DEF MlType, GridOf
<1>3. /\ mlVec' \in VecOf(Nat) /\ Len(mlVec'.items) = Len(mlVec.items) + 1
      /\ \A n \in 0..Len(mlVec.items) : SubSeq(mlVec'.items, 1, n) = SubSeq(mlVec.items, 1, n)
  BY <1>2, Pushed
<1>4. Len(mlVec.items) \in Nat
  BY <1>2 DEF VecOf
<1>5. MlType'
  BY <1>1, <1>3 DEF MlType
<1>6. MlShown'
  <2>1. ~mlSkew => SubSeq(mlVec'.items, 1, mlGrid.until) = SubSeq(mlVec.items, 1, mlGrid.until)
    BY <1>1, <1>2, <1>3, <1>4 DEF MlShown
  <2>2. ~mlSkew => mlGrid.until <= Len(mlVec'.items)
    <3>1. ~mlSkew => mlGrid.until <= Len(mlVec.items)
      BY <1>1, Zenon DEF MlShown
    <3> QED
      BY <1>2, <1>3, <1>4, <3>1
  <2>3. ~mlSkew => mlGrid.rows = mlBase \o SubSeq(mlVec'.items, 1, mlGrid.until)
    BY <1>1, <2>1, Zenon DEF MlShown
  <2>4. mlGrid' = mlGrid /\ mlBase' = mlBase /\ mlSkew' = mlSkew
    OBVIOUS
  <2>5. /\ mlGrid.until <= Len(mlGrid.rows) /\ Len(mlGrid.rows) <= mlGrid.height
        /\ ~mlGrid.inserted => mlGrid.until = 0
    BY <1>1, Zenon DEF MlShown
  <2>6. /\ mlGrid'.until <= Len(mlGrid'.rows) /\ Len(mlGrid'.rows) <= mlGrid'.height
        /\ ~mlGrid'.inserted => mlGrid'.until = 0
    BY <2>4, <2>5
  <2>7. ~mlSkew' => /\ mlGrid'.rows = mlBase' \o SubSeq(mlVec'.items, 1, mlGrid'.until)
                    /\ mlGrid'.until <= Len(mlVec'.items)
    <3>0. ~mlSkew' => ~mlSkew
      BY <2>4
    <3>1. mlGrid'.rows = mlGrid.rows /\ mlGrid'.until = mlGrid.until
      BY <2>4
    <3>2. mlBase' \o SubSeq(mlVec'.items, 1, mlGrid'.until) = mlBase \o SubSeq(mlVec'.items, 1, mlGrid.until)
      BY <2>4, <3>1, Zenon
    <3>3. ~mlSkew' => mlGrid'.rows = mlBase' \o SubSeq(mlVec'.items, 1, mlGrid'.until)
      BY <2>3, <3>0, <3>1, <3>2, Zenon
    <3>4. ~mlSkew' => mlGrid'.until <= Len(mlVec'.items)
      BY <2>2, <3>0, <3>1, Zenon
    <3> QED
      BY <3>3, <3>4, Zenon
  <2> QED
    BY <2>6, <2>7, Zenon DEF MlShown
<1>7. MlWalking'
  BY <1>1, <1>2 DEF MlWalking, MlType
<1> QED
  BY <1>5, <1>6, <1>7 DEF MlInv

(* At the limit the entries are cleared before: the grid is not told.        *)
LEMMA MlFull ==
  ASSUME MlInv, ~mlWild, mlVec' = PushBack(Clear(mlVec), mlLogged), mlLogged' = mlLogged + 1, mlSkew',
         mlRace' \in BOOLEAN, mlWild' \in BOOLEAN, mlRace \/ mlAt # "idle" => mlRace', mlWild' => mlRace',
         UNCHANGED <<mlGrid, mlAt, mlWalk, mlBase>>, mlSkew' \in BOOLEAN
  PROVE  MlInv'
<1>1. MlType /\ MlShown /\ MlWalking
  BY DEF MlInv
<1>2. Clear(mlVec) \in VecOf(Nat) /\ mlLogged \in Nat
  BY <1>1, Cleared DEF MlType
<1>3. mlVec' \in VecOf(Nat)
  BY <1>2, Pushed
<1>4. MlType'
  BY <1>1, <1>3 DEF MlType
<1>5. MlShown'
  BY <1>1 DEF MlShown
<1>6. MlWalking'
  BY <1>1 DEF MlWalking, MlType
<1> QED
  BY <1>4, <1>5, <1>6 DEF MlInv

LEMMA MlThreads ==
  ASSUME MlInv,
         OnRequestSent \/ RecordSent \/ AnswerCame \/ RecordAnswer \/ RecordFailure \/ FailureRecorded
         \/ ToggleLog
  PROVE  MlInv'
<1>1. MlType /\ MlShown /\ MlWalking
  BY DEF MlInv
<1>2. CASE OnRequestSent \/ AnswerCame \/ RecordFailure \/ ToggleLog
  <2>1. UNCHANGED <<mlVec, mlGrid, mlBase, mlLogged, mlWalk, mlSkew, mlRace, mlWild, mlAt>>
    BY <1>2 DEF OnRequestSent, AnswerCame, RecordFailure, ToggleLog
  <2> QED
    BY <1>1, <2>1 DEF MlInv, MlType, MlShown, MlWalking
<1>3. CASE RecordSent
  <2>1. mlRace' \in BOOLEAN /\ mlWild' \in BOOLEAN /\ (mlRace \/ mlAt # "idle" => mlRace')
        /\ (mlWild' => mlRace') /\ mlSkew' \in BOOLEAN
    BY <1>1, <1>3 DEF RecordSent, Used, MlType
  <2>2. CASE Len(mlVec.items) >= MaxRecorded
    <3>1. mlVec' = PushBack(Clear(mlVec), mlLogged) /\ mlSkew'
      BY <1>3, <2>2 DEF RecordSent
    <3> QED
      BY <1>3, <2>1, <3>1, MlFull DEF RecordSent
  <2>3. CASE ~(Len(mlVec.items) >= MaxRecorded)
    <3>1. mlVec' = PushBack(mlVec, mlLogged) /\ mlSkew' = mlSkew
      BY <1>1, <1>3, <2>3 DEF RecordSent, MlType
    <3> QED
      BY <1>3, <2>1, <3>1, MlPushed DEF RecordSent
  <2> QED
    BY <2>2, <2>3
<1>4. CASE RecordAnswer
  <2>1. mlRace' \in BOOLEAN /\ mlWild' \in BOOLEAN /\ (mlRace \/ mlAt # "idle" => mlRace')
        /\ (mlWild' => mlRace')
    BY <1>1, <1>4 DEF RecordAnswer, Used, MlType
  <2> QED
    BY <1>4, <2>1, MlPushed DEF RecordAnswer
<1>5. CASE FailureRecorded
  <2>1. mlRace' \in BOOLEAN /\ mlWild' \in BOOLEAN /\ (mlRace \/ mlAt # "idle" => mlRace')
        /\ (mlWild' => mlRace')
    BY <1>1, <1>5 DEF FailureRecorded, MlType
  <2> QED
    BY <1>5, <2>1, MlPushed DEF FailureRecorded
<1> QED
  BY <1>2, <1>3, <1>4, <1>5

LEMMA MlButtons ==
  ASSUME MlInv, StopLog \/ ClearLog \/ SpecialStopOrClear \/ SaveLog
  PROVE  MlInv'
<1>1. MlType /\ MlShown /\ MlWalking
  BY DEF MlInv
<1>2. /\ mlAt = "idle" /\ mlAt' = "idle" /\ ~mlWild /\ mlRace' \in BOOLEAN /\ mlWild' \in BOOLEAN
      /\ (mlWild' => mlRace')
  BY <1>1 DEF StopLog, ClearLog, SpecialStopOrClear, SaveLog, MlGui, Used, MlType
<1>3. MlWalking'
  BY <1>2 DEF MlWalking
<1>4. /\ Clear(mlVec) \in VecOf(Nat) /\ Clear(mlVec).items = <<>> /\ Len(Clear(mlVec).items) = 0
  BY <1>1, Cleared DEF MlType
<1>5. /\ mlGrid.rows \in Seq(Nat) /\ Len(mlGrid.rows) \in Nat /\ mlGrid.until \in Nat
      /\ mlVec.items \in Seq(Nat)
  BY <1>1 DEF MlType, GridOf, VecOf
<1>6. CASE StopLog
  <2>1. /\ mlGrid' \in GridOf(Nat) /\ mlGrid'.until = 0 /\ mlGrid'.rows = mlGrid.rows
        /\ mlGrid'.height = mlGrid.height /\ mlGrid'.inserted = mlGrid.inserted
    BY <1>1, <1>6 DEF StopLog, MlType, GridOf
  <2>2. MlType'
    BY <1>1, <1>2, <1>4, <1>5, <1>6, <2>1 DEF StopLog, MlType
  <2>3. mlGrid.rows = mlGrid.rows \o SubSeq(<<>>, 1, 0)
    BY <1>5
  <2>4. MlShown'
    BY <1>1, <1>4, <1>5, <1>6, <2>1, <2>3 DEF StopLog, MlShown
  <2> QED
    BY <1>3, <2>2, <2>4 DEF MlInv
<1>7. CASE ClearLog
  <2> DEFINE c == ClearRecordingsFromGrid(mlGrid)
  <2>1. c \in GridOf(Nat) /\ c.until = 0 /\ c.rows = <<>> /\ c.height = 0 /\ Len(c.rows) = 0
    BY ClearedGrid
  <2>2. mlGrid' = c
    BY <1>7 DEF ClearLog
  <2> HIDE DEF c
  <2>3. <<>> \in Seq(Nat) /\ <<>> = <<>> \o SubSeq(<<>>, 1, 0)
    OBVIOUS
  <2>4. MlType'
    BY <1>1, <1>2, <1>4, <1>7, <2>1, <2>2, <2>3 DEF ClearLog, MlType
  <2>5. MlShown'
    <3>1. mlVec' = Clear(mlVec) /\ mlBase' = <<>>
      BY <1>7 DEF ClearLog
    <3>2. mlGrid'.until <= Len(mlGrid'.rows) /\ Len(mlGrid'.rows) <= mlGrid'.height
          /\ mlGrid'.until <= Len(mlVec'.items) /\ mlGrid'.until = 0
      BY <1>4, <2>1, <2>2, <3>1
    <3>3. mlGrid'.rows = mlBase' \o SubSeq(mlVec'.items, 1, mlGrid'.until)
      BY <1>4, <2>1, <2>2, <2>3, <3>1
    <3> QED
      BY <3>2, <3>3 DEF MlShown
  <2> QED
    BY <1>3, <2>4, <2>5 DEF MlInv
<1>8. CASE SpecialStopOrClear
  <2>1. MlType'
    BY <1>1, <1>2, <1>4, <1>8 DEF SpecialStopOrClear, MlType
  <2>2. CASE mlVec.items = <<>>
    <3>1. mlVec'.items = mlVec.items /\ mlSkew' = mlSkew
      BY <1>1, <1>4, <1>8, <2>2 DEF SpecialStopOrClear, MlType
    <3> QED
      BY <1>1, <1>3, <1>8, <2>1, <3>1 DEF SpecialStopOrClear, MlShown, MlInv
  <2>3. CASE mlVec.items # <<>>
    BY <1>1, <1>3, <1>8, <2>1, <2>3 DEF SpecialStopOrClear, MlShown, MlInv
  <2> QED
    BY <2>2, <2>3
<1>9. CASE SaveLog
  BY <1>1, <1>2, <1>3, <1>9 DEF SaveLog, MlInv, MlType, MlShown
<1> QED
  BY <1>6, <1>7, <1>8, <1>9

LEMMA MlTimer ==
  ASSUME MlInv, LogTimerBegin \/ LogTimerAdvance \/ LogTimerStep
  PROVE  MlInv'
<1>1. MlType /\ MlShown /\ MlWalking
  BY DEF MlInv
<1>2. /\ mlGrid.rows \in Seq(Nat) /\ Len(mlGrid.rows) \in Nat /\ mlGrid.until \in Nat /\ mlGrid.height \in Nat
      /\ mlVec.items \in Seq(Nat) /\ Len(mlVec.items) \in Nat /\ mlVec \in VecOf(Nat) /\ mlGrid \in GridOf(Nat)
      /\ mlGrid.inserted \in BOOLEAN
  BY <1>1 DEF MlType, GridOf, VecOf
<1>3. CASE LogTimerBegin
  <2>1. CASE Outdated(mlVec, mlGrid)
    <3> DEFINE c == ClearRecordingsFromGrid(mlGrid)
    <3>1. c \in GridOf(Nat) /\ c.until = 0 /\ c.rows = <<>> /\ c.height = 0 /\ Len(c.rows) = 0 /\ ~c.inserted
      BY ClearedGrid
    <3>2. mlGrid' = [c EXCEPT !.until = 0] /\ mlBase' = <<>> /\ mlSkew' = FALSE
      BY <1>3, <2>1, <3>1 DEF LogTimerBegin
    <3> HIDE DEF c
    <3>3. /\ mlGrid' \in GridOf(Nat) /\ mlGrid'.until = 0 /\ mlGrid'.rows = <<>> /\ mlGrid'.height = 0
          /\ Len(mlGrid'.rows) = 0 /\ ~mlGrid'.inserted
      BY <3>1, <3>2 DEF GridOf
    <3>4. <<>> \in Seq(Nat) /\ <<>> = <<>> \o SubSeq(mlVec.items, 1, 0)
      BY <1>2
    <3>5. MlType'
      BY <1>1, <1>3, <3>2, <3>3, <3>4 DEF LogTimerBegin, MlType
    <3>6. MlShown'
      <4>1. mlVec' = mlVec
        BY <1>3 DEF LogTimerBegin
      <4>2. mlGrid'.rows = mlBase' \o SubSeq(mlVec.items, 1, mlGrid'.until)
        BY <3>2, <3>3, <3>4
      <4>3. mlGrid'.until <= Len(mlGrid'.rows) /\ Len(mlGrid'.rows) <= mlGrid'.height
            /\ mlGrid'.until <= Len(mlVec.items) /\ mlGrid'.until = 0
        BY <1>2, <3>3
      <4> QED
        BY <4>1, <4>2, <4>3 DEF MlShown
    <3>7. MlWalking'
      BY <1>2, <1>3, <3>3 DEF LogTimerBegin, MlGui, MlWalking
    <3> QED
      BY <3>5, <3>6, <3>7 DEF MlInv
  <2>2. CASE ~Outdated(mlVec, mlGrid)
    <3>1. /\ mlGrid' = IF mlGrid.inserted THEN mlGrid ELSE [mlGrid EXCEPT !.until = 0]
          /\ mlBase' = mlBase /\ mlSkew' = mlSkew
      BY <1>1, <1>3, <2>2 DEF LogTimerBegin, MlType
    <3>2. ~mlGrid.inserted => mlGrid.until = 0
      BY <1>1 DEF MlShown
    <3>3. mlGrid' \in GridOf(Nat) /\ mlGrid'.until = mlGrid.until /\ mlGrid'.rows = mlGrid.rows
          /\ mlGrid'.height = mlGrid.height /\ mlGrid'.inserted = mlGrid.inserted
      BY <1>2, <3>1, <3>2 DEF GridOf
    <3>4. mlGrid.until <= Len(mlVec.items)
      BY <1>1, <1>2, <2>2 DEF Outdated, MlShown
    <3>5. MlType'
      BY <1>1, <1>3, <3>1, <3>3 DEF LogTimerBegin, MlType
    <3>6. MlShown'
      <4>1. mlVec' = mlVec /\ mlSkew' = mlSkew /\ mlBase' = mlBase
        BY <1>3, <3>1 DEF LogTimerBegin
      <4>2. mlGrid'.until <= Len(mlGrid'.rows) /\ Len(mlGrid'.rows) <= mlGrid'.height
        BY <1>1, <3>3 DEF MlShown
      <4>3. ~mlGrid'.inserted => mlGrid'.until = 0
        BY <3>2, <3>3
      <4>4. ~mlSkew => mlGrid'.rows = mlBase \o SubSeq(mlVec.items, 1, mlGrid'.until)
                       /\ mlGrid'.until <= Len(mlVec.items)
        BY <1>1, <3>3 DEF MlShown
      <4> QED
        BY <4>1, <4>2, <4>3, <4>4 DEF MlShown
    <3>7. MlWalking'
      BY <1>3, <3>3, <3>4 DEF LogTimerBegin, MlGui, MlWalking
    <3> QED
      BY <3>5, <3>6, <3>7 DEF MlInv
  <2> QED
    BY <2>1, <2>2
<1>4. CASE LogTimerAdvance
  <2>1. mlWalk' \in Walks /\ mlWalk'.at = mlGrid.until + 1 /\ mlWalk'.moved = mlVec.moved
    BY <1>2, <1>4, WalkFrom DEF LogTimerAdvance
  <2>2. MlType'
    BY <1>1, <1>4, <2>1 DEF LogTimerAdvance, MlType
  <2>3. MlShown'
    BY <1>1, <1>4 DEF LogTimerAdvance, MlShown
  <2>4. MlWalking'
    <3>1. /\ mlAt = "advance" /\ ~mlWild /\ UNCHANGED <<mlVec, mlGrid, mlRace>>
          /\ mlWild' = (mlGrid.until > Len(mlVec.items))
          /\ mlAt' = IF mlGrid.until = Len(mlVec.items) THEN "idle" ELSE "walk"
      BY <1>4 DEF LogTimerAdvance
    <3>2. mlRace \/ mlGrid.until <= Len(mlVec.items)
      BY <1>1, <3>1 DEF MlWalking
    <3>6. mlWild' => mlGrid.until > Len(mlVec.items)
      BY <3>1, Zenon
    <3>7. mlGrid.until > Len(mlVec.items) => mlRace
      BY <1>2, <3>2
    <3>3. mlWild' => mlRace'
      BY <3>1, <3>6, <3>7, Zenon
    <3>4. mlRace' \/ (mlWalk'.moved = mlVec'.moved /\ mlGrid'.until <= Len(mlVec'.items))
      BY <2>1, <3>1, <3>2
    <3>5. mlAt' # "advance" /\ mlWalk'.at = mlGrid'.until + 1
      BY <2>1, <3>1
    <3> QED
      BY <3>3, <3>4, <3>5 DEF MlWalking
  <2> QED
    BY <2>2, <2>3, <2>4 DEF MlInv
<1>5. CASE LogTimerStep
  <2>0. mlWalk.at = mlGrid.until + 1 /\ mlAt = "walk" /\ mlWalk \in Walks
    BY <1>1, <1>5 DEF LogTimerStep, MlWalking, MlType
  <2>1. CASE ~WalkValid(mlWalk, mlVec)
    <3>1. mlRace
      BY <1>1, <1>2, <2>0, <2>1 DEF WalkValid, MlWalking
    <3> QED
      BY <1>1, <1>5, <2>1, <3>1 DEF LogTimerStep, MlInv, MlType, MlShown, MlWalking
  <2>2. CASE WalkValid(mlWalk, mlVec) /\ mlWalk.at > Len(mlVec.items)
    BY <1>1, <1>5, <2>2 DEF LogTimerStep, MlInv, MlType, MlShown, MlWalking
  <2>3. CASE WalkValid(mlWalk, mlVec) /\ ~(mlWalk.at > Len(mlVec.items))
    <3> DEFINE e == mlVec.items[mlWalk.at]
               a == AppendRow(mlGrid, e)
    <3>1. e \in Nat /\ mlGrid.until < Len(mlVec.items) /\ mlWalk.at = mlGrid.until + 1
      BY <1>2, <2>0, <2>3
    <3>2. /\ a \in GridOf(Nat) /\ a.rows = Append(mlGrid.rows, e) /\ a.until = mlGrid.until
          /\ a.height = IF mlGrid.height <= Len(mlGrid.rows) THEN mlGrid.height + 1 ELSE mlGrid.height
          /\ Len(a.rows) = Len(mlGrid.rows) + 1
      <4>1. mlGrid \in GridOf(Nat) /\ e \in Nat
        BY <1>2, <3>1
      <4> HIDE DEF e
      <4> QED
        BY <4>1, RowAppended
    <3>3. mlGrid' = [a EXCEPT !.until = @ + 1, !.inserted = TRUE]
      BY <1>5, <2>3 DEF LogTimerStep
    <3>4. mlWalk' = [mlWalk EXCEPT !.at = @ + 1] /\ UNCHANGED <<mlAt, mlWild>>
      BY <1>5, <2>3 DEF LogTimerStep
    <3> HIDE DEF a
    <3>11. mlGrid' = [a EXCEPT !.until = mlGrid.until + 1, !.inserted = TRUE]
      BY <3>2, <3>3 DEF GridOf
    <3>12. mlGrid.until + 1 \in Nat
      BY <1>2
    <3>5. /\ mlGrid' \in GridOf(Nat) /\ mlGrid'.rows = a.rows /\ mlGrid'.until = mlGrid.until + 1
          /\ mlGrid'.height = a.height /\ mlGrid'.inserted
      BY <3>2, <3>11, <3>12 DEF GridOf
    <3>6. mlWalk' \in Walks /\ mlWalk'.at = mlGrid.until + 2 /\ mlWalk'.moved = mlWalk.moved
      <4>1. mlGrid.until \in Nat /\ mlWalk.at \in Nat
        BY <1>2, <2>0 DEF Walks
      <4>2. mlWalk' \in Walks /\ mlWalk'.at = mlWalk.at + 1 /\ mlWalk'.moved = mlWalk.moved
        BY <2>0, <3>4 DEF Walks
      <4> QED
        BY <2>0, <4>1, <4>2
    <3>7. MlType'
      BY <1>1, <1>5, <3>4, <3>5, <3>6 DEF LogTimerStep, MlType
    <3>8. ~mlSkew => mlGrid'.rows = mlBase \o SubSeq(mlVec.items, 1, mlGrid.until + 1)
      <4> SUFFICES ASSUME ~mlSkew PROVE mlGrid'.rows = mlBase \o SubSeq(mlVec.items, 1, mlGrid.until + 1)
        OBVIOUS
      <4>1. mlGrid.rows = mlBase \o SubSeq(mlVec.items, 1, mlGrid.until)
        BY <1>1 DEF MlShown
      <4>2. mlBase \in Seq(Nat)
        BY <1>1 DEF MlType
      <4>3. Append(mlBase \o SubSeq(mlVec.items, 1, mlGrid.until), mlVec.items[mlGrid.until + 1])
              = mlBase \o SubSeq(mlVec.items, 1, mlGrid.until + 1)
        BY <1>2, <3>1, <4>2, OneMoreOf
      <4> QED
        BY <3>1, <3>2, <3>5, <4>1, <4>3
    <3>9. MlShown'
      <4>1. mlGrid'.until <= Len(mlGrid'.rows) /\ Len(mlGrid'.rows) <= mlGrid'.height
        BY <1>1, <1>2, <3>2, <3>5 DEF MlShown
      <4>2. mlGrid'.until <= Len(mlVec.items)
        BY <1>2, <3>1, <3>5
      <4>3. mlGrid'.until = mlGrid.until + 1 /\ mlGrid'.inserted
            /\ UNCHANGED <<mlVec, mlBase, mlSkew, mlWild>>
        BY <1>5, <3>4, <3>5 DEF LogTimerStep
      <4> QED
        BY <3>8, <4>1, <4>2, <4>3 DEF MlShown
    <3>10. MlWalking'
      BY <1>1, <1>2, <1>5, <2>0, <3>1, <3>4, <3>5, <3>6 DEF LogTimerStep, MlWalking
    <3> QED
      BY <3>7, <3>9, <3>10 DEF MlInv
  <2> QED
    BY <2>1, <2>2, <2>3
<1> QED
  BY <1>3, <1>4, <1>5

LEMMA MlKeeps == MlInv /\ [ModbusLogNext]_mlVars => MlInv'
<1> SUFFICES ASSUME MlInv, [ModbusLogNext]_mlVars PROVE MlInv'
  OBVIOUS
<1>1. CASE UNCHANGED mlVars
  BY <1>1 DEF mlVars, MlInv, MlType, MlShown, MlWalking
<1> QED
  BY <1>1, MlThreads, MlButtons, MlTimer DEF ModbusLogNext

LEMMA MlMeans == MlInv => ModbusLogWhole
BY DEF MlInv, MlShown, MlWalking, ModbusLogWhole

(* The grid shows the recorded dialogue whole, for every limit of the        *)
(* entries and every number of them.                                         *)
THEOREM ModbusLogIsWhole == ModbusLogSpec => []ModbusLogWhole
BY MlInit, MlKeeps, MlMeans, PTL DEF ModbusLogSpec

-----------------------------------------------------------------------------
(* The CAN log.                                                              *)
LgType ==
  /\ lgVec \in VecOf(LogFrames) /\ lgGrid \in GridOf(LogFrames) /\ lgBase \in Seq(LogFrames)
  /\ lgWalk \in Walks /\ lgWild \in BOOLEAN /\ lgPushed \in BOOLEAN /\ lgBetween \in BOOLEAN
  /\ lgAt \in {"idle", "label", "walk", "dialog"}

LgShown ==
  /\ ~lgGrid.inserted => lgGrid.until = 0
  /\ lgGrid.rows = lgBase \o Within(SubSeq(lgVec.items, 1, lgGrid.until), Passing)
  /\ lgGrid.until <= Len(lgVec.items)

LgWalking ==
  /\ lgWild => lgPushed
  /\ lgAt \in {"walk", "dialog"} =>
       /\ lgPushed \/ lgWalk.moved = lgVec.moved
       /\ lgWalk.at <= Len(lgVec.items) + 1
  /\ lgAt = "walk" => lgWalk.at = lgGrid.until + 1

(* The label is that of the remembered counts, or of the ones about to be.   *)
LgLabelled ==
  /\ lgAt = "label" => lgLabel = lgCount \/ lgBetween
  /\ lgAt # "label" => lgLabel = lgLast.count \/ lgBetween

LgLines ==
  lgAt = "dialog" =>
    /\ lgWalk.at >= 1
    /\ lgLines.lines = OfId(lgLines.id, SubSeq(lgVec.items, 1, lgWalk.at - 1))
    /\ DOMAIN lgLines = {"id", "lines"}

LgInv == LgType /\ LgShown /\ LgWalking /\ LgLabelled /\ LgLines

LEMMA LgInit == CanLogInit => LgInv
<1> SUFFICES ASSUME CanLogInit PROVE LgInv
  OBVIOUS
<1>1. /\ NoEntries \in VecOf(LogFrames) /\ NoEntries.items = <<>> /\ NewGrid \in GridOf(LogFrames)
      /\ NewGrid.rows = <<>> /\ NewGrid.until = 0 /\ Len(NoEntries.items) = 0
  BY NewOnes
<1>2. Walk(NoEntries, NewGrid) \in Walks
  BY <1>1, WalkFrom
<1>3. <<>> \in Seq(LogFrames) /\ <<>> = <<>> \o <<>> /\ SubSeq(<<>>, 1, 0) = <<>>
  OBVIOUS
<1>4. LgType
  BY <1>1, <1>2, <1>3 DEF CanLogInit, LgType
<1>5. LgShown
  <2>1. Within(SubSeq(<<>>, 1, 0), Passing) = <<>>
    BY <1>3, WithinEmpty
  <2> QED
    BY <1>1, <1>3, <2>1 DEF CanLogInit, LgShown
<1>6. LgWalking /\ LgLabelled /\ LgLines
  BY DEF CanLogInit, LgWalking, LgLabelled, LgLines
<1> QED
  BY <1>4, <1>5, <1>6 DEF LgInv

LEMMA LgFrame ==
  ASSUME LgInv, OnFrameSent \/ OnFrameReceived
  PROVE  LgInv'
<1>1. LgType /\ LgShown /\ LgWalking /\ LgLabelled /\ LgLines
  BY DEF LgInv
<1>2. PICK f \in LogFrames : FrameOnBus(f)
  BY DEF OnFrameSent, OnFrameReceived
<1>3. /\ lgVec \in VecOf(LogFrames) /\ lgVec.items \in Seq(LogFrames) /\ Len(lgVec.items) \in Nat
      /\ lgGrid.until \in Nat /\ lgWalk.at \in Nat
  BY <1>1 DEF LgType, VecOf, GridOf, Walks
<1>4. UNCHANGED <<lgGrid, lgBase, lgWalk, lgAt, lgWild, lgFilter, lgLabel, lgLast, lgLines>>
  BY <1>2 DEF FrameOnBus
<1>5. /\ lgVec' \in VecOf(LogFrames) /\ Len(lgVec'.items) >= Len(lgVec.items) /\ Len(lgVec'.items) \in Nat
      /\ \A n \in 0..Len(lgVec.items) : SubSeq(lgVec'.items, 1, n) = SubSeq(lgVec.items, 1, n)
  <2>1. CASE Recorded(f)
    <3>1. lgVec' = PushBack(lgVec, f)
      BY <1>2, <2>1 DEF FrameOnBus
    <3>2. PushBack(lgVec, f) \in VecOf(LogFrames) /\ Len(PushBack(lgVec, f).items) = Len(lgVec.items) + 1
      BY <1>3, Pushed
    <3>3. \A n \in 0..Len(lgVec.items) : SubSeq(PushBack(lgVec, f).items, 1, n) = SubSeq(lgVec.items, 1, n)
      BY <1>3, Pushed
    <3>4. Len(lgVec'.items) = Len(lgVec.items) + 1
      BY <3>1, <3>2, Zenon
    <3>5. Len(lgVec'.items) >= Len(lgVec.items) /\ Len(lgVec'.items) \in Nat
      BY <1>3, <3>4
    <3> QED
      BY <3>1, <3>2, <3>3, <3>5, Zenon
  <2>2. CASE ~Recorded(f)
    BY <1>2, <1>3, <2>2 DEF FrameOnBus
  <2> QED
    BY <2>1, <2>2
<1>6. /\ lgPushed' \in BOOLEAN /\ lgBetween' \in BOOLEAN /\ (lgPushed => lgPushed') /\ (lgBetween => lgBetween')
      /\ (lgAt = "label" => lgBetween')
  BY <1>1, <1>2 DEF FrameOnBus, LgType
<1>7. lgAt \in {"walk", "dialog"} => lgPushed' \/ lgVec' = lgVec
  BY <1>2 DEF FrameOnBus
<1>8. LgType'
  BY <1>1, <1>4, <1>5, <1>6 DEF LgType
<1>9. LgShown'
  <2>1. SubSeq(lgVec'.items, 1, lgGrid.until) = SubSeq(lgVec.items, 1, lgGrid.until)
    BY <1>1, <1>3, <1>5 DEF LgShown
  <2>2. Passing' = Passing
    BY <1>4 DEF Passing
  <2>3. lgGrid.until <= Len(lgVec'.items)
    BY <1>1, <1>3, <1>5 DEF LgShown
  <2> QED
    BY <1>1, <1>4, <2>1, <2>2, <2>3 DEF LgShown
<1>10. LgWalking'
  <2>1. lgAt \in {"walk", "dialog"} => lgPushed' \/ lgWalk.moved = lgVec'.moved
    BY <1>1, <1>6, <1>7 DEF LgWalking
  <2>2. lgAt \in {"walk", "dialog"} => lgWalk.at <= Len(lgVec'.items) + 1
    BY <1>1, <1>3, <1>5 DEF LgWalking
  <2> QED
    BY <1>1, <1>4, <1>6, <2>1, <2>2 DEF LgWalking
<1>11. LgLabelled'
  BY <1>1, <1>4, <1>6 DEF LgLabelled
<1>12. LgLines'
  <2> SUFFICES ASSUME lgAt = "dialog" PROVE LgLines'
    BY <1>4 DEF LgLines
  <2>1. lgWalk.at - 1 \in 0..Len(lgVec.items)
    BY <1>1, <1>3 DEF LgWalking, LgLines
  <2>2. SubSeq(lgVec'.items, 1, lgWalk.at - 1) = SubSeq(lgVec.items, 1, lgWalk.at - 1)
    BY <1>5, <2>1
  <2> QED
    BY <1>1, <1>4, <2>2 DEF LgLines, OfId
<1> QED
  BY <1>8, <1>9, <1>10, <1>11, <1>12 DEF LgInv

LEMMA LgButtons ==
  ASSUME LgInv,
         StartRecording \/ PauseRecording \/ StopRecording \/ ClearRecording \/ OnLogLevelChange \/ ChangeFilter
  PROVE  LgInv'
<1>1. LgType /\ LgShown /\ LgWalking /\ LgLabelled /\ LgLines
  BY DEF LgInv
<1>2. lgAt = "idle" /\ UNCHANGED <<lgAt, lgWalk, lgWild, lgPushed, lgBetween, lgLabel, lgLast, lgLines>>
  BY DEF StartRecording, PauseRecording, StopRecording, ClearRecording, OnLogLevelChange, ChangeFilter, LogGui
<1>3. LgWalking' /\ LgLabelled' /\ LgLines'
  BY <1>1, <1>2 DEF LgWalking, LgLabelled, LgLines
<1>4. CASE StartRecording \/ PauseRecording \/ OnLogLevelChange
  <2>1. UNCHANGED <<lgVec, lgGrid, lgBase, lgFilter>>
    BY <1>4 DEF StartRecording, PauseRecording, OnLogLevelChange
  <2>2. Passing' = Passing
    BY <2>1 DEF Passing
  <2> QED
    BY <1>1, <1>2, <1>3, <2>1, <2>2 DEF LgInv, LgType, LgShown
<1>5. /\ Clear(lgVec) \in VecOf(LogFrames) /\ Clear(lgVec).items = <<>> /\ Len(Clear(lgVec).items) = 0
  BY <1>1, Cleared DEF LgType
<1>6. /\ lgGrid \in GridOf(LogFrames) /\ lgGrid.rows \in Seq(LogFrames) /\ lgVec \in VecOf(LogFrames)
      /\ lgVec.items \in Seq(LogFrames) /\ Len(lgVec.items) \in Nat
  BY <1>1 DEF LgType, GridOf, VecOf
<1>7. CASE StopRecording
  <2>1. lgGrid' \in GridOf(LogFrames) /\ lgGrid'.until = 0 /\ lgGrid'.rows = lgGrid.rows
    BY <1>6, <1>7 DEF StopRecording, GridOf
  <2>2. lgVec' = Clear(lgVec) /\ lgBase' = lgGrid.rows
    BY <1>7 DEF StopRecording
  <2>3. LgType'
    BY <1>1, <1>2, <1>5, <1>6, <2>1, <2>2 DEF LgType
  <2>4. SubSeq(<<>>, 1, 0) = <<>> /\ lgGrid.rows = lgGrid.rows \o <<>>
    BY <1>6
  <2>5. Within(SubSeq(lgVec'.items, 1, lgGrid'.until), Passing') = <<>>
    BY <1>5, <2>1, <2>2, <2>4, WithinEmpty
  <2>6. LgShown'
    <3>1. lgGrid'.until <= Len(lgVec'.items)
      BY <1>5, <2>1, <2>2
    <3>2. lgGrid'.rows = lgBase' \o Within(SubSeq(lgVec'.items, 1, lgGrid'.until), Passing')
      BY <2>1, <2>2, <2>4, <2>5
    <3> QED
      BY <2>1, <3>1, <3>2 DEF LgShown
  <2> QED
    BY <1>3, <2>3, <2>6 DEF LgInv
<1>8. CASE ClearRecording \/ ChangeFilter
  <2> DEFINE c == ClearRecordingsFromGrid(lgGrid)
  <2>1. c \in GridOf(LogFrames) /\ c.rows = <<>> /\ c.until = 0
    BY ClearedGrid
  <2>2. lgGrid' = c /\ lgBase' = <<>> /\ (lgVec' = Clear(lgVec) \/ lgVec' = lgVec)
    BY <1>8 DEF ClearRecording, ChangeFilter
  <2> HIDE DEF c
  <2>3. lgVec' \in VecOf(LogFrames) /\ lgVec'.items \in Seq(LogFrames) /\ Len(lgVec'.items) \in Nat
    <3>1. lgVec' \in VecOf(LogFrames)
      BY <1>5, <1>6, <2>2
    <3> QED
      BY <3>1 DEF VecOf
  <2>4. <<>> \in Seq(LogFrames) /\ <<>> = <<>> \o <<>> /\ SubSeq(lgVec'.items, 1, 0) = <<>>
    BY <2>3
  <2>5. LgType'
    BY <1>1, <1>2, <2>1, <2>2, <2>3, <2>4 DEF LgType
  <2>6. Within(SubSeq(lgVec'.items, 1, lgGrid'.until), Passing') = <<>>
    BY <2>1, <2>2, <2>4, WithinEmpty
  <2>7. lgGrid'.until <= Len(lgVec'.items) /\ lgGrid'.until = 0
    BY <2>1, <2>2, <2>3
  <2>8. LgShown'
    BY <2>1, <2>2, <2>4, <2>6, <2>7 DEF LgShown
  <2> QED
    BY <1>3, <2>5, <2>8 DEF LgInv
<1> QED
  BY <1>4, <1>7, <1>8

LEMMA LgTimer ==
  ASSUME LgInv, TimerLabel \/ TimerBegin
  PROVE  LgInv'
<1>1. LgType /\ LgShown /\ LgWalking /\ LgLabelled /\ LgLines
  BY DEF LgInv
<1>2. Passing' = Passing
  BY DEF TimerLabel, TimerBegin, Passing
<1>3. CASE TimerLabel
  <2>1. UNCHANGED <<lgVec, lgGrid, lgBase, lgWalk, lgWild, lgPushed, lgCount>> /\ lgAt = "idle" /\ lgAt' = "label"
        /\ lgBetween' \in BOOLEAN
    BY <1>1, <1>3 DEF TimerLabel, LogGui, LgType
  <2>2. LgLabelled'
    <3>1. CASE lgLast.count # lgCount \/ (lgFilter /\ ~lgLast.filter)
      BY <1>3, <2>1, <3>1 DEF TimerLabel, LgLabelled
    <3>2. CASE ~(lgLast.count # lgCount \/ (lgFilter /\ ~lgLast.filter))
      BY <1>1, <1>3, <2>1, <3>2 DEF TimerLabel, LgLabelled
    <3> QED
      BY <3>1, <3>2
  <2>3. LgType' /\ LgShown'
    BY <1>1, <1>2, <2>1 DEF LgType, LgShown
  <2>4. LgWalking' /\ LgLines'
    BY <1>1, <2>1 DEF LgWalking, LgLines
  <2> QED
    BY <2>2, <2>3, <2>4 DEF LgInv
<1>4. CASE TimerBegin
  <2> DEFINE g == IF lgGrid.inserted THEN lgGrid ELSE [lgGrid EXCEPT !.until = 0]
  <2>0. lgAt = "label" /\ ~lgWild /\ UNCHANGED <<lgVec, lgBase, lgLabel, lgBetween, lgWild>> /\ lgPushed' = FALSE
        /\ lgLast'.count = lgCount
    BY <1>4 DEF TimerBegin
  <2>1. /\ lgGrid \in GridOf(LogFrames) /\ lgVec \in VecOf(LogFrames) /\ Len(lgVec.items) \in Nat
        /\ lgGrid.until \in Nat
    BY <1>1 DEF LgType, GridOf, VecOf
  <2>2. g \in GridOf(LogFrames) /\ g.rows = lgGrid.rows /\ g.until = lgGrid.until /\ g.inserted = lgGrid.inserted
    BY <1>1, <2>1 DEF LgShown, GridOf
  <2>3. Walk(lgVec, g) \in Walks /\ Walk(lgVec, g).at = g.until + 1 /\ Walk(lgVec, g).moved = lgVec.moved
    BY <2>1, <2>2, WalkFrom
  <2>4. \/ lgAt' = "idle" /\ lgGrid' = lgGrid /\ lgWalk' = lgWalk
        \/ lgAt' = "walk" /\ lgGrid' = g /\ lgWalk' = Walk(lgVec, g)
    BY <1>4 DEF TimerBegin
  <2> HIDE DEF g
  <2>5. /\ lgGrid' \in GridOf(LogFrames) /\ lgGrid'.rows = lgGrid.rows /\ lgGrid'.until = lgGrid.until
        /\ lgGrid'.inserted = lgGrid.inserted /\ lgWalk' \in Walks /\ lgAt' \in {"idle", "walk"}
    BY <1>1, <2>1, <2>2, <2>3, <2>4 DEF LgType
  <2>6. LgType'
    BY <1>1, <2>0, <2>5 DEF LgType
  <2>7. LgShown'
    <3>1. ~lgGrid'.inserted => lgGrid'.until = 0
      BY <1>1, <2>5 DEF LgShown
    <3>2. lgGrid'.rows = lgBase \o Within(SubSeq(lgVec.items, 1, lgGrid'.until), Passing)
      BY <1>1, <2>5 DEF LgShown
    <3>3. lgGrid'.until <= Len(lgVec.items)
      BY <1>1, <2>5 DEF LgShown
    <3> QED
      BY <1>2, <2>0, <3>1, <3>2, <3>3 DEF LgShown
  <2>8. LgWalking'
    <3>1. lgAt' = "walk" => lgWalk'.moved = lgVec.moved /\ lgWalk'.at = lgGrid'.until + 1
      BY <2>2, <2>3, <2>4
    <3>2. lgAt' = "walk" => lgWalk'.at <= Len(lgVec.items) + 1
      BY <1>1, <2>1, <2>5, <3>1 DEF LgShown
    <3> QED
      BY <1>1, <2>0, <2>5, <3>1, <3>2 DEF LgWalking
  <2>9. LgLabelled' /\ LgLines'
    BY <1>1, <2>0, <2>5 DEF LgLabelled, LgLines
  <2> QED
    BY <2>6, <2>7, <2>8, <2>9 DEF LgInv
<1> QED
  BY <1>3, <1>4

(* One more row. *)
LEMMA LgInsert ==
  ASSUME LgInv, TimerStep, WalkValid(lgWalk, lgVec), ~(lgWalk.at > Len(lgVec.items))
  PROVE  LgInv'
<1> DEFINE e == lgVec.items[lgWalk.at]
           n == lgGrid.until
           g == IF e \in Passing THEN AppendRow(lgGrid, e) ELSE lgGrid
<1>1. LgType /\ LgShown /\ LgWalking /\ LgLabelled /\ LgLines
  BY DEF LgInv
<1>2. /\ lgVec \in VecOf(LogFrames) /\ lgVec.items \in Seq(LogFrames) /\ Len(lgVec.items) \in Nat
      /\ lgGrid \in GridOf(LogFrames) /\ n \in Nat /\ lgWalk.at \in Nat /\ lgBase \in Seq(LogFrames)
  BY <1>1 DEF LgType, VecOf, GridOf, Walks
<1>3. /\ lgAt = "walk" /\ lgWalk.at = n + 1 /\ ~lgWild
  BY <1>1 DEF TimerStep, LgWalking
<1>4. /\ lgGrid' = [g EXCEPT !.until = @ + 1, !.inserted = TRUE]
      /\ lgWalk' = [lgWalk EXCEPT !.at = @ + 1]
      /\ UNCHANGED <<lgAt, lgWild, lgVec, lgBase, lgFilter, lgPushed, lgBetween, lgLabel, lgLast, lgLines>>
  BY DEF TimerStep, InsertRow
<1>5. n < Len(lgVec.items) /\ e \in LogFrames /\ e = lgVec.items[n + 1]
  BY <1>2, <1>3
<1>6. /\ g \in GridOf(LogFrames) /\ g.until = n
      /\ g.rows = IF e \in Passing THEN Append(lgGrid.rows, e) ELSE lgGrid.rows
  <2>1. lgGrid \in GridOf(LogFrames) /\ e \in LogFrames
    BY <1>2, <1>5
  <2> HIDE DEF e
  <2>2. /\ AppendRow(lgGrid, e) \in GridOf(LogFrames) /\ AppendRow(lgGrid, e).until = n
        /\ AppendRow(lgGrid, e).rows = Append(lgGrid.rows, e)
    BY <2>1, RowAppended
  <2> QED
    BY <2>1, <2>2
<1> HIDE DEF g
<1>7. lgGrid' \in GridOf(LogFrames) /\ lgGrid'.until = n + 1 /\ lgGrid'.rows = g.rows /\ lgGrid'.inserted
  <2>1. lgGrid' = [g EXCEPT !.until = n + 1, !.inserted = TRUE]
    BY <1>4, <1>6 DEF GridOf
  <2>2. n + 1 \in Nat
    BY <1>2
  <2> HIDE DEF n
  <2> QED
    BY <1>6, <2>1, <2>2 DEF GridOf
<1>8. lgWalk' \in Walks /\ lgWalk'.at = n + 2 /\ lgWalk'.moved = lgWalk.moved
  BY <1>1, <1>2, <1>3, <1>4 DEF LgType, Walks
<1>9. LgType'
  BY <1>1, <1>4, <1>7, <1>8 DEF LgType
<1>10. LgShown'
  <2> DEFINE w == Within(SubSeq(lgVec.items, 1, n), Passing)
  <2>1. lgGrid.rows = lgBase \o w
    BY <1>1 DEF LgShown
  <2>2. Within(SubSeq(lgVec.items, 1, n + 1), Passing) = IF e \in Passing THEN Append(w, e) ELSE w
    BY <1>2, <1>5, WithinNext
  <2>3. w \in Seq(LogFrames)
    <3>1. SubSeq(lgVec.items, 1, n) \in Seq(LogFrames)
      BY <1>2, <1>5
    <3>2. w \in Seq(LogFrames \cap Passing)
      BY <3>1, WithinTyped
    <3> HIDE DEF w
    <3> QED
      BY <3>2
  <2> HIDE DEF w
  <2>4. lgGrid'.rows = lgBase \o Within(SubSeq(lgVec.items, 1, n + 1), Passing)
    <3>1. CASE e \in Passing
      <4>1. Append(lgBase \o w, e) = lgBase \o Append(w, e)
        BY <1>2, <1>5, <2>3, ConcatAppend, Zenon
      <4> QED
        BY <1>6, <1>7, <2>1, <2>2, <3>1, <4>1
    <3>2. CASE e \notin Passing
      BY <1>6, <1>7, <2>1, <2>2, <3>2
    <3> QED
      BY <3>1, <3>2
  <2>5. Passing' = Passing
    BY <1>4 DEF Passing
  <2>6. lgGrid'.until <= Len(lgVec.items)
    BY <1>2, <1>5, <1>7
  <2> QED
    BY <1>4, <1>7, <2>4, <2>5, <2>6 DEF LgShown
<1>11. LgWalking'
  <2>1. lgPushed \/ lgWalk.moved = lgVec.moved
    BY <1>1, <1>3 DEF LgWalking
  <2>2. lgWalk'.at <= Len(lgVec.items) + 1 /\ lgWalk'.at = lgGrid'.until + 1
    BY <1>2, <1>5, <1>7, <1>8
  <2> QED
    BY <1>3, <1>4, <1>8, <2>1, <2>2 DEF LgWalking
<1>12. LgLabelled' /\ LgLines'
  BY <1>1, <1>3, <1>4 DEF LgLabelled, LgLines
<1> QED
  BY <1>9, <1>10, <1>11, <1>12 DEF LgInv

(* One more line of the dialog, if it is of the id. *)
LEMMA LgLine ==
  ASSUME LgInv, DialogStep, WalkValid(lgWalk, lgVec), ~(lgWalk.at > Len(lgVec.items))
  PROVE  LgInv'
<1> DEFINE n == lgWalk.at - 1
           e == lgVec.items[lgWalk.at]
           S == {f \in LogFrames : f.id = lgLines.id}
           w == Within(SubSeq(lgVec.items, 1, n), S)
<1>1. LgType /\ LgShown /\ LgWalking /\ LgLabelled /\ LgLines
  BY DEF LgInv
<1>2. /\ lgVec.items \in Seq(LogFrames) /\ Len(lgVec.items) \in Nat /\ lgWalk.at \in Nat
  BY <1>1 DEF LgType, VecOf, GridOf, Walks
<1>3. lgAt = "dialog" /\ lgWalk.at >= 1 /\ DOMAIN lgLines = {"id", "lines"} /\ lgLines.lines = w
  BY <1>1 DEF DialogStep, LgLines, OfId
<1>4. /\ lgLines' = [lgLines EXCEPT !.lines = @ \o OfId(lgLines.id, <<e>>)]
      /\ lgWalk' = [lgWalk EXCEPT !.at = @ + 1]
      /\ UNCHANGED <<lgAt, lgWild, lgVec, lgGrid, lgBase, lgFilter, lgPushed, lgBetween, lgLabel, lgLast>>
  BY DEF DialogStep
<1>5. n \in Nat /\ n < Len(lgVec.items) /\ e \in LogFrames /\ e = lgVec.items[n + 1]
  BY <1>2, <1>3
<1>6. lgWalk' \in Walks /\ lgWalk'.at = lgWalk.at + 1 /\ lgWalk'.moved = lgWalk.moved
  BY <1>1, <1>2, <1>4 DEF LgType, Walks
<1>7. OfId(lgLines.id, <<e>>) = IF e \in S THEN <<e>> ELSE <<>>
  <2>1. <<>> \in Seq(LogFrames) /\ <<e>> = Append(<<>>, e)
    OBVIOUS
  <2>2. Within(Append(<<>>, e), S) = IF e \in S THEN Append(Within(<<>>, S), e) ELSE Within(<<>>, S)
    <3>1. e \in LogFrames
      BY <1>5
    <3> HIDE DEF S, e
    <3> QED
      BY <2>1, <3>1, WithinAppend
  <2>3. Within(<<>>, S) = <<>>
    BY WithinEmpty
  <2> QED
    BY <2>1, <2>2, <2>3 DEF OfId
<1>8. Within(SubSeq(lgVec.items, 1, n + 1), S) = IF e \in S THEN Append(w, e) ELSE w
  BY <1>2, <1>5, WithinNext
<1>9. w \in Seq(LogFrames)
  <2>1. SubSeq(lgVec.items, 1, n) \in Seq(LogFrames)
    BY <1>2, <1>5
  <2>2. w \in Seq(LogFrames \cap S)
    BY <2>1, WithinTyped
  <2> HIDE DEF w, S
  <2> QED
    BY <2>2
<1>10. DOMAIN lgLines' = {"id", "lines"} /\ lgLines'.id = lgLines.id
       /\ lgLines'.lines = w \o OfId(lgLines.id, <<e>>)
  BY <1>3, <1>4
<1> HIDE DEF w, S, e
<1>11. w \o OfId(lgLines.id, <<e>>) = Within(SubSeq(lgVec.items, 1, n + 1), S)
  <2>1. CASE e \in S
    <3>1. w \o <<e>> = Append(w, e)
      BY <1>5, <1>9
    <3> QED
      BY <1>7, <1>8, <2>1, <3>1
  <2>2. CASE e \notin S
    <3>1. w \o <<>> = w
      BY <1>9
    <3> QED
      BY <1>7, <1>8, <2>2, <3>1
  <2> QED
    BY <2>1, <2>2
<1>12. LgLines'
  <2>1. lgWalk'.at - 1 = n + 1 /\ lgWalk'.at >= 1
    BY <1>2, <1>6
  <2>2. OfId(lgLines.id, SubSeq(lgVec.items, 1, n + 1)) = Within(SubSeq(lgVec.items, 1, n + 1), S)
    BY DEF OfId, S
  <2> QED
    BY <1>4, <1>10, <1>11, <2>1, <2>2 DEF LgLines
<1>13. LgType' /\ LgLabelled'
  <2>1. LgLabelled'
    BY <1>1, <1>3, <1>4 DEF LgLabelled
  <2> QED
    BY <1>1, <1>4, <1>6, <2>1 DEF LgType
<1>14. LgShown'
  <2>1. Passing' = Passing
    BY <1>4 DEF Passing
  <2> QED
    BY <1>1, <1>4, <2>1 DEF LgShown
<1>15. LgWalking'
  BY <1>1, <1>2, <1>3, <1>4, <1>6 DEF LgWalking
<1> QED
  BY <1>12, <1>13, <1>14, <1>15 DEF LgInv

LEMMA LgSteps ==
  ASSUME LgInv, TimerStep \/ GenerateLogForFrame \/ DialogStep
  PROVE  LgInv'
<1>1. LgType /\ LgShown /\ LgWalking /\ LgLabelled /\ LgLines
  BY DEF LgInv
<1>2. Passing' = Passing
  <2>1. lgFilter' = lgFilter
    BY DEF TimerStep, GenerateLogForFrame, DialogStep
  <2> QED
    BY <2>1 DEF Passing
<1>3. /\ lgVec \in VecOf(LogFrames) /\ lgVec.items \in Seq(LogFrames) /\ Len(lgVec.items) \in Nat
      /\ lgGrid \in GridOf(LogFrames) /\ lgWalk.at \in Nat
  BY <1>1 DEF LgType, VecOf, GridOf, Walks
<1>4. ASSUME TimerStep \/ DialogStep, ~WalkValid(lgWalk, lgVec) PROVE LgInv'
  <2>1. lgPushed
    BY <1>1, <1>3, <1>4 DEF TimerStep, DialogStep, LgWalking, WalkValid
  <2>2. UNCHANGED <<lgAt, lgWalk, lgGrid, lgLines, lgVec, lgBase, lgPushed, lgBetween, lgLabel, lgLast, lgCount>>
        /\ lgWild' = TRUE
    BY <1>4 DEF TimerStep, DialogStep
  <2> QED
    BY <1>1, <1>2, <2>1, <2>2 DEF LgInv, LgType, LgShown, LgWalking, LgLabelled, LgLines
<1>5. ASSUME TimerStep \/ DialogStep, WalkValid(lgWalk, lgVec), lgWalk.at > Len(lgVec.items) PROVE LgInv'
  <2>1. UNCHANGED <<lgWalk, lgGrid, lgVec, lgBase, lgPushed, lgBetween, lgLabel, lgLast, lgCount, lgWild>>
        /\ lgAt' = "idle" /\ lgAt # "label"
    BY <1>5 DEF TimerStep, DialogStep
  <2> QED
    BY <1>1, <1>2, <2>1 DEF LgInv, LgType, LgShown, LgWalking, LgLabelled, LgLines
<1>6. CASE GenerateLogForFrame
  <2>1. lgAt = "idle" /\ lgAt' = "dialog" /\ lgPushed' = FALSE /\ ~lgWild
        /\ UNCHANGED <<lgVec, lgGrid, lgBase, lgFilter, lgBetween, lgLabel, lgLast, lgWild>>
    BY <1>6 DEF GenerateLogForFrame, LogGui
  <2>2. lgWalk' \in Walks /\ lgWalk'.at = 1 /\ lgWalk'.moved = lgVec.moved
    <3>1. NewGrid \in GridOf(LogFrames) /\ NewGrid.until = 0
      BY NewOnes
    <3>2. lgWalk' = Walk(lgVec, NewGrid)
      BY <1>6 DEF GenerateLogForFrame
    <3> QED
      BY <1>3, <3>1, <3>2, WalkFrom
  <2>3. PICK f \in LogFrames : lgLines' = [id |-> f.id, lines |-> <<>>]
    BY <1>6 DEF GenerateLogForFrame
  <2>4. lgWalk'.at <= Len(lgVec.items) + 1 /\ lgWalk'.at - 1 = 0
    BY <1>3, <2>2
  <2>5. OfId(f.id, SubSeq(lgVec.items, 1, 0)) = <<>>
    <3>1. SubSeq(lgVec.items, 1, 0) = <<>>
      BY <1>3
    <3> QED
      BY <3>1, WithinEmpty DEF OfId
  <2>6. LgLines'
    BY <2>1, <2>2, <2>3, <2>4, <2>5 DEF LgLines
  <2>7. LgType' /\ LgShown' /\ LgLabelled'
    BY <1>1, <1>2, <2>1, <2>2 DEF LgType, LgShown, LgLabelled
  <2>8. LgWalking'
    BY <1>1, <2>1, <2>2, <2>4 DEF LgWalking
  <2> QED
    BY <2>6, <2>7, <2>8 DEF LgInv
<1> QED
  BY <1>4, <1>5, <1>6, LgInsert, LgLine

LEMMA LgKeeps == LgInv /\ [CanLogNext]_lgVars => LgInv'
<1> SUFFICES ASSUME LgInv, [CanLogNext]_lgVars PROVE LgInv'
  OBVIOUS
<1>1. CASE UNCHANGED lgVars
  <2>1. Passing' = Passing
    BY <1>1 DEF lgVars, Passing
  <2> QED
    BY <1>1, <2>1 DEF lgVars, LgInv, LgType, LgShown, LgWalking, LgLabelled, LgLines
<1> QED
  BY <1>1, LgFrame, LgButtons, LgTimer, LgSteps DEF CanLogNext

LEMMA LgMeans == LgInv => CanLogWhole
BY DEF LgInv, LgShown, LgWalking, LgLabelled, LgLines, CanLogWhole

(* The grid and the dialog show the recorded frames whole, for every set of  *)
(* frames and levels and any number of frames on the bus.                    *)
THEOREM CanLogIsWhole == CanLogSpec => []CanLogWhole
BY LgInit, LgKeeps, LgMeans, PTL DEF CanLogSpec

-----------------------------------------------------------------------------

IsPushedAll(f, v, s) ==
  f = [n \in 0..Len(s) |-> IF n = 0 THEN v ELSE PushBack(f[n - 1], s[n])]

LEMMA PushedAll ==
  ASSUME NEW T, NEW v \in VecOf(T), NEW s \in Seq(T)
  PROVE  PushAll(v, s) \in VecOf(T)
<1> DEFINE A == VecOf(T)
           m == Len(s)
           F == [n \in 1..m |-> [u \in A |-> PushBack(u, s[n])]]
<1>1. m \in Nat /\ \A n \in 1..m : s[n] \in T
  OBVIOUS
<1>2. ASSUME NEW u \in A, NEW n \in 1..m PROVE PushBack(u, s[n]) \in A
  BY <1>1, Pushed
<1>3. F \in [1..m -> [A -> A]]
  BY <1>2
<1>4. \A u \in A, n \in 1..m : F[n][u] = PushBack(u, s[n])
  OBVIOUS
<1> HIDE DEF A, F, m
<1>5. v \in A
  BY DEF A
<1>6. PICK f \in [0..m -> A] : f[0] = v /\ \A n \in 1..m : f[n] = F[n][f[n - 1]]
  <2> DEFINE Rec(B, b, k) == \A H \in [1..k -> [B -> B]] :
          \E f \in [0..k -> B] : f[0] = b /\ \A n \in 1..k : f[n] = H[n][f[n - 1]]
  <2>0. \A B : \A b \in B : \A k \in Nat : Rec(B, b, k)
    BY RecAll
  <2>1. \A b \in A : \A k \in Nat : Rec(A, b, k)
    <3> HIDE DEF Rec
    <3> QED
      BY <2>0, Zenon
  <2>2. \A k \in Nat : \A H \in [1..k -> [A -> A]] :
          \E f \in [0..k -> A] : f[0] = v /\ \A n \in 1..k : f[n] = H[n][f[n - 1]]
    BY <1>5, <2>1, Zenon
  <2>3. \A H \in [1..m -> [A -> A]] :
          \E f \in [0..m -> A] : f[0] = v /\ \A n \in 1..m : f[n] = H[n][f[n - 1]]
    BY <1>1, <2>2, Zenon
  <2> QED
    BY <1>3, <2>3, Zenon
<1>7. \A n \in 1..m : f[n] = PushBack(f[n - 1], s[n])
  <2> TAKE n \in 1..m
  <2>1. n - 1 \in 0..m
    BY <1>1
  <2> QED
    BY <1>4, <1>6, <2>1
<1>8. f = [n \in 0..m |-> IF n = 0 THEN v ELSE PushBack(f[n - 1], s[n])]
  BY <1>1, <1>6, <1>7
<1>9. \E h : IsPushedAll(h, v, s)
  BY <1>8 DEF IsPushedAll, m
<1> DEFINE g == CHOOSE h : IsPushedAll(h, v, s)
<1>10. IsPushedAll(g, v, s)
  BY <1>9
<1>11. PushAll(v, s) = g[m]
  BY DEF PushAll, IsPushedAll, m
<1> HIDE DEF g
<1>12. g[0] = v /\ \A n \in 1..m : g[n] = PushBack(g[n - 1], s[n])
  <2>1. g = [n \in 0..m |-> IF n = 0 THEN v ELSE PushBack(g[n - 1], s[n])]
    BY <1>10 DEF IsPushedAll, m
  <2> DEFINE B(n) == IF n = 0 THEN v ELSE PushBack(g[n - 1], s[n])
  <2>2. \A n \in 0..m : g[n] = B(n)
    <3> HIDE DEF B
    <3>1. g = [n \in 0..m |-> B(n)]
      BY <2>1 DEF B
    <3> QED
      BY <3>1
  <2> QED
    BY <1>1, <2>2
<1> DEFINE Good == {n \in Nat : n <= m => g[n] \in A}
<1>13. 0 \in Good
  BY <1>5, <1>12
<1>14. ASSUME NEW n \in Nat, n \in Good PROVE n + 1 \in Good
  <2> SUFFICES ASSUME n + 1 <= m PROVE g[n + 1] \in A
    OBVIOUS
  <2>1. n + 1 \in 1..m /\ (n + 1) - 1 = n /\ g[n] \in A
    BY <1>1, <1>14
  <2>2. g[n + 1] = PushBack(g[n], s[n + 1])
    BY <1>12, <2>1
  <2> QED
    BY <1>2, <2>1, <2>2
<1>15. m \in Good
  <2> HIDE DEF Good
  <2> QED
    BY <1>1, <1>13, <1>14, SetInduction
<1> QED
  BY <1>1, <1>11, <1>15 DEF A

-----------------------------------------------------------------------------
(* The numbers of a finite set in their order. *)
Increasing(s) == \A j, k \in DOMAIN s : j < k => s[j] < s[k]

LEMMA OrderExists ==
  \A n \in Nat : \A D \in SUBSET Nat :
    IsFiniteSet(D) /\ Cardinality(D) = n => \E s \in [1..n -> D] : Increasing(s)
<1> DEFINE Good == {n \in Nat : \A D \in SUBSET Nat :
                      IsFiniteSet(D) /\ Cardinality(D) = n => \E s \in [1..n -> D] : Increasing(s)}
<1>1. 0 \in Good
  <2> SUFFICES ASSUME NEW D \in SUBSET Nat PROVE \E s \in [1..0 -> D] : Increasing(s)
    OBVIOUS
  <2>1. <<>> \in [1..0 -> D] /\ DOMAIN <<>> = {}
    OBVIOUS
  <2> QED
    BY <2>1 DEF Increasing
<1>2. ASSUME NEW n \in Nat, n \in Good PROVE n + 1 \in Good
  <2> SUFFICES ASSUME NEW D \in SUBSET Nat, IsFiniteSet(D), Cardinality(D) = n + 1
               PROVE \E s \in [1..(n + 1) -> D] : Increasing(s)
    OBVIOUS
  <2>1. D # {}
    BY FS_EmptySet
  <2>2. PICK d \in D : \A e \in D : d <= e
    BY <2>1, LeastOf
  <2>3. IsFiniteSet(D \ {d}) /\ Cardinality(D \ {d}) = n
    BY FS_RemoveElement
  <2>4. PICK t \in [1..n -> D \ {d}] : Increasing(t)
    <3>1. D \ {d} \in SUBSET Nat
      OBVIOUS
    <3> QED
      BY <1>2, <2>3, <3>1
  <2> DEFINE s == [k \in 1..(n + 1) |-> IF k = 1 THEN d ELSE t[k - 1]]
  <2>5. \A k \in 1..n : t[k] \in D /\ t[k] \in Nat /\ d < t[k]
    <3> TAKE k \in 1..n
    <3>1. t[k] \in D \ {d}
      OBVIOUS
    <3>2. t[k] \in D /\ t[k] # d /\ t[k] \in Nat /\ d \in Nat
      BY <3>1
    <3>3. d <= t[k]
      BY <2>2, <3>2
    <3> QED
      BY <3>2, <3>3
  <2>6. s \in [1..(n + 1) -> D]
    <3>1. \A k \in 1..(n + 1) : k # 1 => k - 1 \in 1..n
      OBVIOUS
    <3> QED
      BY <2>5, <3>1
  <2>7. ASSUME NEW j \in 1..(n + 1), NEW k \in 1..(n + 1), j < k PROVE s[j] < s[k]
    <3>1. k # 1 /\ k - 1 \in 1..n /\ s[k] = t[k - 1]
      BY <2>7
    <3>2. CASE j = 1
      BY <2>5, <3>1, <3>2
    <3>3. CASE j # 1
      <4>1. j - 1 \in 1..n /\ j - 1 < k - 1 /\ s[j] = t[j - 1]
        BY <2>7, <3>1, <3>3
      <4>2. DOMAIN t = 1..n
        OBVIOUS
      <4> QED
        BY <2>4, <3>1, <4>1, <4>2 DEF Increasing
    <3> QED
      BY <3>2, <3>3
  <2>8. DOMAIN s = 1..(n + 1)
    OBVIOUS
  <2> HIDE DEF s
  <2>9. Increasing(s)
    BY <2>7, <2>8 DEF Increasing
  <2> QED
    BY <2>6, <2>9
<1> HIDE DEF Good
<1>3. \A n \in Nat : n \in Good
  BY <1>1, <1>2, SetInduction
<1> QED
  BY <1>3 DEF Good

LEMMA Ordered ==
  ASSUME NEW D \in SUBSET Nat, IsFiniteSet(D)
  PROVE  /\ Cardinality(D) \in Nat
         /\ InOrder(D) \in [1..Cardinality(D) -> D] /\ InOrder(D) \in Seq(D) /\ Len(InOrder(D)) = Cardinality(D)
         /\ \A j, k \in 1..Cardinality(D) : InOrder(D)[j] = InOrder(D)[k] => j = k
         /\ \A d \in D : \E k \in 1..Cardinality(D) : InOrder(D)[k] = d
<1> DEFINE n == Cardinality(D)
           s == InOrder(D)
<1>1. n \in Nat
  BY FS_CardinalityType
<1>2. \E t \in [1..n -> D] : Increasing(t)
  BY <1>1, OrderExists
<1>3. s \in [1..n -> D] /\ Increasing(s)
  BY <1>2 DEF InOrder, Increasing
<1> HIDE DEF s
<1>4. DOMAIN s = 1..n
  BY <1>3
<1>5. ASSUME NEW j \in 1..n, NEW k \in 1..n, s[j] = s[k] PROVE j = k
  <2>1. s[j] \in Nat /\ s[k] \in Nat
    BY <1>3
  <2>2. ~(j < k) /\ ~(k < j)
    BY <1>3, <1>4, <1>5, <2>1 DEF Increasing
  <2> QED
    BY <2>2
<1>6. s \in Seq(D) /\ Len(s) = n
  <2>1. s \in Seq(D)
    BY <1>1, <1>3, SeqDef
  <2> QED
    BY <1>1, <1>4, <2>1
<1>7. s \in Injection(1..n, D)
  BY <1>3, <1>5 DEF Injection, IsInjective
<1>8. IsFiniteSet(1..n) /\ Cardinality(1..n) = n
  BY <1>1, FS_Interval
<1>9. s \in Surjection(1..n, D)
  BY <1>7, <1>8, FS_Injection
<1>10. \A d \in D : \E k \in 1..n : s[k] = d
  BY <1>9 DEF Surjection
<1> QED
  BY <1>1, <1>3, <1>5, <1>6, <1>10 DEF s

-----------------------------------------------------------------------------
(* The DIDs of the list, and the entries and files made of them.             *)
DidGridSpec == DidGridInit /\ [][DidGridNext]_dgVars

DgEntry == [value : Seq(Nat), nrc : Nat \ {NotADigit}, stamp : BOOLEAN]
DgFileRow == [did : Nat, value : Seq(Nat), nrc : Nat, stamp : {"", "time", "bad"}]
DgRow == [did : Dids, text : Seq(Nat)]

LEMMA DidsListed ==
  /\ Dids \in SUBSET Nat /\ IsFiniteSet(Dids)
  /\ \A d \in Dids : /\ Of(d) \in DidRows /\ Of(d).did = d /\ Of(d).len \in Nat
                     /\ Of(d).type \in {"ui8", "ui16", "string"}
<1> DEFINE R == [did : Nat, type : {"ui8", "ui16", "string", "?"}, len : Nat, found : BOOLEAN]
           K == {j \in DOMAIN DidFile : IsLoaded(j)}
<1>1. DidFile \in Seq(R)
  BY DidGridAssumption
<1> HIDE DEF R
<1>2. \A k \in DOMAIN DidFile : DidFile[k] \in R
  BY <1>1
<1>3. \A r \in DidRows : r \in R /\ r.type # "?"
  BY <1>2 DEF DidRows, IsLoaded
<1>4. \A r \in DidRows : r.did \in Nat /\ r.len \in Nat /\ r.type \in {"ui8", "ui16", "string"}
  BY <1>3 DEF R
<1>5. \A d \in Dids : Of(d) \in DidRows /\ Of(d).did = d
  BY DEF Dids, Of
<1>6. IsFiniteSet(Dids)
  <2>1. Len(DidFile) \in Nat /\ DOMAIN DidFile = 1..Len(DidFile)
    BY <1>1
  <2>2. IsFiniteSet(1..Len(DidFile))
    BY <2>1, FS_Interval
  <2>3. IsFiniteSet(K)
    BY <2>1, <2>2, FS_Subset
  <2>4. \A k \in K : DidFile[k].did \in Dids
    BY DEF Dids, DidRows
  <2>5. \A d \in Dids : \E k \in K : DidFile[k].did = d
    BY DEF Dids, DidRows
  <2> DEFINE f == [k \in K |-> DidFile[k].did]
  <2>6. f \in Surjection(K, Dids)
    BY <2>4, <2>5 DEF Surjection
  <2> HIDE DEF f, K
  <2> QED
    BY <2>3, <2>6, FS_Surjection
<1> QED
  BY <1>4, <1>5, <1>6 DEF Dids

LEMMA CacheTyped ==
  ASSUME NEW E \in [Dids -> DgEntry]
  PROVE  /\ CacheOf(E) \in Seq(DgFileRow) /\ Len(CacheOf(E)) = Cardinality(Dids)
         /\ \A k \in 1..Cardinality(Dids) :
              LET d == InOrder(Dids)[k]
              IN  /\ d \in Dids
                  /\ CacheOf(E)[k] = [did |-> d, value |-> E[d].value, nrc |-> E[d].nrc,
                                      stamp |-> IF E[d].stamp THEN "time" ELSE ""]
<1> DEFINE n == Cardinality(Dids)
           o == InOrder(Dids)
           Row(d) == [did |-> d, value |-> E[d].value, nrc |-> E[d].nrc,
                      stamp |-> IF E[d].stamp THEN "time" ELSE ""]
<1>1. n \in Nat /\ o \in [1..n -> Dids]
  BY DidsListed, Ordered
<1>2. \A d \in Dids : Row(d) \in DgFileRow
  BY DidsListed DEF DgEntry, DgFileRow
<1>3. CacheOf(E) = [k \in 1..n |-> Row(o[k])]
  BY DEF CacheOf
<1> HIDE DEF Row, o, n
<1>4. \A k \in 1..n : o[k] \in Dids /\ CacheOf(E)[k] = Row(o[k])
  BY <1>1, <1>3
<1>5. CacheOf(E) \in [1..n -> DgFileRow]
  BY <1>1, <1>2, <1>3
<1>6. CacheOf(E) \in Seq(DgFileRow) /\ Len(CacheOf(E)) = n
  <2>1. CacheOf(E) \in Seq(DgFileRow)
    BY <1>1, <1>5, SeqDef
  <2> QED
    BY <1>1, <1>5, <2>1
<1> QED
  BY <1>4, <1>6 DEF Row, o, n

IsLoadedUpTo(f, file) ==
  f = [n \in 0..Len(file) |-> IF n = 0 THEN [entries |-> NewEntries, over |-> FALSE]
                               ELSE LoadCacheRow(f[n - 1], file[n])]
DgLoad == [entries : [Dids -> DgEntry], over : BOOLEAN]

LEMMA RowLoaded ==
  ASSUME NEW l \in DgLoad, NEW r \in DgFileRow
  PROVE  LoadCacheRow(l, r) \in DgLoad
<1>1. l.entries \in [Dids -> DgEntry] /\ l.over \in BOOLEAN
  BY DEF DgLoad
<1>2. r.value \in Seq(Nat) /\ r.nrc \in Nat
  BY DEF DgFileRow
<1>3. CASE l.over \/ r.did \notin Dids
  BY <1>3 DEF LoadCacheRow
<1>4. CASE ~l.over /\ r.did \in Dids /\ r.nrc = NotADigit
  <2>1. LoadCacheRow(l, r) = [l EXCEPT !.entries[r.did].value = r.value]
    BY <1>4 DEF LoadCacheRow
  <2> DEFINE e == [l.entries[r.did] EXCEPT !.value = r.value]
  <2>2. e \in DgEntry
    BY <1>1, <1>2, <1>4 DEF DgEntry
  <2>3. LoadCacheRow(l, r) = [entries |-> [l.entries EXCEPT ![r.did] = e], over |-> l.over]
    BY <1>1, <2>1 DEF DgLoad
  <2> HIDE DEF e
  <2> QED
    BY <1>1, <1>4, <2>2, <2>3 DEF DgLoad
<1>5. CASE ~l.over /\ r.did \in Dids /\ r.nrc # NotADigit
  <2> DEFINE e == [value |-> r.value, nrc |-> r.nrc,
                   stamp |-> IF r.stamp = "bad" THEN l.entries[r.did].stamp ELSE r.stamp = "time"]
  <2>1. LoadCacheRow(l, r) = [l EXCEPT !.entries[r.did] = e, !.over = (r.stamp = "bad")]
    BY <1>5 DEF LoadCacheRow
  <2>2. e \in DgEntry
    BY <1>1, <1>2, <1>5 DEF DgEntry
  <2>3. LoadCacheRow(l, r) = [entries |-> [l.entries EXCEPT ![r.did] = e], over |-> (r.stamp = "bad")]
    BY <1>1, <2>1 DEF DgLoad
  <2> HIDE DEF e
  <2> QED
    BY <1>1, <1>5, <2>2, <2>3 DEF DgLoad
<1> QED
  BY <1>3, <1>4, <1>5

LEMMA LoadedFacts ==
  ASSUME NEW file \in Seq(DgFileRow)
  PROVE  /\ LoadedUpTo(file)[0] = [entries |-> NewEntries, over |-> FALSE]
         /\ \A n \in 1..Len(file) :
              LoadedUpTo(file)[n] = LoadCacheRow(LoadedUpTo(file)[n - 1], file[n])
         /\ \A n \in 0..Len(file) : LoadedUpTo(file)[n] \in DgLoad
<1> DEFINE m == Len(file)
           v == [entries |-> NewEntries, over |-> FALSE]
           F == [n \in 1..m |-> [u \in DgLoad |-> LoadCacheRow(u, file[n])]]
           g == LoadedUpTo(file)
<1>1. m \in Nat /\ \A n \in 1..m : file[n] \in DgFileRow
  OBVIOUS
<1>2. ASSUME NEW u \in DgLoad, NEW n \in 1..m PROVE LoadCacheRow(u, file[n]) \in DgLoad
  BY <1>1, RowLoaded
<1>3. F \in [1..m -> [DgLoad -> DgLoad]]
  BY <1>2
<1>4. \A u \in DgLoad, n \in 1..m : F[n][u] = LoadCacheRow(u, file[n])
  OBVIOUS
<1>5. v \in DgLoad
  BY DEF DgLoad, NewEntries, DgEntry, NotADigit
<1> HIDE DEF F, m, v
<1>6. PICK f \in [0..m -> DgLoad] : f[0] = v /\ \A n \in 1..m : f[n] = F[n][f[n - 1]]
  <2> DEFINE Rec(B, b, k) == \A H \in [1..k -> [B -> B]] :
          \E f \in [0..k -> B] : f[0] = b /\ \A n \in 1..k : f[n] = H[n][f[n - 1]]
  <2>0. \A B : \A b \in B : \A k \in Nat : Rec(B, b, k)
    BY RecAll
  <2>1. \A b \in DgLoad : \A k \in Nat : Rec(DgLoad, b, k)
    <3> HIDE DEF Rec
    <3> QED
      BY <2>0, Zenon
  <2>2. \A k \in Nat : \A H \in [1..k -> [DgLoad -> DgLoad]] :
          \E f \in [0..k -> DgLoad] : f[0] = v /\ \A n \in 1..k : f[n] = H[n][f[n - 1]]
    BY <1>5, <2>1, Zenon
  <2>3. \A H \in [1..m -> [DgLoad -> DgLoad]] :
          \E f \in [0..m -> DgLoad] : f[0] = v /\ \A n \in 1..m : f[n] = H[n][f[n - 1]]
    BY <1>1, <2>2, Zenon
  <2> QED
    BY <1>3, <2>3, Zenon
<1>7. \A n \in 1..m : f[n] = LoadCacheRow(f[n - 1], file[n])
  <2> TAKE n \in 1..m
  <2>1. n - 1 \in 0..m
    BY <1>1
  <2>2. f[n - 1] \in DgLoad
    BY <2>1
  <2> QED
    BY <1>4, <1>6, <2>2
<1>8. f = [n \in 0..m |-> IF n = 0 THEN v ELSE LoadCacheRow(f[n - 1], file[n])]
  BY <1>1, <1>6, <1>7
<1>9. \E h : IsLoadedUpTo(h, file)
  BY <1>8 DEF IsLoadedUpTo, m, v
<1>10. IsLoadedUpTo(g, file)
  <2>1. g = CHOOSE h : IsLoadedUpTo(h, file)
    BY DEF LoadedUpTo, IsLoadedUpTo
  <2> QED
    BY <1>9, <2>1
<1> HIDE DEF g
<1>12. g[0] = v /\ \A n \in 1..m : g[n] = LoadCacheRow(g[n - 1], file[n])
  <2> DEFINE B(n) == IF n = 0 THEN v ELSE LoadCacheRow(g[n - 1], file[n])
  <2>1. g = [n \in 0..m |-> B(n)]
    BY <1>10 DEF IsLoadedUpTo, m, v
  <2>2. \A n \in 0..m : g[n] = B(n)
    <3> HIDE DEF B
    <3> QED
      BY <2>1
  <2> QED
    BY <1>1, <2>2
<1> DEFINE Good == {n \in Nat : n <= m => g[n] \in DgLoad}
<1>13. 0 \in Good
  BY <1>5, <1>12
<1>14. ASSUME NEW n \in Nat, n \in Good PROVE n + 1 \in Good
  <2> SUFFICES ASSUME n + 1 <= m PROVE g[n + 1] \in DgLoad
    OBVIOUS
  <2>1. n + 1 \in 1..m /\ (n + 1) - 1 = n /\ g[n] \in DgLoad
    BY <1>1, <1>14
  <2>2. g[n + 1] = LoadCacheRow(g[n], file[n + 1])
    BY <1>12, <2>1
  <2> QED
    BY <1>2, <2>1, <2>2
<1>15. \A n \in Nat : n \in Good
  <2> HIDE DEF Good
  <2> QED
    BY <1>13, <1>14, SetInduction
<1> QED
  BY <1>1, <1>12, <1>15 DEF g, m, v

LEMMA CacheLoaded ==
  /\ \A file \in Seq(DgFileRow) : Loaded(file) \in [Dids -> DgEntry]
  /\ \A E \in [Dids -> DgEntry] : Readable(CacheOf(E)) => Loaded(CacheOf(E)) = E
<1>1. NewEntries \in [Dids -> DgEntry]
  BY DEF NewEntries, DgEntry, NotADigit
<1>2. ASSUME NEW file \in Seq(DgFileRow) PROVE Loaded(file) \in [Dids -> DgEntry]
  <2>1. Len(file) \in 0..Len(file)
    OBVIOUS
  <2>2. LoadedUpTo(file)[Len(file)] \in DgLoad
    BY <2>1, LoadedFacts
  <2> QED
    BY <1>1, <2>2 DEF Loaded, DgLoad
<1>3. ASSUME NEW E \in [Dids -> DgEntry], Readable(CacheOf(E)) PROVE Loaded(CacheOf(E)) = E
  <2> DEFINE m == Cardinality(Dids)
             o == InOrder(Dids)
             file == CacheOf(E)
             g == LoadedUpTo(CacheOf(E))
             Good == {n \in Nat : n <= m => ~g[n].over /\ \A j \in 1..n : g[n].entries[o[j]] = E[o[j]]}
  <2>1. /\ m \in Nat /\ o \in [1..m -> Dids] /\ file \in Seq(DgFileRow) /\ Len(file) = m
        /\ \A j, k \in 1..m : o[j] = o[k] => j = k
        /\ \A d \in Dids : \E k \in 1..m : o[k] = d
    BY CacheTyped, DidsListed, Ordered
  <2>2. \A k \in 1..m : file[k] = [did |-> o[k], value |-> E[o[k]].value, nrc |-> E[o[k]].nrc,
                                   stamp |-> IF E[o[k]].stamp THEN "time" ELSE ""]
    BY CacheTyped
  <2>3. /\ g[0] = [entries |-> NewEntries, over |-> FALSE]
        /\ \A n \in 1..m : g[n] = LoadCacheRow(g[n - 1], file[n])
        /\ \A n \in 0..m : g[n] \in DgLoad
    BY <2>1, LoadedFacts
  <2> HIDE DEF g, o, m, file
  <2>4. 0 \in Good
    BY <2>3
  <2>5. ASSUME NEW n \in Nat, n \in Good PROVE n + 1 \in Good
    <3> SUFFICES ASSUME n + 1 <= m
                 PROVE  ~g[n + 1].over /\ \A j \in 1..(n + 1) : g[n + 1].entries[o[j]] = E[o[j]]
      OBVIOUS
    <3> DEFINE d == o[n + 1]
               l == g[n]
    <3>1. /\ n + 1 \in 1..m /\ (n + 1) - 1 = n /\ n \in 0..m /\ l \in DgLoad /\ d \in Dids
          /\ ~l.over /\ \A j \in 1..n : l.entries[o[j]] = E[o[j]]
      BY <2>1, <2>3, <2>5
    <3>2. g[n + 1] = LoadCacheRow(l, file[n + 1])
      BY <2>3, <3>1
    <3> DEFINE r == file[n + 1]
    <3>3. r = [did |-> d, value |-> E[d].value, nrc |-> E[d].nrc,
               stamp |-> IF E[d].stamp THEN "time" ELSE ""]
      BY <2>2, <3>1
    <3> HIDE DEF d, l, r
    <3>4. E[d] \in DgEntry
      BY <3>1
    <3>5. r.did = d /\ r.value = E[d].value /\ r.nrc = E[d].nrc /\ r.nrc # NotADigit
          /\ r.stamp # "bad" /\ (r.stamp = "time") = E[d].stamp
      BY <3>3, <3>4 DEF DgEntry
    <3> DEFINE e == [value |-> r.value, nrc |-> r.nrc, stamp |-> r.stamp = "time"]
    <3>6. e = E[d]
      BY <3>4, <3>5 DEF DgEntry
    <3>7. LoadCacheRow(l, r) = [l EXCEPT !.entries[r.did] = e, !.over = FALSE]
      BY <3>1, <3>5 DEF LoadCacheRow
    <3> HIDE DEF e
    <3>8. LoadCacheRow(l, r) = [entries |-> [l.entries EXCEPT ![d] = E[d]], over |-> FALSE]
      BY <3>1, <3>5, <3>6, <3>7 DEF DgLoad
    <3>9. g[n + 1] = [entries |-> [l.entries EXCEPT ![d] = E[d]], over |-> FALSE]
      BY <3>2, <3>8 DEF r
    <3>10. l.entries \in [Dids -> DgEntry]
      BY <3>1 DEF DgLoad
    <3>11. \A j \in 1..(n + 1) : g[n + 1].entries[o[j]] = E[o[j]]
      <4> TAKE j \in 1..(n + 1)
      <4>1. CASE j = n + 1
        BY <3>1, <3>9, <3>10, <4>1 DEF d
      <4>2. CASE j # n + 1
        <5>1. j \in 1..n /\ j \in 1..m
          BY <2>1, <4>2
        <5>2. o[j] \in Dids /\ o[j] # d
          BY <2>1, <3>1, <4>2, <5>1 DEF d
        <5> QED
          BY <3>1, <3>9, <3>10, <5>1, <5>2
      <4> QED
        BY <4>1, <4>2
    <3> QED
      BY <3>9, <3>11
  <2>6. \A n \in Nat : n \in Good
    <3> HIDE DEF Good
    <3> QED
      BY <2>4, <2>5, SetInduction
  <2>7. g[m].entries \in [Dids -> DgEntry] /\ \A j \in 1..m : g[m].entries[o[j]] = E[o[j]]
    BY <2>1, <2>3, <2>6 DEF DgLoad
  <2>8. g[m].entries = E
    BY <2>1, <2>7
  <2> QED
    BY <1>3, <2>1, <2>8 DEF Loaded, g, file, m
<1> QED
  BY <1>2, <1>3

-----------------------------------------------------------------------------
(* A DID has one row, where did_to_row says, and what the row shows is its   *)
(* value unless a cause is known: it is still to be shown (from the iterator *)
(* on), the worker has it, the user wrote over it or its update was lost.    *)
DgType ==
  /\ dgEntry \in [Dids -> DgEntry] /\ dgUpdated \in VecOf(Dids) /\ dgRows \in Seq(DgRow)
  /\ dgRowOf \in [Dids -> Nat] /\ dgWalk \in Walks /\ dgFile \in Seq(DgFileRow)
  /\ dgWorker # <<>> => \E d \in Dids : dgWorker = <<d>>
  /\ dgAt \in {"idle", "walk", "clear"}

DgPlaced ==
  /\ \A k \in DOMAIN dgRows : dgRowOf[dgRows[k].did] = k
  /\ ~dgShown => dgRows = <<>>
  /\ dgShown /\ ~dgFiltered =>
       \A d \in Dids : dgRowOf[d] \in DOMAIN dgRows /\ dgRows[dgRowOf[d]].did = d
  /\ dgAstray # {} => dgFiltered

Unshown(d) == \E j \in (IF dgAt = "idle" THEN 1 ELSE dgWalk.at)..Len(dgUpdated.items) :
                 dgUpdated.items[j] = d

RowTrue(row) ==
  \/ row.did \in dgBehind \cup dgAstray
  \/ dgWorker = <<row.did>>
  \/ dgEntry[row.did].nrc # 0 /\ ~dgEntry[row.did].stamp
  \/ row.text = TextOf(dgEntry[row.did])
  \/ Unshown(row.did)

DgTrue == \A k \in DOMAIN dgRows : RowTrue(dgRows[k])

DgWalking ==
  /\ dgAt # "idle" => dgShown /\ dgWalk.at \in 1..(Len(dgUpdated.items) + 1)
  /\ dgAt = "walk" => dgPushed \/ dgWalk.moved = dgUpdated.moved
  /\ dgWild => dgPushed

DgSaved == dgSaved # <<>> => dgSaved = <<dgEntry>> /\ dgFile = CacheOf(dgEntry)

DgLengths ==
  /\ dgQueued \in [Dids -> Seq(Nat)]
  /\ \A d \in Dids : dgQueued[d] # <<>> /\ Of(d).type = "string" => Len(dgQueued[d]) = Of(d).len

DgInv == DgType /\ DgPlaced /\ DgTrue /\ DgWalking /\ DgSaved /\ DgLengths

LEMMA TextTyped ==
  ASSUME NEW e \in DgEntry
  PROVE  /\ TextOf(e) \in Seq(Nat) /\ RowTextOf(e) \in Seq(Nat)
         /\ RowTextOf(e) = TextOf(e) \/ (e.nrc # 0 /\ ~e.stamp)
<1>1. e.value \in Seq(Nat) /\ e.nrc \in Nat
  BY DEF DgEntry
<1>2. NrcText(e.nrc) \in Seq(Nat)
  BY <1>1 DEF NrcText, NotADigit
<1> QED
  BY <1>1, <1>2 DEF TextOf, RowTextOf

(* The rows of a set of DIDs. *)
LEMMA RowsAnew ==
  ASSUME DgType, NEW ds \in SUBSET Dids
  PROVE  LET rows == DidGridRows(ds)
             of == RowOf(ds)
         IN  /\ rows \in Seq(DgRow) /\ of \in [Dids -> Nat]
             /\ \A k \in DOMAIN rows : /\ of[rows[k].did] = k /\ rows[k].did \in ds
                                       /\ rows[k].text = RowTextOf(dgEntry[rows[k].did])
             /\ \A d \in ds : of[d] \in DOMAIN rows /\ rows[of[d]].did = d
<1> DEFINE n == Cardinality(ds)
           o == InOrder(ds)
           rows == DidGridRows(ds)
           of == RowOf(ds)
           Row(d) == [did |-> d, text |-> RowTextOf(dgEntry[d])]
<1>1. ds \in SUBSET Nat /\ IsFiniteSet(ds)
  BY DidsListed, FS_Subset
<1>2. /\ n \in Nat /\ o \in [1..n -> ds]
      /\ \A j, k \in 1..n : o[j] = o[k] => j = k
      /\ \A d \in ds : \E k \in 1..n : o[k] = d
  BY <1>1, Ordered
<1>3. \A d \in Dids : Row(d) \in DgRow /\ Row(d).did = d /\ Row(d).text = RowTextOf(dgEntry[d])
  BY TextTyped DEF DgType, DgRow
<1>4. rows = [k \in 1..n |-> Row(o[k])]
  BY DEF DidGridRows
<1>5. of = [d \in Dids |-> IF d \in ds THEN CHOOSE k \in 1..n : o[k] = d ELSE dgRowOf[d]]
  BY DEF RowOf
<1> HIDE DEF Row, n, o, rows, of
<1>6. \A d \in ds : of[d] \in 1..n /\ o[of[d]] = d
  BY <1>2, <1>5
<1>7. of \in [Dids -> Nat]
  <2>1. \A d \in Dids : of[d] \in Nat
    <3> TAKE d \in Dids
    <3>1. CASE d \in ds
      BY <1>2, <1>6, <3>1
    <3>2. CASE d \notin ds
      BY <1>5, <3>2 DEF DgType
    <3> QED
      BY <3>1, <3>2
  <2> QED
    BY <1>5, <2>1
<1>8. \A k \in 1..n : o[k] \in ds /\ rows[k] = Row(o[k])
  BY <1>2, <1>4
<1>9. rows \in Seq(DgRow) /\ DOMAIN rows = 1..n
  <2>1. rows \in [1..n -> DgRow]
    BY <1>3, <1>4, <1>8
  <2>2. rows \in Seq(DgRow)
    BY <1>2, <2>1, SeqDef
  <2> QED
    BY <1>4, <2>2
<1>10. \A k \in 1..n : rows[k].did = o[k] /\ rows[k].text = RowTextOf(dgEntry[o[k]])
  BY <1>3, <1>8
<1>11. \A k \in 1..n : of[o[k]] = k
  BY <1>2, <1>6, <1>8
<1> QED
  BY <1>6, <1>7, <1>8, <1>9, <1>10, <1>11 DEF rows, of

LEMMA DgInit == DidGridInit => DgInv
<1> SUFFICES ASSUME DidGridInit PROVE DgInv
  OBVIOUS
<1>1. /\ dgFile \in CacheFiles /\ dgEntry = Loaded(dgFile) /\ dgUpdated = NoEntries /\ dgRows = <<>>
      /\ dgRowOf = [d \in Dids |-> 1] /\ ~dgShown /\ dgAt = "idle" /\ dgWalk = Walk(NoEntries, NewGrid)
      /\ dgWorker = <<>> /\ dgQueued = [d \in Dids |-> <<>>] /\ ~dgWild /\ dgAstray = {} /\ dgSaved = <<>>
  BY DEF DidGridInit
<1>2. dgFile \in Seq(DgFileRow)
  BY <1>1, DidGridAssumption DEF DgFileRow
<1>3. dgEntry \in [Dids -> DgEntry]
  BY <1>1, <1>2, CacheLoaded
<1>4. dgUpdated \in VecOf(Dids) /\ dgWalk \in Walks
  BY <1>1, NewOnes, WalkFrom
<1>5. dgRows \in Seq(DgRow) /\ DOMAIN dgRows = {}
  BY <1>1
<1>6. DgType
  BY <1>1, <1>2, <1>3, <1>4, <1>5 DEF DgType
<1>7. DgPlaced /\ DgTrue /\ DgWalking /\ DgSaved
  BY <1>1, <1>5 DEF DgPlaced, DgTrue, DgWalking, DgSaved
<1>8. DgLengths
  BY <1>1 DEF DgLengths
<1> QED
  BY <1>6, <1>7, <1>8 DEF DgInv

(* The worker. *)
LEMMA DgAnswers ==
  ASSUME DgInv, ProcessReadDidResponse \/ NrcReceived
  PROVE  DgInv'
<1>1. DgType /\ DgPlaced /\ DgTrue /\ DgWalking /\ DgSaved /\ DgLengths
  BY DEF DgInv
<1>2. PICK d \in Dids, e \in DgEntry : Answered(d, e)
  <2>1. CASE ProcessReadDidResponse
    <3>1. PICK d \in Dids, data \in DidAnswers :
            /\ dgDown' = (Of(d).type = "string" /\ Len(data) < 3)
            /\ Answered(d, IF dgDown' THEN dgEntry[d]
                           ELSE [value |-> Decoded(d, data), nrc |-> 0, stamp |-> TRUE])
      BY <2>1 DEF ProcessReadDidResponse
    <3>2. CASE dgDown'
      <4>1. dgEntry[d] \in DgEntry
        BY <1>1 DEF DgType
      <4> QED
        BY <3>1, <3>2, <4>1
    <3>3. CASE ~dgDown'
      <4>0. DidAnswers \subseteq Seq(Nat)
        BY DidGridAssumption, Zenon
      <4>1. data \in Seq(Nat) /\ Len(data) \in Nat
        BY <4>0
      <4>2. Of(d).type \in {"ui8", "ui16", "string"}
        BY DidsListed
      <4>3. Decoded(d, data) \in Seq(Nat)
        <5>1. CASE Of(d).type = "ui8"
          <6>1. Garbage \in Nat /\ (data # <<>> => data[1] \in Nat)
            BY <4>1 DEF Garbage
          <6> QED
            BY <5>1, <6>1 DEF Decoded
        <5>2. CASE Of(d).type = "ui16"
          BY <5>2 DEF Decoded
        <5>3. CASE Of(d).type = "string"
          <6>1. Len(data) - 3 \in Nat
            <7>1. ~(Len(data) < 3)
              BY <3>1, <3>3, <5>3, Zenon
            <7> QED
              BY <4>1, <7>1
          <6>2. SubSeq(data, 1, Len(data) - 3) \in Seq(Nat)
            BY <4>1, <6>1
          <6> QED
            BY <5>3, <6>2 DEF Decoded
        <5> QED
          BY <4>2, <5>1, <5>2, <5>3
      <4>4. [value |-> Decoded(d, data), nrc |-> 0, stamp |-> TRUE] \in DgEntry
        BY <4>3 DEF DgEntry, NotADigit
      <4> QED
        BY <3>1, <3>3, <4>4
    <3> QED
      BY <3>2, <3>3
  <2>2. CASE NrcReceived
    <3>1. PICK d \in Dids, n \in {7, 1} : Answered(d, [dgEntry[d] EXCEPT !.nrc = n, !.stamp = @ \/ n = 1])
      BY <2>2 DEF NrcReceived
    <3>2. [dgEntry[d] EXCEPT !.nrc = n, !.stamp = @ \/ n = 1] \in DgEntry
      <4>1. dgEntry[d] \in DgEntry
        BY <1>1 DEF DgType
      <4> DEFINE b == dgEntry[d].stamp \/ n = 1
      <4>2. b \in BOOLEAN /\ n \in Nat \ {NotADigit}
        BY DEF NotADigit
      <4> HIDE DEF b
      <4>3. [dgEntry[d] EXCEPT !.nrc = n, !.stamp = b] \in DgEntry
        BY <4>1, <4>2 DEF DgEntry
      <4> QED
        BY <4>3 DEF b
    <3> QED
      BY <3>1, <3>2
  <2> QED
    BY <2>1, <2>2
<1>3. /\ dgWorker = <<>> /\ ~dgWild /\ dgEntry' = [dgEntry EXCEPT ![d] = e] /\ dgWorker' = <<d>> /\ dgSaved' = <<>>
      /\ UNCHANGED <<dgUpdated, dgRows, dgRowOf, dgShown, dgAt, dgWalk, dgQueued, dgFile, dgWild,
                     dgBehind, dgAstray, dgFiltered, dgPushed>>
  BY <1>2 DEF Answered, dgGuiVars
<1>4. DgType'
  BY <1>1, <1>3 DEF DgType
<1>5. DgTrue'
  <2> SUFFICES ASSUME NEW k \in DOMAIN dgRows PROVE RowTrue(dgRows[k])'
    BY <1>3 DEF DgTrue
  <2>0. dgRows \in Seq(DgRow) /\ RowTrue(dgRows[k])
    BY <1>1 DEF DgType, DgTrue
  <2>1. dgRows[k].did \in Dids
    <3>1. dgRows[k] \in DgRow
      BY <2>0
    <3> QED
      BY <3>1 DEF DgRow
  <2>2. Unshown(dgRows[k].did) => Unshown(dgRows[k].did)'
    BY <1>3 DEF Unshown
  <2>3. CASE dgRows[k].did = d
    BY <1>3, <2>3 DEF RowTrue
  <2>4. CASE dgRows[k].did # d
    <3>1. dgEntry'[dgRows[k].did] = dgEntry[dgRows[k].did]
      BY <1>1, <1>3, <2>4 DEF DgType
    <3>2. dgWorker # <<dgRows[k].did>>
      BY <1>3
    <3> QED
      BY <1>3, <2>0, <2>2, <3>1, <3>2 DEF RowTrue
  <2> QED
    BY <2>3, <2>4
<1>6. DgPlaced' /\ DgWalking' /\ DgSaved' /\ DgLengths'
  BY <1>1, <1>3 DEF DgPlaced, DgWalking, DgSaved, DgLengths
<1> QED
  BY <1>4, <1>5, <1>6 DEF DgInv

LEMMA DgPush ==
  ASSUME DgInv, PushUpdated
  PROVE  DgInv'
<1>1. DgType /\ DgPlaced /\ DgTrue /\ DgWalking /\ DgSaved /\ DgLengths
  BY DEF DgInv
<1>2. /\ dgWorker # <<>> /\ ~dgWild /\ dgUpdated' = PushBack(dgUpdated, dgWorker[1]) /\ dgWorker' = <<>>
      /\ dgPushed' = (dgPushed \/ dgAt = "walk")
      /\ UNCHANGED <<dgEntry, dgRows, dgRowOf, dgShown, dgAt, dgWalk, dgQueued, dgFile, dgWild,
                     dgBehind, dgAstray, dgFiltered, dgSaved>>
  BY DEF PushUpdated, dgGuiVars
<1>3. PICK d \in Dids : dgWorker = <<d>>
  BY <1>1, <1>2 DEF DgType
<1>4. dgUpdated' = PushBack(dgUpdated, d) /\ dgUpdated \in VecOf(Dids)
  BY <1>1, <1>2, <1>3 DEF DgType
<1>5. /\ dgUpdated' \in VecOf(Dids) /\ dgUpdated'.items = Append(dgUpdated.items, d)
      /\ Len(dgUpdated'.items) = Len(dgUpdated.items) + 1
  BY <1>4, Pushed
<1>6. dgUpdated.items \in Seq(Dids) /\ Len(dgUpdated.items) \in Nat
  BY <1>4 DEF VecOf
<1>7. \A j \in 1..Len(dgUpdated.items) : dgUpdated'.items[j] = dgUpdated.items[j]
  BY <1>5, <1>6
<1>8. dgUpdated'.items[Len(dgUpdated.items) + 1] = d
  BY <1>5, <1>6
<1>9. DgType'
  BY <1>1, <1>2, <1>5 DEF DgType
<1>10. DgTrue'
  <2> DEFINE i == IF dgAt = "idle" THEN 1 ELSE dgWalk.at
  <2>1. i \in 1..(Len(dgUpdated.items) + 1)
    BY <1>1, <1>6 DEF DgWalking
  <2>2. ASSUME NEW x, Unshown(x) PROVE Unshown(x)'
    <3>1. PICK j \in i..Len(dgUpdated.items) : dgUpdated.items[j] = x
      BY <2>2 DEF Unshown
    <3>2. j \in 1..Len(dgUpdated.items) /\ j \in i..Len(dgUpdated'.items)
      BY <1>5, <1>6, <2>1, <3>1
    <3>3. dgUpdated'.items[j] = x
      BY <1>7, <3>1, <3>2
    <3> QED
      BY <1>2, <3>2, <3>3 DEF Unshown
  <2>3. Unshown(d)'
    <3>1. Len(dgUpdated.items) + 1 \in i..Len(dgUpdated'.items)
      BY <1>5, <1>6, <2>1
    <3> QED
      BY <1>2, <1>8, <3>1 DEF Unshown
  <2> SUFFICES ASSUME NEW k \in DOMAIN dgRows PROVE RowTrue(dgRows[k])'
    BY <1>2 DEF DgTrue
  <2>4. RowTrue(dgRows[k])
    BY <1>1 DEF DgTrue
  <2>5. CASE dgWorker = <<dgRows[k].did>>
    <3>1. dgRows[k].did = d
      BY <1>3, <2>5
    <3> QED
      BY <1>2, <2>3, <3>1 DEF RowTrue
  <2>6. CASE dgWorker # <<dgRows[k].did>>
    <3>1. PICK x : x = dgRows[k].did
      OBVIOUS
    <3>2. Unshown(x) => Unshown(x)'
      BY <2>2
    <3>3. dgRows'[k].did = x /\ dgRows'[k].text = dgRows[k].text
      BY <1>2, <3>1
    <3> QED
      BY <1>2, <2>4, <2>6, <3>1, <3>2, <3>3 DEF RowTrue, Unshown
  <2> QED
    BY <2>5, <2>6
<1>11. DgWalking'
  <2>1. dgAt' # "idle" => dgShown' /\ dgWalk'.at \in 1..(Len(dgUpdated'.items) + 1)
    BY <1>1, <1>2, <1>5, <1>6 DEF DgWalking
  <2> QED
    BY <1>1, <1>2, <2>1 DEF DgWalking
<1>12. DgPlaced' /\ DgSaved' /\ DgLengths'
  BY <1>1, <1>2 DEF DgPlaced, DgSaved, DgLengths
<1> QED
  BY <1>9, <1>10, <1>11, <1>12 DEF DgInv

LEMMA DgSent ==
  ASSUME DgInv, WritesSent
  PROVE  DgInv'
<1>1. DgType /\ DgPlaced /\ DgTrue /\ DgWalking /\ DgSaved /\ DgLengths
  BY DEF DgInv
<1>2. /\ dgQueued' = [d \in Dids |-> <<>>]
      /\ UNCHANGED <<dgEntry, dgUpdated, dgRows, dgRowOf, dgShown, dgAt, dgWalk, dgWorker, dgFile, dgWild,
                     dgBehind, dgAstray, dgFiltered, dgPushed, dgSaved>>
  BY DEF WritesSent, dgGuiVars, dgHist
<1>3. DgType' /\ DgPlaced' /\ DgWalking' /\ DgSaved'
  BY <1>1, <1>2 DEF DgType, DgPlaced, DgWalking, DgSaved
<1>4. DgTrue'
  BY <1>1, <1>2 DEF DgTrue, RowTrue, Unshown
<1>5. DgLengths'
  BY <1>2 DEF DgLengths
<1> QED
  BY <1>3, <1>4, <1>5 DEF DgInv

(* The GUI: the timer. *)
LEMMA RowsOf ==
  ASSUME DgType
  PROVE  \A k \in DOMAIN dgRows : dgRows[k] \in DgRow /\ dgRows[k].did \in Dids /\ dgRows[k].text \in Seq(Nat)
<1>1. \A k \in DOMAIN dgRows : dgRows[k] \in DgRow
  BY DEF DgType
<1> QED
  BY <1>1 DEF DgRow

LEMMA DgBegin ==
  ASSUME DgInv, DidTimerBegin
  PROVE  DgInv'
<1>1. DgType /\ DgPlaced /\ DgTrue /\ DgWalking /\ DgSaved /\ DgLengths
  BY DEF DgInv
<1>2. /\ dgAt = "idle" /\ ~dgWild /\ dgShown' = TRUE /\ dgPushed' = FALSE
      /\ dgAt' \in {"idle", "walk"}
      /\ dgAt' = "walk" => dgWalk' = Walk(dgUpdated, NewGrid)
      /\ dgAt' = "idle" => dgWalk' = dgWalk
      /\ UNCHANGED <<dgEntry, dgUpdated, dgWorker, dgQueued, dgFile, dgWild, dgBehind, dgAstray,
                     dgFiltered, dgSaved>>
  BY DEF DidTimerBegin, DidGui
<1>3. dgUpdated \in VecOf(Dids) /\ dgUpdated.items \in Seq(Dids) /\ Len(dgUpdated.items) \in Nat
  BY <1>1 DEF DgType, VecOf
<1>4. dgWalk' \in Walks /\ (dgAt' = "walk" => dgWalk'.at = 1 /\ dgWalk'.moved = dgUpdated.moved)
  <2>1. Walk(dgUpdated, NewGrid) \in Walks /\ Walk(dgUpdated, NewGrid).at = 1
        /\ Walk(dgUpdated, NewGrid).moved = dgUpdated.moved
    BY <1>3, NewOnes, WalkFrom
  <2> QED
    BY <1>1, <1>2, <2>1 DEF DgType
<1>5. \A x : Unshown(x)' = Unshown(x)
  BY <1>2, <1>4 DEF Unshown
<1>6. CASE dgShown
  <2>1. dgRows' = dgRows /\ dgRowOf' = dgRowOf
    BY <1>6 DEF DidTimerBegin
  <2>2. DgTrue'
    <3>1. \A k \in DOMAIN dgRows : RowTrue(dgRows[k])
      BY <1>1 DEF DgTrue
    <3> SUFFICES ASSUME NEW k \in DOMAIN dgRows PROVE RowTrue(dgRows[k])'
      BY <2>1 DEF DgTrue
    <3> QED
      BY <1>2, <1>4, <2>1, <3>1 DEF RowTrue, Unshown
  <2>3. DgType'
    BY <1>1, <1>2, <1>4, <2>1 DEF DgType
  <2>4. DgPlaced'
    BY <1>1, <1>2, <1>6, <2>1 DEF DgPlaced
  <2> QED
    <3>1. DgWalking'
      BY <1>1, <1>2, <1>3, <1>4 DEF DgWalking
    <3>2. DgSaved' /\ DgLengths'
      BY <1>1, <1>2 DEF DgSaved, DgLengths
    <3> QED
      BY <2>2, <2>3, <2>4, <3>1, <3>2 DEF DgInv
<1>7. CASE ~dgShown
  <2>1. dgRows' = DidGridRows(Dids) /\ dgRowOf' = RowOf(Dids)
    BY <1>7 DEF DidTimerBegin
  <2>2. /\ dgRows' \in Seq(DgRow) /\ dgRowOf' \in [Dids -> Nat]
        /\ \A k \in DOMAIN dgRows' : /\ dgRowOf'[dgRows'[k].did] = k /\ dgRows'[k].did \in Dids
                                    /\ dgRows'[k].text = RowTextOf(dgEntry[dgRows'[k].did])
        /\ \A d \in Dids : dgRowOf'[d] \in DOMAIN dgRows' /\ dgRows'[dgRowOf'[d]].did = d
    BY <1>1, <2>1, RowsAnew
  <2>3. DgTrue'
    <3> SUFFICES ASSUME NEW k \in DOMAIN dgRows' PROVE RowTrue(dgRows[k])'
      BY DEF DgTrue
    <3>1. dgEntry[dgRows'[k].did] \in DgEntry
      BY <1>1, <2>2 DEF DgType
    <3>2. RowTextOf(dgEntry[dgRows'[k].did]) = TextOf(dgEntry[dgRows'[k].did])
          \/ (dgEntry[dgRows'[k].did].nrc # 0 /\ ~dgEntry[dgRows'[k].did].stamp)
      BY <3>1, TextTyped
    <3> QED
      BY <1>2, <2>2, <3>2 DEF RowTrue
  <2>4. DgType'
    BY <1>1, <1>2, <1>4, <2>2 DEF DgType
  <2>5. DgPlaced'
    BY <1>1, <1>2, <2>2 DEF DgPlaced
  <2> QED
    <3>1. DgWalking'
      BY <1>1, <1>2, <1>3, <1>4 DEF DgWalking
    <3>2. DgSaved' /\ DgLengths'
      BY <1>1, <1>2 DEF DgSaved, DgLengths
    <3> QED
      BY <2>3, <2>4, <2>5, <3>1, <3>2 DEF DgInv
<1> QED
  BY <1>6, <1>7

LEMMA DgStep ==
  ASSUME DgInv, DidTimerStep
  PROVE  DgInv'
<1>1. DgType /\ DgPlaced /\ DgTrue /\ DgWalking /\ DgSaved /\ DgLengths
  BY DEF DgInv
<1>2. /\ dgAt = "walk" /\ ~dgWild
      /\ UNCHANGED <<dgEntry, dgUpdated, dgRowOf, dgShown, dgWorker, dgQueued, dgFile, dgFiltered,
                     dgPushed, dgSaved>>
  BY DEF DidTimerStep
<1>3. /\ dgUpdated \in VecOf(Dids) /\ dgUpdated.items \in Seq(Dids) /\ Len(dgUpdated.items) \in Nat
      /\ dgWalk \in Walks /\ dgWalk.at \in Nat /\ dgShown
      /\ dgWalk.at \in 1..(Len(dgUpdated.items) + 1)
  BY <1>1, <1>2 DEF DgType, VecOf, Walks, DgWalking
<1>4. CASE ~WalkValid(dgWalk, dgUpdated)
  <2>1. dgWild' = TRUE /\ UNCHANGED <<dgAt, dgWalk, dgRows, dgBehind, dgAstray>>
    BY <1>4 DEF DidTimerStep
  <2>2. dgPushed
    BY <1>1, <1>2, <1>3, <1>4 DEF WalkValid, DgWalking
  <2>3. DgType' /\ DgPlaced' /\ DgSaved' /\ DgLengths'
    BY <1>1, <1>2, <2>1 DEF DgType, DgPlaced, DgSaved, DgLengths
  <2>4. DgTrue'
    BY <1>1, <1>2, <2>1 DEF DgTrue, RowTrue, Unshown
  <2>5. DgWalking'
    BY <1>1, <1>2, <2>1, <2>2 DEF DgWalking
  <2> QED
    BY <2>3, <2>4, <2>5 DEF DgInv
<1>5. CASE WalkValid(dgWalk, dgUpdated) /\ dgWalk.at > Len(dgUpdated.items)
  <2>1. dgAt' = "clear" /\ UNCHANGED <<dgWalk, dgRows, dgBehind, dgAstray, dgWild>>
    BY <1>5 DEF DidTimerStep
  <2>3. DgType' /\ DgPlaced' /\ DgSaved' /\ DgLengths'
    BY <1>1, <1>2, <2>1 DEF DgType, DgPlaced, DgSaved, DgLengths
  <2>4. DgTrue'
    BY <1>1, <1>2, <2>1 DEF DgTrue, RowTrue, Unshown
  <2>5. DgWalking'
    BY <1>1, <1>2, <2>1 DEF DgWalking
  <2> QED
    BY <2>3, <2>4, <2>5 DEF DgInv
<1>6. CASE WalkValid(dgWalk, dgUpdated) /\ ~(dgWalk.at > Len(dgUpdated.items))
  <2> DEFINE d == dgUpdated.items[dgWalk.at]
             k == dgRowOf[d]
  <2>1. /\ dgWalk' = [dgWalk EXCEPT !.at = @ + 1] /\ UNCHANGED <<dgAt, dgWild>>
        /\ k \notin DOMAIN dgRows => UNCHANGED <<dgRows, dgBehind, dgAstray>>
        /\ k \in DOMAIN dgRows =>
             /\ dgRows' = [dgRows EXCEPT ![k].text = TextOf(dgEntry[d])]
             /\ dgBehind' = dgBehind \ {dgRows[k].did}
             /\ dgAstray' = IF dgRows[k].did = d THEN dgAstray \ {d}
                            ELSE dgAstray \cup {dgRows[k].did}
    BY <1>6 DEF DidTimerStep
  <2>2. d \in Dids /\ dgWalk.at \in 1..Len(dgUpdated.items)
    BY <1>3, <1>6
  <2>3. dgWalk' \in Walks /\ dgWalk'.at = dgWalk.at + 1 /\ dgWalk'.moved = dgWalk.moved
    BY <1>3, <2>1 DEF Walks
  <2>4. DgWalking'
    <3>1. dgWalk'.at \in 1..(Len(dgUpdated.items) + 1)
      BY <1>3, <2>2, <2>3
    <3> QED
      BY <1>1, <1>2, <1>3, <2>1, <2>3, <3>1 DEF DgWalking
  <2>5. DgSaved' /\ DgLengths'
    BY <1>1, <1>2 DEF DgSaved, DgLengths
  <2>6. ASSUME NEW x, x # d, Unshown(x) PROVE Unshown(x)'
    <3>1. PICK j \in dgWalk.at..Len(dgUpdated.items) : dgUpdated.items[j] = x
      BY <1>2, <2>6 DEF Unshown
    <3>2. j \in dgWalk'.at..Len(dgUpdated.items)
      BY <1>3, <2>3, <2>6, <3>1
    <3> QED
      BY <1>2, <2>1, <3>1, <3>2 DEF Unshown
  <2> HIDE DEF d, k
  <2>7. \A n \in DOMAIN dgRows : RowTrue(dgRows[n]) /\ dgRowOf[dgRows[n].did] = n
    BY <1>1 DEF DgTrue, DgPlaced
  <2>8. CASE k \notin DOMAIN dgRows
    <3>1. UNCHANGED <<dgRows, dgBehind, dgAstray>>
      BY <2>1, <2>8
    <3>2. DgTrue'
      <4> SUFFICES ASSUME NEW n \in DOMAIN dgRows PROVE RowTrue(dgRows[n])'
        BY <3>1 DEF DgTrue
      <4>1. PICK x : x = dgRows[n].did
        OBVIOUS
      <4>2. x # d
        BY <2>7, <2>8, <4>1 DEF k
      <4>3. Unshown(x) => Unshown(x)'
        BY <2>6, <4>2
      <4>4. dgRows'[n].did = x /\ dgRows'[n].text = dgRows[n].text
        BY <3>1, <4>1
      <4> QED
        BY <1>2, <2>1, <2>7, <3>1, <4>1, <4>3, <4>4 DEF RowTrue, Unshown
    <3>3. DgType' /\ DgPlaced'
      BY <1>1, <1>2, <2>1, <2>3, <3>1 DEF DgType, DgPlaced
    <3> QED
      BY <2>4, <2>5, <3>2, <3>3 DEF DgInv
  <2>9. CASE k \in DOMAIN dgRows
    <3>1. /\ dgRows' = [dgRows EXCEPT ![k].text = TextOf(dgEntry[d])]
          /\ dgBehind' = dgBehind \ {dgRows[k].did}
          /\ dgAstray' = IF dgRows[k].did = d THEN dgAstray \ {d}
                         ELSE dgAstray \cup {dgRows[k].did}
      BY <2>1, <2>9
    <3>2. dgEntry[d] \in DgEntry /\ dgRows \in Seq(DgRow)
      BY <1>1, <2>2 DEF DgType
    <3>3. TextOf(dgEntry[d]) \in Seq(Nat)
      BY <3>2, TextTyped
    <3> DEFINE t == TextOf(dgEntry[d])
               row == [dgRows[k] EXCEPT !.text = t]
    <3>4. dgRows[k] \in DgRow
      BY <2>9, <3>2
    <3>5. row \in DgRow /\ row.did = dgRows[k].did /\ row.text = t
      BY <3>3, <3>4 DEF DgRow
    <3>6. dgRows' = [dgRows EXCEPT ![k] = row]
      BY <3>1
    <3> HIDE DEF row, t
    <3>7. /\ dgRows' \in Seq(DgRow) /\ DOMAIN dgRows' = DOMAIN dgRows /\ dgRows'[k] = row
          /\ \A n \in DOMAIN dgRows : n # k => dgRows'[n] = dgRows[n]
      BY <2>9, <3>2, <3>5, <3>6
    <3>8. \A n \in DOMAIN dgRows : dgRows'[n].did = dgRows[n].did
      BY <3>5, <3>7
    <3>9. DgTrue'
      <4> SUFFICES ASSUME NEW n \in DOMAIN dgRows PROVE RowTrue(dgRows[n])'
        BY <3>7 DEF DgTrue
      <4>1. CASE n = k /\ dgRows[k].did = d
        <5>1. dgRows'[n].did = d /\ dgRows'[n].text = TextOf(dgEntry[d])
          BY <3>5, <3>7, <4>1 DEF t
        <5> QED
          BY <1>2, <5>1 DEF RowTrue
      <4>2. CASE n = k /\ dgRows[k].did # d
        <5>1. dgRows'[n].did \in dgAstray'
          <6>1. dgAstray' = dgAstray \cup {dgRows[k].did} /\ dgRows'[n].did = dgRows[k].did
            BY <2>9, <3>1, <3>8, <4>2, Zenon
          <6> QED
            BY <6>1, Zenon
        <5> QED
          BY <5>1 DEF RowTrue
      <4>3. CASE n # k
        <5>1. PICK x : x = dgRows[n].did
          OBVIOUS
        <5>2. x # d /\ x # dgRows[k].did
          BY <2>7, <2>9, <4>3, <5>1 DEF k
        <5>3. Unshown(x) => Unshown(x)'
          BY <2>6, <5>2
        <5>4. dgRows'[n] = dgRows[n] /\ dgRows'[n].did = x
          BY <3>7, <4>3, <5>1
        <5>5. x \in dgBehind \cup dgAstray => x \in dgBehind' \cup dgAstray'
          BY <3>1, <5>2
        <5>6. RowTrue(dgRows[n])
          BY <2>7
        <5> QED
          BY <1>2, <2>1, <5>1, <5>3, <5>4, <5>5, <5>6 DEF RowTrue, Unshown
      <4> QED
        BY <4>1, <4>2, <4>3
    <3>10. DgType'
      BY <1>1, <1>2, <2>1, <2>3, <3>7 DEF DgType
    <3>11. DgPlaced'
      <4>1. \A n \in DOMAIN dgRows' : dgRowOf'[dgRows'[n].did] = n
        BY <1>2, <2>7, <3>7, <3>8
      <4>2. ~dgFiltered => \A x \in Dids : dgRowOf[x] \in DOMAIN dgRows /\ dgRows[dgRowOf[x]].did = x
        BY <1>1, <1>3 DEF DgPlaced
      <4>3. ~dgFiltered => \A x \in Dids : dgRowOf[x] \in DOMAIN dgRows' /\ dgRows'[dgRowOf[x]].did = x
        BY <3>7, <3>8, <4>2
      <4>4. dgAstray' # {} => dgFiltered
        <5>1. ~dgFiltered => dgRows[k].did = d /\ dgAstray = {}
          BY <1>1, <2>2, <4>2 DEF DgPlaced, k
        <5> QED
          BY <3>1, <5>1
      <4> QED
        BY <1>2, <1>3, <4>1, <4>3, <4>4 DEF DgPlaced
    <3> QED
      BY <2>4, <2>5, <3>9, <3>10, <3>11 DEF DgInv
  <2> QED
    BY <2>8, <2>9
<1> QED
  BY <1>4, <1>5, <1>6

LEMMA DgClear ==
  ASSUME DgInv, DidTimerClear
  PROVE  DgInv'
<1>1. DgType /\ DgPlaced /\ DgTrue /\ DgWalking /\ DgSaved /\ DgLengths
  BY DEF DgInv
<1>2. /\ dgAt = "clear" /\ ~dgWild /\ dgUpdated' = Clear(dgUpdated)
      /\ dgBehind' = dgBehind \cup {dgUpdated.items[k] : k \in dgWalk.at..Len(dgUpdated.items)}
      /\ dgAt' = "idle" /\ dgWalk' = Walk(NoEntries, NewGrid)
      /\ UNCHANGED <<dgEntry, dgRows, dgRowOf, dgShown, dgWorker, dgQueued, dgFile, dgWild, dgAstray,
                     dgFiltered, dgSaved>>
  BY DEF DidTimerClear
<1>3. dgUpdated' \in VecOf(Dids) /\ dgWalk' \in Walks
  BY <1>1, <1>2, Cleared, NewOnes, WalkFrom DEF DgType
<1>4. DgTrue'
  <2> SUFFICES ASSUME NEW k \in DOMAIN dgRows PROVE RowTrue(dgRows[k])'
    BY <1>2 DEF DgTrue
  <2>1. RowTrue(dgRows[k])
    BY <1>1 DEF DgTrue
  <2>2. Unshown(dgRows[k].did) => dgRows[k].did \in dgBehind'
    BY <1>2 DEF Unshown
  <2> QED
    BY <1>2, <2>1, <2>2 DEF RowTrue
<1>5. DgType' /\ DgPlaced' /\ DgWalking' /\ DgSaved' /\ DgLengths'
  <2>1. DgType'
    BY <1>1, <1>2, <1>3 DEF DgType
  <2>2. DgPlaced' /\ DgSaved' /\ DgLengths'
    BY <1>1, <1>2 DEF DgPlaced, DgSaved, DgLengths
  <2>3. DgWalking'
    BY <1>1, <1>2 DEF DgWalking
  <2> QED
    BY <2>1, <2>2, <2>3
<1> QED
  BY <1>4, <1>5 DEF DgInv

LEMMA DgFilterSet ==
  ASSUME DgInv, OnKeyDown
  PROVE  DgInv'
<1> DEFINE ds == {d \in Dids : Of(d).found \/ ~(~dgFilter)}
<1>1. DgType /\ DgPlaced /\ DgTrue /\ DgWalking /\ DgSaved /\ DgLengths
  BY DEF DgInv
<1>2. /\ dgAt = "idle" /\ dgShown /\ ~dgWild /\ dgFiltered' = TRUE
      /\ dgRows' = DidGridRows(ds) /\ dgRowOf' = RowOf(ds)
      /\ dgUpdated' = PushAll(Clear(dgUpdated), InOrder(ds))
      /\ dgBehind' = {} /\ dgAstray' = {}
      /\ UNCHANGED <<dgEntry, dgShown, dgAt, dgWalk, dgWorker, dgQueued, dgFile, dgWild, dgPushed, dgSaved>>
  BY DEF OnKeyDown, UpdateDidList, DidGui
<1> HIDE DEF ds
<1>3. ds \in SUBSET Dids
  BY DEF ds
<1>4. dgUpdated' \in VecOf(Dids)
  <2>1. Clear(dgUpdated) \in VecOf(Dids)
    BY <1>1, Cleared DEF DgType
  <2>2. ds \in SUBSET Nat /\ IsFiniteSet(ds)
    BY <1>3, DidsListed, FS_Subset
  <2>3. InOrder(ds) \in Seq(Dids)
    <3>1. InOrder(ds) \in Seq(ds)
      BY <2>2, Ordered
    <3> QED
      BY <1>3, <3>1
  <2> QED
    BY <1>2, <2>1, <2>3, PushedAll
<1>5. /\ dgRows' \in Seq(DgRow) /\ dgRowOf' \in [Dids -> Nat]
      /\ \A k \in DOMAIN dgRows' : /\ dgRowOf'[dgRows'[k].did] = k /\ dgRows'[k].did \in Dids
                                  /\ dgRows'[k].text = RowTextOf(dgEntry[dgRows'[k].did])
  BY <1>1, <1>2, <1>3, RowsAnew
<1>6. DgTrue'
  <2> SUFFICES ASSUME NEW k \in DOMAIN dgRows' PROVE RowTrue(dgRows[k])'
    BY DEF DgTrue
  <2>1. dgEntry[dgRows'[k].did] \in DgEntry
    BY <1>1, <1>5 DEF DgType
  <2>2. RowTextOf(dgEntry[dgRows'[k].did]) = TextOf(dgEntry[dgRows'[k].did])
        \/ (dgEntry[dgRows'[k].did].nrc # 0 /\ ~dgEntry[dgRows'[k].did].stamp)
    BY <2>1, TextTyped
  <2> QED
    BY <1>2, <1>5, <2>2 DEF RowTrue
<1>7. DgType'
  BY <1>1, <1>2, <1>4, <1>5 DEF DgType
<1>8. DgPlaced'
  BY <1>2, <1>5 DEF DgPlaced
<1>9. DgWalking' /\ DgSaved' /\ DgLengths'
  BY <1>1, <1>2 DEF DgWalking, DgSaved, DgLengths
<1> QED
  BY <1>6, <1>7, <1>8, <1>9 DEF DgInv

LEMMA DgCells ==
  ASSUME DgInv, ClearDids
  PROVE  DgInv'
<1>1. DgType /\ DgPlaced /\ DgTrue /\ DgWalking /\ DgSaved /\ DgLengths
  BY DEF DgInv
<1>2. /\ dgRows' = [k \in DOMAIN dgRows |-> [dgRows[k] EXCEPT !.text = <<>>]]
      /\ dgBehind' = dgBehind \cup {dgRows[k].did : k \in DOMAIN dgRows}
      /\ UNCHANGED <<dgEntry, dgUpdated, dgRowOf, dgShown, dgAt, dgWalk, dgWorker, dgQueued,
                     dgFile, dgWild, dgAstray, dgFiltered, dgPushed, dgSaved>>
  BY DEF ClearDids
<1>3. \A k \in DOMAIN dgRows : dgRows[k] \in DgRow
  BY <1>1, RowsOf
<1>4. DOMAIN dgRows' = DOMAIN dgRows /\ \A k \in DOMAIN dgRows : dgRows'[k] \in DgRow /\ dgRows'[k].did = dgRows[k].did
  <2>1. \A t \in Seq(Nat) : \A r \in DgRow : [r EXCEPT !.text = t] \in DgRow /\ [r EXCEPT !.text = t].did = r.did
    BY DEF DgRow
  <2>2. <<>> \in Seq(Nat)
    OBVIOUS
  <2>3. \A r \in DgRow : [r EXCEPT !.text = <<>>] \in DgRow /\ [r EXCEPT !.text = <<>>].did = r.did
    BY <2>1, <2>2, Zenon
  <2> QED
    BY <1>2, <1>3, <2>3
<1>5. dgRows' \in Seq(DgRow)
  <2>1. dgRows \in Seq(DgRow) /\ Len(dgRows) \in Nat /\ DOMAIN dgRows = 1..Len(dgRows)
    BY <1>1 DEF DgType
  <2>2. dgRows' \in [1..Len(dgRows) -> DgRow]
    BY <1>2, <1>4, <2>1
  <2> QED
    BY <2>1, <2>2, SeqDef
<1>6. DgType'
  BY <1>1, <1>2, <1>5 DEF DgType
<1>7. DgTrue'
  <2> SUFFICES ASSUME NEW k \in DOMAIN dgRows PROVE RowTrue(dgRows[k])'
    BY <1>4 DEF DgTrue
  <2>1. dgRows'[k].did \in dgBehind'
    BY <1>2, <1>4
  <2> QED
    BY <2>1 DEF RowTrue
<1>8. DgPlaced'
  <2>1. \A k \in DOMAIN dgRows' : dgRowOf'[dgRows'[k].did] = k
    BY <1>1, <1>2, <1>4 DEF DgPlaced
  <2>2. ~dgShown' => dgRows' = <<>>
    BY <1>1, <1>2 DEF DgPlaced
  <2>3. dgShown' /\ ~dgFiltered' =>
          \A d \in Dids : dgRowOf'[d] \in DOMAIN dgRows' /\ dgRows'[dgRowOf'[d]].did = d
    BY <1>1, <1>2, <1>4 DEF DgPlaced
  <2> QED
    BY <1>1, <1>2, <2>1, <2>2, <2>3 DEF DgPlaced
<1>9. DgWalking' /\ DgSaved' /\ DgLengths'
  BY <1>1, <1>2 DEF DgWalking, DgSaved, DgLengths
<1> QED
  BY <1>6, <1>7, <1>8, <1>9 DEF DgInv

(* The user. *)
LEMMA QueuedTyped ==
  ASSUME NEW d \in Dids, NEW text \in Seq(Nat),
         ~(Of(d).type = "string" /\ (text = <<>> \/ Of(d).len = 0))
  PROVE  /\ DidQueued(d, text) \in Seq(Nat)
         /\ Of(d).type = "string" => Len(DidQueued(d, text)) = Of(d).len
<1>1. Of(d).len \in Nat /\ Len(text) \in Nat
  BY DidsListed
<1>2. CASE Of(d).type = "string"
  <2> DEFINE n == Of(d).len
             m == Len(text)
             c == text[m]
  <2>1. n \in Nat /\ n >= 1 /\ m \in Nat /\ m >= 1 /\ c \in Nat
    BY <1>1, <1>2
  <2>2. DidQueued(d, text) = Padded(text, n)
    BY <1>2 DEF DidQueued
  <2> HIDE DEF n, c, m
  <2>3. CASE m < n
    <3> DEFINE t == [k \in 1..(n - m) |-> c]
    <3>1. n - m \in Nat
      BY <2>1, <2>3
    <3>2. t \in Seq(Nat) /\ Len(t) = n - m
      <4>1. t \in [1..(n - m) -> Nat]
        BY <2>1
      <4>2. t \in Seq(Nat)
        BY <3>1, <4>1, SeqDef
      <4> QED
        BY <3>1, <4>2
    <3>3. Padded(text, n) = text \o t
      BY <2>3 DEF Padded, m, c
    <3> HIDE DEF t
    <3>4. text \o t \in Seq(Nat) /\ Len(text \o t) = m + (n - m)
      <4>1. text \in Seq(Nat) /\ t \in Seq(Nat)
        BY <3>2
      <4>2. text \o t \in Seq(Nat) /\ Len(text \o t) = Len(text) + Len(t)
        BY <4>1
      <4> QED
        BY <3>2, <4>2 DEF m
    <3>5. m + (n - m) = n
      BY <2>1
    <3> QED
      BY <1>2, <2>2, <3>3, <3>4, <3>5 DEF n
  <2>4. CASE ~(m < n)
    <3> DEFINE a == SubSeq(text, 1, n - 1)
               b == SubSeq(text, m, m)
    <3>1. Padded(text, n) = a \o b
      BY <2>4 DEF Padded, m
    <3>2. a \in Seq(Nat) /\ Len(a) = n - 1
      <4>1. n - 1 \in 0..Len(text)
        BY <2>1, <2>4 DEF m
      <4> QED
        BY <4>1
    <3>3. b \in Seq(Nat) /\ Len(b) = 1
      BY <2>1 DEF m
    <3> HIDE DEF a, b
    <3>4. a \o b \in Seq(Nat) /\ Len(a \o b) = Len(a) + Len(b)
      <4>1. a \in Seq(Nat) /\ b \in Seq(Nat)
        BY <3>2, <3>3
      <4> QED
        BY <4>1
    <3>5. (n - 1) + 1 = n
      BY <2>1
    <3> QED
      BY <1>2, <2>2, <3>1, <3>2, <3>3, <3>4, <3>5 DEF n
  <2> QED
    BY <2>3, <2>4
<1>3. CASE Of(d).type # "string"
  <2>1. DidQueued(d, text) = IF text = <<>> \/ text[1] = NotADigit THEN <<>> ELSE <<text[1] % ByteLimit>>
    BY <1>3 DEF DidQueued
  <2>2. text # <<>> => text[1] % ByteLimit \in Nat
    <3>1. ByteLimit \in Nat \ {0}
      BY DidGridAssumption, Zenon
    <3> QED
      BY <3>1
  <2>3. <<>> \in Seq(Nat) /\ (text # <<>> => <<text[1] % ByteLimit>> \in Seq(Nat))
    BY <2>2
  <2> QED
    BY <1>3, <2>1, <2>3
<1> QED
  BY <1>2, <1>3

LEMMA DgTyped ==
  ASSUME DgInv, OnCellValueChanged
  PROVE  DgInv'
<1>1. DgType /\ DgPlaced /\ DgTrue /\ DgWalking /\ DgSaved /\ DgLengths
  BY DEF DgInv
<1>2. PICK k \in DOMAIN dgRows : \E text \in DidTexts \cup {dgRows[k].text} :
        LET d == dgRows[k].did
        IN  /\ dgRows' = [dgRows EXCEPT ![k].text = text]
            /\ dgBehind' = IF text = dgRows[k].text THEN dgBehind ELSE dgBehind \cup {d}
            /\ dgDown' = (Of(d).type = "string" /\ (text = <<>> \/ Of(d).len = 0))
            /\ dgQueued' = IF dgDown' \/ DidQueued(d, text) = <<>> THEN dgQueued
                           ELSE [dgQueued EXCEPT ![d] = DidQueued(d, text)]
  BY DEF OnCellValueChanged
<1> DEFINE d == dgRows[k].did
<1>3. PICK text \in DidTexts \cup {dgRows[k].text} :
        /\ dgRows' = [dgRows EXCEPT ![k].text = text]
        /\ dgBehind' = IF text = dgRows[k].text THEN dgBehind ELSE dgBehind \cup {d}
        /\ dgDown' = (Of(d).type = "string" /\ (text = <<>> \/ Of(d).len = 0))
        /\ dgQueued' = IF dgDown' \/ DidQueued(d, text) = <<>> THEN dgQueued
                       ELSE [dgQueued EXCEPT ![d] = DidQueued(d, text)]
  BY <1>2
<1>4. UNCHANGED <<dgEntry, dgUpdated, dgRowOf, dgShown, dgAt, dgWalk, dgWorker, dgFile,
                  dgWild, dgAstray, dgFiltered, dgPushed, dgSaved>>
  BY DEF OnCellValueChanged
<1>5. d \in Dids /\ dgRows[k] \in DgRow /\ dgRows \in Seq(DgRow)
  BY <1>1, RowsOf DEF DgType
<1>6. text \in Seq(Nat)
  <2>1. DidTexts \subseteq Seq(Nat)
    BY DidGridAssumption, Zenon
  <2>2. dgRows[k].text \in Seq(Nat)
    BY <1>1, RowsOf
  <2> QED
    BY <2>1, <2>2
<1> DEFINE row == [dgRows[k] EXCEPT !.text = text]
<1>7. row \in DgRow /\ row.did = d /\ row.text = text
  BY <1>5, <1>6 DEF DgRow
<1>8. dgRows' = [dgRows EXCEPT ![k] = row]
  BY <1>3
<1> HIDE DEF row
<1>9. /\ dgRows' \in Seq(DgRow) /\ DOMAIN dgRows' = DOMAIN dgRows /\ dgRows'[k] = row
      /\ \A n \in DOMAIN dgRows : n # k => dgRows'[n] = dgRows[n]
  BY <1>5, <1>7, <1>8
<1>10. \A n \in DOMAIN dgRows : dgRows'[n].did = dgRows[n].did
  BY <1>7, <1>9
<1>11. DgType'
  BY <1>1, <1>4, <1>9 DEF DgType
<1>12. DgTrue'
  <2> SUFFICES ASSUME NEW n \in DOMAIN dgRows PROVE RowTrue(dgRows[n])'
    BY <1>9 DEF DgTrue
  <2>1. RowTrue(dgRows[n])
    BY <1>1 DEF DgTrue
  <2>2. CASE n = k /\ text # dgRows[k].text
    <3>1. dgRows'[n].did \in dgBehind'
      <4>1. dgBehind' = dgBehind \cup {d} /\ dgRows'[n].did = d
        BY <1>3, <1>10, <2>2, Zenon
      <4> QED
        BY <4>1, Zenon
    <3> QED
      BY <3>1 DEF RowTrue
  <2>3. CASE n # k \/ text = dgRows[k].text
    <3>1. dgRows'[n].did = dgRows[n].did /\ dgRows'[n].text = dgRows[n].text
      BY <1>7, <1>9, <1>10, <2>3
    <3>2. dgBehind \subseteq dgBehind'
      BY <1>3
    <3> QED
      BY <1>4, <2>1, <3>1, <3>2 DEF RowTrue, Unshown
  <2> QED
    BY <2>2, <2>3
<1>13. DgPlaced'
  <2>1. \A n \in DOMAIN dgRows' : dgRowOf'[dgRows'[n].did] = n
    BY <1>1, <1>4, <1>9, <1>10 DEF DgPlaced
  <2>2. ~dgShown' => dgRows' = <<>>
    <3>1. dgShown
      BY <1>1 DEF DgPlaced
    <3> QED
      BY <1>4, <3>1
  <2>3. dgShown' /\ ~dgFiltered' =>
          \A x \in Dids : dgRowOf'[x] \in DOMAIN dgRows' /\ dgRows'[dgRowOf'[x]].did = x
    BY <1>1, <1>4, <1>9, <1>10 DEF DgPlaced
  <2> QED
    BY <1>1, <1>4, <2>1, <2>2, <2>3 DEF DgPlaced
<1>14. DgLengths'
  <2>1. CASE dgDown' \/ DidQueued(d, text) = <<>>
    BY <1>1, <1>3, <2>1 DEF DgLengths
  <2>2. CASE ~(dgDown' \/ DidQueued(d, text) = <<>>)
    <3>1. /\ DidQueued(d, text) \in Seq(Nat)
          /\ Of(d).type = "string" => Len(DidQueued(d, text)) = Of(d).len
      <4>1. ~(Of(d).type = "string" /\ (text = <<>> \/ Of(d).len = 0))
        BY <1>3, <2>2, Zenon
      <4> HIDE DEF d
      <4> QED
        BY <1>5, <1>6, <4>1, QueuedTyped
    <3>2. dgQueued' = [dgQueued EXCEPT ![d] = DidQueued(d, text)]
      BY <1>3, <2>2, Zenon
    <3> DEFINE q == DidQueued(d, text)
    <3> HIDE DEF d, q
    <3>3. dgQueued' = [dgQueued EXCEPT ![d] = q]
      BY <3>2 DEF q
    <3>4. q \in Seq(Nat) /\ (Of(d).type = "string" => Len(q) = Of(d).len)
      BY <3>1 DEF q
    <3>5. dgQueued' \in [Dids -> Seq(Nat)]
      BY <1>1, <1>5, <3>3, <3>4 DEF DgLengths
    <3>6. \A x \in Dids : dgQueued'[x] # <<>> /\ Of(x).type = "string" => Len(dgQueued'[x]) = Of(x).len
      BY <1>1, <1>5, <3>3, <3>4 DEF DgLengths
    <3> QED
      BY <3>5, <3>6 DEF DgLengths
  <2> QED
    BY <2>1, <2>2
<1>15. DgWalking' /\ DgSaved'
  BY <1>1, <1>4 DEF DgWalking, DgSaved
<1> QED
  BY <1>11, <1>12, <1>13, <1>14, <1>15 DEF DgInv

LEMMA DgFile ==
  ASSUME DgInv, SaveCache \/ DidRestart
  PROVE  DgInv'
<1>1. DgType /\ DgPlaced /\ DgTrue /\ DgWalking /\ DgSaved /\ DgLengths
  BY DEF DgInv
<1>2. CASE SaveCache
  <2>1. /\ dgFile' = CacheOf(dgEntry) /\ dgSaved' = <<dgEntry>>
        /\ UNCHANGED <<dgEntry, dgUpdated, dgRows, dgRowOf, dgShown, dgAt, dgWalk, dgWorker, dgQueued,
                       dgWild, dgBehind, dgAstray, dgFiltered, dgPushed>>
    BY <1>2 DEF SaveCache, dgGuiVars
  <2>2. dgFile' \in Seq(DgFileRow)
    BY <1>1, <2>1, CacheTyped DEF DgType
  <2>3. DgType'
    BY <1>1, <2>1, <2>2 DEF DgType
  <2>4. DgTrue'
    BY <1>1, <2>1 DEF DgTrue, RowTrue, Unshown
  <2>5. DgPlaced' /\ DgWalking' /\ DgSaved' /\ DgLengths'
    BY <1>1, <2>1 DEF DgPlaced, DgWalking, DgSaved, DgLengths
  <2> QED
    BY <2>3, <2>4, <2>5 DEF DgInv
<1>3. CASE DidRestart
  <2>1. /\ dgEntry' = Loaded(dgFile) /\ dgUpdated' = NoEntries /\ dgRows' = <<>>
        /\ dgRowOf' = [d \in Dids |-> 1] /\ ~dgShown' /\ dgAt' = "idle"
        /\ dgWalk' = Walk(NoEntries, NewGrid) /\ dgWorker' = <<>>
        /\ dgQueued' = [d \in Dids |-> <<>>] /\ ~dgWild' /\ dgAstray' = {}
        /\ dgSaved' = (IF Readable(dgFile) THEN dgSaved ELSE <<>>) /\ dgFile' = dgFile
    BY <1>3 DEF DidRestart
  <2>2. dgFile \in Seq(DgFileRow) /\ dgEntry \in [Dids -> DgEntry]
    BY <1>1 DEF DgType
  <2>3. dgEntry' \in [Dids -> DgEntry]
    BY <2>1, <2>2, CacheLoaded
  <2>4. dgUpdated' \in VecOf(Dids) /\ dgWalk' \in Walks
    BY <2>1, NewOnes, WalkFrom
  <2>5. dgRows' \in Seq(DgRow) /\ DOMAIN dgRows' = {}
    BY <2>1
  <2>6. DgType'
    BY <2>1, <2>2, <2>3, <2>4, <2>5 DEF DgType
  <2>7. DgPlaced' /\ DgTrue' /\ DgWalking'
    BY <2>1, <2>5 DEF DgPlaced, DgTrue, DgWalking
  <2>8. DgSaved'
    <3> SUFFICES ASSUME dgSaved' # <<>> PROVE dgSaved' = <<dgEntry'>> /\ dgFile' = CacheOf(dgEntry')
      BY DEF DgSaved
    <3>1. Readable(dgFile) /\ dgSaved' = dgSaved /\ dgSaved = <<dgEntry>> /\ dgFile = CacheOf(dgEntry)
      BY <1>1, <2>1 DEF DgSaved
    <3>2. Loaded(CacheOf(dgEntry)) = dgEntry
      BY <2>2, <3>1, CacheLoaded
    <3>3. dgEntry' = dgEntry
      BY <2>1, <3>1, <3>2, Zenon
    <3> QED
      BY <2>1, <3>1, <3>3, Zenon
  <2>9. DgLengths'
    BY <2>1 DEF DgLengths
  <2> QED
    BY <2>6, <2>7, <2>8, <2>9 DEF DgInv
<1> QED
  BY <1>2, <1>3

LEMMA DgKeeps == DgInv /\ [DidGridNext]_dgVars => DgInv'
<1> SUFFICES ASSUME DgInv, [DidGridNext]_dgVars PROVE DgInv'
  OBVIOUS
<1>1. CASE UNCHANGED dgVars
  <2>1. UNCHANGED <<dgEntry, dgUpdated, dgRows, dgRowOf, dgShown, dgAt, dgWalk, dgWorker, dgQueued, dgFile,
                   dgWild, dgBehind, dgAstray, dgFiltered, dgPushed, dgSaved>>
    BY <1>1 DEF dgVars, dgGuiVars, dgHist
  <2>2. DgTrue'
    BY <2>1 DEF DgInv, DgTrue, RowTrue, Unshown
  <2>3. DgType' /\ DgPlaced' /\ DgWalking' /\ DgSaved' /\ DgLengths'
    BY <2>1 DEF DgInv, DgType, DgPlaced, DgWalking, DgSaved, DgLengths
  <2> QED
    BY <2>2, <2>3 DEF DgInv
<1> QED
  BY <1>1, DgAnswers, DgPush, DgSent, DgBegin, DgStep, DgClear, DgFilterSet, DgCells, DgTyped, DgFile
  DEF DidGridNext

LEMMA DgMeans == DgInv => DidRowsRight
<1> SUFFICES ASSUME DgInv PROVE DidRowsRight
  OBVIOUS
<1>1. DgType /\ DgPlaced /\ DgTrue /\ DgWalking /\ DgSaved /\ DgLengths
  BY DEF DgInv
<1>2. ASSUME dgAt = "idle", dgUpdated.items = <<>>, NEW k \in DOMAIN dgRows
      PROVE  LET d == dgRows[k].did
             IN  \/ d \in dgBehind \cup dgAstray \/ dgWorker = <<d>>
                 \/ dgEntry[d].nrc # 0 /\ ~dgEntry[d].stamp
                 \/ dgRows[k].text = TextOf(dgEntry[d])
  <2>1. ~Unshown(dgRows[k].did)
    BY <1>2 DEF Unshown
  <2>2. RowTrue(dgRows[k])
    BY <1>1 DEF DgTrue
  <2> QED
    BY <2>1, <2>2 DEF RowTrue
<1>3. dgSaved # <<>> => dgEntry = dgSaved[1]
  BY <1>1 DEF DgSaved
<1> QED
  BY <1>1, <1>2, <1>3 DEF DidRowsRight, DgPlaced, DgWalking, DgLengths

(* Every row of the DID grid shows its DID or has a cause not to, and a      *)
(* saved cache is read back as it was, whatever the list of DIDs, the files, *)
(* the answers and what the user types.                                      *)
THEOREM DidRowsAreRight == DidGridSpec => []DidRowsRight
BY DgInit, DgKeeps, DgMeans, PTL DEF DidGridSpec

-----------------------------------------------------------------------------
(* The frames to send: what a file gives, and which entries are shown.       *)

OneFrameEach(s) == \A j, k \in 1..Len(s) : s[j].id = s[k].id => j = k
FrameLists == {s \in Seq(Frames) : OneFrameEach(s)}

LEMMA KeepFrameTyped ==
  ASSUME NEW s \in FrameLists, NEW f \in Frames
  PROVE  KeepFrame(s, f) \in FrameLists
<1>1. s \in Seq(Frames) /\ OneFrameEach(s)
  BY DEF FrameLists
<1>2. CASE \E i \in 1..Len(s) : s[i].id = f.id
  BY <1>2 DEF KeepFrame
<1>3. CASE ~(\E i \in 1..Len(s) : s[i].id = f.id)
  <2> DEFINE t == Append(s, f)
  <2>1. /\ t \in Seq(Frames) /\ Len(t) = Len(s) + 1 /\ t[Len(s) + 1] = f
        /\ Len(s) \in Nat /\ \A i \in 1..Len(s) : t[i] = s[i]
    BY <1>1
  <2>2. KeepFrame(s, f) = t
    BY <1>3 DEF KeepFrame
  <2> HIDE DEF t
  <2>3. ASSUME NEW j \in 1..Len(t), NEW k \in 1..Len(t), t[j].id = t[k].id PROVE j = k
    <3>1. (j \in 1..Len(s) \/ j = Len(s) + 1) /\ (k \in 1..Len(s) \/ k = Len(s) + 1)
      BY <2>1
    <3>2. CASE j \in 1..Len(s) /\ k \in 1..Len(s)
      BY <1>1, <2>1, <2>3, <3>2 DEF OneFrameEach
    <3>3. CASE j \in 1..Len(s) /\ k = Len(s) + 1
      BY <1>3, <2>1, <2>3, <3>3, Zenon
    <3>4. CASE j = Len(s) + 1 /\ k \in 1..Len(s)
      BY <1>3, <2>1, <2>3, <3>4, Zenon
    <3> QED
      BY <3>1, <3>2, <3>3, <3>4
  <2> QED
    BY <2>1, <2>2, <2>3 DEF FrameLists, OneFrameEach
<1> QED
  BY <1>2, <1>3

IsKeepFirst(f, s) == f = [n \in 0..Len(s) |-> IF n = 0 THEN <<>> ELSE KeepFrame(f[n - 1], s[n])]
KeepsOf(s) == CHOOSE f : IsKeepFirst(f, s)

(* What is loaded has no id twice. *)
LEMMA KeepFirstTyped ==
  ASSUME NEW s \in Seq(Frames)
  PROVE  KeepFirst(s) \in FrameLists
<1> DEFINE m == Len(s)
           F == [n \in 1..m |-> [t \in FrameLists |-> KeepFrame(t, s[n])]]
           g == KeepsOf(s)
<1>1. m \in Nat /\ \A n \in 1..m : s[n] \in Frames
  OBVIOUS
<1>2. <<>> \in FrameLists
  BY DEF FrameLists, OneFrameEach
<1>3. F \in [1..m -> [FrameLists -> FrameLists]]
  BY <1>1, KeepFrameTyped
<1> HIDE DEF F
<1>4. PICK f \in [0..m -> FrameLists] : f[0] = <<>> /\ \A n \in 1..m : f[n] = F[n][f[n - 1]]
  <2> DEFINE Rec(B, b, k) == \A H \in [1..k -> [B -> B]] :
          \E h \in [0..k -> B] : h[0] = b /\ \A n \in 1..k : h[n] = H[n][h[n - 1]]
  <2>0. \A B : \A b \in B : \A k \in Nat : Rec(B, b, k)
    BY RecAll
  <2> HIDE DEF Rec
  <2>1. Rec(FrameLists, <<>>, m)
    BY <1>1, <1>2, <2>0, Zenon
  <2> HIDE DEF m
  <2>2. \E h \in [0..m -> FrameLists] : h[0] = <<>> /\ \A n \in 1..m : h[n] = F[n][h[n - 1]]
    BY <1>3, <2>1, ZenonT(60) DEF Rec
  <2> QED
    BY <2>2, Zenon
<1>5. \A n \in 1..m : n - 1 \in 0..m /\ f[n] = KeepFrame(f[n - 1], s[n])
  <2> SUFFICES ASSUME NEW n \in 1..m PROVE n - 1 \in 0..m /\ f[n] = KeepFrame(f[n - 1], s[n])
    OBVIOUS
  <2>1. n - 1 \in 0..m
    BY <1>1
  <2>2. f[n - 1] \in FrameLists
    BY <2>1
  <2>3. F[n] = [t \in FrameLists |-> KeepFrame(t, s[n])]
    BY Zenon DEF F
  <2>4. F[n][f[n - 1]] = KeepFrame(f[n - 1], s[n])
    BY <2>2, <2>3, Zenon
  <2> QED
    BY <1>4, <2>1, <2>4, Zenon
<1>6. IsKeepFirst(f, s)
  <2>1. \A n \in 0..m : f[n] = IF n = 0 THEN <<>> ELSE KeepFrame(f[n - 1], s[n])
    BY <1>4, <1>5
  <2> QED
    BY <1>4, <2>1 DEF IsKeepFirst
<1>7. IsKeepFirst(g, s)
  BY <1>6, Zenon DEF KeepsOf
<1>8. KeepFirst(s) = g[m]
  BY Zenon DEF KeepFirst, KeepsOf, IsKeepFirst
<1> HIDE DEF g
<1>9. \A n \in 0..m : g[n] = IF n = 0 THEN <<>> ELSE KeepFrame(g[n - 1], s[n])
  BY <1>7, Zenon DEF IsKeepFirst
<1> DEFINE G == {n \in Nat : n <= m => g[n] \in FrameLists}
<1>10. 0 \in G
  BY <1>1, <1>2, <1>9
<1>11. ASSUME NEW n \in Nat, n \in G PROVE n + 1 \in G
  <2> SUFFICES ASSUME n + 1 <= m PROVE g[n + 1] \in FrameLists
    OBVIOUS
  <2>1. g[n] \in FrameLists /\ n + 1 \in 0..m /\ n + 1 # 0 /\ (n + 1) - 1 = n /\ s[n + 1] \in Frames
    BY <1>1, <1>11
  <2>2. g[n + 1] = KeepFrame(g[n], s[n + 1])
    BY <1>9, <2>1
  <2> QED
    BY <2>1, <2>2, KeepFrameTyped
<1> HIDE DEF G
<1>12. \A n \in Nat : n \in G
  BY <1>10, <1>11, SetInduction
<1> QED
  BY <1>1, <1>8, <1>12 DEF G

LEMMA FileTyped ==
  ASSUME NEW file \in Files
  PROVE  KeepFirst(file) \in FrameLists
<1>1. PICK n \in 0..2 : file \in [1..n -> Frames]
  BY DEF Files
<1>2. file \in Seq(Frames)
  BY <1>1
<1> QED
  BY <1>2, KeepFirstTyped

-----------------------------------------------------------------------------
(* The invariant: the list has each entry once, and what a one-shot click    *)
(* is owed is not what the worker is about to reset.                         *)
TlType ==
  /\ clAttr \in Seq(Frames) /\ clList \in Seq(1..Len(clAttr)) /\ Distinct(clList)
  /\ clStale \in BOOLEAN
TlInv ==
  /\ TlType
  /\ RowsAreEntries
  /\ OneEntryPerId
  /\ OneShotKept
  /\ clWorker # 0 => clWorker \notin clOwed

LEMMA ListedIs == Listed = Elements(clList)
BY DEF Listed, ToSet, Elements

LEMMA TlInit == TxListInit => TlInv
<1> SUFFICES ASSUME TxListInit PROVE TlInv
  OBVIOUS
<1>1. /\ clAttr \in FrameLists
      /\ clList = [i \in 1..Len(clAttr) |-> i]
      /\ clGrid = clList /\ clStale = FALSE /\ clWorker = 0
      /\ clSingle = {} /\ clCopied = FALSE /\ clOwed = {}
  BY FileTyped DEF TxListInit
<1>2. clAttr \in Seq(Frames) /\ OneFrameEach(clAttr) /\ Len(clAttr) \in Nat
  BY <1>1 DEF FrameLists
<1>3. clList \in Seq(1..Len(clAttr)) /\ Len(clList) = Len(clAttr) /\ \A i \in 1..Len(clAttr) : clList[i] = i
  BY <1>1, <1>2
<1>4. Distinct(clList)
  BY <1>2, <1>3 DEF Distinct
<1>5. Listed = 1..Len(clAttr)
  BY <1>2, <1>3 DEF Listed, ToSet
<1>6. RowsAreEntries
  <2>1. Within(clList, Listed) = clList
    BY <1>3, <1>5, WithinAll
  <2> QED
    BY <1>1, <2>1, Zenon DEF RowsAreEntries
<1>7. OneEntryPerId
  BY <1>2, <1>5 DEF OneEntryPerId, Id, OneFrameEach
<1> QED
  BY <1>1, <1>2, <1>3, <1>4, <1>6, <1>7 DEF TlInv, TlType, OneShotKept
LEMMA SeqWider ==
  ASSUME NEW S, NEW T, S \subseteq T, NEW s \in Seq(S)
  PROVE  s \in Seq(T)
OBVIOUS

(* Concatenation and Append, element by element. *)
IsJoin(c, a, b, S) ==
  /\ c \in Seq(S) /\ Len(c) = Len(a) + Len(b)
  /\ \A k \in 1..(Len(a) + Len(b)) : c[k] = IF k <= Len(a) THEN a[k] ELSE b[k - Len(a)]
IsAppend(c, a, e, S) ==
  /\ c \in Seq(S) /\ Len(c) = Len(a) + 1
  /\ \A k \in 1..(Len(a) + 1) : c[k] = IF k <= Len(a) THEN a[k] ELSE e

LEMMA JoinIs ==
  ASSUME NEW S, NEW a \in Seq(S), NEW b \in Seq(S)
  PROVE  IsJoin(a \o b, a, b, S)
BY DEF IsJoin

LEMMA AppendIs ==
  ASSUME NEW S, NEW a \in Seq(S), NEW e \in S
  PROVE  IsAppend(Append(a, e), a, e, S)
BY DEF IsAppend

(* What a rearrangement of the list leaves: the same entries, each once.     *)
Rearranges(t, s, m) ==
  /\ m \in [1..Len(s) -> 1..Len(s)]
  /\ \A j, k \in 1..Len(s) : m[j] = m[k] => j = k
  /\ t = [k \in 1..Len(s) |-> s[m[k]]]
Keeps(t, s, S) == t \in Seq(S) /\ Distinct(t) /\ Elements(t) \subseteq Elements(s)

LEMMA Rearranged ==
  ASSUME NEW S, NEW s \in Seq(S), Distinct(s), NEW m, NEW t, Rearranges(t, s, m)
  PROVE  Keeps(t, s, S)
<1>1. Len(s) \in Nat /\ DOMAIN s = 1..Len(s) /\ \A k \in 1..Len(s) : s[k] \in S
  OBVIOUS
<1>2. DOMAIN t = 1..Len(s) /\ \A k \in 1..Len(s) : t[k] = s[m[k]] /\ m[k] \in 1..Len(s)
  BY DEF Rearranges
<1>3. t = [k \in 1..Len(s) |-> s[m[k]]]
  BY DEF Rearranges
<1>4. t \in Seq(S)
  <2> DEFINE k == Len(s)
  <2>1. t \in [1..k -> S] /\ k \in Nat
    BY <1>1, <1>2, <1>3
  <2> HIDE DEF k
  <2> QED
    BY <2>1
<1>5. Distinct(t)
  BY <1>1, <1>2 DEF Distinct, Rearranges
<1>6. Elements(t) \subseteq Elements(s)
  BY <1>1, <1>2 DEF Elements
<1> QED
  BY <1>4, <1>5, <1>6 DEF Keeps

(* An entry that is new stands behind the others. *)
LEMMA Behind ==
  ASSUME NEW n \in Nat, NEW s \in Seq(1..n), NEW S \in SUBSET Elements(s)
  PROVE  /\ Append(s, n + 1) \in Seq(1..(n + 1))
         /\ Distinct(s) => Distinct(Append(s, n + 1))
         /\ Elements(Append(s, n + 1)) = Elements(s) \cup {n + 1} /\ n + 1 \notin Elements(s)
         /\ Within(Append(s, n + 1), S \cup {n + 1}) = Append(Within(s, S), n + 1)
<1>1. s \in Seq(1..(n + 1)) /\ n + 1 \in 1..(n + 1)
  BY SeqWider
<1>2. Elements(s) \subseteq 1..n /\ n + 1 \notin Elements(s)
  BY DEF Elements
<1>3. Append(s, n + 1) \in Seq(1..(n + 1))
  BY <1>1
<1>4. Elements(Append(s, n + 1)) = Elements(s) \cup {n + 1}
  BY <1>1, ElementsAppend
<1>5. Distinct(s) => Distinct(Append(s, n + 1))
  BY <1>1, <1>2, DistinctAppend
<1>6. Within(s, S) = Within(s, S \cup {n + 1})
  <2>1. \A k \in 1..Len(s) : s[k] \in S <=> s[k] \in S \cup {n + 1}
    BY <1>2 DEF Elements
  <2> QED
    BY <2>1, WithinAgree
<1>7. Within(Append(s, n + 1), S \cup {n + 1}) = Append(Within(s, S \cup {n + 1}), n + 1)
  <2>1. n + 1 \in S \cup {n + 1}
    OBVIOUS
  <2> DEFINE U == S \cup {n + 1}
           e == n + 1
           T == 1..(n + 1)
  <2>2. e \in U /\ s \in Seq(T) /\ e \in T
    BY <1>1, <2>1
  <2> HIDE DEF U, e, T
  <2>3. Within(Append(s, e), U) = Append(Within(s, U), e)
    BY <2>2, WithinAppend
  <2> QED
    BY <2>3 DEF U, e
<1> QED
  BY <1>2, <1>3, <1>4, <1>5, <1>6, <1>7

LEMMA Rotated ==
  ASSUME NEW n \in Nat, NEW s \in Seq(1..n), Distinct(s), Len(s) >= 1
  PROVE  Keeps(Append(Tail(s), Head(s)), s, 1..n) /\ Keeps(<<Last(s)>> \o Front(s), s, 1..n)
<1> DEFINE m == Len(s)
           up == [k \in 1..m |-> IF k < m THEN k + 1 ELSE 1]
           down == [k \in 1..m |-> IF k > 1 THEN k - 1 ELSE m]
           tu == [k \in 1..m |-> s[up[k]]]
           td == [k \in 1..m |-> s[down[k]]]
           a == Append(Tail(s), Head(s))
           b == <<Last(s)>> \o Front(s)
<1>1. m \in Nat /\ m >= 1 /\ DOMAIN s = 1..m
  OBVIOUS
<1>2. /\ up \in [1..m -> 1..m] /\ down \in [1..m -> 1..m]
      /\ \A j, k \in 1..m : up[j] = up[k] => j = k
      /\ \A j, k \in 1..m : down[j] = down[k] => j = k
  BY <1>1
<1>3. a = tu
  <2> DEFINE r == Tail(s)
           S == 1..n
  <2>0. /\ r \in Seq(S) /\ Len(r) = m - 1 /\ \A k \in 1..(m - 1) : r[k] = s[k + 1]
        /\ Head(s) = s[1] /\ s[1] \in S
    BY <1>1
  <2>1. /\ a \in Seq(S) /\ Len(a) = m /\ \A k \in 1..m : a[k] = IF k < m THEN s[k + 1] ELSE s[1]
    <3> HIDE DEF r, S
    <3>1. a = Append(r, s[1])
      BY <2>0 DEF r
    <3> HIDE DEF a
    <3>2. IsAppend(a, r, s[1], S)
      BY <2>0, <3>1, AppendIs, Zenon
    <3>3. Len(r) = m - 1 /\ \A k \in 1..(m - 1) : r[k] = s[k + 1]
      BY <2>0
    <3> QED
      BY <1>1, <3>2, <3>3 DEF IsAppend
  <2>2. a = [k \in 1..m |-> a[k]]
    <3> HIDE DEF a, S
    <3> QED
      BY <2>1
  <2>3. \A k \in 1..m : a[k] = s[up[k]]
    BY <2>1
  <2> HIDE DEF a, up
  <2> QED
    BY <2>2, <2>3
<1>4. b = td
  <2>1. Front(s) = SubSeq(s, 1, m - 1) /\ Last(s) = s[m]
    BY DEF Front, Last
  <2>2. /\ b \in Seq(1..n) /\ Len(b) = m /\ \A k \in 1..m : b[k] = IF k > 1 THEN s[k - 1] ELSE s[m]
    <3> DEFINE r == SubSeq(s, 1, m - 1)
               q == <<s[m]>>
               S == 1..n
    <3>1. s[m] \in S
      BY <1>1
    <3>2. /\ r \in Seq(S) /\ Len(r) = m - 1 /\ \A k \in 1..(m - 1) : r[k] = s[k]
          /\ q \in Seq(S) /\ Len(q) = 1 /\ q[1] = s[m]
      BY <1>1, <3>1
    <3>3. b = q \o r
      BY <2>1
    <3> HIDE DEF b, r, q, S
    <3>4. IsJoin(b, q, r, S)
      BY <3>2, <3>3, JoinIs, Zenon
    <3>5. b \in Seq(S) /\ Len(b) = m
      <4> HIDE DEF m
      <4>1. b \in Seq(S) /\ Len(b) = Len(q) + Len(r)
        BY <3>4, Zenon DEF IsJoin
      <4>2. Len(q) = 1 /\ Len(r) = m - 1
        BY <3>2, Zenon
      <4> QED
        BY <1>1, <4>1, <4>2
    <3>6. ASSUME NEW k \in 1..m PROVE b[k] = IF k > 1 THEN s[k - 1] ELSE s[m]
      BY <1>1, <3>2, <3>4 DEF IsJoin
    <3> QED
      BY <3>5, <3>6, Zenon DEF S
  <2>3. b = [k \in 1..m |-> b[k]]
    BY <2>2
  <2>4. \A k \in 1..m : b[k] = s[down[k]]
    BY <2>2
  <2> HIDE DEF b, down
  <2> QED
    BY <2>3, <2>4
<1>5. Keeps(tu, s, 1..n)
  <2>1. Rearranges(tu, s, up)
    BY <1>2, Zenon DEF Rearranges
  <2> QED
    BY <2>1, Rearranged, Zenon
<1>6. Keeps(td, s, 1..n)
  <2>1. Rearranges(td, s, down)
    BY <1>2, Zenon DEF Rearranges
  <2> QED
    BY <2>1, Rearranged, Zenon
<1> HIDE DEF tu, td
<1> QED
  BY <1>3, <1>4, <1>5, <1>6

LEMMA Swapped ==
  ASSUME NEW n \in Nat, NEW s \in Seq(1..n), Distinct(s), NEW i \in 1..Len(s), NEW j \in 1..Len(s)
  PROVE  Keeps(Swap(s, i, j), s, 1..n)
<1> DEFINE m == Len(s)
           w == [k \in 1..m |-> IF k = j THEN i ELSE IF k = i THEN j ELSE k]
           t == [k \in 1..m |-> s[w[k]]]
<1>1. m \in Nat /\ DOMAIN s = 1..m /\ s = [k \in 1..m |-> s[k]]
  OBVIOUS
<1>2. w \in [1..m -> 1..m] /\ \A k, l \in 1..m : w[k] = w[l] => k = l
  OBVIOUS
<1>3. Swap(s, i, j) = t
  <2>1. Swap(s, i, j) = [k \in 1..m |-> IF k = j THEN s[i] ELSE IF k = i THEN s[j] ELSE s[k]]
    BY <1>1 DEF Swap
  <2>2. \A k \in 1..m : s[w[k]] = IF k = j THEN s[i] ELSE IF k = i THEN s[j] ELSE s[k]
    OBVIOUS
  <2> HIDE DEF w
  <2> QED
    BY <2>1, <2>2
<1>4. Rearranges(t, s, w)
  BY <1>2, Zenon DEF Rearranges
<1> HIDE DEF t
<1> QED
  BY <1>3, <1>4, Rearranged, Zenon

LEMMA Inserted ==
  ASSUME NEW n \in Nat, NEW s \in Seq(1..n), Distinct(s), NEW k \in 1..(Len(s) + 1)
  PROVE  /\ InsertAt(s, k, n + 1) \in Seq(1..(n + 1)) /\ Distinct(InsertAt(s, k, n + 1))
         /\ Elements(InsertAt(s, k, n + 1)) \subseteq Elements(s) \cup {n + 1}
<1> DEFINE a == Append(s, n + 1)
           m == Len(s) + 1
           w == [l \in 1..m |-> IF l < k THEN l ELSE IF l = k THEN m ELSE l - 1]
           t == [l \in 1..m |-> a[w[l]]]
           u == InsertAt(s, k, n + 1)
<1>1. {} \in SUBSET Elements(s)
  OBVIOUS
<1>2. a \in Seq(1..(n + 1)) /\ Distinct(a) /\ Elements(a) = Elements(s) \cup {n + 1}
  BY <1>1, Behind
<1>3. /\ Len(s) \in Nat /\ Len(a) = m /\ DOMAIN a = 1..m /\ a[m] = n + 1
      /\ \A l \in 1..Len(s) : a[l] = s[l] /\ s[l] \in 1..(n + 1)
  OBVIOUS
<1>4. w \in [1..m -> 1..m] /\ \A l, p \in 1..m : w[l] = w[p] => l = p
  BY <1>3
<1>5. u = t
  <2> DEFINE p == SubSeq(s, 1, k - 1)
             q == SubSeq(s, k, Len(s))
             N == 1..(n + 1)
             e == n + 1
  <2>1. /\ p \in Seq(N) /\ Len(p) = k - 1 /\ \A l \in 1..(k - 1) : p[l] = s[l]
        /\ q \in Seq(N) /\ Len(q) = Len(s) - k + 1 /\ \A l \in 1..(Len(s) - k + 1) : q[l] = s[k + l - 1]
        /\ e \in N
    BY <1>3
  <2>2. u = p \o <<e>> \o q
    BY DEF InsertAt
  <2> HIDE DEF p, q, N, e, u
  <2>3. /\ u \in Seq(N) /\ Len(u) = m
        /\ \A l \in 1..m : u[l] = IF l < k THEN p[l] ELSE IF l = k THEN e ELSE q[l - k]
    <3> DEFINE v == p \o <<e>>
    <3>1. v \in Seq(N) /\ Len(v) = k /\ \A l \in 1..k : v[l] = IF l < k THEN p[l] ELSE e
      BY <2>1
    <3>2. u = v \o q
      BY <2>2
    <3> HIDE DEF v
    <3>3. u \in Seq(N) /\ Len(u) = m /\ \A l \in 1..m : u[l] = IF l <= k THEN v[l] ELSE q[l - k]
      <4>0. IsJoin(u, v, q, N)
        BY <2>1, <3>1, <3>2, JoinIs, Zenon
      <4>1. u \in Seq(N) /\ Len(u) = Len(v) + Len(q)
        BY <4>0, Zenon DEF IsJoin
      <4>2. \A l \in 1..(Len(v) + Len(q)) : u[l] = IF l <= Len(v) THEN v[l] ELSE q[l - Len(v)]
        BY <4>0, Zenon DEF IsJoin
      <4>3. Len(v) = k /\ Len(v) + Len(q) = m
        BY <1>3, <2>1, <3>1
      <4> HIDE DEF m
      <4> QED
        BY <4>1, <4>2, <4>3
    <3> QED
      BY <1>3, <3>1, <3>3
  <2>4. \A l \in 1..m : u[l] = a[w[l]]
    <3> TAKE l \in 1..m
    <3>1. CASE l < k
      BY <1>3, <2>1, <2>3, <3>1
    <3>2. CASE l = k
      <4>1. u[l] = e /\ w[l] = m
        BY <2>3, <3>2
      <4> QED
        BY <1>3, <4>1 DEF e
    <3>3. CASE l > k
      <4>1. u[l] = q[l - k] /\ w[l] = l - 1 /\ l - k \in 1..(Len(s) - k + 1) /\ l - 1 \in 1..Len(s) /\ k + (l - k) - 1 = l - 1
        BY <1>3, <2>3, <3>3
      <4>2. q[l - k] = s[l - 1] /\ a[l - 1] = s[l - 1]
        BY <1>3, <2>1, <4>1
      <4> QED
        BY <4>1, <4>2
    <3> QED
      BY <1>3, <3>1, <3>2, <3>3
  <2>5. u = [l \in 1..m |-> u[l]]
    BY <2>3
  <2> HIDE DEF w, a
  <2> QED
    BY <2>4, <2>5
<1>6. Keeps(t, a, 1..(n + 1))
  <2>1. Rearranges(t, a, w)
    BY <1>3, <1>4, Zenon DEF Rearranges
  <2> HIDE DEF t, a, w
  <2> QED
    BY <1>2, <2>1, Rearranged, Zenon
<1> HIDE DEF t, u, a
<1> QED
  BY <1>2, <1>5, <1>6 DEF Keeps, u
-----------------------------------------------------------------------------
(* A row shows an entry of the list, and the list has what is shown.         *)

LEMMA RowListed ==
  ASSUME TlInv, ~clStale, NEW row \in 1..Len(clGrid)
  PROVE  /\ clGrid[row] \in Listed /\ clGrid[row] \in 1..Len(clAttr)
         /\ Len(clGrid) <= Len(clList) /\ Len(clGrid) \in Nat
         /\ clGrid \in Seq(1..Len(clAttr))
<1>1. PICK S \in SUBSET Listed : clGrid = Within(clList, S)
  BY DEF TlInv, RowsAreEntries
<1> DEFINE T == 1..Len(clAttr)
<1>2. clList \in Seq(T) /\ Len(clAttr) \in Nat
  BY DEF TlInv, TlType
<1>3. clGrid \in Seq(T \cap S) /\ Len(clGrid) <= Len(clList)
  <2> HIDE DEF T
  <2> QED
    BY <1>1, <1>2, WithinTyped
<1>4. clGrid[row] \in T \cap S /\ Len(clGrid) \in Nat
  BY <1>3, ElementOfSeq
<1>5. clGrid \in Seq(T)
  <2> HIDE DEF T
  <2>1. T \cap S \subseteq T
    OBVIOUS
  <2> QED
    BY <1>3, <2>1, SeqWider
<1> QED
  BY <1>1, <1>3, <1>4, <1>5

LEMMA FirstIs ==
  ASSUME TlInv, ~clStale, NEW row \in 1..Len(clGrid)
  PROVE  FirstOf(row) \in 1..Len(clList)
<1> DEFINE D == {k \in 1..Len(clList) : Id(clList[k]) = Id(clGrid[row])}
<1>1. Len(clList) \in Nat /\ DOMAIN clList = 1..Len(clList)
  BY DEF TlInv, TlType
<1>2. D # {} /\ D \subseteq Nat
  <2>1. clGrid[row] \in Listed
    BY RowListed
  <2>2. PICK k \in 1..Len(clList) : clList[k] = clGrid[row]
    BY <1>1, <2>1 DEF Listed, ToSet
  <2> QED
    BY <1>1, <2>2
<1>3. PICK d \in D : \A e \in D : d <= e
  BY <1>2, LeastOf
<1>4. d \in 1..Len(clList) /\ Id(clList[d]) = Id(clGrid[row])
  OBVIOUS
<1>5. \A j \in 1..(d - 1) : Id(clList[j]) # Id(clGrid[row])
  <2> TAKE j \in 1..(d - 1)
  <2>1. j \in 1..Len(clList) /\ ~(d <= j)
    BY <1>1, <1>4
  <2> QED
    BY <1>3, <2>1
<1> HIDE DEF D
<1> QED
  BY <1>4, <1>5, Zenon DEF FirstOf

(* Some id is free: the one after the largest at least.                      *)
LEMMA FreeIs ==
  ASSUME TlInv
  PROVE  FreeId \in Nat \ {0} /\ ~Taken(FreeId)
<1> DEFINE D == {i \in Nat : i \in 1..(MaxFrameId + 1) /\ ~Taken(i)}
<1>1. MaxFrameId + 1 \in D
  <2>1. \A o \in Listed : Id(o) \in 1..MaxFrameId
    <3> TAKE o \in Listed
    <3>1. o \in 1..Len(clAttr)
      BY DEF TlInv, TlType, Listed, ToSet
    <3>2. clAttr[o] \in Frames
      BY <3>1, ElementOfSeq DEF TlInv, TlType
    <3> QED
      BY <3>2 DEF Frames, Id
  <2> QED
    BY <2>1, TxListAssumption DEF Taken
<1>2. PICK d \in D : \A e \in D : d <= e
  BY <1>1, LeastOf
<1>3. d \in 1..(MaxFrameId + 1) /\ ~Taken(d)
  OBVIOUS
<1>4. \A i \in 1..(d - 1) : Taken(i)
  <2> TAKE i \in 1..(d - 1)
  <2>1. i \in 1..(MaxFrameId + 1) /\ i \in Nat /\ ~(d <= i)
    BY <1>3, TxListAssumption
  <2>2. i \notin D
    BY <1>2, <2>1
  <2> QED
    BY <2>1, <2>2
<1> HIDE DEF D
<1>5. FreeId \in 1..(MaxFrameId + 1) /\ ~Taken(FreeId)
  BY <1>3, <1>4, Zenon DEF FreeId
<1> QED
  BY <1>5, TxListAssumption

-----------------------------------------------------------------------------
(* The actions. *)

LEMMA TlFlags ==
  ASSUME TlInv,
         \/ \E o \in Listed : OneShot(o) \/ CancelOneShot(o) \/ QueueOneShot(o)
         \/ ResetOneShot
  PROVE  TlInv'
<1>1. /\ UNCHANGED <<clList, clAttr, clGrid, clStale, clCopied>>
      /\ OneShotKept' /\ (clWorker # 0 => clWorker \notin clOwed)'
  <2>1. CASE \E o \in Listed : OneShot(o)
    BY <2>1 DEF OneShot, TlInv, OneShotKept, clRest
  <2>2. CASE \E o \in Listed : CancelOneShot(o)
    BY <2>2 DEF CancelOneShot, TlInv, OneShotKept, clRest
  <2>3. CASE \E o \in Listed : QueueOneShot(o)
    BY <2>3 DEF QueueOneShot, TlInv, OneShotKept, clRest
  <2>4. CASE ResetOneShot
    BY <2>4 DEF ResetOneShot, TlInv, OneShotKept, clRest, Locked
  <2> QED
    BY <2>1, <2>2, <2>3, <2>4
<1>2. TlType' /\ RowsAreEntries' /\ OneEntryPerId'
  BY <1>1 DEF TlInv, TlType, RowsAreEntries, OneEntryPerId, Listed, Id
<1> QED
  BY <1>1, <1>2 DEF TlInv

(* What is shown at a level. *)
LEMMA ShownListed ==
  ASSUME TlInv, NEW level
  PROVE  \E S \in SUBSET Listed : Shown(clList, clAttr, level) = Within(clList, S)
<1> DEFINE W == {o \in 1..Len(clAttr) : level <= clAttr[o].fav}
<1>1. \A k \in 1..Len(clList) : clList[k] \in W <=> clList[k] \in W \cap Listed
  BY DEF TlInv, TlType, Listed, ToSet
<1>2. Within(clList, W) = Within(clList, W \cap Listed)
  <2>1. clList \in Seq(1..Len(clAttr))
    BY DEF TlInv, TlType
  <2> HIDE DEF W
  <2> QED
    BY <1>1, <2>1, WithinAgree
<1>3. Shown(clList, clAttr, level) = Within(clList, W)
  BY Zenon DEF Shown
<1>4. W \cap Listed \in SUBSET Listed
  OBVIOUS
<1> HIDE DEF W
<1> QED
  BY <1>2, <1>3, <1>4

LEMMA TlRefresh ==
  ASSUME TlInv, RefreshTx \/ \E level \in {0, 1} : ChangeLevel(level)
  PROVE  TlInv'
<1>1. /\ UNCHANGED <<clList, clAttr, clSingle, clWorker, clCopied, clOwed>>
      /\ clStale' = FALSE
      /\ \E level : clGrid' = Shown(clList, clAttr, level)
  BY DEF RefreshTx, ChangeLevel, GuiFree, clRest, TlInv, TlType
<1>2. \E S \in SUBSET Listed : clGrid' = Within(clList, S)
  BY <1>1, ShownListed
<1>3. Listed' = Listed
  BY <1>1 DEF Listed
<1>4. RowsAreEntries'
  BY <1>1, <1>2, <1>3 DEF RowsAreEntries
<1> QED
  BY <1>1, <1>3, <1>4 DEF TlInv, TlType, OneEntryPerId, OneShotKept, Id

(* Ids of a list that keeps its entries.                                     *)
LEMMA TlMove ==
  ASSUME TlInv, NEW row \in 1..Len(clGrid), MoveUp(row) \/ MoveDown(row)
  PROVE  TlInv'
<1> DEFINE T == 1..Len(clAttr)
<1>1. /\ UNCHANGED <<clAttr, clSingle, clWorker, clOwed, clCopied>> /\ clStale' = TRUE /\ ~clStale
  BY DEF MoveUp, MoveDown, GuiFree, clRest
<1>2. clList \in Seq(T) /\ Distinct(clList) /\ Len(clAttr) \in Nat
  BY DEF TlInv, TlType
<1>3. Len(clList) >= 1
  BY <1>1, <1>2, RowListed
<1>4. Keeps(clList', clList, T)
  <2>1. CASE clList' = Append(Tail(clList), Head(clList)) \/ clList' = <<Last(clList)>> \o Front(clList)
    BY <1>2, <1>3, <2>1, Rotated
  <2>2. CASE row > 1 /\ clList' = Swap(clList, FirstOf(row), FirstOf(row - 1))
    <3>1. row - 1 \in 1..Len(clGrid)
      BY <2>2
    <3>2. FirstOf(row) \in 1..Len(clList) /\ FirstOf(row - 1) \in 1..Len(clList)
      BY <1>1, <3>1, FirstIs
    <3> QED
      BY <1>2, <2>2, <3>2, Swapped
  <2>3. CASE row < Len(clGrid) /\ clList' = Swap(clList, FirstOf(row), FirstOf(row + 1))
    <3>0. Len(clGrid) \in Nat
      BY <1>1, RowListed
    <3>1. row + 1 \in 1..Len(clGrid)
      BY <2>3, <3>0
    <3>2. FirstOf(row) \in 1..Len(clList) /\ FirstOf(row + 1) \in 1..Len(clList)
      BY <1>1, <3>1, FirstIs
    <3> QED
      BY <1>2, <2>3, <3>2, Swapped
  <2> QED
    BY <2>1, <2>2, <2>3 DEF MoveUp, MoveDown
<1>5. TlType'
  BY <1>1, <1>2, <1>4 DEF Keeps, TlType, TlInv
<1>6. Listed' \subseteq Listed
  BY <1>4 DEF Keeps, Elements, Listed, ToSet
<1>7. OneEntryPerId'
  BY <1>1, <1>6 DEF OneEntryPerId, Id, TlInv
<1> QED
  BY <1>1, <1>5, <1>7 DEF TlInv, RowsAreEntries, OneShotKept

LEMMA TlDelete ==
  ASSUME TlInv, NEW rows, Delete(rows)
  PROVE  TlInv'
<1> DEFINE T == 1..Len(clAttr)
           left == Listed \ Doomed(rows)
<1>1. /\ UNCHANGED <<clAttr, clGrid, clWorker, clCopied>> /\ clStale' = TRUE /\ clWorker = 0
      /\ clList' = Within(clList, left)
      /\ clSingle' = clSingle \ Doomed(rows) /\ clOwed' = clOwed \ Doomed(rows)
  BY DEF Delete, clRest, Locked
<1>2. clList \in Seq(T) /\ Distinct(clList) /\ Len(clAttr) \in Nat
  BY DEF TlInv, TlType
<1> HIDE DEF T, left
<1>3. clList' \in Seq(T \cap left)
  BY <1>1, <1>2, WithinTyped
<1>4. clList' \in Seq(T)
  <2>1. T \cap left \subseteq T
    OBVIOUS
  <2> QED
    BY <1>3, <2>1, SeqWider
<1>5. Distinct(clList')
  BY <1>1, <1>2, WithinDistinct
<1>6. TlType'
  BY <1>1, <1>4, <1>5 DEF TlType, T, TlInv
<1>7. Listed' \subseteq Listed
  <2>1. Elements(clList') = Elements(clList) \cap left
    BY <1>1, <1>2, WithinElements
  <2> QED
    BY <2>1 DEF Elements, Listed, ToSet
<1>8. OneEntryPerId'
  BY <1>1, <1>7 DEF OneEntryPerId, Id, TlInv
<1> QED
  BY <1>1, <1>6, <1>8 DEF TlInv, RowsAreEntries, OneShotKept

(* A new entry is at the end of the entries constructed. *)
LEMMA NewEntry ==
  ASSUME TlInv, NEW f \in Frames, clAttr' = Append(clAttr, f)
  PROVE  /\ clAttr' \in Seq(Frames) /\ Len(clAttr') = Len(clAttr) + 1 /\ Len(clAttr) \in Nat
         /\ New(1) = Len(clAttr) + 1 /\ New(1) \notin Listed /\ clAttr'[New(1)] = f
         /\ \A o \in Listed : clAttr'[o] = clAttr[o]
<1>1. clAttr \in Seq(Frames) /\ clList \in Seq(1..Len(clAttr))
  BY DEF TlInv, TlType
<1>2. Len(clAttr) \in Nat /\ New(1) = Len(clAttr) + 1
  BY <1>1 DEF New
<1>3. IsAppend(clAttr', clAttr, f, Frames)
  BY <1>1, AppendIs
<1>4. \A o \in Listed : o \in 1..Len(clAttr)
  BY <1>1 DEF Listed, ToSet
<1> QED
  BY <1>2, <1>3, <1>4 DEF IsAppend

LEMMA TlAdd ==
  ASSUME TlInv, NEW row \in 1..Len(clGrid), Add(row)
  PROVE  TlInv'
<1> DEFINE f == [id |-> FreeId, fav |-> 0]
<1>1. /\ clAttr' = Append(clAttr, f) /\ clList' = InsertAt(clList, row + 1, New(1)) /\ clStale' = TRUE
      /\ UNCHANGED <<clSingle, clWorker, clOwed, clCopied>> /\ ~clStale /\ FreeId <= MaxFrameId
  BY DEF Add, GuiFree, clRest
<1>2. FreeId \in Nat \ {0} /\ ~Taken(FreeId) /\ f \in Frames
  BY <1>1, FreeIs, TxListAssumption DEF Frames
<1> HIDE DEF f
<1>3. /\ clAttr' \in Seq(Frames) /\ Len(clAttr') = Len(clAttr) + 1 /\ Len(clAttr) \in Nat
      /\ New(1) = Len(clAttr) + 1 /\ New(1) \notin Listed /\ clAttr'[New(1)] = f
      /\ \A o \in Listed : clAttr'[o] = clAttr[o]
  BY <1>1, <1>2, NewEntry
<1>4. row + 1 \in 1..(Len(clList) + 1)
  <2>1. Len(clGrid) <= Len(clList) /\ Len(clGrid) \in Nat
    BY <1>1, RowListed
  <2>2. Len(clList) \in Nat
    BY DEF TlInv, TlType
  <2> QED
    BY <2>1, <2>2
<1>5. /\ clList' \in Seq(1..(Len(clAttr) + 1)) /\ Distinct(clList')
      /\ Elements(clList') \subseteq Elements(clList) \cup {Len(clAttr) + 1}
  <2>1. clList \in Seq(1..Len(clAttr)) /\ Distinct(clList)
    BY DEF TlInv, TlType
  <2>2. clList' = InsertAt(clList, row + 1, Len(clAttr) + 1)
    BY <1>1, <1>3
  <2> QED
    BY <1>3, <1>4, <2>1, <2>2, Inserted
<1>6. Listed' \subseteq Listed \cup {New(1)}
  <2>1. Listed' = Elements(clList') /\ Listed = Elements(clList)
    BY DEF Listed, ToSet, Elements
  <2> QED
    BY <1>3, <1>5, <2>1
<1>7. OneEntryPerId'
  <2> SUFFICES ASSUME ~clCopied, NEW o \in Listed', NEW p \in Listed', clAttr'[o].id = clAttr'[p].id PROVE o = p
    BY <1>1, Zenon DEF OneEntryPerId, Id
  <2>1. \A q \in Listed : clAttr'[q].id # FreeId
    BY <1>2, <1>3 DEF Taken, Id
  <2>2. clAttr'[New(1)].id = FreeId
    BY <1>3 DEF f
  <2>3. CASE o \in Listed /\ p \in Listed
    BY <1>3, <2>3 DEF TlInv, OneEntryPerId, Id
  <2>4. CASE o = New(1) \/ p = New(1)
    BY <1>6, <2>1, <2>2, <2>4, Zenon
  <2> QED
    BY <1>6, <2>3, <2>4
<1> QED
  BY <1>1, <1>3, <1>5, <1>7 DEF TlInv, TlType, RowsAreEntries, OneShotKept

LEMMA TlCopy ==
  ASSUME TlInv, NEW row \in 1..Len(clGrid), Copy(row)
  PROVE  TlInv'
<1> DEFINE f == clAttr[clGrid[row]]
           n == Len(clAttr)
<1>1. /\ clAttr' = Append(clAttr, f) /\ clList' = Append(clList, New(1)) /\ clGrid' = Append(clGrid, New(1))
      /\ clCopied' = TRUE /\ clSingle \subseteq clSingle'
      /\ UNCHANGED <<clStale, clWorker, clOwed>> /\ ~clStale
  BY DEF Copy, GuiFree
<1>2. f \in Frames
  <2>1. clGrid[row] \in 1..Len(clAttr) /\ clAttr \in Seq(Frames)
    BY <1>1, RowListed DEF TlInv, TlType
  <2> QED
    BY <2>1, ElementOfSeq
<1> HIDE DEF f
<1>3. clAttr' \in Seq(Frames) /\ Len(clAttr') = n + 1 /\ n \in Nat /\ New(1) = n + 1
  BY <1>1, <1>2, NewEntry
<1>4. PICK S \in SUBSET Listed : clGrid = Within(clList, S)
  BY <1>1 DEF TlInv, RowsAreEntries
<1>5. clList \in Seq(1..n) /\ Distinct(clList) /\ S \in SUBSET Elements(clList)
  BY <1>4 DEF TlInv, TlType, Listed, ToSet, Elements
<1> HIDE DEF n
<1>6. /\ Append(clList, n + 1) \in Seq(1..(n + 1)) /\ Distinct(Append(clList, n + 1))
      /\ Elements(Append(clList, n + 1)) = Elements(clList) \cup {n + 1}
      /\ Within(Append(clList, n + 1), S \cup {n + 1}) = Append(Within(clList, S), n + 1)
  BY <1>3, <1>5, Behind
<1>7. TlType'
  BY <1>1, <1>3, <1>6 DEF TlType, TlInv
<1>8. RowsAreEntries'
  <2>1. Listed' = Elements(clList) \cup {n + 1}
    <3>1. Listed' = Elements(clList')
      BY DEF Listed, ToSet, Elements
    <3> QED
      BY <1>1, <1>3, <1>6, <3>1
  <2>2. S \cup {n + 1} \in SUBSET Listed' /\ clGrid' = Within(clList', S \cup {n + 1})
    BY <1>1, <1>3, <1>4, <1>5, <1>6, <2>1
  <2> QED
    BY <2>2, Zenon DEF RowsAreEntries
<1> QED
  BY <1>1, <1>7, <1>8 DEF TlInv, OneEntryPerId, OneShotKept

LEMMA TlEdit ==
  ASSUME TlInv, NEW row \in 1..Len(clGrid),
         \/ \E id \in 1..MaxFrameId : EditId(row, id)
         \/ \E level \in {0, 1} : EditLevel(row, level)
  PROVE  TlInv'
<1> DEFINE g == clGrid[row]
<1>1. /\ UNCHANGED <<clList, clGrid, clSingle, clStale, clWorker, clOwed, clCopied>> /\ ~clStale
  BY DEF EditId, EditLevel, GuiFree, clRest
<1>2. g \in Listed /\ g \in 1..Len(clAttr) /\ clAttr \in Seq(Frames)
  BY <1>1, RowListed DEF TlInv, TlType
<1>3. \A o \in Listed : o \in 1..Len(clAttr)
  BY DEF TlInv, TlType, Listed, ToSet
<1> HIDE DEF g
<1>4. /\ clAttr' \in Seq(Frames) /\ Len(clAttr') = Len(clAttr)
      /\ \/ \E id : ~Taken(id) /\ \A o \in Listed : clAttr'[o].id = IF o = g THEN id ELSE clAttr[o].id
         \/ \A o \in Listed : clAttr'[o].id = clAttr[o].id
  <2>1. ASSUME NEW id \in 1..MaxFrameId, EditId(row, id)
        PROVE  /\ clAttr' \in Seq(Frames) /\ Len(clAttr') = Len(clAttr)
               /\ ~Taken(id) /\ \A o \in Listed : clAttr'[o].id = IF o = g THEN id ELSE clAttr[o].id
    <3>1. clAttr' = [clAttr EXCEPT ![g].id = id] /\ ~Taken(id)
      BY <2>1 DEF EditId, g
    <3>2. clAttr[g] \in Frames /\ [clAttr[g] EXCEPT !.id = id] \in Frames /\ [clAttr[g] EXCEPT !.id = id].id = id
      <4>1. clAttr[g] \in Frames
        BY <1>2
      <4> QED
        BY <4>1 DEF Frames
    <3>3. clAttr' = [clAttr EXCEPT ![g] = [clAttr[g] EXCEPT !.id = id]]
      BY <1>2, <3>1
    <3>4. clAttr' \in Seq(Frames) /\ Len(clAttr') = Len(clAttr)
      BY <1>2, <3>2, <3>3
    <3>5. \A o \in 1..Len(clAttr) : clAttr'[o] = IF o = g THEN [clAttr[g] EXCEPT !.id = id] ELSE clAttr[o]
      BY <1>2, <3>3
    <3> QED
      BY <1>3, <3>1, <3>2, <3>4, <3>5
  <2>2. ASSUME NEW level \in {0, 1}, EditLevel(row, level)
        PROVE  /\ clAttr' \in Seq(Frames) /\ Len(clAttr') = Len(clAttr)
               /\ \A o \in Listed : clAttr'[o].id = clAttr[o].id
    <3>1. clAttr' = [clAttr EXCEPT ![g].fav = level]
      BY <2>2 DEF EditLevel, g
    <3>2. /\ clAttr[g] \in Frames /\ [clAttr[g] EXCEPT !.fav = level] \in Frames
          /\ [clAttr[g] EXCEPT !.fav = level].id = clAttr[g].id
      <4>1. clAttr[g] \in Frames
        BY <1>2
      <4> QED
        BY <4>1 DEF Frames
    <3>3. clAttr' = [clAttr EXCEPT ![g] = [clAttr[g] EXCEPT !.fav = level]]
      BY <1>2, <3>1
    <3>4. clAttr' \in Seq(Frames) /\ Len(clAttr') = Len(clAttr)
      BY <1>2, <3>2, <3>3
    <3>5. \A o \in 1..Len(clAttr) : clAttr'[o] = IF o = g THEN [clAttr[g] EXCEPT !.fav = level] ELSE clAttr[o]
      BY <1>2, <3>3
    <3> QED
      BY <1>3, <3>2, <3>4, <3>5
  <2> QED
    BY <2>1, <2>2, Zenon
<1>5. Listed' = Listed
  BY <1>1 DEF Listed
<1>6. TlType' /\ RowsAreEntries'
  BY <1>1, <1>4, <1>5 DEF TlInv, TlType, RowsAreEntries
<1>7. OneEntryPerId'
  <2> SUFFICES ASSUME ~clCopied, NEW o \in Listed, NEW p \in Listed, clAttr'[o].id = clAttr'[p].id PROVE o = p
    BY <1>1, <1>5, Zenon DEF OneEntryPerId, Id
  <2>1. clAttr[o].id = clAttr[p].id => o = p
    BY DEF TlInv, OneEntryPerId, Id
  <2>2. CASE \A q \in Listed : clAttr'[q].id = clAttr[q].id
    BY <2>1, <2>2
  <2>3. ASSUME NEW id, ~Taken(id), \A q \in Listed : clAttr'[q].id = IF q = g THEN id ELSE clAttr[q].id
        PROVE  o = p
    BY <2>1, <2>3 DEF Taken, Id
  <2> QED
    BY <1>4, <2>2, <2>3, Zenon
<1> QED
  BY <1>1, <1>6, <1>7 DEF TlInv, OneShotKept

LEMMA TlLoad ==
  ASSUME TlInv, NEW file \in Files, LoadTxList(file)
  PROVE  TlInv'
<1> DEFINE frames == KeepFirst(file)
           n == Len(clAttr)
           m == Len(frames)
<1>1. /\ clAttr' = clAttr \o frames /\ clList' = [i \in 1..m |-> New(i)]
      /\ clSingle' = {} /\ clOwed' = {} /\ clStale' = TRUE
      /\ UNCHANGED <<clWorker, clCopied>>
  BY DEF LoadTxList, clRest
<1>2. frames \in Seq(Frames) /\ OneFrameEach(frames)
  BY FileTyped DEF FrameLists
<1>3. clAttr \in Seq(Frames) /\ n \in Nat /\ m \in Nat
  BY <1>2 DEF TlInv, TlType
<1> HIDE DEF frames
<1>4. IsJoin(clAttr', clAttr, frames, Frames)
  BY <1>1, <1>2, <1>3, JoinIs
<1>5. /\ clAttr' \in Seq(Frames) /\ Len(clAttr') = n + m
      /\ \A i \in 1..m : clAttr'[n + i] = frames[i]
  BY <1>3, <1>4 DEF IsJoin
<1>6. clList' = [i \in 1..m |-> n + i]
  BY <1>1 DEF New
<1> HIDE DEF n, m
<1>7. clList' \in Seq(1..(n + m)) /\ Len(clList') = m /\ DOMAIN clList' = 1..m
  BY <1>3, <1>6
<1>8. Distinct(clList')
  BY <1>3, <1>6 DEF Distinct
<1>9. Listed' = {n + i : i \in 1..m}
  BY <1>6 DEF Listed, ToSet
<1>10. OneEntryPerId'
  <2> SUFFICES ASSUME NEW o \in Listed', NEW p \in Listed', clAttr'[o].id = clAttr'[p].id PROVE o = p
    BY Zenon DEF OneEntryPerId, Id
  <2>1. PICK i \in 1..m : o = n + i
    BY <1>9
  <2>2. PICK j \in 1..m : p = n + j
    BY <1>9
  <2>3. frames[i].id = frames[j].id
    BY <1>5, <2>1, <2>2
  <2>4. i = j
    BY <1>2, <2>3 DEF OneFrameEach, m
  <2> QED
    BY <2>1, <2>2, <2>4
<1>11. TlType'
  BY <1>1, <1>5, <1>7, <1>8 DEF TlType
<1> QED
  BY <1>1, <1>10, <1>11 DEF TlInv, RowsAreEntries, OneShotKept

LEMMA TlKeeps ==
  ASSUME TlInv, [TxListNext]_clVars
  PROVE  TlInv'
<1>1. CASE UNCHANGED clVars
  BY <1>1 DEF clVars, clRest, TlInv, TlType, RowsAreEntries, OneEntryPerId, OneShotKept, Listed, Id
<1>2. CASE TxListNext
  BY <1>2, TlFlags, TlRefresh, TlMove, TlDelete, TlAdd, TlCopy, TlEdit, TlLoad, Zenon DEF TxListNext
<1> QED
  BY <1>1, <1>2

LEMMA TlMeans == TlInv => TxListSafe
BY DEF TlInv, TxListSafe

(* The grid of frames to send, for any number of entries, ids and clicks:    *)
(* whenever a handler starts each row shows an entry of the list, an id is   *)
(* twice in the list only after Copy, and a click on One Shot is kept until  *)
(* it is served.                                                             *)
THEOREM TxListIsSafe == TxListSpec => []TxListSafe
<1> QED
  BY TlInit, TlKeeps, TlMeans, PTL DEF TxListSpec

-----------------------------------------------------------------------------
(* The bytes under way to the parser.  Each has its place in what was sent:  *)
(* three for a frame, of which an acknowledgement uses the outer two.        *)

RxLetters == {"magic", "plain", "holds", "crc of plain", "crc of holds",
              "t", "V", "z", "data", "empty", "digits", "CR", "short", "wrong"}
RxBytes == [b : RxLetters, f : Nat]

RxRank(b) == IF b \in {"magic", "t", "V", "z"} THEN 1
             ELSE IF b \in {"crc of plain", "crc of holds", "CR"} THEN 3 ELSE 2
RxPos(x) == 3 * x.f + RxRank(x.b)

RxParts(dev, k) ==
  IF dev = "STM32" THEN {"magic", k, Crc(k)}
  ELSE IF k = "version" THEN {"V", "digits", "CR"}
  ELSE IF k = "ack" THEN {"z", "CR"} ELSE {"t", k, "CR"}

(* A byte is a part of its frame, or what the line made of its data.         *)
RxOrigin(dev, K, D, x) ==
  /\ x.f \in 1..Len(K)
  /\ \/ x.b \in RxParts(dev, K[x.f])
     \/ dev = "LAWICEL" /\ K[x.f] = "data" /\ x.b \in {"short", "wrong"} /\ x.f \in D

RxHas(s, b, g) == \E j \in 1..Len(s) : s[j].b = b /\ s[j].f = g
RxRising(s) == \A i, j \in 1..Len(s) : i < j => RxPos(s[i]) < RxPos(s[j])

(* Nothing of an undamaged frame is missing behind the first byte.           *)
RxWhole(s, dev, K, D) ==
  Len(s) > 0 => \A g \in (1..Len(K)) \ D : \A b \in RxParts(dev, K[g]) :
                  RxPos(s[1]) < 3 * g + RxRank(b) => RxHas(s, b, g)

RxStream(s, dev, K, D) ==
  /\ s \in Seq(RxBytes)
  /\ \A i \in 1..Len(s) : RxOrigin(dev, K, D, s[i])
  /\ RxRising(s) /\ RxWhole(s, dev, K, D)

LEMMA RxRanks == \A b : RxRank(b) \in {1, 2, 3}
BY DEF RxRank

LEMMA RxPlaces ==
  ASSUME NEW x \in RxBytes
  PROVE  /\ RxPos(x) \in Int /\ RxPos(x) = 3 * x.f + RxRank(x.b) /\ x.f \in Nat /\ x.b \in RxLetters
         /\ RxRank(x.b) \in {1, 2, 3}
BY RxRanks DEF RxPos, RxBytes

LEMMA RxOrder ==
  ASSUME NEW x \in RxBytes, NEW y \in RxBytes, RxPos(x) < RxPos(y)
  PROVE  /\ x.f <= y.f
         /\ RxRank(x.b) >= RxRank(y.b) => x.f < y.f
         /\ RxRank(x.b) = 3 \/ RxRank(y.b) = 1 => x.f < y.f
<1> DEFINE InPlace(f, g, p, q) == 3 * f + p < 3 * g + q =>
             f <= g /\ (p >= q => f < g) /\ (p = 3 \/ q = 1 => f < g)
<1>1. \A f, g \in Nat : \A p, q \in {1, 2, 3} : InPlace(f, g, p, q)
  OBVIOUS
<1>2. /\ x.f \in Nat /\ y.f \in Nat /\ RxRank(x.b) \in {1, 2, 3} /\ RxRank(y.b) \in {1, 2, 3}
      /\ 3 * x.f + RxRank(x.b) < 3 * y.f + RxRank(y.b)
  BY RxPlaces
<1> HIDE DEF InPlace
<1>3. InPlace(x.f, y.f, RxRank(x.b), RxRank(y.b))
  BY <1>1, <1>2
<1> QED
  BY <1>2, <1>3, Zenon DEF InPlace

(* What is behind the first byte stays whole when bytes are taken from the   *)
(* front, or more frames count as damaged.                                   *)
LEMMA RxStreamDrop ==
  ASSUME NEW dev, NEW K, NEW D, NEW E, NEW s, NEW t, NEW n \in Nat, Len(K) \in Nat,
         RxStream(s, dev, K, D), D \subseteq E, n <= Len(s), t = SubSeq(s, n + 1, Len(s))
  PROVE  RxStream(t, dev, K, E)
<1>1. s \in Seq(RxBytes) /\ Len(s) \in Nat /\ \A i \in 1..Len(s) : s[i] \in RxBytes
  BY DEF RxStream
<1>2. t \in Seq(RxBytes) /\ Len(t) = Len(s) - n /\ \A i \in 1..Len(t) : t[i] = s[i + n]
  BY <1>1
<1>3. \A i \in 1..Len(s) : RxPos(s[i]) \in Int
  BY <1>1, RxPlaces
<1>4. RxRising(s) /\ RxWhole(s, dev, K, D) /\ \A i \in 1..Len(s) : RxOrigin(dev, K, D, s[i])
  BY DEF RxStream
<1>5. \A i \in 1..Len(t) : i + n \in 1..Len(s)
  BY <1>1, <1>2
<1>6. ASSUME NEW i \in 1..Len(t) PROVE RxOrigin(dev, K, E, t[i])
  <2>1. RxOrigin(dev, K, D, s[i + n])
    BY <1>4, <1>5
  <2>2. RxOrigin(dev, K, E, s[i + n])
    BY <2>1, Zenon DEF RxOrigin
  <2> QED
    BY <1>2, <2>2
<1>7. RxRising(t)
  BY <1>1, <1>2, <1>4, <1>5 DEF RxRising
<1>8. RxWhole(t, dev, K, E)
  <2> SUFFICES ASSUME Len(t) > 0, NEW g \in (1..Len(K)) \ E, NEW b \in RxParts(dev, K[g]),
                      RxPos(t[1]) < 3 * g + RxRank(b)
               PROVE  RxHas(t, b, g)
    BY DEF RxWhole
  <2>1. t[1] = s[1 + n] /\ 1 \in 1..Len(s) /\ 1 + n \in 1..Len(s)
    BY <1>1, <1>2
  <2>2. RxPos(s[1]) <= RxPos(s[1 + n])
    BY <1>3, <1>4, <2>1 DEF RxRising
  <2>3. RxPos(s[1]) < 3 * g + RxRank(b)
    <3>1. 3 * g + RxRank(b) \in Int
      <4>1. RxRank(b) \in Int /\ g \in Int
        BY RxRanks
      <4> QED
        BY <4>1
    <3>2. RxPos(t[1]) = RxPos(s[1 + n])
      BY <2>1, Zenon
    <3> QED
      BY <1>3, <2>1, <2>2, <3>1, <3>2
  <2>4. PICK j \in 1..Len(s) : s[j].b = b /\ s[j].f = g
    BY <1>1, <1>4, <2>1, <2>3 DEF RxWhole, RxHas
  <2>5. RxPos(s[j]) = 3 * g + RxRank(b)
    BY <2>4 DEF RxPos
  <2>6. ~(j < 1 + n)
    BY <1>3, <1>4, <2>1, <2>5 DEF RxRising
  <2>7. j - n \in 1..Len(t) /\ t[j - n] = s[j]
    BY <1>1, <1>2, <2>6
  <2> QED
    BY <2>4, <2>7 DEF RxHas
<1> QED
  BY <1>2, <1>6, <1>7, <1>8 DEF RxStream

(* A byte of the line is lost, or what it says of the data is changed.       *)
LEMMA RxStreamLose ==
  ASSUME NEW dev, NEW K, NEW D, NEW E, NEW s, NEW t, NEW p \in Nat, Len(K) \in Nat,
         RxStream(s, dev, K, D), D \subseteq E, p \in 1..Len(s), s[p].f \in E,
         t \in Seq(RxBytes), Len(t) = Len(s) - 1,
         \A i \in 1..Len(t) : t[i] = IF i < p THEN s[i] ELSE s[i + 1]
  PROVE  RxStream(t, dev, K, E)
<1>1. s \in Seq(RxBytes) /\ Len(s) \in Nat /\ \A i \in 1..Len(s) : s[i] \in RxBytes
  BY DEF RxStream
<1>3. \A i \in 1..Len(s) : RxPos(s[i]) \in Int
  BY <1>1, RxPlaces
<1>4. RxRising(s) /\ RxWhole(s, dev, K, D) /\ \A i \in 1..Len(s) : RxOrigin(dev, K, D, s[i])
  BY DEF RxStream
<1>5. \A i \in 1..Len(t) : i \in 1..Len(s) /\ i + 1 \in 1..Len(s)
  BY <1>1
<1>6. ASSUME NEW i \in 1..Len(t) PROVE RxOrigin(dev, K, E, t[i])
  <2>1. PICK k \in 1..Len(s) : t[i] = s[k]
    BY <1>5
  <2>2. RxOrigin(dev, K, D, s[k])
    BY <1>4
  <2>3. RxOrigin(dev, K, E, s[k])
    BY <2>2, Zenon DEF RxOrigin
  <2> QED
    BY <2>1, <2>3
<1>7. RxRising(t)
  <2> SUFFICES ASSUME NEW i \in 1..Len(t), NEW j \in 1..Len(t), i < j PROVE RxPos(t[i]) < RxPos(t[j])
    BY DEF RxRising
  <2>1. /\ i \in 1..Len(s) /\ i + 1 \in 1..Len(s) /\ j \in 1..Len(s) /\ j + 1 \in 1..Len(s)
        /\ i < j /\ i < j + 1 /\ i + 1 < j + 1
    BY <1>5
  <2>2. /\ RxPos(s[i]) < RxPos(s[j]) /\ RxPos(s[i]) < RxPos(s[j + 1])
        /\ RxPos(s[i + 1]) < RxPos(s[j + 1])
    BY <1>4, <2>1, Zenon DEF RxRising
  <2>3. CASE j < p
    <3>1. i < p
      BY <2>1, <2>3
    <3>2. t[i] = s[i] /\ t[j] = s[j]
      BY <2>3, <3>1
    <3> QED
      BY <2>2, <3>2, Zenon
  <2>4. CASE i < p /\ ~(j < p)
    <3>1. t[i] = s[i] /\ t[j] = s[j + 1]
      BY <2>4
    <3> QED
      BY <2>2, <3>1, Zenon
  <2>5. CASE ~(i < p)
    <3>1. ~(j < p)
      BY <2>1, <2>5
    <3>2. t[i] = s[i + 1] /\ t[j] = s[j + 1]
      BY <2>5, <3>1
    <3> QED
      BY <2>2, <3>2, Zenon
  <2> QED
    BY <2>3, <2>4, <2>5, Zenon
<1>8. RxWhole(t, dev, K, E)
  <2> SUFFICES ASSUME Len(t) > 0, NEW g \in (1..Len(K)) \ E, NEW b \in RxParts(dev, K[g]),
                      RxPos(t[1]) < 3 * g + RxRank(b)
               PROVE  RxHas(t, b, g)
    BY DEF RxWhole
  <2>1. 1 \in 1..Len(s) /\ Len(s) > 0 /\ (t[1] = s[1] \/ (2 \in 1..Len(s) /\ t[1] = s[2]))
    BY <1>1
  <2>2. RxPos(t[1]) \in Int /\ RxPos(s[1]) <= RxPos(t[1])
    BY <1>3, <1>4, <2>1 DEF RxRising
  <2>3. RxPos(s[1]) < 3 * g + RxRank(b)
    <3>1. 3 * g + RxRank(b) \in Int
      <4>1. RxRank(b) \in Int /\ g \in Int
        BY RxRanks
      <4> QED
        BY <4>1
    <3> QED
      BY <1>3, <2>1, <2>2, <3>1
  <2>4. PICK j \in 1..Len(s) : s[j].b = b /\ s[j].f = g
    BY <1>1, <1>4, <2>1, <2>3 DEF RxWhole, RxHas
  <2>5. j # p
    BY <2>4
  <2>6. PICK k \in 1..Len(t) : t[k] = s[j]
    <3>1. CASE j < p
      <4>1. j \in 1..Len(t) /\ t[j] = s[j]
        BY <1>1, <3>1
      <4> QED
        BY <4>1
    <3>2. CASE j > p
      <4>1. j - 1 \in 1..Len(t) /\ ~(j - 1 < p) /\ (j - 1) + 1 = j
        BY <1>1, <3>2
      <4>2. t[j - 1] = s[j]
        BY <4>1
      <4> QED
        BY <4>1, <4>2
    <3> QED
      BY <2>5, <3>1, <3>2
  <2> QED
    BY <2>4, <2>6 DEF RxHas
<1> QED
  BY <1>6, <1>7, <1>8 DEF RxStream

LEMMA RxStreamForge ==
  ASSUME NEW dev, NEW K, NEW D, NEW E, NEW s, NEW t, NEW p \in Nat, NEW x \in RxBytes, Len(K) \in Nat,
         RxStream(s, dev, K, D), D \subseteq E, p \in 1..Len(s), s[p].f \in E,
         dev = "LAWICEL", s[p].b = "data", x.b \in {"short", "wrong"}, x.f = s[p].f,
         t = [s EXCEPT ![p] = x]
  PROVE  RxStream(t, dev, K, E)
<1>1. s \in Seq(RxBytes) /\ Len(s) \in Nat /\ \A i \in 1..Len(s) : s[i] \in RxBytes
  BY DEF RxStream
<1>2. t \in Seq(RxBytes) /\ Len(t) = Len(s) /\ \A i \in 1..Len(t) : t[i] = IF i = p THEN x ELSE s[i]
  BY <1>1
<1>3. \A i \in 1..Len(s) : RxPos(s[i]) \in Int
  BY <1>1, RxPlaces
<1>4. RxRising(s) /\ RxWhole(s, dev, K, D) /\ \A i \in 1..Len(s) : RxOrigin(dev, K, D, s[i])
  BY DEF RxStream
<1>5. \A i \in 1..Len(s) : RxPos(t[i]) = RxPos(s[i])
  <2>1. RxRank(x.b) = 2 /\ RxRank(s[p].b) = 2
    BY DEF RxRank
  <2>2. RxPos(x) = RxPos(s[p])
    BY <2>1 DEF RxPos
  <2> QED
    BY <1>2, <2>2
<1>6. ASSUME NEW i \in 1..Len(t) PROVE RxOrigin(dev, K, E, t[i])
  <2>1. RxOrigin(dev, K, D, s[i]) /\ RxOrigin(dev, K, D, s[p])
    BY <1>2, <1>4
  <2>2. CASE i # p
    <3>1. RxOrigin(dev, K, E, s[i])
      BY <2>1, Zenon DEF RxOrigin
    <3> QED
      BY <1>2, <2>2, <3>1
  <2>3. CASE i = p
    <3>1. x.f \in 1..Len(K) /\ K[x.f] = "data"
      BY <2>1 DEF RxOrigin, RxParts
    <3> QED
      BY <1>2, <2>3, <3>1 DEF RxOrigin
  <2> QED
    BY <2>2, <2>3
<1>7. RxRising(t)
  BY <1>2, <1>4, <1>5 DEF RxRising
<1>8. RxWhole(t, dev, K, E)
  <2> SUFFICES ASSUME Len(t) > 0, NEW g \in (1..Len(K)) \ E, NEW b \in RxParts(dev, K[g]),
                      RxPos(t[1]) < 3 * g + RxRank(b)
               PROVE  RxHas(t, b, g)
    BY DEF RxWhole
  <2>1. 1 \in 1..Len(s) /\ Len(s) > 0
    BY <1>1, <1>2
  <2>2. RxPos(s[1]) < 3 * g + RxRank(b)
    BY <1>5, <2>1
  <2>4. PICK j \in 1..Len(s) : s[j].b = b /\ s[j].f = g
    BY <1>1, <1>4, <2>1, <2>2 DEF RxWhole, RxHas
  <2>5. j # p /\ t[j] = s[j]
    BY <1>2, <2>4
  <2> QED
    BY <1>2, <2>4, <2>5 DEF RxHas
<1> QED
  BY <1>2, <1>6, <1>7, <1>8 DEF RxStream

(* A frame that is sent.                                                     *)
RxSent(q, dev, k, g) ==
  /\ q \in Seq(RxBytes) /\ Len(q) \in {2, 3}
  /\ \A i \in 1..Len(q) : q[i].f = g /\ q[i].b \in RxParts(dev, k)
  /\ RxRising(q)
  /\ \A b \in RxParts(dev, k) : RxHas(q, b, g)
  /\ RxRank(q[1].b) = 1

LEMMA RxBytesOf1 ==
  ASSUME NEW g, NEW a
  PROVE  Bytes(<<a>>, g) = <<Byte(a, g)>>
<1>1. Len(<<a>>) = 1 /\ <<a>>[1] = a
  OBVIOUS
<1> DEFINE q == Bytes(<<a>>, g)
<1>2. q = [i \in 1..1 |-> Byte(<<a>>[i], g)]
  BY <1>1, Zenon DEF Bytes
<1>3. q = [i \in 1..1 |-> Byte(a, g)]
  BY <1>1, <1>2
<1> QED
  BY <1>3

LEMMA RxBytesOf ==
  ASSUME NEW g \in Nat, NEW a \in RxLetters, NEW b \in RxLetters
  PROVE  /\ Bytes(<<a, b>>, g) \in Seq(RxBytes) /\ Len(Bytes(<<a, b>>, g)) = 2
         /\ Bytes(<<a, b>>, g)[1] = Byte(a, g) /\ Bytes(<<a, b>>, g)[2] = Byte(b, g)
BY DEF Bytes, Byte, RxBytes

LEMMA RxBytesOf3 ==
  ASSUME NEW g \in Nat, NEW a \in RxLetters, NEW b \in RxLetters, NEW c \in RxLetters
  PROVE  /\ Bytes(<<a, b, c>>, g) \in Seq(RxBytes) /\ Len(Bytes(<<a, b, c>>, g)) = 3
         /\ Bytes(<<a, b, c>>, g)[1] = Byte(a, g) /\ Bytes(<<a, b, c>>, g)[2] = Byte(b, g)
         /\ Bytes(<<a, b, c>>, g)[3] = Byte(c, g)
BY DEF Bytes, Byte, RxBytes

LEMMA RxSentThree ==
  ASSUME NEW dev, NEW k, NEW g \in Nat, NEW a \in RxLetters, NEW b \in RxLetters, NEW c \in RxLetters,
         RxFormat(dev, k) = <<a, b, c>>, RxParts(dev, k) = {a, b, c},
         RxRank(a) = 1, RxRank(b) = 2, RxRank(c) = 3
  PROVE  RxSent(Bytes(RxFormat(dev, k), g), dev, k, g)
<1> DEFINE q == Bytes(RxFormat(dev, k), g)
<1>1. /\ q \in Seq(RxBytes) /\ Len(q) = 3
      /\ q[1] = Byte(a, g) /\ q[2] = Byte(b, g) /\ q[3] = Byte(c, g)
  BY RxBytesOf3
<1> HIDE DEF q
<1>2. /\ q[1].b = a /\ q[2].b = b /\ q[3].b = c /\ q[1].f = g /\ q[2].f = g /\ q[3].f = g
  BY <1>1 DEF Byte
<1>3. \A i \in 1..Len(q) : i = 1 \/ i = 2 \/ i = 3
  BY <1>1
<1>4. RxPos(q[1]) = 3 * g + 1 /\ RxPos(q[2]) = 3 * g + 2 /\ RxPos(q[3]) = 3 * g + 3
  BY <1>2 DEF RxPos
<1>5. RxRising(q)
  BY <1>1, <1>3, <1>4 DEF RxRising
<1>6. \A x \in RxParts(dev, k) : RxHas(q, x, g)
  BY <1>1, <1>2 DEF RxHas
<1>7. \A i \in 1..Len(q) : q[i].f = g /\ q[i].b \in RxParts(dev, k)
  BY <1>2, <1>3
<1> QED
  BY <1>1, <1>2, <1>5, <1>6, <1>7 DEF RxSent, q

LEMMA RxSentTwo ==
  ASSUME NEW dev, NEW k, NEW g \in Nat, NEW a \in RxLetters, NEW c \in RxLetters,
         RxFormat(dev, k) = <<a, c>>, RxParts(dev, k) = {a, c},
         RxRank(a) = 1, RxRank(c) = 3
  PROVE  RxSent(Bytes(RxFormat(dev, k), g), dev, k, g)
<1> DEFINE q == Bytes(RxFormat(dev, k), g)
<1>1. /\ q \in Seq(RxBytes) /\ Len(q) = 2
      /\ q[1] = Byte(a, g) /\ q[2] = Byte(c, g)
  BY RxBytesOf
<1> HIDE DEF q
<1>2. /\ q[1].b = a /\ q[2].b = c /\ q[1].f = g /\ q[2].f = g
  BY <1>1 DEF Byte
<1>3. \A i \in 1..Len(q) : i = 1 \/ i = 2
  BY <1>1
<1>4. RxPos(q[1]) = 3 * g + 1 /\ RxPos(q[2]) = 3 * g + 3
  BY <1>2 DEF RxPos
<1>5. RxRising(q)
  BY <1>1, <1>3, <1>4 DEF RxRising
<1>6. \A x \in RxParts(dev, k) : RxHas(q, x, g)
  BY <1>1, <1>2 DEF RxHas
<1>7. \A i \in 1..Len(q) : q[i].f = g /\ q[i].b \in RxParts(dev, k)
  BY <1>2, <1>3
<1> QED
  BY <1>1, <1>2, <1>5, <1>6, <1>7 DEF RxSent, q

LEMMA RxFormatSent ==
  ASSUME NEW dev \in {"STM32", "LAWICEL"}, NEW k \in RxKinds(dev), NEW g \in Nat
  PROVE  RxSent(Bytes(RxFormat(dev, k), g), dev, k, g)
<1>1. CASE dev = "STM32"
  <2>1. k \in {"plain", "holds"} /\ RxFormat(dev, k) = <<"magic", k, Crc(k)>> /\ RxParts(dev, k) = {"magic", k, Crc(k)}
    BY <1>1 DEF RxKinds, RxFormat, RxParts
  <2>2. Crc(k) \in {"crc of plain", "crc of holds"}
    BY <2>1 DEF Crc
  <2>3. k \in RxLetters /\ Crc(k) \in RxLetters /\ "magic" \in RxLetters
    BY <2>1, <2>2 DEF RxLetters
  <2>4. RxRank("magic") = 1 /\ RxRank(k) = 2 /\ RxRank(Crc(k)) = 3
    BY <2>1, <2>2 DEF RxRank
  <2> QED
    BY <2>1, <2>3, <2>4, RxSentThree, Zenon
<1>2. CASE dev = "LAWICEL" /\ k \in {"data", "empty"}
  <2>1. RxFormat(dev, k) = <<"t", k, "CR">> /\ RxParts(dev, k) = {"t", k, "CR"}
    BY <1>2 DEF RxFormat, RxParts
  <2>3. k \in RxLetters /\ "t" \in RxLetters /\ "CR" \in RxLetters
    BY <1>2 DEF RxLetters
  <2>4. RxRank("t") = 1 /\ RxRank(k) = 2 /\ RxRank("CR") = 3
    BY <1>2 DEF RxRank
  <2> QED
    BY <2>1, <2>3, <2>4, RxSentThree, Zenon
<1>3. CASE dev = "LAWICEL" /\ k = "version"
  <2>1. RxFormat(dev, k) = <<"V", "digits", "CR">> /\ RxParts(dev, k) = {"V", "digits", "CR"}
    BY <1>3 DEF RxFormat, RxParts
  <2>3. "digits" \in RxLetters /\ "V" \in RxLetters /\ "CR" \in RxLetters
    BY DEF RxLetters
  <2>4. RxRank("V") = 1 /\ RxRank("digits") = 2 /\ RxRank("CR") = 3
    BY DEF RxRank
  <2> QED
    BY <2>1, <2>3, <2>4, RxSentThree, Zenon
<1>4. CASE dev = "LAWICEL" /\ k = "ack"
  <2>1. RxFormat(dev, k) = <<"z", "CR">> /\ RxParts(dev, k) = {"z", "CR"}
    BY <1>4 DEF RxFormat, RxParts
  <2>3. "z" \in RxLetters /\ "CR" \in RxLetters
    BY DEF RxLetters
  <2>4. RxRank("z") = 1 /\ RxRank("CR") = 3
    BY DEF RxRank
  <2> QED
    BY <2>1, <2>3, <2>4, RxSentTwo, Zenon
<1> QED
  BY <1>1, <1>2, <1>3, <1>4 DEF RxKinds

(* Behind the bytes under way. *)
RxMoreKinds(L, K, k, n) == Len(K) = n /\ Len(L) = n + 1 /\ L[n + 1] = k /\ \A g \in 1..n : L[g] = K[g]

LEMMA RxStreamSend ==
  ASSUME NEW dev, NEW K, NEW L, NEW D, NEW s, NEW q, NEW t, NEW k, NEW n \in Nat,
         RxMoreKinds(L, K, k, n),
         RxStream(s, dev, K, D), D \subseteq 1..n, RxSent(q, dev, k, n + 1),
         IsJoin(t, s, q, RxBytes)
  PROVE  RxStream(t, dev, L, D)
<1>0. /\ Len(K) = n /\ Len(L) = n + 1 /\ \A g \in 1..n : L[g] = K[g]
      /\ L[n + 1] = k /\ t \in Seq(RxBytes) /\ Len(t) = Len(s) + Len(q)
      /\ \A i \in 1..Len(t) : t[i] = IF i <= Len(s) THEN s[i] ELSE q[i - Len(s)]
  BY Zenon DEF IsJoin, RxMoreKinds
<1>1. s \in Seq(RxBytes) /\ Len(s) \in Nat /\ \A i \in 1..Len(s) : s[i] \in RxBytes
  BY <1>0 DEF RxStream
<1>2. q \in Seq(RxBytes) /\ Len(q) \in {2, 3} /\ Len(t) \in Nat /\ \A i \in 1..Len(q) : q[i] \in RxBytes
  BY <1>0 DEF RxSent
<1>3. /\ \A i \in 1..Len(s) : RxPos(s[i]) \in Int
      /\ \A i \in 1..Len(q) : RxPos(q[i]) \in Int
  BY <1>0, <1>1, <1>2, RxPlaces
<1>4. RxRising(s) /\ RxWhole(s, dev, K, D) /\ \A i \in 1..Len(s) : RxOrigin(dev, K, D, s[i])
  BY <1>0 DEF RxStream
<1>5. RxRising(q) /\ \A i \in 1..Len(q) : q[i].f = n + 1 /\ q[i].b \in RxParts(dev, k)
  BY <1>0 DEF RxSent
<1>6. \A i \in 1..Len(s) : i \in 1..Len(t) /\ t[i] = s[i]
  BY <1>0, <1>1, <1>2
<1>7. \A i \in 1..Len(q) : Len(s) + i \in 1..Len(t) /\ t[Len(s) + i] = q[i]
  <2> SUFFICES ASSUME NEW i \in 1..Len(q) PROVE Len(s) + i \in 1..Len(t) /\ t[Len(s) + i] = q[i]
    OBVIOUS
  <2>1. Len(t) = Len(s) + Len(q) /\ Len(s) \in Nat /\ Len(q) \in {2, 3}
    BY <1>0, <1>1, <1>2, Zenon
  <2>2. Len(s) + i \in 1..Len(t) /\ ~(Len(s) + i <= Len(s)) /\ (Len(s) + i) - Len(s) = i
    BY <2>1
  <2> QED
    BY <1>0, <2>2
<1>8. \A i \in 1..Len(t) : i \in 1..Len(s) \/ (i - Len(s) \in 1..Len(q) /\ t[i] = q[i - Len(s)])
  BY <1>0, <1>1, <1>2
<1>9. \A i \in 1..Len(s) : RxPos(s[i]) < 3 * (n + 1) + 1
  <2> SUFFICES ASSUME NEW i \in 1..Len(s) PROVE RxPos(s[i]) < 3 * (n + 1) + 1
    BY <1>0
  <2>1. s[i].f \in 1..n
    BY <1>0, <1>4 DEF RxOrigin
  <2>2. RxPos(s[i]) = 3 * s[i].f + RxRank(s[i].b) /\ RxRank(s[i].b) \in {1, 2, 3}
    BY <1>0, <1>1, RxPlaces
  <2> QED
    BY <1>0, <2>1, <2>2
<1>10. \A i \in 1..Len(q) : RxPos(q[i]) >= 3 * (n + 1) + 1
  <2> SUFFICES ASSUME NEW i \in 1..Len(q) PROVE RxPos(q[i]) >= 3 * (n + 1) + 1
    BY <1>0
  <2>1. q[i].f = n + 1 /\ q[i] \in RxBytes
    BY <1>0, <1>2, <1>5
  <2>2. RxPos(q[i]) = 3 * q[i].f + RxRank(q[i].b) /\ RxRank(q[i].b) \in {1, 2, 3}
    BY <1>0, <2>1, RxPlaces
  <2> QED
    BY <1>0, <2>1, <2>2
<1>11. ASSUME NEW i \in 1..Len(t) PROVE RxOrigin(dev, L, D, t[i])
  <2>1. CASE i \in 1..Len(s)
    <3>1. RxOrigin(dev, K, D, s[i])
      BY <1>0, <1>4, <2>1
    <3>2. s[i].f \in 1..n /\ L[s[i].f] = K[s[i].f] /\ s[i].f \in 1..Len(L)
      BY <1>0, <3>1 DEF RxOrigin
    <3>3. RxOrigin(dev, L, D, s[i])
      BY <1>0, <3>1, <3>2, Zenon DEF RxOrigin
    <3> QED
      BY <1>0, <1>6, <2>1, <3>3
  <2>2. CASE i - Len(s) \in 1..Len(q) /\ t[i] = q[i - Len(s)]
    <3>1. t[i].f = n + 1 /\ t[i].b \in RxParts(dev, k) /\ n + 1 \in 1..Len(L)
      BY <1>0, <1>5, <2>2
    <3> QED
      BY <1>0, <3>1, Zenon DEF RxOrigin
  <2> QED
    BY <1>0, <1>8, <2>1, <2>2
<1>12. RxRising(t)
  <2> SUFFICES ASSUME NEW i \in 1..Len(t), NEW j \in 1..Len(t), i < j PROVE RxPos(t[i]) < RxPos(t[j])
    BY <1>0 DEF RxRising
  <2>1. CASE i \in 1..Len(s) /\ j \in 1..Len(s)
    BY <1>0, <1>4, <1>6, <2>1 DEF RxRising
  <2>2. CASE i \in 1..Len(s) /\ ~(j \in 1..Len(s))
    <3>1. t[i] = s[i] /\ RxPos(s[i]) < 3 * (n + 1) + 1 /\ RxPos(s[i]) \in Int
      BY <1>3, <1>6, <1>9, <2>2
    <3> DEFINE y == q[j - Len(s)]
    <3>2. t[j] = y /\ RxPos(y) >= 3 * (n + 1) + 1 /\ RxPos(y) \in Int
      BY <1>3, <1>8, <1>10, <2>2
    <3> HIDE DEF y
    <3>3. RxPos(s[i]) < RxPos(y)
      BY <3>1, <3>2
    <3> QED
      BY <3>1, <3>2, <3>3, Zenon
  <2>3. CASE ~(i \in 1..Len(s))
    <3>1. ~(j \in 1..Len(s))
      BY <1>0, <1>1, <2>3
    <3>2. /\ i - Len(s) \in 1..Len(q) /\ t[i] = q[i - Len(s)]
          /\ j - Len(s) \in 1..Len(q) /\ t[j] = q[j - Len(s)]
      BY <1>0, <1>8, <2>3, <3>1
    <3>3. i - Len(s) < j - Len(s)
      BY <1>0, <1>1
    <3> QED
      BY <1>0, <1>5, <3>2, <3>3, Zenon DEF RxRising
  <2> QED
    BY <1>0, <2>1, <2>2, <2>3
<1>13. RxWhole(t, dev, L, D)
  <2> SUFFICES ASSUME NEW g \in (1..Len(L)) \ D, NEW b \in RxParts(dev, L[g]),
                      RxPos(t[1]) < 3 * g + RxRank(b)
               PROVE  RxHas(t, b, g)
    BY <1>0 DEF RxWhole
  <2>1. CASE g = n + 1
    <3>1. PICK j \in 1..Len(q) : q[j].b = b /\ q[j].f = g
      BY <1>0, <2>1 DEF RxSent, RxHas
    <3> QED
      BY <1>0, <1>7, <3>1 DEF RxHas
  <2>2. CASE g # n + 1
    <3>1. g \in (1..Len(K)) \ D /\ b \in RxParts(dev, K[g])
      BY <1>0, <2>2
    <3>2. Len(s) > 0
      <4> SUFFICES ASSUME Len(s) = 0 PROVE FALSE
        BY <1>0, <1>1
      <4>1. t[1] = q[1] /\ 1 \in 1..Len(q)
        BY <1>0, <1>2
      <4>2. RxPos(t[1]) \in Int /\ RxPos(t[1]) >= 3 * (n + 1) + 1
        BY <1>0, <1>3, <1>10, <4>1
      <4>3. RxRank(b) \in {1, 2, 3} /\ g \in Int /\ g <= n
        BY <1>0, <3>1, RxRanks
      <4> QED
        BY <1>0, <4>2, <4>3
    <3>3. RxPos(s[1]) < 3 * g + RxRank(b)
      BY <1>0, <1>1, <1>6, <3>2
    <3>4. PICK j \in 1..Len(s) : s[j].b = b /\ s[j].f = g
      BY <1>0, <1>4, <3>1, <3>2, <3>3 DEF RxWhole, RxHas
    <3> QED
      BY <1>0, <1>6, <3>4 DEF RxHas
  <2> QED
    BY <1>0, <2>1, <2>2
<1> QED
  BY <1>0, <1>11, <1>12, <1>13 DEF RxStream

(* Behind a byte the rest of an undamaged frame is there, and at once.       *)
LEMMA RxLater ==
  ASSUME NEW dev, NEW K, NEW D, NEW s, RxStream(s, dev, K, D), Len(K) \in Nat,
         NEW i \in 1..Len(s), NEW g \in (1..Len(K)) \ D, NEW b \in RxParts(dev, K[g]),
         RxPos(s[i]) < 3 * g + RxRank(b)
  PROVE  \E j \in (i + 1)..Len(s) : s[j].b = b /\ s[j].f = g
<1>1. s \in Seq(RxBytes) /\ Len(s) \in Nat /\ \A j \in 1..Len(s) : s[j] \in RxBytes
  BY DEF RxStream
<1>2. \A j \in 1..Len(s) : RxPos(s[j]) \in Int
  BY <1>1, RxPlaces
<1>3. RxRising(s) /\ RxWhole(s, dev, K, D)
  BY DEF RxStream
<1>4. 3 * g + RxRank(b) \in Int
  <2>1. RxRank(b) \in Int /\ g \in Int
    BY RxRanks
  <2> QED
    BY <2>1
<1>5. RxPos(s[1]) <= RxPos(s[i]) /\ 1 \in 1..Len(s)
  BY <1>1, <1>2, <1>3 DEF RxRising
<1>6. RxPos(s[1]) < 3 * g + RxRank(b)
  BY <1>2, <1>4, <1>5
<1>7. PICK j \in 1..Len(s) : s[j].b = b /\ s[j].f = g
  BY <1>3, <1>5, <1>6 DEF RxWhole, RxHas
<1>8. RxPos(s[j]) = 3 * g + RxRank(b)
  BY <1>7 DEF RxPos
<1>9. ~(j <= i)
  BY <1>2, <1>3, <1>8 DEF RxRising
<1> QED
  BY <1>1, <1>7, <1>9

LEMMA RxNextByte ==
  ASSUME NEW dev, NEW K, NEW D, NEW s, RxStream(s, dev, K, D), Len(K) \in Nat,
         NEW i \in 1..Len(s), s[i].f \in (1..Len(K)) \ D, NEW b \in RxParts(dev, K[s[i].f]),
         RxRank(b) = RxRank(s[i].b) + 1
  PROVE  i + 1 \in 1..Len(s) /\ s[i + 1].b = b /\ s[i + 1].f = s[i].f
<1>1. s \in Seq(RxBytes) /\ Len(s) \in Nat /\ \A j \in 1..Len(s) : s[j] \in RxBytes
  BY DEF RxStream
<1>2. \A j \in 1..Len(s) : RxPos(s[j]) \in Int
  BY <1>1, RxPlaces
<1>3. RxRising(s)
  BY DEF RxStream
<1>4. RxPos(s[i]) = 3 * s[i].f + RxRank(s[i].b) /\ RxRank(s[i].b) \in Int /\ s[i].f \in Int
  BY <1>1, RxPlaces
<1>5. RxPos(s[i]) < 3 * s[i].f + RxRank(b)
  BY <1>4
<1>6. PICK j \in (i + 1)..Len(s) : s[j].b = b /\ s[j].f = s[i].f
  BY <1>5, RxLater
<1>7. RxPos(s[j]) = RxPos(s[i]) + 1
  <2>1. RxPos(s[j]) = 3 * s[i].f + RxRank(b)
    BY <1>6 DEF RxPos
  <2> DEFINE r == RxRank(s[i].b)
             g == 3 * s[i].f
             u == RxPos(s[i])
             v == RxPos(s[j])
  <2>2. v = g + RxRank(b) /\ RxRank(b) = r + 1 /\ u = g + r
    BY <1>4, <2>1, Zenon
  <2>3. r \in Int /\ g \in Int
    BY <1>4
  <2>4. v = g + (r + 1)
    BY <2>2, Zenon
  <2> HIDE DEF r, g, u, v
  <2>5. v = u + 1
    BY <2>2, <2>3, <2>4
  <2> QED
    BY <2>5, Zenon DEF u, v
<1>8. j \in 1..Len(s) /\ i + 1 \in 1..Len(s)
  BY <1>1, <1>6
<1>9. ~(i + 1 < j)
  <2> SUFFICES ASSUME i + 1 < j PROVE FALSE
    OBVIOUS
  <2>1. RxPos(s[i]) < RxPos(s[i + 1]) /\ RxPos(s[i + 1]) < RxPos(s[j])
    BY <1>3, <1>8 DEF RxRising
  <2> QED
    BY <1>2, <1>7, <1>8, <2>1
<1>10. j = i + 1
  BY <1>6, <1>9
<1> QED
  BY <1>6, <1>8, <1>10

-----------------------------------------------------------------------------
(* The adapter's frames and the parser. *)

RxAhead == m_RxBuff \o rxWire

RxType ==
  /\ rxDevice \in {"STM32", "LAWICEL"} /\ rxKinds \in Seq(RxKinds(rxDevice))
  /\ rxDamaged \subseteq 1..Len(rxKinds) /\ rxWiped \subseteq 1..Len(rxKinds) /\ rxThrows \in Nat
  /\ m_RxBuff \in Seq(RxBytes) /\ rxWire \in Seq(RxBytes)
  /\ rxTaken \in Seq([f : Nat, payload : RxLetters])
  /\ rxParsing \in BOOLEAN /\ rxTorn \in BOOLEAN

RxFlow == RxStream(RxAhead, rxDevice, rxKinds, rxDamaged)

(* What was taken lies before what is under way.                             *)
RxBehind == \A i \in 1..Len(rxTaken) :
  rxTaken[i].f \in 1..Len(rxKinds) /\ \A j \in 1..Len(RxAhead) : rxTaken[i].f < RxAhead[j].f

(* A frame with no excuse is taken, or still to be parsed from its start.    *)
RxGood(g) ==
  /\ g \notin rxDamaged /\ g - 1 \notin rxDamaged
  /\ rxDevice = "STM32" => ~(/\ \E d \in rxDamaged : d < g
                             /\ \E h \in 1..Len(rxKinds) : rxKinds[h] = "holds")
  /\ rxDevice = "LAWICEL" => rxKinds[g] = "data" /\ g \notin rxWiped
RxTook(g) == \E i \in 1..Len(rxTaken) : rxTaken[i].f = g
RxStarts(s, g) == \E j \in 1..Len(s) : s[j].f = g /\ RxRank(s[j].b) = 1
RxKept == ~rxTorn => \A g \in 1..Len(rxKinds) : RxGood(g) => RxTook(g) \/ RxStarts(RxAhead, g)

(* A whole line is erased with the buffer only behind one that is not right. *)
RxCause == \A g \in rxWiped :
  g \in rxDamaged \/ g - 1 \in rxDamaged \/ rxKinds[g] # "data"
    \/ \E h \in 1..(g - 1) : h \in rxDamaged \/ rxKinds[h] = "empty"

(* Each exception has a damaged line of its own.                             *)
RxThrown == \E X \in SUBSET rxDamaged :
  /\ IsFiniteSet(X) /\ Cardinality(X) = rxThrows
  /\ \A x \in X : \A j \in 1..Len(RxAhead) : x < RxAhead[j].f

RxHalted == rxTorn => m_RxBuff = <<>> /\ rxWire = <<>> /\ ~rxParsing

RxInv == RxType /\ RxFlow /\ TakenInOrder /\ RxBehind /\ RxKept /\ RxCause /\ RxThrown /\ RxHalted

LEMMA RxMeans == RxInv => RxSafe
<1> SUFFICES ASSUME RxInv PROVE RxSafe
  OBVIOUS
<1>1. RxType /\ TakenInOrder /\ RxKept /\ RxCause /\ RxThrown
  BY DEF RxInv
<1>2. MissingHasCause
  <2> SUFFICES ASSUME ~rxTorn, NEW g \in 1..Len(rxKinds), Missed(g),
                      g - 1 \notin rxDamaged,
                      ~(/\ rxDevice = "STM32" /\ \E h \in rxDamaged : h < g
                        /\ \E h \in 1..Len(rxKinds) : rxKinds[h] = "holds"),
                      ~(rxDevice = "LAWICEL" /\ rxKinds[g] # "data")
               PROVE  g \in rxWiped /\ \E h \in 1..(g - 1) : h \in rxDamaged \/ rxKinds[h] = "empty"
    BY Zenon DEF MissingHasCause
  <2>1. g \notin rxDamaged /\ g \notin InFlightFrames /\ ~RxTook(g)
    BY DEF Missed, Arrived, RxTook
  <2>2. ~RxStarts(RxAhead, g)
    <3> SUFFICES ASSUME NEW j \in 1..Len(RxAhead), RxAhead[j].f = g PROVE FALSE
      BY DEF RxStarts
    <3>1. m_RxBuff \in Seq(RxBytes) /\ rxWire \in Seq(RxBytes)
      BY <1>1 DEF RxType
    <3>2. RxAhead[j] = IF j <= Len(m_RxBuff) THEN m_RxBuff[j] ELSE rxWire[j - Len(m_RxBuff)]
      BY <3>1 DEF RxAhead
    <3>3. j \in 1..Len(m_RxBuff) \/ j - Len(m_RxBuff) \in 1..Len(rxWire)
      BY <3>1 DEF RxAhead
    <3>4. g \in InFlightFrames
      BY <3>1, <3>2, <3>3 DEF InFlightFrames
    <3> QED
      BY <2>1, <3>4
  <2>3. ~RxGood(g)
    BY <1>1, <2>1, <2>2, Zenon DEF RxKept
  <2>4. rxDevice = "LAWICEL" /\ rxKinds[g] = "data" /\ g \in rxWiped
    BY <1>1, <2>1, <2>3 DEF RxGood, RxType
  <2> QED
    BY <1>1, <2>1, <2>4 DEF RxCause
<1>3. ThrowNeedsDamage
  <2>1. PICK X \in SUBSET rxDamaged : Cardinality(X) = rxThrows
    BY <1>1 DEF RxThrown
  <2>2. IsFiniteSet(1..Len(rxKinds))
    BY <1>1, FS_Interval DEF RxType
  <2>3. IsFiniteSet(rxDamaged)
    BY <1>1, <2>2, FS_Subset DEF RxType
  <2>4. Cardinality(X) <= Cardinality(rxDamaged)
    BY <2>3, FS_Subset
  <2> QED
    BY <2>1, <2>4 DEF ThrowNeedsDamage
<1> QED
  BY <1>1, <1>2, <1>3 DEF RxSafe

LEMMA RxStarted == RxInit => RxInv
<1> SUFFICES ASSUME RxInit PROVE RxInv
  OBVIOUS
<1>0. rxWire = <<>> /\ m_RxBuff = <<>> /\ rxKinds = <<>> /\ rxTaken = <<>> /\ rxDamaged = {} /\ rxWiped = {}
      /\ rxThrows = 0 /\ rxParsing = FALSE /\ rxTorn = FALSE /\ rxDevice \in {"STM32", "LAWICEL"}
  BY DEF RxInit
<1>1. RxAhead = <<>> /\ Len(RxAhead) = 0 /\ RxAhead \in Seq(RxBytes)
  BY <1>0 DEF RxAhead
<1>2. RxType
  <2>1. /\ rxKinds \in Seq(RxKinds(rxDevice)) /\ m_RxBuff \in Seq(RxBytes) /\ rxWire \in Seq(RxBytes)
        /\ rxTaken \in Seq([f : Nat, payload : RxLetters])
    BY <1>0
  <2>2. /\ rxDamaged \subseteq 1..Len(rxKinds) /\ rxWiped \subseteq 1..Len(rxKinds) /\ rxThrows \in Nat
        /\ rxParsing \in BOOLEAN /\ rxTorn \in BOOLEAN
    BY <1>0
  <2> QED
    BY <1>0, <2>1, <2>2, Zenon DEF RxType
<1>3. RxFlow
  BY <1>0, <1>1 DEF RxFlow, RxStream, RxRising, RxWhole
<1>4. RxThrown
  <2>1. IsFiniteSet({}) /\ Cardinality({}) = 0
    BY FS_EmptySet
  <2> QED
    BY <1>0, <2>1 DEF RxThrown
<1> QED
  BY <1>0, <1>1, <1>2, <1>3, <1>4 DEF RxInv, TakenInOrder, RxBehind, RxKept, RxCause, RxHalted

LEMMA RxGoodWas ==
  ASSUME rxDevice' = rxDevice, rxDamaged \subseteq rxDamaged', rxWiped \subseteq rxWiped',
         Len(rxKinds) \in Nat, Len(rxKinds') \in Nat, Len(rxKinds) <= Len(rxKinds'),
         \A h \in 1..Len(rxKinds) : rxKinds'[h] = rxKinds[h],
         NEW g \in 1..Len(rxKinds), RxGood(g)'
  PROVE  RxGood(g)
<1>1. \A h \in 1..Len(rxKinds) : h \in 1..Len(rxKinds')
  OBVIOUS
<1> QED
  BY <1>1 DEF RxGood

(* A frame taken keeps the order if it lies before all that is left.         *)
RxTakes ==
  \/ UNCHANGED rxTaken
  \/ \E c \in 1..Len(rxKinds), p \in RxLetters :
       /\ rxTaken' = Append(rxTaken, [f |-> c, payload |-> p])
       /\ p = rxKinds[c] \/ (rxDevice = "LAWICEL" /\ p = "wrong" /\ c \in rxDamaged)
       /\ \E j \in 1..Len(RxAhead) : RxAhead[j].f = c
       /\ \A j \in 1..Len(RxAhead') : c < RxAhead'[j].f

LEMMA RxTakesRight ==
  ASSUME RxInv, RxType', RxTakes, UNCHANGED <<rxDevice, rxKinds>>, rxDamaged \subseteq rxDamaged',
         \A i \in 1..Len(RxAhead') : \E j \in 1..Len(RxAhead) : RxAhead'[i].f = RxAhead[j].f
  PROVE  TakenInOrder' /\ RxBehind' /\ \A g : RxTook(g) => RxTook(g)'
<1>1. RxType /\ TakenInOrder /\ RxBehind
  BY DEF RxInv
<1>2. /\ rxTaken \in Seq([f : Nat, payload : RxLetters]) /\ Len(rxTaken) \in Nat
      /\ \A i \in 1..Len(rxTaken) : rxTaken[i].f \in Nat
  <2>1. rxTaken \in Seq([f : Nat, payload : RxLetters])
    BY <1>1, Zenon DEF RxType
  <2>2. Len(rxTaken) \in Nat
    BY <2>1
  <2>3. ASSUME NEW i \in 1..Len(rxTaken) PROVE rxTaken[i].f \in Nat
    <3>1. rxTaken[i] \in [f : Nat, payload : RxLetters]
      BY <2>1, ElementOfSeq, Zenon
    <3> QED
      BY <3>1
  <2> QED
    BY <2>1, <2>2, <2>3
<1>3. CASE UNCHANGED rxTaken
  BY <1>1, <1>2, <1>3 DEF TakenInOrder, RxBehind, RxTook
<1>4. ASSUME NEW c \in 1..Len(rxKinds), NEW p \in RxLetters,
             rxTaken' = Append(rxTaken, [f |-> c, payload |-> p]),
             p = rxKinds[c] \/ (rxDevice = "LAWICEL" /\ p = "wrong" /\ c \in rxDamaged),
             \E j \in 1..Len(RxAhead) : RxAhead[j].f = c,
             \A j \in 1..Len(RxAhead') : c < RxAhead'[j].f
      PROVE  TakenInOrder' /\ RxBehind' /\ \A g : RxTook(g) => RxTook(g)'
  <2> DEFINE e == [f |-> c, payload |-> p]
             n == Len(rxTaken)
  <2>1. e.f = c /\ e.payload = p /\ e \in [f : Nat, payload : RxLetters]
    OBVIOUS
  <2> HIDE DEF e
  <2>2. /\ Len(rxTaken') = n + 1 /\ rxTaken'[n + 1] = e /\ n + 1 \in 1..Len(rxTaken')
        /\ \A i \in 1..n : rxTaken'[i] = rxTaken[i] /\ i \in 1..Len(rxTaken')
        /\ \A i \in 1..Len(rxTaken') : i \in 1..n \/ i = n + 1
    BY <1>2, <1>4, <2>1 DEF e
  <2>3. \A i \in 1..n : rxTaken[i].f < c
    BY <1>1, <1>4 DEF RxBehind
  <2>4. TakenInOrder'
    <3>1. ASSUME NEW i \in 1..Len(rxTaken'), NEW j \in 1..Len(rxTaken'), i < j
          PROVE  rxTaken'[i].f < rxTaken'[j].f
      <4>1. i \in 1..n
        BY <1>2, <2>2, <3>1
      <4>2. CASE j \in 1..n
        BY <1>1, <2>2, <3>1, <4>1, <4>2 DEF TakenInOrder
      <4>3. CASE j = n + 1
        BY <2>1, <2>2, <2>3, <4>1, <4>3
      <4> QED
        BY <2>2, <4>2, <4>3
    <3>2. ASSUME NEW i \in 1..Len(rxTaken')
          PROVE  LET t == rxTaken'[i] IN
                   t.payload = rxKinds'[t.f] \/ (rxDevice' = "LAWICEL" /\ t.payload = "wrong" /\ t.f \in rxDamaged')
      <4>1. CASE i \in 1..n
        <5>1. rxTaken[i].payload = rxKinds[rxTaken[i].f]
              \/ (rxDevice = "LAWICEL" /\ rxTaken[i].payload = "wrong" /\ rxTaken[i].f \in rxDamaged)
          BY <1>1, <4>1 DEF TakenInOrder
        <5> QED
          BY <2>2, <4>1, <5>1
      <4>2. CASE i = n + 1
        BY <1>4, <2>1, <2>2, <4>2
      <4> QED
        BY <2>2, <4>1, <4>2
    <3> QED
      BY <3>1, <3>2, Zenon DEF TakenInOrder
  <2>5. RxBehind'
    <3> SUFFICES ASSUME NEW i \in 1..Len(rxTaken')
                 PROVE  rxTaken'[i].f \in 1..Len(rxKinds') /\ \A j \in 1..Len(RxAhead') : rxTaken'[i].f < RxAhead'[j].f
      BY Zenon DEF RxBehind
    <3>1. CASE i \in 1..n
      BY <1>1, <2>2, <3>1 DEF RxBehind
    <3>2. CASE i = n + 1
      BY <1>4, <2>1, <2>2, <3>2
    <3> QED
      BY <2>2, <3>1, <3>2
  <2>6. \A g : RxTook(g) => RxTook(g)'
    BY <2>2 DEF RxTook
  <2> QED
    BY <2>4, <2>5, <2>6
<1> QED
  BY <1>3, <1>4, Zenon DEF RxTakes

(* A step of the line or of the parser. *)
LEMMA RxStep ==
  ASSUME RxInv, UNCHANGED <<rxDevice, rxKinds>>, ~rxTorn, ~rxTorn', RxType', RxFlow', RxTakes,
         rxDamaged \subseteq rxDamaged', rxWiped \subseteq rxWiped', RxCause', RxThrown',
         \A i \in 1..Len(RxAhead') : \E j \in 1..Len(RxAhead) : RxAhead'[i].f = RxAhead[j].f,
         \A g \in 1..Len(rxKinds) :
           RxGood(g) /\ RxGood(g)' /\ RxStarts(RxAhead, g) => RxTook(g)' \/ RxStarts(RxAhead', g)
  PROVE  RxInv'
<1>1. TakenInOrder' /\ RxBehind' /\ \A g : RxTook(g) => RxTook(g)'
  BY RxTakesRight, Zenon
<1>2. \A g \in 1..Len(rxKinds) : RxGood(g)' => RxGood(g)
  <2> SUFFICES ASSUME NEW g \in 1..Len(rxKinds), RxGood(g)' PROVE RxGood(g)
    OBVIOUS
  <2>1. Len(rxKinds) \in Nat /\ rxKinds' = rxKinds
    BY DEF RxInv, RxType
  <2> QED
    BY <2>1, RxGoodWas
<1>3. RxKept'
  <2> SUFFICES ASSUME NEW g \in 1..Len(rxKinds'), RxGood(g)' PROVE RxTook(g)' \/ RxStarts(RxAhead, g)'
    BY Zenon DEF RxKept
  <2>1. g \in 1..Len(rxKinds) /\ RxGood(g)
    BY <1>2
  <2>2. RxTook(g) \/ RxStarts(RxAhead, g)
    BY <2>1, Zenon DEF RxInv, RxKept
  <2>3. RxStarts(RxAhead', g) = RxStarts(RxAhead, g)'
    BY DEF RxStarts
  <2> QED
    BY <1>1, <2>1, <2>2, <2>3
<1>4. RxHalted'
  BY DEF RxHalted
<1> QED
  BY <1>1, <1>3, <1>4 DEF RxInv

LEMMA RxAheadIs ==
  ASSUME RxType
  PROVE  /\ RxAhead \in Seq(RxBytes) /\ Len(RxAhead) = Len(m_RxBuff) + Len(rxWire)
         /\ Len(m_RxBuff) \in Nat /\ Len(rxWire) \in Nat /\ Len(RxAhead) \in Nat
         /\ \A i \in 1..Len(m_RxBuff) : i \in 1..Len(RxAhead) /\ RxAhead[i] = m_RxBuff[i]
         /\ \A i \in 1..Len(rxWire) : Len(m_RxBuff) + i \in 1..Len(RxAhead) /\ RxAhead[Len(m_RxBuff) + i] = rxWire[i]
<1>1. m_RxBuff \in Seq(RxBytes) /\ rxWire \in Seq(RxBytes)
  BY Zenon DEF RxType
<1> QED
  BY <1>1 DEF RxAhead

LEMMA RxThrownSame ==
  ASSUME RxInv, rxThrows' = rxThrows, rxDamaged \subseteq rxDamaged',
         \A i \in 1..Len(RxAhead') : \E j \in 1..Len(RxAhead) : RxAhead'[i].f = RxAhead[j].f
  PROVE  RxThrown'
<1>1. PICK X \in SUBSET rxDamaged : /\ IsFiniteSet(X) /\ Cardinality(X) = rxThrows
                                    /\ \A x \in X : \A j \in 1..Len(RxAhead) : x < RxAhead[j].f
  BY Zenon DEF RxInv, RxThrown
<1>2. \A x \in X : \A j \in 1..Len(RxAhead') : x < RxAhead'[j].f
  BY <1>1
<1> QED
  BY <1>1, <1>2 DEF RxThrown

LEMMA RxCauseSame ==
  ASSUME RxInv, rxWiped' = rxWiped, rxKinds' = rxKinds, rxDamaged \subseteq rxDamaged'
  PROVE  RxCause'
BY DEF RxInv, RxCause

(* The front moves on by n bytes.                                            *)
RxMoves(n) ==
  /\ n \in Nat /\ n <= Len(RxAhead) /\ RxAhead' = SubSeq(RxAhead, n + 1, Len(RxAhead))
  /\ UNCHANGED <<rxDevice, rxKinds>> /\ rxDamaged \subseteq rxDamaged'

LEMMA RxMoved ==
  ASSUME RxInv, NEW n, RxMoves(n)
  PROVE  /\ RxFlow'
         /\ \A i \in 1..Len(RxAhead') : \E j \in 1..Len(RxAhead) : RxAhead'[i].f = RxAhead[j].f
         /\ \A i \in 1..Len(RxAhead') : \A k \in 1..n :
              /\ RxAhead[k].f <= RxAhead'[i].f
              /\ RxRank(RxAhead[k].b) = 3 => RxAhead[k].f < RxAhead'[i].f
         /\ \A g \in 1..Len(rxKinds) : RxStarts(RxAhead, g) =>
              RxStarts(RxAhead', g) \/ \E j \in 1..n : RxAhead[j].f = g /\ RxRank(RxAhead[j].b) = 1
<1> DEFINE s == RxAhead
           t == RxAhead'
<1>1. s \in Seq(RxBytes) /\ Len(s) \in Nat
  BY RxAheadIs, Zenon DEF RxInv
<1>2. n \in Nat /\ n <= Len(s) /\ t = SubSeq(s, n + 1, Len(s)) /\ rxDevice' = rxDevice /\ rxKinds' = rxKinds
      /\ rxDamaged \subseteq rxDamaged'
  BY DEF RxMoves
<1>3. Len(rxKinds) \in Nat
  BY DEF RxInv, RxType
<1>4. RxStream(s, rxDevice, rxKinds, rxDamaged)
  BY Zenon DEF RxInv, RxFlow
<1> HIDE DEF s, t
<1>5. RxStream(t, rxDevice, rxKinds, rxDamaged')
  BY <1>2, <1>3, <1>4, RxStreamDrop, Zenon
<1>6. RxFlow'
  BY <1>2, <1>5, Zenon DEF RxFlow, t
<1>7. Len(t) = Len(s) - n /\ \A i \in 1..Len(t) : i + n \in 1..Len(s) /\ t[i] = s[i + n]
  BY <1>1, <1>2
<1>8. \A i \in 1..Len(t) : \E j \in 1..Len(s) : t[i].f = s[j].f
  BY <1>7
<1>9. ASSUME NEW i \in 1..Len(t), NEW k \in 1..n
      PROVE  s[k].f <= t[i].f /\ (RxRank(s[k].b) = 3 => s[k].f < t[i].f)
  <2>1. k \in 1..Len(s) /\ i + n \in 1..Len(s) /\ k < i + n
    BY <1>1, <1>2, <1>7
  <2>2. RxPos(s[k]) < RxPos(s[i + n])
    BY <1>4, <2>1 DEF RxStream, RxRising
  <2>3. s[k] \in RxBytes /\ s[i + n] \in RxBytes
    BY <1>1, <2>1, ElementOfSeq, Zenon
  <2>4. t[i] = s[i + n]
    BY <1>7
  <2> QED
    BY <2>2, <2>3, <2>4, RxOrder, Zenon
<1>10. ASSUME NEW g \in 1..Len(rxKinds), RxStarts(s, g), ~RxStarts(t, g)
       PROVE  \E j \in 1..n : s[j].f = g /\ RxRank(s[j].b) = 1
  <2>1. PICK j \in 1..Len(s) : s[j].f = g /\ RxRank(s[j].b) = 1
    BY <1>10 DEF RxStarts
  <2>2. CASE j <= n
    <3>1. j \in 1..n
      BY <1>2, <2>2
    <3> QED
      BY <2>1, <3>1
  <2>3. CASE j > n
    <3>0. j - n \in 1..Len(t) /\ (j - n) + n = j
      BY <1>1, <1>2, <1>7, <2>3
    <3>1. j - n \in 1..Len(t) /\ t[j - n] = s[j]
      BY <1>7, <3>0
    <3> QED
      BY <1>10, <2>1, <3>1 DEF RxStarts
  <2> QED
    BY <1>2, <2>2, <2>3
<1> QED
  BY <1>6, <1>8, <1>9, <1>10, Zenon DEF s, t

(* Nothing leaves the parser's input.                                        *)
LEMMA RxSame ==
  ASSUME RxInv, UNCHANGED <<rxDevice, rxKinds, rxTaken, rxDamaged, rxWiped, rxThrows, RxAhead>>,
         ~rxTorn, ~rxTorn', RxType'
  PROVE  RxInv'
<1>0. RxAhead \in Seq(RxBytes) /\ Len(RxAhead) \in Nat /\ RxAhead' = RxAhead
  BY RxAheadIs, Zenon DEF RxInv
<1>1. RxMoves(0)
  BY <1>0 DEF RxMoves
<1>2. RxFlow' /\ \A i \in 1..Len(RxAhead') : \E j \in 1..Len(RxAhead) : RxAhead'[i].f = RxAhead[j].f
  BY <1>1, RxMoved, Zenon
<1>3. RxCause' /\ RxThrown'
  BY <1>2, RxCauseSame, RxThrownSame
<1>4. \A g \in 1..Len(rxKinds) : RxStarts(RxAhead, g) => RxStarts(RxAhead', g)
  BY <1>0
<1>5. RxTakes
  BY DEF RxTakes
<1> QED
  BY <1>2, <1>3, <1>4, <1>5, RxStep, Zenon

LEMMA RxBegins ==
  ASSUME RxInv, RxBegin \/ LawicelNoLine \/ UNCHANGED rxVars
  PROVE  RxInv'
<1>1. UNCHANGED <<rxDevice, rxKinds, rxTaken, rxDamaged, rxWiped, rxThrows, rxTorn, m_RxBuff, rxWire>>
  BY DEF RxBegin, LawicelNoLine, rxVars, rxHistory
<1>2. RxAhead' = RxAhead
  BY <1>1 DEF RxAhead
<1>3. rxParsing' \in BOOLEAN
  BY DEF RxBegin, LawicelNoLine, rxVars, RxInv, RxType
<1>4. RxType'
  BY <1>1, <1>3 DEF RxInv, RxType
<1>5. CASE ~rxTorn
  BY <1>1, <1>2, <1>4, <1>5, RxSame
<1>6. CASE rxTorn
  <2>1. m_RxBuff = <<>> /\ ~rxParsing
    BY <1>6 DEF RxInv, RxHalted
  <2>2. UNCHANGED rxVars
    BY <1>6, <2>1 DEF RxBegin, LawicelNoLine
  <2>3. rxParsing' = rxParsing
    BY <2>2 DEF rxVars
  <2> QED
    BY <1>1, <1>2, <1>4, <2>3 DEF RxInv, RxFlow, TakenInOrder, RxBehind, RxKept, RxCause, RxThrown, RxHalted,
       RxGood, RxTook, RxStarts
<1> QED
  BY <1>5, <1>6

(* A byte arrives; a full buffer loses its oldest.                           *)
LEMMA RxArrives ==
  ASSUME RxInv, RxArrive
  PROVE  RxInv'
<1>1. /\ rxWire # <<>> /\ rxWire' = Tail(rxWire)
      /\ UNCHANGED <<rxDevice, rxParsing, rxTorn, rxKinds, rxTaken, rxWiped, rxThrows>>
  BY DEF RxArrive
<1>2. RxType /\ m_RxBuff \in Seq(RxBytes) /\ rxWire \in Seq(RxBytes) /\ Len(rxKinds) \in Nat
  BY DEF RxInv, RxType
<1>3. ~rxTorn /\ ~rxTorn'
  BY <1>1 DEF RxInv, RxHalted
<1>4. Tail(rxWire) \in Seq(RxBytes) /\ Head(rxWire) \in RxBytes
  BY <1>1, <1>2
<1>5. CASE Len(m_RxBuff) < RxCapacity
  <2>1. m_RxBuff' = Append(m_RxBuff, Head(rxWire)) /\ rxDamaged' = rxDamaged
    BY <1>5 DEF RxArrive
  <2>2. RxAhead' = RxAhead
    BY <1>1, <1>2, <2>1 DEF RxAhead
  <2>3. m_RxBuff' \in Seq(RxBytes) /\ rxWire' \in Seq(RxBytes)
    BY <1>1, <1>2, <1>4, <2>1
  <2>4. RxType'
    BY <1>1, <1>2, <2>1, <2>3 DEF RxType
  <2> QED
    BY <1>1, <1>3, <2>1, <2>2, <2>4, RxSame
<1>6. CASE ~(Len(m_RxBuff) < RxCapacity)
  <2> DEFINE x == Head(m_RxBuff)
             y == Head(rxWire)
             b == Tail(m_RxBuff)
             w == Tail(rxWire)
  <2>1. m_RxBuff' = Append(b, y) /\ rxDamaged' = rxDamaged \cup {x.f}
    BY <1>6 DEF RxArrive
  <2>2. Len(m_RxBuff) \in Nat /\ Len(m_RxBuff) > 0
    BY <1>2, <1>6, RxAssumption
  <2>3. b \in Seq(RxBytes) /\ x \in RxBytes /\ m_RxBuff = <<x>> \o b /\ rxWire = <<y>> \o w
    BY <1>1, <1>2, <2>2
  <2>4. RxAhead = <<x>> \o (b \o rxWire) /\ RxAhead' = b \o rxWire
    <3> HIDE DEF x, y, b, w
    <3>1. y \in RxBytes /\ w \in Seq(RxBytes)
      BY <1>4 DEF y, w
    <3>2. rxWire' = w
      BY <1>1 DEF w
    <3>3. (<<x>> \o b) \o rxWire = <<x>> \o (b \o rxWire)
      BY <1>2, <2>3
    <3>4. Append(b, y) \o w = b \o (<<y>> \o w)
      BY <2>3, <3>1
    <3> QED
      BY <2>1, <2>3, <3>2, <3>3, <3>4, Zenon DEF RxAhead
  <2>5. b \o rxWire \in Seq(RxBytes)
    BY <1>2, <2>3
  <2>6. /\ Len(RxAhead) >= 1 /\ RxAhead[1] = x /\ RxAhead' = SubSeq(RxAhead, 1 + 1, Len(RxAhead))
        /\ RxAhead \in Seq(RxBytes)
    <3> DEFINE r == b \o rxWire
    <3>1. RxAhead = <<x>> \o r /\ RxAhead' = r /\ r \in Seq(RxBytes)
      BY <2>4, <2>5
    <3> HIDE DEF r, x
    <3> QED
      BY <2>3, <3>1
  <2>7. RxMoves(1)
    BY <1>1, <2>1, <2>6 DEF RxMoves
  <2>8. /\ RxFlow'
        /\ \A i \in 1..Len(RxAhead') : \E j \in 1..Len(RxAhead) : RxAhead'[i].f = RxAhead[j].f
        /\ \A g \in 1..Len(rxKinds) : RxStarts(RxAhead, g) =>
             RxStarts(RxAhead', g) \/ \E j \in 1..1 : RxAhead[j].f = g /\ RxRank(RxAhead[j].b) = 1
    BY <2>7, RxMoved, Zenon
  <2>9. x.f \in 1..Len(rxKinds)
    <3>1. 1 \in 1..Len(RxAhead)
      BY <2>6
    <3> QED
      BY <2>6, <3>1 DEF RxInv, RxFlow, RxStream, RxOrigin
  <2>10. RxType'
    <3>1. m_RxBuff' \in Seq(RxBytes) /\ rxWire' \in Seq(RxBytes)
      BY <1>1, <1>4, <2>1, <2>3
    <3>2. rxDamaged' \subseteq 1..Len(rxKinds)
      BY <1>2, <2>1, <2>9 DEF RxType
    <3> QED
      BY <1>1, <1>2, <3>1, <3>2 DEF RxType
  <2>11. rxDamaged \subseteq rxDamaged' /\ RxTakes /\ rxWiped \subseteq rxWiped'
    BY <1>1, <2>1 DEF RxTakes
  <2>12. RxCause' /\ RxThrown'
    BY <1>1, <2>8, <2>11, RxCauseSame, RxThrownSame
  <2>13. \A g \in 1..Len(rxKinds) : RxGood(g)' /\ RxStarts(RxAhead, g) => RxStarts(RxAhead', g)
    <3> SUFFICES ASSUME NEW g \in 1..Len(rxKinds), RxGood(g)', RxStarts(RxAhead, g) PROVE RxStarts(RxAhead', g)
      OBVIOUS
    <3>1. g # x.f
      BY <2>1 DEF RxGood
    <3> QED
      BY <2>6, <2>8, <3>1
  <2> QED
    BY <1>1, <1>3, <2>8, <2>10, <2>11, <2>12, <2>13, RxStep, Zenon
<1> QED
  BY <1>5, <1>6

(* The line loses a byte, or changes one. *)
LEMMA RxDamages ==
  ASSUME RxInv, RxDamage
  PROVE  RxInv'
<1> DEFINE h == Head(rxWire)
           p == Len(m_RxBuff) + 1
           s == RxAhead
           t == RxAhead'
<1>1. /\ rxWire # <<>> /\ rxDamaged' = rxDamaged \cup {h.f}
      /\ UNCHANGED <<rxDevice, m_RxBuff, rxParsing, rxTorn, rxKinds, rxTaken, rxWiped, rxThrows>>
  BY DEF RxDamage
<1>2. PICK d \in Damages(h.b) : rxWire' = Bytes(d, h.f) \o Tail(rxWire)
  BY DEF RxDamage
<1>3. RxType /\ m_RxBuff \in Seq(RxBytes) /\ rxWire \in Seq(RxBytes) /\ Len(rxKinds) \in Nat
  BY DEF RxInv, RxType
<1>4. ~rxTorn /\ ~rxTorn'
  BY <1>1 DEF RxInv, RxHalted
<1>5. /\ h \in RxBytes /\ Tail(rxWire) \in Seq(RxBytes) /\ Len(Tail(rxWire)) = Len(rxWire) - 1
      /\ rxWire[1] = h /\ \A i \in 1..Len(Tail(rxWire)) : Tail(rxWire)[i] = rxWire[i + 1]
  BY <1>1, <1>3
<1>6. /\ s \in Seq(RxBytes) /\ Len(s) = Len(m_RxBuff) + Len(rxWire) /\ Len(m_RxBuff) \in Nat
      /\ Len(rxWire) \in Nat /\ Len(rxWire) >= 1 /\ p \in 1..Len(s)
      /\ \A i \in 1..Len(m_RxBuff) : s[i] = m_RxBuff[i]
      /\ \A i \in 1..Len(rxWire) : s[Len(m_RxBuff) + i] = rxWire[i]
  BY <1>1, <1>3 DEF RxAhead
<1>7. s[p] = h
  BY <1>5, <1>6
<1>8. RxStream(s, rxDevice, rxKinds, rxDamaged)
  BY Zenon DEF RxInv, RxFlow
<1>9. RxOrigin(rxDevice, rxKinds, rxDamaged, h)
  BY <1>6, <1>7, <1>8, Zenon DEF RxStream
<1>10. h.f \in 1..Len(rxKinds)
  BY <1>9 DEF RxOrigin
<1>11. rxDamaged \subseteq rxDamaged' /\ RxTakes /\ rxWiped \subseteq rxWiped' /\ h.f \in rxDamaged'
  BY <1>1 DEF RxTakes
<1>12. /\ RxStream(t, rxDevice, rxKinds, rxDamaged') /\ rxWire' \in Seq(RxBytes)
       /\ \A i \in 1..Len(t) : \E j \in 1..Len(s) : t[i].f = s[j].f
       /\ \A j \in 1..Len(s) : j = p \/ \E i \in 1..Len(t) : t[i] = s[j]
  <2>1. CASE d = <<>>
    <3>1. Bytes(d, h.f) = <<>>
      BY <2>1 DEF Bytes
    <3>2. rxWire' = Tail(rxWire)
      <4> DEFINE w == Tail(rxWire)
      <4>1. w \in Seq(RxBytes) /\ rxWire' = <<>> \o w
        BY <1>2, <1>5, <3>1
      <4> HIDE DEF w
      <4> QED
        BY <4>1 DEF w
    <3>3. t = m_RxBuff \o Tail(rxWire)
      BY <1>1, <3>2, Zenon DEF RxAhead
    <3> HIDE DEF t
    <3>4. /\ t \in Seq(RxBytes) /\ Len(t) = Len(s) - 1 /\ Len(t) = Len(m_RxBuff) + Len(Tail(rxWire))
          /\ \A i \in 1..Len(t) : t[i] = IF i <= Len(m_RxBuff) THEN m_RxBuff[i] ELSE Tail(rxWire)[i - Len(m_RxBuff)]
      BY <1>3, <1>5, <1>6, <3>3
    <3>5. ASSUME NEW i \in 1..Len(t) PROVE t[i] = IF i < p THEN s[i] ELSE s[i + 1]
      <4>1. CASE i < p
        <5>1. i \in 1..Len(m_RxBuff) /\ i <= Len(m_RxBuff)
          BY <1>6, <4>1
        <5>2. t[i] = m_RxBuff[i]
          BY <3>4, <5>1
        <5>3. s[i] = m_RxBuff[i]
          BY <1>6, <5>1
        <5> QED
          BY <4>1, <5>2, <5>3
      <4>2. CASE ~(i < p)
        <5>1. i - Len(m_RxBuff) \in 1..Len(Tail(rxWire)) /\ ~(i <= Len(m_RxBuff))
          BY <1>6, <3>4, <4>2
        <5>2. t[i] = Tail(rxWire)[i - Len(m_RxBuff)]
          BY <3>4, <5>1
        <5>3. Tail(rxWire)[i - Len(m_RxBuff)] = rxWire[(i - Len(m_RxBuff)) + 1]
          BY <1>5, <5>1
        <5>4. (i - Len(m_RxBuff)) + 1 \in 1..Len(rxWire)
          BY <1>5, <1>6, <5>1
        <5>5. s[Len(m_RxBuff) + ((i - Len(m_RxBuff)) + 1)] = rxWire[(i - Len(m_RxBuff)) + 1]
          BY <1>6, <5>4
        <5>6. Len(m_RxBuff) + ((i - Len(m_RxBuff)) + 1) = i + 1
          BY <1>6
        <5> QED
          BY <4>2, <5>2, <5>3, <5>5, <5>6
      <4> QED
        BY <4>1, <4>2
    <3> HIDE DEF s, p, h
    <3>6. RxStream(t, rxDevice, rxKinds, rxDamaged')
      <4>1. p \in Nat /\ s[p].f \in rxDamaged'
        BY <1>6, <1>7, <1>11
      <4> QED
        BY <1>3, <1>6, <1>8, <1>11, <3>4, <3>5, <4>1, RxStreamLose
    <3>7. Len(s) \in Nat /\ p \in Nat
      BY <1>6
    <3>8. ASSUME NEW j \in 1..Len(s), j # p PROVE \E i \in 1..Len(t) : t[i] = s[j]
      <4>1. CASE j < p
        <5>1. j \in 1..Len(t)
          BY <1>6, <3>4, <3>7, <4>1
        <5> QED
          BY <3>5, <4>1, <5>1
      <4>2. CASE j > p
        <5>1. j - 1 \in 1..Len(t) /\ ~(j - 1 < p) /\ (j - 1) + 1 = j
          BY <1>6, <3>4, <3>7, <4>2
        <5>2. t[j - 1] = s[j]
          BY <3>5, <5>1
        <5> QED
          BY <5>1, <5>2
      <4> QED
        BY <3>7, <3>8, <4>1, <4>2
    <3>9. ASSUME NEW i \in 1..Len(t) PROVE \E j \in 1..Len(s) : t[i].f = s[j].f
      <4>1. i \in 1..Len(s) /\ i + 1 \in 1..Len(s)
        BY <3>4, <3>7
      <4> QED
        BY <3>5, <4>1
    <3> QED
      BY <1>5, <3>2, <3>6, <3>8, <3>9
  <2>2. CASE d # <<>>
    <3>1. h.b = "data" /\ (d = <<"short">> \/ d = <<"wrong">>)
      BY <2>2 DEF Damages
    <3> DEFINE x == Byte(d[1], h.f)
    <3>0. d[1] \in {"short", "wrong"} /\ d = <<d[1]>>
      BY <3>1
    <3>2. Bytes(d, h.f) = <<x>>
      BY <3>0, RxBytesOf1
    <3>3. x \in RxBytes /\ x.b \in {"short", "wrong"} /\ x.f = h.f
      <4>1. d[1] \in RxLetters /\ h.f \in Nat
        BY <1>5, <3>0 DEF RxBytes, RxLetters
      <4> QED
        BY <3>0, <4>1 DEF Byte, RxBytes
    <3> HIDE DEF x
    <3>4. rxWire' = <<x>> \o Tail(rxWire)
      BY <1>2, <3>2
    <3>5. /\ rxWire' \in Seq(RxBytes) /\ Len(rxWire') = Len(rxWire)
          /\ \A i \in 1..Len(rxWire) : rxWire'[i] = IF i = 1 THEN x ELSE rxWire[i]
      BY <1>3, <1>5, <1>6, <3>3, <3>4
    <3>6. t = m_RxBuff \o rxWire'
      BY <1>1, Zenon DEF RxAhead
    <3> DEFINE w == rxWire'
    <3> HIDE DEF t, w
    <3>7. /\ t \in Seq(RxBytes) /\ Len(t) = Len(s)
          /\ \A i \in 1..Len(s) : t[i] = IF i = p THEN x ELSE s[i]
      <4>0. IsJoin(t, m_RxBuff, w, RxBytes)
        BY <1>3, <3>5, <3>6, JoinIs, Zenon DEF w
      <4>1. /\ t \in Seq(RxBytes) /\ Len(t) = Len(s)
            /\ \A i \in 1..Len(s) : t[i] = IF i <= Len(m_RxBuff) THEN m_RxBuff[i] ELSE w[i - Len(m_RxBuff)]
        <5>1. Len(w) = Len(rxWire)
          BY <3>5 DEF w
        <5> QED
          BY <1>6, <4>0, <5>1, Zenon DEF IsJoin
      <4>2. ASSUME NEW i \in 1..Len(s) PROVE t[i] = IF i = p THEN x ELSE s[i]
        <5>1. CASE i <= Len(m_RxBuff)
          BY <1>6, <4>1, <5>1
        <5>2. CASE ~(i <= Len(m_RxBuff))
          <6>1. i - Len(m_RxBuff) \in 1..Len(rxWire) /\ Len(m_RxBuff) + (i - Len(m_RxBuff)) = i
                /\ (i = p <=> i - Len(m_RxBuff) = 1)
            BY <1>6, <5>2
          <6>2. t[i] = IF i - Len(m_RxBuff) = 1 THEN x ELSE rxWire[i - Len(m_RxBuff)]
            BY <3>5, <4>1, <5>2, <6>1 DEF w
          <6>3. s[i] = rxWire[i - Len(m_RxBuff)]
            BY <1>6, <6>1
          <6> QED
            BY <6>1, <6>2, <6>3
        <5> QED
          BY <5>1, <5>2
      <4> QED
        BY <4>1, <4>2
    <3> HIDE DEF s, p, h
    <3>8. t = [s EXCEPT ![p] = x]
      BY <1>6, <3>7
    <3>9. rxDevice = "LAWICEL"
      <4>1. h.f \in 1..Len(rxKinds) /\ rxKinds[h.f] \in RxKinds(rxDevice)
        BY <1>3, <1>10 DEF RxType
      <4> QED
        BY <1>3, <1>9, <3>1, <4>1 DEF RxOrigin, RxParts, RxKinds, Crc, RxType
    <3>10. RxStream(t, rxDevice, rxKinds, rxDamaged')
      <4>1. p \in Nat /\ s[p].f \in rxDamaged' /\ s[p].b = "data" /\ x.f = s[p].f
        BY <1>6, <1>7, <1>11, <3>1, <3>3
      <4> QED
        BY <1>3, <1>6, <1>8, <1>11, <3>3, <3>8, <3>9, <4>1, RxStreamForge
    <3>11. \A i \in 1..Len(t) : t[i].f = s[i].f /\ i \in 1..Len(s)
      BY <1>7, <3>3, <3>7
    <3>12. \A j \in 1..Len(s) : j = p \/ (j \in 1..Len(t) /\ t[j] = s[j])
      BY <3>7
    <3> QED
      BY <3>5, <3>10, <3>11, <3>12
  <2> QED
    BY <2>1, <2>2
<1>13. RxFlow'
  BY <1>1, <1>12, Zenon DEF RxFlow
<1>14. RxType'
  <2>1. rxDamaged' \subseteq 1..Len(rxKinds)
    BY <1>1, <1>3, <1>10 DEF RxType
  <2> QED
    BY <1>1, <1>3, <1>12, <2>1 DEF RxType
<1>15. RxCause' /\ RxThrown'
  BY <1>1, <1>11, <1>12, RxCauseSame, RxThrownSame
<1>16. \A g \in 1..Len(rxKinds) : RxGood(g)' /\ RxStarts(RxAhead, g) => RxStarts(RxAhead', g)
  <2> SUFFICES ASSUME NEW g \in 1..Len(rxKinds), RxGood(g)', RxStarts(RxAhead, g) PROVE RxStarts(RxAhead', g)
    OBVIOUS
  <2>1. g # h.f
    BY <1>11 DEF RxGood
  <2>2. PICK j \in 1..Len(s) : s[j].f = g /\ RxRank(s[j].b) = 1
    BY DEF RxStarts
  <2>3. PICK i \in 1..Len(t) : t[i] = s[j]
    BY <1>7, <1>12, <2>1, <2>2
  <2> QED
    BY <2>2, <2>3 DEF RxStarts
<1> QED
  BY <1>1, <1>4, <1>11, <1>12, <1>13, <1>14, <1>15, <1>16, RxStep, Zenon

LEMMA RxSends ==
  ASSUME RxInv, RxSend
  PROVE  RxInv'
<1> DEFINE n == Len(rxKinds)
           s == RxAhead
           t == RxAhead'
<1>1. PICK k \in RxKinds(rxDevice) :
        /\ rxKinds' = Append(rxKinds, k)
        /\ rxWire' = rxWire \o Bytes(RxFormat(rxDevice, k), n + 1)
  BY DEF RxSend
<1> DEFINE q == Bytes(RxFormat(rxDevice, k), n + 1)
<1>2. ~rxTorn /\ UNCHANGED <<rxDevice, m_RxBuff, rxParsing, rxTorn, rxTaken, rxDamaged, rxWiped, rxThrows>>
  BY DEF RxSend
<1>3. /\ RxType /\ m_RxBuff \in Seq(RxBytes) /\ rxWire \in Seq(RxBytes) /\ n \in Nat
      /\ rxKinds \in Seq(RxKinds(rxDevice)) /\ rxDevice \in {"STM32", "LAWICEL"}
      /\ rxDamaged \subseteq 1..n /\ rxWiped \subseteq 1..n
  BY DEF RxInv, RxType
<1>4. /\ rxKinds' \in Seq(RxKinds(rxDevice)) /\ Len(rxKinds') = n + 1 /\ rxKinds'[n + 1] = k
      /\ \A g \in 1..n : rxKinds'[g] = rxKinds[g]
  BY <1>1, <1>3
<1>5. RxSent(q, rxDevice, k, n + 1)
  BY <1>3, RxFormatSent
<1>6. q \in Seq(RxBytes) /\ Len(q) \in {2, 3}
  BY <1>5, Zenon DEF RxSent
<1> HIDE DEF q
<1>7. rxWire' = rxWire \o q
  BY <1>1 DEF q
<1>8. t = s \o q
  BY <1>2, <1>3, <1>6, <1>7 DEF RxAhead
<1>9. s \in Seq(RxBytes) /\ Len(s) \in Nat
  BY <1>3, RxAheadIs
<1> HIDE DEF s, t, n
<1>10. IsJoin(t, s, q, RxBytes)
  BY <1>6, <1>8, <1>9, JoinIs
<1>11. /\ t \in Seq(RxBytes) /\ Len(t) = Len(s) + Len(q)
       /\ \A i \in 1..Len(t) : t[i] = IF i <= Len(s) THEN s[i] ELSE q[i - Len(s)]
       /\ \A i \in 1..Len(s) : i \in 1..Len(t) /\ t[i] = s[i]
       /\ Len(s) + 1 \in 1..Len(t) /\ t[Len(s) + 1] = q[1]
       /\ \A i \in 1..Len(t) : i \in 1..Len(s) \/ (i - Len(s) \in 1..Len(q) /\ t[i] = q[i - Len(s)])
  <2>1. /\ t \in Seq(RxBytes) /\ Len(t) = Len(s) + Len(q)
        /\ \A i \in 1..Len(t) : t[i] = IF i <= Len(s) THEN s[i] ELSE q[i - Len(s)]
    BY <1>10, Zenon DEF IsJoin
  <2>2. ASSUME NEW i \in 1..Len(s) PROVE i \in 1..Len(t) /\ t[i] = s[i]
    BY <1>6, <1>9, <2>1
  <2>3. Len(s) + 1 \in 1..Len(t) /\ t[Len(s) + 1] = q[1]
    <3>0. Len(t) = Len(s) + Len(q) /\ Len(s) \in Nat /\ Len(q) \in {2, 3}
      BY <1>6, <1>9, <2>1, Zenon
    <3>1. Len(s) + 1 \in 1..Len(t) /\ ~(Len(s) + 1 <= Len(s)) /\ (Len(s) + 1) - Len(s) = 1
      BY <3>0
    <3> QED
      BY <2>1, <3>1
  <2>4. ASSUME NEW i \in 1..Len(t) PROVE i \in 1..Len(s) \/ (i - Len(s) \in 1..Len(q) /\ t[i] = q[i - Len(s)])
    <3>1. i \in 1..Len(s) \/ (i - Len(s) \in 1..Len(q) /\ ~(i <= Len(s)))
      BY <1>6, <1>9, <2>1
    <3> QED
      BY <2>1, <3>1
  <2> QED
    BY <2>1, <2>2, <2>3, <2>4
<1>12. RxStream(s, rxDevice, rxKinds, rxDamaged)
  BY Zenon DEF RxInv, RxFlow, s
<1>13. RxStream(t, rxDevice, rxKinds', rxDamaged)
  <2>1. RxMoreKinds(rxKinds', rxKinds, k, n)
    BY <1>4 DEF n, RxMoreKinds
  <2> QED
    BY <1>3, <1>5, <1>10, <1>12, <2>1, RxStreamSend, Zenon
<1>14. RxFlow'
  BY <1>2, <1>13, Zenon DEF RxFlow, t
<1>15. RxType'
  <2>1. rxWire' \in Seq(RxBytes)
    BY <1>3, <1>6, <1>7
  <2>2. rxDamaged' \subseteq 1..Len(rxKinds') /\ rxWiped' \subseteq 1..Len(rxKinds')
    BY <1>2, <1>3, <1>4
  <2>3. rxKinds' \in Seq(RxKinds(rxDevice'))
    BY <1>2, <1>4
  <2> QED
    BY <1>2, <2>1, <2>2, <2>3 DEF RxInv, RxType
<1>16. \A i \in 1..Len(t) : t[i].f = n + 1 \/ \E j \in 1..Len(s) : t[i].f = s[j].f
  <2> SUFFICES ASSUME NEW i \in 1..Len(t) PROVE t[i].f = n + 1 \/ \E j \in 1..Len(s) : t[i].f = s[j].f
    OBVIOUS
  <2>1. CASE i \in 1..Len(s)
    BY <1>11, <2>1
  <2>2. CASE i - Len(s) \in 1..Len(q) /\ t[i] = q[i - Len(s)]
    BY <1>5, <2>2 DEF RxSent
  <2> QED
    BY <1>11, <2>1, <2>2
<1>17. \A i \in 1..Len(rxTaken) : rxTaken[i].f \in 1..n /\ \A j \in 1..Len(s) : rxTaken[i].f < s[j].f
  BY DEF RxInv, RxBehind, n, s
<1>18. TakenInOrder'
  BY <1>2, <1>4, <1>17 DEF RxInv, TakenInOrder
<1>19. RxBehind'
  <2>1. ASSUME NEW i \in 1..Len(rxTaken), NEW j \in 1..Len(t) PROVE rxTaken[i].f < t[j].f
    BY <1>3, <1>16, <1>17
  <2>2. ASSUME NEW i \in 1..Len(rxTaken) PROVE rxTaken[i].f \in 1..Len(rxKinds')
    BY <1>3, <1>4, <1>17
  <2>3. rxTaken' = rxTaken
    BY <1>2
  <2> QED
    BY <2>1, <2>2, <2>3 DEF RxBehind, t
<1>20. RxKept'
  <2> SUFFICES ASSUME NEW g \in 1..(n + 1), RxGood(g)' PROVE RxTook(g)' \/ RxStarts(t, g)
    BY <1>4, Zenon DEF RxKept, RxStarts, t
  <2>1. CASE g = n + 1
    <3>1. t[Len(s) + 1].f = g /\ RxRank(t[Len(s) + 1].b) = 1
      <4>1. q[1].f = n + 1 /\ RxRank(q[1].b) = 1
        <5>0. Len(q) = 2 \/ Len(q) = 3
          BY <1>6, Zenon
        <5>1. 1 \in 1..Len(q)
          BY <5>0
        <5> QED
          BY <1>5, <5>1, Zenon DEF RxSent
      <4> QED
        BY <1>11, <2>1, <4>1
    <3> QED
      BY <1>11, <3>1, Zenon DEF RxStarts
  <2>2. CASE g # n + 1
    <3>1. g \in 1..n
      BY <1>3, <2>2
    <3>2. RxGood(g)
      <4>1. Len(rxKinds) = n
        BY DEF n
      <4> QED
        BY <1>2, <1>3, <1>4, <3>1, <4>1, RxGoodWas
    <3>3. RxTook(g) \/ RxStarts(s, g)
      BY <1>2, <3>1, <3>2, Zenon DEF RxInv, RxKept, n, s
    <3>4. RxTook(g)' = RxTook(g)
      BY <1>2 DEF RxTook
    <3>5. RxStarts(s, g) => RxStarts(t, g)
      BY <1>11 DEF RxStarts
    <3> QED
      BY <3>3, <3>4, <3>5
  <2> QED
    BY <2>1, <2>2
<1>21. RxCause'
  <2> SUFFICES ASSUME NEW g \in rxWiped, g \notin rxDamaged, g - 1 \notin rxDamaged, rxKinds'[g] = "data"
               PROVE  \E h \in 1..(g - 1) : h \in rxDamaged \/ rxKinds'[h] = "empty"
    BY <1>2, Zenon DEF RxCause
  <2>1. g \in 1..n /\ rxKinds[g] = "data"
    BY <1>3, <1>4
  <2>2. PICK h \in 1..(g - 1) : h \in rxDamaged \/ rxKinds[h] = "empty"
    BY <2>1, Zenon DEF RxInv, RxCause
  <2>3. h \in 1..n
    BY <1>3, <2>1
  <2> QED
    BY <1>4, <2>2, <2>3
<1>22. RxThrown'
  <2>1. PICK X \in SUBSET rxDamaged : /\ IsFiniteSet(X) /\ Cardinality(X) = rxThrows
                                      /\ \A x \in X : \A j \in 1..Len(s) : x < s[j].f
    BY Zenon DEF RxInv, RxThrown, s
  <2>2. ASSUME NEW x \in X, NEW i \in 1..Len(t) PROVE x < t[i].f
    <3>1. x \in 1..n /\ x < n + 1
      BY <1>3
    <3> QED
      BY <1>16, <2>1, <3>1
  <2> QED
    BY <1>2, <2>1, <2>2 DEF RxThrown, t
<1>23. RxHalted'
  BY <1>2 DEF RxHalted
<1> QED
  BY <1>14, <1>15, <1>18, <1>19, <1>20, <1>21, <1>22, <1>23, Zenon DEF RxInv

(* What the parser takes from its buffer it takes from the front. *)
RxCuts(b, w, n, S) ==
  /\ SubSeq(b, n + 1, Len(b)) \in Seq(S)
  /\ SubSeq(b, n + 1, Len(b)) \o w = SubSeq(b \o w, n + 1, Len(b \o w))

LEMMA RxCut ==
  ASSUME NEW S, NEW b \in Seq(S), NEW w \in Seq(S), NEW n \in Nat, n <= Len(b)
  PROVE  RxCuts(b, w, n, S)
<1> DEFINE r == SubSeq(b, n + 1, Len(b))
           c == b \o w
           u == SubSeq(c, n + 1, Len(c))
<1>1. r \in Seq(S) /\ Len(r) = Len(b) - n /\ \A i \in 1..(Len(b) - n) : r[i] = b[i + n]
  OBVIOUS
<1>2. IsJoin(c, b, w, S)
  BY JoinIs
<1>3. c \in Seq(S) /\ Len(c) = Len(b) + Len(w)
      /\ \A k \in 1..(Len(b) + Len(w)) : c[k] = IF k <= Len(b) THEN b[k] ELSE w[k - Len(b)]
  BY <1>2, Zenon DEF IsJoin
<1>4. Len(b) \in Nat /\ Len(w) \in Nat
  OBVIOUS
<1> HIDE DEF r, c
<1>5. u \in Seq(S) /\ Len(u) = Len(b) + Len(w) - n /\ \A k \in 1..(Len(b) + Len(w) - n) : u[k] = c[k + n]
  BY <1>3, <1>4
<1> HIDE DEF u
<1> DEFINE v == r \o w
<1>6. IsJoin(v, r, w, S)
  BY <1>1, JoinIs
<1>7. v \in Seq(S) /\ Len(v) = Len(b) - n + Len(w)
      /\ \A k \in 1..(Len(b) - n + Len(w)) : v[k] = IF k <= Len(b) - n THEN r[k] ELSE w[k - (Len(b) - n)]
  BY <1>1, <1>6 DEF IsJoin
<1> HIDE DEF v
<1>8. Len(b) + Len(w) - n = Len(b) - n + Len(w)
  BY <1>4
<1>9. ASSUME NEW k \in 1..Len(u) PROVE u[k] = v[k]
  <2>1. k + n \in 1..(Len(b) + Len(w)) /\ k \in 1..(Len(b) - n + Len(w)) /\ k \in 1..(Len(b) + Len(w) - n)
    BY <1>4, <1>5
  <2>2. u[k] = c[k + n]
    BY <1>5, <2>1
  <2>3. CASE k <= Len(b) - n
    <3>1. k \in 1..(Len(b) - n) /\ k + n <= Len(b)
      BY <1>4, <2>3
    <3>2. v[k] = r[k] /\ r[k] = b[k + n]
      BY <1>1, <1>7, <2>1, <2>3, <3>1
    <3>3. c[k + n] = b[k + n]
      BY <1>3, <2>1, <3>1
    <3> QED
      BY <2>2, <3>2, <3>3
  <2>4. CASE ~(k <= Len(b) - n)
    <3>1. ~(k + n <= Len(b)) /\ (k + n) - Len(b) = k - (Len(b) - n)
      BY <1>4, <2>4
    <3>2. v[k] = w[k - (Len(b) - n)]
      BY <1>7, <2>1, <2>4
    <3>3. c[k + n] = w[(k + n) - Len(b)]
      BY <1>3, <2>1, <3>1
    <3> QED
      BY <2>2, <3>1, <3>2, <3>3
  <2> QED
    BY <2>3, <2>4
<1>10. u = v
  <2>1. Len(u) = Len(v)
    BY <1>5, <1>7, <1>8
  <2> QED
    BY <1>5, <1>7, <1>9, <2>1, SeqEqual
<1> QED
  BY <1>1, <1>10, Zenon DEF r, c, u, v, RxCuts

LEMMA RxConsumes ==
  ASSUME RxInv, NEW n \in Nat, n <= Len(m_RxBuff), m_RxBuff' = SubSeq(m_RxBuff, n + 1, Len(m_RxBuff)),
         UNCHANGED <<rxWire, rxDevice, rxKinds, rxDamaged>>
  PROVE  RxMoves(n) /\ m_RxBuff' \in Seq(RxBytes)
<1>1. m_RxBuff \in Seq(RxBytes) /\ rxWire \in Seq(RxBytes)
  BY DEF RxInv, RxType
<1>2. /\ SubSeq(m_RxBuff, n + 1, Len(m_RxBuff)) \in Seq(RxBytes)
      /\ SubSeq(m_RxBuff, n + 1, Len(m_RxBuff)) \o rxWire
           = SubSeq(m_RxBuff \o rxWire, n + 1, Len(m_RxBuff \o rxWire))
  <2>1. RxCuts(m_RxBuff, rxWire, n, RxBytes)
    BY <1>1, RxCut, Zenon
  <2> QED
    BY <2>1, Zenon DEF RxCuts
<1>3. RxAhead' = SubSeq(RxAhead, n + 1, Len(RxAhead))
  BY <1>2, Zenon DEF RxAhead
<1>4. n <= Len(RxAhead)
  BY <1>1 DEF RxAhead
<1> QED
  BY <1>2, <1>3, <1>4 DEF RxMoves

(* The first byte of a frame without an excuse is the one it starts with.    *)
LEMMA RxGoodFront ==
  ASSUME RxInv, ~rxTorn, NEW i \in 1..Len(RxAhead), RxGood(RxAhead[i].f)
  PROVE  RxStarts(RxAhead, RxAhead[i].f)
<1>1. RxAhead[i].f \in 1..Len(rxKinds)
  BY DEF RxInv, RxFlow, RxStream, RxOrigin
<1>2. RxTook(RxAhead[i].f) \/ RxStarts(RxAhead, RxAhead[i].f)
  BY <1>1 DEF RxInv, RxKept
<1>3. RxAhead[i].f \in Nat
  BY <1>1
<1>4. ~RxTook(RxAhead[i].f)
  BY <1>3 DEF RxInv, RxBehind, RxTook
<1> QED
  BY <1>2, <1>4

(* STM32: if a frame without an excuse starts in what is taken for a frame,  *)
(* it is that frame.                                                         *)
LEMMA RxStmSync ==
  ASSUME NEW K, NEW D, NEW s, NEW g \in 1..Len(K), NEW j \in 1..3,
         RxStream(s, "STM32", K, D), K \in Seq({"plain", "holds"}), Len(s) >= 3, s[1].b = "magic",
         g \notin D, g - 1 \notin D, s[j].f = g, s[j].b = "magic"
  PROVE  j = 1 /\ s[2].b = K[g] /\ s[3].b = Crc(K[g]) /\ s[3].f = g
<1>1. /\ s \in Seq(RxBytes) /\ Len(s) \in Nat /\ Len(K) \in Nat /\ RxRising(s)
      /\ \A i \in 1..Len(s) : RxOrigin("STM32", K, D, s[i])
  BY DEF RxStream
<1>2. \A i \in 1..Len(s) : s[i] \in RxBytes
  BY <1>1, ElementOfSeq, Zenon
<1>3. \A i \in 1..Len(s) : RxPos(s[i]) \in Int /\ s[i].f \in Nat
  BY <1>2, RxPlaces
<1>4. \A h \in 1..Len(K) : /\ RxParts("STM32", K[h]) = {"magic", K[h], Crc(K[h])}
                           /\ RxRank(K[h]) = 2 /\ RxRank(Crc(K[h])) = 3
  <2> SUFFICES ASSUME NEW h \in 1..Len(K)
               PROVE  /\ RxParts("STM32", K[h]) = {"magic", K[h], Crc(K[h])}
                      /\ RxRank(K[h]) = 2 /\ RxRank(Crc(K[h])) = 3
    OBVIOUS
  <2>1. K[h] \in {"plain", "holds"}
    OBVIOUS
  <2> QED
    BY <2>1 DEF RxParts, RxRank, Crc
<1>5. RxRank("magic") = 1
  BY DEF RxRank
<1>6. 1 \in 1..Len(s) /\ 2 \in 1..Len(s) /\ 3 \in 1..Len(s) /\ j \in 1..Len(s)
  BY <1>1
<1>7. RxPos(s[1]) = 3 * s[1].f + 1 /\ RxPos(s[j]) = 3 * g + 1
  BY <1>5 DEF RxPos
<1>8. j = 1
  <2> SUFFICES ASSUME j # 1 PROVE FALSE
    OBVIOUS
  <2>1. RxPos(s[1]) < RxPos(s[j])
    BY <1>1, <1>6 DEF RxRising
  <2>2. s[1].f < g
    BY <1>3, <1>6, <1>7, <2>1
  <2> DEFINE h == g - 1
  <2>3. s[1].f \in 1..Len(K)
    BY <1>1, <1>6 DEF RxOrigin
  <2>4. h \in (1..Len(K)) \ D /\ s[1].f <= h /\ h + 1 = g
    BY <2>2, <2>3
  <2> HIDE DEF h
  <2>5. RxPos(s[1]) < 3 * h + RxRank(K[h]) /\ RxPos(s[1]) < 3 * h + RxRank(Crc(K[h]))
    <3>1. RxRank(K[h]) = 2 /\ RxRank(Crc(K[h])) = 3
      BY <1>4, <2>4
    <3>2. s[1].f \in Nat /\ h \in Nat /\ s[1].f <= h /\ RxPos(s[1]) = 3 * s[1].f + 1
      BY <1>3, <1>6, <1>7, <2>4
    <3>3. RxPos(s[1]) < 3 * h + 2 /\ RxPos(s[1]) < 3 * h + 3
      BY <3>2
    <3> QED
      BY <3>1, <3>3
  <2>6. K[h] \in RxParts("STM32", K[h]) /\ Crc(K[h]) \in RxParts("STM32", K[h])
    BY <1>4, <2>4
  <2>7. PICK a \in 2..Len(s) : s[a].b = K[h] /\ s[a].f = h
    <3> DEFINE b == K[h]
    <3>0. b \in RxParts("STM32", K[h]) /\ RxPos(s[1]) < 3 * h + RxRank(b)
      BY <2>5, <2>6
    <3> HIDE DEF b
    <3>1. \E a \in (1 + 1)..Len(s) : s[a].b = b /\ s[a].f = h
      BY <1>1, <1>6, <2>4, <3>0, RxLater, SMTT(30)
    <3> QED
      BY <3>1 DEF b
  <2>8. PICK c \in 2..Len(s) : s[c].b = Crc(K[h]) /\ s[c].f = h
    <3> DEFINE b == Crc(K[h])
    <3>0. b \in RxParts("STM32", K[h]) /\ RxPos(s[1]) < 3 * h + RxRank(b)
      BY <2>5, <2>6
    <3> HIDE DEF b
    <3>1. \E c \in (1 + 1)..Len(s) : s[c].b = b /\ s[c].f = h
      BY <1>1, <1>6, <2>4, <3>0, RxLater, SMTT(30)
    <3> QED
      BY <3>1 DEF b
  <2>9. RxPos(s[a]) = 3 * h + 2 /\ RxPos(s[c]) = 3 * h + 3 /\ RxPos(s[j]) = 3 * (h + 1) + 1
    BY <1>4, <1>7, <2>4, <2>7, <2>8 DEF RxPos
  <2>10. a \in 1..Len(s) /\ c \in 1..Len(s)
    BY <1>1
  <2>11. RxPos(s[a]) < RxPos(s[c]) /\ RxPos(s[c]) < RxPos(s[j])
    BY <2>4, <2>9
  <2>12. ~(c <= a) /\ ~(j <= c)
    <3>1. ASSUME NEW x \in 1..Len(s), NEW y \in 1..Len(s), RxPos(s[x]) < RxPos(s[y]) PROVE ~(y <= x)
      <4>1. y < x => RxPos(s[y]) < RxPos(s[x])
        BY <1>1 DEF RxRising
      <4>2. RxPos(s[x]) \in Int /\ RxPos(s[y]) \in Int
        BY <1>3
      <4>3. ~(y < x) /\ y # x
        BY <3>1, <4>1, <4>2
      <4> QED
        BY <4>3
    <3> QED
      BY <1>6, <2>10, <2>11, <3>1
  <2> QED
    BY <2>12
<1>9. s[2].b = K[g] /\ s[2].f = g
  <2>1. K[g] \in RxParts("STM32", K[g]) /\ RxRank(K[g]) = RxRank(s[1].b) + 1
    <3>1. K[g] \in RxParts("STM32", K[g]) /\ RxRank(K[g]) = 2 /\ RxRank(s[1].b) = 1
      BY <1>4, <1>5
    <3> QED
      BY <3>1
  <2>2. s[1].f \in (1..Len(K)) \ D /\ g = s[1].f
    BY <1>8
  <2>3. 1 + 1 \in 1..Len(s) /\ s[1 + 1].b = K[g] /\ s[1 + 1].f = s[1].f
    BY <1>1, <1>6, <2>1, <2>2, RxNextByte, SMTT(30)
  <2> QED
    BY <2>2, <2>3
<1>10. s[3].b = Crc(K[g]) /\ s[3].f = g
  <2>1. Crc(K[g]) \in RxParts("STM32", K[g]) /\ RxRank(Crc(K[g])) = RxRank(s[2].b) + 1
    <3>1. Crc(K[g]) \in RxParts("STM32", K[g]) /\ RxRank(Crc(K[g])) = 3 /\ RxRank(s[2].b) = 2
      BY <1>4, <1>9
    <3> QED
      BY <3>1
  <2>2. s[2].f \in (1..Len(K)) \ D /\ g = s[2].f
    BY <1>9
  <2>3. 2 + 1 \in 1..Len(s) /\ s[2 + 1].b = Crc(K[g]) /\ s[2 + 1].f = s[2].f
    BY <1>1, <1>6, <2>1, <2>2, RxNextByte, SMTT(30)
  <2> QED
    BY <2>2, <2>3
<1> QED
  BY <1>8, <1>9, <1>10

(* A turn of the STM32's parser that drops n bytes from the front. *)
LEMMA RxStmTurns ==
  ASSUME RxInv, Stm32Turn
  PROVE  RxInv'
<1> DEFINE s == RxAhead
           n == IF BeginsFrame(m_RxBuff[1].b) THEN 3 ELSE 1
           taking == BeginsFrame(m_RxBuff[1].b) /\ m_RxBuff[3].b = Crc(m_RxBuff[2].b)
<1>1. /\ rxDevice = "STM32" /\ rxParsing /\ ~rxTorn /\ ~rxTorn' /\ rxParsing' \in BOOLEAN
      /\ UNCHANGED <<rxDevice, rxWire, rxTorn, rxKinds, rxDamaged, rxWiped, rxThrows>>
  BY DEF Stm32Turn, RxInv, RxHalted, RxType
<1>2. RxType /\ m_RxBuff \in Seq(RxBytes) /\ Len(m_RxBuff) \in Nat
  BY DEF RxInv, RxType
<1>3. CASE Len(m_RxBuff) < RxFrameLen
  <2>1. UNCHANGED <<m_RxBuff, rxTaken>>
    BY <1>3 DEF Stm32Turn
  <2>2. RxAhead' = RxAhead
    BY <1>1, <2>1 DEF RxAhead
  <2>3. RxType'
    BY <1>1, <1>2, <2>1 DEF RxType
  <2> QED
    BY <1>1, <2>1, <2>2, <2>3, RxSame
<1>4. CASE ~(Len(m_RxBuff) < RxFrameLen)
  <2>1. Len(m_RxBuff) >= 3 /\ n \in {1, 3} /\ n \in Nat /\ n <= Len(m_RxBuff)
    BY <1>2, <1>4 DEF RxFrameLen
  <2>2. /\ m_RxBuff' = SubSeq(m_RxBuff, n + 1, Len(m_RxBuff))
        /\ taking => Take(m_RxBuff[3].f, m_RxBuff[2].b)
        /\ ~taking => UNCHANGED rxTaken
    BY <1>4 DEF Stm32Turn, RxFrameLen
  <2>3. RxMoves(n) /\ m_RxBuff' \in Seq(RxBytes)
    BY <1>1, <2>1, <2>2, RxConsumes
  <2>4. /\ s[1] = m_RxBuff[1] /\ s[2] = m_RxBuff[2] /\ s[3] = m_RxBuff[3]
        /\ Len(s) \in Nat /\ Len(s) >= 3 /\ s[1] \in RxBytes /\ s[2] \in RxBytes /\ s[3] \in RxBytes
    BY <1>2, <2>1, RxAheadIs
  <2>5. RxStream(s, rxDevice, rxKinds, rxDamaged)
    BY Zenon DEF RxInv, RxFlow
  <2> HIDE DEF s
  <2>6. /\ RxRising(s) /\ 1 \in 1..Len(s) /\ 2 \in 1..Len(s) /\ 3 \in 1..Len(s)
        /\ \A i \in 1..Len(s) : RxOrigin(rxDevice, rxKinds, rxDamaged, s[i])
    BY <2>4, <2>5 DEF RxStream
  <2>7. /\ rxKinds \in Seq({"plain", "holds"}) /\ Len(rxKinds) \in Nat
        /\ \A g \in 1..Len(rxKinds) : rxKinds[g] \in {"plain", "holds"}
    <3>1. rxKinds \in Seq({"plain", "holds"})
      BY <1>1, <1>2 DEF RxType, RxKinds
    <3> QED
      BY <3>1
  <2>8. \A i \in 1..Len(s) : /\ s[i].f \in 1..Len(rxKinds)
                             /\ s[i].b \in {"magic", rxKinds[s[i].f], Crc(rxKinds[s[i].f])}
    BY <1>1, <2>6 DEF RxOrigin, RxParts
  <2>9. /\ RxFlow'
        /\ \A i \in 1..Len(RxAhead') : \E j \in 1..Len(s) : RxAhead'[i].f = s[j].f
        /\ \A i \in 1..Len(RxAhead') : \A k \in 1..n : RxRank(s[k].b) = 3 => s[k].f < RxAhead'[i].f
        /\ \A g \in 1..Len(rxKinds) : RxStarts(s, g) =>
              RxStarts(RxAhead', g) \/ \E j \in 1..n : s[j].f = g /\ RxRank(s[j].b) = 1
    BY <2>3, RxMoved, Zenon DEF s
  <2>10. ASSUME taking
         PROVE  /\ n = 3 /\ s[3].f \in 1..Len(rxKinds) /\ s[2].b = rxKinds[s[3].f] /\ RxRank(s[3].b) = 3
                /\ s[2].b \in RxLetters /\ rxTaken' = Append(rxTaken, [f |-> s[3].f, payload |-> s[2].b])
    <3>1. s[3].f \in 1..Len(rxKinds) /\ s[3].b \in {"magic", rxKinds[s[3].f], Crc(rxKinds[s[3].f])}
      BY <2>6, <2>8
    <3>2. rxKinds[s[3].f] \in {"plain", "holds"}
      BY <2>7, <3>1
    <3>3. s[3].b = Crc(s[2].b)
      BY <2>4, <2>10
    <3>4. s[2].b = rxKinds[s[3].f] /\ RxRank(s[3].b) = 3
      BY <3>1, <3>2, <3>3 DEF Crc, RxRank
    <3>5. s[2].b \in RxLetters
      BY <2>4 DEF RxBytes
    <3> QED
      BY <2>2, <2>4, <2>10, <3>1, <3>4, <3>5 DEF Take
  <2>11. RxTakes
    <3>1. CASE ~taking
      BY <2>2, <3>1 DEF RxTakes
    <3>2. CASE taking
      <4> DEFINE c == s[3].f
                 p == s[2].b
      <4>1. /\ c \in 1..Len(rxKinds) /\ p \in RxLetters /\ rxTaken' = Append(rxTaken, [f |-> c, payload |-> p])
            /\ p = rxKinds[c]
        BY <2>10, <3>2
      <4>2. \E j \in 1..Len(RxAhead) : RxAhead[j].f = c
        BY <2>6 DEF s
      <4>3. \A j \in 1..Len(RxAhead') : c < RxAhead'[j].f
        BY <2>9, <2>10, <3>2
      <4> HIDE DEF c, p
      <4> QED
        BY <4>1, <4>2, <4>3 DEF RxTakes
    <3> QED
      BY <3>1, <3>2
  <2>12. RxType'
    <3>1. rxTaken' \in Seq([f : Nat, payload : RxLetters])
      <4>1. CASE ~taking
        BY <1>2, <2>2, <4>1 DEF RxType
      <4>2. CASE taking
        <5> DEFINE e == [f |-> s[3].f, payload |-> s[2].b]
        <5>1. e \in [f : Nat, payload : RxLetters] /\ rxTaken' = Append(rxTaken, e)
          BY <2>10, <4>2
        <5> HIDE DEF e
        <5>2. rxTaken \in Seq([f : Nat, payload : RxLetters])
          BY <1>2, Zenon DEF RxType
        <5> QED
          BY <5>1, <5>2
      <4> QED
        BY <4>1, <4>2
    <3> QED
      BY <1>1, <1>2, <2>3, <3>1 DEF RxType
  <2>13. RxCause' /\ RxThrown'
    BY <1>1, <2>9, RxCauseSame, RxThrownSame DEF s
  <2>14. ASSUME NEW g \in 1..Len(rxKinds), RxGood(g), NEW j \in 1..n, s[j].f = g, RxRank(s[j].b) = 1
         PROVE  RxTook(g)'
    <3>1. j \in 1..Len(s) /\ s[j].b = "magic"
      <4>1. j \in 1..Len(s)
        BY <2>1, <2>4
      <4>2. s[j].b \in {"magic", rxKinds[g], Crc(rxKinds[g])} /\ rxKinds[g] \in {"plain", "holds"}
        BY <2>7, <2>8, <2>14, <4>1
      <4>3. RxRank(rxKinds[g]) = 2 /\ RxRank(Crc(rxKinds[g])) = 3
        BY <4>2 DEF Crc, RxRank
      <4> QED
        BY <2>14, <4>1, <4>2, <4>3
    <3>2. CASE ~BeginsFrame(m_RxBuff[1].b)
      BY <2>4, <3>1, <3>2 DEF BeginsFrame
    <3>3. CASE m_RxBuff[1].b = "magic"
      <4>1. n = 3
        BY <3>3 DEF BeginsFrame
      <4>2. g \notin rxDamaged /\ g - 1 \notin rxDamaged
        BY <2>14 DEF RxGood
      <4>3. RxStream(s, "STM32", rxKinds, rxDamaged) /\ s[1].b = "magic" /\ j \in 1..3
        BY <1>1, <2>4, <2>5, <3>3, <4>1
      <4>4. s[2].b = rxKinds[g] /\ s[3].b = Crc(rxKinds[g]) /\ s[3].f = g
        BY <2>4, <2>7, <2>14, <3>1, <4>2, <4>3, RxStmSync
      <4>5. taking
        BY <2>4, <3>3, <4>4 DEF BeginsFrame
      <4>6. rxTaken' = Append(rxTaken, [f |-> g, payload |-> s[2].b])
        BY <2>10, <4>4, <4>5
      <4>7. Len(rxTaken) \in Nat
        BY <1>2 DEF RxType
      <4>8. Len(rxTaken) + 1 \in 1..Len(rxTaken') /\ rxTaken'[Len(rxTaken) + 1].f = g
        <5>1. rxTaken \in Seq([f : Nat, payload : RxLetters])
          BY <1>2, Zenon DEF RxType
        <5> DEFINE e == [f |-> g, payload |-> s[2].b]
        <5>2. e.f = g /\ e \in [f : Nat, payload : RxLetters] /\ rxTaken' = Append(rxTaken, e)
          BY <2>4, <4>6 DEF RxBytes
        <5> HIDE DEF e
        <5> QED
          BY <5>1, <5>2
      <4> QED
        BY <4>8 DEF RxTook
    <3>4. CASE m_RxBuff[1].b = "holds"
      <4> DEFINE h == s[1].f
      <4>1. h \in 1..Len(rxKinds) /\ rxKinds[h] = "holds" /\ RxRank(s[1].b) = 2
        <5>1. h \in 1..Len(rxKinds) /\ s[1].b \in {"magic", rxKinds[h], Crc(rxKinds[h])}
          BY <2>6, <2>8
        <5>2. rxKinds[h] \in {"plain", "holds"}
          BY <2>7, <5>1
        <5> QED
          BY <2>4, <3>4, <5>1, <5>2 DEF Crc, RxRank
      <4>2. ~RxGood(h)
        <5> SUFFICES ASSUME RxGood(h) PROVE FALSE
          OBVIOUS
        <5>1. RxStarts(s, h)
          BY <1>1, <2>6, RxGoodFront, Zenon DEF s
        <5>2. PICK k \in 1..Len(s) : s[k].f = h /\ RxRank(s[k].b) = 1
          BY <5>1 DEF RxStarts
        <5>3. RxPos(s[k]) = 3 * h + 1 /\ RxPos(s[1]) = 3 * h + 2 /\ h \in Nat
          BY <4>1, <5>2 DEF RxPos
        <5>4. k # 1 => RxPos(s[1]) < RxPos(s[k])
          BY <2>6 DEF RxRising
        <5> HIDE DEF h
        <5> QED
          BY <4>1, <5>2, <5>3, <5>4
      <4>3. h < g
        <5>1. j # 1
          BY <2>14, <4>1
        <5>2. RxPos(s[1]) < RxPos(s[j])
          BY <2>6, <3>1, <5>1 DEF RxRising
        <5>3. s[j] \in RxBytes
          <6>1. s \in Seq(RxBytes)
            BY <2>5, Zenon DEF RxStream
          <6> QED
            BY <3>1, <6>1, ElementOfSeq, Zenon
        <5> QED
          BY <2>4, <2>14, <5>2, <5>3, RxOrder
      <4>4. \A d \in rxDamaged : ~(d < g)
        BY <1>1, <2>14, <4>1 DEF RxGood
      <4>5. h \in rxDamaged \/ h - 1 \in rxDamaged \/ \E d \in rxDamaged : d < h
        BY <1>1, <4>2 DEF RxGood
      <4>6. rxDamaged \subseteq Nat /\ h \in Nat
        BY <1>2, <2>7, <4>1 DEF RxType
      <4> HIDE DEF h
      <4> QED
        BY <4>3, <4>4, <4>5, <4>6
    <3> QED
      BY <3>2, <3>3, <3>4 DEF BeginsFrame
  <2>15. \A g \in 1..Len(rxKinds) : RxGood(g) /\ RxStarts(s, g) => RxTook(g)' \/ RxStarts(RxAhead', g)
    BY <2>9, <2>14, Zenon
  <2>16. rxDamaged \subseteq rxDamaged' /\ rxWiped \subseteq rxWiped' /\ UNCHANGED <<rxDevice, rxKinds>>
    BY <1>1
  <2> QED
    BY <1>1, <2>9, <2>11, <2>12, <2>13, <2>15, <2>16, RxStep, Zenon DEF s
<1> QED
  BY <1>3, <1>4

(* What the parser of the LAWICEL takes for a line: from the first start     *)
(* letter to the first CR behind it.                                         *)
RxIsLine(s, a, e) ==
  /\ a \in 1..Len(s) /\ e \in 1..Len(s) /\ a < e
  /\ s[a].b \in {"t", "V"} /\ s[e].b = "CR"
  /\ \A q \in 1..Len(s) : q < a => s[q].b \notin {"t", "V"}
  /\ \A q \in 1..Len(s) : a <= q /\ q < e => s[q].b # "CR"

LEMMA RxLeast ==
  ASSUME NEW I, I \subseteq Nat, I # {}
  PROVE  Min(I) \in I /\ \A i \in I : Min(I) <= i
<1>1. \E i \in I : \A j \in I : i <= j
  BY LeastOf
<1> QED
  BY <1>1 DEF Min

LEMMA RxLineIs ==
  ASSUME RxInv, LineFound
  PROVE  /\ RxIsLine(m_RxBuff, StartAt, EndAt) /\ EndAt < Len(m_RxBuff)
         /\ Line = [i \in 1..(EndAt - StartAt + 1) |-> m_RxBuff[StartAt + i - 1]]
         /\ Len(Line) = EndAt - StartAt + 1
<1> DEFINE b == m_RxBuff
           I == {i \in 1..Len(b) : b[i].b \in {"t", "V"}}
           a == StartAt
           J == {i \in a..Len(b) : b[i].b = "CR"}
           e == EndAt
<1>1. b \in Seq(RxBytes) /\ Len(b) \in Nat
  BY DEF RxInv, RxType
<1>2. a = IF I # {} THEN Min(I) ELSE 0
  BY DEF StartAt, SelectInSeq
<1>3. e = IF J # {} THEN Min(J) ELSE 0
  BY DEF EndAt, SelectInSubSeq
<1>4. a > 0 /\ e > 0 /\ e < Len(b)
  BY DEF LineFound
<1> HIDE DEF b, a, e
<1>5. I # {} /\ J # {}
  BY <1>2, <1>3, <1>4
<1>6. a \in I /\ \A i \in I : a <= i
  <2>1. I \subseteq Nat
    OBVIOUS
  <2> HIDE DEF I
  <2> QED
    BY <1>2, <1>5, <2>1, RxLeast
<1>7. a \in 1..Len(b) /\ b[a].b \in {"t", "V"}
  BY <1>6
<1>8. e \in J /\ \A i \in J : e <= i
  <2>1. J \subseteq Nat
    BY <1>1, <1>7
  <2> HIDE DEF J
  <2> QED
    BY <1>3, <1>5, <2>1, RxLeast
<1>9. e \in a..Len(b) /\ b[e].b = "CR"
  BY <1>8
<1>10. e # a
  BY <1>7, <1>9
<1>11. ASSUME NEW q \in 1..Len(b), q < a PROVE b[q].b \notin {"t", "V"}
  BY <1>1, <1>6, <1>7, <1>11
<1>12. ASSUME NEW q \in 1..Len(b), a <= q, q < e PROVE b[q].b # "CR"
  BY <1>1, <1>7, <1>8, <1>9, <1>12
<1>13. RxIsLine(b, a, e)
  <2>1. e \in 1..Len(b) /\ a < e
    BY <1>1, <1>7, <1>9, <1>10
  <2> QED
    BY <1>7, <1>9, <1>11, <1>12, <2>1 DEF RxIsLine
<1>14. SubSeq(b, a, e) = [i \in 1..(e - a + 1) |-> b[a + i - 1]] /\ Len(SubSeq(b, a, e)) = e - a + 1
  <2>1. a \in Nat /\ e \in Nat /\ a < e
    BY <1>1, <1>7, <1>9, <1>10
  <2> QED
    BY <1>1, <2>1
<1> QED
  BY <1>4, <1>13, <1>14 DEF Line, a, b, e

(* LAWICEL: if a data frame without an excuse starts in a line, the line is  *)
(* its line.                                                                 *)
LEMMA RxLineSync ==
  ASSUME NEW K, NEW D, NEW s, NEW a, NEW e, NEW g \in 1..Len(K), NEW p \in 1..Len(s),
         RxStream(s, "LAWICEL", K, D), Len(K) \in Nat, RxIsLine(s, a, e), p <= e,
         \A h \in 1..Len(K) : K[h] \in {"data", "empty", "version", "ack"},
         g \notin D, g - 1 \notin D, s[p].f = g, s[p].b = "t", K[g] = "data"
  PROVE  p = a /\ e = a + 2 /\ s[a + 1].b = "data" /\ s[a + 1].f = g
<1>1. /\ s \in Seq(RxBytes) /\ Len(s) \in Nat /\ RxRising(s)
      /\ \A i \in 1..Len(s) : RxOrigin("LAWICEL", K, D, s[i])
  BY DEF RxStream
<1>2. \A i \in 1..Len(s) : s[i] \in RxBytes
  BY <1>1, ElementOfSeq, Zenon
<1>3. \A i \in 1..Len(s) : RxPos(s[i]) \in Int /\ s[i].f \in Nat
  BY <1>2, RxPlaces
<1>4. /\ a \in 1..Len(s) /\ e \in 1..Len(s) /\ a < e
      /\ s[a].b \in {"t", "V"} /\ s[e].b = "CR"
      /\ \A q \in 1..Len(s) : q < a => s[q].b \notin {"t", "V"}
      /\ \A q \in 1..Len(s) : a <= q /\ q < e => s[q].b # "CR"
  BY Zenon DEF RxIsLine
<1>5. RxRank("t") = 1 /\ RxRank("V") = 1 /\ RxRank("data") = 2 /\ RxRank("CR") = 3
  BY DEF RxRank
<1>6. p >= a /\ p \in Nat /\ a \in Nat /\ e \in Nat
  BY <1>1, <1>4
<1>7. p = a
  <2> SUFFICES ASSUME p > a PROVE FALSE
    BY <1>6
  <2>1. RxPos(s[a]) < RxPos(s[p])
    BY <1>1, <1>4 DEF RxRising
  <2>2. s[a].f < g
    <3>1. s[a] \in RxBytes /\ s[p] \in RxBytes /\ RxRank(s[p].b) = 1
      BY <1>2, <1>4, <1>5
    <3> QED
      BY <2>1, <3>1, RxOrder
  <2> DEFINE h == g - 1
  <2>3. s[a].f \in 1..Len(K)
    BY <1>1, <1>4 DEF RxOrigin
  <2>4. h \in (1..Len(K)) \ D /\ s[a].f <= h /\ h + 1 = g
    BY <2>2, <2>3
  <2> HIDE DEF h
  <2>5. RxPos(s[a]) < 3 * h + RxRank("CR")
    <3>1. RxPos(s[a]) = 3 * s[a].f + 1 /\ s[a].f \in Nat /\ h \in Nat
      <4>1. RxRank(s[a].b) = 1
        BY <1>4, <1>5
      <4> QED
        BY <1>3, <1>4, <2>4, <4>1 DEF RxPos
    <3>2. RxPos(s[a]) < 3 * h + 3
      BY <2>4, <3>1
    <3> QED
      BY <1>5, <3>2
  <2>6. "CR" \in RxParts("LAWICEL", K[h])
    <3>1. K[h] \in {"data", "empty", "version", "ack"}
      BY <2>4
    <3> QED
      BY <3>1 DEF RxParts
  <2>7. PICK q \in (a + 1)..Len(s) : s[q].b = "CR" /\ s[q].f = h
    BY <1>4, <2>4, <2>5, <2>6, RxLater, SMTT(30)
  <2>8. q \in 1..Len(s) /\ a <= q
    BY <1>1, <1>6
  <2>9. RxPos(s[q]) < RxPos(s[p])
    <3>1. RxPos(s[q]) = 3 * s[q].f + RxRank(s[q].b) /\ RxPos(s[p]) = 3 * s[p].f + RxRank(s[p].b)
      BY Zenon DEF RxPos
    <3>2. s[q].f = h /\ s[q].b = "CR" /\ s[p].f = h + 1 /\ s[p].b = "t" /\ h \in Nat
      BY <2>4, <2>7
    <3>3. RxRank(s[q].b) = 3 /\ RxRank(s[p].b) = 1
      BY <1>5, <3>2
    <3> QED
      BY <3>1, <3>2, <3>3
  <2>10. q < p
    <3>1. p < q => RxPos(s[p]) < RxPos(s[q])
      BY <1>1, <2>8 DEF RxRising
    <3>2. RxPos(s[p]) \in Int /\ RxPos(s[q]) \in Int
      BY <1>3, <2>8
    <3>3. ~(p < q) /\ p # q
      BY <2>9, <3>1, <3>2
    <3> QED
      BY <1>6, <2>8, <3>3
  <2> QED
    BY <1>4, <1>6, <2>7, <2>8, <2>10
<1>8. a + 1 \in 1..Len(s) /\ s[a + 1].b = "data" /\ s[a + 1].f = g
  <2>1. s[a].f \in (1..Len(K)) \ D /\ s[a].f = g /\ K[s[a].f] = "data" /\ RxRank(s[a].b) = 1
    BY <1>5, <1>7
  <2>2. "data" \in RxParts("LAWICEL", K[s[a].f]) /\ RxRank("data") = RxRank(s[a].b) + 1
    BY <1>5, <2>1 DEF RxParts
  <2>3. a + 1 \in 1..Len(s) /\ s[a + 1].b = "data" /\ s[a + 1].f = s[a].f
    <3> DEFINE y == "data"
    <3>1. y \in RxParts("LAWICEL", K[s[a].f]) /\ RxRank(y) = RxRank(s[a].b) + 1 /\ a \in 1..Len(s)
          /\ s[a].f \in (1..Len(K)) \ D
      BY <1>4, <2>1, <2>2
    <3> HIDE DEF y
    <3>2. a + 1 \in 1..Len(s) /\ s[a + 1].b = y /\ s[a + 1].f = s[a].f
      BY <3>1, RxNextByte, SMTT(30)
    <3> QED
      BY <3>2 DEF y
  <2> QED
    BY <2>1, <2>3
<1>9. (a + 1) + 1 \in 1..Len(s) /\ s[(a + 1) + 1].b = "CR"
  <2>1. s[a + 1].f \in (1..Len(K)) \ D /\ K[s[a + 1].f] = "data" /\ RxRank(s[a + 1].b) = 2
    BY <1>5, <1>8
  <2>2. "CR" \in RxParts("LAWICEL", K[s[a + 1].f]) /\ RxRank("CR") = RxRank(s[a + 1].b) + 1
    BY <1>5, <2>1 DEF RxParts
  <2> DEFINE y == "CR"
             c == a + 1
  <2>3. y \in RxParts("LAWICEL", K[s[c].f]) /\ RxRank(y) = RxRank(s[c].b) + 1 /\ c \in 1..Len(s)
        /\ s[c].f \in (1..Len(K)) \ D
    BY <1>8, <2>1, <2>2
  <2> HIDE DEF y, c
  <2>4. c + 1 \in 1..Len(s) /\ s[c + 1].b = y
    BY <2>3, RxNextByte, SMTT(30)
  <2> QED
    BY <2>4 DEF y, c
<1>10. e = a + 2
  <2>1. ~((a + 1) + 1 < e)
    BY <1>4, <1>6, <1>9
  <2>2. e # a + 1
    BY <1>4, <1>8
  <2> QED
    BY <1>4, <1>6, <2>1, <2>2
<1> QED
  BY <1>7, <1>8, <1>10

(* An undamaged line that begins with t is a data frame or one without data. *)
LEMMA RxLineWhole ==
  ASSUME NEW K, NEW D, NEW s, NEW a, NEW e, RxStream(s, "LAWICEL", K, D), Len(K) \in Nat, RxIsLine(s, a, e),
         \A h \in 1..Len(K) : K[h] \in {"data", "empty", "version", "ack"},
         s[a].b = "t", s[a].f \notin D
  PROVE  /\ s[a].f \in 1..Len(K) /\ K[s[a].f] \in {"data", "empty"} /\ e = a + 2
         /\ s[a + 1].b = K[s[a].f]
<1>1. /\ s \in Seq(RxBytes) /\ Len(s) \in Nat
      /\ \A i \in 1..Len(s) : RxOrigin("LAWICEL", K, D, s[i])
  BY DEF RxStream
<1>2. /\ a \in 1..Len(s) /\ e \in 1..Len(s) /\ a < e
      /\ s[e].b = "CR" /\ \A q \in 1..Len(s) : a <= q /\ q < e => s[q].b # "CR"
  BY Zenon DEF RxIsLine
<1>3. s[a].f \in (1..Len(K)) \ D /\ s[a].b \in RxParts("LAWICEL", K[s[a].f])
  BY <1>1, <1>2 DEF RxOrigin
<1> DEFINE k == K[s[a].f]
<1>4. k \in {"data", "empty"}
  <2>1. k \in {"data", "empty", "version", "ack"}
    BY <1>3
  <2> QED
    BY <1>3, <2>1 DEF RxParts
<1>5. RxRank("t") = 1 /\ RxRank(k) = 2 /\ RxRank("CR") = 3 /\ RxParts("LAWICEL", k) = {"t", k, "CR"}
  BY <1>4 DEF RxRank, RxParts
<1>6. a + 1 \in 1..Len(s) /\ s[a + 1].b = k /\ s[a + 1].f = s[a].f
  <2>1. k \in RxParts("LAWICEL", K[s[a].f]) /\ RxRank(k) = RxRank(s[a].b) + 1
    BY <1>5
  <2> QED
    BY <1>2, <1>3, <2>1, RxNextByte, SMTT(30)
<1>7. (a + 1) + 1 \in 1..Len(s) /\ s[(a + 1) + 1].b = "CR"
  <2>1. s[a + 1].f \in (1..Len(K)) \ D /\ "CR" \in RxParts("LAWICEL", K[s[a + 1].f])
        /\ RxRank("CR") = RxRank(s[a + 1].b) + 1
    BY <1>3, <1>5, <1>6
  <2> QED
    BY <1>6, <2>1, RxNextByte, SMTT(30)
<1>8. e = a + 2
  <2>1. ~((a + 1) + 1 < e)
    BY <1>1, <1>2, <1>7
  <2>2. e # a + 1
    BY <1>2, <1>4, <1>6
  <2> QED
    BY <1>1, <1>2, <2>1, <2>2
<1> QED
  BY <1>3, <1>4, <1>6, <1>8

(* The line at the front of what is under way, and what it tells.            *)
RxLineAt(a, e) ==
  /\ rxDevice = "LAWICEL" /\ ~rxTorn
  /\ RxIsLine(RxAhead, a, e) /\ e < Len(m_RxBuff) /\ a \in Nat /\ e \in Nat
  /\ Len(Line) = e - a + 1 /\ Line[1] = RxAhead[a] /\ Line[2] = RxAhead[a + 1]
  /\ e = a + 2 => Line[3] = RxAhead[e]
  /\ Rest = SubSeq(m_RxBuff, e + 1, Len(m_RxBuff))

LEMMA RxLineFound ==
  ASSUME RxInv, rxDevice = "LAWICEL", rxParsing, LineFound
  PROVE  RxLineAt(StartAt, EndAt)
<1> DEFINE a == StartAt
           e == EndAt
           s == RxAhead
           b == m_RxBuff
<1>1. /\ RxIsLine(b, a, e) /\ e < Len(b)
      /\ Line = [i \in 1..(e - a + 1) |-> b[a + i - 1]] /\ Len(Line) = e - a + 1
  BY RxLineIs
<1>2. /\ Len(s) \in Nat /\ Len(b) \in Nat /\ Len(s) >= Len(b)
      /\ \A i \in 1..Len(b) : i \in 1..Len(s) /\ s[i] = b[i]
  <2>1. RxType
    BY DEF RxInv
  <2> QED
    BY <2>1, RxAheadIs
<1>3. Rest = SubSeq(b, e + 1, Len(b)) /\ ~rxTorn
  BY DEF Rest, RxInv, RxHalted
<1> HIDE DEF a, e, s, b
<1>4. /\ a \in 1..Len(b) /\ e \in 1..Len(b) /\ a < e
      /\ b[a].b \in {"t", "V"} /\ b[e].b = "CR"
      /\ \A q \in 1..Len(b) : q < a => b[q].b \notin {"t", "V"}
      /\ \A q \in 1..Len(b) : a <= q /\ q < e => b[q].b # "CR"
  BY <1>1, Zenon DEF RxIsLine
<1>5. RxIsLine(s, a, e)
  <2>1. a \in 1..Len(s) /\ e \in 1..Len(s) /\ s[a] = b[a] /\ s[e] = b[e]
    BY <1>2, <1>4
  <2>2. ASSUME NEW q \in 1..Len(s), q < a PROVE s[q].b \notin {"t", "V"}
    <3>1. q \in 1..Len(b)
      BY <1>2, <1>4, <2>2
    <3> QED
      BY <1>2, <1>4, <2>2, <3>1
  <2>3. ASSUME NEW q \in 1..Len(s), a <= q, q < e PROVE s[q].b # "CR"
    <3>1. q \in 1..Len(b)
      BY <1>2, <1>4, <2>3
    <3> QED
      BY <1>2, <1>4, <2>3, <3>1
  <2> QED
    BY <1>4, <2>1, <2>2, <2>3 DEF RxIsLine
<1>6. a \in Nat /\ e \in Nat /\ 1 \in 1..(e - a + 1) /\ 2 \in 1..(e - a + 1) /\ a + 1 \in 1..Len(b)
      /\ a + 1 - 1 = a /\ a + 2 - 1 = a + 1
  BY <1>2, <1>4
<1>7. Line[1] = b[a] /\ Line[2] = b[a + 1]
  BY <1>1, <1>6
<1>8. e = a + 2 => Line[3] = b[e]
  <2> SUFFICES ASSUME e = a + 2 PROVE Line[3] = b[e]
    OBVIOUS
  <2>1. 3 \in 1..(e - a + 1) /\ a + 3 - 1 = e
    BY <1>6
  <2> QED
    BY <1>1, <2>1
<1>9. s[a] = b[a] /\ s[a + 1] = b[a + 1] /\ s[e] = b[e]
  BY <1>2, <1>4, <1>6
<1>10. /\ Line[1] = s[a] /\ Line[2] = s[a + 1] /\ (e = a + 2 => Line[3] = s[e])
  BY <1>7, <1>8, <1>9
<1> QED
  BY <1>1, <1>3, <1>5, <1>6, <1>10, Zenon DEF RxLineAt, a, e, s, b

LEMMA RxKindsLawicel ==
  ASSUME RxInv, rxDevice = "LAWICEL"
  PROVE  /\ Len(rxKinds) \in Nat /\ RxStream(RxAhead, "LAWICEL", rxKinds, rxDamaged)
         /\ \A h \in 1..Len(rxKinds) : rxKinds[h] \in {"data", "empty", "version", "ack"}
<1>1. rxKinds \in Seq({"data", "empty", "version", "ack"})
  <2>1. RxKinds("LAWICEL") = {"data", "empty", "version", "ack"}
    BY DEF RxKinds
  <2> QED
    BY <2>1, Zenon DEF RxInv, RxType
<1>2. RxStream(RxAhead, "LAWICEL", rxKinds, rxDamaged)
  BY Zenon DEF RxInv, RxFlow
<1> QED
  BY <1>1, <1>2

(* A data frame without an excuse that starts before the end of the line is  *)
(* a frame for the parser.                                                   *)
LEMMA RxLineGood ==
  ASSUME RxInv, NEW a, NEW e, RxLineAt(a, e), NEW g \in 1..Len(rxKinds), RxGood(g),
         NEW p \in 1..Len(RxAhead), p <= e, RxAhead[p].f = g, RxRank(RxAhead[p].b) = 1
  PROVE  Line[1].b = "t" /\ Len(Line) = 3 /\ Line[2].b = "data" /\ Line[2].f = g /\ Verdict(Line) = "frame"
<1>1. /\ rxDevice = "LAWICEL" /\ RxIsLine(RxAhead, a, e) /\ a \in Nat /\ e \in Nat
      /\ Len(Line) = e - a + 1 /\ Line[1] = RxAhead[a] /\ Line[2] = RxAhead[a + 1]
  BY Zenon DEF RxLineAt
<1>2. g \notin rxDamaged /\ g - 1 \notin rxDamaged /\ rxKinds[g] = "data"
  BY <1>1 DEF RxGood
<1>3. /\ Len(rxKinds) \in Nat /\ RxStream(RxAhead, "LAWICEL", rxKinds, rxDamaged)
      /\ \A h \in 1..Len(rxKinds) : rxKinds[h] \in {"data", "empty", "version", "ack"}
  BY <1>1, RxKindsLawicel
<1>4. RxAhead[p].b = "t"
  <2>1. RxOrigin("LAWICEL", rxKinds, rxDamaged, RxAhead[p])
    BY <1>3 DEF RxStream
  <2>2. RxAhead[p].b \in {"t", "data", "CR", "short", "wrong"}
    BY <1>2, <2>1 DEF RxOrigin, RxParts
  <2> QED
    BY <2>2 DEF RxRank
<1>5. p = a /\ e = a + 2 /\ RxAhead[a + 1].b = "data" /\ RxAhead[a + 1].f = g
  <2> DEFINE s == RxAhead
             K == rxKinds
             D == rxDamaged
  <2>1. /\ Len(K) \in Nat /\ RxStream(s, "LAWICEL", K, D) /\ RxIsLine(s, a, e) /\ p \in 1..Len(s) /\ g \in 1..Len(K)
        /\ \A h \in 1..Len(K) : K[h] \in {"data", "empty", "version", "ack"}
        /\ g \notin D /\ g - 1 \notin D /\ s[p].f = g /\ s[p].b = "t" /\ K[g] = "data"
    BY <1>1, <1>2, <1>3, <1>4
  <2> HIDE DEF s, K, D
  <2>2. p = a /\ e = a + 2 /\ s[a + 1].b = "data" /\ s[a + 1].f = g
    BY <2>1, RxLineSync
  <2> QED
    BY <2>2 DEF s
<1>6. Len(Line) = 3
  BY <1>1, <1>5
<1> QED
  BY <1>1, <1>4, <1>5, <1>6 DEF Verdict

(* A line that begins with t and is no frame is damaged, or has no data.     *)
LEMMA RxLineBad ==
  ASSUME RxInv, NEW a, NEW e, RxLineAt(a, e), Line[1].b = "t", Verdict(Line) # "frame"
  PROVE  /\ RxAhead[a].f \in 1..Len(rxKinds)
         /\ RxAhead[a].f \in rxDamaged \/ rxKinds[RxAhead[a].f] = "empty"
         /\ Verdict(Line) = "throws" => RxAhead[a].f \in rxDamaged
<1>1. /\ rxDevice = "LAWICEL" /\ RxIsLine(RxAhead, a, e) /\ Line[1] = RxAhead[a] /\ Line[2] = RxAhead[a + 1]
      /\ (e = a + 2 => Line[3] = RxAhead[e])
  BY Zenon DEF RxLineAt
<1>2. /\ Len(rxKinds) \in Nat /\ RxStream(RxAhead, "LAWICEL", rxKinds, rxDamaged)
      /\ \A h \in 1..Len(rxKinds) : rxKinds[h] \in {"data", "empty", "version", "ack"}
  BY <1>1, RxKindsLawicel
<1>3. RxAhead[a].f \in 1..Len(rxKinds)
  BY <1>1, <1>2 DEF RxStream, RxIsLine, RxOrigin
<1>4. CASE RxAhead[a].f \in rxDamaged
  BY <1>3, <1>4
<1>5. CASE RxAhead[a].f \notin rxDamaged
  <2>1. /\ rxKinds[RxAhead[a].f] \in {"data", "empty"} /\ e = a + 2
        /\ RxAhead[a + 1].b = rxKinds[RxAhead[a].f]
    BY <1>1, <1>2, <1>5, RxLineWhole
  <2>2. RxAhead[e].b = "CR"
    BY <1>1 DEF RxIsLine
  <2> QED
    BY <1>1, <1>3, <2>1, <2>2 DEF Verdict
<1> QED
  BY <1>4, <1>5

(* The line goes, and what is behind it stays.                               *)
RxLineFrame(g) == Line[1].b = "t" /\ Len(Line) = 3 /\ Line[2].b = "data" /\ Line[2].f = g /\ Verdict(Line) = "frame"

LEMMA RxLineGone ==
  ASSUME RxInv, NEW a, NEW e, RxLineAt(a, e), m_RxBuff' = Rest,
         UNCHANGED <<rxWire, rxDevice, rxKinds, rxDamaged>>
  PROVE  /\ RxFlow' /\ m_RxBuff' \in Seq(RxBytes)
         /\ \A i \in 1..Len(RxAhead') : \E j \in 1..Len(RxAhead) : RxAhead'[i].f = RxAhead[j].f
         /\ \A i \in 1..Len(RxAhead') : RxAhead[a].f < RxAhead'[i].f /\ RxAhead[a + 1].f < RxAhead'[i].f
         /\ \A g \in 1..Len(rxKinds) : RxGood(g) /\ RxStarts(RxAhead, g) => RxStarts(RxAhead', g) \/ RxLineFrame(g)
<1> DEFINE s == RxAhead
           t == RxAhead'
<1>1. /\ RxIsLine(s, a, e) /\ e < Len(m_RxBuff) /\ a \in Nat /\ e \in Nat
      /\ Rest = SubSeq(m_RxBuff, e + 1, Len(m_RxBuff))
  BY Zenon DEF RxLineAt
<1>2. Len(m_RxBuff) \in Nat
  BY DEF RxInv, RxType
<1>3. RxMoves(e) /\ m_RxBuff' \in Seq(RxBytes)
  <2>1. e <= Len(m_RxBuff)
    BY <1>1, <1>2
  <2> QED
    BY <1>1, <2>1, RxConsumes
<1>4. /\ RxFlow'
      /\ \A i \in 1..Len(t) : \E j \in 1..Len(s) : t[i].f = s[j].f
      /\ \A i \in 1..Len(t) : \A k \in 1..e :
           /\ s[k].f <= t[i].f
           /\ RxRank(s[k].b) = 3 => s[k].f < t[i].f
      /\ \A g \in 1..Len(rxKinds) : RxStarts(s, g) =>
           RxStarts(t, g) \/ \E j \in 1..e : s[j].f = g /\ RxRank(s[j].b) = 1
  BY <1>3, RxMoved, Zenon
<1>5. s \in Seq(RxBytes) /\ Len(s) \in Nat
  BY RxAheadIs, Zenon DEF RxInv
<1>6. RxRising(s)
  BY DEF RxInv, RxFlow, RxStream
<1>7. t \in Seq(RxBytes)
  BY <1>4, Zenon DEF RxFlow, RxStream
<1> HIDE DEF s, t
<1>8. a \in 1..Len(s) /\ e \in 1..Len(s) /\ a < e /\ s[e].b = "CR"
  BY <1>1, Zenon DEF RxIsLine
<1>9. e \in 1..e /\ RxRank(s[e].b) = 3
  BY <1>1, <1>8 DEF RxRank
<1>10. \A k \in 1..Len(s) : k <= e => s[k].f <= s[e].f /\ s[k].f \in Nat
  <2> SUFFICES ASSUME NEW k \in 1..Len(s), k <= e PROVE s[k].f <= s[e].f /\ s[k].f \in Nat
    OBVIOUS
  <2>1. s[k] \in RxBytes /\ s[e] \in RxBytes
    BY <1>5, <1>8, ElementOfSeq, Zenon
  <2>2. CASE k < e
    <3>1. RxPos(s[k]) < RxPos(s[e])
      BY <1>6, <1>8, <2>2 DEF RxRising
    <3> QED
      BY <2>1, <3>1, RxOrder, RxPlaces
  <2>3. CASE k = e
    BY <2>1, <2>3 DEF RxBytes
  <2> QED
    BY <1>1, <2>2, <2>3
<1>11. ASSUME NEW i \in 1..Len(t) PROVE s[a].f < t[i].f /\ s[a + 1].f < t[i].f
  <2>1. s[e].f < t[i].f
    BY <1>4, <1>9
  <2>2. t[i].f \in Nat
    <3>1. t[i] \in RxBytes
      BY <1>7, ElementOfSeq, Zenon
    <3> QED
      BY <3>1 DEF RxBytes
  <2>3. a + 1 \in 1..Len(s) /\ a + 1 <= e /\ a <= e
    BY <1>1, <1>5, <1>8
  <2>4. s[a].f <= s[e].f /\ s[a].f \in Nat /\ s[a + 1].f <= s[e].f /\ s[a + 1].f \in Nat /\ s[e].f \in Nat
    <3>1. e <= e
      BY <1>1
    <3> QED
      BY <1>8, <1>10, <2>3, <3>1
  <2> QED
    BY <2>1, <2>2, <2>4
<1>12. ASSUME NEW g \in 1..Len(rxKinds), RxGood(g), NEW j \in 1..e, s[j].f = g, RxRank(s[j].b) = 1
       PROVE  RxLineFrame(g)
  <2>1. j \in 1..Len(s) /\ j <= e
    BY <1>1, <1>5, <1>8
  <2> QED
    BY <1>12, <2>1, RxLineGood DEF RxLineFrame, s
<1> QED
  BY <1>3, <1>4, <1>11, <1>12, Zenon DEF s, t

(* The version line, or one that is too long.                                *)
LEMMA RxReturns ==
  ASSUME RxInv, LawicelReturns
  PROVE  RxInv'
<1> DEFINE a == StartAt
           e == EndAt
<1>1. /\ rxDevice = "LAWICEL" /\ rxParsing /\ LineFound /\ (Len(Line) >= LineLimit \/ Line[1].b = "V")
      /\ m_RxBuff' = Rest /\ rxParsing' = FALSE
      /\ UNCHANGED <<rxDevice, rxWire, rxTorn, rxKinds, rxTaken, rxDamaged, rxWiped, rxThrows>>
  BY DEF LawicelReturns, rxHistory
<1>2. RxLineAt(a, e)
  BY <1>1, RxLineFound
<1> HIDE DEF a, e
<1>3. /\ RxFlow' /\ m_RxBuff' \in Seq(RxBytes)
      /\ \A i \in 1..Len(RxAhead') : \E j \in 1..Len(RxAhead) : RxAhead'[i].f = RxAhead[j].f
      /\ \A g \in 1..Len(rxKinds) : RxGood(g) /\ RxStarts(RxAhead, g) => RxStarts(RxAhead', g) \/ RxLineFrame(g)
  <2>1. UNCHANGED <<rxWire, rxDevice, rxKinds, rxDamaged>>
    BY <1>1
  <2> QED
    BY <1>1, <1>2, <2>1, RxLineGone, Zenon
<1>4. ASSUME NEW g PROVE ~RxLineFrame(g)
  <2> SUFFICES ASSUME RxLineFrame(g) PROVE FALSE
    OBVIOUS
  <2>1. Line[1].b = "t" /\ Len(Line) = 3
    BY Zenon DEF RxLineFrame
  <2>2. Len(Line) >= LineLimit \/ Line[1].b = "V"
    BY <1>1
  <2>3. ~(3 >= LineLimit)
    BY RxAssumption
  <2> QED
    BY <2>1, <2>2, <2>3
<1>5. RxType'
  BY <1>1, <1>3 DEF RxInv, RxType
<1>6. ~rxTorn /\ ~rxTorn'
  BY <1>1 DEF RxInv, RxHalted
<1>7. RxCause' /\ RxThrown'
  BY <1>1, <1>3, RxCauseSame, RxThrownSame
<1>8. RxTakes /\ rxDamaged \subseteq rxDamaged' /\ rxWiped \subseteq rxWiped'
  BY <1>1 DEF RxTakes
<1>9. \A g \in 1..Len(rxKinds) : RxGood(g) /\ RxStarts(RxAhead, g) => RxStarts(RxAhead', g)
  BY <1>3, <1>4, Zenon
<1> QED
  BY <1>1, <1>3, <1>5, <1>6, <1>7, <1>8, <1>9, RxStep, Zenon

(* A frame.                                                                  *)
LEMMA RxLineTaken ==
  ASSUME RxInv, rxDevice = "LAWICEL", rxParsing, LineFound, Len(Line) < LineLimit, Line[1].b = "t",
         Verdict(Line) = "frame", m_RxBuff' = Rest, Take(Line[2].f, Line[2].b),
         UNCHANGED <<rxDevice, rxWire, rxTorn, rxKinds, rxDamaged, rxParsing, rxWiped, rxThrows>>
  PROVE  RxInv'
<1> DEFINE a == StartAt
           e == EndAt
           c == Line[2].f
           p == Line[2].b
<1>1. RxLineAt(a, e)
  BY RxLineFound
<1> HIDE DEF a, e
<1>2. /\ RxFlow' /\ m_RxBuff' \in Seq(RxBytes)
      /\ \A i \in 1..Len(RxAhead') : \E j \in 1..Len(RxAhead) : RxAhead'[i].f = RxAhead[j].f
      /\ \A i \in 1..Len(RxAhead') : RxAhead[a].f < RxAhead'[i].f /\ RxAhead[a + 1].f < RxAhead'[i].f
      /\ \A g \in 1..Len(rxKinds) : RxGood(g) /\ RxStarts(RxAhead, g) => RxStarts(RxAhead', g) \/ RxLineFrame(g)
  <2>1. UNCHANGED <<rxWire, rxDevice, rxKinds, rxDamaged>>
    OBVIOUS
  <2> QED
    BY <1>1, <2>1, RxLineGone, Zenon
<1>3. /\ RxIsLine(RxAhead, a, e) /\ a \in Nat /\ e \in Nat
      /\ Line[2] = RxAhead[a + 1] /\ (e = a + 2 => Line[3] = RxAhead[e])
  BY <1>1, Zenon DEF RxLineAt
<1>4. /\ Len(rxKinds) \in Nat /\ RxStream(RxAhead, "LAWICEL", rxKinds, rxDamaged)
      /\ \A h \in 1..Len(rxKinds) : rxKinds[h] \in {"data", "empty", "version", "ack"}
  BY RxKindsLawicel
<1>5. a + 1 \in 1..Len(RxAhead) /\ Len(RxAhead) \in Nat /\ a < e
  <2>1. Len(RxAhead) \in Nat
    BY RxAheadIs, Zenon DEF RxInv
  <2>2. a \in 1..Len(RxAhead) /\ e \in 1..Len(RxAhead) /\ a < e
    BY <1>3, Zenon DEF RxIsLine
  <2> QED
    BY <2>1, <2>2
<1>6. RxOrigin("LAWICEL", rxKinds, rxDamaged, RxAhead[a + 1]) /\ RxAhead[a + 1] \in RxBytes
  <2>1. RxAhead \in Seq(RxBytes)
    BY <1>4, Zenon DEF RxStream
  <2> QED
    BY <1>4, <1>5, <2>1, ElementOfSeq, Zenon DEF RxStream
<1>7. p \in {"data", "wrong", "empty"} /\ c = RxAhead[a + 1].f /\ p = RxAhead[a + 1].b
  BY <1>3 DEF Verdict
<1>8. c \in 1..Len(rxKinds) /\ (p = rxKinds[c] \/ (p = "wrong" /\ c \in rxDamaged))
  <2>1. c \in 1..Len(rxKinds)
    BY <1>6, <1>7 DEF RxOrigin
  <2>2. rxKinds[c] \in {"data", "empty", "version", "ack"}
    BY <1>4, <2>1
  <2>3. p \in RxParts("LAWICEL", rxKinds[c]) \/ (p \in {"short", "wrong"} /\ c \in rxDamaged)
    BY <1>6, <1>7 DEF RxOrigin
  <2> HIDE DEF p, c
  <2> QED
    BY <1>7, <2>1, <2>2, <2>3 DEF RxParts
<1>9. p \in RxLetters /\ c \in Nat
  <2> HIDE DEF p, c
  <2>1. p \in RxLetters
    BY <1>7 DEF RxLetters
  <2>2. \A k \in 1..Len(rxKinds) : k \in Nat
    BY <1>4
  <2> QED
    BY <1>8, <2>1, <2>2
<1>10. rxTaken' = Append(rxTaken, [f |-> c, payload |-> p])
  BY DEF Take
<1>11. RxTakes
  <2>1. \E j \in 1..Len(RxAhead) : RxAhead[j].f = c
    BY <1>5, <1>7
  <2>2. \A j \in 1..Len(RxAhead') : c < RxAhead'[j].f
    BY <1>2, <1>7
  <2> HIDE DEF c, p
  <2> QED
    BY <1>8, <1>9, <1>10, <2>1, <2>2 DEF RxTakes
<1> DEFINE x == [f |-> c, payload |-> p]
<1>12. x \in [f : Nat, payload : RxLetters] /\ x.f = c /\ rxTaken' = Append(rxTaken, x)
  BY <1>9, <1>10
<1> HIDE DEF c, p, x
<1>13. rxTaken \in Seq([f : Nat, payload : RxLetters])
  BY DEF RxInv, RxType
<1>14. /\ rxTaken' \in Seq([f : Nat, payload : RxLetters])
       /\ Len(rxTaken) + 1 \in 1..Len(rxTaken') /\ rxTaken'[Len(rxTaken) + 1] = x
  BY <1>12, <1>13
<1>16. RxType'
  BY <1>2, <1>14 DEF RxInv, RxType
<1>17. ~rxTorn /\ ~rxTorn'
  BY DEF RxInv, RxHalted
<1>18. RxCause' /\ RxThrown'
  BY <1>2, RxCauseSame, RxThrownSame
<1>19. \A g \in 1..Len(rxKinds) : RxGood(g) /\ RxStarts(RxAhead, g) => RxTook(g)' \/ RxStarts(RxAhead', g)
  <2>1. ASSUME NEW g, RxLineFrame(g) PROVE RxTook(g)'
    <3>1. g = c
      BY <2>1 DEF RxLineFrame, c
    <3>2. rxTaken'[Len(rxTaken) + 1].f = g
      BY <1>12, <1>14, <3>1
    <3> QED
      BY <1>14, <3>2 DEF RxTook
  <2> QED
    BY <1>2, <2>1, Zenon
<1> QED
  BY <1>2, <1>11, <1>16, <1>17, <1>18, <1>19, RxStep, Zenon

(* An exception.                                                             *)
LEMMA RxLineThrows ==
  ASSUME RxInv, rxDevice = "LAWICEL", rxParsing, LineFound, Len(Line) < LineLimit, Line[1].b = "t",
         Verdict(Line) = "throws", m_RxBuff' = Rest, rxParsing' = FALSE, rxThrows' = rxThrows + 1,
         UNCHANGED <<rxDevice, rxWire, rxTorn, rxKinds, rxDamaged, rxTaken, rxWiped>>
  PROVE  RxInv'
<1> DEFINE a == StartAt
           e == EndAt
           c == RxAhead[a].f
<1>1. RxLineAt(a, e)
  BY RxLineFound
<1> HIDE DEF a, e
<1>2. /\ RxFlow' /\ m_RxBuff' \in Seq(RxBytes)
      /\ \A i \in 1..Len(RxAhead') : \E j \in 1..Len(RxAhead) : RxAhead'[i].f = RxAhead[j].f
      /\ \A i \in 1..Len(RxAhead') : RxAhead[a].f < RxAhead'[i].f /\ RxAhead[a + 1].f < RxAhead'[i].f
      /\ \A g \in 1..Len(rxKinds) : RxGood(g) /\ RxStarts(RxAhead, g) => RxStarts(RxAhead', g) \/ RxLineFrame(g)
  <2>1. UNCHANGED <<rxWire, rxDevice, rxKinds, rxDamaged>>
    OBVIOUS
  <2> QED
    BY <1>1, <2>1, RxLineGone, Zenon
<1>3. Verdict(Line) # "frame"
  OBVIOUS
<1>4. c \in rxDamaged
  BY <1>1, <1>3, RxLineBad
<1>5. a \in 1..Len(RxAhead)
  BY <1>1, Zenon DEF RxLineAt, RxIsLine
<1>6. RxThrown'
  <2>1. PICK X \in SUBSET rxDamaged : /\ IsFiniteSet(X) /\ Cardinality(X) = rxThrows
                                      /\ \A x \in X : \A j \in 1..Len(RxAhead) : x < RxAhead[j].f
    BY Zenon DEF RxInv, RxThrown
  <2>2. c \in Nat /\ rxThrows \in Nat
    <3>1. RxType
      BY DEF RxInv
    <3>2. rxDamaged \subseteq Nat /\ rxThrows \in Nat
      BY <3>1 DEF RxType
    <3> QED
      BY <1>4, <3>2, Zenon
  <2> DEFINE Y == X \cup {c}
  <2>3. c \notin X
    BY <1>5, <2>1, <2>2
  <2>4. IsFiniteSet(Y) /\ Cardinality(Y) = rxThrows + 1
    <3>1. IsFiniteSet(Y) /\ Cardinality(Y) = IF c \in X THEN Cardinality(X) ELSE Cardinality(X) + 1
      BY <2>1, FS_AddElement
    <3> QED
      BY <2>1, <2>3, <3>1
  <2>5. Y \in SUBSET rxDamaged'
    BY <1>4
  <2>6. \A x \in Y : \A j \in 1..Len(RxAhead') : x < RxAhead'[j].f
    <3>1. ASSUME NEW x \in X, NEW j \in 1..Len(RxAhead') PROVE x < RxAhead'[j].f
      BY <1>2, <2>1
    <3>2. ASSUME NEW j \in 1..Len(RxAhead') PROVE c < RxAhead'[j].f
      BY <1>2
    <3> QED
      BY <3>1, <3>2
  <2> HIDE DEF Y
  <2> QED
    BY <2>4, <2>5, <2>6 DEF RxThrown
<1>7. ASSUME NEW g PROVE ~RxLineFrame(g)
  BY <1>3, Zenon DEF RxLineFrame
<1>8. RxType'
  <2>1. RxType
    BY DEF RxInv
  <2>2. rxThrows' \in Nat
    BY <2>1 DEF RxType
  <2>3. rxParsing' \in BOOLEAN
    OBVIOUS
  <2> QED
    BY <1>2, <2>1, <2>2, <2>3, Zenon DEF RxType
<1>9. ~rxTorn /\ ~rxTorn'
  BY DEF RxInv, RxHalted
<1>10. RxCause'
  BY RxCauseSame
<1>11. RxTakes /\ rxDamaged \subseteq rxDamaged' /\ rxWiped \subseteq rxWiped'
  BY DEF RxTakes
<1>12. \A g \in 1..Len(rxKinds) : RxGood(g) /\ RxStarts(RxAhead, g) => RxStarts(RxAhead', g)
  BY <1>2, <1>7, Zenon
<1>13. UNCHANGED <<rxDevice, rxKinds>>
  OBVIOUS
<1> QED
  BY <1>2, <1>6, <1>8, <1>9, <1>10, <1>11, <1>12, <1>13, RxStep, Zenon

(* What is no frame: the buffer is erased.                                   *)
LEMMA RxLineWipes ==
  ASSUME RxInv, rxDevice = "LAWICEL", rxParsing, LineFound, Len(Line) < LineLimit, Line[1].b = "t",
         Verdict(Line) = "invalid", m_RxBuff' = <<>>,
         rxWiped' = rxWiped \cup {m_RxBuff[i].f : i \in 1..Len(m_RxBuff)},
         UNCHANGED <<rxDevice, rxWire, rxTorn, rxKinds, rxDamaged, rxParsing, rxTaken, rxThrows>>
  PROVE  RxInv'
<1> DEFINE a == StartAt
           e == EndAt
           s == RxAhead
           n == Len(m_RxBuff)
<1>1. RxLineAt(a, e)
  BY RxLineFound
<1>2. /\ s \in Seq(RxBytes) /\ Len(s) \in Nat /\ n \in Nat /\ n <= Len(s)
      /\ \A i \in 1..n : i \in 1..Len(s) /\ s[i] = m_RxBuff[i]
  <2>1. RxType
    BY DEF RxInv
  <2> QED
    BY <2>1, RxAheadIs
<1>3. m_RxBuff \in Seq(RxBytes)
  BY DEF RxInv, RxType
<1>4. m_RxBuff' = SubSeq(m_RxBuff, n + 1, n)
  BY <1>3
<1>5. RxMoves(n)
  <2>1. UNCHANGED <<rxWire, rxDevice, rxKinds, rxDamaged>> /\ n <= n
    BY <1>2
  <2> QED
    BY <1>2, <1>4, <2>1, RxConsumes
<1> HIDE DEF a, e
<1>6. /\ RxFlow'
      /\ \A i \in 1..Len(RxAhead') : \E j \in 1..Len(s) : RxAhead'[i].f = s[j].f
      /\ \A g \in 1..Len(rxKinds) : RxStarts(s, g) =>
           RxStarts(RxAhead', g) \/ \E j \in 1..n : s[j].f = g /\ RxRank(s[j].b) = 1
  BY <1>5, RxMoved, Zenon
<1>7. ~rxTorn /\ ~rxTorn'
  BY DEF RxInv, RxHalted
<1>8. /\ Len(rxKinds) \in Nat /\ RxStream(s, "LAWICEL", rxKinds, rxDamaged)
      /\ \A h \in 1..Len(rxKinds) : rxKinds[h] \in {"data", "empty", "version", "ack"}
  BY RxKindsLawicel
<1>9. RxIsLine(s, a, e) /\ a \in Nat /\ e \in Nat /\ Line[1] = s[a]
  BY <1>1, Zenon DEF RxLineAt
<1>10. /\ s[a].f \in 1..Len(rxKinds)
       /\ s[a].f \in rxDamaged \/ rxKinds[s[a].f] = "empty"
  <2>1. Verdict(Line) # "frame"
    OBVIOUS
  <2> QED
    BY <1>1, <2>1, RxLineBad
<1>11. \A i \in 1..n : m_RxBuff[i].f \in 1..Len(rxKinds)
  BY <1>2, <1>8 DEF RxStream, RxOrigin
<1>12. RxType'
  <2>1. m_RxBuff' \in Seq(RxBytes)
    OBVIOUS
  <2>2. rxWiped' \subseteq 1..Len(rxKinds)
    BY <1>11 DEF RxInv, RxType
  <2> QED
    BY <2>1, <2>2 DEF RxInv, RxType
<1>13. RxThrown'
  BY <1>6, RxThrownSame
<1>14. RxTakes /\ rxDamaged \subseteq rxDamaged' /\ rxWiped \subseteq rxWiped'
  BY DEF RxTakes
<1>15. ASSUME NEW g \in 1..Len(rxKinds), RxGood(g)', NEW j \in 1..n, s[j].f = g PROVE FALSE
  <2>1. g \in rxWiped'
    BY <1>2, <1>15
  <2> QED
    BY <1>15, <2>1 DEF RxGood
<1>16. \A g \in 1..Len(rxKinds) : RxGood(g)' /\ RxStarts(s, g) => RxStarts(RxAhead', g)
  BY <1>6, <1>15, Zenon
<1> HIDE DEF s
<1>17. ASSUME NEW i \in 1..n, NEW g, g = m_RxBuff[i].f,
              g \notin rxWiped, g \notin rxDamaged, g - 1 \notin rxDamaged, rxKinds[g] = "data"
       PROVE  \E h \in 1..(g - 1) : h \in rxDamaged \/ rxKinds[h] = "empty"
  <2>1. g \in 1..Len(rxKinds) /\ i \in 1..Len(s) /\ s[i].f = g
    BY <1>2, <1>11, <1>17
  <2>2. RxGood(g)
    BY <1>17 DEF RxGood
  <2>3. PICK p \in 1..Len(s) : s[p].f = g /\ RxRank(s[p].b) = 1
    <3>1. RxStarts(s, s[i].f)
      BY <1>7, <2>1, <2>2, RxGoodFront DEF s
    <3> QED
      BY <2>1, <3>1 DEF RxStarts
  <2>4. ~(p <= e)
    <3> SUFFICES ASSUME p <= e PROVE FALSE
      OBVIOUS
    <3>1. Verdict(Line) = "frame"
      BY <1>1, <2>1, <2>2, <2>3, RxLineGood DEF s
    <3> QED
      BY <3>1
  <2>5. a \in 1..Len(s) /\ a < e
    BY <1>9, Zenon DEF RxIsLine
  <2>6. a < p
    BY <1>9, <2>3, <2>4, <2>5
  <2>7. RxPos(s[a]) < RxPos(s[p])
    BY <1>8, <2>3, <2>5, <2>6 DEF RxStream, RxRising
  <2>8. s[a].f < g
    <3>1. s[a] \in RxBytes /\ s[p] \in RxBytes
      BY <1>2, <2>3, <2>5, ElementOfSeq, Zenon
    <3> QED
      BY <2>3, <2>7, <3>1, RxOrder
  <2>9. s[a].f \in 1..(g - 1)
    BY <1>10, <2>1, <2>8
  <2> QED
    BY <1>10, <2>9
<1>18. RxCause'
  <2> SUFFICES ASSUME NEW g \in rxWiped', g \notin rxDamaged, g - 1 \notin rxDamaged, rxKinds[g] = "data"
               PROVE  \E h \in 1..(g - 1) : h \in rxDamaged \/ rxKinds[h] = "empty"
    BY Zenon DEF RxCause
  <2>1. CASE g \in rxWiped
    BY <2>1 DEF RxInv, RxCause
  <2>2. CASE g \notin rxWiped
    <3>1. PICK i \in 1..n : g = m_RxBuff[i].f
      BY <2>2
    <3> QED
      BY <1>17, <2>2, <3>1
  <2> QED
    BY <2>1, <2>2
<1>19. UNCHANGED <<rxDevice, rxKinds>>
  OBVIOUS
<1> QED
  BY <1>6, <1>7, <1>12, <1>13, <1>14, <1>16, <1>18, <1>19, RxStep, Zenon DEF s

LEMMA RxLineTurns ==
  ASSUME RxInv, LawicelTurn
  PROVE  RxInv'
<1>1. /\ rxDevice = "LAWICEL" /\ rxParsing /\ LineFound /\ Len(Line) < LineLimit /\ Line[1].b = "t"
      /\ UNCHANGED <<rxDevice, rxWire, rxTorn, rxKinds, rxDamaged>>
  BY DEF LawicelTurn
<1>2. CASE /\ Verdict(Line) = "frame"
           /\ m_RxBuff' = Rest /\ Take(Line[2].f, Line[2].b)
           /\ UNCHANGED <<rxParsing, rxWiped, rxThrows>>
  <2>1. UNCHANGED <<rxDevice, rxWire, rxTorn, rxKinds, rxDamaged, rxParsing, rxWiped, rxThrows>>
    BY <1>1, <1>2
  <2> QED
    BY <1>1, <1>2, <2>1, RxLineTaken, Zenon
<1>3. CASE /\ Verdict(Line) = "throws"
           /\ m_RxBuff' = Rest /\ rxParsing' = FALSE /\ rxThrows' = rxThrows + 1
           /\ UNCHANGED <<rxTaken, rxWiped>>
  <2>1. UNCHANGED <<rxDevice, rxWire, rxTorn, rxKinds, rxDamaged, rxTaken, rxWiped>>
    BY <1>1, <1>3
  <2> QED
    BY <1>1, <1>3, <2>1, RxLineThrows, Zenon
<1>4. CASE /\ Verdict(Line) = "invalid"
           /\ m_RxBuff' = <<>>
           /\ rxWiped' = rxWiped \cup {m_RxBuff[i].f : i \in 1..Len(m_RxBuff)}
           /\ UNCHANGED <<rxParsing, rxTaken, rxThrows>>
  <2>1. UNCHANGED <<rxDevice, rxWire, rxTorn, rxKinds, rxDamaged, rxParsing, rxTaken, rxThrows>>
    BY <1>1, <1>4
  <2> QED
    BY <1>1, <1>4, <2>1, RxLineWipes, Zenon
<1> QED
  BY <1>2, <1>3, <1>4, Zenon DEF LawicelTurn

(* The erase meets an insert: nothing is told of what comes.                 *)
LEMMA RxTears ==
  ASSUME RxInv, LawicelTears
  PROVE  RxInv'
<1>1. /\ rxTorn' = TRUE /\ rxParsing' = FALSE /\ m_RxBuff' = <<>> /\ rxWire' = <<>>
      /\ UNCHANGED <<rxDevice, rxKinds, rxTaken, rxDamaged, rxWiped, rxThrows>>
  BY DEF LawicelTears, rxHistory
<1>2. RxAhead' = <<>> /\ Len(RxAhead') = 0 /\ RxAhead' \in Seq(RxBytes)
  BY <1>1 DEF RxAhead
<1>3. RxType'
  <2>1. RxType
    BY DEF RxInv
  <2>2. /\ rxKinds \in Seq(RxKinds(rxDevice)) /\ rxDamaged \subseteq 1..Len(rxKinds)
        /\ rxWiped \subseteq 1..Len(rxKinds)
    BY <2>1, Zenon DEF RxType
  <2>3. m_RxBuff' \in Seq(RxBytes) /\ rxWire' \in Seq(RxBytes) /\ rxParsing' \in BOOLEAN /\ rxTorn' \in BOOLEAN
    <3>1. <<>> \in Seq(RxBytes)
      OBVIOUS
    <3>2. TRUE \in BOOLEAN /\ FALSE \in BOOLEAN
      OBVIOUS
    <3> QED
      BY <1>1, <3>1, <3>2, Zenon
  <2> QED
    BY <1>1, <2>1, <2>2, <2>3, Zenon DEF RxType
<1>4. RxFlow'
  BY <1>2 DEF RxFlow, RxStream, RxRising, RxWhole
<1>5. RxCause' /\ RxThrown'
  <2>1. rxDamaged \subseteq rxDamaged'
    BY <1>1
  <2> QED
    BY <1>1, <1>2, <2>1, RxCauseSame, RxThrownSame
<1>6. TakenInOrder'
  BY <1>1 DEF RxInv, TakenInOrder
<1>7. RxBehind'
  BY <1>1, <1>2 DEF RxInv, RxBehind
<1>8. RxKept' /\ RxHalted'
  BY <1>1 DEF RxKept, RxHalted
<1> QED
  BY <1>3, <1>4, <1>5, <1>6, <1>7, <1>8, Zenon DEF RxInv

LEMMA RxKeeps == RxInv /\ [RxNext]_rxVars => RxInv'
<1> SUFFICES ASSUME RxInv, [RxNext]_rxVars PROVE RxInv'
  OBVIOUS
<1>1. CASE RxSend
  BY <1>1, RxSends
<1>2. CASE RxDamage
  BY <1>2, RxDamages
<1>3. CASE RxArrive
  BY <1>3, RxArrives
<1>4. CASE RxBegin \/ LawicelNoLine \/ UNCHANGED rxVars
  BY <1>4, RxBegins
<1>5. CASE Stm32Turn
  BY <1>5, RxStmTurns
<1>6. CASE LawicelReturns
  BY <1>6, RxReturns
<1>7. CASE LawicelTurn
  BY <1>7, RxLineTurns
<1>8. CASE LawicelTears
  BY <1>8, RxTears
<1> QED
  BY <1>1, <1>2, <1>3, <1>4, <1>5, <1>6, <1>7, <1>8, Zenon DEF RxNext

(* CanDeviceStm32 and CanDeviceLawicel hand the frames over in the order     *)
(* they were sent, and miss one that arrived whole only where the line was   *)
(* to blame: for every size of the circular buffer, every longest line that  *)
(* a frame fits into, and any number of frames sent and of bytes damaged.    *)
THEOREM RxIsSafe == RxSpec => []RxSafe
<1>1. RxInit => RxInv
  BY RxStarted
<1>2. RxInv /\ [RxNext]_rxVars => RxInv'
  BY RxKeeps
<1>3. RxInv => RxSafe
  BY RxMeans
<1> QED
  BY <1>1, <1>2, <1>3, PTL DEF RxSpec
-----------------------------------------------------------------------------
(* The parts side by side: a step of one leaves the variables of the others. *)
LEMMA GridSteps ==
  [MCNext]_<<part, mbVars, clVars, csVars, loVars>> =>
    [CanLogNext]_lgVars /\ [ModbusLogNext]_mlVars /\ [DidGridNext]_dgVars
<1> SUFFICES ASSUME [MCNext]_<<part, mbVars, clVars, csVars, loVars>>
             PROVE  [CanLogNext]_lgVars /\ [ModbusLogNext]_mlVars /\ [DidGridNext]_dgVars
  OBVIOUS
<1>1. ASSUME UNCHANGED loVars PROVE UNCHANGED lgVars /\ UNCHANGED mlVars /\ UNCHANGED dgVars
  BY <1>1, Zenon DEF loVars
<1>2. CASE UNCHANGED <<part, mbVars, clVars, csVars, loVars>>
  BY <1>1, <1>2, Zenon
<1>3. CASE MCNext
  BY <1>1, <1>3, Zenon DEF MCNext
<1> QED
  BY <1>2, <1>3

(* Beside the other parts the log panels and the DID panel keep what they    *)
(* show right, for every value of the constants.                             *)
THEOREM GridsAreRight == MCSpec => []GridsRight
<1>1. MCInit => LgInv /\ MlInv /\ DgInv
  BY LgInit, MlInit, DgInit DEF MCInit
<1>2. LgInv /\ MlInv /\ DgInv /\ [MCNext]_<<part, mbVars, clVars, csVars, loVars>>
        => LgInv' /\ MlInv' /\ DgInv'
  BY GridSteps, LgKeeps, MlKeeps, DgKeeps
<1>3. LgInv /\ MlInv /\ DgInv => GridsRight
  BY LgMeans, MlMeans, DgMeans DEF GridsRight
<1> QED
  BY <1>1, <1>2, <1>3, PTL DEF MCSpec

LEMMA BusSteps ==
  [MCNext]_<<part, mbVars, clVars, csVars, loVars>> => [TxListNext]_clVars /\ [RxNext]_rxVars
<1> SUFFICES ASSUME [MCNext]_<<part, mbVars, clVars, csVars, loVars>>
             PROVE  [TxListNext]_clVars /\ [RxNext]_rxVars
  OBVIOUS
<1>1. ASSUME UNCHANGED loVars PROVE UNCHANGED rxVars
  BY <1>1, Zenon DEF loVars
<1>2. ASSUME UNCHANGED busVars PROVE UNCHANGED clVars
  BY <1>2, Zenon DEF busVars
<1>3. CASE UNCHANGED <<part, mbVars, clVars, csVars, loVars>>
  BY <1>1, <1>3, Zenon
<1>4. CASE MCNext
  BY <1>1, <1>2, <1>4, Zenon DEF MCNext
<1> QED
  BY <1>3, <1>4

(* Beside the other parts the list of frames to send and the parsers of what *)
(* is received stay safe, for every value of the constants.                  *)
THEOREM BusIsSafe == MCSpec => []CanBusSafe
<1>1. MCInit => TlInv /\ RxInv
  BY TlInit, RxStarted, Zenon DEF MCInit
<1>2. TlInv /\ RxInv /\ [MCNext]_<<part, mbVars, clVars, csVars, loVars>> => TlInv' /\ RxInv'
  BY BusSteps, TlKeeps, RxKeeps
<1>3. TlInv /\ RxInv => CanBusSafe
  BY TlMeans, RxMeans DEF CanBusSafe
<1> QED
  BY <1>1, <1>2, <1>3, PTL DEF MCSpec
=============================================================================
