----------------------------- MODULE CanDeviceRx -----------------------------
(***************************************************************************)
(* The bytes a CAN adapter sends and the frames CanDeviceStm32 or          *)
(* CanDeviceLawicel makes of them (src/src/CanDeviceStm32.cpp,             *)
(* CanDeviceLawicel.cpp): OnDataReceived of CanSerialPort puts them into a *)
(* circular buffer, the worker takes frames out of it.  Bytes may get lost *)
(* or changed on the line, and the buffer overwrites its oldest.           *)
(*                                                                         *)
(* A frame of the STM32 is its magic number, a payload and a CRC that fits *)
(* this payload only; a line of the LAWICEL is the letter it starts with,  *)
(* a body and CR.  Every part is one byte of the model and remembers the   *)
(* frame it comes from.                                                    *)
(***************************************************************************)
EXTENDS Integers, Sequences, FiniteSets, SequencesExt

CONSTANTS RxCapacity,      \* RX_CIRCBUFF_SIZE
          LineLimit,       \* CAN_SERIAL_RESPONSE_BUFFER_SIZE
          MaxRxFrames,     \* bound: frames the adapter sends
          MaxDamage        \* bound: frames damaged on the line

(* The circular buffer holds something, and the longest line of a frame is   *)
(* shorter than the limit (27 characters and 64).                             *)
ASSUME RxAssumption == RxCapacity \in Nat \ {0} /\ LineLimit \in Nat /\ LineLimit > 3

VARIABLES
  rxDevice,        \* m_DeviceType
  rxKinds,         \* history: the frames sent, by their kind
  rxWire,          \* bytes under way
  m_RxBuff,        \* m_CircBuff
  rxParsing,       \* the worker is inside ProcessReceivedFrames
  rxTaken,         \* history: frames handed to AddToRxQueue, with their payload
  rxDamaged,       \* history: frames with a byte lost or changed
  rxWiped,         \* history: frames erased with the whole buffer
  rxThrows,        \* history: exceptions that left the parser
  rxTorn           \* OnDataReceived ran into an erase without the mutex

rxHistory == <<rxKinds, rxTaken, rxDamaged, rxWiped, rxThrows>>
rxVars == <<rxDevice, rxWire, m_RxBuff, rxParsing, rxTorn, rxHistory>>

Byte(b, f) == [b |-> b, f |-> f]
Bytes(bs, f) == [i \in 1..Len(bs) |-> Byte(bs[i], f)]

Crc(b) == CASE b = "plain" -> "crc of plain" [] b = "holds" -> "crc of holds" [] OTHER -> "?"
BeginsFrame(b) == b \in {"magic", "holds"}

(* What the adapter sends for a frame: a payload that is "plain" or "holds" a *)
(* magic number; a line of a data frame, of a frame without data, of the     *)
(* version, or an acknowledgement.                                           *)
RxKinds(device) ==
  IF device = "STM32" THEN {"plain", "holds"} ELSE {"data", "empty", "version", "ack"}

RxFormat(device, k) ==
  IF device = "STM32" THEN <<"magic", k, Crc(k)>>
  ELSE CASE k = "version" -> <<"V", "digits", "CR">>
         [] k = "ack" -> <<"z", "CR">>
         [] OTHER -> <<"t", k, "CR">>

Damages(b) == {<<>>} \cup IF b = "data" THEN {<<"short">>, <<"wrong">>} ELSE {}

RxInit ==
  /\ rxDevice \in {"STM32", "LAWICEL"}
  /\ rxWire = <<>> /\ m_RxBuff = <<>>
  /\ rxParsing = FALSE /\ rxTorn = FALSE
  /\ rxKinds = <<>> /\ rxTaken = <<>>
  /\ rxDamaged = {} /\ rxWiped = {} /\ rxThrows = 0

-----------------------------------------------------------------------------
(* The adapter and the line. *)

RxSend ==
  /\ Len(rxKinds) < MaxRxFrames /\ ~rxTorn
  /\ \E k \in RxKinds(rxDevice) :
       /\ rxKinds' = Append(rxKinds, k)
       /\ rxWire' = rxWire \o Bytes(RxFormat(rxDevice, k), Len(rxKinds) + 1)
  /\ UNCHANGED <<rxDevice, m_RxBuff, rxParsing, rxTorn, rxTaken, rxDamaged, rxWiped, rxThrows>>

RxDamage ==
  /\ rxWire # <<>>
  /\ LET f == Head(rxWire).f IN
       /\ Cardinality(rxDamaged \cup {f}) <= MaxDamage
       /\ \E d \in Damages(Head(rxWire).b) : rxWire' = Bytes(d, f) \o Tail(rxWire)
       /\ rxDamaged' = rxDamaged \cup {f}
  /\ UNCHANGED <<rxDevice, m_RxBuff, rxParsing, rxTorn, rxKinds, rxTaken, rxWiped, rxThrows>>

(* OnDataReceived, on the thread of the port: m_RxMutex is taken here and by *)
(* the parser of the STM32 only.  A full buffer loses its oldest byte.       *)
RxArrive ==
  /\ rxWire # <<>> /\ ~(rxDevice = "STM32" /\ rxParsing)
  /\ rxWire' = Tail(rxWire)
  /\ IF Len(m_RxBuff) < RxCapacity
       THEN m_RxBuff' = Append(m_RxBuff, Head(rxWire)) /\ UNCHANGED rxDamaged
       ELSE /\ m_RxBuff' = Append(Tail(m_RxBuff), Head(rxWire))
            /\ rxDamaged' = rxDamaged \cup {Head(m_RxBuff).f}
  /\ UNCHANGED <<rxDevice, rxParsing, rxTorn, rxKinds, rxTaken, rxWiped, rxThrows>>

-----------------------------------------------------------------------------
(* ProcessReceivedFrames, an action for every turn of its loop. *)

Take(f, payload) == rxTaken' = Append(rxTaken, [f |-> f, payload |-> payload])

RxBegin ==
  /\ ~rxParsing /\ m_RxBuff # <<>> /\ ~rxTorn
  /\ rxParsing' = TRUE
  /\ UNCHANGED <<rxDevice, rxWire, m_RxBuff, rxTorn, rxHistory>>

(* CanDeviceStm32: as long as there is enough for a frame, what begins with  *)
(* the magic number is taken or, if its CRC does not fit, dropped whole;     *)
(* otherwise one byte is dropped.                                            *)
RxFrameLen == 3

Stm32Turn ==
  /\ rxDevice = "STM32" /\ rxParsing
  /\ IF Len(m_RxBuff) < RxFrameLen THEN rxParsing' = FALSE /\ UNCHANGED <<m_RxBuff, rxTaken>>
     ELSE /\ m_RxBuff' = SubSeq(m_RxBuff, IF BeginsFrame(m_RxBuff[1].b) THEN RxFrameLen + 1 ELSE 2,
                                Len(m_RxBuff))
          /\ IF BeginsFrame(m_RxBuff[1].b) /\ m_RxBuff[3].b = Crc(m_RxBuff[2].b)
               THEN Take(m_RxBuff[3].f, m_RxBuff[2].b) ELSE UNCHANGED rxTaken
          /\ UNCHANGED rxParsing
  /\ UNCHANGED <<rxDevice, rxWire, rxTorn, rxKinds, rxDamaged, rxWiped, rxThrows>>

(* CanDeviceLawicel: a line is from the first start letter to the first CR   *)
(* after it.  it_end is behind that CR, and when the CR is the last byte of  *)
(* the buffer that is end(), which the code takes for "no CR".               *)
StartAt == SelectInSeq(m_RxBuff, LAMBDA x : x.b \in {"t", "V"})
EndAt == SelectInSubSeq(m_RxBuff, StartAt, Len(m_RxBuff), LAMBDA x : x.b = "CR")
LineFound == StartAt > 0 /\ EndAt > 0 /\ EndAt < Len(m_RxBuff)
Line == SubSeq(m_RxBuff, StartAt, EndAt)
Rest == SubSeq(m_RxBuff, EndAt + 1, Len(m_RxBuff))

(* What sscanf, unhex and stoi make of a line that begins with t: a frame,   *)
(* an exception, or nothing, for which the whole buffer is erased.           *)
Verdict(line) ==
  LET body == line[2].b IN
    IF body \in {"data", "wrong"} \/ (body = "empty" /\ line[3].b # "CR") THEN "frame"
    ELSE IF body \in {"short", "t", "V"} THEN "throws"
    ELSE "invalid"

LawicelNoLine ==
  /\ rxDevice = "LAWICEL" /\ rxParsing /\ ~LineFound
  /\ rxParsing' = FALSE
  /\ UNCHANGED <<rxDevice, rxWire, m_RxBuff, rxTorn, rxHistory>>

(* Too long, or the version: the rest waits for the next call.               *)
LawicelReturns ==
  /\ rxDevice = "LAWICEL" /\ rxParsing /\ LineFound
  /\ (Len(Line) >= LineLimit \/ Line[1].b = "V")
  /\ m_RxBuff' = Rest /\ rxParsing' = FALSE
  /\ UNCHANGED <<rxDevice, rxWire, rxTorn, rxHistory>>

LawicelTurn ==
  /\ rxDevice = "LAWICEL" /\ rxParsing /\ LineFound
  /\ Len(Line) < LineLimit /\ Line[1].b = "t"
  /\ \/ /\ Verdict(Line) = "frame"
        /\ m_RxBuff' = Rest /\ Take(Line[2].f, Line[2].b)
        /\ UNCHANGED <<rxParsing, rxWiped, rxThrows>>
     \/ /\ Verdict(Line) = "throws"
        /\ m_RxBuff' = Rest /\ rxParsing' = FALSE /\ rxThrows' = rxThrows + 1
        /\ UNCHANGED <<rxTaken, rxWiped>>
     \/ /\ Verdict(Line) = "invalid"
        /\ m_RxBuff' = <<>>
        /\ rxWiped' = rxWiped \cup {m_RxBuff[i].f : i \in 1..Len(m_RxBuff)}
        /\ UNCHANGED <<rxParsing, rxTaken, rxThrows>>
  /\ UNCHANGED <<rxDevice, rxWire, rxTorn, rxKinds, rxDamaged>>

(* The erase without the mutex meets an insert: the size of the circular     *)
(* buffer may be wrong from here on, and what is in it anything.             *)
LawicelTears ==
  /\ rxDevice = "LAWICEL" /\ rxParsing /\ LineFound /\ rxWire # <<>>
  /\ rxTorn' = TRUE /\ rxParsing' = FALSE /\ m_RxBuff' = <<>> /\ rxWire' = <<>>
  /\ UNCHANGED <<rxDevice, rxHistory>>

RxNext == RxSend \/ RxDamage \/ RxArrive \/ RxBegin \/ Stm32Turn
          \/ LawicelNoLine \/ LawicelReturns \/ LawicelTurn \/ LawicelTears

RxSpec == RxInit /\ [][RxNext]_rxVars

-----------------------------------------------------------------------------
(* Properties *)

(* Frames are handed over in the order they were sent, none twice, and with  *)
(* another payload only if the line changed it and there is no CRC to tell.  *)
TakenInOrder ==
  /\ \A i, j \in 1..Len(rxTaken) : i < j => rxTaken[i].f < rxTaken[j].f
  /\ \A i \in 1..Len(rxTaken) : LET t == rxTaken[i] IN
       t.payload = rxKinds[t.f] \/ (rxDevice = "LAWICEL" /\ t.payload = "wrong" /\ t.f \in rxDamaged)

InFlightFrames == {rxWire[i].f : i \in 1..Len(rxWire)} \cup {m_RxBuff[i].f : i \in 1..Len(m_RxBuff)}
Arrived(f) == f \in 1..Len(rxKinds) \ (InFlightFrames \cup rxDamaged)
Missed(f) == Arrived(f) /\ \A i \in 1..Len(rxTaken) : rxTaken[i].f # f

(* The parsers find their way back: a frame that arrived whole is missing    *)
(* only if the one before it was damaged, or                                 *)
(* - STM32: an earlier one was, and some payload holds the magic number, at  *)
(*   which the parser may then take up every frame;                          *)
(* - LAWICEL: it carries no data, or was erased with the whole buffer after  *)
(*   a line that was damaged or carries no data.                             *)
MissingHasCause ==
  ~rxTorn =>
    \A f \in 1..Len(rxKinds) : Missed(f) =>
      \/ f - 1 \in rxDamaged
      \/ /\ rxDevice = "STM32" /\ \E g \in rxDamaged : g < f
         /\ \E g \in 1..Len(rxKinds) : rxKinds[g] = "holds"
      \/ /\ rxDevice = "LAWICEL" /\ rxKinds[f] # "data"
      \/ /\ f \in rxWiped
         /\ \E g \in 1..(f - 1) : g \in rxDamaged \/ rxKinds[g] = "empty"

(* An exception of the parser, for which the port is opened anew, needs a    *)
(* damaged line.                                                             *)
ThrowNeedsDamage == rxThrows <= Cardinality(rxDamaged)

RxSafe == TakenInOrder /\ MissingHasCause /\ ThrowNeedsDamage
=============================================================================
