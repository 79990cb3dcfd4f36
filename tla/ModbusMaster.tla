---------------------------- MODULE ModbusMaster ----------------------------
(***************************************************************************)
(* The Modbus master: ModbusEntryHandler::ModbusWorker                     *)
(* (src/src/ModbusHandler.cpp) polls the groups of registers of a slave and*)
(* sends the edits the user made; one request at a time goes through       *)
(* ModbusMasterSerialPort (src/src/ModbusMasterSerialPort.cpp).  Four      *)
(* threads meet here: the GUI, the worker, the thread of the serial port,  *)
(* which sends m_SentData, and the thread that delivers answers.           *)
(* A request is its number; mbAsked says what it asked for.                *)
(***************************************************************************)
EXTENDS Integers, Sequences, FiniteSets

CONSTANTS MbUnits,       \* number of requests of a polling round; the last
          HoldingChunks, \*   HoldingChunks read the holding registers, at most 120 each
          MaxRequests,   \* bound: requests made
          MaxEdits       \* bound: edits the user makes

ASSUME ModbusAssumption ==
  /\ MbUnits \in Nat \ {0} /\ HoldingChunks \in 1..MbUnits
  /\ MaxRequests \in Nat /\ MaxEdits \in Nat

VARIABLES
  mbPc,        \* the worker: where it is (ended and crashed are final)
  mbUnit,      \* the unit of MbUnits it is reading
  mbTcp,       \* is_tcp
  mbPaused,    \* m_isMainThreadPaused
  mbPort,      \* m_serial: none (not constructed), closed or open
  mbExit,      \* the destructor requested the stop
  mbPending,   \* m_pendingCoilWrites and m_pendingHoldingWrites, one after the other
  mbEnd,       \* where the loop over mbPending stops (fixed at its start)
  mbSent,      \* m_SentData: the request to send, 0 when empty
  mbRecv,      \* m_RecvData: <<>>, or <<the request answered, the kind of answer>>
  mbCrcOk,     \* m_LastDataCrcOk
  mbRx,        \* the answer OnUartDataReceived is between its two writes with
  mbBus,       \* environment: requests sent, not answered (yet, or ever)
  mbTaken,     \* the answer the last request gave its items (Unread: none, or it went by)
  mbAsked,     \* history: what each request asked for
  mbFailed,    \* history: the first request that ended without an answer or with a piece, or 0
  mbEdits,     \* history: number of edits
  mbDuring     \* history: edits made while HandleWrites was running

mbGui  == <<mbPaused, mbExit, mbEdits>>
mbLine == <<mbSent, mbRecv, mbCrcOk, mbRx, mbBus>>
mbList == <<mbPending, mbEnd, mbDuring>>
mbVars == <<mbPc, mbUnit, mbTcp, mbPort, mbTaken, mbAsked, mbFailed, mbGui, mbLine, mbList>>

Request == Len(mbAsked)          \* the request made last
Unread  == [unit |-> 1, ans |-> 0, whole |-> TRUE, race |-> FALSE]
Read(u)  == [op |-> "read", n |-> u]
Write(e) == [op |-> "write", n |-> e]

ModbusInit ==
  /\ mbPc = "init" /\ mbUnit = 1 /\ mbPort = "none"
  /\ mbTcp \in BOOLEAN /\ mbPaused \in BOOLEAN /\ mbExit = FALSE
  /\ mbPending = <<>> /\ mbEnd = 0
  /\ mbSent = 0 /\ mbRecv = <<>> /\ mbCrcOk = TRUE /\ mbRx = <<>> /\ mbBus = {}
  /\ mbTaken = Unread
  /\ mbAsked = <<>> /\ mbFailed = 0 /\ mbEdits = 0 /\ mbDuring = {}

-----------------------------------------------------------------------------
(* The GUI. *)

SetPollingStatus(active) ==
  /\ mbPaused # ~active /\ ~mbExit
  /\ mbPaused' = ~active
  /\ UNCHANGED <<mbPc, mbUnit, mbTcp, mbPort, mbTaken, mbAsked, mbFailed, mbExit, mbEdits,
                 mbLine, mbList>>

Writing == mbPc \in {"write", "awaitWrite"}

(* push_back without a lock, whatever the worker does. *)
EditHolding ==
  /\ mbEdits < MaxEdits /\ ~mbExit
  /\ mbEdits' = mbEdits + 1
  /\ mbPending' = Append(mbPending, mbEdits + 1)
  /\ mbDuring' = IF Writing THEN mbDuring \cup {mbEdits + 1} ELSE mbDuring
  /\ UNCHANGED <<mbPc, mbUnit, mbTcp, mbPort, mbTaken, mbAsked, mbFailed, mbPaused, mbExit,
                 mbLine, mbEnd>>

(* ~ModbusEntryHandler: from here on every wait of the worker ends. *)
ModbusExit ==
  /\ ~mbExit /\ mbExit' = TRUE /\ mbPaused' = FALSE
  /\ UNCHANGED <<mbPc, mbUnit, mbTcp, mbPort, mbTaken, mbAsked, mbFailed, mbEdits, mbLine, mbList>>

-----------------------------------------------------------------------------
(* The thread of the serial port, and the slave. *)

(* The port's thread constructs m_serial: a COM port is open at once and its *)
(* constructor may fail again and again; a TCP connection is not.  Nobody    *)
(* notifies the worker.                                                      *)
ConstructPort ==
  /\ mbPort = "none" /\ ~mbExit
  /\ mbPort' = IF mbTcp THEN "closed" ELSE "open"
  /\ UNCHANGED <<mbPc, mbUnit, mbTcp, mbTaken, mbAsked, mbFailed, mbGui, mbLine, mbList>>

(* OnDataSent runs at most MainTimeout after m_SentData was set, whether or *)
(* not the worker still waits; a port that is closed loses the bytes.       *)
OnDataSent ==
  /\ mbSent # 0 /\ mbPort # "none"
  /\ mbBus' = IF mbPort = "open" THEN mbBus \cup {mbSent} ELSE mbBus
  /\ mbSent' = 0
  /\ UNCHANGED <<mbPc, mbUnit, mbTcp, mbPort, mbTaken, mbAsked, mbFailed, mbGui,
                 mbRecv, mbCrcOk, mbRx, mbList>>

(* An answer, or a part of it: an answer may come in two reads. *)
Kinds == {"whole", "piece"}

(* OnUartDataReceived: m_RecvData first, ... *)
ReceiveData(k, kind) ==
  /\ k \in mbBus /\ mbRx = <<>>
  /\ mbBus' \in {mbBus \ {k}} \cup (IF kind = "piece" THEN {mbBus} ELSE {})
  /\ mbRecv' = <<k, kind>>
  /\ mbRx' = IF mbTcp THEN <<>> ELSE <<k, kind>>
  /\ UNCHANGED <<mbPc, mbUnit, mbTcp, mbPort, mbTaken, mbAsked, mbFailed, mbGui,
                 mbSent, mbCrcOk, mbList>>

(* ... then m_LastDataCrcOk and the notification, which wakes the worker.   *)
(* Nothing happens when m_RecvData was cleared meanwhile.  TCP has no CRC.    *)
CheckCrc ==
  /\ mbRx # <<>>
  /\ mbCrcOk' = IF mbRecv # <<>> THEN mbRx[2] = "whole" ELSE mbCrcOk
  /\ mbRx' = <<>>
  /\ UNCHANGED <<mbPc, mbUnit, mbTcp, mbPort, mbTaken, mbAsked, mbFailed, mbGui,
                 mbSent, mbRecv, mbBus, mbList>>

-----------------------------------------------------------------------------
(* The worker. *)

(* WaitUntilInited: passes when the port object is there, or at the end. *)
WaitUntilInited ==
  /\ mbPc = "init" /\ (mbPort # "none" \/ mbExit)
  /\ mbPc' = "gate"
  /\ mbPort' = IF mbPaused /\ mbPort = "open" THEN "closed" ELSE mbPort
  /\ UNCHANGED <<mbUnit, mbTcp, mbTaken, mbAsked, mbFailed, mbGui, mbLine, mbList>>

(* WaitIfPaused, then the port is opened when it is closed.  Opening a COM  *)
(* port throws when it fails, and nothing catches it in this thread; at the *)
(* end IsOpen() is asked of a port that may never have been constructed.    *)
OpenPort ==
  /\ mbPc = "gate" /\ (~mbPaused \/ mbExit)
  /\ \/ /\ mbPort = "none" \/ (mbPort = "closed" /\ ~mbTcp)
        /\ mbPc' = "crashed" /\ UNCHANGED <<mbPort, mbUnit>>
     \/ /\ mbPort # "none"
        /\ mbPort' \in {"open"} \cup (IF mbTcp THEN {mbPort} ELSE {})
        /\ mbUnit' = 1
        /\ mbPc' = IF mbExit THEN "ended"
                   ELSE IF mbPort' = "open" THEN "poll" ELSE "init"
  /\ UNCHANGED <<mbTcp, mbTaken, mbAsked, mbFailed, mbGui, mbLine, mbList>>

(* NotifyAndWaitForResponse, until the wait: m_SentData is replaced, sent or *)
(* not; what is in m_RecvData stays there.                                   *)
Send(what) ==
  /\ Request < MaxRequests
  /\ mbAsked' = Append(mbAsked, what)
  /\ mbSent' = Request + 1

(* The wait ends, with the notification, at its start, at the deadline or    *)
(* spuriously: only m_RecvData is looked at.  The CRC flag is the one of the *)
(* moment, and no answer is compared with the request.  An answer may be an  *)
(* exception, which leaves the items alone.                                  *)
Ok == mbRecv # <<>> /\ (mbTcp \/ mbCrcOk)
Answers ==
  IF Ok THEN {Unread, [unit |-> mbUnit, ans |-> mbRecv[1], whole |-> mbRecv[2] = "whole", race |-> mbRx # <<>>]}
        ELSE {Unread}

EndRequest ==
  /\ mbFailed' = IF mbFailed = 0 /\ ~(Ok /\ mbRecv[2] = "whole") THEN Request ELSE mbFailed
  /\ mbRecv' = <<>>

AskUnit ==
  /\ mbPc = "poll" /\ Send(Read(mbUnit))
  /\ mbPc' = "await" /\ mbTaken' = Unread
  /\ UNCHANGED <<mbUnit, mbTcp, mbPort, mbFailed, mbGui, mbRecv, mbCrcOk, mbRx, mbBus,
                 mbList>>

Holding(u) == u > MbUnits - HoldingChunks

NextUnitUnending(ok) == IF ~ok /\ Holding(mbUnit) THEN 0 ELSE mbUnit + 1      \* mutant: the units begin again

(* An empty answer ends the chunks of the holding registers. *)
NextUnit(ok) == IF ~ok /\ Holding(mbUnit) THEN MbUnits + 1 ELSE mbUnit + 1

(* One Read... function of the port, after its wait, and the Handle...Reading *)
(* of its result.  m_RecvData is cleared in any case.                        *)
TakeAnswer ==
  /\ mbPc = "await"
  /\ \E a \in Answers :
       /\ mbTaken' = a
       /\ mbUnit' = NextUnit(a.ans # 0)
  /\ EndRequest
  /\ IF mbUnit' <= MbUnits
       THEN mbPc' = "poll" /\ UNCHANGED mbEnd
       ELSE mbPc' = "write" /\ mbEnd' = Len(mbPending)
  /\ UNCHANGED <<mbTcp, mbPort, mbAsked, mbGui, mbSent, mbCrcOk, mbRx, mbBus, mbPending, mbDuring>>

(* The loops over the lists.  After a push_back the iterator may point to    *)
(* the memory the vector left: any value (0) may be there.                   *)
WriteEdit ==
  /\ mbPc = "write" /\ mbUnit > MbUnits
  /\ mbUnit - MbUnits <= mbEnd
  /\ \E e \in {mbPending[mbUnit - MbUnits]} \cup (IF Len(mbPending) > mbEnd THEN {0} ELSE {}) :
       Send(Write(e))
  /\ mbPc' = "awaitWrite"
  /\ UNCHANGED <<mbUnit, mbTcp, mbPort, mbTaken, mbFailed, mbGui, mbRecv, mbCrcOk, mbRx, mbBus,
                 mbList>>

(* ForceSingleCoil and WriteHoldingRegister return the request, so a write  *)
(* without an answer counts as done.                                        *)
WriteDone ==
  /\ mbPc = "awaitWrite"
  /\ EndRequest
  /\ mbUnit' = mbUnit + 1 /\ mbPc' = "write"
  /\ UNCHANGED <<mbTcp, mbPort, mbTaken, mbAsked, mbGui, mbSent, mbCrcOk, mbRx, mbBus, mbList>>

ClearWritesEarly ==      \* mutant: the lists are cleared before the last write
  /\ mbPc = "write" /\ mbUnit - MbUnits >= mbEnd
  /\ mbPending' = <<>> /\ mbEnd' = 0 /\ mbTaken' = Unread
  /\ mbPc' = IF mbExit THEN "ended" ELSE "init"
  /\ UNCHANGED <<mbUnit, mbTcp, mbPort, mbAsked, mbFailed, mbGui, mbLine, mbDuring>>

(* The lists are cleared, the edits that came during the loop with them; the *)
(* worker then sleeps for the polling rate.                                  *)
ClearWrites ==
  /\ mbPc = "write" /\ mbUnit - MbUnits > mbEnd
  /\ mbPending' = <<>> /\ mbEnd' = 0 /\ mbTaken' = Unread
  /\ mbPc' = IF mbExit THEN "ended" ELSE "init"
  /\ UNCHANGED <<mbUnit, mbTcp, mbPort, mbAsked, mbFailed, mbGui, mbLine, mbDuring>>

ModbusWorker ==
  \/ WaitUntilInited \/ OpenPort
  \/ AskUnit \/ TakeAnswer
  \/ WriteEdit \/ WriteDone \/ ClearWrites

ModbusNext ==
  \/ \E b \in BOOLEAN : SetPollingStatus(b)
  \/ EditHolding
  \/ ModbusExit
  \/ ConstructPort
  \/ OnDataSent
  \/ \E k \in mbBus : \E kind \in Kinds : ReceiveData(k, kind)
  \/ CheckCrc
  \/ ModbusWorker

ModbusSpec == ModbusInit /\ [][ModbusNext]_mbVars

-----------------------------------------------------------------------------
(* Properties. *)

ModbusTypeOK ==
  /\ mbPc \in {"init", "gate", "poll", "await", "write", "awaitWrite", "ended", "crashed"}
  /\ mbUnit \in 1..(MbUnits + MaxEdits + 1)
  /\ mbTcp \in BOOLEAN /\ mbPaused \in BOOLEAN /\ mbExit \in BOOLEAN
  /\ mbPort \in {"none", "closed", "open"}
  /\ mbPending \in Seq(1..MaxEdits) /\ mbEnd \in 0..Len(mbPending)
  /\ mbSent \in 0..Request
  /\ mbRecv \in {<<>>} \cup ((1..Request) \X Kinds)
  /\ mbRx \in {<<>>} \cup ((1..Request) \X Kinds)
  /\ mbCrcOk \in BOOLEAN /\ mbBus \subseteq 1..Request
  /\ mbTaken \in [unit : 1..MbUnits, ans : 0..Request, whole : BOOLEAN, race : BOOLEAN]
  /\ mbAsked \in Seq([op : {"read", "write"}, n : 0..(MbUnits + MaxEdits)])
  /\ mbFailed \in 0..Request
  /\ mbEdits \in 0..MaxEdits /\ mbDuring \subseteq 1..mbEdits

(* The values shown for a unit are those the slave gave for it, unless an    *)
(* earlier request failed: from then on the answers may be one request late, *)
(* since nothing in an answer is compared with the request.                  *)
MisreadNeedsFailure ==
  mbTaken.ans # 0 => \/ mbAsked[mbTaken.ans] = Read(mbTaken.unit)
                     \/ mbFailed \in 1..mbTaken.ans

(* Over a serial line an answer whose CRC is wrong fills the items only when *)
(* the wait ended between the two writes of OnUartDataReceived.              *)
PieceNeedsRace ==
  ~mbTcp => mbTaken.whole \/ mbTaken.race

(* Every edit is sent to the slave once, in the order the user made them, or *)
(* still waits, unless it or a later one was made while HandleWrites was     *)
(* running: that one is cleared unsent, and the move of the vector may spoil *)
(* the ones before it.                                                       *)
Writes == { k \in 1..Request : mbAsked[k].op = "write" }
EditsAccounted ==
  /\ \A e \in 1..mbEdits :
       \/ \E d \in mbDuring : d >= e
       \/ \E i \in 1..Len(mbPending) : mbPending[i] = e
       \/ \E k \in Writes : mbAsked[k].n = e
  /\ mbDuring = {} => \A j, k \in Writes : j < k => mbAsked[j].n < mbAsked[k].n

(* An answer fills the items it was asked for and it is whole, but for these *)
(* two ways, and edits reach the slave.                                      *)
ModbusSafe == MisreadNeedsFailure /\ PieceNeedsRace /\ EditsAccounted
=============================================================================
