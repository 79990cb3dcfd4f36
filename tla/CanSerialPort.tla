--------------------------- MODULE CanSerialPort ---------------------------
(***************************************************************************)
(* The transmit path of src/src/CanSerialPort.cpp: the threads that call   *)
(* AddToTxQueue (the CanEntryHandler worker, the script thread, the GUI),  *)
(* the asio thread that calls OnDataReceived, and the worker thread that   *)
(* SerialPortBase::WorkerThread runs, whose m_SendFunction is OnDataSent.  *)
(*                                                                         *)
(* m_TxQueue is a std::queue over a std::deque that the worker reads and   *)
(* pops WITHOUT m_mutex while producers push and pop under it.  The deque  *)
(* of the supported build (MSVC) is an offset and a size that push and pop *)
(* both write, and slots that a push may move.  As long as no two accesses *)
(* overlap it holds the frames start .. finish - 1, and a frame is the     *)
(* number of its AddToTxQueue call.  When the worker's pop() meets a push  *)
(* or a pop, or its front() a pop or a push that moves the slots, the      *)
(* deque is `torn': the size (finish - start) is off by what was counted   *)
(* twice or not at all, below 0 it has wrapped around, front() finds any   *)
(* frame or a freed one, and the program may crash at any moment.          *)
(*                                                                         *)
(* m_mutex is held by a producer from its push to its notification and by  *)
(* the worker while it adds or prepares a frame and while it enters the    *)
(* condition wait, so its owner follows from the program counters.         *)
(***************************************************************************)
EXTENDS Integers, Sequences, FiniteSets

CONSTANTS Producer,      \* threads that call AddToTxQueue
          TxQueueMax,    \* TX_QUEUE_MAX_SIZE
          MaxFrames,     \* bound: calls of AddToTxQueue
          MaxReceived    \* bound: calls of OnDataReceived

ASSUME TxQueueMaxAssumption == TxQueueMax \in Nat /\ TxQueueMax >= 2
ASSUME BoundsAssumption == MaxFrames \in Nat /\ MaxReceived \in Nat

VARIABLES
  start, finish,            \* m_TxQueue holds frames start .. finish - 1
  torn,                     \* two unlocked accesses to m_TxQueue overlapped
  producer,                 \* where each caller is inside AddToTxQueue
  pc,                       \* where the worker is
  device,                   \* m_Device: "STM32" or "LAWICEL", never changed
  is_notification_pending,
  m_CircBuff,               \* chunks received and not yet erased
  data_ptr,                 \* the frame front() returned (0: none yet, or Unknown)
  is_remove,
  device_state,             \* CanDeviceLawicel::device_state
  tx_frame_cnt,             \* CanEntryHandler::tx_frame_cnt
  sent,                     \* history: frames handed to serial_port.write
  overflows,                \* history: calls that found the queue full
  received,                 \* history: calls of OnDataReceived
  parsed                    \* history: those whose data the parser has seen

queue == <<start, finish, torn, producer, overflows>>
input == <<m_CircBuff, received, parsed>>
frame == <<device, data_ptr, is_remove, device_state, tx_frame_cnt, sent>>
vars  == <<queue, input, frame, pc, is_notification_pending>>

InitCommands == 4      \* "\r", "V\r", "S6\r", "O\r" precede the first frame

Init ==
  /\ start = 1 /\ finish = 1 /\ torn = FALSE
  /\ producer = [p \in Producer |-> "idle"]
  /\ pc = "open"
  /\ device \in {"STM32", "LAWICEL"}
  /\ is_notification_pending = FALSE
  /\ m_CircBuff = 0
  /\ data_ptr = 0
  /\ is_remove = FALSE
  /\ device_state = 0
  /\ tx_frame_cnt = 0
  /\ sent = <<>>
  /\ overflows = 0
  /\ received = 0 /\ parsed = 0

Size == finish - start

MutexFree == pc \notin {"blocking", "reply"} /\ \A p \in Producer : producer[p] = "idle"

(* NotifiyMainThread: set the flag, wake the worker if it sleeps. *)
Notify ==
  /\ is_notification_pending' = TRUE
  /\ pc' = IF pc = "asleep" THEN "wake" ELSE pc

-----------------------------------------------------------------------------
(* AddToTxQueue.  The push and the size test are one step: only the worker's *)
(* pop could come between them, and a pop before the push is the same.       *)

AddPushUnbounded(p) ==      \* mutant: the queue is not trimmed
  /\ producer[p] = "idle" /\ MutexFree
  /\ finish <= MaxFrames
  /\ finish' = finish + 1
  /\ producer' = [producer EXCEPT ![p] = "notify"]
  /\ UNCHANGED <<start, torn, overflows, input, frame, pc, is_notification_pending>>

AddPush(p) ==
  /\ producer[p] = "idle" /\ MutexFree
  /\ finish <= MaxFrames
  /\ finish' = finish + 1
  /\ LET full == Size + 1 > TxQueueMax IN
       /\ producer' = [producer EXCEPT ![p] = IF full THEN "trim" ELSE "notify"]
       /\ overflows' = IF full THEN overflows + 1 ELSE overflows
  /\ UNCHANGED <<start, torn, input, frame, pc, is_notification_pending>>

AddTrimAll(p) ==      \* mutant: an overflow clears the queue
  /\ producer[p] = "trim"
  /\ start' = finish
  /\ producer' = [producer EXCEPT ![p] = "notify"]
  /\ UNCHANGED <<finish, torn, overflows, input, frame, pc, is_notification_pending>>

AddTrim(p) ==
  /\ producer[p] = "trim"
  /\ start' = start + 1
  /\ producer' = [producer EXCEPT ![p] = "notify"]
  /\ UNCHANGED <<finish, torn, overflows, input, frame, pc, is_notification_pending>>

AddNotify(p) ==
  /\ producer[p] = "notify"
  /\ producer' = [producer EXCEPT ![p] = "idle"]
  /\ Notify
  /\ UNCHANGED <<start, finish, torn, overflows, input, frame>>

-----------------------------------------------------------------------------
(* OnDataReceived, on the asio thread: it holds m_RxMutex, not m_mutex, so   *)
(* its notification can fall between the worker's test of the flag and the   *)
(* moment the worker sleeps.                                                 *)

OnDataReceived ==
  /\ received < MaxReceived
  /\ pc \in {"open", "backoff", "locked"} => received > 0   \* an older connection lives on
  /\ received' = received + 1
  /\ m_CircBuff' = m_CircBuff + 1
  /\ Notify
  /\ UNCHANGED <<queue, frame, parsed>>

-----------------------------------------------------------------------------
(* The worker thread.  Goto moves it without touching any data. *)

Goto(from, to) ==
  /\ pc = from /\ pc' = to
  /\ UNCHANGED <<queue, input, frame, is_notification_pending>>

(* The CallbackAsyncSerial constructor opens the port, or throws: then the   *)
(* worker waits for EXCEPTION_TIMEOUT and tries again.                       *)
OpenPort  == Goto("open", "wait")
OpenFails == Goto("open", "backoff")
Retry     == Goto("backoff", "open") /\ MutexFree
LockedOut == Goto("locked", "locked")

(* m_cv.wait_until: test the flag under m_mutex; sleep until notified or     *)
(* until CAN_SERIAL_PORT_TIMEOUT has passed; take m_mutex again.             *)
Wait ==
  /\ MutexFree
  /\ Goto("wait", IF is_notification_pending THEN "receive" ELSE "blocking")
Sleep   == Goto("blocking", "asleep")
NoTimeout == FALSE      \* mutant: m_cv.wait, without a timeout
Timeout == Goto("asleep", "wake")
Wake    == Goto("wake", "receive") /\ MutexFree

(* m_Device->ProcessReceivedFrames: what is erased from m_CircBuff, and the  *)
(* beginning of a frame or line that stays there until its rest comes.       *)
ProcessReceivedFrames ==
  /\ pc = "receive" /\ pc' = "front"
  /\ m_CircBuff' \in {n \in 0..1 : n <= m_CircBuff}
  /\ parsed' = received
  /\ UNCHANGED <<queue, frame, received, is_notification_pending>>

(* A frame received for the ISO-TP link makes the worker itself call         *)
(* AddToTxQueue with the flow control frame.                                 *)
ReplyPush ==
  /\ pc = "receive" /\ m_CircBuff > 0 /\ MutexFree
  /\ finish <= MaxFrames
  /\ finish' = finish + 1
  /\ LET full == Size + 1 > TxQueueMax IN
       /\ pc' = IF full THEN "reply" ELSE "receive"
       /\ overflows' = IF full THEN overflows + 1 ELSE overflows
  /\ m_CircBuff' = m_CircBuff - 1
  /\ is_notification_pending' = TRUE
  /\ UNCHANGED <<start, torn, producer, received, parsed, frame>>

ReplyTrim ==
  /\ pc = "reply" /\ pc' = "receive"
  /\ start' = start + 1
  /\ UNCHANGED <<finish, torn, producer, overflows, input, frame,
                 is_notification_pending>>

(* The LAWICEL parser throws on malformed input (unhex, stoi): the exception *)
(* leaves m_SendFunction, and WorkerThread opens the port anew.  It makes    *)
(* the new object before m_serial gives up the old one, whose port is still  *)
(* open: where only one may have it open, as on Windows, that fails for ever.*)
ReceiveThrows ==
  /\ device = "LAWICEL" /\ m_CircBuff > 0
  /\ pc = "receive" /\ pc' \in {"backoff", "locked"}
  /\ m_CircBuff' = m_CircBuff - 1
  /\ UNCHANGED <<queue, frame, received, parsed, is_notification_pending>>

(* SendPendingCanFrames: while(!empty()) data_ptr = front(), without m_mutex *)
MaxTorn == TxQueueMax     \* bound: a torn queue, that never empties, is sent no further
Unknown == 0      \* what a torn queue has in front: any frame, or a freed one

Front ==
  /\ pc = "front" /\ start # finish
  /\ torn => Len(sent) < MaxTorn
  /\ pc' = "prepare"
  /\ data_ptr' = IF torn THEN Unknown ELSE start
  /\ UNCHANGED <<queue, input, device, is_remove, device_state, tx_frame_cnt, sent,
                 is_notification_pending>>

(* A caller's access to the queue that one of the worker's overlaps: its     *)
(* push, after which it may find the queue full, or its pop.                 *)
AccessOf(p) ==
  \/ /\ producer[p] = "idle" /\ MutexFree /\ finish <= MaxFrames
     /\ finish' = finish + 1
     /\ \E full \in BOOLEAN :
          /\ producer' = [producer EXCEPT ![p] = IF full THEN "trim" ELSE "notify"]
          /\ overflows' = IF full THEN overflows + 1 ELSE overflows
  \/ /\ producer[p] = "trim"
     /\ producer' = [producer EXCEPT ![p] = "notify"]
     /\ UNCHANGED <<finish, overflows>>

(* front() copies the pointer in a slot that p frees or moves meanwhile.     *)
FrontCollides(p) ==
  /\ pc = "front" /\ start # finish
  /\ torn => Len(sent) < MaxTorn
  /\ AccessOf(p)
  /\ pc' = "prepare"
  /\ torn' = TRUE
  /\ data_ptr' = Unknown
  /\ start' \in {start, start + 1}
  /\ UNCHANGED <<input, device, is_remove, device_state, tx_frame_cnt, sent,
                 is_notification_pending>>

Drained == Goto("front", "reset") /\ start = finish

(* PrepareSendDataFormat and serial_port.write, under m_mutex: a LAWICEL     *)
(* adapter gets one of its commands first, the frame stays in the queue.     *)
SendsFrame == device = "STM32" \/ device_state = InitCommands

PrepareCommandRemoves ==      \* mutant: a command takes the place of the frame
  /\ pc = "prepare" /\ MutexFree /\ ~SendsFrame
  /\ pc' = "sent"
  /\ device_state' = device_state + 1
  /\ is_remove' = TRUE
  /\ UNCHANGED <<queue, input, device, data_ptr, tx_frame_cnt, sent,
                 is_notification_pending>>

PrepareCommand ==
  /\ pc = "prepare" /\ MutexFree /\ ~SendsFrame
  /\ pc' = "sent"
  /\ device_state' = device_state + 1
  /\ is_remove' = FALSE
  /\ UNCHANGED <<queue, input, device, data_ptr, tx_frame_cnt, sent,
                 is_notification_pending>>

PrepareFrameKeeps ==      \* mutant: is_remove is not set for a frame
  /\ pc = "prepare" /\ MutexFree /\ SendsFrame
  /\ pc' = "sent"
  /\ sent' = Append(sent, data_ptr)
  /\ UNCHANGED <<queue, input, device, data_ptr, is_remove, device_state,
                 tx_frame_cnt, is_notification_pending>>

PrepareFrame ==
  /\ pc = "prepare" /\ MutexFree /\ SendsFrame
  /\ pc' = "sent"
  /\ sent' = Append(sent, data_ptr)
  /\ is_remove' = TRUE
  /\ UNCHANGED <<queue, input, device, data_ptr, device_state, tx_frame_cnt,
                 is_notification_pending>>

(* can_handler->OnFrameSent, whatever was written. *)
OnFrameSent ==
  /\ pc = "sent" /\ pc' = IF is_remove THEN "pop" ELSE "front"
  /\ tx_frame_cnt' = tx_frame_cnt + 1
  /\ UNCHANGED <<queue, input, device, data_ptr, is_remove, device_state, sent,
                 is_notification_pending>>

PopAll ==      \* mutant: the queue is cleared after a frame was sent
  /\ pc = "pop" /\ pc' = "front"
  /\ start' = finish
  /\ UNCHANGED <<finish, torn, producer, overflows, input, frame,
                 is_notification_pending>>

(* m_TxQueue.pop(), without m_mutex. *)
Pop ==
  /\ pc = "pop" /\ pc' = "front"
  /\ start' = start + 1
  /\ UNCHANGED <<finish, torn, producer, overflows, input, frame,
                 is_notification_pending>>

(* The worker's pop and an access of p overlap: either's change of the size  *)
(* may be lost.                                                              *)
PopCollides(p) ==
  /\ pc = "pop" /\ pc' = "front"
  /\ AccessOf(p)
  /\ torn' = TRUE
  /\ start' \in start..(start + 2)
  /\ UNCHANGED <<input, frame, is_notification_pending>>

(* is_notification_pending = false, after the send function returned. *)
ResetNotification ==
  /\ pc = "reset" /\ pc' = "wait"
  /\ is_notification_pending' = FALSE
  /\ UNCHANGED <<queue, input, frame>>

-----------------------------------------------------------------------------
AddToTxQueue(p) == AddPush(p) \/ AddTrim(p) \/ AddNotify(p)

(* A freed frame, a slot that was moved: the program ends.                   *)
Crash ==
  /\ torn /\ pc' = "crashed"
  /\ UNCHANGED <<queue, input, frame, is_notification_pending>>

WorkerThread ==
  \/ OpenPort \/ OpenFails \/ Retry \/ LockedOut
  \/ Wait \/ Sleep \/ Timeout \/ Wake
  \/ ProcessReceivedFrames \/ ReplyPush \/ ReplyTrim \/ ReceiveThrows
  \/ Front \/ Drained \/ PrepareCommand \/ PrepareFrame \/ OnFrameSent
  \/ Pop \/ (\E p \in Producer : FrontCollides(p) \/ PopCollides(p))
  \/ ResetNotification

Next == \/ /\ pc # "crashed"
           /\ \/ \E p \in Producer : AddToTxQueue(p)
              \/ OnDataReceived
              \/ WorkerThread
        \/ Crash

(* The scheduler runs every thread, the wait returns at the latest after its *)
(* timeout, the parser does not throw for ever and a port that is retried    *)
(* for ever opens, unless the worker itself holds it.                        *)
Fairness ==
  /\ \A p \in Producer : WF_vars(pc # "crashed" /\ (AddTrim(p) \/ AddNotify(p)))
  /\ WF_vars(WorkerThread)
  /\ SF_vars(OpenPort)

Spec == Init /\ [][Next]_vars
FairSpec == Spec /\ Fairness

-----------------------------------------------------------------------------
(* Properties *)

Pcs == {"open", "backoff", "locked", "wait", "blocking", "asleep", "wake", "receive",
        "reply", "front", "prepare", "sent", "pop", "reset", "crashed"}

(* Every variable has its type, and the queue, unless torn, never holds more *)
(* than one frame above TX_QUEUE_MAX_SIZE.                                   *)
TypeOK ==
  /\ start \in Nat \ {0} /\ finish \in Nat \ {0}
  /\ torn \in BOOLEAN
  /\ torn \/ Size <= TxQueueMax + 1
  /\ producer \in [Producer -> {"idle", "trim", "notify"}]
  /\ pc \in Pcs
  /\ is_notification_pending \in BOOLEAN
  /\ m_CircBuff \in Nat /\ received \in Nat /\ parsed \in Nat
  /\ device \in {"STM32", "LAWICEL"}
  /\ data_ptr \in Nat
  /\ is_remove \in BOOLEAN
  /\ device_state \in 0..InitCommands
  /\ tx_frame_cnt \in Nat /\ overflows \in Nat
  /\ sent \in Seq(Nat)

Trimming == \E p \in Producer : producer[p] = "trim"

(* pop() on an empty deque is undefined.  The worker pops long after it saw  *)
(* the queue nonempty, and producers pop in between: still neither of them   *)
(* ever pops an empty queue, nor both, one after the other, a queue of one   *)
(* frame, as long as no two accesses overlapped.                             *)
NeverPopsEmpty ==
  \/ torn
  \/ /\ pc = "pop" => Size >= 1
     /\ Trimming \/ pc = "reply" => Size >= 1
     /\ pc = "pop" /\ Trimming => Size >= 2

(* Until two accesses overlap, frames reach the serial port in the order of  *)
(* the AddToTxQueue calls and none of them twice, although the worker sends  *)
(* a frame it copied earlier and then pops whatever is in front.             *)
SentInOrder ==
  torn \/ \A i, j \in 1..Len(sent) : i < j => sent[i] < sent[j]

SentFrames == {sent[i] : i \in 1..Len(sent)}

(* The frames nobody will send any more: removed from the queue, not sent,   *)
(* and not the frame the worker is about to send.                            *)
Lost == {f \in 1..(start - 1) : f \notin SentFrames /\
                               ~(pc = "prepare" /\ SendsFrame /\ data_ptr = f)}

(* Unless two accesses overlapped, only an overflow costs a frame, and at    *)
(* most one: also when the worker, whose frame an overflow removed, pops a   *)
(* frame that it never sent.                                                 *)
LossNeedsOverflow == torn \/ Cardinality(Lost) <= overflows

(* Whatever the queue, the port and the received data do, an accepted frame  *)
(* leaves the queue: a notification erased by ResetNotification delays it by *)
(* CAN_SERIAL_PORT_TIMEOUT, not for ever.  Not so when the parser threw and  *)
(* the worker keeps itself from opening the port again, nor of a torn queue. *)
EveryFrameLeaves ==
  \A f \in 1..MaxFrames : (f < finish) ~> (f < start \/ pc = "locked" \/ torn)

(* Received data is given to the parser, although its notification may be lost. *)
ReceivedIsProcessed ==
  \A n \in 1..MaxReceived :
    (received >= n) ~> (parsed >= n \/ pc = "locked" \/ torn)

(* The worker comes to everything that waits for it, unless locked out.      *)
NothingIsStuck == EveryFrameLeaves /\ ReceivedIsProcessed

(* The abstract queue: frames from NextUnsent on wait; the frame the worker  *)
(* copied is in flight from front() to write() if it is going to be sent.    *)
Sending ==
  /\ pc \in {"prepare", "sent", "pop"}
  /\ IF pc = "prepare" THEN SendsFrame ELSE is_remove
SendingFront == Sending /\ data_ptr = start
NextUnsent == IF SendingFront THEN start + 1 ELSE start
Pending == [i \in 1..(finish - NextUnsent) |-> NextUnsent + i - 1]
InFlight == IF pc = "prepare" /\ SendsFrame THEN <<data_ptr>> ELSE <<>>
Credit == overflows - (NextUnsent - 1 - Len(sent) - Len(InFlight))

Fifo == INSTANCE CanTxFifo WITH
  Frame    <- 1..MaxFrames,
  Capacity <- TxQueueMax,
  pending  <- Pending,
  inFlight <- InFlight,
  sent     <- sent,
  credit   <- Credit,
  broken   <- torn

(* Up to the first overlap CanSerialPort implements the lossy FIFO CanTxFifo. *)
ImplementsFifo == Fifo!Spec
=============================================================================
