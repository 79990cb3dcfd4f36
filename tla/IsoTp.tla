------------------------------- MODULE IsoTp -------------------------------
(***************************************************************************)
(* ISO-TP segmentation of src/libs/isotp/isotp.c as CanEntryHandler uses   *)
(* it: a sending link, a receiving link and the CAN bus between them.      *)
(*                                                                         *)
(* isotp_poll, isotp_on_can_message and isotp_receive run under            *)
(* CanEntryHandler::m, one step each; isotp_send_with_id is called by      *)
(* SendIsoTpFrame WITHOUT that mutex, so it is three steps: check and copy,*)
(* emit the frame, set the status.                                         *)
(*                                                                         *)
(* The bus keeps the order of the frames and may lose them (a full TX      *)
(* queue, a bad CRC).  ISO_TP_DEFAULT_RESPONSE_TIMEOUT is 10 s: a timer    *)
(* expires only when no frame is under way and no call is in progress.     *)
(* Payload is abstracted to (message, offset) pieces, sizes are bytes.     *)
(***************************************************************************)
EXTENDS Integers, Sequences, FiniteSets

CONSTANTS
  Caller,        \* threads that call SendIsoTpFrame
  Sizes,         \* sizes of the messages they send
  RecvBufSize,   \* receive_buf_size of the receiving link
  BlockSizes,    \* what a receiver grants: {ISO_TP_DEFAULT_BLOCK_SIZE} for
                 \*   isotp.c, another set for a foreign ECU (0: no limit)
  MaxWft,        \* ISO_TP_MAX_WFT_NUMBER
  SnModulus,     \* 16: a sequence number has four bits
  MaxMessages,   \* bound: messages accepted for sending
  MaxLost,       \* bound: frames lost
  MaxWaits       \* bound: FC.WAIT frames of a foreign ECU (isotp.c: none)

ASSUME SizesAssumption == Sizes \subseteq 1..4095 /\ RecvBufSize \in 8..4096
ASSUME BlockSizesAssumption == BlockSizes \subseteq 0..255 /\ BlockSizes # {}
ASSUME SnAssumption == SnModulus \in 2..16
ASSUME BoundsAssumption ==
  MaxWft \in Nat /\ MaxMessages \in Nat /\ MaxLost \in Nat /\ MaxWaits \in Nat

VARIABLES
  at, arg,           \* per caller: where it is in isotp_send_with_id, its message
  send_status, send_buffer, send_size, send_offset, send_sn,
  send_bs_remain, send_wtf_count,
  receive_status, receive_buffer, receive_size, receive_offset, receive_sn,
  receive_bs_count,
  holding,           \* a foreign ECU said WAIT and will grant later
  fwd, back,         \* frames under way: to the receiver, to the sender
  messages,          \* history: the sizes of the accepted messages
  delivered,         \* history: what isotp_receive returned
  failed,            \* history: messages the sender gave up
  lost, ignored, waits     \* history: frames lost, FCs ignored, WAITs sent

callers  == <<at, arg>>
sender   == <<send_status, send_buffer, send_size, send_offset, send_sn,
              send_bs_remain, send_wtf_count>>
receiver == <<receive_status, receive_buffer, receive_size, receive_offset,
              receive_sn, receive_bs_count, holding, delivered, waits>>
history  == <<messages, failed, lost, ignored>>
vars == <<callers, sender, receiver, fwd, back, history>>

SfData == 7                 \* payload bytes of the frame types
FfData == 6
CfData == 7
ISOTP_INVALID_BS == 65535    \* send_bs_remain when there is no limit

Least(a, b) == IF a < b THEN a ELSE b

Init ==
  /\ at = [c \in Caller |-> "idle"] /\ arg = [c \in Caller |-> 0]
  /\ send_status = "IDLE" /\ send_buffer = 0 /\ send_size = 0
  /\ send_offset = 0 /\ send_sn = 0 /\ send_bs_remain = 0
  /\ send_wtf_count = 0
  /\ receive_status = "IDLE" /\ receive_buffer = <<>> /\ receive_size = 0
  /\ receive_offset = 0 /\ receive_sn = 0 /\ receive_bs_count = 0
  /\ holding = FALSE /\ delivered = <<>> /\ waits = 0
  /\ fwd = <<>> /\ back = <<>>
  /\ messages = <<>> /\ failed = {} /\ lost = 0 /\ ignored = 0

-----------------------------------------------------------------------------
(* isotp_send_with_id, in the thread of a caller.  A call while a message is *)
(* in progress is refused and changes nothing.                               *)

CheckForgotten(c) ==      \* mutant: does not look at send_status
  /\ at[c] = "idle"
  /\ Len(messages) < MaxMessages
  /\ \E n \in Sizes :
       /\ messages' = Append(messages, n)
       /\ send_size' = n
  /\ send_offset' = 0
  /\ send_buffer' = Len(messages')
  /\ arg' = [arg EXCEPT ![c] = Len(messages')]
  /\ at' = [at EXCEPT ![c] = "copied"]
  /\ UNCHANGED <<send_status, send_sn, send_bs_remain, send_wtf_count,
                 receiver, fwd, back, failed, lost, ignored>>

CheckAndCopy(c) ==
  /\ at[c] = "idle" /\ send_status # "INPROGRESS"
  /\ Len(messages) < MaxMessages
  /\ \E n \in Sizes :
       /\ messages' = Append(messages, n)
       /\ send_size' = n
  /\ send_offset' = 0
  /\ send_buffer' = Len(messages')
  /\ arg' = [arg EXCEPT ![c] = Len(messages')]
  /\ at' = [at EXCEPT ![c] = "copied"]
  /\ UNCHANGED <<send_status, send_sn, send_bs_remain, send_wtf_count,
                 receiver, fwd, back, failed, lost, ignored>>

SendSingleFrame(c) ==
  /\ at[c] = "copied" /\ send_size <= SfData
  /\ fwd' = Append(fwd, [type |-> "SF", size |-> send_size,
                         piece |-> <<send_buffer, 0>>])
  /\ at' = [at EXCEPT ![c] = "idle"]
  /\ UNCHANGED <<arg, sender, receiver, back, history>>

SendFirstFrame(c) ==
  /\ at[c] = "copied" /\ send_size > SfData
  /\ fwd' = Append(fwd, [type |-> "FF", size |-> send_size,
                         piece |-> <<send_buffer, 0>>])
  /\ send_offset' = send_offset + FfData
  /\ send_sn' = 1
  /\ at' = [at EXCEPT ![c] = "first"]
  /\ UNCHANGED <<arg, send_status, send_buffer, send_size, send_bs_remain,
                 send_wtf_count, receiver, back, history>>

SetInProgress(c) ==
  /\ at[c] = "first"
  /\ send_bs_remain' = 0 /\ send_wtf_count' = 0
  /\ send_status' = "INPROGRESS"
  /\ at' = [at EXCEPT ![c] = "idle"]
  /\ UNCHANGED <<arg, send_buffer, send_size, send_offset, send_sn, receiver,
                 fwd, back, history>>

-----------------------------------------------------------------------------
(* isotp_poll on the sending link. *)

MaySend == send_status = "INPROGRESS" /\ send_bs_remain # 0

SendPastTheEnd ==      \* mutant: compares send_offset with > instead of >=
  /\ MaySend
  /\ fwd' = Append(fwd, [type |-> "CF", sn |-> send_sn,
                         piece |-> <<send_buffer, send_offset>>])
  /\ send_offset' = send_offset + Least(CfData, (send_size - send_offset) % 65536)
  /\ send_sn' = (send_sn + 1) % SnModulus
  /\ send_bs_remain' = IF send_bs_remain = ISOTP_INVALID_BS
                         THEN send_bs_remain ELSE send_bs_remain - 1
  /\ send_status' = IF send_offset' > send_size THEN "IDLE" ELSE send_status
  /\ UNCHANGED <<callers, send_buffer, send_size, send_wtf_count, receiver,
                 back, history>>

SendConsecutiveFrame ==
  /\ MaySend
  /\ fwd' = Append(fwd, [type |-> "CF", sn |-> send_sn,
                         piece |-> <<send_buffer, send_offset>>])
  /\ send_offset' = send_offset + Least(CfData, (send_size - send_offset) % 65536)
  /\ send_sn' = (send_sn + 1) % SnModulus
  /\ send_bs_remain' = IF send_bs_remain = ISOTP_INVALID_BS
                         THEN send_bs_remain ELSE send_bs_remain - 1
  /\ send_status' = IF send_offset' >= send_size THEN "IDLE" ELSE send_status
  /\ UNCHANGED <<callers, send_buffer, send_size, send_wtf_count, receiver,
                 back, history>>

(* Nothing is under way: the only way on is a timer. *)
Silent == fwd = <<>> /\ back = <<>> /\ ~holding /\ \A c \in Caller : at[c] = "idle"

Fail ==
  /\ send_status' = "ERROR"
  /\ failed' = failed \cup {send_buffer}

TimeoutForgets ==      \* mutant: makes the status IDLE
  /\ send_status = "INPROGRESS" /\ send_bs_remain = 0 /\ Silent
  /\ send_status' = "IDLE"
  /\ UNCHANGED <<callers, send_buffer, send_size, send_offset, send_sn,
                 send_bs_remain, send_wtf_count, receiver, fwd, back,
                 messages, failed, lost, ignored>>

NoTimeout == FALSE      \* mutant: a timer is never looked at

SendTimeout ==
  /\ send_status = "INPROGRESS" /\ send_bs_remain = 0 /\ Silent
  /\ Fail
  /\ UNCHANGED <<callers, send_buffer, send_size, send_offset, send_sn,
                 send_bs_remain, send_wtf_count, receiver, fwd, back,
                 messages, lost, ignored>>

-----------------------------------------------------------------------------
(* isotp_on_can_message, a flow control frame: handled only while a message  *)
(* is in progress.                                                           *)

FlowControl(fs) ==
  /\ back # <<>> /\ Head(back).fs = fs
  /\ back' = Tail(back)
  /\ UNCHANGED <<callers, send_buffer, send_size, send_offset, send_sn,
                 receiver, fwd, messages, lost>>

IgnoreFlowControl ==
  /\ send_status # "INPROGRESS"
  /\ \E fs \in {"CONTINUE", "WAIT", "OVERFLOW"} : FlowControl(fs)
  /\ ignored' = IF \E c \in Caller : at[c] = "first" THEN ignored + 1 ELSE ignored
  /\ UNCHANGED <<send_status, send_bs_remain, send_wtf_count, failed>>

ReceiverOverflow ==
  /\ send_status = "INPROGRESS"
  /\ FlowControl("OVERFLOW")
  /\ Fail
  /\ UNCHANGED <<send_bs_remain, send_wtf_count, ignored>>

WaitsTooFew ==      \* mutant: >= instead of >
  /\ send_status = "INPROGRESS"
  /\ FlowControl("WAIT")
  /\ send_wtf_count' = send_wtf_count + 1
  /\ IF send_wtf_count' >= MaxWft THEN Fail ELSE UNCHANGED <<send_status, failed>>
  /\ UNCHANGED <<send_bs_remain, ignored>>

ReceiverWaits ==
  /\ send_status = "INPROGRESS"
  /\ FlowControl("WAIT")
  /\ send_wtf_count' = send_wtf_count + 1
  /\ IF send_wtf_count' > MaxWft THEN Fail ELSE UNCHANGED <<send_status, failed>>
  /\ UNCHANGED <<send_bs_remain, ignored>>

PermitSend ==
  /\ send_status = "INPROGRESS"
  /\ FlowControl("CONTINUE")
  /\ send_bs_remain' = IF Head(back).bs = 0 THEN ISOTP_INVALID_BS ELSE Head(back).bs
  /\ send_wtf_count' = 0
  /\ UNCHANGED <<send_status, failed, ignored>>

-----------------------------------------------------------------------------
(* isotp_on_can_message, the other frames, and the isotp_receive that        *)
(* OnFrameReceived calls next.  A message of one frame or a last frame makes *)
(* the status FULL and isotp_receive makes it IDLE in the same step.         *)

(* The flow control frame a receiver answers with, and receive_bs_count.  A  *)
(* foreign ECU may answer WAIT and grant later.                              *)
Grant ==
  \E bs \in BlockSizes :
    /\ back' = Append(back, [fs |-> "CONTINUE", bs |-> bs])
    /\ receive_bs_count' = bs
    /\ holding' = FALSE
    /\ UNCHANGED waits

Postpone ==
  /\ waits < MaxWaits
  /\ back' = Append(back, [fs |-> "WAIT", bs |-> 0])
  /\ holding' = TRUE
  /\ waits' = waits + 1
  /\ UNCHANGED receive_bs_count

Answer == Grant \/ Postpone
NoAnswer == UNCHANGED <<back, receive_bs_count, holding, waits>>

Receive(type) ==
  /\ fwd # <<>> /\ Head(fwd).type = type
  /\ fwd' = Tail(fwd)
  /\ UNCHANGED <<callers, sender, history>>

Full(data, size) ==
  /\ receive_status' = "IDLE"
  /\ delivered' = Append(delivered, [data |-> data, size |-> size])

ReceiveSingleFrame ==
  /\ Receive("SF")
  /\ receive_buffer' = <<Head(fwd).piece>>
  /\ receive_size' = Head(fwd).size
  /\ Full(receive_buffer', receive_size')
  /\ NoAnswer
  /\ UNCHANGED <<receive_offset, receive_sn>>

ReceiveFirstFrameKeeps ==      \* mutant: an interrupted reception is not discarded
  /\ Receive("FF") /\ Head(fwd).size <= RecvBufSize
  /\ receive_buffer' = Append(receive_buffer, Head(fwd).piece)
  /\ receive_size' = Head(fwd).size
  /\ receive_offset' = FfData
  /\ receive_sn' = 1
  /\ receive_status' = "INPROGRESS"
  /\ Answer
  /\ UNCHANGED delivered

ReceiveFirstFrame ==
  /\ Receive("FF") /\ Head(fwd).size <= RecvBufSize
  /\ receive_buffer' = <<Head(fwd).piece>>
  /\ receive_size' = Head(fwd).size
  /\ receive_offset' = FfData
  /\ receive_sn' = 1
  /\ receive_status' = "INPROGRESS"
  /\ Answer
  /\ UNCHANGED delivered

RefuseFirstFrame ==
  /\ Receive("FF") /\ Head(fwd).size > RecvBufSize
  /\ receive_status' = "IDLE"
  /\ back' = Append(back, [fs |-> "OVERFLOW", bs |-> 0])
  /\ holding' = FALSE
  /\ UNCHANGED <<receive_buffer, receive_size, receive_offset, receive_sn,
                 receive_bs_count, delivered, waits>>

ReceiveConsecutiveFrame ==
  /\ Receive("CF")
  /\ receive_status = "INPROGRESS" /\ Head(fwd).sn = receive_sn
  /\ receive_buffer' = Append(receive_buffer, Head(fwd).piece)
  /\ receive_offset' = receive_offset + Least(CfData, receive_size - receive_offset)
  /\ receive_sn' = (receive_sn + 1) % SnModulus
  /\ IF receive_offset' >= receive_size
       THEN Full(receive_buffer', receive_size) /\ NoAnswer
       ELSE /\ IF receive_bs_count = 1
                 THEN Answer
                 ELSE /\ receive_bs_count' = (receive_bs_count - 1) % 256
                      /\ UNCHANGED <<back, holding, waits>>
            /\ UNCHANGED <<receive_status, delivered>>
  /\ UNCHANGED receive_size

WrongSequenceNumber ==
  /\ Receive("CF")
  /\ receive_status = "INPROGRESS" /\ Head(fwd).sn # receive_sn
  /\ receive_status' = "IDLE"
  /\ holding' = FALSE
  /\ UNCHANGED <<back, receive_buffer, receive_size, receive_offset, receive_sn,
                 receive_bs_count, delivered, waits>>

UnexpectedConsecutiveFrame ==
  /\ Receive("CF") /\ receive_status # "INPROGRESS"
  /\ UNCHANGED <<receiver, back>>

(* isotp_poll on the receiving link. *)
ReceiveTimeout ==
  /\ receive_status = "INPROGRESS" /\ Silent /\ ~MaySend
  /\ receive_status' = "IDLE"
  /\ UNCHANGED <<callers, sender, receive_buffer, receive_size, receive_offset,
                 receive_sn, receive_bs_count, holding, delivered, waits,
                 fwd, back, history>>

(* A foreign ECU that said WAIT answers again. *)
AnswerAgain ==
  /\ holding
  /\ Answer
  /\ UNCHANGED <<callers, sender, receive_status, receive_buffer, receive_size,
                 receive_offset, receive_sn, delivered, fwd, history>>

-----------------------------------------------------------------------------
(* The bus. *)

Lose ==
  /\ lost < MaxLost /\ lost' = lost + 1
  /\ \/ fwd # <<>> /\ fwd' = Tail(fwd) /\ UNCHANGED back
     \/ back # <<>> /\ back' = Tail(back) /\ UNCHANGED fwd
  /\ UNCHANGED <<callers, sender, receiver, messages, failed, ignored>>

-----------------------------------------------------------------------------
isotp_send_with_id(c) == SendSingleFrame(c) \/ SendFirstFrame(c) \/ SetInProgress(c)

isotp_poll == SendConsecutiveFrame \/ SendTimeout \/ ReceiveTimeout

SenderOnCanMessage ==
  IgnoreFlowControl \/ ReceiverOverflow \/ ReceiverWaits \/ PermitSend

ReceiverOnCanMessage ==
  ReceiveSingleFrame \/ ReceiveFirstFrame \/ RefuseFirstFrame
  \/ ReceiveConsecutiveFrame \/ WrongSequenceNumber
  \/ UnexpectedConsecutiveFrame \/ AnswerAgain

Next == \/ \E c \in Caller : CheckAndCopy(c) \/ isotp_send_with_id(c)
        \/ isotp_poll \/ SenderOnCanMessage \/ ReceiverOnCanMessage
        \/ Lose

Spec == Init /\ [][Next]_vars

(* The caller returns, the worker polls every millisecond, frames that are   *)
(* not lost arrive, an ECU that said WAIT answers.                           *)
FairSpec ==
  /\ Spec
  /\ \A c \in Caller : WF_vars(isotp_send_with_id(c))
  /\ WF_vars(isotp_poll) /\ WF_vars(SenderOnCanMessage)
  /\ WF_vars(ReceiverOnCanMessage)

-----------------------------------------------------------------------------
(* Properties *)

Numbers == 1..Len(messages)
Pieces == Numbers \X (0..4095)

(* Types; a sender in progress never looks behind the end of its buffer, and *)
(* neither does a receiver.                                                  *)
TypeOK ==
  /\ at \in [Caller -> {"idle", "copied", "first"}]
  /\ arg \in [Caller -> {0} \cup Numbers]
  /\ send_status \in {"IDLE", "INPROGRESS", "ERROR"}
  /\ send_buffer \in {0} \cup Numbers
  /\ send_sn \in 0..(SnModulus - 1)
  /\ send_bs_remain \in (0..255) \cup {ISOTP_INVALID_BS}
  /\ send_wtf_count \in 0..(MaxWft + 1)
  /\ receive_status \in {"IDLE", "INPROGRESS"}
  /\ receive_sn \in 0..(SnModulus - 1)
  /\ receive_bs_count \in 0..255
  /\ receive_buffer \in Seq(Pieces)
  /\ send_status = "INPROGRESS" => send_offset < send_size
  /\ receive_status = "INPROGRESS" => receive_offset < receive_size
  /\ receive_size <= RecvBufSize

(* assert(link->send_size > 7) of isotp_send_consecutive_frame: with one     *)
(* caller the buffer of a message in progress is never overwritten.          *)
ConsecutiveHasLength == MaySend => send_size > SfData

(* The pieces message m consists of. *)
Count(n) == IF n <= SfData THEN 1 ELSE 1 + (n - FfData + CfData - 1) \div CfData
Message(m) ==
  [data |-> [k \in 1..Count(messages[m]) |->
               <<m, IF k = 1 THEN 0 ELSE FfData + CfData * (k - 2)>>],
   size |-> messages[m]]

(* The number of the message d is, 0 if it is none that was submitted.       *)
Number(d) == IF d = Message(d.data[1][1]) THEN d.data[1][1] ELSE 0

Transfer == INSTANCE IsoTpTransfer WITH
  submitted <- Len(messages),
  delivered <- [i \in 1..Len(delivered) |-> Number(delivered[i])]

(* Whatever frames are lost and whatever timers expire, a message arrives    *)
(* whole, in order and once, or not at all: never the tail of one message    *)
(* behind the head of another, or with a gap of SnModulus frames.            *)
ImplementsTransfer == Transfer!Spec

Arrived == {Number(delivered[i]) : i \in 1..Len(delivered)}

(* When no frame is lost, each message arrives or its sender ends in         *)
(* ISOTP_SEND_STATUS_ERROR: none vanishes with the status IDLE.              *)
NoSilentLoss ==
  lost = 0 /\ Silent /\ send_status # "INPROGRESS" => Numbers \ failed \subseteq Arrived

(* A sender gives up only for a lost frame, a flow control frame that came   *)
(* before the status was set, too many WAITs or a refusal.                   *)
FailureHasCause ==
  failed # {} => \/ lost > 0 \/ ignored > 0 \/ waits > MaxWft
                 \/ \E m \in failed : messages[m] > RecvBufSize

(* The sender never has more consecutive frames under way than the receiver  *)
(* granted.                                                                  *)
NeverFloods ==
  \A bs \in BlockSizes : Cardinality({i \in 1..Len(fwd) : fwd[i].type = "CF"}) <= bs

(* A transmission ends, and so does a reception: neither waits for ever for  *)
(* a frame that was lost.                                                    *)
SenderEnds   == (send_status = "INPROGRESS") ~> (send_status # "INPROGRESS")
ReceiverEnds == (receive_status = "INPROGRESS") ~> (receive_status # "INPROGRESS")

(* Neither end of the link stays busy.                                       *)
LinksEnd == SenderEnds /\ ReceiverEnds
=============================================================================
