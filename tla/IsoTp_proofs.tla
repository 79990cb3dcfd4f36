---------------------------- MODULE IsoTp_proofs ----------------------------
(***************************************************************************)
(* The two links of IsoTp when one thread at a time calls the sender, as   *)
(* CanEntryHandler would have to ensure (run isotp_callers shows what      *)
(* happens without): the sending link is consistent, both links keep to    *)
(* their types and buffers, and together they transfer whole messages.     *)
(* For every message size, block size, sequence number modulus and length  *)
(* of the run, and whatever the bus loses.                                 *)
(***************************************************************************)
EXTENDS IsoTp, SequenceTheorems, FiniteSetTheorems, TLAPS

OneCaller == \A c, d \in Caller : c = d

SenderTypeOK ==
  /\ at \in [Caller -> {"idle", "copied", "first"}]
  /\ send_status \in {"IDLE", "INPROGRESS", "ERROR"}
  /\ send_size \in 0..4095
  /\ send_offset \in Nat

(* Where a caller is inside isotp_send_with_id, the link is what it made it. *)
CallerInv ==
  \A c \in Caller :
    /\ at[c] = "copied" => send_status # "INPROGRESS" /\ send_offset = 0
    /\ at[c] = "first" => /\ send_status # "INPROGRESS"
                          /\ send_size > SfData /\ send_offset < send_size

(* A message in progress has a rest to send, and nobody else's hands on it.  *)
ProgressInv ==
  send_status = "INPROGRESS" =>
    /\ send_size > SfData /\ send_offset < send_size
    /\ \A c \in Caller : at[c] = "idle"

SenderInv == SenderTypeOK /\ CallerInv /\ ProgressInv

(* What a step must leave alone not to matter to the sender. *)
senderView == <<at, send_status, send_size, send_offset>>

LEMMA UnchangedView ==
  ASSUME SenderInv, UNCHANGED senderView
  PROVE  SenderInv'
BY DEF SenderInv, SenderTypeOK, CallerInv, ProgressInv, senderView

LEMMA InitSender == Init => SenderInv
BY DEF Init, SenderInv, SenderTypeOK, CallerInv, ProgressInv

(* A caller's three steps, when no other caller is inside. *)
LEMMA CallerStep ==
  ASSUME OneCaller, SenderInv, NEW c \in Caller,
         CheckAndCopy(c) \/ isotp_send_with_id(c)
  PROVE  SenderInv'
<1> USE DEF SenderInv, SenderTypeOK
<1>0. \A d \in Caller : d = c
  BY DEF OneCaller
<1>1. CASE CheckAndCopy(c)
  <2>1. PICK n \in Sizes : send_size' = n
    BY <1>1 DEF CheckAndCopy
  <2>2. send_size' \in 0..4095
    BY <2>1, SizesAssumption
  <2>3. /\ at' = [at EXCEPT ![c] = "copied"] /\ send_offset' = 0
        /\ send_status # "INPROGRESS" /\ send_status' = send_status
    BY <1>1 DEF CheckAndCopy
  <2> QED
    BY <2>2, <2>3, <1>0 DEF CallerInv, ProgressInv
<1>2. CASE SendSingleFrame(c)
  BY <1>2, <1>0 DEF SendSingleFrame, CallerInv, ProgressInv, sender
<1>3. CASE SendFirstFrame(c)
  <2>1. /\ at[c] = "copied" /\ at' = [at EXCEPT ![c] = "first"]
        /\ send_size > SfData /\ send_offset' = send_offset + FfData
        /\ UNCHANGED <<send_status, send_size>>
    BY <1>3 DEF SendFirstFrame
  <2>2. send_status # "INPROGRESS" /\ send_offset = 0
    BY <2>1 DEF CallerInv
  <2> QED
    BY <2>1, <2>2, <1>0 DEF CallerInv, ProgressInv, SfData, FfData
<1>4. CASE SetInProgress(c)
  <2>1. /\ at[c] = "first" /\ at' = [at EXCEPT ![c] = "idle"]
        /\ send_status' = "INPROGRESS"
        /\ UNCHANGED <<send_size, send_offset>>
    BY <1>4 DEF SetInProgress
  <2> QED
    BY <2>1, <1>0 DEF CallerInv, ProgressInv
<1> QED
  BY <1>1, <1>2, <1>3, <1>4 DEF isotp_send_with_id

(* isotp_poll: a frame is sent, or a timer ends the message. *)
LEMMA PollStep ==
  ASSUME SenderInv, isotp_poll
  PROVE  SenderInv'
<1> USE DEF SenderInv, SenderTypeOK
<1>1. CASE SendConsecutiveFrame
  <2>1. /\ send_status = "INPROGRESS" /\ UNCHANGED <<at, send_size>>
        /\ send_offset' = send_offset
                          + Least(CfData, (send_size - send_offset) % 65536)
        /\ send_status' = IF send_offset' >= send_size THEN "IDLE" ELSE send_status
    BY <1>1 DEF SendConsecutiveFrame, MaySend, callers
  <2>2. send_offset' \in Nat
    BY <2>1 DEF Least, CfData
  <2> QED
    BY <2>1, <2>2 DEF CallerInv, ProgressInv
<1>2. CASE SendTimeout
  BY <1>2 DEF SendTimeout, Fail, callers, CallerInv, ProgressInv
<1>3. CASE ReceiveTimeout
  BY <1>3, UnchangedView DEF ReceiveTimeout, callers, sender, senderView
<1> QED
  BY <1>1, <1>2, <1>3 DEF isotp_poll

(* Flow control only counts, permits or gives up. *)
LEMMA FlowControlStep ==
  ASSUME SenderInv, SenderOnCanMessage
  PROVE  SenderInv'
<1> USE DEF FlowControl, callers
<1>1. CASE IgnoreFlowControl \/ PermitSend
  BY <1>1, UnchangedView DEF IgnoreFlowControl, PermitSend, senderView
<1>2. CASE ReceiverOverflow
  BY <1>2 DEF ReceiverOverflow, Fail, SenderInv, SenderTypeOK, CallerInv, ProgressInv
<1>3. CASE ReceiverWaits
  <2>1. /\ send_status' \in {send_status, "ERROR"}
        /\ UNCHANGED <<at, send_size, send_offset>>
    BY <1>3 DEF ReceiverWaits, Fail
  <2> QED
    BY <2>1 DEF SenderInv, SenderTypeOK, CallerInv, ProgressInv
<1> QED
  BY <1>1, <1>2, <1>3 DEF SenderOnCanMessage

(* The receiver and the bus do not touch the sending link. *)
LEMMA OtherStep ==
  ASSUME SenderInv, ReceiverOnCanMessage \/ Lose
  PROVE  SenderInv'
<1> UNCHANGED <<callers, sender>>
  BY DEF ReceiverOnCanMessage, Receive, ReceiveSingleFrame, ReceiveFirstFrame,
         RefuseFirstFrame, ReceiveConsecutiveFrame, WrongSequenceNumber,
         UnexpectedConsecutiveFrame, AnswerAgain, Lose
<1> QED
  BY UnchangedView DEF callers, sender, senderView

(* With one caller the link is consistent in every reachable state: the      *)
(* strengthening that ConsecutiveHasLength needs.                            *)
THEOREM SenderConsistent == ASSUME OneCaller PROVE Spec => []SenderInv
<1>1. SenderInv /\ [Next]_vars => SenderInv'
  <2> SUFFICES ASSUME SenderInv, [Next]_vars PROVE SenderInv'
    OBVIOUS
  <2>1. CASE Next
    BY <2>1, CallerStep, PollStep, FlowControlStep, OtherStep DEF Next
  <2>2. CASE UNCHANGED vars
    BY <2>2, UnchangedView DEF vars, callers, sender, senderView
  <2> QED
    BY <2>1, <2>2
<1> QED
  BY InitSender, <1>1, PTL DEF Spec

(* assert(link->send_size > 7) never fails when one thread at a time calls   *)
(* isotp_send_with_id.                                                       *)
THEOREM AssertionHolds == ASSUME OneCaller PROVE Spec => []ConsecutiveHasLength
<1>1. SenderInv => ConsecutiveHasLength
  BY DEF SenderInv, ProgressInv, ConsecutiveHasLength, MaySend
<1> QED
  BY SenderConsistent, <1>1, PTL

(* A sender in progress never reads behind the end of its buffer.            *)
THEOREM OffsetInBuffer ==
  ASSUME OneCaller
  PROVE  Spec => [](send_status = "INPROGRESS" => send_offset < send_size)
<1>1. SenderInv => (send_status = "INPROGRESS" => send_offset < send_size)
  BY DEF SenderInv, ProgressInv
<1> QED
  BY SenderConsistent, <1>1, PTL

-----------------------------------------------------------------------------
(* Types.  The frames under way carry what the sending link put into them,   *)
(* so that the receiving link never takes a size its buffer has not.         *)

SingleFrames      == [type : {"SF"}, size : 1..SfData, piece : Pieces]
FirstFrames       == [type : {"FF"}, size : (SfData + 1)..4095, piece : Pieces]
ConsecutiveFrames == [type : {"CF"}, sn : 0..(SnModulus - 1), piece : Pieces]
FlowControls      == [fs : {"CONTINUE", "WAIT", "OVERFLOW"}, bs : 0..255]

BusType ==
  /\ fwd \in Seq(SingleFrames \cup FirstFrames \cup ConsecutiveFrames)
  /\ back \in Seq(FlowControls)

(* A message is being sent or about to be: the buffer holds one.             *)
Used == send_status = "INPROGRESS" \/ \E c \in Caller : at[c] # "idle"

BufferType ==
  /\ messages \in Seq(Sizes)
  /\ arg \in [Caller -> {0} \cup Numbers]
  /\ send_buffer \in {0} \cup Numbers
  /\ Used => send_buffer \in Numbers /\ send_size \in 1..4095

CounterType ==
  /\ send_sn \in 0..(SnModulus - 1)
  /\ send_bs_remain \in (0..255) \cup {ISOTP_INVALID_BS}
  /\ send_wtf_count \in 0..(MaxWft + 1)
  /\ send_status = "INPROGRESS" => send_wtf_count <= MaxWft

ReceiverType ==
  /\ receive_status \in {"IDLE", "INPROGRESS"}
  /\ receive_sn \in 0..(SnModulus - 1)
  /\ receive_bs_count \in 0..255
  /\ receive_buffer \in Seq(Pieces)
  /\ receive_size \in 0..RecvBufSize
  /\ receive_offset \in Nat
  /\ receive_status = "INPROGRESS" => receive_offset < receive_size

LinkInv == SenderInv /\ BusType /\ BufferType /\ CounterType /\ ReceiverType

(* Messages are only added. *)
LEMMA Grows ==
  ASSUME messages \in Seq(Sizes), NEW n \in Sizes, messages' = Append(messages, n)
  PROVE  /\ messages' \in Seq(Sizes)
         /\ Numbers \subseteq Numbers' /\ Len(messages') \in Numbers'
BY DEF Numbers

LEMMA PiecesGrow ==
  ASSUME Numbers \subseteq Numbers'
  PROVE  /\ Pieces \subseteq Pieces'
         /\ SingleFrames \subseteq SingleFrames'
         /\ FirstFrames \subseteq FirstFrames'
         /\ ConsecutiveFrames \subseteq ConsecutiveFrames'
<1>1. Pieces \subseteq Pieces'
  BY DEF Pieces
<1>2. SingleFrames \subseteq SingleFrames'
  BY <1>1, Zenon DEF SingleFrames, SfData
<1>3. FirstFrames \subseteq FirstFrames'
  <2> DEFINE Lengths == (SfData + 1)..4095
  <2>1. /\ FirstFrames = [type : {"FF"}, size : Lengths, piece : Pieces]
        /\ FirstFrames' = [type : {"FF"}, size : Lengths, piece : Pieces']
    BY DEF FirstFrames, SfData
  <2> HIDE DEF Lengths
  <2> QED
    BY <1>1, <2>1, Zenon
<1>4. ConsecutiveFrames \subseteq ConsecutiveFrames'
  BY <1>1, Zenon DEF ConsecutiveFrames
<1> QED
  BY <1>1, <1>2, <1>3, <1>4

(* What is under way stays typed when messages are added. *)
LEMMA BusKept ==
  ASSUME BusType, Numbers \subseteq Numbers', UNCHANGED <<fwd, back>>
  PROVE  BusType'
<1> DEFINE F == SingleFrames \cup FirstFrames \cup ConsecutiveFrames
<1>1. F \subseteq F'
  BY PiecesGrow
<1>2. fwd \in Seq(F)
  BY DEF BusType
<1> HIDE DEF F
<1>3. fwd \in Seq(F')
  BY <1>1, <1>2, SeqMonotonic
<1>4. BusType' <=> fwd' \in Seq(F') /\ back' \in Seq(FlowControls)
  BY DEF BusType, F, FlowControls
<1> QED
  BY <1>3, <1>4 DEF BusType

LEMMA ReceiverKept ==
  ASSUME ReceiverType, Numbers \subseteq Numbers', UNCHANGED receiver
  PROVE  ReceiverType'
<1>1. receive_buffer \in Seq(Pieces')
  BY PiecesGrow, SeqMonotonic DEF ReceiverType
<1> QED
  BY <1>1 DEF ReceiverType, receiver

LEMMA InitLink == Init => LinkInv
<1> SUFFICES ASSUME Init PROVE LinkInv
  OBVIOUS
<1> USE DEF Init
<1>1. SenderInv
  BY InitSender
<1>2. BusType
  BY DEF BusType
<1>3. BufferType
  BY DEF BufferType, Used
<1>4. CounterType
  BY SnAssumption, BoundsAssumption DEF CounterType
<1>5. ReceiverType
  BY SnAssumption, SizesAssumption DEF ReceiverType
<1> QED
  BY <1>1, <1>2, <1>3, <1>4, <1>5 DEF LinkInv

(* A caller submits a message and puts its first frame on the bus.           *)
LEMMA CheckTypes ==
  ASSUME LinkInv, NEW c \in Caller, CheckAndCopy(c)
  PROVE  BusType' /\ BufferType' /\ CounterType' /\ ReceiverType'
<1>0. PICK n \in Sizes : messages' = Append(messages, n) /\ send_size' = n
  BY DEF CheckAndCopy
<1>1. /\ Numbers \subseteq Numbers' /\ Len(messages') \in Numbers'
      /\ messages' \in Seq(Sizes)
  BY <1>0, Grows DEF LinkInv, BufferType
<1>2. BusType'
  BY <1>1, BusKept DEF LinkInv, CheckAndCopy
<1>3. BufferType'
  <2>1. arg' \in [Caller -> {0} \cup Numbers']
    BY <1>1 DEF LinkInv, BufferType, CheckAndCopy
  <2>2. send_buffer' \in Numbers' /\ send_size' \in 1..4095
    <3>1. send_buffer' = Len(messages')
      BY DEF CheckAndCopy
    <3>2. send_size' \in 1..4095
      BY <1>0, SizesAssumption
    <3> QED
      BY <1>1, <3>1, <3>2
  <2> QED
    BY <1>1, <2>1, <2>2 DEF BufferType
<1>4. CounterType'
  BY DEF CheckAndCopy, LinkInv, CounterType
<1>5. ReceiverType'
  BY <1>1, ReceiverKept DEF LinkInv, CheckAndCopy
<1> QED
  BY <1>2, <1>3, <1>4, <1>5

(* Every other step keeps the messages, hence the pieces. *)
LEMMA SamePieces ==
  ASSUME UNCHANGED messages
  PROVE  /\ Numbers' = Numbers /\ Pieces' = Pieces
         /\ SingleFrames' = SingleFrames /\ FirstFrames' = FirstFrames
         /\ ConsecutiveFrames' = ConsecutiveFrames
<1>1. Numbers' = Numbers
  BY DEF Numbers
<1>2. Pieces' = Pieces
  BY <1>1, Zenon DEF Pieces
<1>3. SingleFrames' = SingleFrames
  BY <1>2, Zenon DEF SingleFrames, SfData
<1>4. FirstFrames' = FirstFrames
  BY <1>2 DEF FirstFrames, SfData
<1>5. ConsecutiveFrames' = ConsecutiveFrames
  BY <1>2, Zenon DEF ConsecutiveFrames
<1> QED
  BY <1>1, <1>2, <1>3, <1>4, <1>5

LEMMA FrameSent ==
  ASSUME LinkInv, UNCHANGED <<messages, back>>,
         NEW f \in SingleFrames \cup FirstFrames \cup ConsecutiveFrames,
         fwd' = Append(fwd, f)
  PROVE  BusType'
<1> DEFINE F == SingleFrames \cup FirstFrames \cup ConsecutiveFrames
<1>1. F' = F /\ fwd \in Seq(F) /\ f \in F
  BY SamePieces DEF LinkInv, BusType
<1> HIDE DEF F
<1>2. fwd' \in Seq(F')
  BY <1>1
<1> QED
  BY <1>2 DEF F, BusType, LinkInv, FlowControls

LEMMA SendTypes ==
  ASSUME LinkInv, NEW c \in Caller, isotp_send_with_id(c)
  PROVE  BusType' /\ BufferType' /\ CounterType' /\ ReceiverType'
<1>0. /\ UNCHANGED <<arg, send_buffer, send_size, receiver, back, messages>>
      /\ Numbers' = Numbers /\ Numbers \subseteq Numbers'
  <2>1. UNCHANGED <<arg, send_buffer, send_size, receiver, back, messages>>
    BY DEF isotp_send_with_id, SendSingleFrame, SendFirstFrame, SetInProgress,
           sender, history
  <2> QED
    BY <2>1, SamePieces
<1>1. ReceiverType'
  BY <1>0, ReceiverKept DEF LinkInv
<1>2. at[c] # "idle"
  BY DEF isotp_send_with_id, SendSingleFrame, SendFirstFrame, SetInProgress
<1>3. send_buffer \in Numbers /\ send_size \in 1..4095
  BY <1>2 DEF LinkInv, BufferType, Used
<1>4. BufferType'
  BY <1>0, <1>3 DEF LinkInv, BufferType
<1>5. <<send_buffer, 0>> \in Pieces
  BY <1>3 DEF Pieces
<1>6. CASE SendSingleFrame(c)
  <2>1. [type |-> "SF", size |-> send_size, piece |-> <<send_buffer, 0>>]
          \in SingleFrames
    <3>1. send_size \in 1..SfData
      <4>1. \A n \in Nat : 1 <= n /\ n <= SfData => n \in 1..SfData
        BY DEF SfData
      <4>2. send_size \in Nat /\ 1 <= send_size
        BY <1>3
      <4> QED
        BY <1>6, <4>1, <4>2, Zenon DEF SendSingleFrame
    <3> QED
      BY <3>1, <1>5, Zenon DEF SingleFrames
  <2>2. BusType'
    BY <2>1, <1>0, <1>6, FrameSent DEF SendSingleFrame
  <2>3. CounterType'
    BY <1>6 DEF SendSingleFrame, sender, LinkInv, CounterType
  <2> QED
    BY <2>2, <2>3, <1>1, <1>4
<1>7. CASE SendFirstFrame(c)
  <2>1. [type |-> "FF", size |-> send_size, piece |-> <<send_buffer, 0>>]
          \in FirstFrames
    <3>1. send_size \in (SfData + 1)..4095
      BY <1>3, <1>7 DEF SendFirstFrame, SfData
    <3> QED
      BY <3>1, <1>5 DEF FirstFrames
  <2>2. BusType'
    BY <2>1, <1>0, <1>7, FrameSent DEF SendFirstFrame
  <2>3. CounterType'
    BY <1>7, SnAssumption DEF SendFirstFrame, LinkInv, CounterType
  <2> QED
    BY <2>2, <2>3, <1>1, <1>4
<1>8. CASE SetInProgress(c)
  <2>1. BusType'
    BY <1>0, <1>8, BusKept DEF SetInProgress, LinkInv
  <2>2. CounterType'
    BY <1>8, BoundsAssumption DEF SetInProgress, LinkInv, CounterType
  <2> QED
    BY <2>1, <2>2, <1>1, <1>4
<1> QED
  BY <1>6, <1>7, <1>8 DEF isotp_send_with_id

(* isotp_poll on both ends. *)
LEMMA PollTypes ==
  ASSUME LinkInv, isotp_poll
  PROVE  BusType' /\ BufferType' /\ CounterType' /\ ReceiverType'
<1>0. /\ UNCHANGED <<at, arg, send_buffer, send_size, messages, back>>
      /\ Numbers' = Numbers /\ Numbers \subseteq Numbers'
  <2>1. UNCHANGED <<at, arg, send_buffer, send_size, messages, back>>
    BY DEF isotp_poll, SendConsecutiveFrame, SendTimeout, ReceiveTimeout,
           callers, sender, history
  <2> QED
    BY <2>1, SamePieces
<1>1. CASE SendConsecutiveFrame
  <2>1. send_status = "INPROGRESS" /\ send_bs_remain # 0
    BY <1>1 DEF SendConsecutiveFrame, MaySend
  <2>2. send_buffer \in Numbers /\ send_size \in 1..4095
    BY <2>1 DEF LinkInv, BufferType, Used
  <2>3. send_offset \in 0..4095
    <3>1. send_offset \in Nat /\ send_offset < send_size
      BY <2>1 DEF LinkInv, SenderInv, SenderTypeOK, ProgressInv
    <3>2. \A n, k \in Nat : k < n /\ n <= 4095 => k \in 0..4095
      OBVIOUS
    <3>3. send_size \in Nat /\ send_size <= 4095
      BY <2>2
    <3> QED
      BY <3>1, <3>2, <3>3
  <2>4. <<send_buffer, send_offset>> \in Pieces
    <3> DEFINE Offsets == 0..4095
    <3>1. Pieces = Numbers \X Offsets /\ send_offset \in Offsets
      BY <2>3 DEF Pieces
    <3> HIDE DEF Offsets
    <3> QED
      BY <2>2, <3>1
  <2>5. [type |-> "CF", sn |-> send_sn, piece |-> <<send_buffer, send_offset>>]
          \in ConsecutiveFrames
    BY <2>4 DEF ConsecutiveFrames, LinkInv, CounterType
  <2>6. BusType'
    BY <2>5, <1>0, <1>1, FrameSent DEF SendConsecutiveFrame
  <2>7. CounterType'
    <3>1. send_sn' \in 0..(SnModulus - 1)
      BY <1>1, SnAssumption DEF SendConsecutiveFrame, LinkInv, CounterType
    <3>2. send_bs_remain' \in (0..255) \cup {ISOTP_INVALID_BS}
      BY <1>1, <2>1 DEF SendConsecutiveFrame, LinkInv, CounterType
    <3> QED
      BY <3>1, <3>2, <1>1, <2>1 DEF SendConsecutiveFrame, LinkInv, CounterType
  <2>8. BufferType'
    BY <1>0, <1>1, <2>2 DEF LinkInv, BufferType
  <2>9. ReceiverType'
    BY <1>0, <1>1, ReceiverKept DEF SendConsecutiveFrame, LinkInv
  <2> QED
    BY <2>6, <2>7, <2>8, <2>9
<1>2. CASE SendTimeout \/ ReceiveTimeout
  <2>1. /\ UNCHANGED <<fwd, send_sn, send_bs_remain, send_wtf_count>>
        /\ send_status' \in {send_status, "ERROR"}
    BY <1>2 DEF SendTimeout, Fail, ReceiveTimeout, sender
  <2>2. BusType'
    BY <1>0, <2>1, BusKept DEF LinkInv
  <2>3. CounterType'
    BY <2>1 DEF LinkInv, CounterType
  <2>4. BufferType'
    <3>1. Used' => Used
      BY <1>0, <2>1 DEF Used
    <3> QED
      BY <1>0, <3>1 DEF LinkInv, BufferType
  <2>5. ReceiverType'
    <3>1. CASE SendTimeout
      BY <3>1, <1>0, ReceiverKept DEF SendTimeout, LinkInv
    <3>2. CASE ReceiveTimeout
      BY <3>2, <1>0, SamePieces DEF ReceiveTimeout, LinkInv, ReceiverType
    <3> QED
      BY <3>1, <3>2, <1>2
  <2> QED
    BY <2>2, <2>3, <2>4, <2>5
<1> QED
  BY <1>1, <1>2 DEF isotp_poll

(* A flow control frame on the sending end. *)
LEMMA FlowTypes ==
  ASSUME LinkInv, SenderOnCanMessage
  PROVE  BusType' /\ BufferType' /\ CounterType' /\ ReceiverType'
<1>0. /\ UNCHANGED <<at, arg, send_buffer, send_size, send_sn, receiver, fwd, messages>>
      /\ back # <<>> /\ back' = Tail(back)
      /\ send_status' \in {send_status, "ERROR"}
  BY DEF SenderOnCanMessage, IgnoreFlowControl, ReceiverOverflow, ReceiverWaits,
         PermitSend, FlowControl, Fail, callers
<1>1. Numbers' = Numbers /\ Numbers \subseteq Numbers'
  BY <1>0, SamePieces
<1>2. back \in Seq(FlowControls) /\ Head(back) \in FlowControls
      /\ Tail(back) \in Seq(FlowControls)
  BY <1>0, HeadTailProperties DEF LinkInv, BusType
<1>3. BusType'
  <2> DEFINE F == SingleFrames \cup FirstFrames \cup ConsecutiveFrames
  <2>1. F' = F /\ fwd \in Seq(F)
    BY <1>0, SamePieces DEF LinkInv, BusType
  <2>2. fwd' \in Seq(F')
    BY <1>0, <2>1
  <2> QED
    BY <2>2, <1>0, <1>2 DEF BusType, FlowControls
<1>4. BufferType'
  <2>1. Used' => Used
    BY <1>0 DEF Used
  <2> QED
    BY <1>0, <1>1, <2>1 DEF LinkInv, BufferType
<1>5. ReceiverType'
  BY <1>0, <1>1, ReceiverKept DEF LinkInv
<1>6. CounterType'
  <2> USE DEF LinkInv, CounterType
  <2>1. CASE IgnoreFlowControl \/ ReceiverOverflow
    BY <2>1, <1>0 DEF IgnoreFlowControl, ReceiverOverflow, Fail
  <2>2. CASE ReceiverWaits
    <3>1. /\ send_status = "INPROGRESS" /\ UNCHANGED <<send_sn, send_bs_remain>>
          /\ send_wtf_count' = send_wtf_count + 1
          /\ send_wtf_count' > MaxWft => send_status' = "ERROR"
      BY <2>2, <1>0 DEF ReceiverWaits, Fail
    <3> QED
      BY <3>1, BoundsAssumption
  <2>3. CASE PermitSend
    <3>1. Head(back).bs \in 0..255
      BY <1>2 DEF FlowControls
    <3>2. send_bs_remain' \in (0..255) \cup {ISOTP_INVALID_BS}
      BY <2>3, <3>1 DEF PermitSend
    <3> QED
      BY <2>3, <3>2, <1>0, BoundsAssumption DEF PermitSend
  <2> QED
    BY <2>1, <2>2, <2>3 DEF SenderOnCanMessage
<1> QED
  BY <1>3, <1>4, <1>5, <1>6

(* What the receiving end answers, when it answers. *)
LEMMA AnswerTypes ==
  ASSUME LinkInv, Answer \/ NoAnswer
  PROVE  back' \in Seq(FlowControls) /\ receive_bs_count' \in 0..255
<1>0. back \in Seq(FlowControls) /\ receive_bs_count \in 0..255
  BY DEF LinkInv, BusType, ReceiverType
<1>1. CASE Grant
  <2>1. PICK bs \in BlockSizes : /\ back' = Append(back, [fs |-> "CONTINUE", bs |-> bs])
                                 /\ receive_bs_count' = bs
    BY <1>1 DEF Grant
  <2>2. bs \in 0..255
    BY BlockSizesAssumption
  <2>3. [fs |-> "CONTINUE", bs |-> bs] \in FlowControls
    BY <2>2 DEF FlowControls
  <2> QED
    BY <1>0, <2>1, <2>2, <2>3
<1>2. CASE Postpone
  <2>1. [fs |-> "WAIT", bs |-> 0] \in FlowControls
    BY DEF FlowControls
  <2> QED
    BY <1>0, <1>2, <2>1 DEF Postpone
<1>3. CASE NoAnswer
  BY <1>0, <1>3 DEF NoAnswer
<1> QED
  BY <1>1, <1>2, <1>3 DEF Answer

LEMMA FrameTaken ==
  ASSUME LinkInv, UNCHANGED messages, fwd # <<>>,
         fwd' = Tail(fwd), back' \in Seq(FlowControls)
  PROVE  BusType'
<1> DEFINE F == SingleFrames \cup FirstFrames \cup ConsecutiveFrames
<1>1. F' = F /\ fwd \in Seq(F)
  BY SamePieces DEF LinkInv, BusType
<1> HIDE DEF F
<1>2. fwd' \in Seq(F')
  BY <1>1, HeadTailProperties
<1> QED
  BY <1>2 DEF F, BusType, FlowControls

(* The head of fwd is a frame of its type. *)
LEMMA HeadTyped ==
  ASSUME LinkInv, NEW type, Receive(type)
  PROVE  /\ Head(fwd).piece \in Pieces
         /\ type = "SF" => Head(fwd).size \in 1..SfData
         /\ type = "FF" => Head(fwd).size \in (SfData + 1)..4095
<1>1. fwd # <<>> /\ Head(fwd).type = type
  BY DEF Receive
<1>2. Head(fwd) \in SingleFrames \cup FirstFrames \cup ConsecutiveFrames
  BY <1>1, HeadTailProperties DEF LinkInv, BusType
<1> QED
  BY <1>1, <1>2 DEF SingleFrames, FirstFrames, ConsecutiveFrames

LEMMA ReceiveTypes ==
  ASSUME LinkInv, ReceiverOnCanMessage
  PROVE  BusType' /\ BufferType' /\ CounterType' /\ ReceiverType'
<1>0. UNCHANGED <<callers, sender, messages>>
  BY DEF ReceiverOnCanMessage, Receive, ReceiveSingleFrame, ReceiveFirstFrame,
         RefuseFirstFrame, ReceiveConsecutiveFrame, WrongSequenceNumber,
         UnexpectedConsecutiveFrame, AnswerAgain, history
<1>1. Numbers' = Numbers /\ Pieces' = Pieces
  BY <1>0, SamePieces
<1>2. BufferType'
  BY <1>0, <1>1 DEF LinkInv, BufferType, Used, callers, sender
<1>3. CounterType'
  BY <1>0 DEF LinkInv, CounterType, sender
<1> USE SizesAssumption, SnAssumption
<1>4. CASE ReceiveSingleFrame
  <2>1. Head(fwd).piece \in Pieces /\ Head(fwd).size \in 1..SfData
    BY <1>4, HeadTyped DEF ReceiveSingleFrame
  <2>2. BusType'
    BY <1>4, <1>0, FrameTaken, AnswerTypes DEF ReceiveSingleFrame, Receive
  <2>3. ReceiverType'
    <3>1. /\ receive_buffer' = <<Head(fwd).piece>> /\ receive_size' = Head(fwd).size
          /\ UNCHANGED <<receive_offset, receive_sn>> /\ receive_status' = "IDLE"
      BY <1>4 DEF ReceiveSingleFrame, Full
    <3>2. receive_bs_count' \in 0..255
      BY <1>4, AnswerTypes DEF ReceiveSingleFrame
    <3>3. receive_size' \in 0..RecvBufSize
      <4>1. \A n \in 1..SfData : n \in 0..RecvBufSize
        BY DEF SfData
      <4> QED
        BY <2>1, <3>1, <4>1
    <3>4. receive_buffer' \in Seq(Pieces')
      BY <1>1, <2>1, <3>1
    <3>5. receive_offset' \in Nat /\ receive_sn' \in 0..(SnModulus - 1)
      BY <3>1 DEF LinkInv, ReceiverType
    <3> QED
      BY <3>1, <3>2, <3>3, <3>4, <3>5 DEF ReceiverType
  <2> QED
    BY <1>2, <1>3, <2>2, <2>3
<1>5. CASE ReceiveFirstFrame
  <2>1. Head(fwd).piece \in Pieces /\ Head(fwd).size \in (SfData + 1)..4095
    BY <1>5, HeadTyped DEF ReceiveFirstFrame
  <2>2. BusType'
    BY <1>5, <1>0, FrameTaken, AnswerTypes DEF ReceiveFirstFrame, Receive
  <2>3. ReceiverType'
    <3>1. /\ receive_buffer' = <<Head(fwd).piece>>
          /\ receive_size' = Head(fwd).size /\ Head(fwd).size <= RecvBufSize
          /\ receive_offset' = FfData /\ receive_sn' = 1
          /\ receive_status' = "INPROGRESS"
      BY <1>5 DEF ReceiveFirstFrame
    <3>2. receive_bs_count' \in 0..255
      BY <1>5, AnswerTypes DEF ReceiveFirstFrame
    <3>3. /\ receive_size' \in 0..RecvBufSize /\ receive_offset' < receive_size'
          /\ receive_offset' \in Nat
      <4>1. \A n \in (SfData + 1)..4095 :
              n <= RecvBufSize => n \in 0..RecvBufSize /\ FfData < n
        BY DEF SfData, FfData
      <4> QED
        BY <2>1, <3>1, <4>1 DEF FfData
    <3>4. receive_buffer' \in Seq(Pieces')
      BY <1>1, <2>1, <3>1
    <3> QED
      BY <3>1, <3>2, <3>3, <3>4 DEF ReceiverType
  <2> QED
    BY <1>2, <1>3, <2>2, <2>3
<1>6. CASE RefuseFirstFrame
  <2>1. [fs |-> "OVERFLOW", bs |-> 0] \in FlowControls
    BY DEF FlowControls
  <2>2. back' \in Seq(FlowControls)
    BY <1>6, <2>1 DEF RefuseFirstFrame, LinkInv, BusType
  <2>3. BusType'
    BY <1>6, <1>0, <2>2, FrameTaken DEF RefuseFirstFrame, Receive
  <2>4. ReceiverType'
    BY <1>6, <1>1 DEF RefuseFirstFrame, LinkInv, ReceiverType
  <2> QED
    BY <1>2, <1>3, <2>3, <2>4
<1>7. CASE ReceiveConsecutiveFrame
  <2>1. Head(fwd).piece \in Pieces
    BY <1>7, HeadTyped DEF ReceiveConsecutiveFrame
  <2>2. /\ receive_status = "INPROGRESS"
        /\ receive_buffer' = Append(receive_buffer, Head(fwd).piece)
        /\ receive_offset' = receive_offset + Least(CfData, receive_size - receive_offset)
        /\ receive_sn' = (receive_sn + 1) % SnModulus
        /\ receive_size' = receive_size
        /\ \/ receive_offset' >= receive_size /\ receive_status' = "IDLE"
           \/ receive_offset' < receive_size /\ receive_status' = receive_status
    <3>1. /\ receive_status = "INPROGRESS"
          /\ receive_buffer' = Append(receive_buffer, Head(fwd).piece)
          /\ receive_offset' = receive_offset + Least(CfData, receive_size - receive_offset)
          /\ receive_sn' = (receive_sn + 1) % SnModulus
          /\ receive_size' = receive_size
          /\ IF receive_offset' >= receive_size
               THEN receive_status' = "IDLE" ELSE receive_status' = receive_status
      BY <1>7 DEF ReceiveConsecutiveFrame, Full
    <3>2. receive_offset' \in Int /\ receive_size \in Int
      BY <3>1 DEF LinkInv, ReceiverType, Least, CfData
    <3> QED
      BY <3>1, <3>2
  <2>3. back' \in Seq(FlowControls) /\ receive_bs_count' \in 0..255
    <3>1. CASE Answer \/ NoAnswer
      BY <3>1, AnswerTypes
    <3>2. CASE back' = back /\ receive_bs_count' = (receive_bs_count - 1) % 256
      BY <3>2 DEF LinkInv, BusType, ReceiverType
    <3> QED
      BY <1>7, <3>1, <3>2 DEF ReceiveConsecutiveFrame
  <2>4. BusType'
    BY <1>7, <1>0, <2>3, FrameTaken DEF ReceiveConsecutiveFrame, Receive
  <2>5. receive_offset' \in Nat /\ receive_sn' \in 0..(SnModulus - 1)
    BY <2>2 DEF LinkInv, ReceiverType, Least, CfData
  <2>6. receive_buffer' \in Seq(Pieces')
    BY <1>1, <2>1, <2>2 DEF LinkInv, ReceiverType
  <2>7. ReceiverType'
    <3>1. /\ receive_status' \in {"IDLE", "INPROGRESS"}
          /\ receive_status' = "INPROGRESS" => receive_offset' < receive_size'
      BY <2>2
    <3>2. receive_size' \in 0..RecvBufSize
      BY <2>2 DEF LinkInv, ReceiverType
    <3> QED
      BY <2>3, <2>5, <2>6, <3>1, <3>2 DEF ReceiverType
  <2> QED
    BY <1>2, <1>3, <2>4, <2>7
<1>8. CASE WrongSequenceNumber \/ UnexpectedConsecutiveFrame
  <2>1. /\ UNCHANGED <<back, receive_buffer, receive_size, receive_offset,
                       receive_sn, receive_bs_count>>
        /\ receive_status' \in {receive_status, "IDLE"}
        /\ fwd # <<>> /\ fwd' = Tail(fwd)
    BY <1>8 DEF WrongSequenceNumber, UnexpectedConsecutiveFrame, Receive, receiver
  <2>2. BusType'
    BY <2>1, <1>0, FrameTaken DEF LinkInv, BusType
  <2>3. ReceiverType'
    BY <2>1, <1>1 DEF LinkInv, ReceiverType
  <2> QED
    BY <1>2, <1>3, <2>2, <2>3
<1>9. CASE AnswerAgain
  <2>1. /\ UNCHANGED <<fwd, receive_status, receive_buffer, receive_size,
                       receive_offset, receive_sn>>
        /\ back' \in Seq(FlowControls) /\ receive_bs_count' \in 0..255
    BY <1>9, AnswerTypes DEF AnswerAgain
  <2>2. BusType'
    <3> DEFINE F == SingleFrames \cup FirstFrames \cup ConsecutiveFrames
    <3>1. F' = F /\ fwd \in Seq(F)
      BY <1>0, SamePieces DEF LinkInv, BusType
    <3>2. fwd' \in Seq(F')
      BY <2>1, <3>1
    <3> QED
      BY <3>2, <2>1 DEF BusType, FlowControls
  <2>3. ReceiverType'
    BY <2>1, <1>1 DEF LinkInv, ReceiverType
  <2> QED
    BY <1>2, <1>3, <2>2, <2>3
<1> QED
  BY <1>4, <1>5, <1>6, <1>7, <1>8, <1>9 DEF ReceiverOnCanMessage

(* The bus loses the oldest frame of one direction. *)
LEMMA LoseTypes ==
  ASSUME LinkInv, Lose
  PROVE  BusType' /\ BufferType' /\ CounterType' /\ ReceiverType'
<1>0. UNCHANGED <<callers, sender, receiver, messages>>
  BY DEF Lose
<1>1. Numbers' = Numbers /\ Numbers \subseteq Numbers'
  BY <1>0, SamePieces
<1>2. BufferType' /\ CounterType'
  BY <1>0, <1>1 DEF LinkInv, BufferType, CounterType, Used, callers, sender
<1>3. ReceiverType'
  BY <1>0, <1>1, ReceiverKept DEF LinkInv
<1>4. BusType'
  <2>1. CASE fwd # <<>> /\ fwd' = Tail(fwd) /\ UNCHANGED back
    BY <2>1, <1>0, FrameTaken DEF LinkInv, BusType
  <2>2. CASE back # <<>> /\ back' = Tail(back) /\ UNCHANGED fwd
    <3> DEFINE F == SingleFrames \cup FirstFrames \cup ConsecutiveFrames
    <3>1. F' = F /\ fwd \in Seq(F)
      BY <1>0, SamePieces DEF LinkInv, BusType
    <3>2. fwd' \in Seq(F') /\ back' \in Seq(FlowControls)
      BY <2>2, <3>1, HeadTailProperties DEF LinkInv, BusType
    <3> QED
      BY <3>2 DEF BusType, FlowControls
  <2> QED
    BY <2>1, <2>2 DEF Lose
<1> QED
  BY <1>2, <1>3, <1>4

LEMMA LinkStep ==
  ASSUME OneCaller, LinkInv, [Next]_vars
  PROVE  LinkInv'
<1>1. SenderInv'
  <2>1. CASE Next
    BY <2>1, CallerStep, PollStep, FlowControlStep, OtherStep DEF Next, LinkInv
  <2>2. CASE UNCHANGED vars
    BY <2>2, UnchangedView DEF LinkInv, vars, callers, sender, senderView
  <2> QED
    BY <2>1, <2>2
<1>2. CASE Next
  BY <1>1, <1>2, CheckTypes, SendTypes, PollTypes, FlowTypes, ReceiveTypes,
     LoseTypes DEF Next, LinkInv
<1>3. CASE UNCHANGED vars
  <2>1. UNCHANGED <<callers, sender, receiver, fwd, back, messages>>
    BY <1>3 DEF vars, history
  <2>2. Numbers' = Numbers /\ Numbers \subseteq Numbers'
    BY <2>1, SamePieces
  <2>3. BufferType' /\ CounterType'
    BY <2>1, <2>2 DEF LinkInv, BufferType, CounterType, Used, callers, sender
  <2>4. BusType' /\ ReceiverType'
    BY <2>1, <2>2, BusKept, ReceiverKept DEF LinkInv
  <2> QED
    BY <1>1, <2>3, <2>4 DEF LinkInv
<1> QED
  BY <1>2, <1>3

(* With one caller both ends keep within their types and buffers, for every  *)
(* size of buffer and message, whatever is lost and however a foreign ECU    *)
(* answers: neither reads or writes behind the end of a message.             *)
THEOREM LinksTyped == ASSUME OneCaller PROVE Spec => []TypeOK
<1>1. LinkInv /\ [Next]_vars => LinkInv'
  BY LinkStep
<1>2. LinkInv => TypeOK
  BY DEF LinkInv, SenderInv, SenderTypeOK, ProgressInv, BufferType, CounterType,
         ReceiverType, TypeOK
<1> QED
  BY InitLink, <1>1, <1>2, PTL DEF Spec

-----------------------------------------------------------------------------
(* IsoTp implements IsoTpTransfer: one caller, isotp.c at the other end or   *)
(* an ECU that does not say WAIT, and blocks of at most one cycle of         *)
(* sequence numbers, so that a gap is seen whatever is lost.                 *)

OneCycle == MaxWaits = 0 /\ BlockSizes \subseteq 1..SnModulus

Inside(p) == \E c \in Caller : at[c] = p
Active    == send_status = "INPROGRESS" \/ Inside("first")
Granted   == IF send_status = "INPROGRESS" THEN send_bs_remain ELSE 0

(* Consecutive frame n of a message begins at Offset(n), and is piece n + 1.  *)
Offset(n) == FfData + CfData * (n - 1)
Index(o)  == (o - FfData) \div CfData + 1
Of(i)     == fwd[i].piece[1]
Ordinal(i) == Index(fwd[i].piece[2])      \* of a consecutive frame
ToSend    == Index(send_offset)           \* the consecutive frame to send next

Reception == receive_status = "INPROGRESS"
Receiving == receive_buffer[1][1]
Taken     == Len(receive_buffer)          \* the consecutive frame to come next
Limit     == Taken + receive_bs_count     \* the first one not granted

(* The sender: a new message is the last one, and its offset and sequence    *)
(* number belong together.                                                   *)
SendingInv ==
  /\ send_buffer = Len(messages)
  /\ Inside("copied") \/ Active => send_buffer \in Numbers /\ send_size = messages[send_buffer]
  /\ Active => /\ ToSend >= 1 /\ send_offset = Offset(ToSend)
               /\ send_sn = ToSend % SnModulus
  /\ Inside("first") => send_offset = FfData

(* Frames under way are those of messages; consecutive ones come first, then *)
(* those that begin messages, rising; a first frame holds the sender up.     *)
FramesInv ==
  \A i \in 1..Len(fwd) :
    IF fwd[i].type = "CF"
    THEN /\ Ordinal(i) >= 1 /\ fwd[i].piece[2] = Offset(Ordinal(i))
         /\ fwd[i].sn = Ordinal(i) % SnModulus
    ELSE fwd[i].size = messages[Of(i)] /\ fwd[i].piece[2] = 0
FirstsInv ==
  \A i \in 1..Len(fwd) :
    IF fwd[i].type = "CF"
    THEN \A j \in 1..(i - 1) : fwd[j].type = "CF"
    ELSE ~MaySend /\ \A j \in 1..(i - 1) : Of(j) < Of(i)
HeldInv ==
  \A i \in 1..Len(fwd) :
    /\ fwd[i].type = "FF" => /\ i = Len(fwd) /\ Active
                             /\ Of(i) = send_buffer /\ send_offset = FfData
    /\ Inside("copied") => Of(i) < send_buffer
OrderInv == FramesInv /\ FirstsInv /\ HeldInv

(* A flow control frame is an answer to the message being sent; nothing else *)
(* is under way.                                                             *)
AnswerInv ==
  /\ ~holding /\ waits = 0
  /\ back # <<>> =>
       /\ Len(back) = 1 /\ fwd = <<>> /\ Active /\ ~MaySend
       /\ Head(back).fs # "WAIT"
       /\ Head(back).fs = "CONTINUE" => /\ Reception /\ Receiving = send_buffer
                                        /\ ToSend = Taken
                                        /\ receive_bs_count = Head(back).bs

(* What was received of a message is its beginning. *)
ReceivedInv ==
  Reception =>
    /\ Taken >= 1 /\ Receiving \in Numbers
    /\ receive_buffer = [i \in 1..Taken |-> <<Receiving, IF i = 1 THEN 0 ELSE Offset(i - 1)>>]
    /\ receive_offset = Offset(Taken) /\ receive_sn = Taken % SnModulus
    /\ receive_size = messages[Receiving] /\ receive_size > SfData
    /\ receive_bs_count \in 1..SnModulus
    /\ Inside("copied") => Receiving < send_buffer
    /\ Active => Receiving <= send_buffer
    /\ MaySend => Receiving = send_buffer

(* During a reception the consecutive frames under way are of its message,   *)
(* not yet taken and granted.  What is not on its way any more is lost.      *)
WindowInv ==
  Reception =>
    /\ \A i \in 1..Len(fwd) :
         IF fwd[i].type = "CF"
         THEN /\ Of(i) = Receiving /\ Taken <= Ordinal(i) /\ Ordinal(i) < Limit
              /\ \A j \in 1..(i - 1) : Ordinal(j) < Ordinal(i)
              /\ IF Active /\ send_buffer = Receiving
                   THEN Ordinal(i) < ToSend
                   ELSE Count(messages[Receiving]) <= Limit
         ELSE Receiving < Of(i)
    /\ Active /\ send_buffer = Receiving => Taken <= ToSend /\ ToSend + Granted <= Limit

(* What was delivered are messages, rising, before all that is to come.      *)
Delivered(i) == delivered[i].data[1][1]
DeliveredInv ==
  \A i \in 1..Len(delivered) :
    /\ Delivered(i) \in Numbers /\ delivered[i] = Message(Delivered(i))
    /\ \A j \in 1..(i - 1) : Delivered(j) < Delivered(i)
    /\ \A j \in 1..Len(fwd) : fwd[j].type # "CF" => Delivered(i) < Of(j)
    /\ Reception => Delivered(i) < Receiving
    /\ Inside("copied") => Delivered(i) < send_buffer

TransferInv ==
  /\ LinkInv
  /\ SendingInv /\ OrderInv /\ AnswerInv /\ ReceivedInv /\ WindowInv
  /\ DeliveredInv /\ delivered \in Seq([data : Seq(Nat \X Nat), size : Nat])

(* Offsets and sequence numbers. *)
LEMMA IndexOfOffset ==
  ASSUME NEW j \in Int
  PROVE  Offset(j) \in Int /\ Index(Offset(j)) = j
BY DEF Offset, Index, FfData, CfData

LEMMA SnDistinct ==
  ASSUME NEW j \in Nat, NEW k \in Nat, k <= j, j < k + SnModulus,
         j % SnModulus = k % SnModulus
  PROVE  j = k
<1> USE SnAssumption
<1>1. CASE SnModulus \in 2..6
  BY <1>1
<1>2. CASE SnModulus \in 7..11
  BY <1>2
<1>3. CASE SnModulus \in 12..16
  BY <1>3
<1> QED
  BY <1>1, <1>2, <1>3

LEMMA SnNext ==
  ASSUME NEW k \in Nat
  PROVE  ((k % SnModulus) + 1) % SnModulus = (k + 1) % SnModulus
<1> USE SnAssumption
<1>1. CASE SnModulus \in 2..6
  BY <1>1
<1>2. CASE SnModulus \in 7..11
  BY <1>2
<1>3. CASE SnModulus \in 12..16
  BY <1>3
<1> QED
  BY <1>1, <1>2, <1>3

(* A message is complete when its size is reached. *)
LEMMA CountAt ==
  ASSUME NEW n \in Nat, n > SfData, NEW k \in Nat \ {0}, Offset(k) < n
  PROVE  /\ Count(n) \in Nat
         /\ Offset(k + 1) >= n => Count(n) = k + 1
         /\ Offset(k + 1) < n => Count(n) > k + 1
BY DEF Offset, Count, FfData, CfData, SfData

(* Where the one caller is. *)
LEMMA OneInside ==
  ASSUME OneCaller, LinkInv
  PROVE  /\ send_status = "INPROGRESS" => ~Inside("copied") /\ ~Inside("first")
         /\ ~(Inside("copied") /\ Inside("first"))
BY DEF OneCaller, LinkInv, SenderInv, ProgressInv, Inside

LEMMA CallerMoves ==
  ASSUME OneCaller, LinkInv, NEW c \in Caller, NEW p, at' = [at EXCEPT ![c] = p]
  PROVE  \A q : (Inside(q) <=> at[c] = q) /\ (Inside(q)' <=> q = p)
BY DEF OneCaller, LinkInv, SenderInv, SenderTypeOK, Inside

LEMMA PairFacts ==
  ASSUME NEW A, NEW B, NEW p \in A \X B
  PROVE  p[1] \in A /\ p[2] \in B /\ p = <<p[1], p[2]>>
OBVIOUS

LEMMA PieceFacts ==
  ASSUME NEW p \in Pieces
  PROVE  p[1] \in Numbers /\ p[1] \in Nat /\ p[2] \in Int /\ p = <<p[1], p[2]>>
<1> DEFINE Offsets == 0..4095
<1>1. Pieces = Numbers \X Offsets /\ \A x \in Offsets : x \in Int
  BY DEF Pieces
<1>2. \A x \in Numbers : x \in Nat
  BY DEF Numbers
<1> HIDE DEF Offsets
<1>3. p \in Numbers \X Offsets
  BY <1>1
<1>4. p[1] \in Numbers /\ p[2] \in Offsets /\ p = <<p[1], p[2]>>
  BY <1>3, PairFacts, Zenon
<1> QED
  BY <1>1, <1>2, <1>4, Zenon

(* Frames under way belong to messages that were submitted. *)
LEMMA FrameFacts ==
  ASSUME TransferInv
  PROVE  /\ Len(fwd) \in Nat
         /\ \A i \in 1..Len(fwd) :
              /\ (fwd[i].type = "SF" \/ fwd[i].type = "FF" \/ fwd[i].type = "CF")
              /\ Of(i) \in Numbers /\ Of(i) \in Nat
              /\ Ordinal(i) \in Int /\ fwd[i].piece = <<Of(i), fwd[i].piece[2]>>
              /\ fwd[i].type = "SF" => messages[Of(i)] <= SfData
              /\ fwd[i].type = "FF" => messages[Of(i)] > SfData
<1>0. fwd \in Seq(SingleFrames \cup FirstFrames \cup ConsecutiveFrames)
  BY DEF TransferInv, LinkInv, BusType
<1>1. Len(fwd) \in Nat
  BY <1>0
<1>2. ASSUME NEW i \in 1..Len(fwd)
      PROVE  /\ (fwd[i].type = "SF" \/ fwd[i].type = "FF" \/ fwd[i].type = "CF")
             /\ Of(i) \in Numbers /\ Of(i) \in Nat
             /\ Ordinal(i) \in Int /\ fwd[i].piece = <<Of(i), fwd[i].piece[2]>>
             /\ fwd[i].type = "SF" => messages[Of(i)] <= SfData
             /\ fwd[i].type = "FF" => messages[Of(i)] > SfData
  <2>1. fwd[i] \in SingleFrames \cup FirstFrames \cup ConsecutiveFrames
    BY <1>0
  <2>2. /\ fwd[i].piece \in Pieces
        /\ \/ fwd[i].type = "SF" /\ fwd[i].size <= SfData
           \/ fwd[i].type = "FF" /\ fwd[i].size > SfData
           \/ fwd[i].type = "CF"
    <3>1. CASE fwd[i] \in SingleFrames
      BY <3>1 DEF SingleFrames, SfData
    <3>2. CASE fwd[i] \in FirstFrames
      <4> DEFINE Lengths == (SfData + 1)..4095
      <4>1. \A n \in Lengths : n > SfData
        BY DEF SfData
      <4>2. fwd[i] \in [type : {"FF"}, size : Lengths, piece : Pieces]
        BY <3>2 DEF FirstFrames
      <4> HIDE DEF Lengths
      <4>3. fwd[i].type = "FF" /\ fwd[i].size \in Lengths /\ fwd[i].piece \in Pieces
        BY <4>2
      <4> QED
        BY <4>1, <4>3, Zenon
    <3>3. CASE fwd[i] \in ConsecutiveFrames
      BY <3>3 DEF ConsecutiveFrames
    <3> QED
      BY <2>1, <3>1, <3>2, <3>3
  <2>3. /\ Of(i) \in Numbers /\ Of(i) \in Nat /\ fwd[i].piece[2] \in Int
        /\ fwd[i].piece = <<Of(i), fwd[i].piece[2]>>
    BY <2>2, PieceFacts DEF Of
  <2>4. Ordinal(i) \in Int
    BY <2>3 DEF Ordinal, Index, FfData, CfData
  <2>5. fwd[i].type # "CF" => fwd[i].size = messages[Of(i)]
    BY DEF TransferInv, OrderInv, FramesInv
  <2> QED
    BY <2>2, <2>3, <2>4, <2>5
<1> QED
  BY <1>1, <1>2

LEMMA InitTransfer == Init => TransferInv
<1> SUFFICES ASSUME Init PROVE TransferInv
  OBVIOUS
<1>1. LinkInv
  BY InitLink
<1>2. ~Active /\ ~Inside("copied") /\ ~Reception
  BY DEF Init, Active, Inside, Reception
<1>3. fwd = <<>> /\ back = <<>> /\ delivered = <<>> /\ ~holding /\ waits = 0
  BY DEF Init
<1>4. SendingInv
  BY <1>2 DEF Init, SendingInv, Active
<1>5. OrderInv
  BY <1>3 DEF OrderInv, FramesInv, FirstsInv, HeldInv
<1>6. AnswerInv /\ ReceivedInv /\ WindowInv
  BY <1>2, <1>3 DEF AnswerInv, ReceivedInv, WindowInv
<1>7. DeliveredInv
  BY <1>3 DEF DeliveredInv
<1> QED
  BY <1>1, <1>3, <1>4, <1>5, <1>6, <1>7 DEF TransferInv

(* What was submitted stays as it is. *)
LEMMA MessagesGrow ==
  ASSUME LinkInv, NEW n \in Sizes, messages' = Append(messages, n)
  PROVE  /\ Len(messages) \in Nat /\ Len(messages') = Len(messages) + 1
         /\ messages'[Len(messages')] = n /\ Numbers \subseteq Numbers'
         /\ \A m \in Numbers : /\ messages'[m] = messages[m] /\ m < Len(messages')
                               /\ Message(m)' = Message(m)
<1>1. messages \in Seq(Sizes)
  BY DEF LinkInv, BufferType
<1>2. /\ Len(messages) \in Nat /\ Len(messages') = Len(messages) + 1
      /\ messages'[Len(messages')] = n
      /\ \A m \in 1..Len(messages) : messages'[m] = messages[m]
  BY <1>1
<1>3. Numbers \subseteq Numbers' /\ \A m \in Numbers : m < Len(messages')
  BY <1>2 DEF Numbers
<1>4. ASSUME NEW m \in Numbers
      PROVE  Message(m)' = Message(m)
  <2>1. messages'[m] = messages[m]
    BY <1>2 DEF Numbers
  <2> QED
    BY <2>1 DEF Message, Count
<1> QED
  BY <1>2, <1>3, <1>4 DEF Numbers

Kept == /\ SendingInv' /\ OrderInv' /\ AnswerInv' /\ ReceivedInv' /\ WindowInv'
        /\ DeliveredInv' /\ delivered' \in Seq([data : Seq(Nat \X Nat), size : Nat])

(* What was delivered stays before what is under way and to come. *)
LEMMA DeliveredStays ==
  ASSUME TransferInv, delivered' = delivered, NEW d \in {0, 1},
         \A i \in 1..Len(fwd') : fwd'[i] = fwd[i + d] /\ i + d \in 1..Len(fwd),
         Numbers \subseteq Numbers', \A m \in Numbers : Message(m)' = Message(m),
         Inside("copied")' => \/ Inside("copied") /\ send_buffer' = send_buffer
                              \/ \A m \in Numbers : m < send_buffer',
         Reception' => \A i \in 1..Len(delivered) : Delivered(i) < Receiving'
  PROVE  DeliveredInv'
<1>1. \A i \in 1..Len(delivered) : Delivered(i)' = Delivered(i)
  BY DEF Delivered
<1>2. \A i \in 1..Len(fwd') : Of(i)' = Of(i + d)
  BY DEF Of
<1>3. \A i \in 1..Len(delivered) :
        /\ Delivered(i) \in Numbers /\ delivered[i] = Message(Delivered(i))
        /\ \A j \in 1..(i - 1) : Delivered(j) < Delivered(i)
        /\ \A j \in 1..Len(fwd) : fwd[j].type # "CF" => Delivered(i) < Of(j)
        /\ Inside("copied") => Delivered(i) < send_buffer
  BY DEF TransferInv, DeliveredInv
<1>4. \A i \in 1..Len(delivered) : Message(Delivered(i))' = Message(Delivered(i))
  <2>1. \A i \in 1..Len(delivered) :
          \A m \in Numbers : m = Delivered(i) => Message(Delivered(i))' = Message(m)'
    BY DEF Message, Delivered, Count
  <2> QED
    BY <1>3, <2>1
<1> SUFFICES ASSUME NEW i \in 1..Len(delivered)
             PROVE  /\ Delivered(i) \in Numbers /\ delivered[i] = Message(Delivered(i))
                    /\ \A j \in 1..(i - 1) : Delivered(j)' < Delivered(i)
                    /\ \A j \in 1..Len(fwd') : fwd'[j].type # "CF" => Delivered(i) < Of(j)'
                    /\ Reception' => Delivered(i) < Receiving'
                    /\ Inside("copied")' => Delivered(i) < send_buffer'
  BY <1>1, <1>4 DEF DeliveredInv
<1>5. \A j \in 1..(i - 1) : Delivered(j)' = Delivered(j)
  BY DEF Delivered
<1> QED
  BY <1>2, <1>3, <1>5

(* A message is submitted: it is the last one, and nothing is held up.       *)
LEMMA CheckTransfer ==
  ASSUME OneCaller, TransferInv, NEW c \in Caller, CheckAndCopy(c)
  PROVE  Kept
<1>0. PICK n \in Sizes : messages' = Append(messages, n) /\ send_size' = n
  BY DEF CheckAndCopy
<1>1. /\ Len(messages) \in Nat /\ Len(messages') = Len(messages) + 1
      /\ messages'[Len(messages')] = n /\ Numbers \subseteq Numbers'
      /\ Len(messages') \in Numbers'
      /\ \A m \in Numbers : /\ messages'[m] = messages[m] /\ m < Len(messages')
                            /\ Message(m)' = Message(m)
  BY <1>0, MessagesGrow DEF TransferInv, Numbers
<1>2. /\ at[c] = "idle" /\ at' = [at EXCEPT ![c] = "copied"]
      /\ send_status # "INPROGRESS" /\ send_status' = send_status
      /\ send_buffer' = Len(messages') /\ UNCHANGED <<receiver, fwd, back>>
  BY DEF CheckAndCopy
<1>3. /\ ~Active /\ ~Active' /\ Inside("copied")' /\ ~Inside("first")'
      /\ ~MaySend /\ ~MaySend'
  <2>1. /\ Inside("first") <=> at[c] = "first"
        /\ Inside("copied")' <=> "copied" = "copied"
        /\ Inside("first")' <=> "first" = "copied"
    BY <1>2, CallerMoves, Zenon DEF TransferInv
  <2> QED
    BY <1>2, <2>1 DEF Active, MaySend
<1>4. SendingInv'
  BY <1>0, <1>1, <1>2, <1>3 DEF SendingInv
<1>5. OrderInv'
  <2>1. FramesInv'
    BY <1>1, <1>2, FrameFacts DEF TransferInv, OrderInv, FramesInv, Of, Ordinal
  <2>2. FirstsInv'
    BY <1>2, <1>3 DEF TransferInv, OrderInv, FirstsInv, Of
  <2>3. HeldInv'
    BY <1>1, <1>2, <1>3, FrameFacts DEF TransferInv, OrderInv, HeldInv, Of
  <2> QED
    BY <2>1, <2>2, <2>3 DEF OrderInv
<1>6. AnswerInv'
  BY <1>2, <1>3 DEF TransferInv, AnswerInv, receiver
<1>7. ReceivedInv'
  BY <1>1, <1>2, <1>3 DEF TransferInv, ReceivedInv, Reception, Receiving, Taken, receiver
<1>8. WindowInv'
  <2>1. Reception => Receiving \in Numbers /\ Count(messages'[Receiving]) = Count(messages[Receiving])
    BY <1>1 DEF TransferInv, ReceivedInv
  <2> QED
    BY <1>2, <1>3, <2>1 DEF TransferInv, WindowInv, Reception, Receiving, Taken, Limit,
                            Of, Ordinal, receiver
<1>9. DeliveredInv'
  <2>1. delivered' = delivered /\ (Reception' <=> Reception) /\ Receiving' = Receiving
    BY <1>2 DEF receiver, Reception, Receiving
  <2>2. Reception' => \A i \in 1..Len(delivered) : Delivered(i) < Receiving'
    BY <2>1 DEF TransferInv, DeliveredInv
  <2>3. \A i \in 1..Len(fwd') : fwd'[i] = fwd[i + 0] /\ i + 0 \in 1..Len(fwd)
    BY <1>2, FrameFacts
  <2>4. \A m \in Numbers : Message(m)' = Message(m) /\ m < send_buffer'
    BY <1>1, <1>2
  <2> QED
    BY <1>1, <2>1, <2>2, <2>3, <2>4, DeliveredStays
<1>10. delivered' \in Seq([data : Seq(Nat \X Nat), size : Nat])
  BY <1>2 DEF TransferInv, receiver
<1> QED
  BY <1>4, <1>5, <1>6, <1>7, <1>8, <1>9, <1>10 DEF Kept

(* The frame of a new message is put on the bus. *)
LEMMA FrameAdded ==
  ASSUME TransferInv, NEW f, fwd' = Append(fwd, f)
  PROVE  /\ Len(fwd) \in Nat /\ Len(fwd') = Len(fwd) + 1 /\ fwd'[Len(fwd')] = f
         /\ \A i \in 1..Len(fwd) : fwd'[i] = fwd[i] /\ i < Len(fwd')
         /\ \A i \in 1..Len(fwd') : i = Len(fwd') \/ i \in 1..Len(fwd)
<1>1. fwd \in Seq(SingleFrames \cup FirstFrames \cup ConsecutiveFrames)
  BY DEF TransferInv, LinkInv, BusType
<1>2. /\ Len(fwd) \in Nat /\ Len(fwd') = Len(fwd) + 1 /\ fwd'[Len(fwd) + 1] = f
      /\ \A i \in 1..Len(fwd) : fwd'[i] = fwd[i]
  BY <1>1
<1> QED
  BY <1>2

LEMMA NoneUnderWay ==
  ASSUME OneCaller, TransferInv, Inside("copied")
  PROVE  /\ send_status # "INPROGRESS" /\ ~Active /\ ~MaySend /\ back = <<>>
         /\ \A i \in 1..Len(fwd) : fwd[i].type # "FF"
         /\ send_buffer \in Numbers /\ send_buffer = Len(messages)
         /\ send_size = messages[send_buffer]
<1>1. send_status # "INPROGRESS" /\ ~Inside("first")
  BY OneInside DEF TransferInv
<1>2. ~Active /\ ~MaySend
  BY <1>1 DEF Active, MaySend
<1> QED
  BY <1>1, <1>2 DEF TransferInv, AnswerInv, SendingInv, OrderInv, HeldInv

(* A frame that begins a message follows all others. *)
LEMMA BeginTransfer ==
  ASSUME OneCaller, TransferInv, NEW c \in Caller, SendSingleFrame(c) \/ SendFirstFrame(c)
  PROVE  Kept
<1> DEFINE first == send_size > SfData
<1>0. PICK n \in Nat : n = Len(fwd) + 1
  BY FrameFacts
<1>1. /\ at[c] = "copied"
      /\ at' = [at EXCEPT ![c] = IF first THEN "first" ELSE "idle"]
      /\ fwd' = Append(fwd, [type |-> IF first THEN "FF" ELSE "SF", size |-> send_size,
                             piece |-> <<send_buffer, 0>>])
      /\ UNCHANGED <<arg, send_status, send_buffer, send_size, send_bs_remain,
                     receiver, back, messages>>
  <2>0. send_size \in Nat
    BY DEF TransferInv, LinkInv, SenderInv, SenderTypeOK
  <2>1. CASE SendSingleFrame(c)
    <3>1. ~first
      BY <2>0, <2>1 DEF SendSingleFrame, SfData
    <3> QED
      BY <2>1, <3>1 DEF SendSingleFrame, sender, history
  <2>2. CASE SendFirstFrame(c)
    BY <2>2 DEF SendFirstFrame, history
  <2> QED
    BY <2>1, <2>2
<1>2. first => send_offset' = FfData /\ send_sn' = 1
  <2>1. ~SendSingleFrame(c) \/ ~first
    BY DEF SendSingleFrame, SfData, TransferInv, LinkInv, SenderInv, SenderTypeOK
  <2>2. at[c] = "copied" => send_offset = 0
    BY DEF TransferInv, LinkInv, SenderInv, CallerInv
  <2> QED
    BY <1>1, <2>1, <2>2 DEF SendFirstFrame, FfData
<1>3. /\ Inside("copied") /\ ~Inside("copied")'
      /\ Inside("first")' <=> first
  <2>1. /\ Inside("copied") <=> at[c] = "copied"
        /\ Inside("copied")' <=> "copied" = (IF first THEN "first" ELSE "idle")
        /\ Inside("first")' <=> "first" = (IF first THEN "first" ELSE "idle")
    BY <1>1, CallerMoves, Zenon DEF TransferInv
  <2> QED
    BY <1>1, <2>1
<1>4. /\ send_status # "INPROGRESS" /\ ~Active /\ ~MaySend /\ back = <<>>
      /\ \A i \in 1..Len(fwd) : fwd[i].type # "FF"
      /\ send_buffer \in Numbers /\ send_buffer = Len(messages)
      /\ send_size = messages[send_buffer]
  BY <1>3, NoneUnderWay
<1>5. (Active' <=> first) /\ ~MaySend'
  BY <1>1, <1>3, <1>4 DEF Active, MaySend
<1>6. /\ Len(fwd) \in Nat /\ n = Len(fwd) + 1 /\ n = Len(fwd')
      /\ fwd'[n].type # "CF" /\ (fwd'[n].type = "FF" <=> first)
      /\ fwd'[n].size = messages[send_buffer]
      /\ fwd'[n].piece = <<send_buffer, 0>>
      /\ \A i \in 1..Len(fwd) : fwd'[i] = fwd[i] /\ i < n
      /\ \A i \in 1..n : i = n \/ i \in 1..Len(fwd)
  BY <1>0, <1>1, <1>4, FrameAdded
<1> HIDE DEF first
<1>7. Of(n)' = send_buffer /\ \A i \in 1..Len(fwd) : Of(i)' = Of(i) /\ Ordinal(i)' = Ordinal(i)
  BY <1>6 DEF Of, Ordinal
<1>8. Numbers' = Numbers /\ \A i \in 1..Len(fwd) : Of(i) \in Nat /\ Of(i) < send_buffer
  BY <1>1, <1>3, FrameFacts DEF TransferInv, OrderInv, HeldInv, Numbers
<1>9. SendingInv'
  <2>1. Index(FfData) = 1 /\ Offset(1) = FfData /\ 1 % SnModulus = 1
    BY SnAssumption DEF Index, Offset, FfData, CfData
  <2> QED
    BY <1>1, <1>2, <1>3, <1>4, <1>5, <1>8, <2>1 DEF SendingInv, ToSend
<1>10. OrderInv'
  <2>1. FramesInv'
    BY <1>1, <1>6, <1>7 DEF TransferInv, OrderInv, FramesInv
  <2>2. FirstsInv'
    <3> SUFFICES ASSUME NEW i \in 1..n
                 PROVE  IF fwd'[i].type = "CF" THEN \A j \in 1..(i - 1) : fwd'[j].type = "CF"
                        ELSE \A j \in 1..(i - 1) : Of(j)' < Of(i)'
      BY <1>5, <1>6 DEF FirstsInv
    <3>1. \A j \in 1..(i - 1) : j \in 1..Len(fwd)
      BY <1>6
    <3>2. CASE i = n
      BY <1>6, <1>7, <1>8, <3>1, <3>2
    <3>3. CASE i \in 1..Len(fwd)
      BY <1>6, <1>7, <3>1, <3>3 DEF TransferInv, OrderInv, FirstsInv
    <3> QED
      BY <1>6, <3>2, <3>3
  <2>3. HeldInv'
    <3> SUFFICES ASSUME NEW i \in 1..n, fwd'[i].type = "FF"
                 PROVE  i = n /\ Active' /\ Of(i)' = send_buffer' /\ send_offset' = FfData
      BY <1>3, <1>6 DEF HeldInv
    <3>1. i = n
      BY <1>4, <1>6
    <3> QED
      BY <1>1, <1>2, <1>5, <1>6, <1>7, <3>1
  <2> QED
    BY <2>1, <2>2, <2>3 DEF OrderInv
<1>11. AnswerInv'
  BY <1>1, <1>4 DEF TransferInv, AnswerInv, receiver
<1>12. Reception => Receiving \in Nat /\ Receiving < send_buffer
  BY <1>3 DEF TransferInv, ReceivedInv, Numbers
<1>13. ReceivedInv'
  <2>1. Reception' <=> Reception
    BY <1>1 DEF Reception, receiver
  <2>2. Reception => /\ Taken' = Taken /\ Receiving' = Receiving /\ receive_buffer' = receive_buffer
                     /\ UNCHANGED <<receive_offset, receive_sn, receive_size, receive_bs_count>>
    BY <1>1 DEF Taken, Receiving, receiver
  <2>3. send_buffer \in Nat /\ send_buffer' = send_buffer
    BY <1>1, <1>4 DEF Numbers
  <2> QED
    BY <1>1, <1>3, <1>5, <1>8, <1>12, <2>1, <2>2, <2>3 DEF TransferInv, ReceivedInv
<1>14. WindowInv'
  <2> SUFFICES ASSUME Reception PROVE WindowInv'
    BY <1>1 DEF WindowInv, Reception, receiver
  <2>1. /\ Taken' = Taken /\ Receiving' = Receiving /\ Limit' = Limit
        /\ Count(messages'[Receiving']) = Count(messages[Receiving])
        /\ send_buffer' = send_buffer /\ Receiving # send_buffer
    BY <1>1, <1>4, <1>12 DEF Taken, Receiving, Limit, receiver, Numbers
  <2>2. ASSUME NEW i \in 1..Len(fwd), fwd[i].type = "CF"
        PROVE  /\ Of(i) = Receiving /\ Taken <= Ordinal(i) /\ Ordinal(i) < Limit
               /\ \A j \in 1..(i - 1) : Ordinal(j) < Ordinal(i)
               /\ Count(messages[Receiving]) <= Limit
    BY <1>4, <2>2 DEF TransferInv, WindowInv
  <2>3. ASSUME NEW i \in 1..Len(fwd), fwd[i].type # "CF"
        PROVE  Receiving < Of(i)
    BY <2>3 DEF TransferInv, WindowInv
  <2>4. ASSUME NEW i \in 1..n
        PROVE  IF fwd'[i].type = "CF"
               THEN /\ Of(i)' = Receiving /\ Taken <= Ordinal(i)' /\ Ordinal(i)' < Limit
                    /\ \A j \in 1..(i - 1) : Ordinal(j)' < Ordinal(i)'
                    /\ Count(messages[Receiving]) <= Limit
               ELSE Receiving < Of(i)'
    <3>1. \A j \in 1..(i - 1) : j \in 1..Len(fwd)
      BY <1>6
    <3>2. CASE i = n
      BY <1>6, <1>7, <1>12, <3>2
    <3>3. CASE i \in 1..Len(fwd)
      BY <1>6, <1>7, <2>2, <2>3, <3>1, <3>3
    <3> QED
      BY <1>6, <3>2, <3>3
  <2> QED
    BY <1>6, <2>1, <2>4 DEF WindowInv
<1>15. DeliveredInv'
  <2>1. UNCHANGED <<delivered, Reception, Receiving>>
    BY <1>1 DEF Reception, Receiving, receiver
  <2>2. \A i \in 1..Len(delivered) : Message(Delivered(i))' = Message(Delivered(i))
    BY <1>1, <2>1 DEF Message, Delivered
  <2> SUFFICES ASSUME NEW i \in 1..Len(delivered), NEW j \in 1..n, fwd'[j].type # "CF"
               PROVE  Delivered(i) < Of(j)'
    BY <1>3, <1>6, <1>8, <2>1, <2>2 DEF TransferInv, DeliveredInv, Delivered
  <2>3. CASE j = n
    BY <1>3, <1>7, <2>3 DEF TransferInv, DeliveredInv
  <2>4. CASE j \in 1..Len(fwd)
    BY <1>6, <1>7, <2>4 DEF TransferInv, DeliveredInv
  <2> QED
    BY <1>6, <2>3, <2>4
<1> QED
  BY <1>1, <1>9, <1>10, <1>11, <1>13, <1>14, <1>15 DEF Kept, TransferInv, receiver

(* A step that leaves alone what is under way, what was received and what    *)
(* is being sent.                                                            *)
LEMMA StillTransfer ==
  ASSUME TransferInv,
         UNCHANGED <<receiver, fwd, back, messages, send_buffer, send_size, send_offset,
                     send_sn, Granted>>,
         Active' <=> Active, MaySend' <=> MaySend,
         Inside("copied")' <=> Inside("copied"), Inside("first")' => Inside("first")
  PROVE  Kept
<1>0. UNCHANGED <<receive_status, receive_buffer, receive_size, receive_offset,
                  receive_sn, receive_bs_count, holding, delivered, waits>>
  BY DEF receiver
<1>1. SendingInv'
  BY <1>0 DEF TransferInv, SendingInv, Numbers, ToSend
<1>2. OrderInv'
  BY DEF TransferInv, OrderInv, FramesInv, FirstsInv, HeldInv, Of, Ordinal
<1>3. AnswerInv'
  BY <1>0 DEF TransferInv, AnswerInv, Reception, Receiving, Taken, ToSend
<1>4. ReceivedInv'
  BY <1>0 DEF TransferInv, ReceivedInv, Reception, Receiving, Taken, Numbers
<1>5. WindowInv'
  BY <1>0 DEF TransferInv, WindowInv, Reception, Receiving, Taken, Limit, ToSend,
             Of, Ordinal, Count
<1>6. DeliveredInv' /\ delivered' \in Seq([data : Seq(Nat \X Nat), size : Nat])
  <2>1. Numbers' = Numbers /\ \A m \in Numbers : Message(m)' = Message(m)
    BY DEF Numbers, Message, Count
  <2>2. Reception' => \A i \in 1..Len(delivered) : Delivered(i) < Receiving'
    BY <1>0 DEF Reception, Receiving, TransferInv, DeliveredInv
  <2>3. \A i \in 1..Len(fwd') : fwd'[i] = fwd[i + 0] /\ i + 0 \in 1..Len(fwd)
    BY FrameFacts
  <2>4. DeliveredInv'
    BY <1>0, <2>1, <2>2, <2>3, DeliveredStays
  <2> QED
    BY <1>0, <2>4 DEF TransferInv
<1> QED
  BY <1>1, <1>2, <1>3, <1>4, <1>5, <1>6 DEF Kept

(* A step of the sender when nothing is under way any more. *)
LEMMA QuietTransfer ==
  ASSUME TransferInv, fwd' = <<>>, back' = <<>>,
         UNCHANGED <<callers, receiver, messages, send_buffer, send_size, send_offset, send_sn>>,
         Active' => Active,
         Reception /\ MaySend' => Receiving = send_buffer,
         Reception /\ Active' /\ Receiving = send_buffer
           => Taken <= ToSend /\ ToSend + Granted' <= Limit
  PROVE  Kept
<1>0. /\ UNCHANGED <<receive_status, receive_buffer, receive_size, receive_offset,
                     receive_sn, receive_bs_count, holding, delivered, waits>>
      /\ (Inside("copied")' <=> Inside("copied")) /\ (Inside("first")' <=> Inside("first"))
  BY DEF receiver, callers, Inside
<1>a. /\ (Reception' <=> Reception) /\ Receiving' = Receiving /\ Taken' = Taken
      /\ Limit' = Limit /\ ToSend' = ToSend /\ Numbers' = Numbers
  BY <1>0 DEF Reception, Receiving, Taken, Limit, ToSend, Numbers
<1>1. SendingInv'
  BY <1>0, <1>a DEF TransferInv, SendingInv
<1>2. OrderInv'
  BY DEF OrderInv, FramesInv, FirstsInv, HeldInv
<1>3. AnswerInv'
  BY <1>0 DEF TransferInv, AnswerInv
<1>4. ReceivedInv'
  BY <1>0, <1>a DEF TransferInv, ReceivedInv
<1>5. WindowInv'
  BY <1>0, <1>a DEF WindowInv
<1>6. DeliveredInv' /\ delivered' \in Seq([data : Seq(Nat \X Nat), size : Nat])
  <2>1. \A i \in 1..Len(delivered) : Message(Delivered(i))' = Message(Delivered(i))
    BY <1>0 DEF Message, Delivered, Count
  <2>2. DeliveredInv'
    BY <1>0, <1>a, <2>1 DEF TransferInv, DeliveredInv, Delivered
  <2> QED
    BY <1>0, <2>2 DEF TransferInv
<1> QED
  BY <1>1, <1>2, <1>3, <1>4, <1>5, <1>6 DEF Kept

(* The first frame is on the bus, and the sender waits for its answer. *)
LEMMA ProgressTransfer ==
  ASSUME OneCaller, TransferInv, NEW c \in Caller, SetInProgress(c)
  PROVE  Kept
<1>1. /\ at[c] = "first" /\ at' = [at EXCEPT ![c] = "idle"]
      /\ send_bs_remain' = 0 /\ send_status' = "INPROGRESS"
      /\ UNCHANGED <<receiver, fwd, back, messages, send_buffer, send_size,
                     send_offset, send_sn>>
  BY DEF SetInProgress, history
<1>2. /\ Inside("first") <=> at[c] = "first"
      /\ Inside("copied") <=> at[c] = "copied"
      /\ Inside("copied")' <=> "copied" = "idle"
      /\ Inside("first")' <=> "first" = "idle"
  BY <1>1, CallerMoves, Zenon DEF TransferInv
<1>3. send_status # "INPROGRESS"
  BY <1>1 DEF TransferInv, LinkInv, SenderInv, CallerInv
<1>4. /\ (Active' <=> Active) /\ (MaySend' <=> MaySend) /\ Granted' = Granted
      /\ (Inside("copied")' <=> Inside("copied")) /\ ~Inside("first")'
  BY <1>1, <1>2, <1>3 DEF Active, MaySend, Granted
<1> QED
  BY <1>1, <1>4, StillTransfer

(* isotp_poll: a timer of the sender. *)
LEMMA GivesUpTransfer ==
  ASSUME OneCaller, TransferInv, SendTimeout
  PROVE  Kept
<1>1. /\ fwd' = <<>> /\ back' = <<>> /\ send_status' = "ERROR"
      /\ UNCHANGED <<callers, receiver, messages, send_buffer, send_size, send_offset, send_sn>>
  BY DEF SendTimeout, Silent, Fail
<1>2. ~Active' /\ ~MaySend'
  <2>1. ~Inside("first")
    BY OneInside DEF SendTimeout, TransferInv
  <2> QED
    BY <1>1, <2>1 DEF Active, MaySend, Inside, callers
<1> QED
  BY <1>1, <1>2, QuietTransfer

(* A flow control frame arrives. *)
LEMMA FlowTransfer ==
  ASSUME OneCaller, OneCycle, TransferInv, SenderOnCanMessage
  PROVE  Kept
<1>1. PICK fs \in {"CONTINUE", "WAIT", "OVERFLOW"} : FlowControl(fs)
  BY DEF SenderOnCanMessage, IgnoreFlowControl, ReceiverOverflow, ReceiverWaits, PermitSend
<1>2. /\ back # <<>> /\ back' = Tail(back) /\ Head(back).fs = fs
      /\ UNCHANGED <<callers, send_buffer, send_size, send_offset, send_sn, receiver, fwd,
                     messages>>
  BY <1>1 DEF FlowControl
<1>3. /\ fwd = <<>> /\ Active /\ ~MaySend /\ fs # "WAIT"
      /\ Len(back) = 1
      /\ fs = "CONTINUE" => /\ Reception /\ Receiving = send_buffer /\ ToSend = Taken
                            /\ receive_bs_count = Head(back).bs
  BY <1>2 DEF TransferInv, AnswerInv
<1>4. fwd' = <<>> /\ back' = <<>>
  <2>1. back \in Seq(FlowControls)
    BY DEF TransferInv, LinkInv, BusType
  <2> QED
    BY <1>2, <1>3, <2>1
<1>5. Inside("first")' <=> Inside("first")
  BY <1>2 DEF Inside, callers
<1>6. CASE IgnoreFlowControl
  <2>1. send_status # "INPROGRESS" /\ UNCHANGED <<send_status, send_bs_remain>>
    BY <1>6 DEF IgnoreFlowControl
  <2>2. (Active' <=> Active) /\ ~MaySend' /\ Granted' = Granted
    BY <1>5, <2>1 DEF Active, MaySend, Granted
  <2>3. Reception /\ Receiving = send_buffer => Taken <= ToSend /\ ToSend + Granted <= Limit
    BY <1>3 DEF TransferInv, WindowInv
  <2> QED
    BY <1>2, <1>4, <2>2, <2>3, QuietTransfer
<1>7. CASE ReceiverOverflow
  <2>1. send_status = "INPROGRESS" /\ send_status' = "ERROR"
    BY <1>7 DEF ReceiverOverflow, Fail
  <2>2. ~Active' /\ ~MaySend'
    BY <1>5, <2>1, OneInside DEF Active, MaySend, TransferInv
  <2> QED
    BY <1>2, <1>4, <2>2, QuietTransfer
<1>8. CASE PermitSend
  <2>1. /\ send_status = "INPROGRESS" /\ send_status' = send_status
        /\ fs = "CONTINUE"
        /\ send_bs_remain' = IF Head(back).bs = 0 THEN ISOTP_INVALID_BS ELSE Head(back).bs
    BY <1>2, <1>8 DEF PermitSend, FlowControl
  <2>2. receive_bs_count \in 1..SnModulus
    BY <1>3, <2>1 DEF TransferInv, ReceivedInv
  <2>3. Granted' = receive_bs_count
    BY <1>3, <2>1, <2>2, SnAssumption DEF Granted
  <2>4. Taken \in Nat
    BY DEF TransferInv, LinkInv, ReceiverType, Taken
  <2>5. Taken <= ToSend /\ ToSend + Granted' <= Limit
    BY <1>3, <2>1, <2>2, <2>3, <2>4, SnAssumption DEF Limit
  <2> QED
    BY <1>2, <1>3, <1>4, <2>1, <2>5, QuietTransfer
<1>9. ~ReceiverWaits
  BY <1>2, <1>3 DEF ReceiverWaits, FlowControl
<1> QED
  BY <1>6, <1>7, <1>8, <1>9 DEF SenderOnCanMessage

(* isotp_poll: a consecutive frame follows those that are on their way.      *)
LEMMA ConsecutiveTransfer ==
  ASSUME OneCaller, TransferInv, SendConsecutiveFrame
  PROVE  Kept
<1>0. PICK n \in Nat : n = Len(fwd) + 1
  BY FrameFacts
<1>1. PICK k \in Int : k = ToSend
  BY DEF ToSend, Index, FfData, CfData, TransferInv, LinkInv, SenderInv, SenderTypeOK
<1>2. /\ MaySend /\ send_status = "INPROGRESS" /\ send_bs_remain # 0
      /\ fwd' = Append(fwd, [type |-> "CF", sn |-> send_sn, piece |-> <<send_buffer, send_offset>>])
      /\ send_offset' = send_offset + Least(CfData, (send_size - send_offset) % 65536)
      /\ send_sn' = (send_sn + 1) % SnModulus
      /\ send_bs_remain' = IF send_bs_remain = ISOTP_INVALID_BS
                             THEN send_bs_remain ELSE send_bs_remain - 1
      /\ send_status' = IF send_offset' >= send_size THEN "IDLE" ELSE send_status
      /\ UNCHANGED <<callers, send_buffer, send_size, receiver, back, messages>>
  BY DEF SendConsecutiveFrame, MaySend, history
<1>3. /\ ~Inside("copied") /\ ~Inside("first")
      /\ ~Inside("copied")' /\ ~Inside("first")'
  <2>1. ~Inside("copied") /\ ~Inside("first")
    BY <1>2, OneInside DEF TransferInv
  <2> QED
    BY <1>2, <2>1 DEF Inside, callers
<1>4. /\ Active /\ send_buffer \in Numbers /\ send_size = messages[send_buffer]
      /\ k >= 1 /\ send_offset = Offset(k) /\ send_sn = k % SnModulus
      /\ send_offset < send_size /\ send_size \in Nat /\ send_size > 7
      /\ send_size <= 4095
      /\ send_bs_remain \in Nat
  <2>1. Active
    BY <1>2 DEF Active
  <2>2. send_size > SfData /\ send_offset < send_size /\ send_size \in 0..4095
    BY <1>2 DEF TransferInv, LinkInv, SenderInv, ProgressInv, SenderTypeOK
  <2>3. send_bs_remain \in Nat
    BY DEF TransferInv, LinkInv, CounterType, ISOTP_INVALID_BS
  <2> QED
    BY <1>1, <2>1, <2>2, <2>3 DEF TransferInv, SendingInv, SfData
<1>5. /\ send_offset' \in Nat
      /\ send_offset' >= send_size => Offset(k + 1) >= send_size
      /\ send_offset' < send_size => send_offset' = Offset(k + 1)
  <2>1. send_offset \in Nat /\ Offset(k + 1) = send_offset + 7
    BY <1>4 DEF Offset, FfData, CfData
  <2>2. PICK r \in Int : r = send_size - send_offset
    BY <1>4, <2>1
  <2>3. r % 65536 = r
    BY <1>4, <2>1, <2>2
  <2>4. send_offset' = send_offset + Least(CfData, r)
    BY <1>2, <2>2, <2>3
  <2> QED
    BY <1>4, <2>1, <2>2, <2>4 DEF Least, CfData
<1>6. Active' <=> ~(send_offset' >= send_size)
  BY <1>2, <1>3 DEF Active
<1>7. Active' => send_offset' = Offset(k + 1) /\ ToSend' = k + 1
  <2>1. send_offset' \in Nat /\ send_size \in Nat
    BY <1>4, <1>5
  <2>2. Active' => send_offset' = Offset(k + 1)
    BY <1>5, <1>6, <2>1
  <2>3. Index(Offset(k + 1)) = k + 1
    BY <1>1, IndexOfOffset
  <2> QED
    BY <2>2, <2>3 DEF ToSend, Index
<1>8. \A i \in 1..Len(fwd) : fwd[i].type = "CF"
  BY <1>2, FrameFacts DEF TransferInv, OrderInv, FirstsInv
<1>9. /\ Len(fwd) \in Nat /\ n = Len(fwd) + 1 /\ n = Len(fwd')
      /\ fwd'[n].type = "CF" /\ fwd'[n].sn = send_sn
      /\ fwd'[n].piece = <<send_buffer, send_offset>>
      /\ \A i \in 1..Len(fwd) : fwd'[i] = fwd[i] /\ i < n
      /\ \A i \in 1..n : fwd'[i].type = "CF" /\ (i = n \/ i \in 1..Len(fwd))
  BY <1>0, <1>2, <1>8, FrameAdded
<1>10. /\ Of(n)' = send_buffer /\ Ordinal(n)' = k
       /\ \A i \in 1..Len(fwd) : Of(i)' = Of(i) /\ Ordinal(i)' = Ordinal(i)
  BY <1>1, <1>9 DEF Of, Ordinal, ToSend, Index
<1>11. Numbers' = Numbers /\ send_buffer' = send_buffer /\ messages' = messages
  BY <1>2 DEF Numbers
<1>12. SendingInv'
  <2>1. send_sn' = (k + 1) % SnModulus
    BY <1>1, <1>2, <1>4, SnNext
  <2> QED
    BY <1>2, <1>3, <1>4, <1>7, <1>11, <2>1 DEF TransferInv, SendingInv
<1>13. OrderInv'
  <2>1. FramesInv'
    <3> SUFFICES ASSUME NEW i \in 1..n
                 PROVE  /\ Ordinal(i)' >= 1 /\ fwd'[i].piece[2] = Offset(Ordinal(i)')
                        /\ fwd'[i].sn = Ordinal(i)' % SnModulus
      BY <1>9 DEF FramesInv, Offset
    <3>1. CASE i = n
      BY <1>4, <1>9, <1>10, <3>1
    <3>2. CASE i \in 1..Len(fwd)
      BY <1>8, <1>9, <1>10, <3>2 DEF TransferInv, OrderInv, FramesInv
    <3> QED
      BY <1>9, <3>1, <3>2
  <2>2. FirstsInv' /\ HeldInv'
    BY <1>3, <1>9 DEF FirstsInv, HeldInv
  <2> QED
    BY <2>1, <2>2 DEF OrderInv
<1>14. AnswerInv'
  BY <1>2 DEF TransferInv, AnswerInv, receiver
<1>15. /\ (Reception' <=> Reception) /\ Receiving' = Receiving /\ Taken' = Taken /\ Limit' = Limit
       /\ receive_buffer' = receive_buffer
       /\ UNCHANGED <<receive_offset, receive_sn, receive_size, receive_bs_count, delivered>>
  BY <1>2 DEF Reception, Receiving, Taken, Limit, receiver
<1>16. ReceivedInv'
  BY <1>2, <1>3, <1>4, <1>11, <1>15 DEF TransferInv, ReceivedInv
<1>17. WindowInv'
  <2> SUFFICES ASSUME Reception PROVE WindowInv'
    BY <1>15 DEF WindowInv
  <2>1. Receiving = send_buffer
    BY <1>2 DEF TransferInv, ReceivedInv
  <2>2. /\ Taken \in Nat /\ receive_bs_count \in 1..16 /\ Limit = Taken + receive_bs_count
    BY SnAssumption DEF TransferInv, ReceivedInv, LinkInv, ReceiverType, Taken, Limit
  <2>3. Taken <= k /\ k + send_bs_remain <= Limit
    BY <1>1, <1>2, <1>4, <2>1 DEF TransferInv, WindowInv, Granted
  <2>4. Active' => k + 1 + Granted' <= Limit
    BY <1>2, <1>4, <1>6, <2>2, <2>3 DEF Granted, ISOTP_INVALID_BS
  <2>5. ~Active' => Count(messages[Receiving]) <= Limit
    <3>1. ~Active' => Offset(k + 1) >= send_size
      BY <1>5, <1>6
    <3>2. Offset(k + 1) >= send_size => Count(send_size) = k + 1
      <4>1. k \in Nat \ {0} /\ send_size \in Nat /\ send_size > SfData /\ Offset(k) < send_size
        BY <1>1, <1>4 DEF SfData
      <4> QED
        BY <4>1, CountAt, Zenon
    <3> QED
      BY <1>1, <1>2, <1>4, <2>1, <2>2, <2>3, <3>1, <3>2
  <2>6. ASSUME NEW i \in 1..Len(fwd)
        PROVE  /\ Of(i) = Receiving /\ Taken <= Ordinal(i) /\ Ordinal(i) < Limit
               /\ \A j \in 1..(i - 1) : Ordinal(j) < Ordinal(i)
               /\ Ordinal(i) < k
    <3>1. IF fwd[i].type = "CF"
          THEN /\ Of(i) = Receiving /\ Taken <= Ordinal(i) /\ Ordinal(i) < Limit
               /\ \A j \in 1..(i - 1) : Ordinal(j) < Ordinal(i)
               /\ IF Active /\ send_buffer = Receiving
                    THEN Ordinal(i) < ToSend
                    ELSE Count(messages[Receiving]) <= Limit
          ELSE Receiving < Of(i)
      BY Zenon DEF TransferInv, WindowInv
    <3> QED
      BY <1>1, <1>4, <1>8, <2>1, <3>1
  <2>7. ASSUME NEW i \in 1..n
        PROVE  /\ Of(i)' = Receiving /\ Taken <= Ordinal(i)' /\ Ordinal(i)' < Limit
               /\ \A j \in 1..(i - 1) : Ordinal(j)' < Ordinal(i)'
               /\ Ordinal(i)' < k + 1
    <3>1. \A j \in 1..(i - 1) : j \in 1..Len(fwd)
      BY <1>9
    <3>2. CASE i = n
      BY <1>1, <1>2, <1>4, <1>9, <1>10, <2>1, <2>2, <2>3, <2>6, <3>1, <3>2
    <3>3. CASE i \in 1..Len(fwd)
      <4>1. Ordinal(i) \in Int
        BY <3>3, FrameFacts
      <4> QED
        BY <1>1, <1>10, <2>6, <3>1, <3>3, <4>1
    <3> QED
      BY <1>9, <3>2, <3>3
  <2> QED
    BY <1>4, <1>7, <1>9, <1>11, <1>15, <2>1, <2>2, <2>3, <2>4, <2>5, <2>7 DEF WindowInv, Count
<1>18. DeliveredInv'
  <2>1. \A i \in 1..Len(delivered) : Message(Delivered(i))' = Message(Delivered(i))
    BY <1>11, <1>15 DEF Message, Delivered, Count
  <2> QED
    BY <1>3, <1>9, <1>11, <1>15, <2>1 DEF TransferInv, DeliveredInv, Delivered
<1> QED
  BY <1>12, <1>13, <1>14, <1>15, <1>16, <1>17, <1>18 DEF Kept, TransferInv

(* At most the first frame leaves the bus. *)
LEMMA FramesLeft ==
  ASSUME TransferInv, fwd' = fwd \/ (fwd # <<>> /\ fwd' = Tail(fwd))
  PROVE  \E d \in {0, 1} :
           /\ fwd' = fwd => d = 0
           /\ fwd' # fwd => d = 1 /\ fwd' = Tail(fwd)
           /\ Len(fwd) \in Nat /\ Len(fwd') = Len(fwd) - d
           /\ \A i \in 1..Len(fwd') : fwd'[i] = fwd[i + d] /\ i + d \in 1..Len(fwd)
<1>1. fwd \in Seq(SingleFrames \cup FirstFrames \cup ConsecutiveFrames) /\ Len(fwd) \in Nat
  BY DEF TransferInv, LinkInv, BusType
<1>2. CASE fwd' = fwd
  BY <1>1, <1>2
<1>3. CASE fwd' # fwd
  <2>1. fwd # <<>> /\ fwd' = Tail(fwd)
    BY <1>3
  <2>2. /\ Len(fwd') = Len(fwd) - 1
        /\ \A i \in 1..Len(fwd') : fwd'[i] = fwd[i + 1] /\ i + 1 \in 1..Len(fwd)
    BY <1>1, <2>1
  <2> QED
    BY <1>1, <1>3, <2>1, <2>2
<1> QED
  BY <1>2, <1>3

(* What is left of the frames under way is in order. *)
LEMMA OrderKept ==
  ASSUME TransferInv, NEW d \in {0, 1}, Len(fwd') = Len(fwd) - d,
         \A i \in 1..Len(fwd') : fwd'[i] = fwd[i + d] /\ i + d \in 1..Len(fwd),
         UNCHANGED <<callers, sender, messages>>
  PROVE  SendingInv' /\ OrderInv'
<1>1. /\ UNCHANGED <<at, send_status, send_buffer, send_size, send_offset, send_sn,
                     send_bs_remain>>
      /\ \A p : Inside(p)' <=> Inside(p)
      /\ (Active' <=> Active) /\ (MaySend' <=> MaySend) /\ ToSend' = ToSend
      /\ Numbers' = Numbers
  BY DEF callers, sender, Inside, Active, MaySend, ToSend, Numbers
<1>2. SendingInv'
  BY <1>1 DEF TransferInv, SendingInv
<1>3. \A i \in 1..Len(fwd') : Of(i)' = Of(i + d) /\ Ordinal(i)' = Ordinal(i + d)
  BY DEF Of, Ordinal
<1>4. FramesInv'
  BY <1>3 DEF TransferInv, OrderInv, FramesInv
<1>5. FirstsInv'
  <2> SUFFICES ASSUME NEW i \in 1..Len(fwd')
               PROVE  IF fwd'[i].type = "CF"
                      THEN \A j \in 1..(i - 1) : fwd'[j].type = "CF"
                      ELSE ~MaySend /\ \A j \in 1..(i - 1) : Of(j)' < Of(i)'
    BY <1>1 DEF FirstsInv
  <2>1. Len(fwd') \in Int /\ Len(fwd) \in Nat
    BY FrameFacts
  <2>2. PICK k \in 1..Len(fwd) : k = i + d
    OBVIOUS
  <2>3. IF fwd[k].type = "CF"
        THEN \A j \in 1..(k - 1) : fwd[j].type = "CF"
        ELSE ~MaySend /\ \A j \in 1..(k - 1) : Of(j) < Of(k)
    BY DEF TransferInv, OrderInv, FirstsInv
  <2>4. \A j \in 1..(i - 1) : j \in 1..Len(fwd') /\ j + d \in 1..(k - 1)
    BY <2>1, <2>2
  <2> QED
    BY <1>3, <2>2, <2>3, <2>4
<1>6. HeldInv'
  <2> SUFFICES ASSUME NEW i \in 1..Len(fwd')
               PROVE  /\ fwd'[i].type = "FF" => /\ i = Len(fwd') /\ Active
                                                /\ Of(i)' = send_buffer /\ send_offset = FfData
                      /\ Inside("copied") => Of(i)' < send_buffer
    BY <1>1 DEF HeldInv
  <2>1. Len(fwd) \in Nat
    BY FrameFacts
  <2>2. /\ fwd[i + d].type = "FF" => /\ i + d = Len(fwd) /\ Active
                                     /\ Of(i + d) = send_buffer /\ send_offset = FfData
        /\ Inside("copied") => Of(i + d) < send_buffer
    BY DEF TransferInv, OrderInv, HeldInv
  <2> QED
    BY <1>3, <2>1, <2>2
<1> QED
  BY <1>2, <1>4, <1>5, <1>6 DEF OrderInv

(* Frames are lost, and a reception may end. *)
LEMMA LessTransfer ==
  ASSUME TransferInv, fwd' = fwd \/ (fwd # <<>> /\ fwd' = Tail(fwd)), back' = <<>>,
         receive_status' = receive_status \/ receive_status' = "IDLE",
         ~holding',
         UNCHANGED <<callers, sender, messages, receive_buffer, receive_size, receive_offset,
                     receive_sn, receive_bs_count, delivered, waits>>
  PROVE  Kept
<1>1. PICK d \in {0, 1} :
        /\ Len(fwd) \in Nat /\ Len(fwd') = Len(fwd) - d
        /\ \A i \in 1..Len(fwd') : fwd'[i] = fwd[i + d] /\ i + d \in 1..Len(fwd)
  BY FramesLeft
<1>2. SendingInv' /\ OrderInv'
  BY <1>1, OrderKept
<1>3. /\ \A p : Inside(p)' <=> Inside(p)
      /\ (Active' <=> Active) /\ (MaySend' <=> MaySend) /\ ToSend' = ToSend
      /\ Granted' = Granted /\ Numbers' = Numbers /\ send_buffer' = send_buffer
      /\ (Reception' => Reception) /\ Receiving' = Receiving /\ Taken' = Taken
      /\ Limit' = Limit
  BY DEF callers, sender, Inside, Active, MaySend, ToSend, Numbers, Granted, Reception,
         Receiving, Taken, Limit
<1>4. \A i \in 1..Len(fwd') : Of(i)' = Of(i + d) /\ Ordinal(i)' = Ordinal(i + d)
  BY <1>1 DEF Of, Ordinal
<1>5. AnswerInv'
  BY DEF TransferInv, AnswerInv
<1>6. ReceivedInv'
  BY <1>3 DEF TransferInv, ReceivedInv
<1>7. WindowInv'
  <2> SUFFICES ASSUME Reception
               PROVE  \A i \in 1..Len(fwd') :
                        IF fwd'[i].type = "CF"
                        THEN /\ Of(i)' = Receiving /\ Taken <= Ordinal(i)' /\ Ordinal(i)' < Limit
                             /\ \A j \in 1..(i - 1) : Ordinal(j)' < Ordinal(i)'
                             /\ IF Active /\ send_buffer = Receiving
                                  THEN Ordinal(i)' < ToSend
                                  ELSE Count(messages[Receiving]) <= Limit
                        ELSE Receiving < Of(i)'
    BY <1>3 DEF TransferInv, WindowInv, Count
  <2> TAKE i \in 1..Len(fwd')
  <2>1. IF fwd[i + d].type = "CF"
        THEN /\ Of(i + d) = Receiving /\ Taken <= Ordinal(i + d) /\ Ordinal(i + d) < Limit
             /\ \A j \in 1..(i + d - 1) : Ordinal(j) < Ordinal(i + d)
             /\ IF Active /\ send_buffer = Receiving
                  THEN Ordinal(i + d) < ToSend
                  ELSE Count(messages[Receiving]) <= Limit
        ELSE Receiving < Of(i + d)
    BY <1>1 DEF TransferInv, WindowInv
  <2>2. \A j \in 1..(i - 1) : j \in 1..Len(fwd') /\ j + d \in 1..(i + d - 1)
    BY <1>1
  <2> QED
    BY <1>1, <1>4, <2>1, <2>2
<1>8. DeliveredInv'
  <2>1. \A m \in Numbers : Message(m)' = Message(m)
    BY DEF Message, Count
  <2>2. Reception' => \A i \in 1..Len(delivered) : Delivered(i) < Receiving'
    BY <1>3 DEF TransferInv, DeliveredInv
  <2> QED
    BY <1>1, <1>3, <2>1, <2>2, DeliveredStays
<1> QED
  BY <1>2, <1>5, <1>6, <1>7, <1>8 DEF Kept, TransferInv

(* What the bus and the receiver drop. *)
LEMMA DropTransfer ==
  ASSUME OneCaller, TransferInv,
         WrongSequenceNumber \/ UnexpectedConsecutiveFrame \/ ReceiveTimeout \/ Lose
  PROVE  Kept
<1>0. ~holding /\ (back # <<>> => Len(back) = 1 /\ fwd = <<>>)
  BY DEF TransferInv, AnswerInv
<1>1. CASE WrongSequenceNumber
  <2>1. /\ fwd # <<>> /\ fwd' = Tail(fwd) /\ back' = back /\ receive_status' = "IDLE" /\ ~holding'
        /\ UNCHANGED <<callers, sender, messages, receive_buffer, receive_size, receive_offset,
                       receive_sn, receive_bs_count, delivered, waits>>
    BY <1>1 DEF WrongSequenceNumber, Receive, history
  <2> QED
    BY <1>0, <2>1, LessTransfer
<1>2. CASE UnexpectedConsecutiveFrame
  <2>1. /\ fwd # <<>> /\ fwd' = Tail(fwd) /\ back' = back /\ holding' = holding
        /\ UNCHANGED <<callers, sender, messages, receive_status, receive_buffer, receive_size,
                       receive_offset, receive_sn, receive_bs_count, delivered, waits>>
    BY <1>2 DEF UnexpectedConsecutiveFrame, Receive, history, receiver
  <2> QED
    BY <1>0, <2>1, LessTransfer
<1>3. CASE ReceiveTimeout
  <2>1. /\ fwd' = fwd /\ back' = <<>> /\ receive_status' = "IDLE" /\ holding' = holding
        /\ UNCHANGED <<callers, sender, messages, receive_buffer, receive_size, receive_offset,
                       receive_sn, receive_bs_count, delivered, waits>>
    BY <1>3 DEF ReceiveTimeout, Silent, history
  <2> QED
    BY <1>0, <2>1, LessTransfer
<1>4. CASE Lose
  <2>1. /\ \/ fwd # <<>> /\ fwd' = Tail(fwd) /\ back' = back
           \/ back # <<>> /\ back' = Tail(back) /\ fwd' = fwd
        /\ holding' = holding
        /\ UNCHANGED <<callers, sender, messages, receive_status, receive_buffer, receive_size,
                       receive_offset, receive_sn, receive_bs_count, delivered, waits>>
    BY <1>4 DEF Lose, receiver
  <2>2. ASSUME back # <<>> PROVE Tail(back) = <<>>
    <3>0. Len(back) = 1
      BY <1>0, <2>2
    <3>1. back \in Seq(FlowControls)
      BY DEF TransferInv, LinkInv, BusType
    <3>2. Tail(back) \in Seq(FlowControls) /\ Len(Tail(back)) = 0
      BY <2>2, <3>0, <3>1, HeadTailProperties
    <3> QED
      BY <3>2, EmptySeq
  <2> QED
    BY <1>0, <2>1, <2>2, LessTransfer
<1> QED
  BY <1>1, <1>2, <1>3, <1>4

(* A frame reaches the receiver: the sender does not notice. *)
LEMMA TakenFrame ==
  ASSUME TransferInv, NEW type, Receive(type)
  PROVE  /\ back = <<>> /\ ~holding /\ waits = 0
         /\ 1 \in 1..Len(fwd) /\ Head(fwd) = fwd[1] /\ fwd[1].type = type
         /\ Len(fwd) \in Nat /\ Len(fwd') = Len(fwd) - 1
         /\ \A i \in 1..Len(fwd') : /\ fwd'[i] = fwd[i + 1] /\ i + 1 \in 1..Len(fwd)
                                    /\ Of(i)' = Of(i + 1) /\ Ordinal(i)' = Ordinal(i + 1)
         /\ SendingInv' /\ OrderInv'
         /\ \A p : Inside(p)' <=> Inside(p)
         /\ (Active' <=> Active) /\ (MaySend' <=> MaySend)
         /\ ToSend' = ToSend /\ Granted' = Granted /\ Numbers' = Numbers
         /\ UNCHANGED <<send_buffer, send_offset, messages>>
         /\ \A m : Message(m)' = Message(m)
<1>1. /\ fwd # <<>> /\ Head(fwd).type = type /\ fwd' = Tail(fwd)
      /\ UNCHANGED <<callers, sender, messages>>
  BY DEF Receive, history
<1>2. back = <<>> /\ ~holding /\ waits = 0
  BY <1>1 DEF TransferInv, AnswerInv
<1>3. fwd \in Seq(SingleFrames \cup FirstFrames \cup ConsecutiveFrames)
  BY DEF TransferInv, LinkInv, BusType
<1>4. /\ 1 \in 1..Len(fwd) /\ Head(fwd) = fwd[1] /\ fwd[1].type = type
      /\ Len(fwd) \in Nat /\ Len(fwd') = Len(fwd) - 1
      /\ \A i \in 1..Len(fwd') : fwd'[i] = fwd[i + 1] /\ i + 1 \in 1..Len(fwd)
  BY <1>1, <1>3
<1>5. SendingInv' /\ OrderInv'
  BY <1>1, <1>4, OrderKept
<1>6. /\ \A p : Inside(p)' <=> Inside(p)
      /\ (Active' <=> Active) /\ (MaySend' <=> MaySend)
      /\ ToSend' = ToSend /\ Granted' = Granted /\ Numbers' = Numbers
      /\ UNCHANGED <<send_buffer, send_offset, messages>>
  BY <1>1 DEF callers, sender, Inside, Active, MaySend, ToSend, Granted, Numbers
<1>7. \A m : Message(m)' = Message(m)
  BY <1>1 DEF Message, Count
<1> QED
  BY <1>2, <1>4, <1>5, <1>6, <1>7 DEF Of, Ordinal

(* A message is handed to the user, and the reception has ended. *)
LEMMA HandedOver ==
  ASSUME TransferInv, NEW type, Receive(type), back' = back, holding' = holding,
         waits' = waits, NEW m \in Numbers,
         Full(Message(m).data, Message(m).size),
         Message(m) \in [data : Seq(Nat \X Nat), size : Nat], Message(m).data[1][1] = m,
         \A i \in 1..Len(delivered) : Delivered(i) < m,
         \A i \in 1..Len(fwd') : fwd'[i].type # "CF" => m < Of(i)',
         Inside("copied") => m < send_buffer
  PROVE  Kept
<1>1. /\ SendingInv' /\ OrderInv' /\ back' = <<>> /\ ~holding' /\ waits' = 0
      /\ \A p : Inside(p)' <=> Inside(p)
      /\ Numbers' = Numbers /\ UNCHANGED <<send_buffer, messages>>
      /\ \A k : Message(k)' = Message(k)
  BY TakenFrame, Zenon
<1>2. AnswerInv'
  BY <1>1 DEF AnswerInv
<1>3. ~Reception'
  BY DEF Full, Reception
<1>4. ReceivedInv' /\ WindowInv'
  BY <1>3 DEF ReceivedInv, WindowInv
<1>5. Message(m) = [data |-> Message(m).data, size |-> Message(m).size]
  BY DEF Message
<1>6. delivered' = Append(delivered, Message(m))
  BY <1>5 DEF Full
<1>7. delivered \in Seq([data : Seq(Nat \X Nat), size : Nat])
  BY DEF TransferInv
<1>8. delivered' \in Seq([data : Seq(Nat \X Nat), size : Nat])
  BY <1>6, <1>7
<1>9. PICK n \in Nat : n = Len(delivered) + 1
  BY <1>7
<1>10. /\ Len(delivered') = n /\ delivered'[n] = Message(m)
       /\ \A i \in 1..n : i = n \/ i \in 1..Len(delivered)
       /\ \A i \in 1..Len(delivered) : delivered'[i] = delivered[i]
  BY <1>6, <1>7, <1>9
<1>11. Delivered(n)' = m /\ \A i \in 1..Len(delivered) : Delivered(i)' = Delivered(i)
  BY <1>10 DEF Delivered
<1>12. DeliveredInv'
  <2> SUFFICES ASSUME NEW i \in 1..n
               PROVE  /\ Delivered(i)' \in Numbers /\ delivered'[i] = Message(Delivered(i)')
                      /\ \A j \in 1..(i - 1) : Delivered(j)' < Delivered(i)'
                      /\ \A j \in 1..Len(fwd') : fwd'[j].type # "CF" => Delivered(i)' < Of(j)'
                      /\ Inside("copied") => Delivered(i)' < send_buffer
    <3>1. \A i \in 1..n : Message(Delivered(i))' = Message(Delivered(i)')
      BY <1>1 DEF Message, Count
    <3> QED
      BY <1>1, <1>3, <1>10, <3>1 DEF DeliveredInv
  <2>0. \A j \in 1..(i - 1) : j \in 1..Len(delivered)
    BY <1>9
  <2>1. CASE i = n
    BY <1>10, <1>11, <2>0, <2>1
  <2>2. CASE i \in 1..Len(delivered)
    <3>1. /\ Delivered(i) \in Numbers /\ delivered[i] = Message(Delivered(i))
          /\ \A j \in 1..(i - 1) : Delivered(j) < Delivered(i)
          /\ \A j \in 1..Len(fwd) : fwd[j].type # "CF" => Delivered(i) < Of(j)
          /\ Inside("copied") => Delivered(i) < send_buffer
      BY <2>2 DEF TransferInv, DeliveredInv
    <3>2. \A j \in 1..Len(fwd') : fwd'[j] = fwd[j + 1] /\ j + 1 \in 1..Len(fwd) /\ Of(j)' = Of(j + 1)
      BY TakenFrame
    <3> QED
      BY <1>10, <1>11, <2>0, <2>2, <3>1, <3>2
  <2> QED
    BY <1>10, <2>1, <2>2
<1> QED
  BY <1>1, <1>2, <1>4, <1>8, <1>12 DEF Kept

(* What was delivered stays before what is to come. *)
LEMMA DeliveredKept ==
  ASSUME TransferInv, NEW type, Receive(type), delivered' = delivered,
         Reception' => \A i \in 1..Len(delivered) : Delivered(i) < Receiving'
  PROVE  DeliveredInv' /\ delivered' \in Seq([data : Seq(Nat \X Nat), size : Nat])
<1>1. /\ \A p : Inside(p)' <=> Inside(p)
      /\ Numbers' = Numbers /\ UNCHANGED send_buffer
      /\ \A k : Message(k)' = Message(k)
      /\ \A j \in 1..Len(fwd') : fwd'[j] = fwd[j + 1] /\ j + 1 \in 1..Len(fwd) /\ Of(j)' = Of(j + 1)
  BY TakenFrame
<1>2. DeliveredInv'
  BY <1>1, DeliveredStays
<1> QED
  BY <1>2 DEF TransferInv

LEMMA MessageTyped ==
  ASSUME LinkInv, NEW m \in Numbers
  PROVE  /\ messages[m] \in Nat /\ messages[m] >= 1 /\ Count(messages[m]) \in Nat \ {0}
         /\ Message(m).data
              = [i \in 1..Count(messages[m]) |-> <<m, IF i = 1 THEN 0 ELSE Offset(i - 1)>>]
         /\ Message(m).size = messages[m]
         /\ Message(m) \in [data : Seq(Nat \X Nat), size : Nat]
         /\ Message(m).data[1][1] = m
<1> DEFINE n == Count(messages[m])
           D == [i \in 1..n |-> <<m, IF i = 1 THEN 0 ELSE Offset(i - 1)>>]
<1>1. m \in Nat /\ messages[m] \in Sizes
  BY DEF LinkInv, BufferType, Numbers
<1>2. messages[m] \in Nat /\ messages[m] >= 1
  <2>1. \A k \in Sizes : k \in Nat /\ k >= 1
    BY SizesAssumption
  <2> QED
    BY <1>1, <2>1, Zenon
<1>3. n \in Nat \ {0}
  BY <1>2 DEF Count, SfData, FfData, CfData
<1> HIDE DEF n
<1>4. Message(m) = [data |-> D, size |-> messages[m]]
  <2>1. \A i \in 1..n : (IF i = 1 THEN 0 ELSE FfData + CfData * (i - 2))
                          = IF i = 1 THEN 0 ELSE Offset(i - 1)
    BY <1>3 DEF Offset, FfData, CfData
  <2>2. [i \in 1..n |-> <<m, IF i = 1 THEN 0 ELSE FfData + CfData * (i - 2)>>] = D
    BY <2>1
  <2> QED
    BY <2>2 DEF Message, n
<1>5. D \in Seq(Nat \X Nat)
  <2>1. \A i \in 1..n : <<m, IF i = 1 THEN 0 ELSE Offset(i - 1)>> \in Nat \X Nat
    BY <1>1, <1>3 DEF Offset, FfData, CfData
  <2> HIDE DEF Nat
  <2> QED
    BY <1>3, <2>1
<1>6. D[1] = <<m, 0>>
  BY <1>3
<1> QED
  BY <1>2, <1>3, <1>4, <1>5, <1>6 DEF n

(* A message of one frame arrives. *)
LEMMA SingleTransfer ==
  ASSUME TransferInv, ReceiveSingleFrame
  PROVE  Kept
<1>1. PICK m \in Numbers : m = Of(1)
  BY TakenFrame, FrameFacts DEF ReceiveSingleFrame
<1>2. /\ 1 \in 1..Len(fwd) /\ Head(fwd) = fwd[1] /\ fwd[1].type = "SF"
      /\ Len(fwd) \in Nat
      /\ \A i \in 1..Len(fwd') : fwd'[i] = fwd[i + 1] /\ i + 1 \in 1..Len(fwd) /\ Of(i)' = Of(i + 1)
  BY TakenFrame DEF ReceiveSingleFrame
<1>3. fwd[1].piece = <<m, 0>> /\ fwd[1].size = messages[m] /\ messages[m] <= SfData
  BY <1>1, <1>2, FrameFacts DEF TransferInv, OrderInv, FramesInv
<1>4. Count(messages[m]) = 1
  BY <1>3 DEF Count
<1>5. /\ Message(m).data = <<fwd[1].piece>> /\ Message(m).size = fwd[1].size
      /\ Message(m) \in [data : Seq(Nat \X Nat), size : Nat] /\ Message(m).data[1][1] = m
  <2>1. Message(m).data = [i \in 1..1 |-> <<m, IF i = 1 THEN 0 ELSE Offset(i - 1)>>]
    BY <1>4, MessageTyped DEF TransferInv
  <2>2. Message(m).data = <<<<m, 0>>>>
    BY <2>1
  <2> QED
    BY <1>3, <2>2, MessageTyped DEF TransferInv
<1>6. /\ Full(Message(m).data, Message(m).size)
      /\ Receive("SF") /\ UNCHANGED <<back, holding, waits>>
  BY <1>2, <1>5 DEF ReceiveSingleFrame, NoAnswer
<1>7. \A i \in 1..Len(delivered) : Delivered(i) < m
  BY <1>1, <1>2 DEF TransferInv, DeliveredInv
<1>8. ASSUME NEW i \in 1..Len(fwd'), fwd'[i].type # "CF"
      PROVE  m < Of(i)'
  <2>1. PICK k \in 1..Len(fwd) : k = i + 1
    BY <1>2
  <2>2. Of(i)' = Of(k) /\ fwd[k].type # "CF"
    BY <1>2, <1>8, <2>1
  <2>3. 1 \in 1..(k - 1)
    BY <2>1
  <2>4. Of(1) < Of(k)
    BY <2>2, <2>3 DEF TransferInv, OrderInv, FirstsInv
  <2> QED
    BY <1>1, <2>2, <2>4
<1>9. Inside("copied") => m < send_buffer
  BY <1>1, <1>2 DEF TransferInv, OrderInv, HeldInv
<1> QED
  BY <1>5, <1>6, <1>7, <1>8, <1>9, HandedOver

(* A first frame is alone under way, and the sender waits for the answer.    *)
LEMMA FirstAlone ==
  ASSUME TransferInv, Receive("FF")
  PROVE  /\ fwd' = <<>> /\ Active /\ ~MaySend /\ Of(1) = send_buffer /\ Of(1) \in Numbers
         /\ ToSend = 1 /\ Granted = 0
         /\ fwd[1].size = messages[Of(1)] /\ messages[Of(1)] > SfData
         /\ fwd[1].piece = <<Of(1), 0>>
<1>1. /\ 1 \in 1..Len(fwd) /\ fwd[1].type = "FF" /\ Len(fwd) \in Nat /\ fwd # <<>>
      /\ Len(fwd') = Len(fwd) - 1
  BY TakenFrame DEF Receive
<1>2. 1 = Len(fwd) /\ Active /\ Of(1) = send_buffer /\ send_offset = FfData
  BY <1>1 DEF TransferInv, OrderInv, HeldInv
<1>3. ~MaySend
  BY <1>1 DEF TransferInv, OrderInv, FirstsInv
<1>4. fwd' = <<>>
  <2>1. /\ fwd \in Seq(SingleFrames \cup FirstFrames \cup ConsecutiveFrames)
        /\ fwd' = Tail(fwd)
    BY DEF TransferInv, LinkInv, BusType, Receive
  <2>2. /\ Tail(fwd) \in Seq(SingleFrames \cup FirstFrames \cup ConsecutiveFrames)
        /\ Len(Tail(fwd)) = 0
    BY <1>1, <1>2, <2>1, HeadTailProperties
  <2> QED
    BY <2>1, <2>2, EmptySeq
<1>5. ToSend = 1
  BY <1>2 DEF ToSend, Index, FfData, CfData
<1>6. Granted = 0
  BY <1>3 DEF MaySend, Granted
<1>7. /\ fwd[1].size = messages[Of(1)] /\ messages[Of(1)] > SfData
      /\ fwd[1].piece = <<Of(1), 0>> /\ Of(1) \in Numbers
  BY <1>1, FrameFacts DEF TransferInv, OrderInv, FramesInv
<1> QED
  BY <1>2, <1>3, <1>4, <1>5, <1>6, <1>7

(* The beginning of a message arrives and is granted a block. *)
LEMMA FirstTransfer ==
  ASSUME OneCycle, TransferInv, ReceiveFirstFrame
  PROVE  Kept
<1>1. /\ Receive("FF") /\ receive_buffer' = <<Head(fwd).piece>>
      /\ receive_size' = Head(fwd).size /\ receive_offset' = FfData /\ receive_sn' = 1
      /\ receive_status' = "INPROGRESS" /\ delivered' = delivered /\ Answer
  BY DEF ReceiveFirstFrame
<1>2. /\ back = <<>> /\ waits = 0 /\ Head(fwd) = fwd[1] /\ 1 \in 1..Len(fwd)
      /\ fwd[1].type = "FF" /\ SendingInv' /\ OrderInv'
      /\ \A p : Inside(p)' <=> Inside(p)
      /\ (Active' <=> Active) /\ (MaySend' <=> MaySend)
      /\ ToSend' = ToSend /\ Granted' = Granted /\ Numbers' = Numbers
      /\ UNCHANGED <<send_buffer, messages>>
  BY <1>1, TakenFrame
<1>3. /\ fwd' = <<>> /\ Active /\ ~MaySend /\ Of(1) = send_buffer /\ Of(1) \in Numbers
      /\ ToSend = 1 /\ Granted = 0
      /\ fwd[1].size = messages[Of(1)] /\ messages[Of(1)] > SfData
      /\ fwd[1].piece = <<Of(1), 0>>
  BY <1>1, FirstAlone
<1>4. PICK bs \in 1..SnModulus : /\ back' = Append(back, [fs |-> "CONTINUE", bs |-> bs])
                                 /\ receive_bs_count' = bs /\ ~holding' /\ waits' = waits
  <2>1. ~Postpone
    BY <1>2 DEF Postpone, OneCycle
  <2> QED
    BY <1>1, <2>1 DEF Answer, Grant, OneCycle
<1>5. /\ Reception' /\ Receiving' = send_buffer /\ Taken' = 1 /\ Limit' = 1 + bs
      /\ receive_buffer' = <<<<send_buffer, 0>>>>
  BY <1>1, <1>2, <1>3, <1>4 DEF Reception, Receiving, Taken, Limit
<1>6. ~Inside("copied")
  BY <1>2, <1>3 DEF TransferInv, OrderInv, HeldInv, Numbers
<1>7. AnswerInv'
  <2>1. back' = <<[fs |-> "CONTINUE", bs |-> bs]>>
    BY <1>2, <1>4
  <2>2. Len(back') = 1 /\ Head(back').fs = "CONTINUE" /\ Head(back').bs = bs
    BY <2>1
  <2> QED
    BY <1>2, <1>3, <1>4, <1>5, <2>2 DEF AnswerInv
<1>8. ReceivedInv'
  <2>1. /\ receive_offset' = Offset(1) /\ receive_sn' = 1 % SnModulus
    BY <1>1, SnAssumption DEF Offset, FfData, CfData
  <2>2. receive_buffer' = [i \in 1..1 |-> <<send_buffer, IF i = 1 THEN 0 ELSE Offset(i - 1)>>]
    BY <1>5
  <2>3. send_buffer \in Nat
    BY <1>3 DEF Numbers
  <2> QED
    BY <1>1, <1>2, <1>3, <1>4, <1>5, <1>6, <2>1, <2>2, <2>3 DEF ReceivedInv
<1>9. WindowInv'
  <2>1. Len(fwd') = 0
    BY <1>3
  <2> QED
    BY <1>2, <1>3, <1>4, <1>5, <2>1 DEF WindowInv
<1>10. \A i \in 1..Len(delivered) : Delivered(i) < send_buffer
  BY <1>2, <1>3 DEF TransferInv, DeliveredInv
<1>11. DeliveredInv' /\ delivered' \in Seq([data : Seq(Nat \X Nat), size : Nat])
  BY <1>1, <1>5, <1>10, DeliveredKept
<1> QED
  BY <1>2, <1>7, <1>8, <1>9, <1>11 DEF Kept

(* A message that is too long is refused. *)
LEMMA RefusedTransfer ==
  ASSUME TransferInv, RefuseFirstFrame
  PROVE  Kept
<1>1. /\ Receive("FF") /\ receive_status' = "IDLE" /\ delivered' = delivered
      /\ back' = Append(back, [fs |-> "OVERFLOW", bs |-> 0]) /\ ~holding' /\ waits' = waits
  BY DEF RefuseFirstFrame
<1>2. /\ back = <<>> /\ waits = 0 /\ SendingInv' /\ OrderInv'
      /\ (Active' <=> Active) /\ (MaySend' <=> MaySend)
  BY <1>1, TakenFrame
<1>3. fwd' = <<>> /\ Active /\ ~MaySend
  BY <1>1, FirstAlone
<1>4. ~Reception'
  BY <1>1 DEF Reception
<1>5. AnswerInv'
  <2>1. back' = <<[fs |-> "OVERFLOW", bs |-> 0]>>
    BY <1>1, <1>2
  <2>2. Len(back') = 1 /\ Head(back').fs = "OVERFLOW"
    BY <2>1
  <2> QED
    BY <1>1, <1>2, <1>3, <2>2 DEF AnswerInv
<1>6. ReceivedInv' /\ WindowInv'
  BY <1>4 DEF ReceivedInv, WindowInv
<1>7. DeliveredInv' /\ delivered' \in Seq([data : Seq(Nat \X Nat), size : Nat])
  BY <1>1, <1>4, DeliveredKept
<1> QED
  BY <1>2, <1>5, <1>6, <1>7 DEF Kept

(* During a reception the next frame is the one the receiver waits for: a    *)
(* sequence number tells it from every other one that can be under way.      *)
LEMMA ExpectedFrame ==
  ASSUME OneCycle, TransferInv, Reception, NEW m \in Numbers, NEW k \in Nat \ {0},
         m = Receiving, k = Taken,
         1 \in 1..Len(fwd), fwd[1].type = "CF", fwd[1].sn = receive_sn
  PROVE  /\ Ordinal(1) = k /\ fwd[1].piece = <<m, Offset(k)>>
         /\ Active /\ send_buffer = m => k + 1 <= ToSend
         /\ ~(Active /\ send_buffer = m) => Count(messages[m]) <= Limit
<1>1. /\ Of(1) = m /\ k <= Ordinal(1) /\ Ordinal(1) < Limit
      /\ IF Active /\ send_buffer = m
           THEN Ordinal(1) < ToSend
           ELSE Count(messages[m]) <= Limit
  BY DEF TransferInv, WindowInv
<1>2. /\ receive_sn = k % SnModulus /\ receive_bs_count \in 1..SnModulus
      /\ Limit = k + receive_bs_count
  BY DEF TransferInv, ReceivedInv, Limit
<1>3. Ordinal(1) \in Int /\ fwd[1].piece = <<Of(1), fwd[1].piece[2]>>
  BY FrameFacts
<1>4. /\ Ordinal(1) >= 1 /\ fwd[1].piece[2] = Offset(Ordinal(1))
      /\ fwd[1].sn = Ordinal(1) % SnModulus
  BY DEF TransferInv, OrderInv, FramesInv
<1>5. Ordinal(1) \in Nat /\ Ordinal(1) < k + SnModulus
  BY <1>1, <1>2, <1>3, <1>4, SnAssumption
<1>6. Ordinal(1) = k
  BY <1>1, <1>2, <1>4, <1>5, SnDistinct
<1>7. ToSend \in Int
  BY DEF ToSend, Index, FfData, CfData, TransferInv, LinkInv, SenderInv, SenderTypeOK
<1> QED
  BY <1>1, <1>3, <1>4, <1>6, <1>7

(* A consecutive frame is taken: the message is complete, or its block is,   *)
(* or the reception goes on.                                                 *)
LEMMA TakenTransfer ==
  ASSUME OneCaller, OneCycle, TransferInv, ReceiveConsecutiveFrame
  PROVE  Kept
<1>1. /\ Receive("CF") /\ receive_status = "INPROGRESS" /\ Head(fwd).sn = receive_sn
      /\ receive_buffer' = Append(receive_buffer, Head(fwd).piece)
      /\ receive_offset' = receive_offset + Least(CfData, receive_size - receive_offset)
      /\ receive_sn' = (receive_sn + 1) % SnModulus /\ receive_size' = receive_size
  BY DEF ReceiveConsecutiveFrame
<1>2. /\ back = <<>> /\ ~holding /\ waits = 0 /\ Head(fwd) = fwd[1] /\ 1 \in 1..Len(fwd)
      /\ Len(fwd) \in Nat /\ Len(fwd') = Len(fwd) - 1
      /\ fwd[1].type = "CF" /\ SendingInv' /\ OrderInv'
      /\ \A i \in 1..Len(fwd') : /\ fwd'[i] = fwd[i + 1] /\ i + 1 \in 1..Len(fwd)
                                 /\ Of(i)' = Of(i + 1) /\ Ordinal(i)' = Ordinal(i + 1)
      /\ \A p : Inside(p)' <=> Inside(p)
      /\ (Active' <=> Active) /\ (MaySend' <=> MaySend)
      /\ ToSend' = ToSend /\ Granted' = Granted /\ Numbers' = Numbers
      /\ UNCHANGED <<send_buffer, messages>>
  BY <1>1, TakenFrame
<1>3. Reception
  BY <1>1 DEF Reception
<1>4. PICK m \in Numbers, k \in Nat \ {0} : m = Receiving /\ k = Taken
  <2>1. Receiving \in Numbers /\ Taken >= 1
    BY <1>3 DEF TransferInv, ReceivedInv
  <2>2. Taken \in Nat
    BY DEF TransferInv, LinkInv, ReceiverType, Taken
  <2> QED
    BY <2>1, <2>2
<1>5. /\ receive_buffer = [i \in 1..k |-> <<m, IF i = 1 THEN 0 ELSE Offset(i - 1)>>]
      /\ receive_offset = Offset(k) /\ receive_sn = k % SnModulus
      /\ receive_size = messages[m] /\ receive_size > SfData
      /\ receive_bs_count \in 1..SnModulus
      /\ Inside("copied") => m < send_buffer
      /\ Active => m <= send_buffer
      /\ MaySend => m = send_buffer
  BY <1>3, <1>4 DEF TransferInv, ReceivedInv
<1>6. /\ Ordinal(1) = k /\ fwd[1].piece = <<m, Offset(k)>>
      /\ Active /\ send_buffer = m => k + 1 <= ToSend
      /\ ~(Active /\ send_buffer = m) => Count(messages[m]) <= Limit
  BY <1>1, <1>2, <1>3, <1>4, ExpectedFrame
<1>7. /\ receive_buffer' = [i \in 1..(k + 1) |-> <<m, IF i = 1 THEN 0 ELSE Offset(i - 1)>>]
      /\ Taken' = k + 1 /\ Receiving' = m
  <2>1. receive_buffer' = Append(receive_buffer, <<m, Offset(k)>>)
    BY <1>1, <1>2, <1>6
  <2>2. receive_buffer \in Seq(Pieces) /\ Len(receive_buffer) = k
    BY <1>4 DEF TransferInv, LinkInv, ReceiverType, Taken
  <2>3. receive_buffer' = [i \in 1..(k + 1) |-> <<m, IF i = 1 THEN 0 ELSE Offset(i - 1)>>]
    <3> DEFINE P(i) == <<m, IF i = 1 THEN 0 ELSE Offset(i - 1)>>
    <3>1. \A i \in 1..k : receive_buffer[i] = P(i)
      BY <1>5
    <3>2. P(k + 1) = <<m, Offset(k)>>
      OBVIOUS
    <3> HIDE DEF P
    <3>3. Append(receive_buffer, P(k + 1)) = [i \in 1..(k + 1) |-> P(i)]
      BY <2>2, <3>1
    <3> QED
      BY <2>1, <3>2, <3>3 DEF P
  <2>4. Len(receive_buffer') = k + 1
    BY <2>1, <2>2
  <2>5. receive_buffer'[1] = <<m, 0>>
    BY <2>3
  <2> QED
    BY <2>3, <2>4, <2>5 DEF Taken, Receiving
<1>8. /\ receive_offset < receive_size /\ receive_size \in Nat /\ receive_offset \in Nat
      /\ Offset(k + 1) = receive_offset + 7
  BY <1>1, <1>4, <1>5 DEF TransferInv, LinkInv, ReceiverType, Offset, FfData, CfData
<1>9. /\ receive_offset' \in Nat
      /\ receive_offset' >= receive_size => Offset(k + 1) >= receive_size
      /\ receive_offset' < receive_size => receive_offset' = Offset(k + 1)
  BY <1>1, <1>8 DEF Least, CfData
<1>10. /\ Count(messages[m]) \in Nat
       /\ receive_offset' >= receive_size => Count(messages[m]) = k + 1
       /\ receive_offset' < receive_size => Count(messages[m]) > k + 1
  <2>1. /\ Count(receive_size) \in Nat
        /\ Offset(k + 1) >= receive_size => Count(receive_size) = k + 1
        /\ Offset(k + 1) < receive_size => Count(receive_size) > k + 1
    BY <1>5, <1>8, CountAt, Zenon
  <2> QED
    BY <1>5, <1>8, <1>9, <2>1
<1>11. \A i \in 1..Len(delivered) : Delivered(i) < m
  BY <1>3, <1>4 DEF TransferInv, DeliveredInv
<1>12. Limit = k + receive_bs_count
  BY <1>4 DEF Limit
<1>13. ASSUME NEW i \in 1..Len(fwd')
       PROVE  IF fwd'[i].type = "CF"
              THEN /\ Of(i)' = m /\ k + 1 <= Ordinal(i)' /\ Ordinal(i)' < Limit
                   /\ \A j \in 1..(i - 1) : Ordinal(j)' < Ordinal(i)'
                   /\ IF Active /\ send_buffer = m
                        THEN Ordinal(i)' < ToSend
                        ELSE Count(messages[m]) <= Limit
              ELSE m < Of(i)'
  <2>1. PICK p \in 1..Len(fwd) : p = i + 1
    BY <1>2
  <2>2. IF fwd[p].type = "CF"
        THEN /\ Of(p) = m /\ k <= Ordinal(p) /\ Ordinal(p) < Limit
             /\ \A j \in 1..(p - 1) : Ordinal(j) < Ordinal(p)
             /\ IF Active /\ send_buffer = m
                  THEN Ordinal(p) < ToSend
                  ELSE Count(messages[m]) <= Limit
        ELSE m < Of(p)
    BY <1>3, <1>4 DEF TransferInv, WindowInv
  <2>3. fwd'[i] = fwd[p] /\ Of(i)' = Of(p) /\ Ordinal(i)' = Ordinal(p) /\ Ordinal(p) \in Int
    BY <1>2, <2>1, FrameFacts
  <2>4. \A j \in 1..(i - 1) : Ordinal(j)' = Ordinal(j + 1) /\ j + 1 \in 1..(p - 1)
    BY <1>2, <2>1
  <2>5. 1 \in 1..(p - 1)
    BY <2>1
  <2>6. fwd[p].type = "CF" => k < Ordinal(p)
    BY <1>6, <2>2, <2>5
  <2>7. fwd[p].type = "CF" => k + 1 <= Ordinal(p)
    BY <2>3, <2>6
  <2> QED
    BY <2>2, <2>3, <2>4, <2>7
<1>14. CASE receive_offset' >= receive_size
  <2>1. Full(receive_buffer', receive_size) /\ NoAnswer
    BY <1>14 DEF ReceiveConsecutiveFrame
  <2>2. receive_buffer' = Message(m).data /\ receive_size = Message(m).size
    BY <1>5, <1>7, <1>10, <1>14, MessageTyped DEF TransferInv
  <2>3. Full(Message(m).data, Message(m).size)
    BY <2>1, <2>2
  <2>4. \A i \in 1..Len(fwd') : fwd'[i].type # "CF" => m < Of(i)'
    BY <1>13
  <2>5. Message(m) \in [data : Seq(Nat \X Nat), size : Nat] /\ Message(m).data[1][1] = m
    BY MessageTyped DEF TransferInv
  <2>6. UNCHANGED <<back, holding, waits>>
    BY <2>1 DEF NoAnswer
  <2> QED
    BY <1>1, <1>5, <1>11, <2>3, <2>4, <2>5, <2>6, HandedOver
<1>15. CASE receive_offset' < receive_size
  <2>1. ~(receive_offset' >= receive_size)
    BY <1>8, <1>9, <1>15
  <2>2. /\ receive_status' = receive_status /\ delivered' = delivered
        /\ IF receive_bs_count = 1
             THEN Answer
             ELSE /\ receive_bs_count' = (receive_bs_count - 1) % 256
                  /\ UNCHANGED <<back, holding, waits>>
    BY <2>1 DEF ReceiveConsecutiveFrame
  <2>3. Reception'
    BY <1>3, <2>2 DEF Reception
  <2>4. DeliveredInv' /\ delivered' \in Seq([data : Seq(Nat \X Nat), size : Nat])
    BY <1>1, <1>7, <1>11, <2>2, DeliveredKept
  <2>5. ASSUME receive_bs_count' \in 1..SnModulus
        PROVE  ReceivedInv'
    <3>1. receive_sn' = (k + 1) % SnModulus
      BY <1>1, <1>5, SnNext
    <3>2. receive_offset' = Offset(k + 1)
      BY <1>9, <1>15
    <3>3. /\ Inside("copied")' => m < send_buffer'
          /\ Active' => m <= send_buffer'
          /\ MaySend' => m = send_buffer'
      BY <1>2, <1>5
    <3>4. /\ k + 1 >= 1 /\ m \in Numbers'
          /\ receive_size' = messages'[m] /\ receive_size' > SfData
      BY <1>1, <1>2, <1>5
    <3> QED
      BY <1>7, <2>5, <3>1, <3>2, <3>3, <3>4, Zenon DEF ReceivedInv
  <2>6. CASE receive_bs_count = 1
    <3>1. Active /\ send_buffer = m
      BY <1>4, <1>6, <1>10, <1>12, <1>15, <2>6
    <3>2. k + 1 <= ToSend /\ ToSend + Granted <= k + 1
      BY <1>3, <1>4, <1>6, <1>12, <2>6, <3>1 DEF TransferInv, WindowInv
    <3>3. ToSend \in Int /\ Granted \in Nat
      <4>1. send_bs_remain \in Nat
        BY DEF TransferInv, LinkInv, CounterType, ISOTP_INVALID_BS
      <4>2. ToSend \in Int
        BY DEF ToSend, Index, FfData, CfData, TransferInv, LinkInv, SenderInv, SenderTypeOK
      <4> QED
        BY <4>1, <4>2 DEF Granted
    <3>4. ToSend = k + 1 /\ Granted = 0
      BY <1>4, <3>2, <3>3
    <3>5. ~MaySend
      BY <3>4 DEF MaySend, Granted
    <3>6. Len(fwd') = 0
      <4> SUFFICES ASSUME Len(fwd') # 0 PROVE FALSE
        OBVIOUS
      <4>1. 1 \in 1..Len(fwd') /\ 2 \in 1..Len(fwd)
        BY <1>2
      <4>2. fwd'[1] = fwd[2] /\ Of(1)' = Of(2) /\ Ordinal(1)' = Ordinal(2)
        BY <1>2, <4>1
      <4>3. Ordinal(2) \in Int /\ Of(2) \in Numbers
        BY <4>1, FrameFacts
      <4>4. CASE fwd[2].type = "CF"
        BY <1>12, <1>13, <2>6, <4>1, <4>2, <4>3, <4>4
      <4>5. CASE fwd[2].type # "CF"
        <5>1. m < Of(2)
          BY <1>13, <4>1, <4>2, <4>5
        <5>2. m = Len(messages)
          BY <3>1 DEF TransferInv, SendingInv
        <5> QED
          BY <4>3, <5>1, <5>2 DEF Numbers
      <4> QED
        BY <4>4, <4>5
    <3>7. fwd' = <<>>
      <4>1. /\ fwd \in Seq(SingleFrames \cup FirstFrames \cup ConsecutiveFrames)
            /\ fwd # <<>> /\ fwd' = Tail(fwd)
        BY <1>1 DEF TransferInv, LinkInv, BusType, Receive
      <4>2. Tail(fwd) \in Seq(SingleFrames \cup FirstFrames \cup ConsecutiveFrames)
        BY <4>1, HeadTailProperties
      <4> QED
        BY <3>6, <4>1, <4>2, EmptySeq
    <3>8. PICK bs \in 1..SnModulus : /\ back' = Append(back, [fs |-> "CONTINUE", bs |-> bs])
                                     /\ receive_bs_count' = bs /\ ~holding' /\ waits' = waits
      <4>1. ~Postpone
        BY <1>2 DEF Postpone, OneCycle
      <4> QED
        BY <2>2, <2>6, <4>1 DEF Answer, Grant, OneCycle
    <3>9. AnswerInv'
      <4>1. back' = <<[fs |-> "CONTINUE", bs |-> bs]>>
        BY <1>2, <3>8
      <4>2. Len(back') = 1 /\ Head(back').fs = "CONTINUE" /\ Head(back').bs = bs
        BY <4>1
      <4> QED
        BY <1>2, <1>7, <2>3, <3>1, <3>4, <3>5, <3>7, <3>8, <4>2 DEF AnswerInv
    <3>10. WindowInv'
      <4>1. Limit' = k + 1 + bs
        BY <1>7, <3>8 DEF Limit, Taken
      <4>2. Taken' <= ToSend' /\ ToSend' + Granted' <= Limit'
        BY <1>2, <1>7, <3>4, <4>1, SnAssumption
      <4> QED
        BY <3>6, <4>2 DEF WindowInv
    <3> QED
      BY <1>2, <2>4, <2>5, <3>8, <3>9, <3>10 DEF Kept
  <2>7. CASE receive_bs_count # 1
    <3>1. receive_bs_count' = receive_bs_count - 1 /\ UNCHANGED <<back, holding, waits>>
      <4>1. receive_bs_count \in Int /\ 2 <= receive_bs_count /\ receive_bs_count <= 16
        BY <1>5, <2>7, SnAssumption
      <4>2. (receive_bs_count - 1) % 256 = receive_bs_count - 1
        BY <4>1
      <4> QED
        BY <2>2, <2>7, <4>2
    <3>2. receive_bs_count' \in 1..SnModulus
      BY <1>5, <2>7, <3>1, SnAssumption
    <3>3. Limit' = Limit
      BY <1>4, <1>5, <1>7, <1>12, <3>1, SnAssumption DEF Limit, Taken
    <3>4. AnswerInv'
      BY <1>2, <3>1 DEF AnswerInv
    <3>5. Active /\ send_buffer = m => k + 1 <= ToSend /\ ToSend + Granted <= Limit
      BY <1>3, <1>4, <1>6 DEF TransferInv, WindowInv
    <3>6. WindowInv'
      BY <1>2, <1>7, <1>13, <3>3, <3>5 DEF WindowInv, Count
    <3> QED
      BY <1>2, <2>4, <2>5, <3>2, <3>4, <3>6 DEF Kept
  <2> QED
    BY <2>6, <2>7
<1> QED
  BY <1>8, <1>9, <1>14, <1>15

LEMMA TransferStep ==
  ASSUME OneCaller, OneCycle, TransferInv, [Next]_vars
  PROVE  TransferInv'
<1>1. LinkInv'
  BY LinkStep DEF TransferInv
<1> SUFFICES Kept
  BY <1>1 DEF Kept, TransferInv
<1>2. ASSUME NEW c \in Caller, CheckAndCopy(c) \/ isotp_send_with_id(c)
      PROVE  Kept
  BY <1>2, CheckTransfer, BeginTransfer, ProgressTransfer DEF isotp_send_with_id
<1>3. CASE isotp_poll
  BY <1>3, ConsecutiveTransfer, GivesUpTransfer, DropTransfer DEF isotp_poll
<1>4. CASE SenderOnCanMessage
  BY <1>4, FlowTransfer
<1>5. CASE ReceiverOnCanMessage
  <2>1. ~AnswerAgain
    BY DEF AnswerAgain, TransferInv, AnswerInv
  <2> QED
    BY <1>5, <2>1, SingleTransfer, FirstTransfer, RefusedTransfer, TakenTransfer, DropTransfer
       DEF ReceiverOnCanMessage
<1>6. CASE Lose
  BY <1>6, DropTransfer
<1>7. CASE UNCHANGED vars
  <2>1. UNCHANGED <<callers, sender, receiver, fwd, back, messages>>
    BY <1>7 DEF vars, history
  <2>2. /\ UNCHANGED <<send_buffer, send_size, send_offset, send_sn, Granted>>
        /\ (Active' <=> Active) /\ (MaySend' <=> MaySend)
        /\ (Inside("copied")' <=> Inside("copied")) /\ (Inside("first")' <=> Inside("first"))
    BY <2>1 DEF callers, sender, Active, MaySend, Granted, Inside
  <2> QED
    BY <2>1, <2>2, StillTransfer
<1> QED
  BY <1>2, <1>3, <1>4, <1>5, <1>6, <1>7 DEF Next

(* What a step does to the users of the link. *)
LEMMA UserSteps ==
  ASSUME TransferInv, [Next]_vars
  PROVE  \/ delivered' = delivered /\ Len(messages') = Len(messages) + 1
         \/ delivered' = delivered /\ messages' = messages
         \/ \E d : delivered' = Append(delivered, d) /\ messages' = messages
<1>1. ASSUME NEW c \in Caller, CheckAndCopy(c)
      PROVE  delivered' = delivered /\ Len(messages') = Len(messages) + 1
  <2>1. messages \in Seq(Sizes)
    BY DEF TransferInv, LinkInv, BufferType
  <2> QED
    BY <1>1, <2>1 DEF CheckAndCopy, receiver
<1>2. ASSUME NEW c \in Caller, isotp_send_with_id(c)
      PROVE  delivered' = delivered /\ messages' = messages
  BY <1>2 DEF isotp_send_with_id, SendSingleFrame, SendFirstFrame, SetInProgress,
              receiver, history
<1>3. CASE isotp_poll \/ SenderOnCanMessage \/ Lose \/ UNCHANGED vars
  BY <1>3 DEF isotp_poll, SendConsecutiveFrame, SendTimeout, ReceiveTimeout,
              SenderOnCanMessage, IgnoreFlowControl, ReceiverOverflow, ReceiverWaits,
              PermitSend, FlowControl, Lose, receiver, history, vars
<1>4. CASE ReceiverOnCanMessage
  <2>1. messages' = messages
    BY <1>4 DEF ReceiverOnCanMessage, Receive, ReceiveSingleFrame, ReceiveFirstFrame,
                RefuseFirstFrame, ReceiveConsecutiveFrame, WrongSequenceNumber,
                UnexpectedConsecutiveFrame, AnswerAgain, history
  <2>2. delivered' = delivered \/ \E d : delivered' = Append(delivered, d)
    BY <1>4 DEF ReceiverOnCanMessage, ReceiveSingleFrame, ReceiveFirstFrame,
                RefuseFirstFrame, ReceiveConsecutiveFrame, WrongSequenceNumber,
                UnexpectedConsecutiveFrame, AnswerAgain, Full, receiver
  <2> QED
    BY <2>1, <2>2
<1> QED
  BY <1>1, <1>2, <1>3, <1>4 DEF Next

(* The numbers of what was delivered, as IsoTpTransfer has them. *)
Arrivals == [i \in 1..Len(delivered) |-> Number(delivered[i])]

LEMMA ArrivalsAre ==
  ASSUME TransferInv
  PROVE  /\ Len(delivered) \in Nat /\ Len(messages) \in Nat
         /\ Len(Arrivals) = Len(delivered) /\ Arrivals \in Seq(Nat)
         /\ \A i \in 1..Len(delivered) :
              /\ Arrivals[i] = Delivered(i) /\ Arrivals[i] \in 1..Len(messages)
              /\ \A j \in 1..(i - 1) : Arrivals[j] < Arrivals[i]
<1>1. Len(delivered) \in Nat /\ Len(messages) \in Nat
  BY DEF TransferInv, LinkInv, BufferType
<1>2. ASSUME NEW i \in 1..Len(delivered)
      PROVE  /\ Number(delivered[i]) = Delivered(i) /\ Delivered(i) \in 1..Len(messages)
             /\ \A j \in 1..(i - 1) : Delivered(j) < Delivered(i)
  <2>1. /\ Delivered(i) \in Numbers /\ delivered[i] = Message(Delivered(i))
        /\ \A j \in 1..(i - 1) : Delivered(j) < Delivered(i)
    BY DEF TransferInv, DeliveredInv
  <2>2. Number(delivered[i]) = Delivered(i)
    BY <2>1 DEF Number, Delivered
  <2> QED
    BY <2>1, <2>2 DEF Numbers
<1>3. \A i \in 1..Len(delivered) : Number(delivered[i]) \in Nat
  BY <1>2
<1>4. Arrivals \in Seq(Nat) /\ Len(Arrivals) = Len(delivered)
  BY <1>1, <1>3 DEF Arrivals
<1> QED
  BY <1>1, <1>2, <1>4 DEF Arrivals

LEMMA StepTransfers ==
  ASSUME TransferInv, TransferInv', [Next]_vars
  PROVE  [Transfer!Next]_Transfer!vars
<1>1. /\ Arrivals \in Seq(Nat) /\ Len(Arrivals) = Len(delivered) /\ Len(delivered) \in Nat
      /\ Len(messages) \in Nat
      /\ \A i \in 1..Len(delivered) : Arrivals[i] = Delivered(i)
  BY ArrivalsAre
<1>2. /\ Arrivals' \in Seq(Nat) /\ Len(Arrivals') = Len(delivered')
      /\ \A i \in 1..Len(delivered') :
           /\ Arrivals'[i] = Delivered(i)' /\ Arrivals'[i] \in 1..Len(messages')
           /\ \A j \in 1..(i - 1) : Arrivals'[j] < Arrivals'[i]
  <2>1. (TransferInv => /\ Arrivals \in Seq(Nat) /\ Len(Arrivals) = Len(delivered)
                        /\ \A i \in 1..Len(delivered) :
                             /\ Arrivals[i] = Delivered(i) /\ Arrivals[i] \in 1..Len(messages)
                             /\ \A j \in 1..(i - 1) : Arrivals[j] < Arrivals[i])'
    BY ArrivalsAre, PTL
  <2> QED
    BY <2>1
<1>3. ASSUME delivered' = delivered
      PROVE  Arrivals' = Arrivals
  <2>1. \A i \in 1..Len(delivered) : Delivered(i)' = Delivered(i)
    BY <1>3 DEF Delivered
  <2> DEFINE n == Len(delivered)
  <2>2. n = Len(delivered') /\ \A i \in 1..n : Arrivals'[i] = Arrivals[i]
    BY <1>1, <1>2, <1>3, <2>1
  <2>3. /\ Arrivals \in Seq(Nat) /\ Len(Arrivals) = n
        /\ Arrivals' \in Seq(Nat) /\ Len(Arrivals') = n
    BY <1>1, <1>2, <2>2
  <2> HIDE DEF n
  <2> QED
    BY <2>2, <2>3
<1>4. CASE delivered' = delivered /\ Len(messages') = Len(messages) + 1
  BY <1>3, <1>4 DEF Transfer!Next, Transfer!Submit, Arrivals
<1>5. CASE delivered' = delivered /\ messages' = messages
  BY <1>3, <1>5 DEF Transfer!vars, Arrivals
<1>6. CASE \E d : delivered' = Append(delivered, d) /\ messages' = messages
  <2> DEFINE n == Len(delivered) + 1
             m == Arrivals'[n]
  <2>1. PICK d : delivered' = Append(delivered, d) /\ messages' = messages
    BY <1>6
  <2>2. /\ n \in Nat /\ Len(delivered') = n
        /\ \A i \in 1..Len(delivered) : delivered'[i] = delivered[i]
    BY <1>1, <2>1 DEF TransferInv
  <2>3. \A i \in 1..Len(delivered) : Arrivals'[i] = Arrivals[i]
    <3>1. \A i \in 1..Len(delivered) : Delivered(i)' = Delivered(i)
      BY <2>2 DEF Delivered
    <3> QED
      BY <1>1, <1>2, <2>2, <3>1
  <2>4. Arrivals' = Append(Arrivals, m)
    BY <1>1, <1>2, <2>2, <2>3
  <2>5. m \in 1..Len(messages) /\ \A i \in 1..Len(delivered) : Arrivals[i] < m
    <3>1. n \in 1..Len(delivered') /\ \A i \in 1..Len(delivered) : i \in 1..(n - 1)
      BY <1>1, <2>2
    <3> HIDE DEF n
    <3>2. m \in 1..Len(messages') /\ \A i \in 1..(n - 1) : Arrivals'[i] < m
      BY <1>2, <3>1
    <3> QED
      BY <2>1, <2>3, <3>1, <3>2
  <2>6. Transfer!Last \in Nat /\ Transfer!Last < m
    <3>1. CASE Arrivals = <<>>
      BY <2>5, <3>1 DEF Transfer!Last, Arrivals
    <3>2. CASE Arrivals # <<>>
      <4>1. Len(Arrivals) \in 1..Len(delivered)
        BY <1>1, <3>2, EmptySeq
      <4>2. Transfer!Last = Arrivals[Len(Arrivals)]
        BY <3>2 DEF Transfer!Last, Arrivals
      <4> QED
        BY <1>1, <2>5, <4>1, <4>2
    <3> QED
      BY <3>1, <3>2
  <2>7. m \in (Transfer!Last + 1)..Len(messages)
    BY <2>5, <2>6
  <2>8. Transfer!Deliver
    BY <2>1, <2>4, <2>7 DEF Transfer!Deliver, Arrivals
  <2> QED
    BY <2>8 DEF Transfer!Next
<1> QED
  BY <1>4, <1>5, <1>6, UserSteps

LEMMA InitTransfers == Init => Transfer!Init
BY DEF Init, Transfer!Init

(* With one caller at a time and blocks of at most one cycle of sequence     *)
(* numbers, whatever frames the bus loses, whatever timers expire and        *)
(* whatever is refused, a message arrives whole, in the order of the calls   *)
(* and once, or not at all.                                                  *)
THEOREM TransferImplemented ==
  ASSUME OneCaller, OneCycle
  PROVE  Spec => ImplementsTransfer
<1>1. TransferInv /\ [Next]_vars => TransferInv'
  BY TransferStep
<1>2. TransferInv /\ TransferInv' /\ [Next]_vars => [Transfer!Next]_Transfer!vars
  BY StepTransfers
<1> QED
  BY InitTransfer, InitTransfers, <1>1, <1>2, PTL DEF Spec, ImplementsTransfer, Transfer!Spec

-----------------------------------------------------------------------------
(* Nothing is lost but by the bus, and nothing is given up without a cause:  *)
(* one block size, as isotp.c has.                                           *)

OneBlock == \A a, b \in BlockSizes : a = b

(* The consecutive frames under way come first; there are at least n. *)
Ahead(n) == n <= Len(fwd) /\ \A i \in 1..n : fwd[i].type = "CF"

(* What may still be sent and what is on its way was granted. *)
BlockInv ==
  /\ back # <<>> /\ Head(back).fs = "CONTINUE" => Head(back).bs \in BlockSizes
  /\ \A bs \in BlockSizes :
       \E n \in Nat : /\ Granted + n <= bs
                      /\ \A i \in 1..Len(fwd) : fwd[i].type = "CF" => i <= n

(* A message that was accepted is being sent, under way, being received,     *)
(* delivered or given up.                                                    *)
Accounted(m) ==
  \/ m \in failed
  \/ \E i \in 1..Len(delivered) : Delivered(i) = m
  \/ \E i \in 1..Len(fwd) : fwd[i].type # "CF" /\ Of(i) = m
  \/ (Inside("copied") \/ Active) /\ m = send_buffer
  \/ Reception /\ m = Receiving

(* While the bus loses nothing, every frame that was sent and not taken is   *)
(* on its way to a reception that waits for it.                              *)
PresentInv ==
  lost = 0 =>
    /\ \A i \in 1..Len(fwd) :
         fwd[i].type = "CF" => /\ Reception /\ Ordinal(i) = Taken + i - 1
                               /\ Ordinal(i) < Count(messages[Receiving])
    /\ MaySend => Reception
    /\ Reception => IF Active /\ send_buffer = Receiving
                      THEN Ahead(ToSend - Taken)
                      ELSE \/ Receiving \in failed
                           \/ Ahead(Count(messages[Receiving]) - Taken)
    /\ \A m \in Numbers : Accounted(m)

(* ... and the sender waits for an answer that is still to come. *)
CauseInv ==
  /\ back # <<>> /\ Head(back).fs = "OVERFLOW" => messages[send_buffer] > RecvBufSize
  /\ lost = 0 /\ ignored = 0 =>
       /\ Active => \/ \E i \in 1..Len(fwd) : fwd[i].type = "FF"
                    \/ back # <<>>
                    \/ Reception /\ Receiving = send_buffer /\ ToSend + Granted = Limit
       /\ failed # {} => \E m \in failed : messages[m] > RecvBufSize

LosslessInv ==
  /\ lost \in Nat /\ ignored \in Nat /\ failed \subseteq Numbers
  /\ BlockInv /\ PresentInv /\ CauseInv

(* A message accounted for stays so, if what accounts for it does. *)
LEMMA StillAccounted ==
  ASSUME NEW m, Accounted(m), failed \subseteq failed',
         Len(delivered) \in Nat, Len(delivered') \in Nat, Len(delivered) <= Len(delivered'),
         \A i \in 1..Len(delivered) : delivered'[i] = delivered[i],
         \A i \in 1..Len(fwd) : fwd[i].type # "CF" /\ Of(i) = m => Accounted(m)',
         (Inside("copied") \/ Active) /\ m = send_buffer => Accounted(m)',
         Reception /\ m = Receiving => Accounted(m)'
  PROVE  Accounted(m)'
<1>1. CASE m \in failed
  BY <1>1 DEF Accounted
<1>2. CASE \E i \in 1..Len(delivered) : Delivered(i) = m
  <2>1. PICK i \in 1..Len(delivered) : Delivered(i) = m
    BY <1>2
  <2>2. i \in 1..Len(delivered') /\ Delivered(i)' = m
    BY <2>1 DEF Delivered
  <2> QED
    BY <2>2 DEF Accounted
<1> QED
  BY <1>1, <1>2 DEF Accounted

(* The blocks granted are kept to when less is under way or granted. *)
LEMMA BlockStays ==
  ASSUME TransferInv, BlockInv, NEW d \in {0, 1}, Granted' \in Nat, Granted' <= Granted,
         \A i \in 1..Len(fwd') : fwd'[i].type = "CF" => /\ i + d \in 1..Len(fwd)
                                                       /\ fwd[i + d].type = "CF",
         back' # <<>> /\ Head(back').fs = "CONTINUE" => Head(back').bs \in BlockSizes
  PROVE  BlockInv'
<1> SUFFICES ASSUME NEW bs \in BlockSizes
             PROVE  \E n \in Nat : /\ Granted' + n <= bs
                                   /\ \A i \in 1..Len(fwd') : fwd'[i].type = "CF" => i <= n
  BY DEF BlockInv
<1>1. PICK n \in Nat : /\ Granted + n <= bs
                       /\ \A i \in 1..Len(fwd) : fwd[i].type = "CF" => i <= n
  BY DEF BlockInv
<1>2. Granted \in Nat /\ bs \in Nat
  BY BlockSizesAssumption
  DEF Granted, ISOTP_INVALID_BS, TransferInv, LinkInv, CounterType
<1>3. Granted' + n <= bs
  <2>1. \A x, y, z, w \in Nat : x <= y /\ y + z <= w => x + z <= w
    OBVIOUS
  <2> QED
    BY <1>1, <1>2, <2>1, Zenon
<1>4. ASSUME NEW i \in 1..Len(fwd'), fwd'[i].type = "CF"
      PROVE  i <= n
  <2>1. i + d <= n /\ i \in Int
    BY <1>1, <1>4
  <2> QED
    BY <2>1
<1> QED
  BY <1>3, <1>4

LEMMA GrantedNat == ASSUME TransferInv PROVE Granted \in Nat
BY DEF Granted, ISOTP_INVALID_BS, TransferInv, LinkInv, CounterType

LEMMA InitLossless == Init => LosslessInv
<1> SUFFICES ASSUME Init PROVE LosslessInv
  OBVIOUS
<1>1. /\ fwd = <<>> /\ back = <<>> /\ failed = {} /\ lost = 0 /\ ignored = 0 /\ messages = <<>>
      /\ ~Active /\ ~MaySend /\ ~Reception /\ Granted = 0
  BY DEF Init, Active, Inside, MaySend, Reception, Granted
<1>2. BlockInv
  BY <1>1, BlockSizesAssumption DEF BlockInv
<1>3. Numbers = {}
  BY <1>1 DEF Numbers
<1>4. PresentInv /\ CauseInv
  BY <1>1, <1>3 DEF PresentInv, CauseInv
<1> QED
  BY <1>1, <1>2, <1>4 DEF LosslessInv

(* A step that leaves alone what is under way and being sent. *)
LEMMA StillLossless ==
  ASSUME TransferInv, TransferInv', LosslessInv,
         UNCHANGED <<receiver, fwd, back, messages, failed, lost, ignored, send_buffer,
                     send_offset, Granted>>,
         Active' <=> Active, MaySend' => MaySend, Inside("copied")' <=> Inside("copied")
  PROVE  LosslessInv'
<1>1. /\ (Reception' <=> Reception) /\ Receiving' = Receiving /\ Taken' = Taken /\ Limit' = Limit
      /\ ToSend' = ToSend /\ Numbers' = Numbers /\ delivered' = delivered
      /\ \A n : Ahead(n)' <=> Ahead(n)
      /\ \A i \in 1..Len(fwd) : Of(i)' = Of(i) /\ Ordinal(i)' = Ordinal(i)
  BY DEF receiver, Reception, Receiving, Taken, Limit, ToSend, Numbers, Ahead, Of, Ordinal
<1>2. BlockInv'
  BY DEF LosslessInv, BlockInv
<1>3. \A m : Accounted(m)' <=> Accounted(m)
  BY <1>1 DEF Accounted, Delivered
<1>4. PresentInv'
  BY <1>1, <1>3 DEF LosslessInv, PresentInv, Count
<1>5. CauseInv'
  BY <1>1 DEF LosslessInv, CauseInv
<1> QED
  BY <1>1, <1>2, <1>4, <1>5 DEF LosslessInv

(* A message is submitted. *)
LEMMA CheckLossless ==
  ASSUME OneCaller, TransferInv, TransferInv', LosslessInv, NEW c \in Caller, CheckAndCopy(c)
  PROVE  LosslessInv'
<1>0. PICK n \in Sizes : messages' = Append(messages, n)
  BY DEF CheckAndCopy
<1>1. /\ Len(messages) \in Nat /\ Len(messages') = Len(messages) + 1
      /\ Numbers \subseteq Numbers'
      /\ \A m \in Numbers : messages'[m] = messages[m]
  BY <1>0, MessagesGrow DEF TransferInv
<1>2. /\ at[c] = "idle" /\ at' = [at EXCEPT ![c] = "copied"]
      /\ send_status # "INPROGRESS" /\ send_status' = send_status
      /\ send_buffer' = Len(messages') /\ UNCHANGED <<receiver, fwd, back, failed, lost, ignored>>
  BY DEF CheckAndCopy
<1>3. /\ ~Active /\ ~Active' /\ ~Inside("copied") /\ Inside("copied")'
      /\ ~MaySend /\ ~MaySend' /\ Granted = 0 /\ Granted' = 0
  <2>1. /\ Inside("first") <=> at[c] = "first"
        /\ Inside("copied") <=> at[c] = "copied"
        /\ Inside("copied")' <=> "copied" = "copied"
        /\ Inside("first")' <=> "first" = "copied"
    BY <1>2, CallerMoves, Zenon DEF TransferInv
  <2> QED
    BY <1>2, <2>1 DEF Active, MaySend, Granted
<1>4. /\ (Reception' <=> Reception) /\ Receiving' = Receiving /\ Taken' = Taken
      /\ delivered' = delivered
      /\ \A k : Ahead(k)' <=> Ahead(k)
      /\ \A i \in 1..Len(fwd) : Of(i)' = Of(i) /\ Ordinal(i)' = Ordinal(i)
  BY <1>2 DEF receiver, Reception, Receiving, Taken, Ahead, Of, Ordinal
<1>5. BlockInv'
  BY <1>2, <1>3 DEF LosslessInv, BlockInv
<1>6. back' = <<>>
  BY <1>2, <1>3 DEF TransferInv, AnswerInv
<1>7. CauseInv'
  BY <1>1, <1>2, <1>3, <1>6 DEF LosslessInv, CauseInv
<1>8. PresentInv'
  <2> SUFFICES ASSUME lost = 0 PROVE PresentInv'
    BY <1>2 DEF PresentInv
  <2>1. \A m \in Numbers : Accounted(m)
    BY DEF LosslessInv, PresentInv
  <2>2. ASSUME NEW m \in Numbers'
        PROVE  Accounted(m)'
    <3>1. CASE m \in Numbers
      BY <1>2, <1>3, <1>4, <2>1, <3>1 DEF Accounted, Delivered
    <3>2. CASE m = Len(messages')
      BY <1>2, <1>3, <3>2 DEF Accounted
    <3> QED
      BY <1>1, <3>1, <3>2 DEF Numbers
  <2>3. Reception => Receiving \in Numbers /\ messages'[Receiving] = messages[Receiving]
    BY <1>1 DEF TransferInv, ReceivedInv
  <2> QED
    BY <1>2, <1>3, <1>4, <2>2, <2>3 DEF LosslessInv, PresentInv, Count
<1> QED
  BY <1>1, <1>2, <1>5, <1>7, <1>8 DEF LosslessInv


(* A frame that begins a message. *)
LEMMA BeginLossless ==
  ASSUME OneCaller, TransferInv, TransferInv', LosslessInv,
         NEW c \in Caller, SendSingleFrame(c) \/ SendFirstFrame(c)
  PROVE  LosslessInv'
<1>0. PICK n \in Nat : n = Len(fwd) + 1
  BY FrameFacts
<1>1. /\ at[c] = "copied"
      /\ (at' = [at EXCEPT ![c] = "first"] \/ at' = [at EXCEPT ![c] = "idle"])
      /\ \E f : /\ fwd' = Append(fwd, f) /\ f.type # "CF" /\ f.piece = <<send_buffer, 0>>
                /\ f.type = "FF" \/ at' = [at EXCEPT ![c] = "idle"]
      /\ UNCHANGED <<send_status, send_buffer, send_bs_remain, receiver, back, messages,
                     failed, lost, ignored>>
  BY DEF SendSingleFrame, SendFirstFrame, sender, history
<1>2. PICK f : /\ fwd' = Append(fwd, f) /\ f.type # "CF" /\ f.piece = <<send_buffer, 0>>
               /\ f.type = "FF" \/ at' = [at EXCEPT ![c] = "idle"]
  BY <1>1
<1>3. /\ Inside("copied") /\ ~Inside("copied")'
      /\ Inside("first")' => f.type = "FF"
  <2>1. CASE at' = [at EXCEPT ![c] = "first"]
    <3>1. /\ Inside("copied") <=> at[c] = "copied"
          /\ Inside("copied")' <=> "copied" = "first"
      BY <2>1, CallerMoves, Zenon DEF TransferInv
    <3>2. at'[c] = "first"
      BY <2>1 DEF TransferInv, LinkInv, SenderInv, SenderTypeOK
    <3>3. at' # [at EXCEPT ![c] = "idle"]
      <4>1. [at EXCEPT ![c] = "idle"][c] = "idle"
        BY DEF TransferInv, LinkInv, SenderInv, SenderTypeOK
      <4> QED
        BY <3>2, <4>1
    <3> QED
      BY <1>1, <1>2, <3>1, <3>3
  <2>2. CASE at' = [at EXCEPT ![c] = "idle"]
    <3>1. /\ Inside("copied") <=> at[c] = "copied"
          /\ Inside("copied")' <=> "copied" = "idle"
          /\ Inside("first")' <=> "first" = "idle"
      BY <2>2, CallerMoves, Zenon DEF TransferInv
    <3> QED
      BY <1>1, <3>1
  <2> QED
    BY <1>1, <2>1, <2>2
<1>4. /\ send_status # "INPROGRESS" /\ ~Active /\ ~MaySend /\ back = <<>>
      /\ send_buffer \in Numbers
  BY <1>3, NoneUnderWay
<1>5. /\ ~MaySend' /\ Granted = 0 /\ Granted' = 0 /\ (Active' => f.type = "FF")
  BY <1>1, <1>3, <1>4 DEF Active, MaySend, Granted
<1>6. /\ Len(fwd) \in Nat /\ Len(fwd') = n /\ fwd'[n] = f
      /\ \A i \in 1..Len(fwd) : fwd'[i] = fwd[i] /\ i < n
      /\ \A i \in 1..n : i = n \/ i \in 1..Len(fwd)
      /\ n \in 1..n
  BY <1>0, <1>2, FrameAdded
<1>7. /\ (Reception' <=> Reception) /\ Receiving' = Receiving /\ Taken' = Taken
      /\ delivered' = delivered /\ Numbers' = Numbers
  BY <1>1 DEF receiver, Reception, Receiving, Taken, Numbers
<1>8. Of(n)' = send_buffer /\ \A i \in 1..Len(fwd) : Of(i)' = Of(i) /\ Ordinal(i)' = Ordinal(i)
  BY <1>2, <1>6 DEF Of, Ordinal
<1>9. BlockInv'
  <2>1. \A i \in 1..Len(fwd') : fwd'[i].type = "CF" => /\ i + 0 \in 1..Len(fwd)
                                                       /\ fwd[i + 0].type = "CF"
    BY <1>2, <1>6
  <2>2. back' = <<>>
    BY <1>1, <1>4
  <2> QED
    BY <1>5, <2>1, <2>2, BlockStays DEF LosslessInv
<1>10. CauseInv'
  <2>1. Active' => \E i \in 1..Len(fwd') : fwd'[i].type = "FF"
    BY <1>5, <1>6
  <2> QED
    BY <1>1, <1>4, <2>1 DEF LosslessInv, CauseInv
<1>11. PresentInv'
  <2> SUFFICES ASSUME lost = 0 PROVE PresentInv'
    BY <1>1 DEF PresentInv
  <2>1. \A k \in Int : Ahead(k) => Ahead(k)'
    BY <1>6 DEF Ahead
  <2>2. ASSUME NEW m \in Numbers
        PROVE  Accounted(m)'
    <3>1. Accounted(m)
      BY DEF LosslessInv, PresentInv
    <3>2. m = send_buffer => Accounted(m)'
      BY <1>2, <1>6, <1>8 DEF Accounted
    <3>3. \A i \in 1..Len(fwd) : fwd[i].type # "CF" /\ Of(i) = m => Accounted(m)'
      BY <1>6, <1>8 DEF Accounted
    <3>4. Reception /\ m = Receiving => Accounted(m)'
      BY <1>7 DEF Accounted
    <3>5. Len(delivered) \in Nat
      BY DEF TransferInv
    <3> QED
      BY <1>1, <1>7, <3>1, <3>2, <3>3, <3>4, <3>5, StillAccounted
  <2>3. Reception => /\ Receiving # send_buffer
                     /\ Receiving \in failed \/ Ahead(Count(messages[Receiving]) - Taken)
                     /\ Count(messages[Receiving]) - Taken \in Int
    <3>1. Reception => Receiving \in Numbers /\ Receiving < send_buffer
      BY <1>3 DEF TransferInv, ReceivedInv
    <3>2. Reception => Receiving # send_buffer
      BY <1>4, <3>1 DEF Numbers
    <3>3. Reception => Count(messages[Receiving]) \in Nat
      BY <3>1, MessageTyped DEF TransferInv
    <3>4. Taken \in Nat
      BY DEF TransferInv, LinkInv, ReceiverType, Taken
    <3> QED
      BY <3>2, <3>3, <3>4 DEF LosslessInv, PresentInv
  <2>4. \A i \in 1..Len(fwd') :
           fwd'[i].type = "CF" => /\ Reception /\ Ordinal(i)' = Taken + i - 1
                                  /\ Ordinal(i)' < Count(messages[Receiving])
    BY <1>2, <1>6, <1>8 DEF LosslessInv, PresentInv
  <2> QED
    BY <1>1, <1>5, <1>7, <2>1, <2>2, <2>3, <2>4 DEF PresentInv, Count
<1> QED
  BY <1>1, <1>7, <1>9, <1>10, <1>11 DEF LosslessInv


LEMMA CountAbove ==
  ASSUME NEW n \in Nat, n > SfData, NEW k \in Nat \ {0}, Offset(k) < n
  PROVE  Count(n) \in Nat /\ k < Count(n)
BY DEF Offset, Count, FfData, CfData, SfData

(* What is being sent has a rest. *)
LEMMA RestToSend ==
  ASSUME TransferInv, Active
  PROVE  /\ ToSend \in Nat \ {0} /\ send_buffer \in Numbers /\ send_offset = Offset(ToSend)
         /\ send_size = messages[send_buffer] /\ send_size \in Nat /\ send_size > SfData
         /\ send_offset < send_size
         /\ Count(messages[send_buffer]) \in Nat /\ ToSend < Count(messages[send_buffer])
<1>1. /\ ToSend \in Int /\ send_size \in Nat
  BY DEF ToSend, Index, FfData, CfData, TransferInv, LinkInv, SenderInv, SenderTypeOK
<1>2. /\ ToSend >= 1 /\ send_offset = Offset(ToSend) /\ send_buffer \in Numbers
      /\ send_size = messages[send_buffer]
  BY DEF TransferInv, SendingInv
<1>3. send_offset < send_size /\ send_size > SfData
  BY DEF Active, Inside, TransferInv, LinkInv, SenderInv, ProgressInv, CallerInv
<1>4. ToSend \in Nat \ {0} /\ Offset(ToSend) < send_size
  BY <1>1, <1>2, <1>3
<1>5. Count(send_size) \in Nat /\ ToSend < Count(send_size)
  BY <1>1, <1>3, <1>4, CountAbove, Zenon
<1> QED
  BY <1>1, <1>2, <1>3, <1>4, <1>5

(* isotp_poll: a consecutive frame is added to those that are ahead of it.   *)
LEMMA ConsecutiveLossless ==
  ASSUME OneCaller, OneCycle, TransferInv, TransferInv', LosslessInv, SendConsecutiveFrame
  PROVE  LosslessInv'
<1>0. PICK n \in Nat : n = Len(fwd) + 1
  BY FrameFacts
<1>1. /\ MaySend /\ send_status = "INPROGRESS" /\ send_bs_remain # 0
      /\ fwd' = Append(fwd, [type |-> "CF", sn |-> send_sn, piece |-> <<send_buffer, send_offset>>])
      /\ send_bs_remain' = IF send_bs_remain = ISOTP_INVALID_BS
                             THEN send_bs_remain ELSE send_bs_remain - 1
      /\ (send_status' = "IDLE" \/ send_status' = send_status)
      /\ UNCHANGED <<callers, send_buffer, send_size, receiver, back, messages, failed,
                     lost, ignored>>
  BY DEF SendConsecutiveFrame, MaySend, history
<1>2. ~Inside("copied") /\ ~Inside("first") /\ ~Inside("copied")' /\ ~Inside("first")'
  <2>1. ~Inside("copied") /\ ~Inside("first")
    BY <1>1, OneInside DEF TransferInv
  <2> QED
    BY <1>1, <2>1 DEF Inside, callers
<1>3. Active /\ (Active' <=> send_status' = "INPROGRESS")
  BY <1>1, <1>2 DEF Active
<1>4. PICK k \in Nat \ {0} : /\ k = ToSend /\ send_buffer \in Numbers /\ send_offset = Offset(k)
                             /\ send_size = messages[send_buffer]
                             /\ Count(messages[send_buffer]) \in Nat
                             /\ k < Count(messages[send_buffer])
  BY <1>3, RestToSend
<1>5. /\ ~Active' => Count(messages[send_buffer]) = k + 1
      /\ Active' => ToSend' = k + 1
  <2>0. /\ send_size \in Nat /\ send_offset \in Nat /\ send_offset < send_size
        /\ send_size <= 4095
    BY <1>3, RestToSend DEF TransferInv, LinkInv, SenderInv, SenderTypeOK
  <2>1. PICK r \in Int : r = send_size - send_offset /\ 0 < r /\ r < 65536
    BY <2>0
  <2>2. r % 65536 = r
    BY <2>1
  <2>3. /\ send_offset' = send_offset + Least(CfData, r)
        /\ send_status' = IF send_offset' >= send_size THEN "IDLE" ELSE send_status
    BY <2>1, <2>2 DEF SendConsecutiveFrame
  <2>4. send_offset \in Nat /\ send_size \in Nat /\ send_size > SfData /\ Offset(k) < send_size
    <3>1. send_offset \in Nat
      BY DEF TransferInv, LinkInv, SenderInv, SenderTypeOK
    <3>2. send_size \in Nat /\ send_size > SfData /\ send_offset < send_size
      BY <1>3, RestToSend
    <3> QED
      BY <1>4, <3>1, <3>2
  <2>5. Offset(k + 1) = send_offset + 7
    BY <1>4, <2>4 DEF Offset, FfData, CfData
  <2>6. /\ send_offset' \in Nat
        /\ send_offset' >= send_size => Offset(k + 1) >= send_size
        /\ send_offset' < send_size => send_offset' = Offset(k + 1)
    BY <2>1, <2>3, <2>4, <2>5 DEF Least, CfData
  <2>7. Offset(k + 1) >= send_size => Count(send_size) = k + 1
    BY <2>4, CountAt, Zenon
  <2>8. Index(Offset(k + 1)) = k + 1
    BY IndexOfOffset
  <2>9. CASE send_offset' >= send_size
    BY <1>3, <1>4, <2>3, <2>6, <2>7, <2>9
  <2>10. CASE send_offset' < send_size
    <3>1. Active' /\ send_offset' = Offset(k + 1)
      BY <1>1, <1>3, <2>3, <2>4, <2>6, <2>10
    <3> QED
      BY <2>8, <3>1 DEF ToSend, Index
  <2> QED
    BY <2>4, <2>6, <2>9, <2>10
<1>6. \A i \in 1..Len(fwd) : fwd[i].type = "CF"
  BY <1>1, FrameFacts DEF TransferInv, OrderInv, FirstsInv
<1>7. /\ Len(fwd) \in Nat /\ n = Len(fwd) + 1 /\ n = Len(fwd')
      /\ fwd'[n].piece = <<send_buffer, send_offset>>
      /\ \A i \in 1..Len(fwd) : fwd'[i] = fwd[i] /\ i < n
      /\ \A i \in 1..n : fwd'[i].type = "CF" /\ (i = n \/ i \in 1..Len(fwd))
  BY <1>0, <1>1, <1>6, FrameAdded
<1>8. /\ Ordinal(n)' = k
      /\ \A i \in 1..Len(fwd) : Of(i)' = Of(i) /\ Ordinal(i)' = Ordinal(i)
  BY <1>4, <1>7 DEF Of, Ordinal, ToSend, Index
<1>9. /\ (Reception' <=> Reception) /\ Receiving' = Receiving /\ Taken' = Taken
      /\ Limit' = Limit /\ delivered' = delivered /\ Numbers' = Numbers
      /\ back' = <<>> /\ back = <<>>
  BY <1>1 DEF receiver, Reception, Receiving, Taken, Limit, Numbers, TransferInv, AnswerInv
<1>10. Granted = send_bs_remain /\ Granted \in Nat /\ Granted >= 1
  BY <1>1, GrantedNat DEF Granted
<1>11. ASSUME Granted <= 300
       PROVE  Granted' \in Nat /\ Granted' <= Granted - 1 /\ (Active' => Granted' = Granted - 1)
  BY <1>1, <1>3, <1>10, <1>11 DEF Granted, ISOTP_INVALID_BS
<1>12. BlockInv'
  <2> SUFFICES ASSUME NEW bs \in BlockSizes
               PROVE  \E j \in Nat : /\ Granted' + j <= bs
                                     /\ \A i \in 1..Len(fwd') : fwd'[i].type = "CF" => i <= j
    BY <1>9 DEF BlockInv
  <2>1. PICK j \in Nat : /\ Granted + j <= bs
                         /\ \A i \in 1..Len(fwd) : fwd[i].type = "CF" => i <= j
    BY DEF LosslessInv, BlockInv
  <2>2. bs \in 0..255
    BY BlockSizesAssumption
  <2>3. Granted <= 300
    BY <1>10, <2>1, <2>2
  <2>4. Granted' + (j + 1) <= bs
    BY <1>10, <1>11, <2>1, <2>2, <2>3
  <2>5. Len(fwd) <= j
    <3>1. CASE Len(fwd) = 0
      BY <3>1
    <3>2. CASE Len(fwd) # 0
      <4>1. Len(fwd) \in 1..Len(fwd)
        BY <1>7, <3>2
      <4> QED
        BY <1>6, <2>1, <4>1
    <3> QED
      BY <3>1, <3>2
  <2>6. \A i \in 1..n : i <= j + 1
    BY <1>7, <2>5
  <2> QED
    BY <1>7, <2>4, <2>6
<1>13. Reception => Receiving = send_buffer
  BY <1>1 DEF TransferInv, ReceivedInv
<1>14. Reception => /\ Granted <= 300 /\ k + Granted <= Limit
                    /\ Taken \in Nat /\ Taken <= k
  <2>1. Reception => /\ Taken <= k /\ k + Granted <= Limit
                     /\ receive_bs_count \in 1..SnModulus
    BY <1>3, <1>4, <1>13 DEF TransferInv, WindowInv, ReceivedInv
  <2>2. Taken \in Nat /\ receive_bs_count \in Nat
    BY DEF TransferInv, LinkInv, ReceiverType, Taken
  <2>3. ASSUME Reception PROVE receive_bs_count <= 16
    BY <2>1, <2>3, SnAssumption
  <2> QED
    BY <1>10, <2>1, <2>2, <2>3 DEF Limit
<1>15. CauseInv'
  <2> SUFFICES ASSUME lost = 0, ignored = 0, Active'
               PROVE  Reception' /\ Receiving' = send_buffer' /\ ToSend' + Granted' = Limit'
    BY <1>1, <1>9 DEF LosslessInv, CauseInv
  <2>1. Reception /\ Receiving = send_buffer /\ ToSend + Granted = Limit
    BY <1>3, <1>6, <1>9 DEF LosslessInv, CauseInv
  <2> QED
    BY <1>1, <1>4, <1>5, <1>9, <1>10, <1>11, <1>14, <2>1
<1>16. PresentInv'
  <2> SUFFICES ASSUME lost = 0 PROVE PresentInv'
    BY <1>1 DEF PresentInv
  <2>1. /\ Reception /\ Receiving = send_buffer
        /\ Ahead(k - Taken)
        /\ \A i \in 1..Len(fwd) : /\ Ordinal(i) = Taken + i - 1
                                  /\ Ordinal(i) < Count(messages[Receiving])
        /\ \A m \in Numbers : Accounted(m)
    BY <1>1, <1>3, <1>4, <1>6, <1>13 DEF LosslessInv, PresentInv
  <2>2. Len(fwd) = k - Taken
    <3>1. k - Taken <= Len(fwd)
      BY <2>1 DEF Ahead
    <3>2. ASSUME Len(fwd) # 0 PROVE Len(fwd) <= k - Taken
      <4>1. Len(fwd) \in 1..Len(fwd)
        BY <1>7, <3>2
      <4>2. Ordinal(Len(fwd)) < k
        BY <1>3, <1>4, <1>6, <2>1, <4>1 DEF TransferInv, WindowInv
      <4>3. Ordinal(Len(fwd)) = Taken + Len(fwd) - 1
        BY <2>1, <4>1
      <4> QED
        BY <1>7, <1>14, <2>1, <4>2, <4>3
    <3> QED
      BY <1>7, <1>14, <2>1, <3>1, <3>2
  <2>3. n = k + 1 - Taken /\ Ahead(n)'
    BY <1>7, <1>14, <2>1, <2>2 DEF Ahead
  <2>4. \A i \in 1..n : Ordinal(i)' = Taken + i - 1 /\ Ordinal(i)' < Count(messages[Receiving])
    <3>1. Ordinal(n)' = Taken + n - 1 /\ Ordinal(n)' < Count(messages[Receiving])
      BY <1>4, <1>8, <1>14, <2>1, <2>3
    <3> QED
      BY <1>7, <1>8, <2>1, <3>1
  <2>5. ASSUME NEW m \in Numbers
        PROVE  Accounted(m)'
    <3>1. m = send_buffer => Accounted(m)'
      BY <1>9, <2>1 DEF Accounted
    <3>2. Len(delivered) \in Nat
      BY DEF TransferInv
    <3>3. \A i \in 1..Len(fwd) : ~(fwd[i].type # "CF" /\ Of(i) = m)
      BY <1>6
    <3> QED
      BY <1>1, <1>9, <2>1, <3>1, <3>2, <3>3, StillAccounted
  <2>6. Active' => Ahead(ToSend - Taken)'
    <3>1. Active' => ToSend' - Taken' = n
      BY <1>5, <1>9, <1>14, <2>1, <2>3
    <3> QED
      BY <2>3, <3>1 DEF Ahead
  <2>7. ~Active' => Ahead(Count(messages[Receiving]) - Taken)'
    <3>1. ~Active' => Count(messages[Receiving])' - Taken' = n
      BY <1>1, <1>5, <1>9, <1>14, <2>1, <2>3 DEF Count
    <3> QED
      BY <2>3, <3>1 DEF Ahead
  <2>8. Receiving' = send_buffer' /\ Reception'
    BY <1>1, <1>9, <2>1
  <2>9. \A i \in 1..Len(fwd') : /\ Ordinal(i)' = Taken' + i - 1
                                /\ Ordinal(i)' < Count(messages[Receiving])'
    BY <1>1, <1>7, <1>9, <2>4 DEF Count
  <2> QED
    BY <1>9, <2>5, <2>6, <2>7, <2>8, <2>9 DEF PresentInv
<1> QED
  BY <1>1, <1>9, <1>12, <1>15, <1>16 DEF LosslessInv


(* The sender gives up: the message is given up, not forgotten. *)
LEMMA GivenUp ==
  ASSUME TransferInv, TransferInv', LosslessInv, fwd = <<>>, fwd' = fwd, back' = <<>>,
         send_status' = "ERROR", ~Inside("first"), ~Inside("copied"),
         failed' = failed \cup {send_buffer}, send_buffer \in Numbers,
         UNCHANGED <<callers, send_buffer, send_offset, receiver, messages, lost, ignored>>,
         lost = 0 /\ ignored = 0 => messages[send_buffer] > RecvBufSize
  PROVE  LosslessInv'
<1>1. /\ ~Inside("first")' /\ ~Inside("copied")' /\ ~Active' /\ ~MaySend' /\ Granted' = 0
  BY DEF callers, Inside, Active, MaySend, Granted
<1>2. /\ (Reception' <=> Reception) /\ Receiving' = Receiving /\ Taken' = Taken
      /\ delivered' = delivered /\ Numbers' = Numbers
  BY DEF receiver, Reception, Receiving, Taken, Numbers
<1>3. Granted \in Nat /\ Len(fwd) = 0 /\ Len(fwd') = 0
  BY GrantedNat
<1>4. BlockInv'
  <2>1. \A i \in 1..Len(fwd') : fwd'[i].type = "CF" => /\ i + 0 \in 1..Len(fwd)
                                                       /\ fwd[i + 0].type = "CF"
    BY <1>3
  <2> QED
    BY <1>1, <1>3, <2>1, BlockStays DEF LosslessInv
<1>5. CauseInv'
  BY <1>1 DEF LosslessInv, CauseInv
<1>6. PresentInv'
  <2> SUFFICES ASSUME lost = 0 PROVE PresentInv'
    BY DEF PresentInv
  <2>1. ASSUME NEW m \in Numbers PROVE Accounted(m)'
    <3>1. Accounted(m)
      BY DEF LosslessInv, PresentInv
    <3>2. m = send_buffer => Accounted(m)'
      BY DEF Accounted
    <3>3. Reception /\ m = Receiving => Accounted(m)'
      BY <1>2 DEF Accounted
    <3>4. Len(delivered) \in Nat
      BY DEF TransferInv
    <3> QED
      BY <1>2, <1>3, <3>1, <3>2, <3>3, <3>4, StillAccounted
  <2>2. Reception => \/ Receiving \in failed'
                     \/ Ahead(Count(messages[Receiving]) - Taken)
    BY DEF LosslessInv, PresentInv
  <2>3. Ahead(Count(messages[Receiving]) - Taken)' <=> Ahead(Count(messages[Receiving]) - Taken)
    BY <1>2 DEF Ahead, Count
  <2> QED
    BY <1>1, <1>2, <1>3, <2>1, <2>2, <2>3 DEF PresentInv
<1>7. failed' \subseteq Numbers'
  BY <1>2 DEF LosslessInv
<1> QED
  BY <1>4, <1>5, <1>6, <1>7 DEF LosslessInv

(* A timer of the sender expires: an answer was lost, or came too early.     *)
LEMMA TimeoutLossless ==
  ASSUME OneCaller, TransferInv, TransferInv', LosslessInv, SendTimeout
  PROVE  LosslessInv'
<1>1. /\ send_status = "INPROGRESS" /\ send_bs_remain = 0 /\ fwd = <<>> /\ back = <<>>
      /\ fwd' = fwd /\ back' = <<>> /\ send_status' = "ERROR"
      /\ failed' = failed \cup {send_buffer}
      /\ UNCHANGED <<callers, send_buffer, send_offset, receiver, messages, lost, ignored>>
  BY DEF SendTimeout, Silent, Fail
<1>2. ~Inside("first") /\ ~Inside("copied") /\ Active /\ Granted = 0
  BY <1>1, OneInside DEF Active, TransferInv, Granted
<1>3. send_buffer \in Numbers /\ ToSend \in Nat
  BY <1>2, RestToSend
<1>4. ~(lost = 0 /\ ignored = 0)
  <2> SUFFICES ASSUME lost = 0, ignored = 0 PROVE FALSE
    OBVIOUS
  <2>1. Reception /\ Receiving = send_buffer /\ ToSend + 0 = Limit
    BY <1>1, <1>2 DEF LosslessInv, CauseInv
  <2>2. Ahead(ToSend - Taken)
    BY <1>2, <2>1 DEF LosslessInv, PresentInv
  <2>3. ToSend - Taken <= 0
    BY <1>1, <2>2 DEF Ahead
  <2>4. Taken \in Nat /\ receive_bs_count \in Nat /\ receive_bs_count >= 1
    BY <2>1, SnAssumption DEF TransferInv, ReceivedInv, LinkInv, ReceiverType, Taken
  <2> QED
    BY <1>3, <2>1, <2>3, <2>4 DEF Limit
<1> QED
  BY <1>1, <1>2, <1>3, <1>4, GivenUp

(* A flow control frame reaches the sender. *)
LEMMA FlowLossless ==
  ASSUME OneCaller, OneCycle, OneBlock, TransferInv, TransferInv', LosslessInv,
         SenderOnCanMessage
  PROVE  LosslessInv'
<1>1. PICK fs \in {"CONTINUE", "WAIT", "OVERFLOW"} : FlowControl(fs)
  BY DEF SenderOnCanMessage, IgnoreFlowControl, ReceiverOverflow, ReceiverWaits, PermitSend
<1>2. /\ back # <<>> /\ back' = Tail(back) /\ Head(back).fs = fs
      /\ UNCHANGED <<callers, send_buffer, send_offset, receiver, fwd, messages, lost>>
  BY <1>1 DEF FlowControl
<1>3. /\ fwd = <<>> /\ Active /\ ~MaySend /\ fs # "WAIT" /\ Len(back) = 1
      /\ fs = "CONTINUE" => /\ Reception /\ Receiving = send_buffer /\ ToSend = Taken
                            /\ receive_bs_count = Head(back).bs
  BY <1>2 DEF TransferInv, AnswerInv
<1>4. back' = <<>>
  <2>1. back \in Seq(FlowControls)
    BY DEF TransferInv, LinkInv, BusType
  <2>2. Tail(back) \in Seq(FlowControls) /\ Len(Tail(back)) = 0
    BY <1>2, <1>3, <2>1, HeadTailProperties
  <2> QED
    BY <1>2, <2>2, EmptySeq
<1>5. /\ Inside("first")' <=> Inside("first")
      /\ Inside("copied")' <=> Inside("copied")
      /\ (Reception' <=> Reception) /\ Receiving' = Receiving /\ Taken' = Taken
      /\ Limit' = Limit /\ ToSend' = ToSend
      /\ delivered' = delivered /\ Numbers' = Numbers /\ Len(fwd) = 0 /\ Len(fwd') = 0
  BY <1>2, <1>3 DEF callers, Inside, receiver, Reception, Receiving, Taken, Limit, ToSend, Numbers
<1>6. send_buffer \in Numbers
  BY <1>3, RestToSend
<1>7. ASSUME failed' = failed, ignored' \in Nat, Active',
             MaySend' => Reception,
             lost = 0 /\ ignored' = 0 =>
               Reception /\ Receiving = send_buffer /\ ToSend + Granted' = Limit,
             lost = 0 /\ ignored' = 0 => ignored = 0,
             BlockInv'
      PROVE  LosslessInv'
  <2>1. CauseInv'
    BY <1>2, <1>4, <1>5, <1>7 DEF LosslessInv, CauseInv
  <2>2. PresentInv'
    <3> SUFFICES ASSUME lost = 0 PROVE PresentInv'
      BY <1>2 DEF PresentInv
    <3>1. ASSUME NEW m \in Numbers PROVE Accounted(m)'
      <4>1. Accounted(m)
        BY DEF LosslessInv, PresentInv
      <4>2. m = send_buffer => Accounted(m)'
        BY <1>2, <1>7 DEF Accounted
      <4>3. Reception /\ m = Receiving => Accounted(m)'
        BY <1>5 DEF Accounted
      <4>4. Len(delivered) \in Nat
        BY DEF TransferInv
      <4> QED
        BY <1>5, <1>7, <4>1, <4>2, <4>3, <4>4, StillAccounted
    <3>2. Reception => IF send_buffer = Receiving
                         THEN Ahead(ToSend - Taken)
                         ELSE Receiving \in failed \/ Ahead(Count(messages[Receiving]) - Taken)
      BY <1>3 DEF LosslessInv, PresentInv
    <3>3. /\ Ahead(Count(messages[Receiving]) - Taken)' <=> Ahead(Count(messages[Receiving]) - Taken)
          /\ Ahead(ToSend - Taken)' <=> Ahead(ToSend - Taken)
      BY <1>2, <1>5 DEF Ahead, Count
    <3> QED
      BY <1>2, <1>5, <1>7, <3>1, <3>2, <3>3 DEF PresentInv
  <2> QED
    BY <1>2, <1>5, <1>7, <2>1, <2>2 DEF LosslessInv
<1>8. CASE IgnoreFlowControl
  <2>1. /\ send_status # "INPROGRESS" /\ UNCHANGED <<send_status, send_bs_remain, failed>>
        /\ ignored' = IF Inside("first") THEN ignored + 1 ELSE ignored
    BY <1>8 DEF IgnoreFlowControl, Inside
  <2>2. Active' /\ ~MaySend' /\ Granted' = 0 /\ Inside("first")
    BY <1>3, <1>5, <2>1 DEF Active, MaySend, Granted
  <2>3. ignored \in Nat /\ ignored' = ignored + 1
    BY <2>1, <2>2 DEF LosslessInv
  <2>4. BlockInv'
    <3>1. \A i \in 1..Len(fwd') : fwd'[i].type = "CF" => /\ i + 0 \in 1..Len(fwd)
                                                         /\ fwd[i + 0].type = "CF"
      BY <1>5
    <3>2. Granted' \in Nat /\ Granted' <= Granted
      BY <2>2, GrantedNat
    <3> QED
      BY <1>4, <3>1, <3>2, BlockStays DEF LosslessInv
  <2>5. ignored' \in Nat /\ ignored' # 0
    BY <2>3
  <2> QED
    BY <1>7, <2>1, <2>2, <2>4, <2>5
<1>9. CASE ReceiverOverflow
  <2>1. /\ send_status = "INPROGRESS" /\ send_status' = "ERROR" /\ fs = "OVERFLOW"
        /\ failed' = failed \cup {send_buffer} /\ ignored' = ignored
    BY <1>2, <1>9 DEF ReceiverOverflow, Fail, FlowControl
  <2>2. messages[send_buffer] > RecvBufSize
    BY <1>2, <2>1 DEF LosslessInv, CauseInv
  <2>3. ~Inside("first") /\ ~Inside("copied")
    BY <2>1, OneInside DEF TransferInv
  <2> QED
    BY <1>2, <1>3, <1>4, <1>6, <2>1, <2>2, <2>3, GivenUp
<1>10. CASE PermitSend
  <2>1. /\ send_status = "INPROGRESS" /\ send_status' = send_status /\ fs = "CONTINUE"
        /\ UNCHANGED <<failed, ignored>>
        /\ send_bs_remain' = IF Head(back).bs = 0 THEN ISOTP_INVALID_BS ELSE Head(back).bs
    BY <1>2, <1>10 DEF PermitSend, FlowControl
  <2>2. receive_bs_count \in Nat /\ receive_bs_count >= 1
    BY <1>3, <2>1, SnAssumption DEF TransferInv, ReceivedInv
  <2>3. Active' /\ Granted' = receive_bs_count
    BY <1>3, <2>1, <2>2 DEF Active, Granted
  <2>4. ToSend + Granted' = Limit
    BY <1>3, <2>1, <2>3 DEF Limit
  <2>5. BlockInv'
    <3>1. receive_bs_count \in BlockSizes
      BY <1>2, <1>3, <2>1 DEF LosslessInv, BlockInv
    <3>2. \A bs \in BlockSizes : Granted' + 0 <= bs
      BY <2>2, <2>3, <3>1 DEF OneBlock
    <3> QED
      BY <1>4, <1>5, <3>2 DEF BlockInv
  <2>6. ignored' \in Nat
    BY <2>1 DEF LosslessInv
  <2> QED
    BY <1>3, <1>7, <2>1, <2>3, <2>4, <2>5, <2>6
<1>11. ~ReceiverWaits
  BY <1>2, <1>3 DEF ReceiverWaits, FlowControl
<1> QED
  BY <1>8, <1>9, <1>10, <1>11 DEF SenderOnCanMessage


(* What is being received has a rest. *)
LEMMA RestToCome ==
  ASSUME TransferInv, Reception
  PROVE  /\ Taken \in Nat \ {0} /\ Receiving \in Numbers /\ receive_offset = Offset(Taken)
         /\ receive_size = messages[Receiving] /\ receive_size \in Nat /\ receive_size > SfData
         /\ receive_offset < receive_size
         /\ receive_bs_count \in Nat /\ receive_bs_count >= 1 /\ receive_bs_count <= 16
         /\ Count(messages[Receiving]) \in Nat /\ Taken < Count(messages[Receiving])
<1>1. /\ Taken \in Nat /\ receive_bs_count \in Nat /\ receive_size \in Nat
      /\ receive_offset < receive_size
  BY SizesAssumption DEF Taken, Reception, TransferInv, LinkInv, ReceiverType
<1>2. /\ Taken >= 1 /\ Receiving \in Numbers /\ receive_offset = Offset(Taken)
      /\ receive_size = messages[Receiving] /\ receive_size > SfData
      /\ receive_bs_count \in 1..SnModulus
  BY DEF TransferInv, ReceivedInv
<1>3. Taken \in Nat \ {0} /\ Offset(Taken) < receive_size
  BY <1>1, <1>2
<1>4. Count(receive_size) \in Nat /\ Taken < Count(receive_size)
  BY <1>1, <1>2, <1>3, CountAbove, Zenon
<1>5. receive_bs_count >= 1 /\ receive_bs_count <= 16
  BY <1>1, <1>2, SnAssumption
<1> QED
  BY <1>1, <1>2, <1>3, <1>4, <1>5

(* What the bus loses or the receiver drops after a loss. *)
LEMMA DroppedLossless ==
  ASSUME TransferInv, LosslessInv, fwd' = fwd \/ (fwd # <<>> /\ fwd' = Tail(fwd)),
         back' = back \/ back' = <<>>, lost' \in Nat, lost' # 0,
         UNCHANGED <<callers, sender, messages, failed, ignored>>
  PROVE  LosslessInv'
<1>1. PICK d \in {0, 1} : \A i \in 1..Len(fwd') : fwd'[i] = fwd[i + d] /\ i + d \in 1..Len(fwd)
  BY FramesLeft
<1>2. Granted' = Granted /\ Granted \in Nat /\ Granted' <= Granted
  BY GrantedNat DEF Granted, sender
<1>3. /\ back' # <<>> => Head(back') = Head(back) /\ back # <<>>
      /\ Numbers' = Numbers /\ send_buffer' = send_buffer
  BY DEF Numbers, sender
<1>4. back' # <<>> /\ Head(back').fs = "CONTINUE" => Head(back').bs \in BlockSizes
  BY <1>3 DEF LosslessInv, BlockInv
<1>5. BlockInv'
  <2>1. \A i \in 1..Len(fwd') : fwd'[i].type = "CF" => /\ i + d \in 1..Len(fwd)
                                                       /\ fwd[i + d].type = "CF"
    BY <1>1
  <2> QED
    BY <1>2, <1>4, <2>1, BlockStays DEF LosslessInv
<1>6. PresentInv' /\ CauseInv'
  BY <1>3 DEF LosslessInv, PresentInv, CauseInv
<1> QED
  BY <1>3, <1>5, <1>6 DEF LosslessInv

(* The bus loses a frame. *)
LEMMA LoseLossless ==
  ASSUME TransferInv, LosslessInv, Lose
  PROVE  LosslessInv'
<1>1. lost' \in Nat /\ lost' # 0
  BY DEF LosslessInv, Lose
<1>2. /\ UNCHANGED <<callers, sender, messages, failed, ignored>>
      /\ fwd' = fwd \/ (fwd # <<>> /\ fwd' = Tail(fwd))
  BY DEF Lose
<1>3. back' = back \/ back' = <<>>
  <2>1. CASE UNCHANGED back
    BY <2>1
  <2>2. CASE back # <<>> /\ back' = Tail(back)
    <3>1. Len(back) = 1 /\ back \in Seq(FlowControls)
      BY <2>2 DEF TransferInv, AnswerInv, LinkInv, BusType
    <3>2. Tail(back) \in Seq(FlowControls) /\ Len(Tail(back)) = 0
      BY <2>2, <3>1, HeadTailProperties
    <3> QED
      BY <2>2, <3>2, EmptySeq
  <2> QED
    BY <2>1, <2>2 DEF Lose
<1> QED
  BY <1>1, <1>2, <1>3, DroppedLossless

(* A consecutive frame that is not the one that was expected, or not in a    *)
(* reception: one before it was lost.                                        *)
LEMMA UnexpectedLossless ==
  ASSUME TransferInv, LosslessInv, WrongSequenceNumber \/ UnexpectedConsecutiveFrame
  PROVE  LosslessInv'
<1>1. Receive("CF") /\ (Reception => Head(fwd).sn # receive_sn) /\ back' = back
  BY DEF WrongSequenceNumber, UnexpectedConsecutiveFrame, Reception
<1>2. 1 \in 1..Len(fwd) /\ Head(fwd) = fwd[1] /\ fwd[1].type = "CF"
  BY <1>1, TakenFrame, Zenon
<1>3. lost # 0
  <2> SUFFICES ASSUME lost = 0 PROVE FALSE
    OBVIOUS
  <2>1. Reception /\ Ordinal(1) = Taken + 1 - 1
    BY <1>2 DEF LosslessInv, PresentInv
  <2>2. Taken \in Nat
    BY <2>1, RestToCome
  <2>3. Ordinal(1) = Taken
    BY <2>1, <2>2
  <2>4. fwd[1].sn = Taken % SnModulus
    BY <1>2, <2>3 DEF TransferInv, OrderInv, FramesInv
  <2>5. receive_sn = Taken % SnModulus
    BY <2>1 DEF TransferInv, ReceivedInv
  <2> QED
    BY <1>1, <1>2, <2>1, <2>4, <2>5
<1>4. /\ UNCHANGED <<callers, sender, messages, failed, ignored, lost>>
      /\ fwd # <<>> /\ fwd' = Tail(fwd)
  BY <1>1 DEF Receive, history
<1>5. lost \in Nat
  BY DEF LosslessInv
<1> QED
  BY <1>1, <1>3, <1>4, <1>5, DroppedLossless

(* A timer of the receiver expires: a frame was lost, or the sender gave up. *)
LEMMA ReceiveTimeoutLossless ==
  ASSUME TransferInv, LosslessInv, ReceiveTimeout
  PROVE  LosslessInv'
<1>1. /\ Reception /\ ~Reception' /\ fwd = <<>> /\ back = <<>> /\ ~MaySend
      /\ ~Inside("first") /\ ~Inside("copied")
      /\ UNCHANGED <<callers, sender, receive_buffer, delivered, fwd, back, messages, failed,
                     lost, ignored>>
  BY DEF ReceiveTimeout, Silent, Inside, Reception, history
<1>2. /\ (Active' <=> Active) /\ (MaySend' <=> MaySend) /\ Granted' = Granted
      /\ ToSend' = ToSend /\ Numbers' = Numbers /\ send_buffer' = send_buffer
      /\ ~Inside("copied")'
      /\ Len(fwd) = 0 /\ Len(fwd') = 0 /\ Granted' \in Nat
  BY <1>1, GrantedNat DEF callers, sender, Active, Inside, MaySend, Granted, ToSend, Numbers
<1>3. BlockInv'
  BY <1>1, <1>2 DEF LosslessInv, BlockInv
<1>4. PICK t \in Nat \ {0} : /\ t = Taken /\ Receiving \in Numbers
                             /\ Count(messages[Receiving]) \in Nat
                             /\ t < Count(messages[Receiving])
                             /\ receive_bs_count \in Nat /\ receive_bs_count >= 1
  BY <1>1, RestToCome
<1>5. ASSUME lost = 0, ignored = 0 PROVE ~Active
  <2> SUFFICES ASSUME Active PROVE FALSE
    OBVIOUS
  <2>1. send_status = "INPROGRESS" /\ Granted = 0
    BY <1>1 DEF Active, MaySend, Granted
  <2>2. Receiving = send_buffer /\ ToSend + 0 = Limit
    BY <1>1, <1>2, <1>5, <2>1 DEF LosslessInv, CauseInv
  <2>3. Ahead(ToSend - Taken)
    BY <1>1, <1>5, <2>2 DEF LosslessInv, PresentInv
  <2>4. ToSend \in Nat
    BY RestToSend
  <2>5. ToSend - t <= 0
    BY <1>2, <1>4, <2>3 DEF Ahead
  <2> QED
    BY <1>4, <2>2, <2>4, <2>5 DEF Limit
<1>6. CauseInv'
  <2>1. back' = <<>>
    BY <1>1
  <2>2. lost' = 0 /\ ignored' = 0 => ~Active'
    BY <1>1, <1>2, <1>5
  <2>3. messages' = messages /\ failed' = failed /\ lost' = lost /\ ignored' = ignored
    BY <1>1
  <2> QED
    BY <2>1, <2>2, <2>3 DEF LosslessInv, CauseInv
<1>7. PresentInv'
  <2> SUFFICES ASSUME lost = 0 PROVE PresentInv'
    BY <1>1 DEF PresentInv
  <2>1. ASSUME NEW m \in Numbers PROVE Accounted(m)'
    <3>1. Accounted(m)
      BY DEF LosslessInv, PresentInv
    <3>2. Active /\ m = send_buffer => Accounted(m)'
      BY <1>2 DEF Accounted
    <3>3. m \in failed => Accounted(m)'
      BY <1>1 DEF Accounted
    <3>4. Reception /\ m = Receiving => Accounted(m)'
      <4> SUFFICES ASSUME m = Receiving PROVE Accounted(m)'
        OBVIOUS
      <4>1. CASE Active /\ send_buffer = Receiving
        BY <3>2, <4>1
      <4>2. CASE ~(Active /\ send_buffer = Receiving)
        <5>1. Receiving \in failed \/ Ahead(Count(messages[Receiving]) - Taken)
          BY <1>1, <4>2 DEF LosslessInv, PresentInv
        <5>2. ASSUME Ahead(Count(messages[Receiving]) - Taken) PROVE FALSE
          <6>1. Count(messages[Receiving]) - t <= 0
            BY <1>2, <1>4, <5>2 DEF Ahead
          <6> QED
            BY <1>4, <6>1
        <5> QED
          BY <3>3, <5>1, <5>2
      <4> QED
        BY <4>1, <4>2
    <3>5. Len(delivered) \in Nat /\ Len(delivered') = Len(delivered)
      BY <1>1 DEF TransferInv
    <3> QED
      BY <1>1, <1>2, <3>1, <3>2, <3>4, <3>5, StillAccounted
  <2> QED
    BY <1>1, <1>2, <2>1 DEF PresentInv
<1> QED
  BY <1>1, <1>2, <1>3, <1>6, <1>7 DEF LosslessInv


(* A message accounted for stays so when a frame reaches the receiver, if    *)
(* that frame and the reception do not leave it out.                         *)
LEMMA TakenAccounted ==
  ASSUME TransferInv, NEW type, Receive(type), NEW m, Accounted(m),
         delivered' = delivered \/ \E d : delivered' = Append(delivered, d),
         fwd[1].type # "CF" /\ Of(1) = m => Accounted(m)',
         Reception /\ m = Receiving => Accounted(m)'
  PROVE  Accounted(m)'
<1>1. /\ failed \subseteq failed' /\ send_buffer' = send_buffer
      /\ (Active' <=> Active) /\ (Inside("copied")' <=> Inside("copied"))
  BY TakenFrame, Zenon DEF Receive, history
<1>2. /\ Len(fwd) \in Nat /\ Len(fwd') = Len(fwd) - 1
      /\ \A i \in 1..Len(fwd') : fwd'[i] = fwd[i + 1] /\ Of(i)' = Of(i + 1)
  BY TakenFrame
<1>3. /\ Len(delivered) \in Nat /\ Len(delivered') \in Nat /\ Len(delivered) <= Len(delivered')
      /\ \A i \in 1..Len(delivered) : delivered'[i] = delivered[i]
  <2>1. delivered \in Seq([data : Seq(Nat \X Nat), size : Nat])
    BY DEF TransferInv
  <2>2. CASE delivered' = delivered
    BY <2>1, <2>2
  <2>3. CASE \E d : delivered' = Append(delivered, d)
    <3>1. PICK d : delivered' = Append(delivered, d)
      BY <2>3
    <3> QED
      BY <2>1, <3>1
  <2> QED
    BY <2>2, <2>3
<1>4. ASSUME NEW i \in 1..Len(fwd), fwd[i].type # "CF", Of(i) = m
      PROVE  Accounted(m)'
  <2>1. CASE i = 1
    BY <1>4, <2>1
  <2>2. CASE i # 1
    <3>1. i - 1 \in 1..Len(fwd') /\ i = (i - 1) + 1
      BY <1>2, <2>2
    <3>2. fwd'[i - 1].type # "CF" /\ Of(i - 1)' = m
      BY <1>2, <1>4, <3>1
    <3> QED
      BY <3>1, <3>2 DEF Accounted
  <2> QED
    BY <2>1, <2>2
<1>5. (Inside("copied") \/ Active) /\ m = send_buffer => Accounted(m)'
  BY <1>1 DEF Accounted
<1> QED
  BY <1>1, <1>3, <1>4, <1>5, StillAccounted

(* A frame that begins a message arrives: what was received before it was    *)
(* given up.                                                                 *)
LEMMA Overtaken ==
  ASSUME TransferInv, LosslessInv, NEW type, type # "CF", Receive(type)
  PROVE  /\ \A i \in 1..Len(fwd) : fwd[i].type # "CF"
         /\ \A i \in 1..Len(fwd') : fwd'[i].type # "CF"
         /\ Reception => Receiving # send_buffer
         /\ lost = 0 /\ Reception => Receiving \in failed
         /\ BlockInv' \/ (back' # <<>> /\ Head(back').fs = "CONTINUE"
                            /\ Head(back').bs \notin BlockSizes)
<1>1. /\ 1 \in 1..Len(fwd) /\ fwd[1].type # "CF" /\ Len(fwd) \in Nat
      /\ \A i \in 1..Len(fwd') : fwd'[i] = fwd[i + 1] /\ i + 1 \in 1..Len(fwd)
      /\ Granted' = Granted
  BY TakenFrame
<1>2. \A i \in 1..Len(fwd) : fwd[i].type # "CF"
  <2> SUFFICES ASSUME NEW i \in 1..Len(fwd), fwd[i].type = "CF" PROVE FALSE
    OBVIOUS
  <2>1. \A j \in 1..(i - 1) : fwd[j].type = "CF"
    BY DEF TransferInv, OrderInv, FirstsInv
  <2>2. i = 1 \/ 1 \in 1..(i - 1)
    BY <1>1
  <2> QED
    BY <1>1, <2>1, <2>2
<1>3. \A i \in 1..Len(fwd') : fwd'[i].type # "CF"
  BY <1>1, <1>2
<1>4. ASSUME Reception PROVE Receiving # send_buffer
  <2>1. Receiving < Of(1)
    BY <1>1, <1>4 DEF TransferInv, WindowInv
  <2>2. Of(1) \in Numbers /\ send_buffer = Len(messages) /\ Len(messages) \in Nat
    BY <1>1, FrameFacts DEF TransferInv, SendingInv, LinkInv, BufferType
  <2>3. Receiving \in Numbers
    BY <1>4, RestToCome
  <2> QED
    BY <2>1, <2>2, <2>3 DEF Numbers
<1>5. ASSUME lost = 0, Reception PROVE Receiving \in failed
  <2>1. Receiving \in failed \/ Ahead(Count(messages[Receiving]) - Taken)
    BY <1>4, <1>5 DEF LosslessInv, PresentInv
  <2>2. ASSUME Ahead(Count(messages[Receiving]) - Taken) PROVE FALSE
    <3>1. 1 \in 1..(Count(messages[Receiving]) - Taken)
      BY <1>5, RestToCome
    <3> QED
      BY <1>1, <2>2, <3>1 DEF Ahead
  <2> QED
    BY <2>1, <2>2
<1>6. ASSUME back' # <<>> /\ Head(back').fs = "CONTINUE" => Head(back').bs \in BlockSizes
      PROVE  BlockInv'
  <2>1. Granted' \in Nat /\ Granted' <= Granted
    BY <1>1, GrantedNat
  <2>2. \A i \in 1..Len(fwd') : fwd'[i].type = "CF" => /\ i + 0 \in 1..Len(fwd)
                                                       /\ fwd[i + 0].type = "CF"
    BY <1>3
  <2> QED
    BY <1>6, <2>1, <2>2, BlockStays DEF LosslessInv
<1> QED
  BY <1>2, <1>3, <1>4, <1>5, <1>6

(* A message of one frame arrives. *)
LEMMA SingleLossless ==
  ASSUME TransferInv, LosslessInv, ReceiveSingleFrame
  PROVE  LosslessInv'
<1>1. /\ Receive("SF") /\ ~Reception' /\ UNCHANGED <<back, failed, lost, ignored, messages>>
      /\ delivered' = Append(delivered, [data |-> <<Head(fwd).piece>>, size |-> Head(fwd).size])
  BY DEF ReceiveSingleFrame, Receive, Full, NoAnswer, Reception, history
<1>2. /\ back = <<>> /\ 1 \in 1..Len(fwd) /\ Head(fwd) = fwd[1] /\ fwd[1].type = "SF"
      /\ Len(fwd) \in Nat /\ Len(fwd') = Len(fwd) - 1
      /\ \A i \in 1..Len(fwd') : fwd'[i] = fwd[i + 1]
      /\ (Active' <=> Active) /\ (MaySend' <=> MaySend)
      /\ Numbers' = Numbers /\ send_buffer' = send_buffer
  BY <1>1, TakenFrame
<1>3. /\ \A i \in 1..Len(fwd') : fwd'[i].type # "CF"
      /\ Reception => Receiving # send_buffer
      /\ lost = 0 /\ Reception => Receiving \in failed
      /\ BlockInv'
  <2>1. "SF" # "CF" /\ back' = <<>>
    BY <1>1, <1>2
  <2> QED
    BY <1>1, <2>1, Overtaken
<1>4. ~MaySend
  BY <1>2 DEF TransferInv, OrderInv, FirstsInv
<1>5. CauseInv'
  <2> SUFFICES ASSUME lost = 0, ignored = 0, Active
               PROVE  \E i \in 1..Len(fwd') : fwd'[i].type = "FF"
    BY <1>1, <1>2 DEF LosslessInv, CauseInv
  <2>1. PICK i \in 1..Len(fwd) : fwd[i].type = "FF"
    BY <1>2, <1>3 DEF LosslessInv, CauseInv
  <2>2. i # 1
    BY <1>2, <2>1
  <2>3. i - 1 \in 1..Len(fwd') /\ i = (i - 1) + 1
    BY <1>2, <2>2
  <2> QED
    BY <1>2, <2>1, <2>3
<1>6. PresentInv'
  <2> SUFFICES ASSUME lost = 0 PROVE PresentInv'
    BY <1>1 DEF PresentInv
  <2>1. ASSUME NEW m \in Numbers PROVE Accounted(m)'
    <3>1. Accounted(m)
      BY DEF LosslessInv, PresentInv
    <3>2. ASSUME Of(1) = m PROVE Accounted(m)'
      <4>1. PICK n \in Nat : n = Len(delivered) + 1
        BY DEF TransferInv
      <4>2. /\ n \in 1..Len(delivered')
            /\ delivered'[n] = [data |-> <<Head(fwd).piece>>, size |-> Head(fwd).size]
        <5>1. delivered \in Seq([data : Seq(Nat \X Nat), size : Nat])
          BY DEF TransferInv
        <5> QED
          BY <1>1, <4>1, <5>1
      <4>3. Delivered(n)' = m
        BY <1>2, <3>2, <4>2 DEF Delivered, Of
      <4> QED
        BY <4>2, <4>3 DEF Accounted
    <3>3. Reception /\ m = Receiving => Accounted(m)'
      BY <1>1, <1>3 DEF Accounted
    <3> QED
      BY <1>1, <3>1, <3>2, <3>3, TakenAccounted
  <2> QED
    BY <1>1, <1>2, <1>3, <1>4, <2>1 DEF PresentInv
<1> QED
  BY <1>1, <1>2, <1>3, <1>5, <1>6 DEF LosslessInv

(* The first frame of a message arrives and is answered.                     *)
LEMMA FirstLossless ==
  ASSUME OneCycle, TransferInv, LosslessInv, ReceiveFirstFrame \/ RefuseFirstFrame
  PROVE  LosslessInv'
<1>1. /\ Receive("FF") /\ delivered' = delivered
      /\ UNCHANGED <<failed, lost, ignored, messages>>
  BY DEF ReceiveFirstFrame, RefuseFirstFrame, Receive, history
<1>2. /\ back = <<>> /\ waits = 0 /\ Head(fwd) = fwd[1] /\ Len(fwd) \in Nat
      /\ (Active' <=> Active) /\ (MaySend' <=> MaySend)
      /\ ToSend' = ToSend
      /\ Numbers' = Numbers /\ send_buffer' = send_buffer
  BY <1>1, TakenFrame
<1>3. /\ fwd' = <<>> /\ Active /\ ~MaySend /\ Of(1) = send_buffer /\ ToSend = 1
      /\ fwd[1].size = messages[send_buffer] /\ fwd[1].piece = <<send_buffer, 0>>
  BY <1>1, FirstAlone
<1>4. /\ Reception => Receiving # send_buffer
      /\ lost = 0 /\ Reception => Receiving \in failed
      /\ BlockInv' \/ (back' # <<>> /\ Head(back').fs = "CONTINUE"
                         /\ Head(back').bs \notin BlockSizes)
  <2>1. "FF" # "CF"
    OBVIOUS
  <2> QED
    BY <1>1, <2>1, Overtaken
<1>5. ASSUME NEW m \in Numbers, lost = 0
      PROVE  Accounted(m)'
  <2>1. Accounted(m)
    BY <1>5 DEF LosslessInv, PresentInv
  <2>2. Of(1) = m => Accounted(m)'
    BY <1>2, <1>3 DEF Accounted
  <2>3. Reception /\ m = Receiving => Accounted(m)'
    BY <1>1, <1>4, <1>5 DEF Accounted
  <2> QED
    BY <1>1, <2>1, <2>2, <2>3, TakenAccounted
<1>6. Len(fwd') = 0
  BY <1>3
<1>7. CASE ReceiveFirstFrame
  <2>1. PICK bs \in BlockSizes : back' = Append(back, [fs |-> "CONTINUE", bs |-> bs])
    <3>1. ~Postpone
      BY <1>2 DEF Postpone, OneCycle
    <3> QED
      BY <1>7, <3>1 DEF ReceiveFirstFrame, Answer, Grant
  <2>2. back' = <<[fs |-> "CONTINUE", bs |-> bs]>>
    BY <1>2, <2>1
  <2>3. back' # <<>> /\ Head(back').fs = "CONTINUE" /\ Head(back').bs = bs
    BY <2>2
  <2>4. BlockInv'
    BY <1>4, <2>3
  <2>5. CauseInv'
    BY <1>1, <2>3 DEF LosslessInv, CauseInv
  <2>6. Reception' /\ Receiving' = send_buffer /\ Taken' = 1
    BY <1>2, <1>3, <1>7 DEF ReceiveFirstFrame, Reception, Receiving, Taken
  <2>7. Ahead(ToSend - Taken)'
    BY <1>2, <1>3, <1>6, <2>6 DEF Ahead
  <2>8. PresentInv'
    BY <1>1, <1>2, <1>3, <1>5, <1>6, <2>6, <2>7 DEF PresentInv
  <2> QED
    BY <1>1, <1>2, <2>4, <2>5, <2>8 DEF LosslessInv
<1>8. CASE RefuseFirstFrame
  <2>1. back' = <<[fs |-> "OVERFLOW", bs |-> 0]>>
    BY <1>2, <1>8 DEF RefuseFirstFrame
  <2>2. back' # <<>> /\ Head(back').fs = "OVERFLOW"
    BY <2>1
  <2>3. BlockInv'
    BY <1>4, <2>2
  <2>4. messages[send_buffer] > RecvBufSize
    BY <1>2, <1>3, <1>8 DEF RefuseFirstFrame
  <2>5. CauseInv'
    BY <1>1, <1>2, <2>2, <2>4 DEF LosslessInv, CauseInv
  <2>6. ~Reception'
    BY <1>8 DEF RefuseFirstFrame, Reception
  <2>7. PresentInv'
    BY <1>1, <1>2, <1>3, <1>5, <1>6, <2>6 DEF PresentInv
  <2> QED
    BY <1>1, <1>2, <2>3, <2>5, <2>7 DEF LosslessInv
<1> QED
  BY <1>7, <1>8


(* A consecutive frame is taken: it is the first of those that were sent.    *)
LEMMA TakenLossless ==
  ASSUME OneCycle, TransferInv, LosslessInv, ReceiveConsecutiveFrame
  PROVE  LosslessInv'
<1>1. /\ Receive("CF") /\ Reception /\ Head(fwd).sn = receive_sn
      /\ receive_buffer' = Append(receive_buffer, Head(fwd).piece)
      /\ receive_offset' = receive_offset + Least(CfData, receive_size - receive_offset)
      /\ UNCHANGED <<failed, lost, ignored, messages>>
  BY DEF ReceiveConsecutiveFrame, Reception, Receive, history
<1>2. /\ back = <<>> /\ waits = 0 /\ Head(fwd) = fwd[1] /\ 1 \in 1..Len(fwd)
      /\ Len(fwd) \in Nat /\ Len(fwd') = Len(fwd) - 1 /\ fwd[1].type = "CF"
      /\ \A i \in 1..Len(fwd') : /\ fwd'[i] = fwd[i + 1] /\ i + 1 \in 1..Len(fwd)
                                 /\ Ordinal(i)' = Ordinal(i + 1)
      /\ (Active' <=> Active) /\ (MaySend' <=> MaySend)
      /\ ToSend' = ToSend /\ Granted' = Granted /\ Numbers' = Numbers
      /\ send_buffer' = send_buffer
  BY <1>1, TakenFrame
<1>3. PICK m \in Numbers, k \in Nat \ {0} :
         /\ m = Receiving /\ k = Taken /\ receive_offset = Offset(k)
         /\ receive_size = messages[m] /\ receive_size \in Nat /\ receive_size > SfData
         /\ Offset(k) < receive_size
         /\ receive_bs_count \in Nat /\ receive_bs_count >= 1 /\ receive_bs_count <= 16
  BY <1>1, RestToCome
<1>4. /\ Active /\ send_buffer = m => k + 1 <= ToSend
      /\ MaySend => Active /\ send_buffer = m
  <2>1. MaySend => Active /\ m = send_buffer
    BY <1>1, <1>3 DEF TransferInv, ReceivedInv, MaySend, Active
  <2> QED
    BY <1>1, <1>2, <1>3, <2>1, ExpectedFrame
<1>5. receive_buffer'[1] = receive_buffer[1] /\ Taken' = k + 1 /\ Receiving' = m
  <2>1. receive_buffer \in Seq(Pieces) /\ Len(receive_buffer) = k
    BY <1>3 DEF TransferInv, LinkInv, ReceiverType, Taken
  <2> QED
    BY <1>1, <1>3, <2>1 DEF Taken, Receiving
<1>6. /\ Count(messages[m]) \in Nat
      /\ receive_offset' >= receive_size => Count(messages[m]) = k + 1
      /\ ~(receive_offset' >= receive_size) => Count(messages[m]) > k + 1
  <2>1. /\ Count(receive_size) \in Nat
        /\ Offset(k + 1) >= receive_size => Count(receive_size) = k + 1
        /\ Offset(k + 1) < receive_size => Count(receive_size) > k + 1
    BY <1>3, CountAt, Zenon
  <2>2. Offset(k + 1) = Offset(k) + 7 /\ Offset(k) \in Nat
    BY DEF Offset, FfData, CfData
  <2>3. IF receive_offset' >= receive_size THEN Offset(k + 1) >= receive_size
                                           ELSE Offset(k + 1) < receive_size
    BY <1>1, <1>3, <2>2 DEF Least, CfData
  <2> QED
    BY <1>3, <2>1, <2>3
<1>7. ASSUME receive_offset' >= receive_size, Active PROVE send_buffer # m
  <2> SUFFICES ASSUME send_buffer = m PROVE FALSE
    OBVIOUS
  <2>1. ToSend \in Nat /\ ToSend < Count(messages[m]) /\ k + 1 <= ToSend
    BY <1>4, <1>7, RestToSend
  <2> QED
    BY <1>3, <1>6, <1>7, <2>1
<1>8. ASSUME receive_offset' >= receive_size
      PROVE  /\ ~Reception' /\ back' = back
             /\ delivered' = Append(delivered, [data |-> receive_buffer', size |-> receive_size])
  BY <1>8 DEF ReceiveConsecutiveFrame, Full, NoAnswer, Reception
<1>9. ASSUME ~(receive_offset' >= receive_size)
      PROVE  /\ Reception' /\ delivered' = delivered
             /\ \/ \E bs \in BlockSizes : back' = <<[fs |-> "CONTINUE", bs |-> bs]>>
                \/ back' = back /\ Limit' = Limit
  <2>1. /\ receive_status' = receive_status /\ delivered' = delivered
        /\ IF receive_bs_count = 1
             THEN Answer
             ELSE /\ receive_bs_count' = (receive_bs_count - 1) % 256
                  /\ UNCHANGED <<back, holding, waits>>
    BY <1>9 DEF ReceiveConsecutiveFrame
  <2>2. Reception'
    BY <1>1, <2>1 DEF Reception
  <2>3. CASE receive_bs_count = 1
    <3>1. ~Postpone
      BY <1>2 DEF Postpone, OneCycle
    <3>2. PICK bs \in BlockSizes : back' = Append(back, [fs |-> "CONTINUE", bs |-> bs])
      BY <2>1, <2>3, <3>1 DEF Answer, Grant
    <3>3. back' = <<[fs |-> "CONTINUE", bs |-> bs]>>
      BY <1>2, <3>2
    <3> QED
      BY <2>1, <2>2, <3>3
  <2>4. CASE receive_bs_count # 1
    <3>1. (receive_bs_count - 1) % 256 = receive_bs_count - 1
      BY <1>3
    <3>2. Limit' = Limit
      BY <1>3, <1>5, <2>1, <2>4, <3>1 DEF Limit
    <3> QED
      BY <2>1, <2>2, <2>4, <3>2
  <2> QED
    BY <2>3, <2>4
<1>10. \/ back' = <<>>
       \/ \E bs \in BlockSizes : /\ back' # <<>> /\ Head(back').fs = "CONTINUE"
                                 /\ Head(back').bs = bs
  <2>1. \A bs : LET s == <<[fs |-> "CONTINUE", bs |-> bs]>>
                IN  s # <<>> /\ Head(s).fs = "CONTINUE" /\ Head(s).bs = bs
    OBVIOUS
  <2> QED
    BY <1>2, <1>8, <1>9, <2>1
<1>11. BlockInv'
  <2>1. Granted' \in Nat /\ Granted' <= Granted
    BY <1>2, GrantedNat
  <2>2. \A i \in 1..Len(fwd') : fwd'[i].type = "CF" => /\ i + 1 \in 1..Len(fwd)
                                                       /\ fwd[i + 1].type = "CF"
    BY <1>2
  <2>3. back' # <<>> /\ Head(back').fs = "CONTINUE" => Head(back').bs \in BlockSizes
    BY <1>10
  <2> QED
    BY <2>1, <2>2, <2>3, BlockStays DEF LosslessInv
<1>12. CauseInv'
  <2>1. ~(back' # <<>> /\ Head(back').fs = "OVERFLOW")
    BY <1>10
  <2> SUFFICES ASSUME lost = 0, ignored = 0, Active, back' = <<>>
               PROVE  \/ \E i \in 1..Len(fwd') : fwd'[i].type = "FF"
                      \/ Reception' /\ Receiving' = send_buffer /\ ToSend + Granted = Limit'
    BY <1>1, <1>2, <2>1 DEF LosslessInv, CauseInv
  <2>2. CASE \E i \in 1..Len(fwd) : fwd[i].type = "FF"
    <3>1. PICK i \in 1..Len(fwd) : fwd[i].type = "FF"
      BY <2>2
    <3>2. PICK j \in 1..Len(fwd') : i = j + 1
      BY <1>2, <3>1
    <3> QED
      BY <1>2, <3>1, <3>2
  <2>3. CASE Receiving = send_buffer /\ ToSend + Granted = Limit
    <3>1. ~(receive_offset' >= receive_size)
      BY <1>3, <1>7, <2>3
    <3>2. \A bs : <<[fs |-> "CONTINUE", bs |-> bs]>> # <<>>
      OBVIOUS
    <3> QED
      BY <1>3, <1>5, <1>9, <2>3, <3>1, <3>2
  <2> QED
    BY <1>2, <2>2, <2>3 DEF LosslessInv, CauseInv
<1>13. ASSUME NEW n \in Int, Ahead(n)
       PROVE  n - 1 <= Len(fwd') /\ \A i \in 1..(n - 1) : fwd'[i].type = "CF"
  BY <1>2, <1>13 DEF Ahead
<1>14. PresentInv'
  <2> SUFFICES ASSUME lost = 0 PROVE PresentInv'
    BY <1>1 DEF PresentInv
  <2>1. ASSUME NEW i \in 1..Len(fwd'), fwd'[i].type = "CF"
        PROVE  /\ Reception' /\ Ordinal(i)' = Taken' + i - 1
               /\ Ordinal(i)' < Count(messages[m])
    <3>1. PICK p \in 1..Len(fwd) : p = i + 1
      BY <1>2
    <3>2. fwd[p].type = "CF" /\ Ordinal(i)' = Ordinal(p)
      BY <1>2, <2>1, <3>1
    <3>3. Ordinal(p) = k + p - 1 /\ Ordinal(p) < Count(messages[m])
      BY <1>3, <3>2 DEF LosslessInv, PresentInv
    <3>4. ~(receive_offset' >= receive_size)
      BY <1>6, <3>1, <3>3
    <3> QED
      BY <1>5, <1>9, <3>1, <3>2, <3>3, <3>4
  <2>2. MaySend => Reception'
    BY <1>4, <1>7, <1>9
  <2>3. ASSUME Reception'
        PROVE  IF Active /\ send_buffer = m
                 THEN Ahead(ToSend - Taken)'
                 ELSE m \in failed \/ Ahead(Count(messages[m]) - Taken)'
    <3>1. IF Active /\ send_buffer = m
            THEN Ahead(ToSend - k)
            ELSE m \in failed \/ Ahead(Count(messages[m]) - k)
      BY <1>1, <1>3 DEF LosslessInv, PresentInv
    <3>2. CASE Active /\ send_buffer = m
      <4>1. ToSend \in Int /\ ToSend - k \in Int
        BY <3>2, RestToSend
      <4>2. ToSend' - Taken' = (ToSend - k) - 1
        BY <1>2, <1>5, <4>1
      <4>3. Ahead(ToSend - Taken)'
        BY <1>13, <3>1, <3>2, <4>1, <4>2 DEF Ahead
      <4> QED
        BY <3>2, <4>3
    <3>3. CASE ~(Active /\ send_buffer = m) /\ Ahead(Count(messages[m]) - k)
      <4>1. Count(messages[m]) - k \in Int
        BY <1>6
      <4>2. Count(messages[m])' - Taken' = (Count(messages[m]) - k) - 1
        BY <1>1, <1>5, <1>6 DEF Count
      <4>3. Ahead(Count(messages[m]) - Taken)'
        BY <1>13, <3>3, <4>1, <4>2 DEF Ahead
      <4> QED
        BY <3>3, <4>3
    <3> QED
      BY <3>1, <3>2, <3>3
  <2>4. ASSUME NEW q \in Numbers PROVE Accounted(q)'
    <3>1. Accounted(q)
      BY DEF LosslessInv, PresentInv
    <3>2. ASSUME q = m PROVE Accounted(q)'
      <4>1. CASE receive_offset' >= receive_size
        <5>1. PICK n \in Nat : n = Len(delivered) + 1
          BY DEF TransferInv
        <5>2. /\ n \in 1..Len(delivered')
              /\ delivered'[n] = [data |-> receive_buffer', size |-> receive_size]
          <6>1. delivered \in Seq([data : Seq(Nat \X Nat), size : Nat])
            BY DEF TransferInv
          <6> QED
            BY <1>8, <4>1, <5>1, <6>1
        <5>3. Delivered(n)' = m
          BY <1>5, <5>2 DEF Delivered, Receiving
        <5> QED
          BY <3>2, <5>2, <5>3 DEF Accounted
      <4>2. CASE ~(receive_offset' >= receive_size)
        BY <1>5, <1>9, <3>2, <4>2 DEF Accounted
      <4> QED
        BY <4>1, <4>2
    <3>3. delivered' = delivered \/ \E d : delivered' = Append(delivered, d)
      BY <1>8, <1>9
    <3> QED
      BY <1>1, <1>2, <1>3, <3>1, <3>2, <3>3, TakenAccounted
  <2>5. Count(messages[m])' = Count(messages[m])
    BY <1>1 DEF Count
  <2>6. \A i \in 1..Len(fwd') : fwd'[i].type = "CF" =>
           /\ Reception' /\ Ordinal(i)' = Taken' + i - 1
           /\ Ordinal(i)' < Count(messages[Receiving])'
    BY <1>1, <1>5, <2>1 DEF Count
  <2>7. Reception' => IF Active' /\ send_buffer' = Receiving'
                        THEN Ahead(ToSend - Taken)'
                        ELSE \/ Receiving' \in failed'
                             \/ Ahead(Count(messages[Receiving]) - Taken)'
    BY <1>1, <1>2, <1>5, <2>3 DEF Ahead, Count
  <2> QED
    BY <1>2, <2>2, <2>4, <2>6, <2>7 DEF PresentInv
<1> QED
  BY <1>1, <1>2, <1>11, <1>12, <1>14 DEF LosslessInv


LEMMA LosslessStep ==
  ASSUME OneCaller, OneCycle, OneBlock, TransferInv, TransferInv', LosslessInv, [Next]_vars
  PROVE  LosslessInv'
<1>1. ASSUME NEW c \in Caller, CheckAndCopy(c) \/ SendSingleFrame(c) \/ SendFirstFrame(c)
      PROVE  LosslessInv'
  BY <1>1, CheckLossless, BeginLossless
<1>2. ASSUME NEW c \in Caller, SetInProgress(c)
      PROVE  LosslessInv'
  <2>1. /\ at[c] = "first" /\ at' = [at EXCEPT ![c] = "idle"]
        /\ send_status' = "INPROGRESS" /\ send_bs_remain' = 0
        /\ UNCHANGED <<receiver, fwd, back, messages, failed, lost, ignored, send_buffer,
                       send_offset>>
    BY <1>2 DEF SetInProgress, history
  <2>2. /\ Inside("first") /\ ~Inside("copied") /\ ~Inside("copied")'
    <3>1. /\ Inside("first") <=> at[c] = "first"
          /\ Inside("copied") <=> at[c] = "copied"
          /\ Inside("copied")' <=> "copied" = "idle"
      BY <2>1, CallerMoves, Zenon DEF TransferInv
    <3> QED
      BY <2>1, <3>1
  <2>3. send_status # "INPROGRESS"
    BY <2>2, OneInside DEF TransferInv
  <2>4. Active /\ Active' /\ Granted = 0 /\ Granted' = 0 /\ ~MaySend'
    BY <2>1, <2>2, <2>3 DEF Active, Granted, MaySend
  <2> QED
    BY <2>1, <2>2, <2>4, StillLossless
<1>3. CASE isotp_poll
  BY <1>3, ConsecutiveLossless, TimeoutLossless, ReceiveTimeoutLossless DEF isotp_poll
<1>4. CASE SenderOnCanMessage
  BY <1>4, FlowLossless
<1>5. CASE ReceiverOnCanMessage
  <2>1. ~AnswerAgain
    BY DEF AnswerAgain, TransferInv, AnswerInv
  <2> QED
    BY <1>5, <2>1, SingleLossless, FirstLossless, TakenLossless, UnexpectedLossless
       DEF ReceiverOnCanMessage
<1>6. CASE Lose
  BY <1>6, LoseLossless
<1>7. CASE UNCHANGED vars
  <2>1. UNCHANGED <<callers, sender, receiver, fwd, back, messages, failed, lost, ignored>>
    BY <1>7 DEF vars, history
  <2>2. /\ UNCHANGED <<send_buffer, send_offset, Granted>>
        /\ (Active' <=> Active) /\ (MaySend' <=> MaySend)
        /\ (Inside("copied")' <=> Inside("copied"))
    BY <2>1 DEF callers, sender, Active, MaySend, Granted, Inside
  <2> QED
    BY <2>1, <2>2, StillLossless
<1> QED
  BY <1>1, <1>2, <1>3, <1>4, <1>5, <1>6, <1>7 DEF Next, isotp_send_with_id

(* What is under way fits into a block. *)
LEMMA BlockKept == ASSUME TransferInv, LosslessInv PROVE NeverFloods
<1> SUFFICES ASSUME NEW bs \in BlockSizes
             PROVE  Cardinality({i \in 1..Len(fwd) : fwd[i].type = "CF"}) <= bs
  BY DEF NeverFloods
<1> DEFINE S == {i \in 1..Len(fwd) : fwd[i].type = "CF"}
<1>1. PICK n \in Nat : /\ Granted + n <= bs
                       /\ \A i \in 1..Len(fwd) : fwd[i].type = "CF" => i <= n
  BY DEF LosslessInv, BlockInv
<1>2. S \in SUBSET (1..n)
  BY <1>1
<1>3. IsFiniteSet(1..n) /\ Cardinality(1..n) = n
  <2>1. /\ IsFiniteSet(1..n)
        /\ Cardinality(1..n) = IF 1 > n THEN 0 ELSE n - 1 + 1
    BY FS_Interval
  <2> QED
    BY <2>1
<1>4. Cardinality(S) <= n /\ IsFiniteSet(S)
  BY <1>2, <1>3, FS_Subset
<1>5. Cardinality(S) \in Nat
  BY <1>4, FS_CardinalityType
<1>6. Granted \in Nat /\ bs \in Nat
  BY GrantedNat, BlockSizesAssumption
<1> HIDE DEF S
<1>7. Cardinality(S) <= bs
  BY <1>1, <1>4, <1>5, <1>6
<1> QED
  BY <1>7 DEF S

(* When nothing is under way, what is accounted for arrived or was given up. *)
LEMMA AllArrived == ASSUME TransferInv, LosslessInv PROVE NoSilentLoss
<1> SUFFICES ASSUME lost = 0, Silent, send_status # "INPROGRESS",
                    NEW m \in Numbers, m \notin failed
             PROVE  m \in Arrived
  BY DEF NoSilentLoss
<1>1. /\ fwd = <<>> /\ ~Inside("copied") /\ ~Active /\ Len(fwd) = 0
  BY DEF Silent, Inside, Active
<1>2. CASE \E i \in 1..Len(delivered) : Delivered(i) = m
  <2>1. PICK i \in 1..Len(delivered) : Delivered(i) = m
    BY <1>2
  <2>2. Arrivals[i] = m /\ Arrivals[i] = Number(delivered[i])
    BY <2>1, ArrivalsAre DEF Arrivals
  <2> QED
    BY <2>1, <2>2 DEF Arrived
<1>3. ~(Reception /\ m = Receiving)
  <2> SUFFICES ASSUME Reception, m = Receiving PROVE FALSE
    OBVIOUS
  <2>1. Ahead(Count(messages[Receiving]) - Taken)
    BY <1>1 DEF LosslessInv, PresentInv
  <2>2. /\ Taken \in Nat /\ Count(messages[Receiving]) \in Nat
        /\ Taken < Count(messages[Receiving])
    BY RestToCome
  <2> QED
    BY <1>1, <2>1, <2>2 DEF Ahead
<1>4. Accounted(m)
  BY DEF LosslessInv, PresentInv
<1> QED
  BY <1>1, <1>2, <1>3, <1>4 DEF Accounted

(* With one caller at a time, isotp.c at both ends and a bus that loses      *)
(* nothing, no message vanishes: each arrives, or its sender ends in         *)
(* ISOTP_SEND_STATUS_ERROR, and that only because the message is too long or *)
(* because the flow control frame came before isotp_send_with_id had set the *)
(* status.  And whatever is lost, no more consecutive frames are under way   *)
(* than were granted.                                                        *)
THEOREM NothingVanishes ==
  ASSUME OneCaller, OneCycle, OneBlock
  PROVE  Spec => [](NeverFloods /\ NoSilentLoss /\ FailureHasCause)
<1>1. Init => TransferInv /\ LosslessInv
  BY InitTransfer, InitLossless
<1>2. TransferInv /\ LosslessInv /\ [Next]_vars => TransferInv' /\ LosslessInv'
  BY TransferStep, LosslessStep
<1>3. TransferInv /\ LosslessInv => NeverFloods /\ NoSilentLoss /\ FailureHasCause
  <2>1. LosslessInv => FailureHasCause
    BY DEF LosslessInv, CauseInv, FailureHasCause
  <2> QED
    BY <2>1, BlockKept, AllArrived
<1> QED
  BY <1>1, <1>2, <1>3, PTL DEF Spec
=============================================================================
