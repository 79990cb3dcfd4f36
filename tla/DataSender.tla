----------------------------- MODULE DataSender -----------------------------
(***************************************************************************)
(* DataSender (src/src/DataSender.cpp) sends the entries of its list in    *)
(* turn and waits for the answer of each; DataSerialPort                   *)
(* (src/src/DataSerialPort.cpp) queues what is sent and hands over the     *)
(* lines received.  The worker of DataSender, the thread of the port, the  *)
(* thread that receives and the GUI meet without a common mutex: the TX    *)
(* queue, m_response and m_isResponseReceived are shared bare.  A request  *)
(* is the number of its SendData call.  The log (m_RecvMsg) is left out.   *)
(*                                                                         *)
(* m_TxQueue is MSVC's deque, whose offset and size every push and pop     *)
(* writes.  Two accesses at once, or a pop() of an empty queue, leave it   *)
(* `torn': it may then hold any request made so far, or none, and the      *)
(* program may crash, that is take no step more.                           *)
(***************************************************************************)
EXTENDS Integers, Sequences, FiniteSets

CONSTANTS DataQueueMax, \* TX_QUEUE_MAX_SIZE
          MaxEntries,   \* bound: entries of the list
          MaxSends      \* bound: calls of SendData

ASSUME DataSenderAssumption == {DataQueueMax, MaxEntries} \subseteq Nat \ {0} /\ MaxSends \in Nat

VARIABLES
  dsEntries,  \* the list: [auto (else trigger), count (m_maxSendCount), idle (m_period = 0)]
  dsPc,       \* the worker: loop, auto or trigger (waiting), sent (of a trigger)
  dsIndex,    \* vecIndex
  dsTimes,    \* m_sentTimes of each entry
  dsOn,       \* is_sending
  dsResponse, \* m_response: the request it answers, or 0: empty, or not asked for
  dsReceived, \* m_isResponseReceived
  dsRx,       \* OnDataReceived has stored a line that is not announced
  dsQueue,    \* m_TxQueue
  dsPort,     \* the request the port's thread sends: between front() and pop(), or 0
  dsBus,      \* environment: requests sent and not answered (yet, or ever)
  dsTorn,     \* m_TxQueue was accessed by two at once, or popped when empty
  dsWhat,     \* history: the entry of each request
  dsSent,     \* history: the requests written to the port until dsTorn
  dsLost,     \* history: entries an overflow or ClearBuffers took off until dsTorn
  dsDoubt,    \* history: the last request was made before all others were answered,
              \* or a line that no request asked for came since it was made
  dsVerdict   \* history: the last request whose answer was reported to be right, and
              \* the request it answered, unless dsDoubt or dsTorn put it in doubt

dsList   == <<dsEntries, dsIndex, dsTimes>>
dsAnswer == <<dsResponse, dsReceived, dsRx>>
dsWire   == <<dsQueue, dsPort, dsBus, dsTorn, dsSent, dsLost>>
dsPast   == <<dsWhat, dsDoubt, dsVerdict>>
dsVars   == <<dsList, dsPc, dsOn, dsAnswer, dsWire, dsPast>>

NoVerdict == [asked |-> 0, got |-> 0]
Made == Len(dsWhat)

DataSenderInit ==
  /\ \E n \in 1..MaxEntries :
       dsEntries \in [1..n -> [auto : BOOLEAN, count : {1, 2}, idle : BOOLEAN]]
  /\ dsPc = "loop" /\ dsIndex = 1 /\ dsOn = TRUE
  /\ dsTimes = [i \in 1..Len(dsEntries) |-> 0]
  /\ dsResponse = 0 /\ dsReceived = FALSE /\ dsRx = FALSE
  /\ dsQueue = <<>> /\ dsPort = 0 /\ dsBus = {} /\ dsTorn = FALSE
  /\ dsSent = <<>> /\ dsLost = 0
  /\ dsWhat = <<>> /\ dsDoubt = FALSE /\ dsVerdict = NoVerdict

-----------------------------------------------------------------------------
(* The worker. *)

(* What a torn queue is found to hold, of the first n requests. *)
Found(n) == {<<>>} \cup {<<k>> : k \in 1..n}

(* AddToTxQueue, with its overflow: the oldest entry goes, though it may be  *)
(* the one that the port's thread is sending.                                *)
AddToTxQueue ==
  LET pushed == Append(dsQueue, Made + 1)
      full == Len(pushed) > DataQueueMax
  IN  IF dsTorn
        THEN dsQueue' \in Found(Made + 1) /\ UNCHANGED dsLost
        ELSE /\ dsQueue' = IF full THEN Tail(pushed) ELSE pushed
             /\ dsLost' = IF full THEN dsLost + 1 ELSE dsLost

(* SendData: the answer so far is thrown away, the data queued. *)
SendData(e) ==
  /\ Made < MaxSends
  /\ dsResponse' = 0 /\ dsReceived' = FALSE
  /\ dsWhat' = Append(dsWhat, e)
  /\ dsDoubt' = (dsBus # {} \/ dsQueue # <<>> \/ dsRx)
  /\ AddToTxQueue

After(i) == IF i >= Len(dsEntries) THEN 1 ELSE i + 1

TurnOnce(e) ==      \* mutant: m_maxSendCount is ignored
  /\ dsIndex' = After(dsIndex) /\ UNCHANGED dsTimes

(* The entry has its turn; after m_maxSendCount of them it is the next one's. *)
Turn(e) ==
  LET n == IF dsEntries[e].count = 1 THEN 1 ELSE dsTimes[e] + 1
      last == n >= dsEntries[e].count
  IN  /\ dsTimes' = [dsTimes EXCEPT ![e] = IF last THEN 0 ELSE n]
      /\ dsIndex' = IF last THEN After(dsIndex) ELSE dsIndex

(* HandleAutoSendFrames: an entry that is not due is not sent, its answer    *)
(* is waited for all the same.  An entry without period is passed over, and  *)
(* stays the current one.                                                    *)
AutoSend ==
  /\ dsPc = "loop" /\ dsOn
  /\ dsEntries[dsIndex].auto /\ ~dsEntries[dsIndex].idle
  /\ dsPc' = "auto"
  /\ \/ Turn(dsIndex) /\ SendData(dsIndex)
     \/ /\ dsEntries[dsIndex].count > 1
        /\ UNCHANGED <<dsTimes, dsIndex, dsResponse, dsReceived, dsWhat, dsDoubt,
                       dsQueue, dsLost>>
  /\ UNCHANGED <<dsEntries, dsOn, dsRx, dsPort, dsBus, dsTorn, dsSent, dsVerdict>>

(* HandleTriggerSendFrames: first the wait, then the sending. *)
TriggerWait ==
  /\ dsPc = "loop" /\ dsOn
  /\ ~dsEntries[dsIndex].auto /\ ~dsEntries[dsIndex].idle
  /\ dsPc' = "trigger"
  /\ UNCHANGED <<dsEntries, dsIndex, dsTimes, dsOn, dsAnswer, dsWire, dsPast>>

(* Every character of the expected answer is compared with the next one      *)
(* received, and "RX Data OK" is logged when all of those agree: a cut or     *)
(* empty answer, and another's, may pass.                                     *)
Judged ==
  \/ dsVerdict' = IF dsDoubt \/ dsTorn THEN NoVerdict ELSE [asked |-> Made, got |-> dsResponse]
  \/ dsVerdict' = NoVerdict

AutoAnswered ==
  /\ dsPc = "auto" /\ dsReceived
  /\ Judged
  /\ dsPc' = "loop" /\ dsReceived' = FALSE
  /\ UNCHANGED <<dsList, dsOn, dsResponse, dsRx, dsWire, dsWhat, dsDoubt>>

TriggerAnswered ==
  /\ dsPc = "trigger" /\ dsReceived
  /\ Judged
  /\ Turn(dsIndex) /\ SendData(dsIndex)
  /\ dsPc' = "sent"
  /\ UNCHANGED <<dsEntries, dsOn, dsRx, dsPort, dsBus, dsTorn, dsSent>>

(* The flag is reset once more: an answer that came meanwhile is missed.     *)
TriggerReset ==
  /\ dsPc = "sent"
  /\ dsPc' = "loop" /\ dsReceived' = FALSE
  /\ UNCHANGED <<dsList, dsOn, dsResponse, dsRx, dsWire, dsPast>>

NoResponse ==
  /\ dsPc \in {"auto", "trigger"} /\ ~dsReceived
  /\ dsPc' = "loop"
  /\ dsVerdict' = NoVerdict
  /\ UNCHANGED <<dsList, dsOn, dsAnswer, dsWire, dsWhat, dsDoubt>>

-----------------------------------------------------------------------------
(* The thread that receives, under m_RxMutex, which the port's thread holds  *)
(* while it sends: m_response, then the flag.  A line may be a request's     *)
(* answer or one that nobody asked for; nobody looks whether another waits.  *)
OnDataReceived(k) ==
  /\ ~dsRx /\ dsPort = 0
  /\ dsBus' = dsBus \ {k}
  /\ dsResponse' = k /\ dsRx' = TRUE
  /\ dsDoubt' = (dsDoubt \/ k = 0)
  /\ UNCHANGED <<dsList, dsPc, dsOn, dsReceived, dsQueue, dsPort, dsTorn, dsSent, dsLost,
                 dsWhat, dsVerdict>>

Line == \E k \in dsBus \cup {0} : OnDataReceived(k)

Announce ==
  /\ dsRx
  /\ dsRx' = FALSE /\ dsReceived' = TRUE
  /\ UNCHANGED <<dsList, dsPc, dsOn, dsResponse, dsWire, dsPast>>

(* The thread of the port: SendPendingDataFrames copies the front, writes it *)
(* and pops, without the mutex of AddToTxQueue for front() and pop().        *)
SendFront ==
  /\ dsPort = 0 /\ dsQueue # <<>> /\ ~dsRx
  /\ dsPort' = Head(dsQueue) /\ dsBus' = dsBus \cup {Head(dsQueue)}
  /\ dsSent' = IF dsTorn THEN dsSent ELSE Append(dsSent, Head(dsQueue))
  /\ UNCHANGED <<dsList, dsPc, dsOn, dsAnswer, dsQueue, dsTorn, dsLost, dsPast>>

PopFront ==
  /\ dsPort # 0
  /\ dsPort' = 0
  /\ dsTorn' = (dsTorn \/ dsQueue = <<>>)
  /\ IF dsTorn' THEN dsQueue' \in Found(Made) ELSE dsQueue' = Tail(dsQueue)
  /\ UNCHANGED <<dsList, dsPc, dsOn, dsAnswer, dsBus, dsSent, dsLost, dsPast>>

-----------------------------------------------------------------------------
(* The GUI. *)

StartSending ==
  /\ ~dsOn /\ dsOn' = TRUE
  /\ UNCHANGED <<dsList, dsPc, dsAnswer, dsWire, dsPast>>

(* Stop and Clear: ToggleSending(false) and ClearBuffers, also under a frame *)
(* that is being sent.                                                       *)
StopSending ==
  /\ dsOn /\ dsOn' = FALSE
  /\ IF dsTorn THEN dsQueue' \in Found(Made) /\ UNCHANGED dsLost
               ELSE dsQueue' = <<>> /\ dsLost' = dsLost + Len(dsQueue)
  /\ UNCHANGED <<dsList, dsPc, dsAnswer, dsPort, dsBus, dsTorn, dsSent, dsPast>>

(* Two of the worker's push, the port's front() or pop() and the pops of     *)
(* ClearBuffers are at m_TxQueue at once; what each finds follows from its   *)
(* own step.                                                                 *)
WorkerAtQueue ==
  /\ Made < MaxSends /\ ~dsEntries[dsIndex].idle
  /\ \/ dsPc = "loop" /\ dsOn /\ dsEntries[dsIndex].auto
     \/ dsPc = "trigger" /\ dsReceived
PortAtQueue == dsPort # 0 \/ (dsQueue # <<>> /\ ~dsRx)
GuiAtQueue == dsOn /\ dsQueue # <<>>

Collide ==
  /\ ~dsTorn
  /\ \/ WorkerAtQueue /\ PortAtQueue
     \/ WorkerAtQueue /\ GuiAtQueue
     \/ PortAtQueue /\ GuiAtQueue
  /\ dsTorn' = TRUE /\ dsQueue' \in Found(Made)
  /\ UNCHANGED <<dsList, dsPc, dsOn, dsAnswer, dsPort, dsBus, dsSent, dsLost, dsPast>>

DataSenderNext ==
  \/ AutoSend \/ AutoAnswered \/ TriggerWait \/ TriggerAnswered \/ TriggerReset \/ NoResponse
  \/ Line \/ Announce \/ SendFront \/ PopFront
  \/ StartSending \/ StopSending \/ Collide

DataSenderSpec == DataSenderInit /\ [][DataSenderNext]_dsVars

-----------------------------------------------------------------------------
(* Properties. *)

(* The entries are sent in turn, each m_maxSendCount times, whatever times   *)
(* out, is answered late or is stopped in between.                           *)
Round == [i \in 1..Len(dsEntries) |-> dsEntries[i].count]
SendsInTurn ==
  \A k \in 1..(Made - 1) :
    IF Cardinality({ j \in 1..k : dsWhat[j] = dsWhat[k] }) % Round[dsWhat[k]] = 0
      THEN dsWhat[k + 1] = (dsWhat[k] % Len(dsEntries)) + 1
      ELSE dsWhat[k + 1] = dsWhat[k]

(* "RX Data OK" is said of the answer to the last request, unless since that *)
(* request a line came that no request asked for, or an earlier request was  *)
(* still unanswered when it was made: nothing ties a line to its request.    *)
(* Once all that was asked is answered the verdicts are right again.         *)
OkIsOfLastRequest == dsVerdict.got = dsVerdict.asked

(* Until two were at the queue at once, or ClearBuffers emptied it under a   *)
(* frame being sent, each request is sent once and in turn, although the     *)
(* overflow of AddToTxQueue or ClearBuffers may take the front between       *)
(* front() and pop(); and each that is not sent is one of those these took.  *)
SentOnce == dsTorn \/ \A i, j \in 1..Len(dsSent) : i < j => dsSent[i] < dsSent[j]
LossIsCounted == dsTorn \/ Made - Len(dsQueue) <= Len(dsSent) + dsLost

(* Of the list, the answers and the queue.                                   *)
DataSenderSafe == SendsInTurn /\ OkIsOfLastRequest /\ SentOnce /\ LossIsCounted
=============================================================================
