------------------------------ MODULE DidHandler ------------------------------
(***************************************************************************)
(* The UDS dialogue of src/src/DidHandler.cpp: the worker thread, the GUI  *)
(* thread (DidPanel.cpp) and the ECU.                                      *)
(*                                                                         *)
(* The worker asks for an extended session (10 03) and then reads (22) or  *)
(* writes (2E) one DID.  WaitForResponse waits 12 s for m_IsoTpBufLen to   *)
(* become non-zero; OnIsoTpDataReceived sets it without any mutex, for     *)
(* whatever answer arrives.  A timeout is possible although the ECU still  *)
(* works on the request ("late").  Requests and answers keep their order   *)
(* (IsoTp).  A pop of an empty deque and the use of an erased map node are *)
(* undefined behaviour: pc = "crashed".                                    *)
(***************************************************************************)
EXTENDS Integers, Sequences, FiniteSets

CONSTANTS
  Did,          \* the DIDs of DidList.xml
  MaxRetries,   \* MAX_EXTENDED_SESSION_RETRIES
  Answers,      \* what the ECU says
  SessionPends, \* TRUE: the ECU may say "pending" to a session request too
  Destroys,     \* TRUE: the application may exit
  MaxClicks, MaxAborts,                \* bounds of the user
  MaxLate, MaxDrops, MaxPendings       \* bounds of the ECU

ASSUME DidAssumption ==      \* uint16_t
  Did \subseteq Nat /\ Did # {} /\ \A d \in Did : d <= 65535
ASSUME RetryAssumption == MaxRetries \in Nat
ASSUME AnswersAssumption ==
  Answers \subseteq {"ok", "pending", "rejected", "condition", "other"}
ASSUME DidBoundsAssumption ==
  /\ {SessionPends, Destroys} \subseteq BOOLEAN
  /\ {MaxClicks, MaxAborts, MaxLate, MaxDrops, MaxPendings} \subseteq Nat

VARIABLES
  pc, phase, did, retry,          \* the worker; did is curr_did or the map's key
  reads, writes,                  \* m_PendingDidReads, m_PendingDidWrites (0: none)
  dangling,                       \* the map node the for loop stands on is erased
  sem, aborted,                   \* m_Semaphore, m_IsAborted
  bufLen, buf,                    \* m_IsoTpBufLen, m_IsoTpBuffer
  gui,                            \* the GUI thread
  ecu,                            \* requests the ECU has not answered
  value,                          \* whose value entry->value_str shows
  owing,                          \* history: the ECU owed the answer to a read when
                                  \* the worker went on after its last pause
  doubtful,                       \* history: the DIDs whose value came while owing
  wanted, sent, during, unanswered, brokeOff, took,  \* history, see the properties
  used                            \* how much of each bound is used

worker == <<pc, phase, did, retry>>
queues == <<reads, writes, dangling, sem, aborted>>
rx     == <<bufLen, buf>>
shown  == <<value, owing, doubtful>>
hist   == <<shown, wanted, sent, during, unanswered, brokeOff, took>>
vars   == <<worker, queues, rx, gui, ecu, hist, used>>

NoDid == -1
Max == [click |-> MaxClicks, abort |-> MaxAborts, late |-> MaxLate,
        drop |-> MaxDrops, pending |-> MaxPendings]
Spend(k) == used[k] < Max[k] /\ used' = [used EXCEPT ![k] = @ + 1]

(* m_worker.reset() has requested the stop and joins. *)
Stop == gui = "joining"

Init ==
  /\ pc = "idle" /\ phase = "read" /\ did = NoDid /\ retry = 0
  /\ reads = <<>> /\ writes = [d \in Did |-> 0] /\ dangling = FALSE
  /\ sem = FALSE /\ aborted = FALSE
  /\ bufLen = "none" /\ buf = [sid |-> "none", code |-> "ok", did |-> NoDid]
  /\ gui = "idle" /\ ecu = <<>>
  /\ value = [d \in Did |-> NoDid] /\ owing = FALSE /\ doubtful = {}
  /\ wanted = [d \in Did |-> 0] /\ sent = [d \in Did |-> 0]
  /\ during = {} /\ unanswered = {} /\ brokeOff = FALSE /\ took = FALSE
  /\ used = [k \in DOMAIN Max |-> 0]

-----------------------------------------------------------------------------
(* WorkerThread and the loops of HandleDidReading and HandleDidWriting. *)

Acquire ==
  /\ pc = "idle" /\ sem
  /\ sem' = FALSE /\ brokeOff' = FALSE /\ took' = (gui = "released")
  /\ pc' = "loop" /\ phase' = "read" /\ retry' = 0
  /\ UNCHANGED <<did, reads, writes, dangling, aborted, rx, gui, ecu, shown,
                 wanted, sent, during, unanswered, used>>

GoOn == ~aborted /\ ~Stop

ContinueReading ==
  /\ pc = "loop" /\ phase = "read" /\ reads # <<>> /\ GoOn
  /\ pc' = "front"
  /\ UNCHANGED <<phase, did, retry, queues, rx, gui, ecu, hist, used>>

LeaveReading ==
  /\ pc = "loop" /\ phase = "read" /\ (reads = <<>> \/ ~GoOn)
  /\ phase' = "write"
  /\ UNCHANGED <<pc, did, retry, queues, rx, gui, ecu, hist, used>>

Front ==
  /\ pc = "front"
  /\ IF reads = <<>> THEN pc' = "crashed" /\ UNCHANGED did
                     ELSE pc' = "session" /\ did' = Head(reads)
  /\ UNCHANGED <<phase, retry, queues, rx, gui, ecu, hist, used>>

Written == {d \in Did : writes[d] # 0}
Highest(D) == CHOOSE d \in D : \A e \in D : d >= e    \* mutant: the wrong end
Lowest(D) == CHOOSE d \in D : \A e \in D : d <= e

EnterWriting ==
  /\ pc = "loop" /\ phase = "write" /\ Written # {} /\ GoOn
  /\ did' = Lowest(Written) /\ dangling' = FALSE
  /\ pc' = "session"
  /\ UNCHANGED <<phase, retry, reads, writes, sem, aborted, rx, gui, ecu, hist, used>>

SkipWriting ==
  /\ pc = "loop" /\ phase = "write" /\ (Written = {} \/ ~GoOn)
  /\ pc' = "reset"
  /\ UNCHANGED <<phase, did, retry, queues, rx, gui, ecu, hist, used>>

Later == {d \in Written : d > did}

NextWrite ==
  /\ pc = "pause" /\ phase = "write"
  /\ IF dangling THEN pc' = "crashed" /\ UNCHANGED did
                 ELSE Later # {} /\ pc' = "session" /\ did' = Lowest(Later)
  /\ UNCHANGED <<phase, retry, queues, rx, gui, ecu, hist, used>>

ClearWrites ==
  /\ pc = "pause" /\ phase = "write" /\ ~dangling /\ Later = {}
  /\ writes' = [d \in Did |-> 0]
  /\ pc' = "reset"
  /\ UNCHANGED <<phase, did, retry, reads, dangling, sem, aborted, rx, gui, ecu,
                 hist, used>>

ResetAborted ==
  /\ pc = "reset"
  /\ aborted' = FALSE
  /\ pc' = IF Stop THEN "ended" ELSE "idle"
  /\ UNCHANGED <<phase, did, retry, reads, writes, dangling, sem, rx, gui, ecu,
                 hist, used>>

-----------------------------------------------------------------------------
(* SendUdsFrameAndWaitForResponse *)

SendKeepsLength(sid) ==      \* mutant: m_IsoTpBufLen is not reset
  /\ UNCHANGED bufLen
  /\ ecu' = Append(ecu, [sid |-> sid, did |-> IF sid = "session" THEN NoDid ELSE did])

Send(sid) ==
  /\ bufLen' = "none"
  /\ ecu' = Append(ecu, [sid |-> sid, did |-> IF sid = "session" THEN NoDid ELSE did])

SendSession ==
  /\ pc = "session"
  /\ Send("session")
  /\ pc' = "sessionWait"
  /\ UNCHANGED <<phase, did, retry, queues, buf, gui, hist, used>>

Answered == bufLen = "data"
Unanswered ==
  \/ bufLen = "abort" /\ UNCHANGED used
  \/ bufLen = "none" /\ ecu = <<>> /\ UNCHANGED used
  \/ bufLen = "none" /\ ecu # <<>> /\ Spend("late")

SessionAnswered ==
  /\ pc = "sessionWait" /\ Answered
  /\ retry' = 0
  /\ pc' = "request"
  /\ UNCHANGED <<phase, did, queues, rx, gui, ecu, hist, used>>

RetryTooOften ==      \* mutant: the counter is incremented after the comparison
  /\ pc = "sessionWait" /\ Unanswered /\ phase = "read"
  /\ IF retry > MaxRetries
       THEN retry' = 0 /\ reads' = <<>> /\ pc' = "loop" /\ phase' = "write"
       ELSE retry' = retry + 1 /\ pc' = "pause" /\ UNCHANGED <<reads, phase>>
  /\ UNCHANGED <<did, writes, dangling, sem, aborted, rx, gui, ecu, hist>>

RetrySession ==
  /\ pc = "sessionWait" /\ Unanswered /\ phase = "read"
  /\ IF retry + 1 > MaxRetries
       THEN retry' = 0 /\ reads' = <<>> /\ pc' = "loop" /\ phase' = "write"
       ELSE retry' = retry + 1 /\ pc' = "pause" /\ UNCHANGED <<reads, phase>>
  /\ UNCHANGED <<did, writes, dangling, sem, aborted, rx, gui, ecu, hist>>

GiveUpWrite ==
  /\ pc = "sessionWait" /\ Unanswered /\ phase = "write"
  /\ unanswered' = unanswered \cup {did}
  /\ pc' = "pause"
  /\ UNCHANGED <<phase, did, retry, queues, rx, gui, ecu, shown, wanted, sent,
                 during, brokeOff, took>>

SendRead ==
  /\ pc = "request" /\ phase = "read"
  /\ Send("read")
  /\ pc' = "requestWait"
  /\ UNCHANGED <<phase, did, retry, queues, buf, gui, hist, used>>

SendWrite ==
  /\ pc = "request" /\ phase = "write"
  /\ IF dangling
       THEN pc' = "crashed" /\ UNCHANGED <<bufLen, ecu, sent>>
       ELSE /\ Send("write")
            /\ sent' = [sent EXCEPT ![did] = writes[did]]
            /\ pc' = "requestWait"
  /\ UNCHANGED <<phase, did, retry, queues, buf, gui, shown, wanted, during,
                 unanswered, brokeOff, took, used>>

RequestAnswered ==
  /\ pc = "requestWait" /\ Answered
  /\ pc' = "settle"
  /\ UNCHANGED <<phase, did, retry, queues, rx, gui, ecu, hist, used>>

RequestUnanswered ==
  /\ pc = "requestWait" /\ Unanswered
  /\ pc' = "pause"
  /\ UNCHANGED <<phase, did, retry, queues, rx, gui, ecu, hist>>

-----------------------------------------------------------------------------
(* What the worker makes of m_IsoTpBuffer, 50 ms after the answer to a read, *)
(* at once for a write.                                                      *)

Is(sid, code) == buf.sid = sid /\ buf.code = code

(* m_PendingDidReads.pop_front() *)
PopFront(next) ==
  IF reads = <<>> THEN pc' = "crashed" /\ UNCHANGED reads
                  ELSE pc' = next /\ reads' = Tail(reads)

(* The DID in the answer is not compared with the one that was asked for. *)
ShowValue ==
  /\ value' = [value EXCEPT ![did] = buf.did]
  /\ doubtful' = IF owing THEN doubtful \cup {did} ELSE doubtful \ {did}
  /\ UNCHANGED owing

ProcessKeepsDid ==      \* mutant: pop_front is forgotten
  /\ ShowValue
  /\ pc' = "pause"
  /\ UNCHANGED <<phase, did, retry, queues, rx, gui, ecu, wanted, sent, during,
                 unanswered, brokeOff, took, used>>

ProcessReadDidResponse ==
  /\ ShowValue
  /\ PopFront("pause")
  /\ UNCHANGED <<phase, did, retry, writes, dangling, sem, aborted, rx, gui,
                 ecu, wanted, sent, during, unanswered, brokeOff, took, used>>

PopBack ==      \* mutant: takes the DID from the wrong end
  /\ IF reads = <<>> THEN pc' = "crashed" /\ UNCHANGED reads
                     ELSE pc' = "pause" /\ reads' = SubSeq(reads, 1, Len(reads) - 1)
  /\ UNCHANGED <<phase, did, retry, writes, dangling, sem, aborted, rx, gui,
                 ecu, hist, used>>

RejectTwice ==      \* mutant: the caller pops as well
  /\ IF Len(reads) < 2 THEN pc' = "crashed" /\ UNCHANGED reads
                       ELSE pc' = "pause" /\ reads' = Tail(Tail(reads))
  /\ UNCHANGED <<phase, did, retry, writes, dangling, sem, aborted, rx, gui,
                 ecu, hist, used>>

ProcessRejectedNrc ==
  /\ PopFront("pause")
  /\ UNCHANGED <<phase, did, retry, writes, dangling, sem, aborted, rx, gui,
                 ecu, hist, used>>

Continue(next) ==
  /\ pc' = next
  /\ UNCHANGED <<phase, did, retry, queues, rx, gui, ecu, hist, used>>

ReadAnswer ==
  /\ pc = "settle" /\ phase = "read"
  /\ \/ Is("read", "ok") /\ ProcessReadDidResponse
     \/ Is("read", "pending") /\ Continue("pending")
     \/ buf.code = "ok" /\ buf.sid # "read" /\ Continue("pause")
     \/ /\ buf.code \notin {"ok", "condition"} /\ ~Is("read", "pending")
        /\ ProcessRejectedNrc

(* NRC 22: the break leaves the reading loop, the DID stays in the queue. *)
ConditionsNotCorrect ==
  /\ pc = "settle" /\ phase = "read" /\ buf.code = "condition"
  /\ pc' = "loop" /\ phase' = "write"
  /\ brokeOff' = TRUE
  /\ UNCHANGED <<did, retry, queues, rx, gui, ecu, shown, wanted, sent, during,
                 unanswered, took, used>>

WriteAnswer ==
  /\ pc = "settle" /\ phase = "write"
  /\ Continue(IF Is("write", "pending") THEN "pending" ELSE "pause")

(* The loop after NRC 78, for reads and writes. *)
AwaitPending ==
  /\ pc = "pending" /\ GoOn
  /\ bufLen' = "none"
  /\ pc' = "pendingWait"
  /\ UNCHANGED <<phase, did, retry, queues, buf, gui, ecu, hist, used>>

LeavePending == pc = "pending" /\ ~GoOn /\ Continue("pause")

PendingUnanswered ==
  /\ pc = "pendingWait" /\ Unanswered
  /\ pc' = "pause"
  /\ UNCHANGED <<phase, did, retry, queues, rx, gui, ecu, hist>>

PendingReadAnswered ==
  /\ pc = "pendingWait" /\ Answered /\ phase = "read"
  /\ \/ Is("read", "ok") /\ ProcessReadDidResponse
     \/ buf.code = "rejected" /\ ProcessRejectedNrc
     \/ buf.code = "condition" /\ Continue("pause")
     \/ /\ buf.code \in {"ok", "pending", "other"} /\ ~Is("read", "ok")
        /\ Continue("pending")

PendingWriteAnswered ==
  /\ pc = "pendingWait" /\ Answered /\ phase = "write"
  /\ Continue(IF Is("write", "ok") \/ buf.code = "rejected" THEN "pause" ELSE "pending")

(* The pause of MAIN_THREAD_SLEEP after each read; NextWrite and ClearWrites  *)
(* follow the one after each write.  The worker goes on whatever the ECU      *)
(* still owes.                                                                *)
EndPause ==
  /\ pc = "pause" /\ phase = "read"
  /\ pc' = "loop"
  /\ owing' = (\E i \in 1..Len(ecu) : ecu[i].sid = "read")
  /\ UNCHANGED <<phase, did, retry, queues, rx, gui, ecu, value, doubtful, wanted,
                 sent, during, unanswered, brokeOff, took, used>>

-----------------------------------------------------------------------------
(* The GUI thread *)

AddDidToReadQueue ==
  /\ gui \in {"idle", "adding"} /\ Spend("click")
  /\ \E d \in Did : reads' = Append(reads, d)
  /\ gui' = "adding"
  /\ UNCHANGED <<worker, writes, dangling, sem, aborted, rx, ecu, hist>>

(* The worker is inside the for loop of HandleDidWriting. *)
Writing == phase = "write" /\ pc \notin {"idle", "loop", "reset", "ended"}

WriteDid ==
  /\ gui = "idle" /\ Spend("click")
  /\ \E d \in Did :
       /\ writes' = [writes EXCEPT ![d] = used'["click"]]
       /\ wanted' = [wanted EXCEPT ![d] = used'["click"]]
       /\ during' = IF Writing THEN during \cup {d} ELSE during \ {d}
       /\ unanswered' = unanswered \ {d}
  /\ gui' = "adding"
  /\ UNCHANGED <<worker, reads, dangling, sem, aborted, rx, ecu, shown,
                 sent, brokeOff, took>>

NotifyBefore ==      \* mutant: only the worker in acquire() is released
  /\ gui = "adding"
  /\ sem' = (sem \/ pc = "idle")
  /\ gui' = "idle"
  /\ UNCHANGED <<worker, reads, writes, dangling, aborted, rx, ecu, hist, used>>

NotifyDidUpdate ==
  /\ gui = "adding"
  /\ sem' = TRUE
  /\ gui' = "idle"
  /\ UNCHANGED <<worker, reads, writes, dangling, aborted, rx, ecu, hist, used>>

ClearQueues ==
  /\ reads' = <<>> /\ writes' = [d \in Did |-> 0]
  /\ dangling' = TRUE
  /\ wanted' = [d \in Did |-> 0]
  /\ UNCHANGED <<shown, sent, during, unanswered, brokeOff, took>>

AbortDidUpdate ==
  /\ gui = "idle" /\ Spend("abort")
  /\ ClearQueues
  /\ gui' = "cleared"
  /\ UNCHANGED <<worker, sem, aborted, rx, ecu>>

AbortFlag ==
  /\ gui = "cleared"
  /\ aborted' = TRUE
  /\ gui' = "flagged"
  /\ UNCHANGED <<worker, reads, writes, dangling, sem, rx, ecu, hist, used>>

AbortLength ==
  /\ gui = "flagged"
  /\ bufLen' = "abort"
  /\ gui' = "idle"
  /\ UNCHANGED <<worker, queues, buf, ecu, hist, used>>

(* ~DidHandler: release() comes before the stop is requested. *)
Destruct ==
  /\ Destroys /\ gui = "idle"
  /\ ClearQueues
  /\ bufLen' = "abort"
  /\ gui' = "destructing"
  /\ UNCHANGED <<worker, sem, aborted, buf, ecu, used>>

NoRelease ==      \* mutant: the semaphore is not released
  /\ gui = "destructing"
  /\ gui' = "released"
  /\ UNCHANGED <<worker, queues, rx, ecu, hist, used>>

Release ==
  /\ gui = "destructing"
  /\ sem' = TRUE
  /\ gui' = "released"
  /\ UNCHANGED <<worker, reads, writes, dangling, aborted, rx, ecu, hist, used>>

RequestStop ==
  /\ gui = "released"
  /\ gui' = "joining"
  /\ UNCHANGED <<worker, queues, rx, ecu, hist, used>>

-----------------------------------------------------------------------------
(* The ECU answers its requests in order; OnIsoTpDataReceived stores what it *)
(* says.  After "pending" it still owes the answer.                          *)

OnIsoTpDataReceived(answer) ==
  /\ buf' = answer
  /\ bufLen' = "data"
  /\ UNCHANGED <<worker, queues, gui, hist>>

EcuAnswers ==
  /\ ecu # <<>>
  /\ \E code \in Answers :
       /\ code = "pending" => SessionPends \/ Head(ecu).sid # "session"
       /\ OnIsoTpDataReceived([sid |-> Head(ecu).sid, code |-> code, did |-> Head(ecu).did])
       /\ IF code = "pending" THEN Spend("pending") /\ UNCHANGED ecu
                              ELSE ecu' = Tail(ecu) /\ UNCHANGED used

EcuDrops ==
  /\ ecu # <<>>
  /\ Spend("drop")
  /\ ecu' = Tail(ecu)
  /\ UNCHANGED <<worker, queues, rx, gui, hist>>

-----------------------------------------------------------------------------
HandleDidReading ==
  \/ ContinueReading \/ LeaveReading \/ Front \/ RetrySession \/ SendRead
  \/ ReadAnswer \/ ConditionsNotCorrect \/ PendingReadAnswered \/ EndPause

HandleDidWriting ==
  \/ EnterWriting \/ SkipWriting \/ NextWrite \/ ClearWrites \/ ResetAborted
  \/ GiveUpWrite \/ SendWrite \/ WriteAnswer \/ PendingWriteAnswered

Dialogue ==
  \/ SendSession \/ SessionAnswered \/ RequestAnswered \/ RequestUnanswered
  \/ AwaitPending \/ LeavePending \/ PendingUnanswered

WorkerThread == Acquire \/ HandleDidReading \/ HandleDidWriting \/ Dialogue

GuiReturns == NotifyDidUpdate \/ AbortFlag \/ AbortLength \/ Release \/ RequestStop

Gui == AddDidToReadQueue \/ WriteDid \/ AbortDidUpdate \/ Destruct \/ GuiReturns

Next == pc # "crashed" /\ (WorkerThread \/ Gui \/ EcuAnswers \/ EcuDrops)

Spec == Init /\ [][Next]_vars

(* The worker and the GUI thread run; the ECU answers or drops each request. *)
FairSpec ==
  /\ Spec
  /\ WF_vars(WorkerThread) /\ WF_vars(GuiReturns) /\ WF_vars(EcuAnswers \/ EcuDrops)

-----------------------------------------------------------------------------
(* Properties *)

(* Types; the retry counter never exceeds MAX_EXTENDED_SESSION_RETRIES.      *)
TypeOK ==
  /\ pc \in {"idle", "loop", "front", "session", "sessionWait", "request",
             "requestWait", "settle", "pending", "pendingWait", "pause", "reset",
             "ended", "crashed"}
  /\ phase \in {"read", "write"}
  /\ did \in Did \cup {NoDid}
  /\ retry \in 0..MaxRetries
  /\ reads \in Seq(Did)
  /\ writes \in [Did -> Nat] /\ wanted \in [Did -> Nat] /\ sent \in [Did -> Nat]
  /\ dangling \in BOOLEAN /\ sem \in BOOLEAN /\ aborted \in BOOLEAN
  /\ brokeOff \in BOOLEAN /\ took \in BOOLEAN /\ owing \in BOOLEAN
  /\ bufLen \in {"none", "data", "abort"}
  /\ buf.did \in Did \cup {NoDid}
  /\ gui \in {"idle", "adding", "cleared", "flagged", "destructing", "released", "joining"}
  /\ ecu \in Seq([sid : {"session", "read", "write"}, did : Did \cup {NoDid}])
  /\ value \in [Did -> Did \cup {NoDid}]
  /\ during \subseteq Did /\ unanswered \subseteq Did /\ doubtful \subseteq Did
  /\ used \in [DOMAIN Max -> Nat]

(* front() and pop_front() are never called on an empty deque, whatever is   *)
(* added meanwhile and however late the ECU answers.                         *)
NoEmptyPop == pc # "crashed"

(* The DID that leaves m_PendingDidReads is the one that was asked for:      *)
(* curr_did was read many steps and two waits before pop_front().  Only      *)
(* giving up clears the rest.                                                *)
RemovesTheAsked ==
  [][Len(reads') < Len(reads) => /\ Head(reads) = did
                                 /\ reads' \in {Tail(reads), <<>>}]_vars

Rest == pc = "idle" /\ ~sem /\ gui = "idle"

(* "Add DID to read queue which is being read by this handler": when the     *)
(* worker rests nothing waits, unless an NRC 22 ended the reading.           *)
NothingLeftBehind == Rest => reads = <<>> \/ brokeOff

(* When the worker rests the last value requested for each DID was sent,     *)
(* unless the ECU did not answer the session request or the value was        *)
(* requested while HandleDidWriting was iterating over the map.              *)
WritesAccounted ==
  Rest => \A d \in Did : sent[d] = wanted[d] \/ d \in unanswered \/ d \in during

(* value_str shows the value of this DID, not of another one, unless it came *)
(* while the ECU was behind: the answer to an earlier read is then taken for *)
(* this one's.  Once the ECU has caught up by the end of a pause, whatever   *)
(* it said late, twice or not at all, the values are right again.            *)
ValueIsOfDid == \A d \in Did : value[d] \in {d, NoDid} \/ d \in doubtful

(* "In progress DID updating has been aborted": no answer of an aborted      *)
(* update is processed any more.                                             *)
AbortEnds ==
  [][aborted /\ reads = <<>> /\ gui = "idle" => value' = value /\ pc' # "crashed"]_vars

(* The ECU stops being behind with its answers to reads.  One that is behind *)
(* for ever keeps the worker reading for ever: each overdue answer passes    *)
(* for the session's, the session's is ignored and the DID stays.            *)
CatchesUp == <>[]~owing

(* The worker comes to rest, however often the ECU says "pending", drops     *)
(* requests or is late; an ECU that stays silent is given up.  (An exit that *)
(* clears the list under the worker may crash it instead.)                   *)
WorkerRests == CatchesUp => ((pc # "idle") ~> (pc \in {"idle", "ended", "crashed"}))

(* What is queued for reading is answered, rejected or given up.             *)
ReadsEnd == CatchesUp => \A d \in Did :
  (\E i \in 1..Len(reads) : reads[i] = d)
    ~> (brokeOff \/ \A i \in 1..Len(reads) : reads[i] # d)

(* A dialogue ends, with all that was queued for it.                         *)
DialogueEnds == WorkerRests /\ ReadsEnd

(* ~DidHandler joins the worker unless the worker took the semaphore         *)
(* between release() and the stop request, and is back in acquire().         *)
DestructorReturns == Stop ~> (pc \in {"ended", "crashed"} \/ took)
=============================================================================
