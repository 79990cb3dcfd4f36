-------------------------- MODULE DidHandler_proofs --------------------------
(***************************************************************************)
(* Types hold always.  Without aborts, and before the destructor runs, the *)
(* worker's pops are safe and it rests only when it has done what it was   *)
(* asked for: for every set of DIDs, every number of requests, and an ECU  *)
(* that is as late, as mute or as confused as it likes.  Each DID shows    *)
(* its own value unless it came while the ECU was behind.                  *)
(***************************************************************************)
EXTENDS DidHandler, WellFoundedInduction, TLAPS

NoAborts == MaxAborts = 0 /\ ~Destroys

Bounds == {"click", "abort", "late", "drop", "pending"}

(* The worker has read curr_did and has not removed it. *)
Asking == phase = "read" /\ pc \in {"session", "sessionWait", "request",
                                    "requestWait", "settle", "pending", "pendingWait"}

DidTypeOK ==
  /\ reads \in Seq(Did)
  /\ used \in [Bounds -> Nat]
  /\ gui \in {"idle", "adding"}

(* While the worker asks for a DID it stays at the front of the queue. *)
FrontInv ==
  /\ pc # "crashed" /\ ~dangling
  /\ pc = "front" => phase = "read" /\ reads # <<>>
  /\ Asking => reads # <<>> /\ Head(reads) = did

DInv == DidTypeOK /\ FrontInv

LEMMA DomainMax == DOMAIN Max = Bounds
BY DEF Max, Bounds

LEMMA SpendType ==
  ASSUME DInv, NEW k \in Bounds, Spend(k)
  PROVE  used' \in [Bounds -> Nat]
BY DEF DInv, DidTypeOK, Spend

LEMMA UnansweredType ==
  ASSUME DInv, Unanswered
  PROVE  used' \in [Bounds -> Nat]
<1>1. CASE used' = used
  BY <1>1 DEF DInv, DidTypeOK
<1>2. CASE Spend("late")
  BY <1>2, SpendType DEF Bounds
<1> QED
  BY <1>1, <1>2 DEF Unanswered

LEMMA InitD == Init => DInv
<1> SUFFICES ASSUME Init PROVE DInv
  OBVIOUS
<1>1. used \in [Bounds -> Nat]
  BY DomainMax DEF Init
<1>2. reads \in Seq(Did)
  BY DEF Init
<1> QED
  BY <1>1, <1>2 DEF Init, DInv, DidTypeOK, FrontInv, Asking

(* Steps of the worker that leave the queue alone and do not start to ask. *)
LEMMA LoopStep ==
  ASSUME DInv,
         Acquire \/ ContinueReading \/ LeaveReading \/ EnterWriting
         \/ SkipWriting \/ ClearWrites \/ ResetAborted \/ EndPause
         \/ ConditionsNotCorrect \/ WriteAnswer \/ PendingWriteAnswered
  PROVE  DInv'
<1> USE DEF DInv, DidTypeOK, FrontInv, Asking, queues, hist, Continue
<1>1. CASE Acquire
  BY <1>1 DEF Acquire
<1>2. CASE ContinueReading
  BY <1>2 DEF ContinueReading
<1>3. CASE LeaveReading
  BY <1>3 DEF LeaveReading
<1>4. CASE EnterWriting
  BY <1>4 DEF EnterWriting
<1>5. CASE SkipWriting
  BY <1>5 DEF SkipWriting
<1>6. CASE ClearWrites
  BY <1>6 DEF ClearWrites
<1>7. CASE ResetAborted
  BY <1>7 DEF ResetAborted
<1>8. CASE EndPause
  BY <1>8 DEF EndPause
<1>9. CASE ConditionsNotCorrect
  BY <1>9 DEF ConditionsNotCorrect
<1>10. CASE WriteAnswer
  BY <1>10 DEF WriteAnswer
<1>11. CASE PendingWriteAnswered
  BY <1>11 DEF PendingWriteAnswered
<1> QED
  BY <1>1, <1>2, <1>3, <1>4, <1>5, <1>6, <1>7, <1>8, <1>9, <1>10, <1>11

(* front(), and the two dialogues with the ECU. *)
LEMMA AskStep ==
  ASSUME DInv,
         Front \/ NextWrite \/ SendSession \/ SessionAnswered \/ SendRead
         \/ SendWrite \/ RequestAnswered \/ AwaitPending \/ LeavePending
  PROVE  DInv'
<1> USE DEF DInv, DidTypeOK, FrontInv, Asking, queues, hist, Continue
<1>1. CASE Front
  BY <1>1 DEF Front
<1>2. CASE NextWrite
  BY <1>2 DEF NextWrite
<1>3. CASE SendSession
  BY <1>3 DEF SendSession
<1>4. CASE SessionAnswered
  BY <1>4 DEF SessionAnswered
<1>5. CASE SendRead
  BY <1>5 DEF SendRead
<1>6. CASE SendWrite
  BY <1>6 DEF SendWrite
<1>7. CASE RequestAnswered
  BY <1>7 DEF RequestAnswered
<1>8. CASE AwaitPending
  BY <1>8 DEF AwaitPending
<1>9. CASE LeavePending
  BY <1>9 DEF LeavePending
<1> QED
  BY <1>1, <1>2, <1>3, <1>4, <1>5, <1>6, <1>7, <1>8, <1>9

(* A wait that ends without an answer. *)
LEMMA TimeoutStep ==
  ASSUME DInv, RetrySession \/ GiveUpWrite \/ RequestUnanswered \/ PendingUnanswered
  PROVE  DInv'
<1>1. used' \in [Bounds -> Nat]
  BY UnansweredType DEF RetrySession, GiveUpWrite, RequestUnanswered, PendingUnanswered
<1> USE <1>1 DEF DInv, DidTypeOK, FrontInv, Asking, queues, hist
<1>2. CASE RetrySession
  <2>1. /\ reads' = reads \/ reads' = <<>>
        /\ pc' \in {"loop", "pause"} /\ gui' = gui
    BY <1>2 DEF RetrySession
  <2>2. DidTypeOK'
    <3>1. <<>> \in Seq(Did)
      OBVIOUS
    <3>2. reads' \in Seq(Did)
      BY <2>1, <3>1
    <3> QED
      BY <2>1, <3>2
  <2>3. dangling' = dangling
    BY <1>2 DEF RetrySession
  <2> QED
    BY <2>1, <2>2, <2>3
<1>3. CASE GiveUpWrite
  BY <1>3 DEF GiveUpWrite
<1>4. CASE RequestUnanswered
  BY <1>4 DEF RequestUnanswered
<1>5. CASE PendingUnanswered
  BY <1>5 DEF PendingUnanswered
<1> QED
  BY <1>2, <1>3, <1>4, <1>5

(* pop_front() after an answer: the DID asked for leaves, nothing crashes. *)
LEMMA PopStep ==
  ASSUME DInv, Asking, ProcessReadDidResponse \/ ProcessRejectedNrc
  PROVE  DInv' /\ Head(reads) = did /\ reads' = Tail(reads)
<1>1. /\ PopFront("pause") /\ UNCHANGED <<phase, did, dangling, gui, used>>
  BY DEF ProcessReadDidResponse, ProcessRejectedNrc
<1>2. reads # <<>> /\ Head(reads) = did
  BY DEF DInv, FrontInv
<1>3. pc' = "pause" /\ reads' = Tail(reads)
  BY <1>1, <1>2 DEF PopFront
<1> QED
  BY <1>1, <1>2, <1>3 DEF DInv, DidTypeOK, FrontInv, Asking

LEMMA ContinueStep ==
  ASSUME DInv, NEW l \in {"pause", "pending"}, Asking, Continue(l)
  PROVE  DInv'
BY DEF DInv, DidTypeOK, FrontInv, Asking, Continue, queues

LEMMA AnswerStep ==
  ASSUME DInv, ReadAnswer \/ PendingReadAnswered
  PROVE  DInv'
<1>1. Asking
  BY DEF ReadAnswer, PendingReadAnswered, Asking
<1>2. \/ ProcessReadDidResponse \/ ProcessRejectedNrc
      \/ Continue("pause") \/ Continue("pending")
  BY DEF ReadAnswer, PendingReadAnswered
<1> QED
  BY <1>1, <1>2, PopStep, ContinueStep

(* The user adds at the back; without aborts nobody else touches the queue. *)
LEMMA GuiStep ==
  ASSUME NoAborts, DInv, Gui
  PROVE  DInv'
<1> USE DEF DInv, DidTypeOK, FrontInv, Asking, worker, queues
<1>1. CASE AddDidToReadQueue
  <2>1. PICK d \in Did : reads' = Append(reads, d)
    BY <1>1 DEF AddDidToReadQueue
  <2>2. used' \in [Bounds -> Nat]
    BY <1>1, SpendType DEF AddDidToReadQueue, Bounds
  <2>3. gui' = "adding" /\ UNCHANGED <<pc, phase, did, dangling>>
    BY <1>1 DEF AddDidToReadQueue
  <2>4. reads' \in Seq(Did) /\ reads' # <<>>
    BY <2>1
  <2>5. reads # <<>> => Head(reads') = Head(reads)
    BY <2>1
  <2> QED
    BY <2>2, <2>3, <2>4, <2>5
<1>2. CASE WriteDid
  <2>1. used' \in [Bounds -> Nat]
    BY <1>2, SpendType DEF WriteDid, Bounds
  <2> QED
    BY <1>2, <2>1 DEF WriteDid
<1>3. CASE AbortDidUpdate
  <2>1. used["abort"] \in Nat /\ used["abort"] < Max["abort"]
    BY <1>3 DEF AbortDidUpdate, Spend, Bounds
  <2> QED
    BY <2>1 DEF NoAborts, Max
<1>4. CASE Destruct
  BY <1>4 DEF Destruct, NoAborts
<1>5. CASE GuiReturns
  BY <1>5 DEF GuiReturns, NotifyDidUpdate, AbortFlag, AbortLength, Release, RequestStop
<1> QED
  BY <1>1, <1>2, <1>3, <1>4, <1>5 DEF Gui

LEMMA EcuStep ==
  ASSUME DInv, EcuAnswers \/ EcuDrops
  PROVE  DInv'
<1>1. UNCHANGED <<worker, queues, gui>>
  BY DEF EcuAnswers, EcuDrops, OnIsoTpDataReceived
<1>2. used' = used \/ Spend("pending") \/ Spend("drop")
  BY DEF EcuAnswers, EcuDrops
<1>3. used' \in [Bounds -> Nat]
  BY <1>2, SpendType DEF Bounds, DInv, DidTypeOK
<1> QED
  BY <1>1, <1>3 DEF DInv, DidTypeOK, FrontInv, Asking, worker, queues

LEMMA NextD == ASSUME NoAborts, DInv, [Next]_vars PROVE DInv'
<1>1. CASE WorkerThread
  BY <1>1, LoopStep, AskStep, TimeoutStep, AnswerStep
     DEF WorkerThread, HandleDidReading, HandleDidWriting, Dialogue
<1>2. CASE UNCHANGED vars
  BY <1>2 DEF vars, worker, queues, DInv, DidTypeOK, FrontInv, Asking
<1> QED
  BY <1>1, <1>2, GuiStep, EcuStep DEF Next

(* The queue's front is the DID in the worker's hands in every reachable     *)
(* state, when nothing is aborted.                                           *)
THEOREM FrontIsAsked == ASSUME NoAborts PROVE Spec => []DInv
  BY InitD, NextD, PTL DEF Spec

(* front() and pop_front() are never called on an empty deque.               *)
THEOREM PopsAreSafe == ASSUME NoAborts PROVE Spec => []NoEmptyPop
<1>1. DInv => NoEmptyPop
  BY DEF DInv, FrontInv, NoEmptyPop
<1> QED
  BY FrontIsAsked, <1>1, PTL

Removal == /\ Head(reads) = did
           /\ reads' \in {Tail(reads), <<>>}

(* RetrySession is the only step besides the pops that removes something. *)
LEMMA WorkerRemoves ==
  ASSUME DInv, WorkerThread
  PROVE  reads' = reads \/ Removal
<1>1. CASE RetrySession
  <2>1. Asking /\ (reads' = reads \/ reads' = <<>>)
    BY <1>1 DEF RetrySession, Asking
  <2> QED
    BY <2>1 DEF DInv, FrontInv, Removal
<1>2. CASE ReadAnswer \/ PendingReadAnswered
  <2>1. Asking
    BY <1>2 DEF ReadAnswer, PendingReadAnswered, Asking
  <2>2. \/ ProcessReadDidResponse \/ ProcessRejectedNrc
        \/ Continue("pause") \/ Continue("pending")
    BY <1>2 DEF ReadAnswer, PendingReadAnswered
  <2>3. CASE ProcessReadDidResponse \/ ProcessRejectedNrc
    BY <2>1, <2>3, PopStep DEF Removal
  <2>4. CASE Continue("pause") \/ Continue("pending")
    BY <2>4 DEF Continue, queues
  <2> QED
    BY <2>2, <2>3, <2>4
<1>3. CASE \/ ContinueReading \/ LeaveReading \/ Front \/ SendRead
           \/ ConditionsNotCorrect \/ EndPause
  BY <1>3 DEF ContinueReading, LeaveReading, Front, SendRead,
              ConditionsNotCorrect, EndPause, Continue, queues
<1>4. CASE Acquire \/ HandleDidWriting
  BY <1>4 DEF Acquire, HandleDidWriting, EnterWriting, SkipWriting, NextWrite,
              ClearWrites, ResetAborted, GiveUpWrite, SendWrite, WriteAnswer,
              PendingWriteAnswered, Continue, queues
<1>5. CASE Dialogue
  BY <1>5 DEF Dialogue, SendSession, SessionAnswered, RequestAnswered,
              RequestUnanswered, AwaitPending, LeavePending,
              PendingUnanswered, Continue, queues
<1> QED
  BY <1>1, <1>2, <1>3, <1>4, <1>5 DEF WorkerThread, HandleDidReading

(* What leaves m_PendingDidReads is the DID the worker asked for.            *)
THEOREM AskedIsRemoved == ASSUME NoAborts PROVE Spec => RemovesTheAsked
<1>1. DInv /\ DInv' /\ [Next]_vars
        => [Len(reads') < Len(reads) => Removal]_vars
  <2> SUFFICES ASSUME DInv, DInv', Next, Len(reads') < Len(reads)
               PROVE  Removal
    BY DEF vars, queues
  <2>1. reads' # reads /\ Len(reads) \in Nat
    BY DEF DInv, DidTypeOK
  <2>2. CASE WorkerThread
    BY <2>1, <2>2, WorkerRemoves
  <2>3. CASE AddDidToReadQueue
    <3>1. PICK d \in Did : reads' = Append(reads, d)
      BY <2>3 DEF AddDidToReadQueue
    <3>2. Len(reads') = Len(reads) + 1
      BY <3>1 DEF DInv, DidTypeOK
    <3> QED
      BY <3>2, <2>1
  <2>4. CASE AbortDidUpdate
    <3>1. used["abort"] \in Nat /\ used["abort"] < Max["abort"]
      BY <2>4 DEF AbortDidUpdate, Spend, DInv, DidTypeOK, Bounds
    <3> QED
      BY <3>1 DEF NoAborts, Max
  <2>5. CASE Destruct
    BY <2>5 DEF Destruct, NoAborts
  <2>6. CASE WriteDid \/ GuiReturns \/ EcuAnswers \/ EcuDrops
    BY <2>6, <2>1 DEF WriteDid, GuiReturns, NotifyDidUpdate, AbortFlag,
       AbortLength, Release, RequestStop, EcuAnswers, EcuDrops,
       OnIsoTpDataReceived, queues
  <2> QED
    BY <2>2, <2>3, <2>4, <2>5, <2>6 DEF Next, Gui
<1> QED
  BY FrontIsAsked, <1>1, PTL DEF RemovesTheAsked, Spec, Removal

-----------------------------------------------------------------------------
(* Types, with aborts and the destructor. *)

(* curr_did or the key of the map entry in the worker's hands. *)
AtDid == pc \in {"session", "sessionWait", "request", "requestWait", "settle",
                 "pending", "pendingWait", "pause"}

TInv == TypeOK /\ (AtDid => did \in Did)

Below == {ss \in Nat \X Nat : ss[1] < ss[2]}

LEMMA LeastExists ==
  ASSUME NEW D, D \subseteq Nat, D # {}
  PROVE  \E d \in D : \A e \in D : d <= e
<1>1. OpToRel(<, Nat) = Below
  BY DEF OpToRel, Below
<1>2. IsWellFoundedOn(Below, Nat)
  BY <1>1, NatLessThanWellFounded
<1>3. PICK d \in D : \A e \in D : ~(<<e, d>> \in Below)
  BY <1>2, WFMin
<1>4. \A e \in D : ~(e < d)
  BY <1>3 DEF Below
<1> QED
  BY <1>4

LEMMA LowestIsLeast ==
  ASSUME NEW D, D \subseteq Did, D # {}
  PROVE  Lowest(D) \in D /\ \A e \in D : Lowest(D) <= e
<1>1. D \subseteq Nat
  BY DidAssumption
<1>2. \E d \in D : \A e \in D : d <= e
  BY <1>1, LeastExists
<1> QED
  BY <1>2 DEF Lowest

(* TypeOK, a conjunct for each group of variables. *)
WorkerType ==
  /\ pc \in {"idle", "loop", "front", "session", "sessionWait", "request",
             "requestWait", "settle", "pending", "pendingWait", "pause", "reset",
             "ended", "crashed"}
  /\ phase \in {"read", "write"}
  /\ did \in Did \cup {NoDid}
  /\ retry \in 0..MaxRetries
  /\ AtDid => did \in Did
QueueType ==
  /\ reads \in Seq(Did) /\ writes \in [Did -> Nat]
  /\ dangling \in BOOLEAN /\ sem \in BOOLEAN /\ aborted \in BOOLEAN
Request == [sid : {"session", "read", "write"}, did : Did \cup {NoDid}]
BusType ==
  /\ bufLen \in {"none", "data", "abort"}
  /\ buf.did \in Did \cup {NoDid}
  /\ ecu \in Seq(Request)
GuiType ==
  /\ gui \in {"idle", "adding", "cleared", "flagged", "destructing", "released", "joining"}
  /\ used \in [Bounds -> Nat]
HistType ==
  /\ value \in [Did -> Did \cup {NoDid}]
  /\ wanted \in [Did -> Nat] /\ sent \in [Did -> Nat]
  /\ during \subseteq Did /\ unanswered \subseteq Did /\ doubtful \subseteq Did
  /\ brokeOff \in BOOLEAN /\ took \in BOOLEAN /\ owing \in BOOLEAN

LEMMA TypeParts ==
  TInv <=> WorkerType /\ QueueType /\ BusType /\ GuiType /\ HistType
BY DomainMax DEF TInv, TypeOK, WorkerType, QueueType,
   BusType, Request, GuiType, HistType

LEMMA TypePartsNext ==
  WorkerType' /\ QueueType' /\ BusType' /\ GuiType' /\ HistType' => TInv'
BY DomainMax DEF TInv, TypeOK, WorkerType, QueueType,
   BusType, Request, GuiType, HistType

(* What a step leaves alone keeps its type. *)
LEMMA TypeFrames ==
  ASSUME TInv
  PROVE  /\ UNCHANGED worker => WorkerType'
         /\ UNCHANGED queues => QueueType'
         /\ UNCHANGED <<rx, ecu>> => BusType'
         /\ UNCHANGED <<gui, used>> => GuiType'
         /\ UNCHANGED hist => HistType'
<1>1. WorkerType /\ QueueType /\ BusType /\ GuiType /\ HistType
  BY TypeParts
<1>2. UNCHANGED worker => WorkerType'
  BY <1>1 DEF worker, WorkerType, AtDid
<1>3. UNCHANGED queues => QueueType'
  BY <1>1 DEF queues, QueueType
<1>4. UNCHANGED <<rx, ecu>> => BusType'
  BY <1>1 DEF rx, BusType
<1>5. UNCHANGED <<gui, used>> => GuiType'
  BY <1>1 DEF GuiType
<1>6. UNCHANGED hist => HistType'
  BY <1>1 DEF hist, shown, HistType
<1> QED
  BY <1>2, <1>3, <1>4, <1>5, <1>6

LEMMA InitT == Init => TInv
<1> SUFFICES ASSUME Init PROVE TInv
  OBVIOUS
<1>1. WorkerType
  BY RetryAssumption DEF Init, WorkerType, AtDid
<1>2. QueueType
  <2>1. reads \in Seq(Did)
    BY DEF Init
  <2>2. writes \in [Did -> Nat]
    BY DEF Init
  <2>3. dangling \in BOOLEAN /\ sem \in BOOLEAN /\ aborted \in BOOLEAN
    BY DEF Init
  <2> QED
    BY <2>1, <2>2, <2>3 DEF QueueType
<1>3. BusType
  BY DEF Init, BusType
<1>4. GuiType
  BY DomainMax DEF Init, GuiType
<1>5. HistType
  BY DEF Init, HistType
<1> QED
  BY <1>1, <1>2, <1>3, <1>4, <1>5, TypeParts

LEMMA SpendKeepsType ==
  ASSUME TInv, NEW k \in Bounds, Spend(k)
  PROVE  used' \in [Bounds -> Nat] /\ used'[k] \in Nat
<1>1. used \in [Bounds -> Nat]
  BY TypeParts DEF GuiType
<1> QED
  BY <1>1 DEF Spend

LEMMA UnansweredKeepsType ==
  ASSUME TInv, Unanswered
  PROVE  used' \in [Bounds -> Nat]
<1>1. used' = used \/ Spend("late")
  BY DEF Unanswered
<1> QED
  BY <1>1, SpendKeepsType, TypeParts DEF GuiType, Bounds

(* Steps of the worker that leave everything but its own state alone. *)
LEMMA WorkerTypeStep ==
  ASSUME TInv, WorkerType', UNCHANGED <<queues, rx, ecu, gui, used, hist>>
  PROVE  TInv'
<1>1. UNCHANGED <<rx, ecu>> /\ UNCHANGED <<gui, used>>
  OBVIOUS
<1> QED
  BY <1>1, TypeFrames, TypePartsNext

LEMMA LoopTypes ==
  ASSUME TInv, ContinueReading \/ LeaveReading \/ Front \/ SkipWriting
               \/ NextWrite \/ SessionAnswered \/ RequestAnswered
  PROVE  TInv'
<1>1. WorkerType /\ QueueType
  BY TypeParts
<1>2. UNCHANGED <<queues, rx, ecu, gui, used, hist>>
  BY DEF ContinueReading, LeaveReading, Front, SkipWriting, NextWrite,
         SessionAnswered, RequestAnswered
<1> USE <1>1 DEF WorkerType, AtDid
<1>3. CASE ContinueReading
  BY <1>2, <1>3, WorkerTypeStep DEF ContinueReading
<1>4. CASE LeaveReading
  BY <1>2, <1>4, WorkerTypeStep DEF LeaveReading
<1>5. CASE Front
  <2>1. \/ pc' = "crashed" /\ did' = did
        \/ pc' = "session" /\ reads # <<>> /\ did' = Head(reads)
    BY <1>5 DEF Front
  <2>2. reads # <<>> => Head(reads) \in Did
    BY DEF QueueType
  <2>3. phase' = phase /\ retry' = retry
    BY <1>5 DEF Front
  <2> QED
    BY <1>2, <2>1, <2>2, <2>3, WorkerTypeStep
<1>6. CASE SkipWriting
  BY <1>2, <1>6, WorkerTypeStep DEF SkipWriting
<1>7. CASE NextWrite
  <2>1. Later # {} => Lowest(Later) \in Did
    BY LowestIsLeast DEF Later, Written
  <2>2. \/ pc' = "crashed" /\ did' = did
        \/ pc' = "session" /\ did' \in Did
    BY <1>7, <2>1 DEF NextWrite
  <2>3. phase' = phase /\ retry' = retry
    BY <1>7 DEF NextWrite
  <2> QED
    BY <1>2, <2>2, <2>3, WorkerTypeStep
<1>8. CASE SessionAnswered
  BY <1>2, <1>8, WorkerTypeStep, RetryAssumption DEF SessionAnswered
<1>9. CASE RequestAnswered
  BY <1>2, <1>9, WorkerTypeStep DEF RequestAnswered
<1> QED
  BY <1>3, <1>4, <1>5, <1>6, <1>7, <1>8, <1>9

LEMMA ContinueTypes ==
  ASSUME TInv, NEW l \in {"pause", "pending", "loop"}, AtDid, Continue(l)
  PROVE  TInv'
<1>1. WorkerType'
  BY TypeParts DEF Continue, WorkerType, AtDid
<1>2. UNCHANGED <<queues, rx, ecu, gui, used, hist>>
  BY DEF Continue
<1> QED
  BY <1>1, <1>2, WorkerTypeStep

LEMMA AppendType ==
  ASSUME NEW S, NEW s \in Seq(S), NEW e \in S
  PROVE  Append(s, e) \in Seq(S)
  OBVIOUS

LEMMA TailType ==
  ASSUME NEW S, NEW s \in Seq(S), s # <<>>
  PROVE  Tail(s) \in Seq(S)
  OBVIOUS

LEMMA PopTypes ==
  ASSUME TInv, AtDid, ProcessReadDidResponse \/ ProcessRejectedNrc
  PROVE  TInv'
<1>1. /\ PopFront("pause")
      /\ UNCHANGED <<phase, did, retry, writes, dangling, sem, aborted, rx, gui, ecu, used>>
      /\ UNCHANGED <<wanted, sent, during, unanswered, brokeOff, took>>
      /\ value' = value \/ value' = [value EXCEPT ![did] = buf.did]
      /\ owing' = owing /\ doubtful' \subseteq doubtful \cup {did}
  BY DEF ProcessReadDidResponse, ProcessRejectedNrc, ShowValue, hist, shown
<1>2. WorkerType /\ QueueType /\ BusType /\ HistType
  BY TypeParts
<1>3. WorkerType'
  BY <1>1, <1>2 DEF PopFront, WorkerType, AtDid
<1>4. QueueType'
  <2>1. reads' = reads \/ (reads # <<>> /\ reads' = Tail(reads))
    BY <1>1 DEF PopFront
  <2>2. reads' \in Seq(Did)
    BY <1>2, <2>1, TailType DEF QueueType
  <2> QED
    BY <1>1, <1>2, <2>2 DEF QueueType
<1>5. HistType'
  <2>1. value' \in [Did -> Did \cup {NoDid}]
    BY <1>1, <1>2 DEF BusType, HistType
  <2>2. doubtful' \subseteq Did
    BY <1>1, <1>2 DEF AtDid, WorkerType, HistType
  <2> QED
    BY <1>1, <1>2, <2>1, <2>2 DEF HistType
<1> QED
  <2>1. UNCHANGED <<rx, ecu>> /\ UNCHANGED <<gui, used>>
    BY <1>1
  <2> QED
    BY <1>3, <1>4, <1>5, <2>1, TypeFrames, TypePartsNext

LEMMA PauseTypes == ASSUME TInv, EndPause PROVE TInv'
<1>1. WorkerType /\ HistType
  BY TypeParts
<1>2. UNCHANGED queues /\ UNCHANGED <<rx, ecu>> /\ UNCHANGED <<gui, used>>
  BY DEF EndPause
<1>3. WorkerType'
  BY <1>1 DEF EndPause, WorkerType, AtDid
<1>4. HistType'
  BY <1>1 DEF EndPause, HistType
<1> QED
  BY <1>2, <1>3, <1>4, TypeFrames, TypePartsNext

LEMMA AnswerTypes ==
  ASSUME TInv, \/ ReadAnswer \/ PendingReadAnswered \/ WriteAnswer
               \/ PendingWriteAnswered \/ LeavePending
  PROVE  TInv'
<1>1. AtDid
  BY DEF ReadAnswer, PendingReadAnswered, WriteAnswer, PendingWriteAnswered,
         LeavePending, AtDid
<1>2. \/ ProcessReadDidResponse \/ ProcessRejectedNrc
      \/ Continue("pause") \/ Continue("pending")
  BY DEF ReadAnswer, PendingReadAnswered, WriteAnswer, PendingWriteAnswered,
         LeavePending
<1> QED
  BY <1>1, <1>2, PopTypes, ContinueTypes

LEMMA DialogueTypes ==
  ASSUME TInv, SendSession \/ SendRead \/ SendWrite \/ AwaitPending
  PROVE  TInv'
<1>1. WorkerType /\ QueueType /\ BusType /\ HistType
  BY TypeParts
<1>2. UNCHANGED queues /\ UNCHANGED <<gui, used>>
  BY DEF SendSession, SendRead, SendWrite, AwaitPending
<1>3. WorkerType'
  BY <1>1 DEF SendSession, SendRead, SendWrite, AwaitPending, WorkerType, AtDid
<1>4. BusType'
  <2>1. buf' = buf
    BY DEF SendSession, SendRead, SendWrite, AwaitPending
  <2>2. bufLen' = bufLen \/ bufLen' = "none"
    BY DEF SendSession, SendRead, SendWrite, AwaitPending, Send
  <2> DEFINE Asks(sid) == [sid |-> sid, did |-> IF sid = "session" THEN NoDid ELSE did]
  <2>3. ecu' = ecu \/ \E sid \in {"session", "read", "write"} : ecu' = Append(ecu, Asks(sid))
    BY DEF SendSession, SendRead, SendWrite, AwaitPending, Send
  <2>4. ecu' \in Seq(Request)
    <3>1. \A sid \in {"session", "read", "write"} : Asks(sid) \in Request
      BY <1>1 DEF Request, WorkerType
    <3> HIDE DEF Asks
    <3> QED
      BY <1>1, <2>3, <3>1, AppendType DEF BusType
  <2> QED
    BY <1>1, <2>1, <2>2, <2>4 DEF BusType
<1>5. HistType'
  <2>1. CASE SendWrite
    <3>1. did \in Did
      BY <1>1, <2>1 DEF SendWrite, WorkerType, AtDid
    <3>2. sent' \in [Did -> Nat]
      BY <1>1, <2>1, <3>1 DEF SendWrite, HistType, QueueType
    <3>3. UNCHANGED <<shown, wanted, during, unanswered, brokeOff, took>>
      BY <2>1 DEF SendWrite
    <3> QED
      BY <1>1, <3>2, <3>3 DEF HistType, shown
  <2>2. CASE SendSession \/ SendRead \/ AwaitPending
    BY <2>2, TypeFrames DEF SendSession, SendRead, AwaitPending
  <2> QED
    BY <2>1, <2>2
<1> QED
  BY <1>2, <1>3, <1>4, <1>5, TypeFrames, TypePartsNext

LEMMA TimeoutTypes ==
  ASSUME TInv, RetrySession \/ GiveUpWrite \/ RequestUnanswered \/ PendingUnanswered
  PROVE  TInv'
<1>1. WorkerType /\ QueueType /\ GuiType /\ HistType
  BY TypeParts
<1>2. GuiType' /\ UNCHANGED <<rx, ecu>>
  <2>1. used' \in [Bounds -> Nat]
    BY UnansweredKeepsType DEF RetrySession, GiveUpWrite, RequestUnanswered, PendingUnanswered
  <2>2. gui' = gui /\ UNCHANGED <<rx, ecu>>
    BY DEF RetrySession, GiveUpWrite, RequestUnanswered, PendingUnanswered
  <2> QED
    BY <1>1, <2>1, <2>2 DEF GuiType
<1>3. WorkerType'
  <2>1. CASE RetrySession
    <3>1. retry' \in 0..MaxRetries
      BY <1>1, <2>1, RetryAssumption DEF RetrySession, WorkerType
    <3>2. pc' \in {"loop", "pause"} /\ phase' \in {"read", "write"} /\ did' = did
      BY <1>1, <2>1 DEF RetrySession, WorkerType
    <3>3. did \in Did
      BY <1>1, <2>1 DEF RetrySession, WorkerType, AtDid
    <3> QED
      BY <3>1, <3>2, <3>3 DEF WorkerType
  <2>2. CASE GiveUpWrite \/ RequestUnanswered \/ PendingUnanswered
    BY <1>1, <2>2 DEF GiveUpWrite, RequestUnanswered, PendingUnanswered, WorkerType, AtDid
  <2> QED
    BY <2>1, <2>2
<1>4. QueueType'
  <2>1. CASE RetrySession
    <3>1. <<>> \in Seq(Did)
      OBVIOUS
    <3>2. reads' = reads \/ reads' = <<>>
      BY <2>1 DEF RetrySession
    <3> QED
      BY <1>1, <2>1, <3>1, <3>2 DEF RetrySession, QueueType
  <2>2. CASE GiveUpWrite \/ RequestUnanswered \/ PendingUnanswered
    BY <2>2, TypeFrames DEF GiveUpWrite, RequestUnanswered, PendingUnanswered
  <2> QED
    BY <2>1, <2>2
<1>5. HistType'
  <2>1. CASE GiveUpWrite
    <3>1. unanswered' \subseteq Did
      BY <1>1, <2>1 DEF GiveUpWrite, HistType, WorkerType, AtDid
    <3> QED
      BY <1>1, <2>1, <3>1 DEF GiveUpWrite, HistType, shown
  <2>2. CASE RetrySession \/ RequestUnanswered \/ PendingUnanswered
    BY <2>2, TypeFrames DEF RetrySession, RequestUnanswered, PendingUnanswered
  <2> QED
    BY <2>1, <2>2
<1> QED
  BY <1>2, <1>3, <1>4, <1>5, TypeFrames, TypePartsNext

LEMMA PassTypes ==
  ASSUME TInv, \/ Acquire \/ EnterWriting \/ ClearWrites \/ ResetAborted
               \/ ConditionsNotCorrect
  PROVE  TInv'
<1>1. WorkerType /\ QueueType /\ HistType
  BY TypeParts
<1>2. UNCHANGED <<rx, ecu>> /\ UNCHANGED <<gui, used>>
  BY DEF Acquire, EnterWriting, ClearWrites, ResetAborted, ConditionsNotCorrect
<1>3. WorkerType'
  <2>1. CASE EnterWriting
    <3>1. did' \in Did
      BY <2>1, LowestIsLeast DEF EnterWriting, Written
    <3> QED
      BY <1>1, <2>1, <3>1 DEF EnterWriting, WorkerType
  <2>2. CASE Acquire
    BY <1>1, <2>2, RetryAssumption DEF Acquire, WorkerType, AtDid
  <2>3. CASE ClearWrites \/ ResetAborted \/ ConditionsNotCorrect
    BY <1>1, <2>3 DEF ClearWrites, ResetAborted, ConditionsNotCorrect, WorkerType, AtDid
  <2> QED
    BY <2>1, <2>2, <2>3
<1>4. QueueType'
  <2>1. reads' = reads
    BY DEF Acquire, EnterWriting, ClearWrites, ResetAborted, ConditionsNotCorrect, queues
  <2>2. writes' = writes \/ writes' = [d \in Did |-> 0]
    BY DEF Acquire, EnterWriting, ClearWrites, ResetAborted, ConditionsNotCorrect, queues
  <2>3. writes' \in [Did -> Nat]
    BY <1>1, <2>2 DEF QueueType
  <2>4. dangling' \in BOOLEAN /\ sem' \in BOOLEAN /\ aborted' \in BOOLEAN
    BY <1>1 DEF Acquire, EnterWriting, ClearWrites, ResetAborted, ConditionsNotCorrect,
                queues, QueueType
  <2> QED
    BY <1>1, <2>1, <2>3, <2>4 DEF QueueType
<1>5. HistType'
  <2>1. UNCHANGED <<shown, wanted, sent, during, unanswered>>
    BY DEF Acquire, EnterWriting, ClearWrites, ResetAborted, ConditionsNotCorrect, hist
  <2>2. brokeOff' \in BOOLEAN /\ took' \in BOOLEAN
    BY <1>1 DEF Acquire, EnterWriting, ClearWrites, ResetAborted, ConditionsNotCorrect,
                hist, HistType
  <2> QED
    BY <1>1, <2>1, <2>2 DEF HistType, shown
<1> QED
  BY <1>2, <1>3, <1>4, <1>5, TypeFrames, TypePartsNext

LEMMA UserTypes ==
  ASSUME TInv, Gui
  PROVE  TInv'
<1>1. QueueType /\ BusType /\ GuiType /\ HistType
  BY TypeParts
<1>2. WorkerType'
  <2>1. UNCHANGED worker
    BY DEF Gui, AddDidToReadQueue, WriteDid, AbortDidUpdate, Destruct, GuiReturns,
           NotifyDidUpdate, AbortFlag, AbortLength, Release, RequestStop
  <2> QED
    BY <2>1, TypeFrames
<1>3. CASE AddDidToReadQueue
  <2>1. PICK d \in Did : reads' = Append(reads, d)
    BY <1>3 DEF AddDidToReadQueue
  <2>2. reads' \in Seq(Did)
    BY <1>1, <2>1, AppendType DEF QueueType
  <2>3. QueueType'
    BY <1>1, <1>3, <2>2 DEF AddDidToReadQueue, QueueType
  <2>4. GuiType'
    BY <1>3, SpendKeepsType DEF AddDidToReadQueue, GuiType, Bounds
  <2> QED
    BY <1>2, <1>3, <2>3, <2>4, TypeFrames, TypePartsNext DEF AddDidToReadQueue
<1>4. CASE WriteDid
  <2>1. used' \in [Bounds -> Nat] /\ used'["click"] \in Nat
    BY <1>4, SpendKeepsType DEF WriteDid, Bounds
  <2>2. PICK d \in Did :
          /\ writes' = [writes EXCEPT ![d] = used'["click"]]
          /\ wanted' = [wanted EXCEPT ![d] = used'["click"]]
          /\ during' = IF Writing THEN during \cup {d} ELSE during \ {d}
          /\ unanswered' = unanswered \ {d}
    BY <1>4 DEF WriteDid
  <2>3. writes' \in [Did -> Nat] /\ wanted' \in [Did -> Nat]
    BY <1>1, <2>1, <2>2 DEF QueueType, HistType
  <2>4. during' \subseteq Did /\ unanswered' \subseteq Did
    BY <1>1, <2>2 DEF HistType
  <2>5. QueueType' /\ HistType' /\ GuiType'
    <3>1. QueueType'
      BY <1>1, <1>4, <2>3 DEF WriteDid, QueueType
    <3>2. HistType'
      BY <1>1, <1>4, <2>3, <2>4 DEF WriteDid, HistType, shown
    <3>3. GuiType'
      BY <1>4, <2>1 DEF WriteDid, GuiType
    <3> QED
      BY <3>1, <3>2, <3>3
  <2> QED
    BY <1>2, <1>4, <2>5, TypeFrames, TypePartsNext DEF WriteDid
<1>5. CASE AbortDidUpdate \/ Destruct
  <2>1. /\ reads' = <<>> /\ writes' = [d \in Did |-> 0] /\ dangling' = TRUE
        /\ wanted' = [d \in Did |-> 0]
        /\ UNCHANGED <<sem, aborted, shown, sent, during, unanswered, brokeOff, took>>
    BY <1>5 DEF AbortDidUpdate, Destruct, ClearQueues
  <2>2. QueueType'
    <3>1. reads' \in Seq(Did) /\ writes' \in [Did -> Nat]
      BY <2>1
    <3>2. dangling' \in BOOLEAN
      BY <2>1
    <3> QED
      BY <1>1, <2>1, <3>1, <3>2 DEF QueueType
  <2>3. HistType'
    BY <1>1, <2>1 DEF HistType, shown
  <2>4. BusType'
    BY <1>1, <1>5 DEF AbortDidUpdate, Destruct, BusType, rx
  <2>5. used' \in [Bounds -> Nat]
    BY <1>1, <1>5, SpendKeepsType DEF AbortDidUpdate, Destruct, Bounds, GuiType
  <2>6. GuiType'
    BY <1>5, <2>5 DEF AbortDidUpdate, Destruct, GuiType
  <2> QED
    BY <1>2, <2>2, <2>3, <2>4, <2>6, TypePartsNext
<1>6. CASE GuiReturns
  <2>1. HistType'
    BY <1>6, TypeFrames DEF GuiReturns, NotifyDidUpdate, AbortFlag, AbortLength,
                            Release, RequestStop
  <2>2. QueueType'
    <3>1. reads' = reads /\ writes' = writes /\ dangling' = dangling
      BY <1>6 DEF GuiReturns, NotifyDidUpdate, AbortFlag, AbortLength, Release,
                  RequestStop, queues
    <3>2. (sem' = sem \/ sem' = TRUE) /\ (aborted' = aborted \/ aborted' = TRUE)
      BY <1>6 DEF GuiReturns, NotifyDidUpdate, AbortFlag, AbortLength, Release,
                  RequestStop, queues
    <3> QED
      BY <1>1, <3>1, <3>2 DEF QueueType
  <2>3. BusType'
    BY <1>1, <1>6 DEF GuiReturns, NotifyDidUpdate, AbortFlag, AbortLength,
                      Release, RequestStop, BusType, rx
  <2>4. GuiType'
    BY <1>1, <1>6 DEF GuiReturns, NotifyDidUpdate, AbortFlag, AbortLength,
                      Release, RequestStop, GuiType
  <2> QED
    BY <1>2, <2>1, <2>2, <2>3, <2>4, TypePartsNext
<1> QED
  BY <1>3, <1>4, <1>5, <1>6 DEF Gui

LEMMA EcuTypes ==
  ASSUME TInv, EcuAnswers \/ EcuDrops
  PROVE  TInv'
<1>1. BusType /\ GuiType
  BY TypeParts
<1>2. UNCHANGED worker /\ UNCHANGED queues /\ UNCHANGED hist /\ gui' = gui
  BY DEF EcuAnswers, EcuDrops, OnIsoTpDataReceived
<1>3. GuiType'
  <2>1. used' = used \/ Spend("pending") \/ Spend("drop")
    BY DEF EcuAnswers, EcuDrops
  <2>2. used' \in [Bounds -> Nat]
    BY <1>1, <2>1, SpendKeepsType DEF Bounds, GuiType
  <2> QED
    BY <1>1, <1>2, <2>2 DEF GuiType
<1>4. BusType'
  <2>1. ecu # <<>> /\ (ecu' = ecu \/ ecu' = Tail(ecu))
    BY DEF EcuAnswers, EcuDrops
  <2>2. ecu' \in Seq(Request)
    BY <1>1, <2>1, TailType DEF BusType
  <2>3. Head(ecu) \in Request
    BY <1>1, <2>1 DEF BusType
  <2>4. UNCHANGED rx \/ (bufLen' = "data" /\ buf'.did = Head(ecu).did)
    BY DEF EcuAnswers, EcuDrops, OnIsoTpDataReceived
  <2> QED
    BY <1>1, <2>2, <2>3, <2>4 DEF BusType, Request, rx
<1> QED
  BY <1>2, <1>3, <1>4, TypeFrames, TypePartsNext

LEMMA NextT == TInv /\ [Next]_vars => TInv'
<1> SUFFICES ASSUME TInv, [Next]_vars PROVE TInv'
  OBVIOUS
<1>1. CASE WorkerThread
  BY <1>1, LoopTypes, PauseTypes, AnswerTypes, DialogueTypes, TimeoutTypes, PassTypes
     DEF WorkerThread, HandleDidReading, HandleDidWriting, Dialogue
<1>2. CASE Gui \/ EcuAnswers \/ EcuDrops
  BY <1>2, UserTypes, EcuTypes
<1>3. CASE UNCHANGED vars
  BY <1>3, TypeFrames, TypePartsNext DEF vars
<1> QED
  BY <1>1, <1>2, <1>3 DEF Next

(* Every variable keeps its type and the worker never tries more than        *)
(* MAX_EXTENDED_SESSION_RETRIES times: with aborts and the destructor too.   *)
THEOREM TypeCorrect == Spec => []TypeOK
<1>1. TInv => TypeOK
  BY DEF TInv
<1> QED
  BY <1>1, InitT, NextT, PTL DEF Spec

-----------------------------------------------------------------------------
(* The worker rests only when everything was done. *)

QuietInv == gui \in {"idle", "adding"} /\ ~aborted /\ ~dangling

(* What waits in m_PendingDidReads is seen: by the reading loop, or because  *)
(* the GUI thread is about to release the semaphore or has done so.          *)
ReadsSeen ==
  /\ pc = "reset" => phase = "write"
  /\ reads # <<>> => \/ gui = "adding" \/ sem \/ brokeOff
                     \/ pc # "idle" /\ phase = "read"

(* A written value is still ahead of the worker: of its iterator, when it is *)
(* iterating; else of its next pass, for which it has been or will be woken. *)
BeforeSend == pc \in {"session", "sessionWait", "request"}
Ahead(d) ==
  IF Writing THEN did < d \/ (did = d /\ BeforeSend)
             ELSE \/ pc = "loop" \/ gui = "adding" \/ sem
                  \/ pc # "idle" /\ phase = "read"

Accounted(d) ==
  \/ sent[d] = wanted[d] \/ d \in unanswered \/ d \in during
  \/ writes[d] # 0 /\ Ahead(d)

WritesSeen ==
  /\ \A d \in Did : writes[d] # 0 => writes[d] = wanted[d]
  /\ Writing => AtDid /\ writes[did] # 0
  /\ \A d \in Did : Accounted(d)

AInv == TInv /\ DInv /\ QuietInv /\ ReadsSeen /\ WritesSeen

LEMMA InitA == Init => AInv
<1> SUFFICES ASSUME Init PROVE AInv
  OBVIOUS
<1>1. TInv /\ DInv
  BY InitT, InitD
<1>2. QuietInv /\ ReadsSeen
  BY DEF Init, QuietInv, ReadsSeen
<1>3. WritesSeen
  BY DEF Init, WritesSeen, Writing, Accounted
<1> QED
  BY <1>1, <1>2, <1>3 DEF AInv

LEMMA NoAbortHappens ==
  ASSUME NoAborts, TInv
  PROVE  ~AbortDidUpdate /\ ~Destruct
<1>1. ~AbortDidUpdate
  <2> SUFFICES ASSUME AbortDidUpdate PROVE FALSE
    OBVIOUS
  <2>1. used["abort"] \in Nat /\ used["abort"] < Max["abort"]
    BY TypeParts DEF AbortDidUpdate, Spend, GuiType, Bounds
  <2> QED
    BY <2>1 DEF NoAborts, Max
<1>2. ~Destruct
  BY DEF Destruct, NoAborts
<1> QED
  BY <1>1, <1>2

LEMMA QuietStep ==
  ASSUME NoAborts, AInv, Next
  PROVE  QuietInv'
<1> USE DEF AInv, QuietInv
<1>1. CASE Gui
  BY <1>1, NoAbortHappens
     DEF Gui, AddDidToReadQueue, WriteDid, GuiReturns, NotifyDidUpdate, AbortFlag,
         AbortLength, Release, RequestStop
<1>2. CASE EcuAnswers \/ EcuDrops
  BY <1>2 DEF EcuAnswers, EcuDrops, OnIsoTpDataReceived, queues
<1>3. CASE Acquire \/ HandleDidReading
  <2>1. CASE EndPause
    BY <2>1 DEF EndPause, queues
  <2>2. CASE ReadAnswer \/ PendingReadAnswered
    BY <2>2 DEF ReadAnswer, PendingReadAnswered, Continue, ProcessReadDidResponse,
                ProcessRejectedNrc, queues
  <2> QED
    BY <1>3, <2>1, <2>2
       DEF Acquire, HandleDidReading, ContinueReading, LeaveReading, Front, RetrySession,
           SendRead, ConditionsNotCorrect, queues
<1>4. CASE HandleDidWriting
  BY <1>4 DEF HandleDidWriting, EnterWriting, SkipWriting, NextWrite, ClearWrites,
              ResetAborted, GiveUpWrite, SendWrite, WriteAnswer, PendingWriteAnswered,
              Continue, queues
<1>5. CASE Dialogue
  BY <1>5 DEF Dialogue, SendSession, SessionAnswered, RequestAnswered, RequestUnanswered,
              AwaitPending, LeavePending, PendingUnanswered, Continue, queues
<1> QED
  BY <1>1, <1>2, <1>3, <1>4, <1>5 DEF Next, WorkerThread

(* A step of the worker within its pass. *)
LEMMA ReadsKept ==
  ASSUME AInv, UNCHANGED <<gui, sem>>, brokeOff => brokeOff', reads' # <<>> => reads # <<>>,
         pc # "idle", pc' # "reset" \/ phase' = "write",
         phase = "write" \/ reads' = <<>> \/ brokeOff' \/ (pc' # "idle" /\ phase' = "read")
  PROVE  ReadsSeen'
BY DEF AInv, ReadsSeen

LEMMA ReadsStep ==
  ASSUME NoAborts, AInv, Next
  PROVE  ReadsSeen'
<1>1. WorkerType /\ ~aborted /\ ~Stop
  BY TypeParts DEF AInv, QuietInv, Stop
<1> USE DEF queues, hist
<1>2. CASE Acquire
  BY <1>2 DEF Acquire, ReadsSeen
<1>3. CASE HandleDidReading
  <2>1. CASE ReadAnswer \/ PendingReadAnswered
    <3>1. /\ phase = "read" /\ phase' = "read" /\ pc # "idle"
          /\ UNCHANGED <<gui, sem, brokeOff>>
          /\ pc' \in {"pause", "pending", "crashed"}
          /\ reads' # <<>> => reads # <<>>
      BY <2>1 DEF ReadAnswer, PendingReadAnswered, Continue, ProcessReadDidResponse,
                  ProcessRejectedNrc, PopFront
    <3> QED
      BY <3>1, ReadsKept
  <2>2. CASE \/ ContinueReading \/ LeaveReading \/ Front \/ RetrySession \/ SendRead
             \/ ConditionsNotCorrect
    BY <1>1, <2>2, ReadsKept
       DEF ContinueReading, LeaveReading, Front, RetrySession, SendRead,
           ConditionsNotCorrect, Continue, GoOn, AInv, DInv, FrontInv
  <2>3. CASE EndPause
    <3>1. phase = "read" /\ pc' = "loop" /\ UNCHANGED <<phase, reads, gui, sem, brokeOff>>
      BY <2>3 DEF EndPause
    <3> QED
      BY <1>1, <2>3, <3>1, ReadsKept DEF EndPause
  <2> QED
    BY <1>3, <2>1, <2>2, <2>3 DEF HandleDidReading
<1>4. CASE HandleDidWriting
  BY <1>4, ReadsKept
     DEF HandleDidWriting, EnterWriting, SkipWriting, NextWrite, ClearWrites, ResetAborted,
         GiveUpWrite, SendWrite, WriteAnswer, PendingWriteAnswered, Continue, AInv, ReadsSeen
<1>5. CASE Dialogue
  BY <1>1, <1>5, ReadsKept
     DEF Dialogue, SendSession, SessionAnswered, RequestAnswered, RequestUnanswered,
         AwaitPending, LeavePending, PendingUnanswered, Continue, WorkerType
<1>6. CASE Gui
  <2>1. AddDidToReadQueue \/ WriteDid \/ GuiReturns
    BY <1>6, NoAbortHappens DEF AInv, Gui
  <2> QED
    BY <1>1, <2>1
       DEF AddDidToReadQueue, WriteDid, GuiReturns, NotifyDidUpdate, AbortFlag, AbortLength,
           Release, RequestStop, worker, AInv, ReadsSeen, QuietInv
<1>7. CASE EcuAnswers \/ EcuDrops
  BY <1>7 DEF EcuAnswers, EcuDrops, OnIsoTpDataReceived, worker, AInv, ReadsSeen
<1> QED
  BY <1>2, <1>3, <1>4, <1>5, <1>6, <1>7 DEF Next, WorkerThread

(* A step that neither writes nor sends, and passes no entry of the map. *)
LEMMA WritesKept ==
  ASSUME AInv, UNCHANGED <<writes, wanted, sent, during, unanswered>>,
         Writing' => AtDid' /\ writes[did'] # 0,
         \A d \in Did : writes[d] # 0 /\ Ahead(d) => Ahead(d)'
  PROVE  WritesSeen'
BY DEF AInv, WritesSeen, Accounted

(* Within the reading loop, or on the way to its end. *)
LEMMA WritesReading ==
  ASSUME AInv, UNCHANGED <<writes, wanted, sent, during, unanswered>>,
         pc' = "loop" \/ (phase' = "read" /\ pc' # "idle")
  PROVE  WritesSeen'
<1>1. ~Writing' /\ \A d \in Did : Ahead(d)'
  BY DEF Writing, Ahead
<1> QED
  BY <1>1, WritesKept

(* Within the dialogue about one entry of the map. *)
LEMMA WritesDialogue ==
  ASSUME AInv, UNCHANGED <<writes, wanted, sent, during, unanswered, did, phase>>,
         phase = "write", AtDid, AtDid', BeforeSend => BeforeSend'
  PROVE  WritesSeen'
<1>1. Writing /\ Writing'
  BY DEF AtDid, Writing
<1>2. \A d \in Did : Ahead(d) => Ahead(d)'
  BY <1>1 DEF Ahead
<1> QED
  BY <1>1, <1>2, WritesKept DEF AInv, WritesSeen

LEMMA WritesStepReading ==
  ASSUME NoAborts, AInv, Acquire \/ HandleDidReading
  PROVE  WritesSeen'
<1> USE DEF queues, hist
<1>1. CASE ReadAnswer \/ PendingReadAnswered
  <2>1. /\ phase' = "read"
        /\ UNCHANGED <<writes, wanted, sent, during, unanswered>>
        /\ pc' \in {"pause", "pending", "crashed"}
    BY <1>1 DEF ReadAnswer, PendingReadAnswered, Continue, ProcessReadDidResponse,
                ProcessRejectedNrc, PopFront
  <2> QED
    BY <2>1, WritesReading
<1>2. CASE \/ ContinueReading \/ LeaveReading \/ Front \/ RetrySession \/ SendRead
           \/ ConditionsNotCorrect \/ EndPause
  <2>1. /\ pc' = "loop" \/ (phase' = "read" /\ pc' # "idle")
        /\ UNCHANGED <<writes, wanted, sent, during, unanswered>>
    <3>1. CASE Front
      <4>1. phase = "read"
        BY <3>1 DEF Front, AInv, DInv, FrontInv
      <4> QED
        BY <3>1, <4>1 DEF Front
    <3>2. CASE ContinueReading \/ LeaveReading \/ RetrySession
      BY <3>2 DEF ContinueReading, LeaveReading, RetrySession
    <3>3. CASE SendRead \/ ConditionsNotCorrect \/ EndPause
      BY <3>3 DEF SendRead, ConditionsNotCorrect, EndPause, Continue
    <3> QED
      BY <1>2, <3>1, <3>2, <3>3
  <2> QED
    BY <2>1, WritesReading
<1>3. CASE Acquire
  BY <1>3, WritesReading DEF Acquire
<1> QED
  BY <1>1, <1>2, <1>3 DEF HandleDidReading

LEMMA WritesStepDialogue ==
  ASSUME NoAborts, AInv, \/ Dialogue \/ WriteAnswer \/ PendingWriteAnswered
  PROVE  WritesSeen'
<1>1. /\ UNCHANGED <<writes, wanted, sent, during, unanswered, did, phase>>
      /\ AtDid /\ AtDid' /\ (BeforeSend => BeforeSend')
  BY DEF Dialogue, SendSession, SessionAnswered, RequestAnswered, RequestUnanswered,
         AwaitPending, LeavePending, PendingUnanswered, WriteAnswer, PendingWriteAnswered,
         Continue, AtDid, BeforeSend, queues, hist
<1>2. phase \in {"read", "write"}
  BY TypeParts DEF AInv, WorkerType
<1>3. CASE phase = "read"
  BY <1>1, <1>3, WritesReading DEF AtDid
<1>4. CASE phase = "write"
  BY <1>1, <1>4, WritesDialogue
<1> QED
  BY <1>2, <1>3, <1>4

LEMMA WritesStepWriting ==
  ASSUME NoAborts, AInv, \/ EnterWriting \/ SkipWriting \/ NextWrite \/ ClearWrites
                        \/ ResetAborted \/ GiveUpWrite \/ SendWrite
  PROVE  WritesSeen'
<1> USE DEF queues, hist, BeforeSend
<1>1. /\ WorkerType /\ ~aborted /\ ~Stop /\ ~dangling /\ pc # "crashed"
      /\ WritesSeen /\ ReadsSeen /\ HistType /\ Did \subseteq Nat
  BY TypeParts, DidAssumption DEF AInv, QuietInv, Stop, DInv, FrontInv
<1>2. CASE EnterWriting
  <2>1. /\ Lowest(Written) \in Written /\ \A e \in Written : Lowest(Written) <= e
        /\ Written \subseteq Did
    BY <1>2, LowestIsLeast DEF EnterWriting, Written
  <2>2. did' \in Written /\ (\A e \in Written : did' <= e) /\ pc' = "session"
    BY <1>2, <2>1 DEF EnterWriting
  <2>3. UNCHANGED <<writes, wanted, sent, during, unanswered>>
    BY <1>2 DEF EnterWriting
  <2>4. \A d \in Did : writes[d] # 0 => d \in Written
    BY DEF Written
  <2>5. \A d \in Did : writes[d] # 0 => Ahead(d)'
    BY <1>1, <1>2, <2>1, <2>2, <2>4 DEF EnterWriting, Ahead, Writing
  <2>6. AtDid' /\ writes[did'] # 0
    BY <2>2 DEF AtDid, Written
  <2> QED
    BY <2>3, <2>5, <2>6, WritesKept
<1>3. CASE SkipWriting
  <2>1. \A d \in Did : writes[d] = 0
    BY <1>1, <1>3 DEF SkipWriting, Written, GoOn
  <2>2. ~Writing'
    BY <1>3 DEF SkipWriting, Writing
  <2> QED
    BY <1>3, <2>1, <2>2, WritesKept DEF SkipWriting
<1>4. CASE NextWrite
  <2>1. Later # {} /\ did' = Lowest(Later) /\ pc' = "session" /\ phase = "write"
    BY <1>1, <1>4 DEF NextWrite
  <2>2. /\ Lowest(Later) \in Later /\ \A e \in Later : Lowest(Later) <= e
        /\ Later \subseteq Did
    BY <2>1, LowestIsLeast DEF Later, Written
  <2>3. UNCHANGED <<phase, writes, wanted, sent, during, unanswered>>
    BY <1>4 DEF NextWrite
  <2>4. Writing /\ Writing' /\ AtDid' /\ writes[did'] # 0
    BY <1>4, <2>1, <2>2, <2>3 DEF NextWrite, Writing, AtDid, Later, Written
  <2>5. ASSUME NEW d \in Did, writes[d] # 0, Ahead(d) PROVE Ahead(d)'
    <3>1. did < d
      BY <1>4, <2>4, <2>5 DEF Ahead, NextWrite
    <3>2. d \in Later
      BY <2>5, <3>1 DEF Later, Written
    <3>3. did' <= d /\ did' \in Nat /\ d \in Nat
      BY <1>1, <2>1, <2>2, <3>2
    <3>4. did' < d \/ (did' = d /\ BeforeSend')
      BY <2>1, <3>3
    <3> QED
      BY <2>4, <3>4 DEF Ahead
  <2> QED
    BY <2>3, <2>4, <2>5, WritesKept
<1>5. CASE ClearWrites
  <2>1. /\ pc = "pause" /\ phase = "write" /\ Later = {} /\ pc' = "reset"
        /\ writes' = [d \in Did |-> 0]
        /\ UNCHANGED <<phase, wanted, sent, during, unanswered>>
    BY <1>5 DEF ClearWrites
  <2>2. Writing /\ ~Writing'
    BY <2>1 DEF Writing
  <2>3. ASSUME NEW d \in Did
        PROVE  sent[d] = wanted[d] \/ d \in unanswered \/ d \in during
    <3>1. ~(writes[d] # 0 /\ Ahead(d))
      BY <2>1, <2>2 DEF Ahead, Later, Written
    <3> QED
      BY <1>1, <3>1 DEF WritesSeen, Accounted
  <2> QED
    BY <2>1, <2>2, <2>3 DEF WritesSeen, Accounted
<1>6. CASE ResetAborted
  <2>1. phase = "write" /\ phase' = "write" /\ pc = "reset" /\ pc' = "idle"
    BY <1>1, <1>6 DEF ResetAborted, ReadsSeen
  <2>2. UNCHANGED <<writes, wanted, sent, during, unanswered, gui, sem>>
    BY <1>6 DEF ResetAborted
  <2>3. ~Writing /\ ~Writing'
    BY <2>1 DEF Writing
  <2>4. \A d \in Did : Ahead(d) => Ahead(d)'
    BY <2>1, <2>2, <2>3 DEF Ahead
  <2> QED
    BY <2>2, <2>3, <2>4, WritesKept
<1>7. CASE GiveUpWrite
  <2>1. /\ pc = "sessionWait" /\ pc' = "pause" /\ phase = "write" /\ phase' = "write"
        /\ unanswered' = unanswered \cup {did}
        /\ UNCHANGED <<did, writes, wanted, sent, during>>
    BY <1>7 DEF GiveUpWrite
  <2>2. Writing /\ Writing' /\ AtDid'
    BY <2>1 DEF Writing, AtDid
  <2>3. \A d \in Did : d # did /\ Ahead(d) => Ahead(d)'
    BY <2>1, <2>2 DEF Ahead
  <2> QED
    BY <1>1, <2>1, <2>2, <2>3 DEF WritesSeen, Accounted
<1>8. CASE SendWrite
  <2>1. /\ pc = "request" /\ pc' = "requestWait" /\ phase = "write" /\ phase' = "write"
        /\ sent' = [sent EXCEPT ![did] = writes[did]]
        /\ UNCHANGED <<did, writes, wanted, during, unanswered>>
    BY <1>1, <1>8 DEF SendWrite
  <2>2. Writing /\ Writing' /\ AtDid' /\ did \in Did
    BY <1>1, <2>1 DEF Writing, AtDid, WorkerType
  <2>3. \A d \in Did : d # did /\ Ahead(d) => Ahead(d)'
    BY <2>1, <2>2 DEF Ahead
  <2>4. sent'[did] = wanted[did] /\ \A d \in Did : d # did => sent'[d] = sent[d]
    BY <1>1, <2>1, <2>2 DEF WritesSeen, HistType
  <2> QED
    BY <1>1, <2>1, <2>2, <2>3, <2>4 DEF WritesSeen, Accounted
<1> QED
  BY <1>2, <1>3, <1>4, <1>5, <1>6, <1>7, <1>8

LEMMA WritesStepOthers ==
  ASSUME NoAborts, AInv, Gui \/ EcuAnswers \/ EcuDrops
  PROVE  WritesSeen'
<1>1. UNCHANGED worker
  BY NoAbortHappens
     DEF AInv, Gui, AddDidToReadQueue, WriteDid, GuiReturns, NotifyDidUpdate, AbortFlag,
         AbortLength, Release, RequestStop, EcuAnswers, EcuDrops, OnIsoTpDataReceived
<1>2. UNCHANGED <<AtDid, Writing, BeforeSend, did, phase, pc>>
  BY <1>1 DEF worker, AtDid, Writing, BeforeSend
<1>3. gui \in {"idle", "adding"} /\ WritesSeen /\ HistType /\ QueueType
  BY TypeParts DEF AInv, QuietInv
<1>4. CASE WriteDid
  <2>1. PICK d \in Did :
          /\ writes' = [writes EXCEPT ![d] = used'["click"]]
          /\ wanted' = [wanted EXCEPT ![d] = used'["click"]]
          /\ during' = IF Writing THEN during \cup {d} ELSE during \ {d}
          /\ unanswered' = unanswered \ {d}
    BY <1>4 DEF WriteDid
  <2>2. used'["click"] # 0
    <3>1. used \in [Bounds -> Nat] /\ "click" \in Bounds
      BY TypeParts DEF AInv, GuiType, Bounds
    <3> QED
      BY <1>4, <3>1 DEF WriteDid, Spend
  <2>3. gui' = "adding" /\ UNCHANGED <<sem, sent>> /\ gui = "idle"
    BY <1>4 DEF WriteDid
  <2>4. /\ writes'[d] # 0 /\ writes'[d] = wanted'[d]
        /\ \A e \in Did : e # d => writes'[e] = writes[e] /\ wanted'[e] = wanted[e]
    BY <1>3, <2>1, <2>2 DEF HistType, QueueType
  <2>5. \A e \in Did : Ahead(e) => Ahead(e)'
    BY <1>2, <2>3 DEF Ahead
  <2>6. ASSUME NEW e \in Did PROVE Accounted(e)'
    <3>1. CASE e = d /\ Writing
      BY <2>1, <3>1 DEF Accounted
    <3>2. CASE e = d /\ ~Writing
      BY <1>2, <2>3, <2>4, <3>2 DEF Accounted, Ahead
    <3>3. CASE e # d
      BY <1>3, <2>1, <2>3, <2>4, <2>5, <3>3 DEF Accounted, WritesSeen
    <3> QED
      BY <3>1, <3>2, <3>3
  <2>7. Writing' => AtDid' /\ writes'[did'] # 0
    BY <1>2, <1>3, <2>4, TypeParts DEF WritesSeen, AInv, WorkerType
  <2> QED
    BY <1>3, <2>4, <2>6, <2>7 DEF WritesSeen
<1>5. CASE AddDidToReadQueue \/ GuiReturns \/ EcuAnswers \/ EcuDrops
  <2>1. UNCHANGED <<writes, wanted, sent, during, unanswered>>
    BY <1>5 DEF AddDidToReadQueue, GuiReturns, NotifyDidUpdate, AbortFlag,
         AbortLength, Release, RequestStop, EcuAnswers, EcuDrops, OnIsoTpDataReceived,
         queues, hist
  <2>2. \/ sem' = sem /\ (gui' = gui \/ gui' = "adding")
        \/ sem'
    BY <1>3, <1>5 DEF AddDidToReadQueue, GuiReturns, NotifyDidUpdate, AbortFlag,
         AbortLength, Release, RequestStop, EcuAnswers, EcuDrops, OnIsoTpDataReceived,
         queues
  <2>3. \A e \in Did : Ahead(e) => Ahead(e)'
    BY <1>2, <2>2 DEF Ahead
  <2> QED
    BY <1>2, <1>3, <2>1, <2>3, WritesKept DEF WritesSeen
<1> QED
  BY <1>4, <1>5, NoAbortHappens DEF AInv, Gui

LEMMA NextA ==
  ASSUME NoAborts, AInv, [Next]_vars
  PROVE  AInv'
<1>1. TInv' /\ DInv'
  BY NextT, NextD DEF AInv
<1>2. CASE UNCHANGED vars
  BY <1>1, <1>2 DEF vars, worker, queues, hist, AInv, QuietInv, ReadsSeen, WritesSeen,
                    Writing, AtDid, Accounted, Ahead, BeforeSend
<1>3. CASE Next
  <2>1. QuietInv' /\ ReadsSeen'
    BY <1>3, QuietStep, ReadsStep
  <2>2. WritesSeen'
    BY <1>3, WritesStepReading, WritesStepDialogue, WritesStepWriting, WritesStepOthers
       DEF Next, WorkerThread, HandleDidWriting
  <2> QED
    BY <1>1, <2>1, <2>2 DEF AInv
<1> QED
  BY <1>2, <1>3

THEOREM WorkIsSeen == ASSUME NoAborts PROVE Spec => []AInv
  BY InitA, NextA, PTL DEF Spec

(* Nothing waits in m_PendingDidReads when the worker rests, unless an NRC   *)
(* 22 ended the reading: no notification is lost.                            *)
THEOREM ReadsAreDone == ASSUME NoAborts PROVE Spec => []NothingLeftBehind
<1>1. AInv => NothingLeftBehind
  BY DEF AInv, ReadsSeen, NothingLeftBehind, Rest
<1> QED
  BY WorkIsSeen, <1>1, PTL

(* When the worker rests, the last value written for each DID was sent,      *)
(* unless the ECU gave no session for it or the value came while the worker  *)
(* was iterating over the map.                                               *)
THEOREM WritesAreDone == ASSUME NoAborts PROVE Spec => []WritesAccounted
<1>1. AInv => WritesAccounted
  BY DEF AInv, WritesSeen, WritesAccounted, Rest, Accounted, Ahead, Writing
<1> QED
  BY WorkIsSeen, <1>1, PTL

-----------------------------------------------------------------------------
(* value_str is the DID's own. *)

RestingRead == phase = "read" /\ pc = "pause"
Starting == phase = "read" /\ pc \in {"loop", "front", "session", "sessionWait"}

(* The reads that the ECU has not answered: of the front only, or none.      *)
OnlyFront == \A i \in 1..Len(ecu) : ecu[i].sid = "read" => reads # <<>> /\ ecu[i].did = Head(reads)
NoneAsked == \A i \in 1..Len(ecu) : ecu[i].sid # "read"

(* While the ECU is not behind, outside the pause after a read only the      *)
(* front was ever asked for; a session that is asked for again follows such  *)
(* a pause, at whose end no read is under way.                               *)
UnderWay ==
  /\ RestingRead \/ OnlyFront
  /\ Starting /\ retry > 0 => NoneAsked
Received ==
  /\ Asking /\ pc # "session" /\ bufLen = "data" /\ buf.sid = "read" => buf.did = did
  /\ phase = "read" /\ pc = "settle" => bufLen = "data"

VInv == AInv /\ (owing \/ (UnderWay /\ Received)) /\ ValueIsOfDid

LEMMA SameUnderWay ==
  ASSUME UNCHANGED <<ecu, reads>>
  PROVE  (OnlyFront => OnlyFront') /\ (NoneAsked => NoneAsked')
BY DEF OnlyFront, NoneAsked

LEMMA TailUnderWay ==
  ASSUME TInv, ecu # <<>>, ecu' = Tail(ecu), UNCHANGED reads
  PROVE  (OnlyFront => OnlyFront') /\ (NoneAsked => NoneAsked')
<1>1. ecu \in Seq(Request)
  BY TypeParts DEF BusType
<1>2. /\ Len(ecu') \in Nat /\ Len(ecu) = Len(ecu') + 1
      /\ \A i \in 1..Len(ecu') : ecu'[i] = ecu[i + 1]
  BY <1>1
<1>3. \A i \in 1..Len(ecu') : i + 1 \in 1..Len(ecu)
  BY <1>2
<1> QED
  BY <1>2, <1>3 DEF OnlyFront, NoneAsked

(* A request is sent. *)
LEMMA SentUnderWay ==
  ASSUME TInv, NEW x, ecu' = Append(ecu, x), UNCHANGED reads
  PROVE  /\ OnlyFront /\ (x.sid = "read" => reads # <<>> /\ x.did = Head(reads)) => OnlyFront'
         /\ NoneAsked /\ x.sid # "read" => NoneAsked'
<1>1. ecu \in Seq(Request)
  BY TypeParts DEF BusType
<1>2. /\ Len(ecu) \in Nat /\ Len(ecu') = Len(ecu) + 1 /\ ecu'[Len(ecu) + 1] = x
      /\ \A i \in 1..Len(ecu) : ecu'[i] = ecu[i]
  BY <1>1
<1>3. \A i \in 1..Len(ecu') : i \in 1..Len(ecu) \/ i = Len(ecu) + 1
  BY <1>2
<1> QED
  BY <1>2, <1>3 DEF OnlyFront, NoneAsked

(* What the user adds is not asked for. *)
LEMMA AddedUnderWay ==
  ASSUME TInv, NEW d \in Did, reads' = Append(reads, d), UNCHANGED ecu
  PROVE  (OnlyFront => OnlyFront') /\ (NoneAsked => NoneAsked')
<1>1. reads \in Seq(Did)
  BY TypeParts DEF QueueType
<1>2. reads' # <<>> /\ (reads # <<>> => Head(reads') = Head(reads))
  BY <1>1
<1> QED
  BY <1>2 DEF OnlyFront, NoneAsked

LEMMA NoneIsOnlyFront == NoneAsked => OnlyFront
BY DEF NoneAsked, OnlyFront

LEMMA EmptyIsNone == ecu = <<>> => NoneAsked
BY DEF NoneAsked

LEMMA InitV == Init => VInv
<1> SUFFICES ASSUME Init PROVE VInv
  OBVIOUS
<1>1. UnderWay
  BY EmptyIsNone, NoneIsOnlyFront DEF Init, UnderWay
<1>2. Received
  BY DEF Init, Received, Asking
<1> QED
  BY <1>1, <1>2, InitA DEF Init, VInv, ValueIsOfDid

(* The worker, but where it sends, takes an answer or rests. *)
LEMMA UnderWayLoop ==
  ASSUME VInv, ~owing,
         \/ Acquire \/ ContinueReading \/ LeaveReading \/ Front \/ ConditionsNotCorrect
         \/ EnterWriting \/ SkipWriting \/ NextWrite \/ ClearWrites \/ ResetAborted
         \/ GiveUpWrite \/ WriteAnswer \/ PendingWriteAnswered
  PROVE  UnderWay' /\ Received'
<1> USE DEF VInv, UnderWay, Received, RestingRead, Starting, Asking, queues, rx, hist, Continue
<1>1. /\ WorkerType /\ pc # "crashed" /\ (pc = "front" => phase = "read")
      /\ (pc = "reset" => phase = "write")
  BY TypeParts DEF AInv, DInv, FrontInv, ReadsSeen
<1>2. UNCHANGED <<ecu, reads, rx>>
  BY DEF Acquire, ContinueReading, LeaveReading, Front, ConditionsNotCorrect, EnterWriting,
         SkipWriting, NextWrite, ClearWrites, ResetAborted, GiveUpWrite, WriteAnswer,
         PendingWriteAnswered
<1>3. (OnlyFront => OnlyFront') /\ (NoneAsked => NoneAsked')
  BY <1>2, SameUnderWay
<1>4. CASE Acquire
  BY <1>2, <1>3, <1>4 DEF Acquire
<1>5. CASE ContinueReading \/ LeaveReading \/ Front
  BY <1>1, <1>2, <1>3, <1>5 DEF ContinueReading, LeaveReading, Front
<1>6. CASE ConditionsNotCorrect
  BY <1>2, <1>3, <1>6 DEF ConditionsNotCorrect
<1>7. CASE EnterWriting \/ SkipWriting \/ NextWrite \/ ClearWrites \/ ResetAborted
  BY <1>1, <1>2, <1>3, <1>7 DEF EnterWriting, SkipWriting, NextWrite, ClearWrites, ResetAborted
<1>8. CASE GiveUpWrite \/ WriteAnswer \/ PendingWriteAnswered
  BY <1>1, <1>2, <1>3, <1>8 DEF GiveUpWrite, WriteAnswer, PendingWriteAnswered
<1> QED
  BY <1>4, <1>5, <1>6, <1>7, <1>8

(* The two dialogues with the ECU. *)
LEMMA UnderWayDialogue ==
  ASSUME VInv, ~owing,
               \/ SendSession \/ SessionAnswered \/ SendRead \/ SendWrite \/ RequestAnswered
               \/ RequestUnanswered \/ AwaitPending \/ LeavePending \/ PendingUnanswered
  PROVE  UnderWay' /\ Received'
<1> USE DEF VInv, UnderWay, Received, RestingRead, Starting, Asking, queues, rx, hist, Continue
<1>1. TInv /\ WorkerType /\ (Asking => reads # <<>> /\ Head(reads) = did) /\ pc # "crashed" /\ ~dangling
  BY TypeParts DEF AInv, DInv, FrontInv
<1>2. UNCHANGED reads
  BY DEF SendSession, SessionAnswered, SendRead, SendWrite, RequestAnswered,
         RequestUnanswered, AwaitPending, LeavePending, PendingUnanswered
<1>3. CASE SendSession
  <2>1. ecu' = Append(ecu, [sid |-> "session", did |-> NoDid]) /\ bufLen' = "none"
    BY <1>3 DEF SendSession, Send
  <2>2. (OnlyFront => OnlyFront') /\ (NoneAsked => NoneAsked')
    BY <1>1, <1>2, <2>1, SentUnderWay
  <2> QED
    BY <1>2, <1>3, <2>1, <2>2 DEF SendSession
<1>4. CASE SendRead
  <2>1. ecu' = Append(ecu, [sid |-> "read", did |-> did]) /\ bufLen' = "none"
    BY <1>4 DEF SendRead, Send
  <2>2. OnlyFront => OnlyFront'
    BY <1>1, <1>2, <1>4, <2>1, SentUnderWay DEF SendRead
  <2> QED
    BY <1>2, <1>4, <2>1, <2>2 DEF SendRead
<1>5. CASE SendWrite
  <2>1. ecu' = Append(ecu, [sid |-> "write", did |-> did]) /\ bufLen' = "none"
    BY <1>1, <1>5 DEF SendWrite, Send
  <2>2. OnlyFront => OnlyFront'
    BY <1>1, <1>2, <2>1, SentUnderWay
  <2> QED
    BY <1>1, <1>2, <1>5, <2>1, <2>2 DEF SendWrite
<1>6. CASE SessionAnswered \/ RequestAnswered \/ AwaitPending \/ LeavePending
  <2>1. UNCHANGED ecu
    BY <1>6 DEF SessionAnswered, RequestAnswered, AwaitPending, LeavePending
  <2>2. OnlyFront => OnlyFront'
    BY <1>2, <2>1, SameUnderWay
  <2> QED
    BY <1>2, <1>6, <2>1, <2>2 DEF SessionAnswered, RequestAnswered, AwaitPending, LeavePending, Answered
<1>7. CASE RequestUnanswered \/ PendingUnanswered
  <2>1. UNCHANGED ecu
    BY <1>7 DEF RequestUnanswered, PendingUnanswered
  <2>2. OnlyFront => OnlyFront'
    BY <1>2, <2>1, SameUnderWay
  <2> QED
    BY <1>2, <1>7, <2>1, <2>2 DEF RequestUnanswered, PendingUnanswered
<1> QED
  BY <1>3, <1>4, <1>5, <1>6, <1>7

(* The answers to a read are taken, the session is asked for again or given  *)
(* up.                                                                       *)
LEMMA UnderWayReading ==
  ASSUME MaxRetries > 0, VInv, ~owing, ReadAnswer \/ PendingReadAnswered \/ RetrySession
  PROVE  UnderWay' /\ Received'
<1> USE DEF VInv, UnderWay, Received, RestingRead, Starting, Asking, queues, rx, hist, Continue
<1>1. /\ TInv /\ WorkerType /\ HistType /\ pc # "crashed"
      /\ (Asking => reads # <<>> /\ Head(reads) = did)
  BY TypeParts DEF AInv, DInv, FrontInv
<1>2. CASE ReadAnswer \/ PendingReadAnswered
  <2>1. Asking /\ AtDid /\ did \in Did /\ UNCHANGED ecu
    BY <1>1, <1>2 DEF ReadAnswer, PendingReadAnswered, AtDid, WorkerType,
                      ProcessReadDidResponse, ProcessRejectedNrc
  <2>2. bufLen = "data" /\ pc # "session" /\ phase = "read" /\ phase' = "read"
    BY <1>2 DEF ReadAnswer, PendingReadAnswered, Answered, ProcessReadDidResponse, ProcessRejectedNrc
  <2>3. ProcessReadDidResponse \/ ProcessRejectedNrc \/ Continue("pause") \/ Continue("pending")
    BY <1>2 DEF ReadAnswer, PendingReadAnswered
  <2>4. CASE ProcessReadDidResponse \/ ProcessRejectedNrc
    <3>1. pc' = "pause"
      BY <1>1, <2>1, <2>4, PopStep DEF ProcessReadDidResponse, ProcessRejectedNrc, PopFront
    <3> QED
      BY <2>2, <3>1
  <2>5. CASE Continue("pause") \/ Continue("pending")
    <3>1. UNCHANGED <<reads, ecu, bufLen, buf, did, phase>> /\ pc' \in {"pause", "pending"}
      BY <2>5
    <3>2. OnlyFront => OnlyFront'
      BY <3>1, SameUnderWay
    <3> QED
      BY <2>1, <2>2, <3>1, <3>2
  <2> QED
    BY <2>3, <2>4, <2>5
<1>3. CASE RetrySession
  <2>1. UNCHANGED ecu /\ Starting
    BY <1>3 DEF RetrySession
  <2>2. CASE retry + 1 > MaxRetries
    <3>1. retry \in Nat /\ MaxRetries \in Nat
      BY <1>1, RetryAssumption DEF WorkerType
    <3>2. retry > 0
      BY <2>2, <3>1
    <3>3. NoneAsked'
      BY <2>1, <3>2 DEF NoneAsked
    <3>4. OnlyFront'
      BY <3>3 DEF NoneAsked, OnlyFront
    <3> QED
      BY <1>3, <2>1, <2>2, <3>4 DEF RetrySession
  <2>3. CASE ~(retry + 1 > MaxRetries)
    BY <1>3, <2>1, <2>3 DEF RetrySession
  <2> QED
    BY <2>2, <2>3
<1> QED
  BY <1>2, <1>3

(* The pause ends: what the ECU still owes is seen here. *)
LEMMA PauseStep ==
  ASSUME EndPause
  PROVE  owing' \/ (UnderWay' /\ Received')
<1>1. pc' = "loop" /\ phase' = "read" /\ ecu' = ecu
  BY DEF EndPause
<1>2. ~owing' => NoneAsked'
  BY DEF EndPause, NoneAsked
<1>3. NoneAsked' => OnlyFront'
  BY DEF NoneAsked, OnlyFront
<1> QED
  BY <1>1, <1>2, <1>3 DEF UnderWay, Received, RestingRead, Starting, Asking

LEMMA UnderWayOthers ==
  ASSUME NoAborts, VInv, ~owing, Gui \/ EcuAnswers \/ EcuDrops
  PROVE  UnderWay' /\ Received'
<1> USE DEF VInv, UnderWay, Received, RestingRead, Starting, Asking, worker, queues, rx, hist
<1>1. /\ TInv /\ gui \in {"idle", "adding"}
      /\ (Asking => reads # <<>> /\ Head(reads) = did)
  BY DEF AInv, QuietInv, DInv, FrontInv
<1>2. UNCHANGED <<pc, phase, did, retry>>
  BY <1>1, NoAbortHappens
     DEF Gui, AddDidToReadQueue, WriteDid, GuiReturns, NotifyDidUpdate, AbortFlag,
         AbortLength, Release, RequestStop, EcuAnswers, EcuDrops, OnIsoTpDataReceived
<1>4. CASE AddDidToReadQueue
  <2>1. PICK d \in Did : reads' = Append(reads, d)
    BY <1>4 DEF AddDidToReadQueue
  <2>2. UNCHANGED <<ecu, bufLen, buf>>
    BY <1>4 DEF AddDidToReadQueue
  <2>3. (OnlyFront => OnlyFront') /\ (NoneAsked => NoneAsked')
    BY <1>1, <2>1, <2>2, AddedUnderWay
  <2> QED
    BY <1>2, <2>2, <2>3
<1>5. CASE WriteDid \/ GuiReturns
  <2>1. UNCHANGED <<ecu, reads, bufLen, buf>>
    BY <1>1, <1>5 DEF WriteDid, GuiReturns, NotifyDidUpdate, AbortFlag, AbortLength,
                      Release, RequestStop
  <2> QED
    BY <1>2, <2>1, SameUnderWay
<1>6. CASE EcuDrops
  <2>1. ecu # <<>> /\ ecu' = Tail(ecu) /\ UNCHANGED <<reads, bufLen, buf>>
    BY <1>6 DEF EcuDrops
  <2> QED
    BY <1>1, <1>2, <2>1, TailUnderWay
<1>7. CASE EcuAnswers
  <2>1. /\ ecu # <<>> /\ UNCHANGED reads /\ (ecu' = ecu \/ ecu' = Tail(ecu))
        /\ bufLen' = "data" /\ buf'.sid = Head(ecu).sid /\ buf'.did = Head(ecu).did
    BY <1>7 DEF EcuAnswers, OnIsoTpDataReceived
  <2>2. (OnlyFront => OnlyFront') /\ (NoneAsked => NoneAsked')
    BY <1>1, <2>1, TailUnderWay, SameUnderWay
  <2>3. Head(ecu) = ecu[1] /\ 1 \in 1..Len(ecu)
    BY <1>1, <2>1, TypeParts DEF BusType
  <2>4. OnlyFront /\ Head(ecu).sid = "read" => reads # <<>> /\ Head(ecu).did = Head(reads)
    BY <2>3 DEF OnlyFront
  <2> QED
    BY <1>1, <1>2, <2>1, <2>2, <2>4
<1> QED
  BY <1>1, <1>4, <1>5, <1>6, <1>7, NoAbortHappens DEF Gui

(* Only an answer to a read changes what is shown, only the end of a pause   *)
(* what is known of the ECU.                                                 *)
LEMMA ShownStep ==
  ASSUME NoAborts, VInv, [Next]_vars, ~EndPause
  PROVE  \/ UNCHANGED shown
         \/ /\ ProcessReadDidResponse /\ Asking /\ pc # "session" /\ buf.sid = "read"
            /\ bufLen = "data" \/ pc = "settle"
<1>1. CASE ReadAnswer \/ PendingReadAnswered
  <2>1. Asking /\ pc # "session" /\ (pc = "settle" \/ bufLen = "data")
    BY <1>1 DEF ReadAnswer, PendingReadAnswered, Asking, Answered
  <2>2. \/ ProcessReadDidResponse /\ buf.sid = "read"
        \/ ProcessRejectedNrc \/ Continue("pause") \/ Continue("pending")
    BY <1>1 DEF ReadAnswer, PendingReadAnswered, Is
  <2>3. CASE ProcessRejectedNrc \/ Continue("pause") \/ Continue("pending")
    BY <2>3 DEF ProcessRejectedNrc, Continue, hist
  <2> QED
    BY <2>1, <2>2, <2>3
<1>2. CASE ContinueReading \/ LeaveReading \/ Front \/ RetrySession \/ SendRead \/ ConditionsNotCorrect
  BY <1>2 DEF ContinueReading, LeaveReading, Front, RetrySession, SendRead, ConditionsNotCorrect, hist
<1>3. CASE Acquire \/ HandleDidWriting
  BY <1>3 DEF Acquire, HandleDidWriting, EnterWriting, SkipWriting, NextWrite, ClearWrites,
              ResetAborted, GiveUpWrite, SendWrite, WriteAnswer, PendingWriteAnswered, Continue, hist
<1>4. CASE Dialogue
  BY <1>4 DEF Dialogue, SendSession, SessionAnswered, RequestAnswered, RequestUnanswered,
              AwaitPending, LeavePending, PendingUnanswered, Continue, hist
<1>5. CASE Gui \/ EcuAnswers \/ EcuDrops
  BY <1>5 DEF Gui, AddDidToReadQueue, WriteDid, AbortDidUpdate, Destruct, ClearQueues, GuiReturns,
              NotifyDidUpdate, AbortFlag, AbortLength, Release, RequestStop, EcuAnswers, EcuDrops,
              OnIsoTpDataReceived, hist
<1>6. CASE UNCHANGED vars
  BY <1>6 DEF vars, hist
<1> QED
  BY <1>1, <1>2, <1>3, <1>4, <1>5, <1>6 DEF Next, WorkerThread, HandleDidReading

(* What is stored is the DID's own, or the DID is known to be doubtful.      *)
LEMMA ValueStep ==
  ASSUME NoAborts, VInv, [Next]_vars
  PROVE  ValueIsOfDid'
<1>1. ValueIsOfDid /\ HistType
  BY TypeParts DEF VInv, AInv
<1>2. CASE UNCHANGED shown
  BY <1>1, <1>2 DEF ValueIsOfDid, shown
<1>3. CASE EndPause
  <2>1. value' = value /\ doubtful' = doubtful
    BY <1>3 DEF EndPause
  <2> QED
    BY <1>1, <2>1 DEF ValueIsOfDid
<1>4. CASE /\ ProcessReadDidResponse /\ Asking /\ pc # "session" /\ buf.sid = "read"
           /\ bufLen = "data" \/ pc = "settle"
  <2>1. /\ value' = [value EXCEPT ![did] = buf.did]
        /\ doubtful' = IF owing THEN doubtful \cup {did} ELSE doubtful \ {did}
    BY <1>4 DEF ProcessReadDidResponse, ShowValue
  <2>2. owing \/ buf.did = did
    BY <1>4 DEF VInv, Received, Asking
  <2>3. \A d \in Did : value'[d] = IF d = did THEN buf.did ELSE value[d]
    BY <1>1, <2>1 DEF HistType
  <2> QED
    BY <1>1, <2>1, <2>2, <2>3 DEF ValueIsOfDid
<1> QED
  BY <1>2, <1>3, <1>4, ShownStep

(* value_str shows the value of its own DID (ProcessReadDidResponse) unless  *)
(* it came while the ECU still owed the answer to an earlier read when the   *)
(* worker went on: however late, mute or doubtful the ECU is otherwise, and  *)
(* for any number of retries but none.                                       *)
THEOREM ValuesAreTheirOwn ==
  ASSUME NoAborts, MaxRetries > 0
  PROVE  Spec => []ValueIsOfDid
<1>1. VInv /\ [Next]_vars => VInv'
  <2> SUFFICES ASSUME VInv, [Next]_vars PROVE VInv'
    OBVIOUS
  <2>1. AInv' /\ ValueIsOfDid'
    BY NextA, ValueStep DEF VInv
  <2>2. CASE EndPause
    BY <2>1, <2>2, PauseStep DEF VInv
  <2>3. CASE owing /\ ~EndPause
    <3>1. owing'
      BY <2>3, ShownStep DEF shown, ProcessReadDidResponse, ShowValue
    <3> QED
      BY <2>1, <3>1 DEF VInv
  <2>4. CASE ~owing /\ UNCHANGED vars
    <3>1. UNCHANGED <<ecu, reads, worker, rx>>
      BY <2>4 DEF vars, queues
    <3>2. UnderWay' /\ Received'
      BY <2>4, <3>1, SameUnderWay DEF VInv, UnderWay, Received, RestingRead, Starting, Asking,
                                      worker, rx
    <3> QED
      BY <2>1, <3>2 DEF VInv
  <2>5. CASE ~owing /\ Next /\ ~EndPause
    <3>1. UnderWay' /\ Received'
      BY <2>5, UnderWayLoop, UnderWayDialogue, UnderWayReading, UnderWayOthers
         DEF Next, WorkerThread, HandleDidReading, HandleDidWriting, Dialogue
    <3> QED
      BY <2>1, <3>1 DEF VInv
  <2> QED
    BY <2>2, <2>3, <2>4, <2>5
<1>2. VInv => ValueIsOfDid
  BY DEF VInv
<1> QED
  BY InitV, <1>1, <1>2, PTL DEF Spec
=============================================================================
