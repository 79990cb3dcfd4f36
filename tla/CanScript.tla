----------------------------- MODULE CanScript -----------------------------
(***************************************************************************)
(* CanScriptHandler (src/src/CanScriptHandler.cpp): a script runs on a      *)
(* thread of its own, the GUI starts and aborts it, and the thread of the   *)
(* CAN port tells it, through CanEntryHandler, of every frame sent or       *)
(* received.  Neither m_WaitingFrame and m_WaitingFrameReceived nor the     *)
(* values set by the script are guarded by a mutex.  Of a value the model   *)
(* keeps where it comes from, of a frame on the bus whether its data is the *)
(* one set with SetFrameFieldRaw.                                           *)
(***************************************************************************)
EXTENDS Naturals

CONSTANT ScriptFrames   \* frame ids the scripts name

NoFrame == "max"          \* numeric_limits<uint32_t>::max()

ASSUME ScriptFramesAssumption == NoFrame \notin ScriptFrames

VARIABLES
  csPc,        \* the script thread
  csFrame,     \* the frame of the SendFrame or WaitForFrame that is executed
  csAborted,   \* m_IsAborted
  csWaiting,   \* m_WaitingFrame
  csReceived,  \* m_WaitingFrameReceived
  csData,      \* m_WaitingFrameData: [frame, same]
  csField,     \* m_FrameIDValues: unset, set, or the zero operator[] makes
  csRaw,       \* the keys of raw_frame_blocks
  csRawLast,   \* history: the frames whose value was last set raw
  csBus,       \* a frame that OnFrameOnBus found to be awaited and has not stored, or <<>>
  csVerdict,   \* history: what the last WaitForFrame reported
  csHeard,     \* history: the awaited frame was stored during the wait
  csLate,      \* history: a frame was stored that was not awaited any more
  csCut,       \* history: there was an abort
  csSent       \* history: the value the last frame sent had

csThread == <<csPc, csFrame>>
csWait   == <<csWaiting, csReceived, csData>>
csValues == <<csField, csRaw, csRawLast>>
csPast   == <<csVerdict, csHeard, csLate, csSent>>
csVars   == <<csThread, csAborted, csWait, csValues, csBus, csPast, csCut>>

Missing == [f \in ScriptFrames |-> "unset"]

ScriptInit ==
  /\ csPc = "idle" /\ csFrame = NoFrame /\ csAborted = FALSE
  /\ csWaiting = NoFrame /\ csReceived = FALSE /\ csData = <<>>
  /\ csField = Missing /\ csRaw = {} /\ csRawLast = {}
  /\ csBus = <<>> /\ csVerdict = "none" /\ csHeard = FALSE /\ csLate = FALSE
  /\ csCut = FALSE /\ csSent = "none"

-----------------------------------------------------------------------------
(* The GUI. *)

(* Run: refused while a script runs.  What earlier scripts set stays. *)
RunScript ==
  /\ csPc = "idle"
  /\ csPc' = "line"
  /\ UNCHANGED <<csFrame, csAborted, csWait, csValues, csBus, csPast, csCut>>

(* Abort: also when no script runs, and m_IsAborted stays set then. *)
AbortRunningScript ==
  /\ csAborted' = TRUE
  /\ csWaiting' = NoFrame /\ csReceived' = TRUE
  /\ csField' = Missing /\ csRaw' = {}
  /\ csCut' = TRUE
  /\ UNCHANGED <<csThread, csData, csRawLast, csBus, csPast>>

-----------------------------------------------------------------------------
OnFrameOnBusAny(f, same) ==      \* mutant: any frame ends the wait
  /\ csBus = <<>> /\ csWaiting # NoFrame /\ ~csReceived
  /\ csBus' = [frame |-> f, same |-> same]
  /\ UNCHANGED <<csThread, csAborted, csWait, csValues, csPast, csCut>>

(* OnFrameOnBus, for every frame sent or received: it looks whether the frame *)
(* is awaited, then takes cv_m and stores it.                                *)

OnFrameOnBus(f, same) ==
  /\ csBus = <<>> /\ csWaiting = f /\ ~csReceived
  /\ csBus' = [frame |-> f, same |-> same]
  /\ UNCHANGED <<csThread, csAborted, csWait, csValues, csPast, csCut>>

StoreFrame ==
  /\ csBus # <<>>
  /\ csReceived' = TRUE /\ csData' = csBus /\ csBus' = <<>>
  /\ csHeard' = (csHeard \/ (csPc = "blocked" /\ csBus.frame = csFrame))
  /\ csLate' = (csLate \/ csPc \notin {"armed", "blocked"})
  /\ UNCHANGED <<csThread, csAborted, csWaiting, csValues, csVerdict, csCut, csSent>>

-----------------------------------------------------------------------------
(* The script thread: ExecuteScript, a line at a time. *)

NextLine == csPc' = "line" /\ csFrame' = NoFrame
Runs == csPc = "line" /\ ~csAborted

(* An empty line, a comment, an unknown function, wrong parameters, a Sleep. *)
OtherLine ==
  /\ Runs /\ NextLine
  /\ UNCHANGED <<csAborted, csWait, csValues, csBus, csPast, csCut>>

SetFrameField(f) ==
  /\ Runs /\ NextLine
  /\ csField' = [csField EXCEPT ![f] = "set"] /\ csRawLast' = csRawLast \ {f}
  /\ UNCHANGED <<csAborted, csWait, csRaw, csBus, csPast, csCut>>

SetFrameFieldRaw(f) ==
  /\ Runs /\ NextLine
  /\ csRaw' = csRaw \cup {f} /\ csRawLast' = csRawLast \cup {f}
  /\ UNCHANGED <<csAborted, csWait, csField, csBus, csPast, csCut>>

(* SendFrame asks contains() first; a value set as a field comes before a    *)
(* raw one, and none at all sends nothing.                                   *)
SendFrame(f) ==
  /\ Runs
  /\ IF csField[f] = "unset" /\ f \notin csRaw
       THEN NextLine
       ELSE /\ csPc' = IF csField[f] # "unset" THEN "sendField" ELSE "sendRaw"
            /\ csFrame' = f
  /\ UNCHANGED <<csAborted, csWait, csValues, csBus, csPast, csCut>>

(* ... then reads the value.  When an abort cleared the map in between, a    *)
(* field is made anew, zero, and sent; an empty raw block is not sent.       *)
SendField ==
  /\ csPc = "sendField" /\ NextLine
  /\ csField' = [csField EXCEPT ![csFrame] = IF @ = "unset" THEN "zero" ELSE @]
  /\ csSent' = IF csField'[csFrame] = "zero" THEN "zero"
               ELSE IF csFrame \in csRawLast THEN "older field" ELSE "last"
  /\ UNCHANGED <<csAborted, csWait, csRaw, csRawLast, csBus, csVerdict, csHeard, csLate, csCut>>

SendRaw ==
  /\ csPc = "sendRaw" /\ NextLine
  /\ csSent' = IF csFrame \notin csRaw THEN csSent
               ELSE IF csFrame \in csRawLast THEN "last" ELSE "older raw"
  /\ UNCHANGED <<csAborted, csWait, csValues, csBus, csVerdict, csHeard, csLate, csCut>>

(* WaitForFrame: m_WaitingFrame, then m_WaitingFrameReceived, then cv_m and   *)
(* the wait.                                                                 *)
WaitForFrame(f) ==
  /\ Runs
  /\ csFrame' = f /\ csWaiting' = f /\ csHeard' = FALSE /\ csLate' = (csBus # <<>>)
  /\ csPc' = "armed"
  /\ UNCHANGED <<csAborted, csReceived, csData, csValues, csBus, csVerdict, csCut, csSent>>

ClearReceived ==
  /\ csPc = "armed"
  /\ csPc' = "blocked" /\ csReceived' = FALSE
  /\ UNCHANGED <<csFrame, csAborted, csWaiting, csData, csValues, csBus, csPast, csCut>>

(* The wait ends when the flag or the abort is seen, or at the deadline; a   *)
(* frame no value was set for is compared with an empty one.                 *)
Outcome ==
  IF csAborted THEN "abort"
  ELSE IF ~csReceived THEN "timeout"
  ELSE IF csData # <<>> /\ csData.same /\ csFrame \in csRaw THEN "ok" ELSE "invalid"

EndWait ==
  /\ csPc = "blocked" /\ NextLine
  /\ csVerdict' = Outcome
  /\ csWaiting' = NoFrame /\ csReceived' = FALSE
  /\ csRaw' = csRaw \ {csFrame}
  /\ csHeard' = FALSE /\ csLate' = FALSE
  /\ UNCHANGED <<csAborted, csData, csField, csRawLast, csBus, csCut, csSent>>

(* The loop ends; "finished by abort" or "successfully" is logged.           *)
Finish ==
  /\ csPc = "line"
  /\ csPc' = "idle" /\ csAborted' = FALSE
  /\ UNCHANGED <<csFrame, csWait, csValues, csBus, csPast, csCut>>

ScriptNext ==
  \/ RunScript \/ AbortRunningScript
  \/ \E f \in ScriptFrames, same \in BOOLEAN : OnFrameOnBus(f, same)
  \/ StoreFrame
  \/ \E f \in ScriptFrames :
        SetFrameField(f) \/ SetFrameFieldRaw(f) \/ SendFrame(f) \/ WaitForFrame(f)
  \/ OtherLine \/ SendField \/ SendRaw \/ ClearReceived \/ EndWait \/ Finish

ScriptSpec == ScriptInit /\ [][ScriptNext]_csVars

-----------------------------------------------------------------------------
(* Properties. *)

(* WaitForFrame compares data of the frame it waits for, and times out only  *)
(* when no such frame came while it waited: unless a callback that began for *)
(* an earlier wait stored its frame during this one.                         *)
WaitIsForItsFrame ==
  csPc = "blocked" =>
    /\ (Outcome \in {"ok", "invalid"} /\ ~csLate /\ csData # <<>>) => csData.frame = csFrame
    /\ Outcome = "timeout" => ~csHeard

(* SendFrame sends the value its frame was set to last, unless the frame was *)
(* set as a field and raw later, or there was an abort: one that comes        *)
(* between the two steps of SendFrame leaves a zero, which this script and   *)
(* every later one then send.                                                *)
SendsWhatWasSet == csSent \in {"none", "last", "older field"} \/ csCut

(* What a script sends and what it hears is what its lines say.              *)
ScriptSafe == WaitIsForItsFrame /\ SendsWhatWasSet
=============================================================================
