----------------------------- MODULE MacroKeys -----------------------------
(***************************************************************************)
(* From a pressed key to its macro: CustomMacro::ProcessReceivedData,      *)
(* SimulateKeypress and ExecuteKeypresses (src/src/CustomMacro.cpp), and   *)
(* the alarms some keys are bound to (src/src/Alarms.cpp,                  *)
(* src/src/gui/AlarmPanel.cpp).  The thread that receives from the second  *)
(* keyboard, the GUI and the alarms' worker press keys; pressed_keys is      *)
(* theirs in common, only its execution is under executor_mtx.  "m" is a   *)
(* key bound to a macro, "a" to the one alarm, "n" to nothing.  A duration *)
(* is a number of the worker's seconds.                                    *)
(***************************************************************************)
EXTENDS Integers, Sequences

CONSTANT MaxDuration     \* bound: durations typed in the dialog

ASSUME DurationAssumption == MaxDuration \in Nat

Threads == {"keyboard", "gui", "alarm"}
Keys == {"m", "a", "n"}

VARIABLES
  mkPressed,  \* pressed_keys
  mkOwner,    \* the thread that holds executor_mtx, or "none"
  mkPc,       \* each thread: idle, lock, sem, armed, clear; the GUI: dialog, cancel too
  mkDirect,   \* history: the GUI handles the alarm outside executor_mtx (tray, panel)
  mkFlag,     \* m_showAlarmDialog
  mkDialog,   \* the dialog is open
  mkSem,      \* m_alarmSemaphore
  mkText,     \* m_DurationText
  mkArmed,    \* is_armed of the alarm
  mkLeft,     \* its duration
  mkSince,    \* history: seconds counted since the duration was set
  mkSet,      \* history: the duration it was set to
  mkEarly,    \* history: the alarm went off before its time, with both its fields written
  mkTwo       \* history: a dialog was requested while another request was open

mkKeys  == <<mkPressed, mkOwner>>
mkBox   == <<mkFlag, mkDialog, mkSem, mkText, mkTwo>>
mkAlarm == <<mkArmed, mkLeft, mkSince, mkSet, mkEarly>>
mkVars  == <<mkKeys, mkPc, mkDirect, mkBox, mkAlarm>>

MacroKeysInit ==
  /\ mkPressed = <<>> /\ mkOwner = "none" /\ mkDirect = FALSE
  /\ mkPc = [t \in Threads |-> "idle"]
  /\ mkFlag = FALSE /\ mkDialog = FALSE /\ mkSem = 0 /\ mkText = 0 /\ mkTwo = FALSE
  /\ mkArmed = FALSE /\ mkLeft = 0 /\ mkSince = 0 /\ mkSet = 0 /\ mkEarly = FALSE

Goes(t, pc) == mkPc' = [mkPc EXCEPT ![t] = pc]
Press(keys) == mkPressed' = keys /\ UNCHANGED mkOwner

-----------------------------------------------------------------------------
(* ProcessReceivedData: a key is appended to those held; all released, or a  *)
(* reset, empties them.                                                      *)
KeyReceived(k) ==
  /\ mkPc["keyboard"] = "idle" /\ Len(mkPressed) < 2
  /\ Press(Append(mkPressed, k)) /\ Goes("keyboard", "lock")
  /\ UNCHANGED <<mkDirect, mkBox, mkAlarm>>

AllReleased ==
  /\ mkPc["keyboard"] = "idle"
  /\ Press(<<>>)
  /\ UNCHANGED <<mkPc, mkDirect, mkBox, mkAlarm>>

(* SimulateKeypress: a button of the main panel.                             *)
ClickKey(k) ==
  /\ mkPc["gui"] = "idle" /\ ~mkDialog
  /\ Press(<<k>>) /\ Goes("gui", "lock")
  /\ mkDirect' = FALSE
  /\ UNCHANGED <<mkBox, mkAlarm>>

(* HandleKeypress: ask for the dialog, then wait for its end.                *)
AskForDialog == mkFlag' = TRUE /\ mkTwo' = (mkTwo \/ mkFlag \/ mkDialog \/ mkSem > 0)

(* ExecuteKeypresses, under executor_mtx to its end.  Only the worker        *)
(* executes an alarm directly; the others set it up.                         *)
ExecuteKeypresses(t) ==
  /\ mkPc[t] = "lock" /\ mkOwner = "none"
  /\ IF mkPressed = <<"a">> /\ t # "alarm"
       THEN mkOwner' = t /\ AskForDialog /\ Goes(t, "sem")
       ELSE /\ Goes(t, IF t = "keyboard" THEN "idle" ELSE "clear")
            /\ UNCHANGED <<mkOwner, mkFlag, mkTwo>>
  /\ UNCHANGED <<mkPressed, mkDirect, mkDialog, mkSem, mkText, mkAlarm>>

ClearPressed(t) ==
  /\ mkPc[t] = "clear"
  /\ Press(<<>>) /\ Goes(t, "idle")
  /\ mkArmed' = (mkArmed /\ t # "alarm")     \* the worker's is_armed = false
  /\ UNCHANGED <<mkDirect, mkBox, mkLeft, mkSince, mkSet, mkEarly>>

-----------------------------------------------------------------------------
(* The dialog: the 10 ms timer opens it when it is asked for.                *)
On10MsTimer ==
  /\ mkPc["gui"] = "idle" /\ mkFlag /\ ~mkDialog
  /\ mkFlag' = FALSE /\ mkDialog' = TRUE
  /\ UNCHANGED <<mkKeys, mkPc, mkDirect, mkSem, mkText, mkTwo, mkAlarm>>

(* The tray's menu and SetupAlarm of the panel open it themselves.           *)
SetupAlarm ==
  /\ mkPc["gui"] = "idle" /\ ~mkDialog
  /\ mkTwo' = (mkTwo \/ mkFlag \/ mkSem > 0 \/ mkPc["keyboard"] = "sem")
  /\ mkFlag' = FALSE /\ mkDialog' = TRUE
  /\ Goes("gui", "dialog") /\ mkDirect' = TRUE
  /\ UNCHANGED <<mkKeys, mkSem, mkText, mkAlarm>>

(* Cancelled, it leaves the text of the time before.                         *)
EndDialog ==
  /\ mkDialog
  /\ mkDialog' = FALSE /\ mkSem' = mkSem + 1
  /\ \E d \in (1..MaxDuration) \cup {mkText} : mkText' = d
  /\ IF mkPc["gui"] = "dialog" THEN Goes("gui", "sem") ELSE UNCHANGED mkPc
  /\ UNCHANGED <<mkKeys, mkDirect, mkFlag, mkTwo, mkAlarm>>

(* The end of HandleKeypress and of SetupAlarm: is_armed, then duration.     *)
ArmAlarm(t) ==
  /\ mkPc[t] = "sem" /\ mkSem > 0
  /\ mkSem' = mkSem - 1 /\ mkArmed' = TRUE
  /\ Goes(t, "armed")
  /\ UNCHANGED <<mkKeys, mkDirect, mkFlag, mkDialog, mkText, mkTwo, mkLeft, mkSince, mkSet, mkEarly>>

SetDuration(t) ==
  /\ mkPc[t] = "armed"
  /\ mkLeft' = mkText /\ mkSet' = mkText /\ mkSince' = 0
  /\ mkOwner' = IF mkOwner = t THEN "none" ELSE mkOwner
  /\ Goes(t, IF t = "gui" /\ ~mkDirect THEN "clear" ELSE "idle")
  /\ UNCHANGED <<mkPressed, mkDirect, mkBox, mkArmed, mkEarly>>

(* CancelAlarm: duration, then is_armed.                                     *)
CancelAlarm ==
  /\ mkPc["gui"] = "idle" /\ ~mkDialog /\ mkArmed
  /\ mkLeft' = 0 /\ Goes("gui", "cancel")
  /\ UNCHANGED <<mkKeys, mkDirect, mkBox, mkArmed, mkSince, mkSet, mkEarly>>

Disarm ==
  /\ mkPc["gui"] = "cancel"
  /\ mkArmed' = FALSE /\ Goes("gui", "idle")
  /\ UNCHANGED <<mkKeys, mkDirect, mkBox, mkLeft, mkSince, mkSet, mkEarly>>

(* The worker, every second: it goes off when less than a second is left.    *)
GoesOffSooner(left) == left <= 1       \* mutant
GoesOff(left) == left <= 0
WorkerThread ==
  /\ mkPc["alarm"] = "idle" /\ mkArmed
  /\ mkLeft' = IF mkLeft < 0 THEN mkLeft ELSE mkLeft - 1      \* any value below zero is one
  /\ mkSince' = IF mkSince > MaxDuration THEN mkSince ELSE mkSince + 1
  /\ IF GoesOff(mkLeft - 1)
       THEN /\ Press(<<"a">>) /\ Goes("alarm", "lock")
            /\ mkEarly' = (mkEarly \/ (/\ mkSince' < mkSet
                                       /\ mkPc["gui"] \notin {"armed", "cancel"}
                                       /\ mkPc["keyboard"] # "armed"))
       ELSE UNCHANGED <<mkKeys, mkPc, mkEarly>>
  /\ UNCHANGED <<mkDirect, mkBox, mkArmed, mkSet>>

MacroKeysNext ==
  \/ \E k \in Keys : KeyReceived(k) \/ ClickKey(k)
  \/ AllReleased \/ On10MsTimer \/ SetupAlarm \/ EndDialog
  \/ \E t \in Threads : ExecuteKeypresses(t) \/ ClearPressed(t) \/ ArmAlarm(t) \/ SetDuration(t)
  \/ CancelAlarm \/ Disarm \/ WorkerThread

MacroKeysSpec == MacroKeysInit /\ [][MacroKeysNext]_mkVars

-----------------------------------------------------------------------------
(* Properties. *)

(* The alarm goes off no sooner than its duration, unless the worker looks   *)
(* between is_armed and duration, which SetupAlarm, HandleKeypress and       *)
(* CancelAlarm write one after the other without a mutex.                    *)
NotEarly == ~mkEarly

(* Who waits for the dialog gets it: it is asked for, open, or its semaphore *)
(* released, unless two requests met in one dialog.                          *)
DialogComes ==
  (~mkTwo /\ \E t \in Threads : mkPc[t] = "sem") => mkFlag \/ mkDialog \/ mkSem > 0

(* The GUI, which alone opens the dialog, is not held up itself by who waits *)
(* for it, unless a key was clicked on the main panel: the click of an       *)
(* alarm's key waits for the GUI in the GUI, and any click behind an alarm's *)
(* key of the keyboard waits for executor_mtx.                               *)
GuiHeldUp == mkFlag /\ mkSem = 0 /\ (mkPc["gui"] = "sem" \/ (mkPc["gui"] = "lock" /\ mkOwner # "none"))
GuiFree == (GuiHeldUp /\ ~mkTwo) => ~mkDirect

MacroKeysSafe == NotEarly /\ DialogComes /\ GuiFree
=============================================================================
