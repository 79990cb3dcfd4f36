--------------------------- MODULE MacroRecorder ---------------------------
(***************************************************************************)
(* The recording of keys and clicks into a macro: MacroRecorder            *)
(* (src/src/MacroRecorder.cpp) and the recording half of CustomMacro.  The *)
(* hooks tell of every key that goes down, repeats or goes up; letters     *)
(* become one text, keys held with a modifier one combination, when as     *)
(* many went up as down.  Keys with no letter of their own that are no     *)
(* modifiers either (ENTER, CAPSLOCK, those that are resolved as INVALID)  *)
(* begin a text like a letter and then are left out of it.  Two macros are *)
(* recorded into, one after the other; an element of a macro is pointed to *)
(* while letters are added.                                                *)
(***************************************************************************)
EXTENDS Naturals, Sequences, SequencesExt

CONSTANTS Letters, Modifiers,     \* keys; those with is_modifier_key
          Wordless,               \* those with neither: their names are longer than a letter
          MaxEvents, MaxSessions  \* bounds: presses, repetitions and clicks; recordings

VARIABLES
  rcOn,        \* hHook_keyboard, hHook_mouse: [kbd, mouse]
  rcTarget,    \* editing_macro
  rcItem,      \* editing_item: the number of an element, or 0
  rcMade,      \* the elements of both macros: [macro, kind, keys]
  rcKeys,      \* key_press: [key, down]
  rcType,      \* current_macro_type: none, seq, type
  rcLast,      \* last_key_down: a key, or "none"
  rcHeld,      \* the keys the user holds, in the order pressed
  rcPressed,   \* history: the presses while recording, <<key, macro, into a combination>>
  rcSessions,  \* recordings begun
  rcEvents,    \* presses, repetitions and clicks so far
  rcNull,      \* the pointer was followed to nothing, or to an element that is no text
  rcOdd        \* history: what was not a plain sequence of presses, see below

rcKeep == <<rcOn, rcTarget, rcSessions>>
rcRec  == <<rcItem, rcMade, rcKeys, rcType, rcLast, rcNull>>
rcVars == <<rcKeep, rcRec, rcHeld, rcPressed, rcEvents, rcOdd>>

(* In rcOdd, held: a recording began or ended with keys held.  overlap: a    *)
(* modifier went down while another key was held.  repeat: a held key repeated  *)
(* after another one went up.  resumed: a recording began with an element    *)
(* pointed to.  click: a click while keys are recorded.                      *)

RecorderInit ==
  /\ rcOn = [kbd |-> FALSE, mouse |-> FALSE] /\ rcTarget = 1 /\ rcSessions = 0
  /\ rcItem = 0 /\ rcMade = <<>> /\ rcKeys = <<>> /\ rcType = "none" /\ rcLast = "none"
  /\ rcHeld = <<>> /\ rcPressed = <<>> /\ rcEvents = 0 /\ rcOdd = {} /\ rcNull = FALSE

Down(keys) == SelectSeq(keys, LAMBDA i : i.down)
KeysOf(keys) == [i \in DOMAIN Down(keys) |-> <<Down(keys)[i].key, rcTarget>>]

(* FinishTextMacro: the letters that went down.  The others are dropped.     *)
FinishTextMacro(keys) == SelectSeq(KeysOf(keys), LAMBDA k : k[1] \in Letters)
IsText(made, item) == item # 0 /\ made[item].kind = "text"
AddText(made, item, text) == [made EXCEPT ![item].keys = @ \o text]
NewElement(kind, keys) == [macro |-> rcTarget, kind |-> kind, keys |-> keys]

(* OnKeyPressed, of a key that is not the one that went down last. *)
ModifierDown ==
  /\ rcType' = "seq"
  /\ IF rcType # "type" THEN UNCHANGED <<rcItem, rcMade, rcNull>>
     ELSE /\ IF IsText(rcMade, rcItem)
               THEN /\ rcMade' = AddText(rcMade, rcItem, FinishTextMacro(rcKeys))
                    /\ UNCHANGED rcNull
               ELSE rcNull' = TRUE /\ UNCHANGED rcMade
          /\ rcItem' = 0

OnKeyPressed(k) ==
  IF ~rcOn.kbd \/ rcLast = k THEN UNCHANGED rcRec
  ELSE /\ IF k \in Modifiers THEN ModifierDown
          ELSE /\ rcType' = IF rcType = "none" THEN "type" ELSE rcType
               /\ UNCHANGED <<rcItem, rcMade, rcNull>>
       /\ rcKeys' = Append(rcKeys, [key |-> k, down |-> TRUE])
       /\ rcLast' = k

AnyUp(keys) == TRUE      \* mutant: the first key that goes up ends the combination
AllUp(keys) == 2 * Len(Down(keys)) = Len(keys)

(* OnKeyReleased *)
SeqUp(keys) ==
  IF AllUp(keys)
    THEN /\ rcMade' = Append(rcMade, NewElement("seq", KeysOf(keys)))
         /\ rcItem' = 0 /\ rcKeys' = <<>> /\ rcType' = "none"
         /\ UNCHANGED rcNull
    ELSE rcKeys' = keys /\ UNCHANGED <<rcMade, rcItem, rcType, rcNull>>

TypeUp(keys) ==
  LET item == IF rcItem = 0 THEN Len(rcMade) + 1 ELSE rcItem
      made == IF rcItem = 0 THEN Append(rcMade, NewElement("text", <<>>)) ELSE rcMade
  IN  /\ rcItem' = item /\ rcKeys' = <<>> /\ UNCHANGED rcType
      /\ IF IsText(made, item)
           THEN rcMade' = AddText(made, item, FinishTextMacro(keys)) /\ UNCHANGED rcNull
           ELSE rcMade' = made /\ rcNull' = TRUE

OnKeyReleased(k) ==
  LET keys == Append(rcKeys, [key |-> k, down |-> FALSE])
  IN  IF ~rcOn.kbd THEN UNCHANGED rcRec
      ELSE /\ rcLast' = "none"
           /\ CASE rcType = "seq"  -> SeqUp(keys)
                [] rcType = "type" -> TypeUp(keys)
                [] rcType = "none" -> rcKeys' = keys /\ UNCHANGED <<rcMade, rcItem, rcType, rcNull>>

-----------------------------------------------------------------------------
(* The user. *)

Event == rcEvents < MaxEvents /\ rcEvents' = rcEvents + 1
Notes(what) == rcOdd' = rcOdd \cup what
When(cond, what) == IF cond THEN {what} ELSE {}

(* A modifier was pressed since no key was held. *)
Combines(k) == k \in Modifiers \/ (rcHeld # <<>> /\ rcPressed # <<>> /\ Last(rcPressed)[3])
Press(k) ==
  /\ Event /\ ~Contains(rcHeld, k)
  /\ rcHeld' = Append(rcHeld, k)
  /\ rcPressed' = IF rcOn.kbd THEN Append(rcPressed, <<k, rcTarget, Combines(k)>>) ELSE rcPressed
  /\ Notes(When(k \in Modifiers /\ ToSet(rcHeld) \ Modifiers # {}, "overlap"))
  /\ OnKeyPressed(k) /\ UNCHANGED rcKeep

(* The key pressed last repeats as long as it is held. *)
Repeat ==
  /\ Event /\ rcHeld # <<>> /\ rcOn.kbd /\ rcLast # Last(rcHeld)
  /\ OnKeyPressed(Last(rcHeld))
  /\ Notes({"repeat"})
  /\ UNCHANGED <<rcKeep, rcHeld, rcPressed>>

Release(k) ==
  /\ Contains(rcHeld, k) /\ rcHeld' = Remove(rcHeld, k)
  /\ OnKeyReleased(k) /\ UNCHANGED <<rcKeep, rcPressed, rcEvents, rcOdd>>

(* LowLevelMouseProc; MarkMousePosition adds a movement the same way.        *)
Click ==
  /\ Event /\ rcOn.mouse
  /\ rcMade' = Append(rcMade, NewElement("mouse", <<>>)) /\ rcItem' = Len(rcMade) + 1
  /\ Notes(When(rcOn.kbd, "click"))
  /\ UNCHANGED <<rcKeep, rcKeys, rcType, rcLast, rcNull, rcHeld, rcPressed>>

(* TreeDetails_StartRecording, into one of two macros. *)
StartRecording(kbd, mouse, target) ==
  /\ ~rcOn.kbd /\ ~rcOn.mouse /\ (kbd \/ mouse)
  /\ rcSessions < MaxSessions /\ target <= rcSessions + 1 /\ rcSessions' = rcSessions + 1
  /\ rcOn' = [kbd |-> kbd, mouse |-> mouse] /\ rcTarget' = target
  /\ Notes(When(rcHeld # <<>>, "held") \cup When(rcItem # 0, "resumed"))
  /\ UNCHANGED <<rcRec, rcHeld, rcPressed, rcEvents>>

(* StopRecording removes the hooks and nothing else. *)
StopRecording ==
  /\ rcOn.kbd \/ rcOn.mouse
  /\ rcOn' = [kbd |-> FALSE, mouse |-> FALSE]
  /\ Notes(When(rcHeld # <<>>, "held"))
  /\ UNCHANGED <<rcTarget, rcSessions, rcRec, rcHeld, rcPressed, rcEvents>>

RecorderNext ==
  /\ ~rcNull
  /\ \/ \E k \in Letters \cup Modifiers \cup Wordless : Press(k) \/ Release(k)
     \/ Repeat \/ Click \/ StopRecording
     \/ \E kbd, mouse \in BOOLEAN, target \in {1, 2} : StartRecording(kbd, mouse, target)

RecorderSpec == RecorderInit /\ [][RecorderNext]_rcVars

-----------------------------------------------------------------------------
(* Properties. *)

(* Every letter and modifier pressed is recorded once, in the order pressed, *)
(* or waits for its release, in plain typing: no modifier pressed over       *)
(* another key, no repetition after another key went up, no key held over a  *)
(* start or stop; and nothing is left over for the next ones when no key is  *)
(* held.  Of the wordless keys a combination has those that were pressed     *)
(* from its modifier on, and no text has any.                                *)
Waiting == IF rcType = "seq" THEN KeysOf(rcKeys) ELSE FinishTextMacro(rcKeys)
Recorded == FlattenSeq([i \in DOMAIN rcMade |-> rcMade[i].keys]) \o Waiting
Recordable == SelectSeq(rcPressed, LAMBDA p : p[1] \notin Wordless \/ p[3])
EachKeyOnce ==
  (rcOdd \cap {"held", "overlap", "repeat", "click"} = {} /\ ~rcNull) =>
    /\ Recorded = [i \in DOMAIN Recordable |-> <<Recordable[i][1], Recordable[i][2]>>]
    /\ rcHeld = <<>> => rcKeys = <<>>

(* What is recorded goes into the macro it is recorded for, unless an        *)
(* earlier recording ended with text: its element takes the letters.         *)
IntoItsMacro ==
  rcOdd \cap {"resumed", "held"} = {} =>
    \A i \in DOMAIN rcMade : \A j \in DOMAIN rcMade[i].keys : rcMade[i].keys[j][2] = rcMade[i].macro

(* The element pointed to is a text when letters are added, unless a         *)
(* modifier went down over the first letter, the mouse was clicked, or an    *)
(* earlier recording left its element or keys behind.                        *)
NullNeedsOverlap == rcNull => rcOdd \cap {"overlap", "click", "held", "resumed"} # {}

RecorderSafe == EachKeyOnce /\ IntoItsMacro /\ NullNeedsOverlap
=============================================================================
