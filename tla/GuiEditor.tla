----------------------------- MODULE GuiEditor -----------------------------
(***************************************************************************)
(* The editor of dialogs: GuiEditor (src/src/GuiEditor.cpp) and its panels *)
(* (src/src/gui/Editor.cpp).  A map leads from the address of each window  *)
(* to its Widget, the selection is an address, and looking up an address   *)
(* that is not in the map puts a null Widget there.  wxWidgets frees a     *)
(* destroyed window at once, and a later one may get its address.  All of  *)
(* it runs in the GUI thread.                                              *)
(***************************************************************************)
EXTENDS Naturals, FiniteSets, TLC

CONSTANTS Addresses,             \* where windows can be, a set of numbers without 0
          Picks,                 \* the entries of the list "Add widget" that are chosen
          MaxMade, MaxStarts     \* bounds: Widgets made, starts of the program

VARIABLES
  geWindow,   \* what stands at each address: the type of a window, or "none"
  geWidgets,  \* widgets: from addresses to Widgets, NullWidget for nullptr
  geIds,      \* Widget::item_ids
  geSel,      \* m_SelectedWidget: an address, or 0
  geFile,     \* the XML file: [state: none, cut or whole; count of each type name]
  geTwice,    \* the names that the C++ page declares more than once
  geEnd,      \* how the program ended, or "runs"
  geStarts,   \* starts of the program
  geMade,     \* Widgets made in this start
  geClicked,  \* history: the Widget the user clicked last (its number), or 0
  geWrong,    \* history: an edit went to another Widget, though this one's window stands
  geGone,     \* history: the selected window was destroyed after the last click
  geDangled,  \* history: a selected window was destroyed in this start
  geSaved,    \* history: how many windows of each type there were at the last save
  geFresh     \* history: nothing happened since the file was opened

geMap  == <<geWindow, geWidgets, geIds, geMade>>
geHist == <<geClicked, geWrong, geGone, geDangled>>
geDisk == <<geFile, geSaved>>
geVars == <<geMap, geSel, geDisk, geTwice, geEnd, geStarts, geHist, geFresh>>

(* What the 24 entries of the list make, from 0 on: from wxColorPicker (15)  *)
(* on each makes what the next one is named for, and the last one nothing.   *)
ListOfTypes == <<"Button", "ComboBox", "Choice", "ListBox", "CheckBox", "RadioButton",
             "StaticLine", "Slider", "Gauge", "StaticText", "SpinCtrl", "SpinCtrlDouble",
             "TextCtrl", "ToggleButton", "SearchCtrl", "FontPickerCtrl", "FilePickerCtrl",
             "DirPickerCtrl", "DatePickerCtrl", "TimePickerCtrl", "CalendarCtrl",
             "GenericDirCtrl", "SpinButton">>
Types == {ListOfTypes[i] : i \in DOMAIN ListOfTypes}
Count(of) == [t \in Types |-> Cardinality({a \in Addresses : of[a] = t})]
NoCount == [t \in Types |-> 0]
NullWidget == [type |-> "none", num |-> 0, edited |-> FALSE, made |-> 0]
NoMap == [a \in {} |-> NullWidget]

(* The name under which SaveWidgets writes a type, and what LoadWidgets      *)
(* makes of a name; "choice", the pickers, calendars and the like are passed *)
(* over, and a spin control is read with a label that is never written.      *)
SavedAs == [t \in {"Button", "ComboBox", "StaticLine", "Slider", "Gauge", "TextCtrl",
                   "ToggleButton", "SpinCtrl", "SpinCtrlDouble"} |-> t]
             @@ "StaticText" :> "ToggleButton"
             @@ [t \in {"CheckBox", "RadioButton"} |-> "ComboBox"]
             @@ [t \in {"Choice", "ListBox"} |-> "choice"]
Loadable == {"Button", "ComboBox", "StaticLine", "Slider", "Gauge", "TextCtrl",
             "ToggleButton", "CheckBox", "RadioButton", "ListBox", "StaticText"}
Unlabelled == {"SpinCtrl", "SpinCtrlDouble"}

GuiEditorInit ==
  /\ geWindow = [a \in Addresses |-> "none"] /\ geWidgets = NoMap /\ geIds = NoCount
  /\ geMade = 0 /\ geSel = 0 /\ geFile = [state |-> "none", count |-> NoCount] /\ geSaved = NoCount /\ geEnd = "runs"
  /\ geTwice = {} /\ geStarts = 1 /\ geClicked = 0 /\ geWrong = FALSE /\ geGone = FALSE /\ geDangled = FALSE
  /\ geFresh = FALSE

-----------------------------------------------------------------------------
Free == {a \in Addresses : geWindow[a] = "none"}
(* FindwxText: operator[] of the map. *)
Found(key) == IF key = 0 \/ key \in DOMAIN geWidgets THEN geWidgets
              ELSE key :> NullWidget @@ geWidgets
Selected == IF geSel = 0 THEN NullWidget ELSE Found(geSel)[geSel]

NewWidget(t, num, made) == [type |-> t, num |-> num, edited |-> FALSE, made |-> made]
(* AddWidget: a window at a free address and its Widget, numbered by type. *)
AddWidget(t, at, widgets) ==
  /\ geMade < MaxMade /\ at \in Free
  /\ geWindow' = [geWindow EXCEPT ![at] = t]
  /\ geWidgets' = at :> NewWidget(t, geIds[t], geMade + 1) @@ widgets
  /\ geIds' = [geIds EXCEPT ![t] = @ + 1]
  /\ geMade' = geMade + 1

Erased(widgets, key) == [a \in DOMAIN widgets \ {key} |-> widgets[a]]

ClickWindow(a) ==
  /\ geWindow[a] # "none"
  /\ geWidgets' = Found(a)
  /\ IF Found(a)[a] = NullWidget THEN UNCHANGED <<geSel, geClicked, geGone>>
     ELSE geSel' = a /\ geClicked' = Found(a)[a].made /\ geGone' = FALSE
  /\ UNCHANGED <<geWindow, geIds, geMade, geWrong, geDangled>>

OnPaint ==
  /\ geWidgets' = Found(geSel)
  /\ UNCHANGED <<geWindow, geIds, geMade, geSel, geHist>>

(* An edit goes to the window selected; a name is kept in the Widget. *)
EditSelected(name) ==
  /\ geSel # 0
  /\ IF Selected = NullWidget THEN geWidgets' = Found(geSel) /\ UNCHANGED geWrong
     ELSE /\ geWrong' = (geWrong \/ (Selected.made # geClicked /\ ~geGone))
          /\ geWidgets' = [geWidgets EXCEPT ![geSel].edited = @ \/ name]
  /\ UNCHANGED <<geWindow, geIds, geMade, geSel, geClicked, geGone, geDangled>>

AdjustWidget == EditSelected(FALSE)
OnPropertyGridChange == \E name \in BOOLEAN : EditSelected(name)

KeyAdd(pick, at) ==
  /\ pick + 1 \in DOMAIN ListOfTypes
  /\ AddWidget(ListOfTypes[pick + 1], at, Found(geSel))
  /\ UNCHANGED <<geSel, geHist>>

(* The Widget is not deleted, so its number stays taken; the selection stays.*)
KeyDelete ==
  /\ geSel # 0
  /\ IF Selected = NullWidget THEN geWidgets' = Found(geSel) /\ UNCHANGED <<geWindow, geGone, geDangled>>
     ELSE /\ geWidgets' = Erased(geWidgets, geSel)
          /\ geWindow' = [geWindow EXCEPT ![geSel] = "none"]
          /\ geGone' = TRUE /\ geDangled' = TRUE
  /\ UNCHANGED <<geIds, geMade, geSel, geClicked, geWrong>>

(* Other flags for a button: a new window takes its place.  Its Widget was   *)
(* put under the new address, so the old one's node is not inserted there.   *)
ChangeFlags(at) ==
  /\ geSel # 0 /\ Selected.type = "Button" /\ at \in Free /\ geMade < MaxMade
  /\ geWindow' = [geWindow EXCEPT ![at] = "Button", ![geSel] = "none"]
  /\ geWidgets' = at :> NewWidget("Button", geIds["Button"], geMade + 1)
                    @@ Erased(geWidgets, geSel)
  /\ geIds' = [geIds EXCEPT !["Button"] = @ + 1] /\ geMade' = geMade + 1
  /\ geSel' = at
  /\ geClicked' = IF geClicked = Selected.made THEN geMade + 1 ELSE geClicked
  /\ UNCHANGED <<geWrong, geGone, geDangled>>

DuplicateWidget(at) ==
  /\ geSel # 0 /\ Selected # NullWidget
  /\ AddWidget(Selected.type, at, geWidgets)
  /\ UNCHANGED <<geSel, geHist>>

ChangeDialog ==
  /\ \/ OnPaint
     \/ \E a \in Addresses : ClickWindow(a)
     \/ AdjustWidget
     \/ OnPropertyGridChange
     \/ \E pick \in Picks, a \in Addresses : KeyAdd(pick, a)
     \/ \E a \in Addresses : DuplicateWidget(a)
     \/ KeyDelete
     \/ \E a \in Addresses : ChangeFlags(a)
  /\ UNCHANGED <<geEnd, geDisk, geTwice>>

-----------------------------------------------------------------------------
HasNull == \E a \in DOMAIN geWidgets : geWidgets[a] = NullWidget
Ends(how) == geEnd' = how /\ UNCHANGED <<geMap, geSel, geHist, geTwice>>

(* DuplicateWidget of an address whose window is gone. *)
DuplicateNull ==
  /\ geSel # 0 /\ Selected = NullWidget
  /\ Ends("null widget") /\ UNCHANGED geDisk

(* SaveWidgets: the file is emptied before the widgets are looked at. *)
SaveWidgets ==
  IF HasNull THEN /\ Ends("null widget") /\ UNCHANGED geSaved
                  /\ geFile' = [geFile EXCEPT !.state = "cut"]
  ELSE /\ geSaved' = Count(geWindow)
       /\ geFile' = [state |-> "whole",
                     count |-> [name \in Types |-> Cardinality({a \in DOMAIN geWidgets :
                                  /\ geWidgets[a].type \in DOMAIN SavedAs
                                  /\ SavedAs[geWidgets[a].type] = name})]]
       /\ UNCHANGED <<geMap, geSel, geHist, geTwice, geEnd>>

(* OnDestroyAll takes every window for a static text; the number of each     *)
(* Widget it deletes is given back.                                          *)
NotText == \E a \in DOMAIN geWidgets : geWidgets[a].type \notin {"none", "StaticText"}
Deleted == {a \in DOMAIN geWidgets : geWidgets[a] # NullWidget}
IdsLeft == [geIds EXCEPT !["StaticText"] = IF @ > Cardinality(Deleted)
                                             THEN @ - Cardinality(Deleted) ELSE 0]
SelectionDangles ==
  /\ geGone' = (geGone \/ geSel # 0)
  /\ geDangled' = (geDangled \/ geSel # 0)
  /\ UNCHANGED <<geSel, geClicked, geWrong, geTwice, geEnd>>

OnDestroyAll ==
  IF NotText THEN Ends("not a static text")
  ELSE /\ geWindow' = [a \in Addresses |-> "none"] /\ geWidgets' = NoMap
       /\ geIds' = IdsLeft
       /\ SelectionDangles /\ UNCHANGED geMade

(* LoadWidgets: the new windows may be anywhere. *)
Loads == [t \in Types |-> IF t \in Loadable THEN geFile.count[t] ELSE 0]
PlacedBefore(f, a) == {b \in Addresses : b < a /\ f[b] # "none"}
LoadInto(f) ==
  LET placed == {a \in Addresses : f[a] # "none"} IN
  /\ geMade + Cardinality(placed) <= MaxMade
  /\ geWindow' = f
  /\ geWidgets' = [a \in placed |->
                     NewWidget(f[a], IdsLeft[f[a]] + Cardinality({b \in PlacedBefore(f, a) : f[b] = f[a]}),
                               geMade + Cardinality(PlacedBefore(f, a)) + 1)]
  /\ geIds' = [t \in Types |-> IdsLeft[t] + Loads[t]]
  /\ geMade' = geMade + Cardinality(placed)

OpenFails(how) == Ends(how) /\ geFresh' = FALSE
OnOpen ==
  /\ geFile.state # "none" /\ UNCHANGED geDisk
  /\ IF NotText THEN OpenFails("not a static text")
     ELSE IF geFile.state = "cut" THEN OpenFails("bad file")
     ELSE IF \E t \in Unlabelled : geFile.count[t] > 0 THEN OpenFails("no label")
     ELSE /\ \E f \in [Addresses -> {t \in Loadable : Loads[t] > 0} \union {"none"}] :
               Count(f) = Loads /\ LoadInto(f)
          /\ SelectionDangles
          /\ geFresh' = TRUE

(* GenerateCode, when the page of the code comes up: a declaration for each  *)
(* Widget but the radio buttons and date pickers.                            *)
Declared == {a \in DOMAIN geWidgets : geWidgets[a].type \notin {"RadioButton", "DatePickerCtrl"}}
SameName(w, v) == w.type = v.type /\ w.num = v.num /\ ~w.edited /\ ~v.edited
GenerateCode ==
  IF HasNull THEN Ends("null widget")
  ELSE /\ geTwice' = {<<geWidgets[a].type, geWidgets[a].num>> : a \in
                        {a \in Declared : \E b \in Declared \ {a} : SameName(geWidgets[a], geWidgets[b])}}
       /\ UNCHANGED <<geMap, geSel, geHist, geEnd>>

(* The program starts again; the file stays. *)
StartAgain ==
  /\ geStarts < MaxStarts /\ geStarts' = geStarts + 1
  /\ geWindow' = [a \in Addresses |-> "none"] /\ geWidgets' = NoMap /\ geIds' = NoCount
  /\ geMade' = 0 /\ geSel' = 0 /\ geEnd' = "runs" /\ geTwice' = {}
  /\ geClicked' = 0 /\ geWrong' = FALSE /\ geGone' = FALSE /\ geDangled' = FALSE /\ geFresh' = FALSE
  /\ UNCHANGED geDisk

GuiEditorNext ==
  \/ /\ geEnd = "runs" /\ UNCHANGED geStarts
     /\ \/ /\ geFresh' = FALSE
           /\ \/ ChangeDialog
              \/ DuplicateNull
              \/ SaveWidgets
              \/ OnDestroyAll /\ UNCHANGED geDisk
              \/ GenerateCode /\ UNCHANGED geDisk
        \/ OnOpen
  \/ StartAgain
-----------------------------------------------------------------------------
(* Of the dialog editor.  Each window has its own Widget, of its type, and   *)
(* no Widget is without its window; the code declares no name twice that     *)
(* nobody edited; a null Widget, and the end of the program over one, need a *)
(* selected window that was destroyed, as does an edit that goes to a window *)
(* other than the one clicked; a file comes back with the buttons, lines,    *)
(* sliders, gauges and text boxes it was saved with.                         *)
MapFollowsWindows ==
  /\ \A a \in Addresses : geWindow[a] # "none" => a \in DOMAIN geWidgets
  /\ \A a \in DOMAIN geWidgets :
       IF geWidgets[a] = NullWidget THEN geWindow[a] = "none" /\ geDangled
       ELSE geWindow[a] = geWidgets[a].type
NamesDiffer == geTwice = {}
EditsWhatWasClicked == ~geWrong
EndHasCause == geEnd = "null widget" => geDangled
OpenedAsSaved ==
  geFresh => \A t \in {"Button", "StaticLine", "Slider", "Gauge", "TextCtrl"} :
               Count(geWindow)[t] = geSaved[t]
GuiEditorSafe ==
  MapFollowsWindows /\ NamesDiffer /\ EditsWhatWasClicked /\ EndHasCause /\ OpenedAsSaved
=============================================================================
