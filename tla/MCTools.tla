------------------------------ MODULE MCTools ------------------------------
(* The tools of the program that share no state, for TLC, side by side:      *)
(* `part' says which of them this behaviour is of, and the others stay in    *)
(* one initial state.                                                        *)
EXTENDS CmdPages, CmdParams, MacroEditor, MacroRecorder, SettingsFile, GuiEditor

VARIABLE part

MCValues == {<<"a", 1>>, <<"b", 3>>, <<"c", 6>>, <<"d", 30>>}
MCPage(k, more) == [name |-> <<"p", "q">>[k], own |-> <<"p", "q">>[k], cols |-> << <<Command(k)>> >>, more |-> more]
MCFiles == {[page |-> <<MCPage(1, 0)>>, more |-> 0], [page |-> <<MCPage(1, 1)>>, more |-> 0],
            [page |-> <<MCPage(1, 0), MCPage(2, 0)>>, more |-> 0], [page |-> <<MCPage(1, 0)>>, more |-> 1]}
Pinned(p) ==
  /\ p # "pages" => cxFile = [page |-> <<MCPage(1, 0)>>, more |-> 0]
  /\ p # "params" => cpText = [holes |-> <<>>, tail |-> 0]
  /\ p # "settings" => sfFile = <<>>

MCInit ==
  /\ part \in {"pages", "params", "buttons", "editor", "recorder", "settings", "dialog"}
  /\ CmdPagesInit /\ CmdParamsInit /\ CmdButtonsInit /\ MacroEditorInit /\ RecorderInit
  /\ SettingsInit /\ GuiEditorInit /\ Pinned(part)

cmVars == <<cxVars, cpVars, cbVars>>
mcVars == <<meVars, rcVars>>

MCNext ==
  /\ UNCHANGED part
  /\ \/ part = "pages"    /\ CmdPagesNext    /\ UNCHANGED <<cpVars, cbVars, mcVars, sfVars, geVars>>
     \/ part = "params"   /\ CmdParamsNext   /\ UNCHANGED <<cxVars, cbVars, mcVars, sfVars, geVars>>
     \/ part = "buttons"  /\ CmdButtonsNext  /\ UNCHANGED <<cxVars, cpVars, mcVars, sfVars, geVars>>
     \/ part = "editor"   /\ MacroEditorNext /\ UNCHANGED <<rcVars, cmVars, sfVars, geVars>>
     \/ part = "recorder" /\ RecorderNext    /\ UNCHANGED <<meVars, cmVars, sfVars, geVars>>
     \/ part = "settings" /\ SettingsNext    /\ UNCHANGED <<cmVars, mcVars, geVars>>
     \/ part = "dialog"   /\ GuiEditorNext   /\ UNCHANGED <<cmVars, mcVars, sfVars>>

MCSpec == MCInit /\ [][MCNext]_<<part, cmVars, mcVars, sfVars, geVars>>

-----------------------------------------------------------------------------
(* Of the command executor: the store, its file and the notebook name the    *)
(* same pages and commands; parameters are saved and substituted in place;   *)
(* every command has one button, in its column.                              *)
CommandsSafe == CmdPagesSafe /\ CmdParamsSafe /\ ButtonsStand

(* Of the editors: that of the macros loses no macro and no element that was *)
(* saved, the recorder records what was typed, and the editor of dialogs     *)
(* keeps its map, its names and its file true to the windows.                *)
EditorsSafe == MacroEditorSafe /\ RecorderSafe /\ GuiEditorSafe
=============================================================================
