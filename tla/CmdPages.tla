------------------------------ MODULE CmdPages ------------------------------
(***************************************************************************)
(* The pages of commands: CmdExecutor and XmlCommandLoader                 *)
(* (src/src/CmdExecutor.cpp) with the notebook that shows them             *)
(* (src/src/gui/CmdExecutorPanel.cpp).  The commands, their pages' names   *)
(* and the buttons are three structures that are kept in step by saving    *)
(* to a temporary file and loading it again.  A command is its number and  *)
(* whether it has a text colour; 0 is a separator.  Icons go the way of    *)
(* the names.  A file may declare more pages than it has, and a page more  *)
(* columns (`more'): the loading of the file, or of the page, stops there. *)
(***************************************************************************)
EXTENDS Naturals, Sequences, SequencesExt

CONSTANTS FileNames,     \* names of pages in files
          CmdFiles,      \* the files that are there or that the user writes: [page, more]
          MaxPages, MaxColumns, MaxInColumn,   \* bounds of the notebook
          MaxCommands,   \* bound: commands made
          MaxLoads       \* bound: loadings of a file

PageNames == FileNames \cup {"new", "r", "Page"}
Commands == [id : Nat, colour : BOOLEAN]
ColumnsOf == Seq(Seq(Commands))
PagesInFile == [name : PageNames, own : PageNames, cols : ColumnsOf, more : Nat]
ASSUME CmdFilesAssumption ==
  \A f \in CmdFiles : /\ f \in [page : Seq(PagesInFile), more : Nat]
                      /\ \A k \in DOMAIN f.page : f.page[k].own = f.page[k].name

VARIABLES
  cxStore,    \* m_Commands: pages [cols, own]; own is a history: the name the user gave it
  cxNames,    \* m_CommandPageNames
  cxTabs,     \* the notebook: [name, cols], the numbers of the buttons' commands
  cxFile,     \* Cmds.xml: [page, more], its pages [name, own, cols, more]
  cxCurrent,  \* m_CurrentPage: the tab right-clicked last
  cxMade,     \* commands made
  cxLoads,    \* loadings
  cxShort,    \* history: the last loading stopped at a page or a column that is not there
  cxMixed,    \* history: Cmds.xml was loaded over other names
  cxStray,    \* history: a column was added to or deleted from another page than the one clicked
  cxEnd       \* history: "none" or what went wrong: save, load, range

cxData == <<cxStore, cxNames, cxTabs, cxFile>>
cxPast == <<cxMade, cxLoads, cxShort, cxMixed, cxStray, cxEnd>>
cxVars == <<cxData, cxCurrent, cxPast>>

Command(n) == [id |-> n, colour |-> TRUE]
Separator == [id |-> 0, colour |-> FALSE]
Ids(cols) == [c \in DOMAIN cols |-> [i \in DOMAIN cols[c] |-> cols[c][i].id]]
Untitled == [name |-> "Page", cols |-> <<>>]
NoneOf(x, n) == [i \in 1..n |-> x]
Tab(p) == [name |-> p.name, cols |-> Ids(p.cols) \o NoneOf(<<>>, p.more)]
TabsOf(pages) == [k \in DOMAIN pages |-> Tab(pages[k])]
NamesOf(pages) == [k \in DOMAIN pages |-> pages[k].name]
IsShort(file) == file.more > 0 \/ \E k \in DOMAIN file.page : file.page[k].more > 0

(* Load: the commands are replaced, the names appended to those there are;   *)
(* OnPreReload makes a tab for every page that is declared.                  *)
Loaded(pages) == [k \in DOMAIN pages |-> [cols |-> pages[k].cols, own |-> pages[k].own]]
Load(file, names) ==
  /\ cxLoads' = cxLoads + 1 /\ cxShort' = IsShort(file)
  /\ cxStore' = Loaded(file.page)
  /\ cxNames' = names \o NamesOf(file.page)
  /\ cxTabs' = TabsOf(file.page) \o NoneOf(Untitled, file.more)

(* An exception in a page: those before it are loaded, its name is there or  *)
(* not yet, its tab has the buttons made so far, of commands that are gone   *)
(* with it, and the tabs after it have none.                                 *)
Begun(p, c) == [Tab([p EXCEPT !.cols = [d \in DOMAIN @ |-> IF d <= c THEN @[d] ELSE <<>>]])
                EXCEPT !.name = Untitled.name]
BegunTabs(p, named) == IF named = 0 THEN {Untitled} ELSE {Untitled} \cup {Begun(p, c) : c \in 0..Len(p.cols)}
LoadThrows(file, names) ==
  \E at \in DOMAIN file.page, named \in {0, 1} : \E tab \in BegunTabs(file.page[at], named) :
    /\ cxLoads' = cxLoads + 1 /\ cxShort' = TRUE
    /\ cxStore' = Loaded(SubSeq(file.page, 1, at - 1))
    /\ cxNames' = names \o NamesOf(SubSeq(file.page, 1, at - 1 + named))
    /\ cxTabs' = Append(TabsOf(SubSeq(file.page, 1, at - 1)), tab)
                 \o NoneOf(Untitled, Len(file.page) + file.more - at)

(* Save: the page's name by its number; the text colour is not written.      *)
Written(col) == [i \in DOMAIN col |-> [col[i] EXCEPT !.colour = FALSE]]
Saved(store, names) ==
  [more |-> 0,
   page |-> [k \in DOMAIN store |->
              [name |-> names[k], own |-> store[k].own, more |-> 0,
               cols |-> [c \in DOMAIN store[k].cols |-> Written(store[k].cols[c])]]]]

(* Before the panel is made, which loads Cmds.xml.                           *)
CmdPagesInit ==
  /\ cxFile \in CmdFiles
  /\ cxStore = <<>> /\ cxNames = <<>> /\ cxTabs = <<>>
  /\ cxCurrent = 1 /\ cxMade = 2 /\ cxLoads = 0
  /\ cxShort = FALSE /\ cxMixed = FALSE /\ cxStray = FALSE /\ cxEnd = "none"

(* SaveToTempAndReload; when the temporary file cannot be written the        *)
(* buttons stay as they are.                                                 *)
SaveToTempAndReload(store, names) ==
  \/ /\ cxLoads < MaxLoads
     /\ Load(Saved(store, names), names)
     /\ UNCHANGED cxEnd
  \/ /\ cxStore' = store /\ cxNames' = names /\ cxEnd' = "save"
     /\ UNCHANGED <<cxTabs, cxLoads, cxShort>>

(* Beyond the pages, the names or the columns that there are, where nothing  *)
(* is defined.                                                               *)
Undefined == cxEnd' = "range" /\ UNCHANGED <<cxStore, cxNames, cxTabs, cxLoads, cxShort>>

-----------------------------------------------------------------------------
(* The menu of a tab. *)
OnTab(k) == cxCurrent' = k /\ UNCHANGED <<cxFile, cxMixed, cxStray>>

HasPage(k) == k <= Len(cxStore)

AddPage(k) ==
  /\ OnTab(k) /\ HasPage(k) /\ Len(cxStore) < MaxPages /\ cxMade < MaxCommands
  /\ cxMade' = cxMade + 1
  /\ SaveToTempAndReload(
       InsertAt(cxStore, k + 1, [cols |-> << <<Command(cxMade + 1)>> >>, own |-> "new"]),
       InsertAt(cxNames, k + 1, "new"))

(* CopyPage, before or after; a copied command is a command of its own.      *)
Copied(cols) == [c \in DOMAIN cols |-> [i \in DOMAIN cols[c] |->
                   IF cols[c][i].id = 0 THEN Separator
                   ELSE [cols[c][i] EXCEPT !.id = cxMade + 1]]]
CopyPage(k, to) ==
  /\ OnTab(k) /\ HasPage(k) /\ Len(cxStore) < MaxPages /\ cxMade < MaxCommands
  /\ cxMade' = cxMade + 1
  /\ SaveToTempAndReload(
       InsertAt(cxStore, to, [cxStore[k] EXCEPT !.cols = Copied(@)]),
       InsertAt(cxNames, to, cxNames[k]))

DeleteNoName(names, k) == names      \* mutant: the name stays
DeleteName(names, k) == RemoveAt(names, k)
DeletePage(k) ==
  /\ OnTab(k) /\ HasPage(k)
  /\ SaveToTempAndReload(RemoveAt(cxStore, k), DeleteName(cxNames, k))
  /\ UNCHANGED cxMade

(* The names there are may be more than the pages. *)
Rename(k) ==
  /\ OnTab(k) /\ k <= Len(cxNames)
  /\ cxNames' = [cxNames EXCEPT ![k] = "r"]
  /\ cxTabs' = [cxTabs EXCEPT ![k].name = "r"]
  /\ cxStore' = [j \in DOMAIN cxStore |-> IF j = k THEN [cxStore[j] EXCEPT !.own = "r"] ELSE cxStore[j]]
  /\ UNCHANGED <<cxMade, cxLoads, cxShort, cxEnd>>

(* Add, Duplicate and Delete of a tab without a page; Rename needs a name.   *)
OnEmptyTab(k) == OnTab(k) /\ ~HasPage(k) /\ Undefined /\ UNCHANGED cxMade

-----------------------------------------------------------------------------
(* The menu of a column c of a page k. *)

(* AddItem compares the column with the number of pages.                     *)
Compared(c) == c <= Len(cxStore)
HasColumn(k, c) == HasPage(k) /\ c <= Len(cxStore[k].cols)
Append2(k, c, item) ==
  /\ cxStore' = [cxStore EXCEPT ![k].cols[c] = Append(@, item)]
  /\ cxTabs' = [cxTabs EXCEPT ![k].cols[c] = Append(@, item.id)]
  /\ UNCHANGED <<cxNames, cxFile, cxCurrent, cxLoads, cxShort, cxMixed, cxStray, cxEnd>>

AddCommand(k, c) ==           \* Add and Duplicate
  /\ cxMade < MaxCommands /\ cxMade' = cxMade + 1
  /\ Compared(c) /\ HasColumn(k, c) /\ Len(cxStore[k].cols[c]) < MaxInColumn
  /\ Append2(k, c, Command(cxMade + 1))

AddSeparator(k, c) ==
  /\ HasColumn(k, c) /\ Len(cxStore[k].cols[c]) < MaxInColumn
  /\ Append2(k, c, Separator) /\ UNCHANGED cxMade

(* Add and Add separator in a column that is declared and not there. *)
OnEmptyColumn(k, c) == ~HasColumn(k, c) /\ Undefined /\ UNCHANGED <<cxFile, cxCurrent, cxMade, cxMixed, cxStray>>

(* AddCol and DeleteCol: of the page of the tab right-clicked last.          *)
ColumnMenu(k) ==
  /\ cxStray' = (cxStray \/ cxCurrent # k)
  /\ UNCHANGED <<cxFile, cxCurrent, cxMade, cxMixed>>

AddCol(k, c) ==
  /\ ColumnMenu(k)
  /\ IF ~HasColumn(cxCurrent, c) THEN Undefined
     ELSE /\ Len(cxStore[cxCurrent].cols) < MaxColumns
          /\ SaveToTempAndReload([cxStore EXCEPT ![cxCurrent].cols = InsertAt(@, c + 1, <<>>)], cxNames)

DeleteCol(k, c) ==
  /\ ColumnMenu(k)
  /\ IF ~HasColumn(cxCurrent, c) THEN Undefined
     ELSE SaveToTempAndReload([cxStore EXCEPT ![cxCurrent].cols = RemoveAt(@, c)], cxNames)

Save ==
  /\ cxFile' = Saved(cxStore, cxNames)
  /\ UNCHANGED <<cxStore, cxNames, cxTabs, cxCurrent, cxPast>>

(* Reload, of the panel or the tray, and the panel's first loading: from the *)
(* file, which the user may have written anew.                               *)
Reloading(file) ==
  /\ cxLoads < MaxLoads /\ cxFile' = file
  /\ cxMixed' = (cxMixed \/ (cxNames # <<>> /\ ~IsPrefix(NamesOf(file.page), cxNames)))
  /\ UNCHANGED <<cxCurrent, cxMade, cxStray>>
Reload == \E file \in CmdFiles \cup {cxFile} : Reloading(file) /\ Load(file, cxNames) /\ UNCHANGED cxEnd

(* A file that does not parse changes nothing.  Without a `Commands' node    *)
(* the commands are cleared and the buttons stay.                            *)
ReloadFails ==
  /\ cxEnd' = "load"
  /\ \/ /\ cxStore' = <<>>
        /\ UNCHANGED <<cxNames, cxTabs, cxFile, cxCurrent, cxMade, cxLoads, cxShort, cxMixed, cxStray>>
     \/ \E file \in CmdFiles \cup {cxFile} : Reloading(file) /\ LoadThrows(file, cxNames)

(* Delete of a command: DeleteCommandButton, nothing more.                   *)
DeleteCommandButton(k, c, i) ==
  /\ cxTabs[k].cols[c][i] # 0
  /\ cxTabs' = [cxTabs EXCEPT ![k].cols[c] = RemoveAt(@, i)]
  /\ UNCHANGED <<cxStore, cxNames, cxFile, cxCurrent, cxPast>>

CmdPagesNext ==
  /\ cxEnd = "none"
  /\ \/ \E k \in DOMAIN cxTabs :
          \/ AddPage(k) \/ CopyPage(k, k) \/ CopyPage(k, k + 1) \/ DeletePage(k) \/ Rename(k) \/ OnEmptyTab(k)
          \/ \E c \in DOMAIN cxTabs[k].cols :
               \/ AddCommand(k, c) \/ AddSeparator(k, c) \/ OnEmptyColumn(k, c)
               \/ AddCol(k, c) \/ DeleteCol(k, c)
               \/ \E i \in DOMAIN cxTabs[k].cols[c] : DeleteCommandButton(k, c, i)
     \/ (cxLoads > 0 /\ Save)
     \/ Reload \/ ReloadFails

CmdPagesSpec == CmdPagesInit /\ [][CmdPagesNext]_cxVars

-----------------------------------------------------------------------------
(* Properties. *)

(* Every page in memory keeps the name the user gave it, there and on its    *)
(* tab, through every insertion, copy and deletion before it, also of files  *)
(* that are loaded in part, until Cmds.xml is loaded while the pages in      *)
(* memory are not its pages: the old names stay in front of the new ones.    *)
PagesKeepNames ==
  (~cxMixed /\ cxEnd \in {"none", "range", "load"}) =>
    /\ Len(cxTabs) >= Len(cxStore) /\ Len(cxNames) >= Len(cxStore)
    /\ \A k \in DOMAIN cxStore : cxNames[k] = cxStore[k].own /\ cxTabs[k].name = cxStore[k].own

(* A button's pointer is to a command of its page and column, which lives as *)
(* long as the button, also beside tabs and columns that were declared and   *)
(* are not there.  When a save failed the buttons of a deleted page or       *)
(* column stay, when a load threw those of the page it threw in, and those   *)
(* of all pages when the file had none.                                      *)
ButtonsHaveCommands ==
  cxEnd # "save" =>
    \A k \in DOMAIN cxTabs : \A c \in DOMAIN cxTabs[k].cols :
      \/ cxTabs[k].cols[c] = <<>>
      \/ ~HasPage(k) /\ cxEnd = "load"
      \/ HasColumn(k, c) /\ ToSet(cxTabs[k].cols[c]) \subseteq ToSet(Ids(cxStore[k].cols)[c])

(* No page, name or column is reached that is not there, unless the file     *)
(* declared one that it does not have, or another tab was right-clicked last *)
(* than that of the page clicked.                                            *)
RangeNeedsStray == cxEnd = "range" => cxStray \/ cxShort

CmdPagesSafe == PagesKeepNames /\ ButtonsHaveCommands /\ RangeNeedsStray

-----------------------------------------------------------------------------
(* The buttons of one page: CmdExecutorPanelPage                             *)
(* (src/src/gui/CmdExecutorPanel.cpp).  The commands of a column stand in    *)
(* its box, those that share a sizer in a row of their own, which is put     *)
(* into a box only when a command that does not belong to it comes.          *)
CONSTANTS Columns,      \* columns of the page
          MaxButtons    \* bound: elements of the page
ASSUME ColumnsAssumption == Columns \in Nat

VARIABLES
  cbBoxes,     \* m_VertialBoxes: by column, the buttons and lines [col, n]; col 0: a line
  cbRow,       \* gv_sizer: the buttons of the row that is open
  cbBase,      \* base_sizer
  cbColumn,    \* the column that is loaded; Columns + 1: loaded
  cbMade,      \* elements made
  cbCarried    \* history: a column was begun with a row open

cbVars == <<cbBoxes, cbRow, cbBase, cbColumn, cbMade, cbCarried>>

Kinds3 == {"plain", "useSizer", "addToPrev"}
Button(c) == [col |-> c, n |-> cbMade + 1]
Line == [col |-> 0, n |-> cbMade + 1]

(* OnPreload: the page is made anew for every load. *)
CmdButtonsInit ==
  /\ cbBoxes = [c \in 1..Columns |-> <<>>]
  /\ cbRow = <<>> /\ cbBase = FALSE
  /\ cbColumn = 1 /\ cbMade = 0 /\ cbCarried = FALSE

Element == cbMade < MaxButtons /\ cbMade' = cbMade + 1

NextColumn ==
  /\ cbColumn <= Columns /\ cbColumn' = cbColumn + 1
  /\ cbCarried' = (cbCarried \/ cbBase)
  /\ UNCHANGED <<cbBoxes, cbRow, cbBase, cbMade>>

(* While it loads the elements come by column, later from the menus of any.  *)
At(c) ==
  /\ Element
  /\ IF cbColumn <= Columns THEN c = cbColumn /\ UNCHANGED cbCarried
     ELSE cbCarried' = (cbCarried \/ (cbBase /\ Columns > 1))
  /\ UNCHANGED cbColumn

(* AddCommandElement, of a command that uses the sizer or joins an open one. *)
AddToRow(c, kind) ==
  /\ At(c)
  /\ kind = "useSizer" \/ (kind = "addToPrev" /\ cbBase)
  /\ cbBase' = TRUE /\ cbRow' = Append(cbRow, Button(c))
  /\ UNCHANGED cbBoxes

RowDropped(c) == cbBoxes[c]      \* mutant: the row is not put into the box
RowPut(c) == cbBoxes[c] \o cbRow

(* ... and of any other, which ends the row. *)
AddToBox(c, kind) ==
  /\ At(c)
  /\ kind = "plain" \/ (kind = "addToPrev" /\ ~cbBase)
  /\ cbBoxes' = [cbBoxes EXCEPT ![c] = Append(IF cbBase THEN RowPut(c) ELSE @, Button(c))]
  /\ cbBase' = FALSE /\ cbRow' = <<>>

AddSeparatorElement(c) ==
  /\ At(c)
  /\ cbBoxes' = [cbBoxes EXCEPT ![c] = Append(@, Line)]
  /\ UNCHANGED <<cbRow, cbBase>>

CmdButtonsNext ==
  \/ NextColumn
  \/ \E c \in 1..Columns : \/ AddSeparatorElement(c)
                           \/ \E kind \in Kinds3 : AddToRow(c, kind) \/ AddToBox(c, kind)

CmdButtonsSpec == CmdButtonsInit /\ [][CmdButtonsNext]_cbVars

-----------------------------------------------------------------------------
(* Every command and separator stands exactly once, in a box or in the row   *)
(* that is still open, and in the box of its own column unless a row was     *)
(* open where another column began.                                          *)
InBoxes == UNION {{c} \X DOMAIN cbBoxes[c] : c \in 1..Columns}
InRow == {0} \X DOMAIN cbRow
Standing(p) == IF p[1] = 0 THEN cbRow[p[2]] ELSE cbBoxes[p[1]][p[2]]
ButtonsStand ==
  /\ \A n \in 1..cbMade : \E p \in InBoxes \cup InRow : Standing(p).n = n
  /\ \A p, q \in InBoxes \cup InRow : Standing(p).n = Standing(q).n => p = q
  /\ cbRow # <<>> => cbBase
  /\ ~cbCarried => \A c \in 1..Columns : \A i \in DOMAIN cbBoxes[c] : cbBoxes[c][i].col \in {0, c}
=============================================================================
