----------------------------- MODULE CanTxList -----------------------------
(***************************************************************************)
(* The CAN TX list: CanEntryHandler::entries, which its worker sends from  *)
(* (src/src/CanEntryHandler.cpp), and the grid of CanSenderPanel, which    *)
(* edits the list and keeps raw pointers into it                           *)
(* (src/src/gui/CanPanel/CanSenderPanel.cpp).  The worker, OnFrameSent (on  *)
(* the thread of the CAN port) and most GUI handlers hold the mutex m; the  *)
(* buttons that only set flags do not, and RefreshTx takes m anew after the *)
(* handler changed the list.  An entry is an object, never used twice.  The *)
(* periodic sends only read the list, so `send' is left out.                *)
(***************************************************************************)
EXTENDS Integers, Sequences, FiniteSets, SequencesExt, Sublists

CONSTANTS MaxEntries,   \* bound: entries ever constructed
          MaxFrameId    \* bound: frame ids are 1..MaxFrameId, 1 is 0x123

ASSUME TxListAssumption == MaxEntries \in Nat /\ MaxFrameId \in Nat \ {0}

VARIABLES
  clList,     \* entries
  clAttr,     \* the entries constructed so far: [id, fav (favourite_level)]
  clSingle,   \* entries whose single_shot is set
  clGrid,     \* grid_to_entry: the entry of each row
  clLevel,    \* m_DefaultFavouriteLevel (a search pattern hides rows likewise)
  clStale,    \* the handler changed entries and has not called RefreshTx yet
  clWorker,   \* 0, or the one-shot entry queued and not reset (m is held)
  clCopied,   \* history: Copy was used
  clOwed      \* history: entries clicked "One Shot" while the worker was not
              \*   queueing them, and not queued since

clVars == <<clList, clAttr, clSingle, clGrid, clLevel, clStale, clWorker, clCopied, clOwed>>
clRest == <<clLevel, clCopied>>

Listed == ToSet(clList)
Id(o) == clAttr[o].id
New(n) == Len(clAttr) + n            \* the n-th entry constructed next
Locked == clWorker # 0

Frames == [id : 1..MaxFrameId, fav : {0, 1}]
Files == UNION { [1..n -> Frames] : n \in 0..2 }     \* what a file may hold

KeepAll(frames) == frames      \* mutant: duplicate ids are loaded

(* XmlCanEntryLoader::Load: a frame whose id is in the list already is       *)
(* skipped.                                                                  *)
KeepFrame(s, f) == IF \E i \in 1..Len(s) : s[i].id = f.id THEN s ELSE Append(s, f)
KeepFirst(frames) ==
  LET kept[n \in 0..Len(frames)] == IF n = 0 THEN <<>> ELSE KeepFrame(kept[n - 1], frames[n])
  IN  kept[Len(frames)]

(* RefreshTx *)
Shown(list, attr, level) == Within(list, {o \in 1..Len(attr) : level <= attr[o].fav})

TxListInit ==
  /\ clAttr \in { KeepFirst(file) : file \in Files }
  /\ clList = [i \in 1..Len(clAttr) |-> i]
  /\ clLevel = 0 /\ clGrid = clList /\ clStale = FALSE /\ clWorker = 0
  /\ clSingle = {} /\ clCopied = FALSE /\ clOwed = {}

GuiFree == ~clStale
CanConstruct(n) == Len(clAttr) + n <= MaxEntries

-----------------------------------------------------------------------------
(* The buttons that set flags, without the mutex. *)

OneShot(o) ==
  /\ GuiFree /\ o \in ToSet(clGrid)
  /\ clSingle' = clSingle \cup {o}
  /\ clOwed' = IF clWorker = o THEN clOwed ELSE clOwed \cup {o}
  /\ UNCHANGED <<clList, clAttr, clGrid, clStale, clWorker, clRest>>

(* Send selected or all, Stop selected or all: they cancel a one-shot. *)
CancelOneShot(o) ==
  /\ GuiFree /\ o \in ToSet(clGrid)
  /\ clSingle' = clSingle \ {o} /\ clOwed' = clOwed \ {o}
  /\ UNCHANGED <<clList, clAttr, clGrid, clStale, clWorker, clRest>>

-----------------------------------------------------------------------------
(* The buttons that change the list under m and refresh the grid after it.  *)

RefreshTx ==
  /\ clStale /\ ~Locked
  /\ clStale' = FALSE
  /\ clGrid' = Shown(clList, clAttr, clLevel)
  /\ UNCHANGED <<clList, clAttr, clSingle, clWorker, clOwed, clRest>>

Taken(id) == \E o \in Listed : Id(o) = id
FreeId == CHOOSE id \in 1..(MaxFrameId + 1) : ~Taken(id) /\ \A i \in 1..(id - 1) : Taken(i)

(* Add: AddRow appends a row before the entry is inserted below the selected *)
(* row, counted in the list.                                                 *)
Add(row) ==
  /\ GuiFree /\ ~Locked /\ row \in 1..Len(clGrid)
  /\ CanConstruct(1) /\ FreeId <= MaxFrameId
  /\ clAttr' = Append(clAttr, [id |-> FreeId, fav |-> 0])
  /\ clList' = InsertAt(clList, row + 1, New(1))
  /\ clGrid' = Append(clGrid, New(1))
  /\ clStale' = TRUE
  /\ UNCHANGED <<clSingle, clWorker, clOwed, clRest>>

(* Copy: a new row and a new entry at the end, the id and the flag copied    *)
(* too.                                                                      *)
Copy(row) ==
  /\ GuiFree /\ ~Locked /\ row \in 1..Len(clGrid) /\ CanConstruct(1)
  /\ clAttr' = Append(clAttr, clAttr[clGrid[row]])
  /\ clSingle' = IF clGrid[row] \in clSingle THEN clSingle \cup {New(1)} ELSE clSingle
  /\ clList' = Append(clList, New(1)) /\ clGrid' = Append(clGrid, New(1))
  /\ clCopied' = TRUE
  /\ UNCHANGED <<clLevel, clStale, clWorker, clOwed>>

(* The first entry with the id of a row, whichever entry the row is for. *)
FirstOf(row) == CHOOSE k \in 1..Len(clList) :
                  /\ Id(clList[k]) = Id(clGrid[row])
                  /\ \A j \in 1..(k - 1) : Id(clList[j]) # Id(clGrid[row])
Swap(s, i, j) == [s EXCEPT ![i] = s[j], ![j] = s[i]]

(* Move Up: the neighbour is the row above, as the grid shows it.  (Without *)
(* a row above, an entry hidden at the front makes stoi of "" throw.)       *)
MoveUp(row) ==
  /\ GuiFree /\ ~Locked /\ row \in 1..Len(clGrid)
  /\ IF Id(Head(clList)) = Id(clGrid[row])
       THEN clList' = Append(Tail(clList), Head(clList))
       ELSE row > 1 /\ clList' = Swap(clList, FirstOf(row), FirstOf(row - 1))
  /\ clStale' = TRUE
  /\ UNCHANGED <<clAttr, clSingle, clGrid, clWorker, clOwed, clRest>>

MoveDown(row) ==
  /\ GuiFree /\ ~Locked /\ row \in 1..Len(clGrid)
  /\ IF Id(Last(clList)) = Id(clGrid[row])
       THEN clList' = <<Last(clList)>> \o Front(clList)
       ELSE row < Len(clGrid) /\ clList' = Swap(clList, FirstOf(row), FirstOf(row + 1))
  /\ clStale' = TRUE
  /\ UNCHANGED <<clAttr, clSingle, clGrid, clWorker, clOwed, clRest>>

(* Delete: every entry with the id of a selected row is freed. *)
Doomed(rows) == { o \in Listed : \E r \in rows : Id(o) = Id(clGrid[r]) }
Delete(rows) ==
  /\ GuiFree /\ ~Locked /\ rows # {}
  /\ LET gone == Doomed(rows) IN
       /\ clList' = Within(clList, Listed \ gone)
       /\ clSingle' = clSingle \ gone /\ clOwed' = clOwed \ gone
  /\ clStale' = TRUE
  /\ UNCHANGED <<clAttr, clGrid, clWorker, clRest>>

(* OnCellValueChanged of the id, without the mutex: refused when an entry   *)
(* has it.                                                                   *)
EditId(row, id) ==
  /\ GuiFree /\ row \in 1..Len(clGrid) /\ ~Taken(id)
  /\ clAttr' = [clAttr EXCEPT ![clGrid[row]].id = id]
  /\ UNCHANGED <<clList, clSingle, clGrid, clStale, clWorker, clOwed, clRest>>

(* OnCellValueChanged of the favourite level: the row stays. *)
EditLevel(row, level) ==
  /\ GuiFree /\ row \in 1..Len(clGrid)
  /\ clAttr' = [clAttr EXCEPT ![clGrid[row]].fav = level]
  /\ UNCHANGED <<clList, clSingle, clGrid, clStale, clWorker, clOwed, clRest>>

(* SetFavouriteLevel and the RefreshTx after it. *)
ChangeLevel(level) ==
  /\ GuiFree /\ ~Locked
  /\ clLevel' = level /\ clGrid' = Shown(clList, clAttr, level)
  /\ UNCHANGED <<clList, clAttr, clSingle, clStale, clWorker, clCopied, clOwed>>

(* LoadTxList, from the menu or with "Reload config": the list is cleared    *)
(* first; when the loader throws, the entries it made stay.                  *)
LoadTxList(file) ==
  LET frames == KeepFirst(file) IN
    /\ GuiFree /\ ~Locked /\ CanConstruct(Len(frames))
    /\ clAttr' = clAttr \o frames /\ clList' = [i \in 1..Len(frames) |-> New(i)]
    /\ clSingle' = {} /\ clOwed' = {}
    /\ clStale' = TRUE
    /\ UNCHANGED <<clGrid, clWorker, clRest>>

-----------------------------------------------------------------------------
(* The worker holds m over its round: a one-shot entry is queued, then its   *)
(* flag is reset.  (A periodic entry is only queued.)                        *)
QueueOneShot(o) ==
  /\ ~Locked /\ o \in Listed \cap clSingle
  /\ clWorker' = o /\ clOwed' = clOwed \ {o}
  /\ UNCHANGED <<clList, clAttr, clSingle, clGrid, clStale, clRest>>

ResetOneShot ==
  /\ Locked
  /\ clSingle' = clSingle \ {clWorker} /\ clWorker' = 0
  /\ UNCHANGED <<clList, clAttr, clGrid, clStale, clOwed, clRest>>

TxListNext ==
  \/ \E o \in Listed : OneShot(o) \/ CancelOneShot(o) \/ QueueOneShot(o)
  \/ \E row \in 1..Len(clGrid) : Add(row) \/ Copy(row) \/ MoveUp(row) \/ MoveDown(row)
  \/ \E rows \in SUBSET (1..Len(clGrid)) : Delete(rows)
  \/ \E row \in 1..Len(clGrid), id \in 1..MaxFrameId : EditId(row, id)
  \/ \E row \in 1..Len(clGrid), level \in {0, 1} : EditLevel(row, level)
  \/ \E level \in {0, 1} : ChangeLevel(level)
  \/ \E file \in Files : LoadTxList(file)
  \/ RefreshTx \/ ResetOneShot

TxListSpec == TxListInit /\ [][TxListNext]_clVars

-----------------------------------------------------------------------------
(* Properties. *)

(* Whenever a GUI handler starts, each row points to an entry of the list,   *)
(* in the order of the list: no handler can reach a freed entry.             *)
RowsAreEntries ==
  ~clStale => \E shown \in SUBSET Listed : clGrid = Within(clList, shown)

(* Two entries have the same frame id only after Copy: adding, editing and   *)
(* loading all refuse it.  So what Delete and Move do to a row, which they   *)
(* look up by its id, is done to the entry of that row.                      *)
OneEntryPerId ==
  clCopied \/ \A o, p \in Listed : Id(o) = Id(p) => o = p

(* A click on One Shot is honoured: until the frame is queued, the entry is  *)
(* deleted or its sending is switched, the flag stays set; only a click      *)
(* between the two steps of the worker is lost.                              *)
OneShotKept == clOwed \subseteq clSingle

(* What the handlers, the worker and the loaders rely on.                    *)
TxListSafe == RowsAreEntries /\ OneEntryPerId /\ OneShotKept
=============================================================================
