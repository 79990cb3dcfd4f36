------------------------------ MODULE DidGrid ------------------------------
(***************************************************************************)
(* The grid in which DidPanel (src/src/gui/DidPanel.cpp) shows the DIDs and *)
(* takes new values for them, the answers that DidHandler decodes meanwhile *)
(* and the two files of src/src/DidHandler.cpp: the list of the DIDs and    *)
(* the cache of their values.  A text is a sequence of characters: 0 to 15  *)
(* for the hexadecimal digits, NotADigit for others, Nul for a zero byte.   *)
(* Numbers have one digit, and a byte holds those below ByteLimit.          *)
(***************************************************************************)
EXTENDS LogGrid, FiniteSets

CONSTANTS
  DidFile,      \* the rows of DidList.xml: [did, type, len, found]
  CacheFiles,   \* what DidCache.xml may hold: rows [did, value, nrc, stamp]
  DidAnswers,   \* the bytes of an answer to a read
  DidTexts,     \* what the user types
  ByteLimit,    \* 256
  MaxReads, MaxDidEdits     \* bounds: answers, edits

ASSUME DidGridAssumption ==
  /\ DidFile \in Seq([did : Nat, type : {"ui8", "ui16", "string", "?"}, len : Nat, found : BOOLEAN])
  /\ CacheFiles \subseteq Seq([did : Nat, value : Seq(Nat), nrc : Nat, stamp : {"", "time", "bad"}])
  /\ DidAnswers \subseteq Seq(Nat) /\ DidTexts \subseteq Seq(Nat) /\ ByteLimit \in Nat \ {0}

NotADigit == 99
Nul == 98
Garbage == 97     \* a byte that the buffer held before

VARIABLES
  dgEntry,      \* m_DidList: DID -> [value, nrc, stamp]
  dgUpdated,    \* m_UpdatedDids
  dgRows,       \* the grid: [did, text]
  dgRowOf,      \* did_to_row
  dgShown,      \* is_dids_initialized
  dgFilter,     \* search_pattern is set; it is in the names of the .found DIDs
  dgAt,         \* the GUI thread: "idle", "walk", "clear"
  dgWalk,       \* the iterator of On100msTimer
  dgWorker,     \* the DID the worker has changed and not yet pushed, or << >>
  dgQueued,     \* m_PendingDidWrites
  dgFile,       \* DidCache.xml
  dgDown,       \* an exception or a null pointer ended the program
  dgWild,       \* an iterator that is none any more was used
  dgReads, dgEdits,     \* history: answers, edits
  dgBehind,     \* history: DIDs whose row was overwritten, or whose update was lost
  dgAstray,     \* history: DIDs whose row shows another's value
  dgFiltered,   \* history: a filter was set
  dgPushed,     \* history: an update came during the walk
  dgSaved       \* history: the entries when the cache was saved, until they change

dgGuiVars == <<dgRows, dgRowOf, dgShown, dgFilter, dgAt, dgWalk>>
dgHist == <<dgReads, dgEdits, dgBehind, dgAstray, dgFiltered, dgPushed, dgSaved>>
dgVars == <<dgEntry, dgUpdated, dgGuiVars, dgWorker, dgQueued, dgFile, dgDown, dgWild, dgHist>>

-----------------------------------------------------------------------------
(* The files. *)

(* XmlDidLoader::Load: a row that has no known type, or repeats the DID of   *)
(* one that was loaded, is skipped.                                          *)
IsLoaded(k) == /\ DidFile[k].type # "?"
               /\ \A j \in 1..(k - 1) : DidFile[j].did = DidFile[k].did => DidFile[j].type = "?"
DidRows == {DidFile[k] : k \in {j \in DOMAIN DidFile : IsLoaded(j)}}
Dids == {r.did : r \in DidRows}
Of(d) == CHOOSE r \in DidRows : r.did = d

(* m_DidList is a std::map: its order is that of the DIDs.                   *)
InOrder(ds) == CHOOSE s \in [1..Cardinality(ds) -> ds] : \A j, k \in DOMAIN s : j < k => s[j] < s[k]

NewEntries == [d \in Dids |-> [value |-> <<>>, nrc |-> 0, stamp |-> FALSE]]

(* XmlDidCacheLoader::Load, row by row: one of an unknown DID is skipped, of *)
(* one without a number as NRC only the value is taken, a bad time ends the  *)
(* load; a file with a zero byte is none.                                    *)
LoadCacheRow(l, r) ==
  IF l.over \/ r.did \notin Dids THEN l
  ELSE IF r.nrc = NotADigit THEN [l EXCEPT !.entries[r.did].value = r.value]
  ELSE [l EXCEPT !.entries[r.did] = [value |-> r.value, nrc |-> r.nrc,
                                     stamp |-> IF r.stamp = "bad" THEN @.stamp ELSE r.stamp = "time"],
                 !.over = (r.stamp = "bad")]

Readable(file) == \A k \in DOMAIN file : \A j \in DOMAIN file[k].value : file[k].value[j] # Nul

LoadedUpTo(file) ==
  LET loaded[n \in 0..Len(file)] == IF n = 0 THEN [entries |-> NewEntries, over |-> FALSE]
                                    ELSE LoadCacheRow(loaded[n - 1], file[n])
  IN  loaded
Loaded(file) == IF Readable(file) THEN LoadedUpTo(file)[Len(file)].entries ELSE NewEntries

CacheOf(entries) ==
  [k \in 1..Cardinality(Dids) |->
    LET d == InOrder(Dids)[k]
    IN  [did |-> d, value |-> entries[d].value, nrc |-> entries[d].nrc,
         stamp |-> IF entries[d].stamp THEN "time" ELSE ""]]

DidGridInit ==
  /\ dgFile \in CacheFiles
  /\ dgEntry = Loaded(dgFile)
  /\ dgUpdated = NoEntries /\ dgRows = <<>> /\ dgRowOf = [d \in Dids |-> 1]
  /\ dgShown = FALSE /\ dgFilter = FALSE /\ dgAt = "idle" /\ dgWalk = Walk(NoEntries, NewGrid)
  /\ dgWorker = <<>> /\ dgQueued = [d \in Dids |-> <<>>]
  /\ dgDown = FALSE /\ dgWild = FALSE
  /\ dgBehind = {} /\ dgAstray = {} /\ dgFiltered = FALSE /\ dgPushed = FALSE
  /\ dgReads = 0 /\ dgEdits = 0 /\ dgSaved = <<>>

DidGui == dgAt = "idle" /\ ~dgDown /\ ~dgWild

-----------------------------------------------------------------------------
(* The worker: an answer changes the entry, then the DID is pushed.          *)

(* ProcessReadDidResponse: numbers of more bytes are made with || and are 0  *)
(* or 1; of a string the last three bytes are left out, and one that has     *)
(* less than three ends the program.                                         *)
Decoded(d, data) ==
  CASE Of(d).type = "ui8" -> <<IF data = <<>> THEN Garbage ELSE data[1]>>
    [] Of(d).type = "ui16" -> <<IF \A k \in DOMAIN data : data[k] = 0 THEN 0 ELSE 1>>
    [] Of(d).type = "string" -> SubSeq(data, 1, Len(data) - 3)

Answered(d, entry) ==
  /\ dgWorker = <<>> /\ ~dgDown /\ ~dgWild /\ dgReads < MaxReads
  /\ dgReads' = dgReads + 1
  /\ dgEntry' = [dgEntry EXCEPT ![d] = entry]
  /\ dgWorker' = <<d>>
  /\ dgSaved' = <<>>
  /\ UNCHANGED <<dgUpdated, dgGuiVars, dgQueued, dgFile, dgWild, dgEdits, dgBehind, dgAstray,
                 dgFiltered, dgPushed>>

ProcessReadDidResponse ==
  \E d \in Dids, data \in DidAnswers :
    /\ dgDown' = (Of(d).type = "string" /\ Len(data) < 3)
    /\ Answered(d, IF dgDown' THEN dgEntry[d] ELSE [value |-> Decoded(d, data), nrc |-> 0, stamp |-> TRUE])

(* NRC 78 leaves the time, another sets it.                                  *)
NrcReceived ==
  \E d \in Dids, n \in {7, 1} :
    /\ Answered(d, [dgEntry[d] EXCEPT !.nrc = n, !.stamp = @ \/ n = 1])
    /\ UNCHANGED dgDown

PushUpdated ==
  /\ dgWorker # <<>> /\ ~dgDown /\ ~dgWild
  /\ dgUpdated' = PushBack(dgUpdated, dgWorker[1])
  /\ dgWorker' = <<>>
  /\ dgPushed' = (dgPushed \/ dgAt = "walk")
  /\ UNCHANGED <<dgEntry, dgGuiVars, dgQueued, dgFile, dgDown, dgWild, dgReads, dgEdits, dgBehind,
                 dgAstray, dgFiltered, dgSaved>>

(* HandleDidWriting has sent them.                                           *)
WritesSent ==
  /\ ~dgDown /\ ~dgWild /\ \E d \in Dids : dgQueued[d] # <<>>
  /\ dgQueued' = [d \in Dids |-> <<>>]
  /\ UNCHANGED <<dgEntry, dgUpdated, dgGuiVars, dgWorker, dgFile, dgDown, dgWild, dgHist>>

-----------------------------------------------------------------------------
(* The GUI: On100msTimer, which adds the rows first, then shows the DIDs in  *)
(* m_UpdatedDids, and clears it.                                             *)

NrcText(n) == <<NotADigit, n>>
TextOf(entry) == IF entry.nrc # 0 THEN NrcText(entry.nrc) ELSE entry.value
RowTextOf(entry) == IF entry.stamp THEN TextOf(entry) ELSE entry.value

DidGridRows(ds) == [k \in 1..Cardinality(ds) |->
              [did |-> InOrder(ds)[k], text |-> RowTextOf(dgEntry[InOrder(ds)[k]])]]
RowOf(ds) == [d \in Dids |-> IF d \in ds THEN CHOOSE k \in 1..Cardinality(ds) : InOrder(ds)[k] = d
                             ELSE dgRowOf[d]]

DidTimerBegin ==
  /\ DidGui /\ (~dgShown \/ dgUpdated.items # <<>>)
  /\ IF dgShown THEN UNCHANGED <<dgRows, dgRowOf>>
                ELSE dgRows' = DidGridRows(Dids) /\ dgRowOf' = RowOf(Dids)
  /\ dgShown' = TRUE
  /\ dgAt' = IF dgUpdated.items = <<>> THEN "idle" ELSE "walk"
  /\ dgWalk' = IF dgUpdated.items = <<>> THEN dgWalk ELSE Walk(dgUpdated, NewGrid)
  /\ dgPushed' = FALSE
  /\ UNCHANGED <<dgEntry, dgUpdated, dgFilter, dgWorker, dgQueued, dgFile, dgDown, dgWild, dgReads,
                 dgEdits, dgBehind, dgAstray, dgFiltered, dgSaved>>

(* A DID that the filter hides has the row it had before.                    *)
DidTimerStep ==
  /\ dgAt = "walk" /\ ~dgDown /\ ~dgWild
  /\ IF ~WalkValid(dgWalk, dgUpdated)
       THEN dgWild' = TRUE /\ UNCHANGED <<dgAt, dgWalk, dgRows, dgBehind, dgAstray>>
     ELSE IF dgWalk.at > Len(dgUpdated.items)
       THEN dgAt' = "clear" /\ UNCHANGED <<dgWalk, dgRows, dgBehind, dgAstray, dgWild>>
     ELSE LET d == dgUpdated.items[dgWalk.at]
              k == dgRowOf[d]
          IN  /\ dgWalk' = [dgWalk EXCEPT !.at = @ + 1]
              /\ IF k \notin DOMAIN dgRows THEN UNCHANGED <<dgRows, dgBehind, dgAstray>>
                 ELSE /\ dgRows' = [dgRows EXCEPT ![k].text = TextOf(dgEntry[d])]
                      /\ dgBehind' = dgBehind \ {dgRows[k].did}
                      /\ dgAstray' = IF dgRows[k].did = d THEN dgAstray \ {d}
                                     ELSE dgAstray \cup {dgRows[k].did}
              /\ UNCHANGED <<dgAt, dgWild>>
  /\ UNCHANGED <<dgEntry, dgUpdated, dgRowOf, dgShown, dgFilter, dgWorker, dgQueued, dgFile, dgDown,
                 dgReads, dgEdits, dgFiltered, dgPushed, dgSaved>>

(* What was pushed since the last comparison with end() is cleared unseen.   *)
DidTimerClear ==
  /\ dgAt = "clear" /\ ~dgDown /\ ~dgWild
  /\ dgUpdated' = Clear(dgUpdated)
  /\ dgBehind' = dgBehind \cup {dgUpdated.items[k] : k \in dgWalk.at..Len(dgUpdated.items)}
  /\ dgAt' = "idle" /\ dgWalk' = Walk(NoEntries, NewGrid) /\ dgPushed' = FALSE
  /\ UNCHANGED <<dgEntry, dgRows, dgRowOf, dgShown, dgFilter, dgWorker, dgQueued, dgFile,
                 dgDown, dgWild, dgReads, dgEdits, dgAstray, dgFiltered, dgSaved>>

(* Ctrl+F sets the filter, or takes it away, and makes the grid anew.        *)
UpdateDidList(filter) ==
  LET ds == {d \in Dids : Of(d).found \/ ~filter}
  IN  /\ dgRows' = DidGridRows(ds) /\ dgRowOf' = RowOf(ds)
      /\ dgUpdated' = PushAll(Clear(dgUpdated), InOrder(ds))
      /\ dgBehind' = {} /\ dgAstray' = {}

OnKeyDown ==
  /\ DidGui /\ dgShown
  /\ dgFilter' = ~dgFilter /\ dgFiltered' = TRUE
  /\ UpdateDidList(~dgFilter)
  /\ UNCHANGED <<dgEntry, dgShown, dgAt, dgWalk, dgWorker, dgQueued, dgFile, dgDown, dgWild, dgReads,
                 dgEdits, dgPushed, dgSaved>>

(* The Clear button empties the cells, not the entries.                      *)
ClearDids ==
  /\ DidGui /\ dgRows # <<>>
  /\ dgRows' = [k \in DOMAIN dgRows |-> [dgRows[k] EXCEPT !.text = <<>>]]
  /\ dgBehind' = dgBehind \cup {dgRows[k].did : k \in DOMAIN dgRows}
  /\ UNCHANGED <<dgEntry, dgUpdated, dgRowOf, dgShown, dgFilter, dgAt, dgWalk, dgWorker, dgQueued,
                 dgFile, dgDown, dgWild, dgReads, dgEdits, dgAstray, dgFiltered, dgPushed, dgSaved>>

(* OnCellValueChanged, for whatever column: the text in the value's is       *)
(* queued to be written.  Every number is cut to a byte.  A string is made   *)
(* as long as the DID by repeating its last character, or shorter by         *)
(* leaving out those before the last; an empty one has no last character,    *)
(* and for a DID of length 0 erase throws.                                   *)
Padded(text, n) ==
  IF Len(text) < n THEN text \o [k \in 1..(n - Len(text)) |-> text[Len(text)]]
  ELSE SubSeq(text, 1, n - 1) \o SubSeq(text, Len(text), Len(text))

DidQueued(d, text) ==
  IF Of(d).type = "string" THEN Padded(text, Of(d).len)
  ELSE IF text = <<>> \/ text[1] = NotADigit THEN <<>>
  ELSE <<text[1] % ByteLimit>>

OnCellValueChanged ==
  /\ DidGui /\ dgEdits < MaxDidEdits /\ dgEdits' = dgEdits + 1
  /\ \E k \in DOMAIN dgRows : \E text \in DidTexts \cup {dgRows[k].text} :
       LET d == dgRows[k].did
       IN  /\ dgRows' = [dgRows EXCEPT ![k].text = text]
           /\ dgBehind' = IF text = dgRows[k].text THEN dgBehind ELSE dgBehind \cup {d}
           /\ dgDown' = (Of(d).type = "string" /\ (text = <<>> \/ Of(d).len = 0))
           /\ dgQueued' = IF dgDown' \/ DidQueued(d, text) = <<>> THEN dgQueued
                          ELSE [dgQueued EXCEPT ![d] = DidQueued(d, text)]
  /\ UNCHANGED <<dgEntry, dgUpdated, dgRowOf, dgShown, dgFilter, dgAt, dgWalk, dgWorker, dgFile,
                 dgWild, dgReads, dgAstray, dgFiltered, dgPushed, dgSaved>>

(* Save cache; and a start of the program, which loads it.                   *)
SaveCache ==
  /\ DidGui
  /\ dgFile' = CacheOf(dgEntry) /\ dgSaved' = <<dgEntry>>
  /\ UNCHANGED <<dgEntry, dgUpdated, dgGuiVars, dgWorker, dgQueued, dgDown, dgWild, dgReads, dgEdits,
                 dgBehind, dgAstray, dgFiltered, dgPushed>>

DidRestart ==
  /\ dgAt = "idle" /\ dgReads > 0
  /\ dgEntry' = Loaded(dgFile)
  /\ dgUpdated' = NoEntries /\ dgRows' = <<>> /\ dgRowOf' = [d \in Dids |-> 1]
  /\ dgShown' = FALSE /\ dgFilter' = FALSE /\ dgAt' = "idle" /\ dgWalk' = Walk(NoEntries, NewGrid)
  /\ dgWorker' = <<>> /\ dgQueued' = [d \in Dids |-> <<>>]
  /\ dgDown' = FALSE /\ dgWild' = FALSE
  /\ dgBehind' = {} /\ dgAstray' = {} /\ dgFiltered' = FALSE /\ dgPushed' = FALSE
  /\ dgSaved' = IF Readable(dgFile) THEN dgSaved ELSE <<>>
  /\ UNCHANGED <<dgFile, dgReads, dgEdits>>

DidGridNext ==
  \/ ProcessReadDidResponse \/ NrcReceived \/ PushUpdated \/ WritesSent
  \/ DidTimerBegin \/ DidTimerStep \/ DidTimerClear \/ OnKeyDown \/ ClearDids
  \/ OnCellValueChanged \/ SaveCache \/ DidRestart

-----------------------------------------------------------------------------
(* A row is where did_to_row says.  When all updates are shown, it has the   *)
(* value or the NRC of its DID, unless the user wrote over it, an update     *)
(* came while the others were cleared or an update of a hidden DID went      *)
(* astray; without a filter none does.  The timer leaves m_UpdatedDids only  *)
(* if a DID was pushed meanwhile.  What was saved in the cache is there      *)
(* again after a restart.  A string is written in the length of its DID.     *)
DidRowsRight ==
  /\ \A k \in DOMAIN dgRows : dgRowOf[dgRows[k].did] = k
  /\ dgAt = "idle" /\ dgUpdated.items = <<>> /\ dgShown =>
       \A k \in DOMAIN dgRows :
         LET d == dgRows[k].did
         IN  \/ d \in dgBehind \cup dgAstray \/ dgWorker = <<d>>
             \/ dgEntry[d].nrc # 0 /\ ~dgEntry[d].stamp
             \/ dgRows[k].text = TextOf(dgEntry[d])
  /\ dgAstray # {} => dgFiltered
  /\ dgWild => dgPushed
  /\ dgSaved # <<>> => dgEntry = dgSaved[1]
  /\ \A d \in Dids : dgQueued[d] # <<>> /\ Of(d).type = "string" => Len(dgQueued[d]) = Of(d).len
=============================================================================
