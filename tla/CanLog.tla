------------------------------- MODULE CanLog -------------------------------
(***************************************************************************)
(* The recording of CAN frames (OnFrameSent, OnFrameReceived and the        *)
(* recording functions of src/src/CanEntryHandler.cpp) and the log panel    *)
(* that shows it (src/src/gui/CanPanel/CanLogPanel.cpp).  The serial port's *)
(* thread records under CanEntryHandler::m; the GUI's timer reads without.  *)
(***************************************************************************)
EXTENDS LogGrid, Sublists

CONSTANTS
  LogFrames,      \* frames on the bus: [id, dir, listed, level, found]
  LogLevels,      \* what the log level is set to
  MaxLogged       \* bound: frames on the bus

ASSUME LogFramesAssumption ==
  \A f \in LogFrames : f.dir \in {"tx", "rx"} /\ f.level \in Nat /\ f.found \in BOOLEAN

VARIABLES
  lgRecording,    \* is_recoding
  lgLevel,        \* m_RecodingLogLevel
  lgVec,          \* m_LogEntries
  lgCount,        \* [tx, rx]: tx_frame_cnt, rx_frame_cnt
  lgGrid,         \* the panel's grid
  lgFilter,       \* search_pattern is set: rows whose comment has it (.found)
  lgLabel,        \* the counts the label shows
  lgLast,         \* last_tx_cnt, last_rx_cnt, last_search_pattern
  lgAt,           \* where the GUI thread is: "idle" or in a timer or a dialog
  lgWalk,         \* the iterator of the walk
  lgLines,        \* GenerateLogForFrame's log: [id, lines]
  lgFrames,       \* history: frames on the bus
  lgBase,         \* history: rows that Stop left in the grid
  lgPushed,       \* history: a frame was recorded during the walk
  lgBetween,      \* history: a frame came between two reads of the counts
  lgWild          \* an iterator that is none any more was used

lgVars == <<lgRecording, lgLevel, lgVec, lgCount, lgGrid, lgFilter, lgLabel, lgLast, lgAt,
            lgWalk, lgLines, lgFrames, lgBase, lgPushed, lgBetween, lgWild>>

NoCount == [tx |-> 0, rx |-> 0]
NoLines == [id |-> 0, lines |-> <<>>]

CanLogInit ==
  /\ lgRecording = FALSE /\ lgLevel = 1 /\ lgVec = NoEntries /\ lgCount = NoCount
  /\ lgGrid = NewGrid /\ lgFilter = FALSE
  /\ lgLabel = NoCount /\ lgLast = [count |-> NoCount, filter |-> FALSE]
  /\ lgAt = "idle" /\ lgWalk = Walk(NoEntries, NewGrid) /\ lgLines = NoLines
  /\ lgFrames = 0 /\ lgBase = <<>>
  /\ lgPushed = FALSE /\ lgBetween = FALSE /\ lgWild = FALSE

LogGui == lgAt = "idle" /\ ~lgWild

-----------------------------------------------------------------------------
(* The serial port's thread.  A frame of the TX list is recorded from its    *)
(* log level on, one that is not in it always; a received one has its level, *)
(* or 1.                                                                     *)
Recorded(f) == lgRecording /\ (f.level >= lgLevel \/ (f.dir = "tx" /\ ~f.listed))

FrameOnBus(f) ==
  /\ ~lgWild /\ lgFrames < MaxLogged
  /\ lgFrames' = lgFrames + 1
  /\ lgVec' = IF Recorded(f) THEN PushBack(lgVec, f) ELSE lgVec
  /\ lgCount' = [lgCount EXCEPT ![f.dir] = @ + 1]
  /\ lgPushed' = (lgPushed \/ (lgAt \in {"walk", "dialog"} /\ Recorded(f)))
  /\ lgBetween' = (lgBetween \/ lgAt = "label")
  /\ UNCHANGED <<lgRecording, lgLevel, lgGrid, lgFilter, lgLabel, lgLast, lgAt, lgWalk,
                 lgLines, lgBase, lgWild>>

OnFrameSent == \E f \in LogFrames : f.dir = "tx" /\ FrameOnBus(f)
OnFrameReceived == \E f \in LogFrames : f.dir = "rx" /\ FrameOnBus(f)

-----------------------------------------------------------------------------
(* The buttons: Record, Pause, Stop (the rows stay), Clear; the log level.   *)

StartRecording ==
  /\ LogGui
  /\ lgRecording' = TRUE
  /\ UNCHANGED <<lgLevel, lgVec, lgCount, lgGrid, lgFilter, lgLabel, lgLast, lgAt, lgWalk,
                 lgLines, lgFrames, lgBase, lgPushed, lgBetween, lgWild>>

PauseRecording ==
  /\ LogGui
  /\ lgRecording' = FALSE
  /\ UNCHANGED <<lgLevel, lgVec, lgCount, lgGrid, lgFilter, lgLabel, lgLast, lgAt, lgWalk,
                 lgLines, lgFrames, lgBase, lgPushed, lgBetween, lgWild>>

StopRecording ==
  /\ LogGui
  /\ lgRecording' = FALSE /\ lgCount' = NoCount /\ lgVec' = Clear(lgVec)
  /\ lgGrid' = [lgGrid EXCEPT !.until = 0]
  /\ lgBase' = lgGrid.rows
  /\ UNCHANGED <<lgLevel, lgFilter, lgLabel, lgLast, lgAt, lgWalk, lgLines, lgFrames,
                 lgPushed, lgBetween, lgWild>>

ClearRecording ==
  /\ LogGui
  /\ lgCount' = NoCount /\ lgVec' = Clear(lgVec)
  /\ lgGrid' = ClearRecordingsFromGrid(lgGrid) /\ lgBase' = <<>>
  /\ UNCHANGED <<lgRecording, lgLevel, lgFilter, lgLabel, lgLast, lgAt, lgWalk, lgLines,
                 lgFrames, lgPushed, lgBetween, lgWild>>

OnLogLevelChange ==
  /\ LogGui
  /\ \E n \in LogLevels : n # lgLevel /\ lgLevel' = n
  /\ UNCHANGED <<lgRecording, lgVec, lgCount, lgGrid, lgFilter, lgLabel, lgLast, lgAt, lgWalk,
                 lgLines, lgFrames, lgBase, lgPushed, lgBetween, lgWild>>

(* Ctrl+F: with another pattern the grid is filled again.                    *)
ChangeFilter ==
  /\ LogGui
  /\ lgFilter' = ~lgFilter
  /\ lgGrid' = ClearRecordingsFromGrid(lgGrid) /\ lgBase' = <<>>
  /\ UNCHANGED <<lgRecording, lgLevel, lgVec, lgCount, lgLabel, lgLast, lgAt, lgWalk, lgLines,
                 lgFrames, lgPushed, lgBetween, lgWild>>

-----------------------------------------------------------------------------
(* On10MsTimer: the label, if the counts are not the remembered ones or the  *)
(* pattern is another; then the counts are read once more and remembered.    *)

TimerLabel ==
  /\ LogGui
  /\ lgAt' = "label"
  /\ IF lgLast.count # lgCount \/ (lgFilter /\ ~lgLast.filter)
       THEN lgLabel' = lgCount /\ lgBetween' = FALSE
       ELSE UNCHANGED <<lgLabel, lgBetween>>
  /\ UNCHANGED <<lgRecording, lgLevel, lgVec, lgCount, lgGrid, lgFilter, lgLast, lgWalk, lgLines,
                 lgFrames, lgBase, lgPushed, lgWild>>

(* It is remembered, and the walk begins where the last one ended.           *)
TimerBegin ==
  /\ lgAt = "label" /\ ~lgWild
  /\ lgLast' = [count |-> lgCount, filter |-> lgFilter]
  /\ LET g == IF lgGrid.inserted THEN lgGrid ELSE [lgGrid EXCEPT !.until = 0]
     IN  IF lgVec.items = <<>> THEN lgAt' = "idle" /\ UNCHANGED <<lgGrid, lgWalk>>
         ELSE /\ lgAt' = "walk" /\ lgGrid' = g
              /\ lgWalk' = Walk(lgVec, g)
  /\ lgPushed' = FALSE
  /\ UNCHANGED <<lgRecording, lgLevel, lgVec, lgCount, lgFilter, lgLabel, lgLines, lgFrames,
                 lgBase, lgBetween, lgWild>>

Passing == {e \in LogFrames : ~lgFilter \/ e.found}

InsertRow(g, e) ==
  [(IF e \in Passing THEN AppendRow(g, e) ELSE g) EXCEPT !.until = @ + 1, !.inserted = TRUE]

(* One more entry, or the end; an iterator that is none any more is wild.    *)
TimerStep ==
  /\ lgAt = "walk" /\ ~lgWild
  /\ IF ~WalkValid(lgWalk, lgVec) THEN lgWild' = TRUE /\ UNCHANGED <<lgAt, lgGrid, lgWalk>>
     ELSE IF lgWalk.at > Len(lgVec.items)
            THEN lgAt' = "idle" /\ UNCHANGED <<lgGrid, lgWalk, lgWild>>
     ELSE /\ lgGrid' = InsertRow(lgGrid, lgVec.items[lgWalk.at])
          /\ lgWalk' = [lgWalk EXCEPT !.at = @ + 1]
          /\ UNCHANGED <<lgAt, lgWild>>
  /\ UNCHANGED <<lgRecording, lgLevel, lgVec, lgCount, lgFilter, lgLabel, lgLast, lgLines,
                 lgFrames, lgBase, lgPushed, lgBetween>>

(* GenerateLogForFrame, for the dialog of a row of the sender's grids: the   *)
(* entries of the id in either direction, again without the lock.            *)
GenerateLogForFrame ==
  /\ LogGui /\ lgVec.items # <<>>
  /\ lgAt' = "dialog" /\ lgPushed' = FALSE
  /\ lgWalk' = Walk(lgVec, NewGrid)
  /\ \E f \in LogFrames : lgLines' = [id |-> f.id, lines |-> <<>>]
  /\ UNCHANGED <<lgRecording, lgLevel, lgVec, lgCount, lgGrid, lgFilter, lgLabel, lgLast,
                 lgFrames, lgBase, lgBetween, lgWild>>

OfId(id, items) == Within(items, {f \in LogFrames : f.id = id})

DialogStep ==
  /\ lgAt = "dialog" /\ ~lgWild
  /\ IF ~WalkValid(lgWalk, lgVec) THEN lgWild' = TRUE /\ UNCHANGED <<lgAt, lgWalk, lgLines>>
     ELSE IF lgWalk.at > Len(lgVec.items)
            THEN lgAt' = "idle" /\ lgLines' = NoLines /\ UNCHANGED <<lgWalk, lgWild>>
     ELSE /\ lgLines' = [lgLines EXCEPT !.lines = @ \o OfId(lgLines.id, <<lgVec.items[lgWalk.at]>>)]
          /\ lgWalk' = [lgWalk EXCEPT !.at = @ + 1]
          /\ UNCHANGED <<lgAt, lgWild>>
  /\ UNCHANGED <<lgRecording, lgLevel, lgVec, lgCount, lgGrid, lgFilter, lgLabel, lgLast,
                 lgFrames, lgBase, lgPushed, lgBetween>>

CanLogNext ==
  \/ OnFrameSent \/ OnFrameReceived \/ StartRecording \/ PauseRecording \/ StopRecording \/ ClearRecording
  \/ OnLogLevelChange \/ ChangeFilter \/ TimerLabel \/ TimerBegin \/ TimerStep
  \/ GenerateLogForFrame \/ DialogStep

-----------------------------------------------------------------------------
(* The grid has every entry up to inserted_until that passes the filter,     *)
(* once and in order, behind the rows that a Stop left; the timer never      *)
(* leaves the vector unless an entry was pushed under its walk; and the      *)
(* label is at most wrong by the frames that came while it was set.          *)
CanLogWhole ==
  /\ lgGrid.rows = lgBase \o Within(SubSeq(lgVec.items, 1, lgGrid.until), Passing)
  /\ lgGrid.until <= Len(lgVec.items)
  /\ lgWild => lgPushed
  /\ lgAt = "walk" => (lgLabel = lgLast.count \/ lgBetween)
  /\ lgAt = "dialog" => lgLines.lines = OfId(lgLines.id, SubSeq(lgVec.items, 1, lgWalk.at - 1))
=============================================================================
