----------------------------- MODULE ModbusLog -----------------------------
(***************************************************************************)
(* The recording of the Modbus dialogue (OnDataSent and                     *)
(* NotifyAndWaitForResponse of src/src/ModbusMasterSerialPort.cpp, the      *)
(* recording functions of src/src/ModbusHandler.cpp) and the panels that    *)
(* show and clear it (ModbusLogPanel, ModbusSpecialRegisterPanel of         *)
(* src/src/gui/ModbusMasterPanel.cpp).  Requests are recorded by the        *)
(* port's io thread, answers by the Modbus worker; an exception response    *)
(* and a time-out are recorded without the lock.                            *)
(***************************************************************************)
EXTENDS LogGrid

CONSTANTS
  MaxRecorded,    \* max_recorded_entries: 30000
  MaxMbLogged     \* bound: entries recorded

ASSUME MaxRecordedAssumption == MaxRecorded \in Nat \ {0}

VARIABLES
  mlRecording,    \* is_recoding
  mlVec,          \* m_LogEntries; an entry is its number
  mlGrid,         \* the log panel's grid
  mlIo, mlWorker, \* the io thread and the worker: "idle", "checked", "pushing"
  mlAt,           \* the GUI thread: "idle", "advance", "walk"
  mlWalk,         \* the iterator of the walk
  mlLogged,       \* history: entries recorded
  mlBase,         \* history: rows that Stop left in the grid
  mlSkew,         \* history: the entries were cleared and the grid was not told
  mlRace,         \* history: two threads used m_LogEntries at a time
  mlWild          \* an iterator that is none any more was used, or a data race

mlVars == <<mlRecording, mlVec, mlGrid, mlIo, mlWorker, mlAt, mlWalk, mlLogged, mlBase, mlSkew,
            mlRace, mlWild>>

ModbusLogInit ==
  /\ mlRecording \in BOOLEAN     \* auto_recording
  /\ mlVec = NoEntries /\ mlGrid = NewGrid
  /\ mlIo = "idle" /\ mlWorker = "idle" /\ mlAt = "idle" /\ mlWalk = Walk(NoEntries, NewGrid)
  /\ mlLogged = 0 /\ mlBase = <<>> /\ mlSkew = FALSE /\ mlRace = FALSE /\ mlWild = FALSE

MlGui == mlAt = "idle" /\ ~mlWild

(* m_LogEntries is used: under an unlocked push of the worker a data race.   *)
Used ==
  /\ mlWild' = (mlWild \/ mlWorker = "pushing")
  /\ mlRace' = (mlRace \/ mlWorker = "pushing" \/ mlAt # "idle")

-----------------------------------------------------------------------------
(* OnDataSent.  is_recoding is read before the lock; at the limit the        *)
(* entries are cleared, and OnMaxEntriesReached, which would clear the grid, *)
(* is called by nobody.                                                      *)

OnRequestSent ==
  /\ mlIo = "idle" /\ mlRecording /\ ~mlWild /\ mlLogged < MaxMbLogged
  /\ mlIo' = "checked"
  /\ UNCHANGED <<mlRecording, mlVec, mlGrid, mlWorker, mlAt, mlWalk, mlLogged, mlBase, mlSkew,
                 mlRace, mlWild>>

RecordSent ==
  /\ mlIo = "checked" /\ ~mlWild
  /\ LET full == Len(mlVec.items) >= MaxRecorded
     IN  /\ mlVec' = PushBack(IF full THEN Clear(mlVec) ELSE mlVec, mlLogged)
         /\ mlSkew' = (mlSkew \/ full)
  /\ mlLogged' = mlLogged + 1
  /\ mlIo' = "idle"
  /\ Used
  /\ UNCHANGED <<mlRecording, mlGrid, mlWorker, mlAt, mlWalk, mlBase>>

(* NotifyAndWaitForResponse: an answer, under the lock.                      *)
AnswerCame ==
  /\ mlWorker = "idle" /\ mlRecording /\ ~mlWild /\ mlLogged < MaxMbLogged
  /\ mlWorker' = "checked"
  /\ UNCHANGED <<mlRecording, mlVec, mlGrid, mlIo, mlAt, mlWalk, mlLogged, mlBase, mlSkew,
                 mlRace, mlWild>>

RecordAnswer ==
  /\ mlWorker = "checked" /\ ~mlWild
  /\ mlVec' = PushBack(mlVec, mlLogged)
  /\ mlLogged' = mlLogged + 1
  /\ mlWorker' = "idle"
  /\ Used
  /\ UNCHANGED <<mlRecording, mlGrid, mlIo, mlAt, mlWalk, mlBase, mlSkew>>

(* An exception response or a time-out: emplace_back without the lock.       *)
RecordFailure ==
  /\ mlWorker = "idle" /\ mlRecording /\ ~mlWild /\ mlLogged < MaxMbLogged
  /\ mlWorker' = "pushing"
  /\ UNCHANGED <<mlRecording, mlVec, mlGrid, mlIo, mlAt, mlWalk, mlLogged, mlBase, mlSkew,
                 mlRace, mlWild>>

FailureRecorded ==
  /\ mlWorker = "pushing" /\ ~mlWild
  /\ mlVec' = PushBack(mlVec, mlLogged)
  /\ mlLogged' = mlLogged + 1
  /\ mlWorker' = "idle"
  /\ mlRace' = (mlRace \/ mlAt # "idle")
  /\ UNCHANGED <<mlRecording, mlGrid, mlIo, mlAt, mlWalk, mlBase, mlSkew, mlWild>>

-----------------------------------------------------------------------------
(* The buttons.  Those of the special panel clear the same entries and only  *)
(* their own grid.                                                           *)

ToggleLog ==     \* Record, Pause
  /\ MlGui
  /\ mlRecording' = ~mlRecording
  /\ UNCHANGED <<mlVec, mlGrid, mlIo, mlWorker, mlAt, mlWalk, mlLogged, mlBase, mlSkew, mlRace,
                 mlWild>>

StopLog ==
  /\ MlGui
  /\ mlRecording' = FALSE /\ mlVec' = Clear(mlVec)
  /\ mlGrid' = [mlGrid EXCEPT !.until = 0]
  /\ mlBase' = mlGrid.rows /\ mlSkew' = FALSE
  /\ Used
  /\ UNCHANGED <<mlIo, mlWorker, mlAt, mlWalk, mlLogged>>

ClearLog ==
  /\ MlGui
  /\ mlVec' = Clear(mlVec)
  /\ mlGrid' = ClearRecordingsFromGrid(mlGrid)
  /\ mlBase' = <<>> /\ mlSkew' = FALSE
  /\ Used
  /\ UNCHANGED <<mlRecording, mlIo, mlWorker, mlAt, mlWalk, mlLogged>>

SpecialStopOrClear ==
  /\ MlGui
  /\ mlRecording' \in {mlRecording, FALSE}
  /\ mlVec' = Clear(mlVec)
  /\ mlSkew' = (mlSkew \/ mlVec.items # <<>>)
  /\ Used
  /\ UNCHANGED <<mlGrid, mlIo, mlWorker, mlAt, mlWalk, mlLogged, mlBase>>

SaveLog ==
  /\ MlGui
  /\ Used
  /\ UNCHANGED <<mlRecording, mlVec, mlGrid, mlIo, mlWorker, mlAt, mlWalk, mlLogged, mlBase,
                 mlSkew>>

-----------------------------------------------------------------------------
(* ModbusLogPanel::On10MsTimer.  A grid with more rows than there are        *)
(* entries is of entries that are gone.                                      *)

OutdatedNever(v, g) == FALSE       \* mutant: the rows are not compared
Outdated(v, g) == g.height > Len(v.items)

LogTimerBegin ==
  /\ MlGui /\ mlVec.items # <<>>
  /\ LET old == Outdated(mlVec, mlGrid)
         g == IF old THEN ClearRecordingsFromGrid(mlGrid) ELSE mlGrid
     IN  /\ mlGrid' = IF g.inserted THEN g ELSE [g EXCEPT !.until = 0]
         /\ mlBase' = IF old THEN <<>> ELSE mlBase
         /\ mlSkew' = (mlSkew /\ ~old)
  /\ mlAt' = "advance"
  /\ mlRace' = FALSE
  /\ UNCHANGED <<mlRecording, mlVec, mlIo, mlWorker, mlWalk, mlLogged, mlWild>>

(* begin(), std::advance by inserted_until.                                  *)
LogTimerAdvance ==
  /\ mlAt = "advance" /\ ~mlWild
  /\ mlWild' = (mlGrid.until > Len(mlVec.items))
  /\ mlAt' = IF mlGrid.until = Len(mlVec.items) THEN "idle" ELSE "walk"
  /\ mlWalk' = Walk(mlVec, mlGrid)
  /\ UNCHANGED <<mlRecording, mlVec, mlGrid, mlIo, mlWorker, mlLogged, mlBase, mlSkew, mlRace>>

LogTimerStep ==
  /\ mlAt = "walk" /\ ~mlWild
  /\ IF ~WalkValid(mlWalk, mlVec) THEN mlWild' = TRUE /\ UNCHANGED <<mlAt, mlGrid, mlWalk>>
     ELSE IF mlWalk.at > Len(mlVec.items)
            THEN mlAt' = "idle" /\ UNCHANGED <<mlGrid, mlWalk, mlWild>>
     ELSE /\ mlGrid' = [AppendRow(mlGrid, mlVec.items[mlWalk.at]) EXCEPT !.until = @ + 1,
                                                                        !.inserted = TRUE]
          /\ mlWalk' = [mlWalk EXCEPT !.at = @ + 1]
          /\ UNCHANGED <<mlAt, mlWild>>
  /\ UNCHANGED <<mlRecording, mlVec, mlIo, mlWorker, mlLogged, mlBase, mlSkew, mlRace>>

ModbusLogNext ==
  \/ OnRequestSent \/ RecordSent \/ AnswerCame \/ RecordAnswer \/ RecordFailure \/ FailureRecorded
  \/ ToggleLog \/ StopLog \/ ClearLog \/ SpecialStopOrClear \/ SaveLog
  \/ LogTimerBegin \/ LogTimerAdvance \/ LogTimerStep

-----------------------------------------------------------------------------
(* The grid has every entry up to inserted_until, once and in order, behind  *)
(* the rows a Stop left, unless the entries were cleared and the grid was    *)
(* not told; and whatever was cleared, the timer leaves the vector only if   *)
(* another thread used it at the same time.                                  *)
ModbusLogWhole ==
  /\ ~mlSkew => /\ mlGrid.rows = mlBase \o SubSeq(mlVec.items, 1, mlGrid.until)
                /\ mlGrid.until <= Len(mlVec.items)
  /\ mlWild => mlRace
=============================================================================
