------------------------------ MODULE Sensors ------------------------------
(***************************************************************************)
(* Measurements on their way from a sensor to the database and the graphs: *)
(* Sensors (src/src/Sensors.cpp), Measurement (Sensors.hpp) and            *)
(* DatabaseLogic, DBStream (DatabaseLogic.cpp, DatabaseImpl.cpp).  The     *)
(* server's thread handles the measurements; the graphs are generated on a *)
(* thread of their own, started by that thread or by a button of the GUI.  *)
(* A row of the database is its rowid; the values of a measurement are     *)
(* abstracted to how many were summed and what they are divided by.        *)
(***************************************************************************)
EXTENDS Integers, Sequences, FiniteSets

CONSTANTS CountModulus,     \* Measurement::cnt is a uint8_t: 256
          GraphResolution,  \* m_GraphResolution
          MaxMeasurements,  \* bound: measurements in an integration time
          MaxRows           \* bound: rows of the database

(* With a resolution of 0, which Settings accepts, the front of an empty     *)
(* list is popped: that is left out.                                         *)
ASSUME SensorsAssumption == CountModulus \in Nat \ {0} /\ GraphResolution \in Nat \ {0}

VARIABLES
  snSum,      \* measurements added to m_CurrMeas, 0 when there is none
  snCnt,      \* m_CurrMeas->cnt
  snFinal,    \* history: the last Finalize: [summed, dividedBy]
  snPc,       \* the server's thread: idle, insert, add, update
  snRows,     \* rows in the database
  snLast,     \* last_meas
  snFuture,   \* m_graph_future: none, running, ready
  snJob,      \* the generating thread: off, open, prepare, latest, write
  snNext,     \* the row Query_Latest steps to next
  snUpTo,     \* the last row its query returns
  snDb,       \* Sqlite3Database::db: closed, or open for insert or generate
  snTwo,      \* history: the GUI's button started a job while the server's thread inserted
  snTorn,     \* history: a query ran on the handle another thread had closed or replaced
  snGraphs    \* history: last_meas when the graphs were written last

snMeas == <<snSum, snCnt, snFinal>>
snData == <<snRows, snLast, snGraphs>>
snGen  == <<snFuture, snJob, snNext, snUpTo>>
snVars == <<snMeas, snPc, snData, snGen, snDb, snTwo, snTorn>>

SensorsInit ==
  /\ snSum = 0 /\ snCnt = 0 /\ snFinal = [summed |-> 1, dividedBy |-> 1]
  /\ snPc = "idle" /\ snRows \in 0..2 /\ snLast = <<>> /\ snGraphs = <<>>
  /\ snFuture = "none" /\ snJob = "off" /\ snNext = 0 /\ snUpTo = 0
  /\ snDb = "closed" /\ snTwo = FALSE /\ snTorn = FALSE

-----------------------------------------------------------------------------
(* HandleMeasurements, up to Finalize.  The first of an integration time     *)
(* makes m_CurrMeas: the copy constructor adds to zeros, cnt is 1.  When the *)
(* time has elapsed, the measurement at hand is not added any more, except   *)
(* a first one.                                                              *)
Add(sum, cnt) == snSum' = sum + 1 /\ snCnt' = (cnt + 1) % CountModulus

HandleMeasurement ==
  /\ snPc = "idle" /\ snSum < MaxMeasurements
  /\ Add(snSum, snCnt)
  /\ UNCHANGED <<snFinal, snPc, snData, snGen, snDb, snTwo, snTorn>>

(* Finalize divides by cnt; the integers among the values cannot be divided  *)
(* by zero.                                                                  *)
Finalize ==
  /\ snPc = "idle" /\ snSum > 0 /\ snRows < MaxRows
  /\ snFinal' = [summed |-> snSum, dividedBy |-> snCnt]
  /\ snSum' = 0 /\ snCnt' = 0
  /\ snPc' = IF snCnt = 0 THEN "crashed" ELSE "insert"
  /\ UNCHANGED <<snData, snGen, snDb, snTwo, snTorn>>

(* InsertMeasurement: waits for the graphs, opens the database, inserts and  *)
(* closes it.                                                                *)
WaitForGraphs ==
  /\ snPc = "insert" /\ snFuture # "running"
  /\ snFuture' = "none" /\ snDb' = "insert" /\ snPc' = "query"
  /\ UNCHANGED <<snMeas, snData, snJob, snNext, snUpTo, snTwo, snTorn>>

InsertMeasurement ==
  /\ snPc = "query" /\ snPc' = "add"
  /\ IF snDb = "closed" THEN snTorn' = TRUE /\ UNCHANGED snRows
     ELSE snRows' = snRows + 1 /\ UNCHANGED snTorn
  /\ snDb' = IF snJob = "latest" THEN snDb ELSE "closed"   \* not with a statement in use
  /\ UNCHANGED <<snMeas, snLast, snGraphs, snGen, snTwo>>

LatestKeepsOld(s, x) == IF Len(s) >= GraphResolution THEN s ELSE Append(s, x)   \* mutant
Latest(s, x) == Append(IF Len(s) >= GraphResolution THEN Tail(s) ELSE s, x)
AddMeasurement ==
  /\ snPc = "add" /\ snPc' = "update"
  /\ snLast' = Latest(snLast, snRows)
  /\ UNCHANGED <<snMeas, snRows, snGraphs, snGen, snDb, snTwo, snTorn>>

-----------------------------------------------------------------------------
(* GenerateGraphs: not while a job runs.                                     *)
GenerateGraphs ==
  IF snFuture = "running" THEN UNCHANGED snGen
  ELSE /\ snFuture' = "running" /\ snJob' = "open"
       /\ UNCHANGED <<snNext, snUpTo>>

(* UpdateDatabaseIfNeeded: generate anew when the interval has passed, else  *)
(* write the graphs of what is in memory.                                    *)
UpdateDatabase ==
  /\ snPc = "update" /\ snPc' = "idle"
  /\ \/ GenerateGraphs /\ UNCHANGED snGraphs
     \/ snGraphs' = snLast /\ UNCHANGED snGen
  /\ UNCHANGED <<snMeas, snRows, snLast, snDb, snTwo, snTorn>>

PressGenerate ==
  /\ GenerateGraphs
  /\ snTwo' = (snTwo \/ (snFuture # "running" /\ snPc \in {"query", "add"}))
  /\ UNCHANGED <<snMeas, snPc, snData, snDb, snTorn>>

-----------------------------------------------------------------------------
(* The generating thread: DoGenerateGraphs.                                  *)
OpenForGraphs ==
  /\ snJob = "open" /\ snJob' = "prepare"
  /\ snDb' = "generate"
  /\ UNCHANGED <<snMeas, snPc, snData, snFuture, snNext, snUpTo, snTwo, snTorn>>

PrepareLatest ==
  /\ snJob = "prepare"
  /\ snUpTo' = snRows
  /\ snNext' = (IF snRows > GraphResolution THEN snRows - GraphResolution ELSE 0) + 1
  /\ snTorn' = (snTorn \/ snDb = "closed")
  /\ snJob' = IF snDb = "closed" THEN "write" ELSE "latest"
  /\ UNCHANGED <<snMeas, snPc, snData, snFuture, snDb, snTwo>>

(* Query_Latest appends the latest rows to last_meas, whatever it holds.     *)
QueryLatest ==
  /\ snJob = "latest"
  /\ IF snNext > snUpTo THEN snJob' = "write" /\ UNCHANGED <<snLast, snNext>>
     ELSE /\ snLast' = Latest(snLast, snNext) /\ snNext' = snNext + 1
          /\ UNCHANGED snJob
  /\ UNCHANGED <<snMeas, snPc, snRows, snGraphs, snFuture, snUpTo, snDb, snTwo, snTorn>>

(* The queries of the past, WriteGraphs, last_db_update, and the close.      *)
EndOfJob ==
  /\ snJob = "write" /\ snJob' = "off" /\ snFuture' = "ready"
  /\ snGraphs' = snLast /\ snDb' = "closed"
  /\ UNCHANGED <<snMeas, snPc, snRows, snLast, snNext, snUpTo, snTwo, snTorn>>

SensorsNext ==
  /\ snPc # "crashed"
  /\ \/ HandleMeasurement \/ Finalize \/ WaitForGraphs \/ InsertMeasurement
     \/ AddMeasurement \/ UpdateDatabase \/ PressGenerate
     \/ OpenForGraphs \/ PrepareLatest \/ QueryLatest \/ EndOfJob

SensorsSpec == SensorsInit /\ [][SensorsNext]_snVars

-----------------------------------------------------------------------------
(* Properties. *)

(* The mean in the database is the sum divided by the number of values       *)
(* summed, as long as fewer than 256 came in the integration time.           *)
MeanOfAll == snFinal.summed < CountModulus => snFinal.dividedBy = snFinal.summed

(* No query of the insertion or of the graphs meets the handle the other one *)
(* has closed, unless the button started the graphs in the middle of an      *)
(* insertion: InsertMeasurement waits only for what runs before it.          *)
HandleOfOwn == snTorn => snTwo

(* After the first graphs the graph of the latest measurements ends with the *)
(* newest rows, in order and without a gap: as many as one run of the query  *)
(* gives.  (The rows before them are there again: last_meas is not emptied   *)
(* before the latest rows are added to it.)                                  *)
EndsWithLatest ==
  (snJob = "write" /\ ~snTwo) =>
    LET n == IF snUpTo < GraphResolution THEN snUpTo ELSE GraphResolution IN
    /\ Len(snLast) <= GraphResolution
    /\ \A i \in 1..n : snLast[Len(snLast) - n + i] = snUpTo - n + i

SensorsSafe == MeanOfAll /\ HandleOfOwn /\ EndsWithLatest
=============================================================================
