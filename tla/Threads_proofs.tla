--------------------------- MODULE Threads_proofs ---------------------------
(***************************************************************************)
(* Safety of three parts with a thread of their own that share nothing:    *)
(* CanSerialPort, whose queue implements CanTxFifo, CanScript, BackupRuns. *)
(***************************************************************************)
EXTENDS CanSerialPort, CanScript, BackupRuns,
        FiniteSetTheorems, SequenceTheorems, WellFoundedInduction, TLAPS

-----------------------------------------------------------------------------
(* CanScript, for every set of frames: what a WaitForFrame reports is about  *)
(* its own frame, and what SendFrame sends is what was set, however the      *)
(* script, the bus and an abort interleave.                                  *)

FrameOrNone == ScriptFrames \cup {NoFrame}
OnBus       == [frame : ScriptFrames, same : BOOLEAN]
Waits       == csPc \in {"armed", "blocked"}

ScriptType ==
  /\ csPc \in {"idle", "line", "sendField", "sendRaw", "armed", "blocked"}
  /\ csWaiting \in FrameOrNone
  /\ csField \in [ScriptFrames -> {"unset", "set", "zero"}]
  /\ csRaw \in SUBSET ScriptFrames
  /\ csBus # <<>> => csBus \in OnBus
  /\ csPc \in {"sendField", "sendRaw", "armed", "blocked"} => csFrame \in ScriptFrames
  /\ csLate \in BOOLEAN

(* During a wait m_WaitingFrame is its frame, or none after an abort; so a    *)
(* callback that began during the wait holds its frame, and the flag is set   *)
(* by such a callback or by an abort.                                        *)
WaitInv ==
  /\ Waits => csWaiting \in {csFrame, NoFrame}
  /\ Waits /\ csBus # <<>> /\ ~csLate => csBus.frame = csFrame
  /\ csPc = "blocked" /\ csReceived /\ ~csAborted /\ ~csLate => csData.frame = csFrame
  /\ csPc = "armed" => ~csHeard
  /\ csPc = "blocked" /\ csHeard => csReceived

(* Until an abort clears the maps, a frame with a raw block and no field had  *)
(* the raw block set last, and what contains() has found is still there.     *)
ValueInv ==
  ~csCut =>
    /\ csSent \in {"none", "last", "older field"}
    /\ \A f \in ScriptFrames : csField[f] # "zero"
    /\ \A f \in csRaw : csField[f] = "unset" => f \in csRawLast
    /\ csPc = "sendField" => csField[csFrame] = "set"
    /\ csPc = "sendRaw" => csField[csFrame] = "unset"

ScriptInv == ScriptType /\ WaitInv /\ ValueInv
-----------------------------------------------------------------------------
USE ScriptFramesAssumption DEF FrameOrNone, OnBus, Waits, NoFrame

LEMMA InitScriptInv == ScriptInit => ScriptInv
  BY DEF ScriptInit, ScriptInv, ScriptType, WaitInv, ValueInv, Missing

LEMMA AbortKeeps ==
  ASSUME ScriptInv, AbortRunningScript
  PROVE  ScriptInv'
<1>1. /\ csAborted' = TRUE /\ csWaiting' = NoFrame /\ csReceived' = TRUE
      /\ csField' = Missing /\ csRaw' = {} /\ csCut' = TRUE
      /\ csPc' = csPc /\ csFrame' = csFrame /\ csBus' = csBus
      /\ csHeard' = csHeard /\ csLate' = csLate
  BY DEF AbortRunningScript, csThread, csPast
<1>2. ScriptType'
  BY <1>1 DEF ScriptInv, ScriptType, Missing
<1>3. WaitInv'
  BY <1>1 DEF ScriptInv, WaitInv
<1>4. ValueInv'
  BY <1>1 DEF ValueInv
<1> QED
  BY <1>2, <1>3, <1>4 DEF ScriptInv

(* A callback of the bus finds its frame awaited, and stores it later.       *)
LEMMA BusKeeps ==
  ASSUME ScriptInv, StoreFrame \/ \E f \in ScriptFrames, same \in BOOLEAN : OnFrameOnBus(f, same)
  PROVE  ScriptInv'
<1>1. /\ csPc' = csPc /\ csFrame' = csFrame /\ csAborted' = csAborted
      /\ csWaiting' = csWaiting /\ csField' = csField /\ csRaw' = csRaw
      /\ csRawLast' = csRawLast /\ csCut' = csCut /\ csSent' = csSent
  BY DEF StoreFrame, OnFrameOnBus, csThread, csWait, csValues, csPast
<1>2. ValueInv'
  BY <1>1 DEF ScriptInv, ValueInv
<1>3. CASE StoreFrame
  <2>1. /\ csReceived' /\ csData' = csBus /\ csBus' = <<>> /\ csBus # <<>>
        /\ csHeard' = (csHeard \/ (csPc = "blocked" /\ csBus.frame = csFrame))
        /\ csLate' = (csLate \/ csPc \notin {"armed", "blocked"})
    BY <1>3 DEF StoreFrame
  <2>2. ScriptType'
    BY <1>1, <2>1 DEF ScriptInv, ScriptType
  <2>3. WaitInv'
    BY <1>1, <2>1 DEF ScriptInv, WaitInv
  <2> QED
    BY <1>2, <2>2, <2>3 DEF ScriptInv
<1>4. CASE \E f \in ScriptFrames, same \in BOOLEAN : OnFrameOnBus(f, same)
  <2>1. PICK f \in ScriptFrames, same \in BOOLEAN : OnFrameOnBus(f, same)
    BY <1>4
  <2>2. /\ csWaiting = f /\ csBus' = [frame |-> f, same |-> same] /\ csReceived' = csReceived
        /\ csData' = csData /\ csHeard' = csHeard /\ csLate' = csLate
    BY <2>1 DEF OnFrameOnBus, csWait, csPast
  <2>3. ScriptType'
    BY <1>1, <2>2 DEF ScriptInv, ScriptType
  <2>4. WaitInv'
    <3>1. Waits => csBus'.frame = csFrame
      BY <2>2 DEF ScriptInv, WaitInv
    <3> QED
      BY <1>1, <2>2, <3>1 DEF ScriptInv, WaitInv
  <2> QED
    BY <1>2, <2>3, <2>4 DEF ScriptInv
<1> QED
  BY <1>3, <1>4

(* The lines that set values: a field takes the frame out of the raw ones.   *)
LEMMA SettingKeeps ==
  ASSUME ScriptInv, NEW f \in ScriptFrames, SetFrameField(f) \/ SetFrameFieldRaw(f)
  PROVE  ScriptInv'
<1>1. /\ csPc = "line" /\ csPc' = "line" /\ csCut' = csCut /\ csWaiting' = csWaiting
      /\ csBus' = csBus /\ csLate' = csLate /\ csSent' = csSent
  BY DEF SetFrameField, SetFrameFieldRaw, Runs, NextLine, csWait, csPast
<1>2. \/ csField' = [csField EXCEPT ![f] = "set"] /\ csRawLast' = csRawLast \ {f} /\ csRaw' = csRaw
      \/ csField' = csField /\ csRawLast' = csRawLast \cup {f} /\ csRaw' = csRaw \cup {f}
  BY DEF SetFrameField, SetFrameFieldRaw
<1>3. csField \in [ScriptFrames -> {"unset", "set", "zero"}] /\ csRaw \in SUBSET ScriptFrames
  BY DEF ScriptInv, ScriptType
<1>4. ScriptType'
  BY <1>1, <1>2, <1>3 DEF ScriptInv, ScriptType
<1>5. WaitInv'
  BY <1>1 DEF WaitInv
<1>6. ValueInv'
  BY <1>1, <1>2, <1>3 DEF ScriptInv, ValueInv
<1> QED
  BY <1>4, <1>5, <1>6 DEF ScriptInv

(* SendFrame: what contains() found is sent, unless an abort took it away.   *)
LEMMA SendingKeeps ==
  ASSUME ScriptInv, (\E f \in ScriptFrames : SendFrame(f)) \/ SendField \/ SendRaw
  PROVE  ScriptInv'
<1>1. csField \in [ScriptFrames -> {"unset", "set", "zero"}]
  BY DEF ScriptInv, ScriptType
<1>2. CASE \E f \in ScriptFrames : SendFrame(f)
  <2>1. PICK f \in ScriptFrames : SendFrame(f)
    BY <1>2
  <2>2. /\ \/ csPc' = "line" /\ csFrame' = NoFrame
           \/ csPc' = "sendField" /\ csFrame' = f /\ csField[f] # "unset"
           \/ csPc' = "sendRaw" /\ csFrame' = f /\ csField[f] = "unset"
        /\ csWaiting' = csWaiting /\ csField' = csField /\ csRaw' = csRaw
        /\ csRawLast' = csRawLast /\ csBus' = csBus /\ csLate' = csLate
        /\ csSent' = csSent /\ csCut' = csCut
    BY <2>1 DEF SendFrame, NextLine, csWait, csValues, csPast
  <2>3. ScriptType'
    BY <2>2 DEF ScriptInv, ScriptType
  <2>4. WaitInv'
    BY <2>2 DEF WaitInv
  <2>5. ValueInv'
    BY <1>1, <2>2 DEF ScriptInv, ValueInv
  <2> QED
    BY <2>3, <2>4, <2>5 DEF ScriptInv
<1>3. CASE SendField
  <2>1. /\ csPc = "sendField" /\ csPc' = "line" /\ csFrame \in ScriptFrames
        /\ csField' = [csField EXCEPT ![csFrame] = IF @ = "unset" THEN "zero" ELSE @]
        /\ csSent' = IF csField'[csFrame] = "zero" THEN "zero"
                     ELSE IF csFrame \in csRawLast THEN "older field" ELSE "last"
        /\ csWaiting' = csWaiting /\ csRaw' = csRaw /\ csRawLast' = csRawLast
        /\ csBus' = csBus /\ csLate' = csLate /\ csCut' = csCut
    BY <1>3 DEF SendField, NextLine, csWait, ScriptInv, ScriptType
  <2>2. ScriptType'
    BY <1>1, <2>1 DEF ScriptInv, ScriptType
  <2>3. WaitInv'
    BY <2>1 DEF WaitInv
  <2>4. ~csCut => csField' = csField
    BY <1>1, <2>1 DEF ScriptInv, ValueInv
  <2>5. ValueInv'
    BY <1>1, <2>1, <2>4 DEF ScriptInv, ValueInv
  <2> QED
    BY <2>2, <2>3, <2>5 DEF ScriptInv
<1>4. CASE SendRaw
  <2>1. /\ csPc = "sendRaw" /\ csPc' = "line" /\ csFrame \in ScriptFrames
        /\ csSent' = IF csFrame \notin csRaw THEN csSent
                     ELSE IF csFrame \in csRawLast THEN "last" ELSE "older raw"
        /\ csWaiting' = csWaiting /\ csField' = csField /\ csRaw' = csRaw
        /\ csRawLast' = csRawLast /\ csBus' = csBus /\ csLate' = csLate /\ csCut' = csCut
    BY <1>4 DEF SendRaw, NextLine, csWait, csValues, ScriptInv, ScriptType
  <2>2. ScriptType'
    BY <2>1 DEF ScriptInv, ScriptType
  <2>3. WaitInv'
    BY <2>1 DEF WaitInv
  <2>4. ValueInv'
    BY <2>1 DEF ScriptInv, ValueInv
  <2> QED
    BY <2>2, <2>3, <2>4 DEF ScriptInv
<1> QED
  BY <1>2, <1>3, <1>4

(* WaitForFrame: it names its frame, clears the flag, and waits.             *)
LEMMA WaitingKeeps ==
  ASSUME ScriptInv,
         (\E f \in ScriptFrames : WaitForFrame(f)) \/ ClearReceived \/ EndWait
  PROVE  ScriptInv'
<1>1. CASE \E f \in ScriptFrames : WaitForFrame(f)
  <2>1. PICK f \in ScriptFrames : WaitForFrame(f)
    BY <1>1
  <2>2. /\ csPc' = "armed" /\ csFrame' = f /\ csWaiting' = f /\ ~csHeard'
        /\ csLate' = (csBus # <<>>) /\ csBus' = csBus /\ csField' = csField
        /\ csRaw' = csRaw /\ csRawLast' = csRawLast /\ csSent' = csSent /\ csCut' = csCut
    BY <2>1 DEF WaitForFrame, csValues
  <2>3. ScriptType' /\ WaitInv'
    BY <2>2 DEF ScriptInv, ScriptType, WaitInv
  <2>4. ValueInv'
    BY <2>2 DEF ScriptInv, ValueInv
  <2> QED
    BY <2>3, <2>4 DEF ScriptInv
<1>2. CASE ClearReceived
  <2>1. /\ csPc = "armed" /\ csPc' = "blocked" /\ csFrame' = csFrame /\ ~csReceived'
        /\ csWaiting' = csWaiting /\ csHeard' = csHeard /\ csLate' = csLate
        /\ csBus' = csBus /\ csField' = csField /\ csRaw' = csRaw
        /\ csRawLast' = csRawLast /\ csSent' = csSent /\ csCut' = csCut
    BY <1>2 DEF ClearReceived, csValues, csPast
  <2>2. ScriptType'
    BY <2>1 DEF ScriptInv, ScriptType
  <2>3. WaitInv'
    BY <2>1 DEF ScriptInv, WaitInv
  <2>4. ValueInv'
    BY <2>1 DEF ScriptInv, ValueInv
  <2> QED
    BY <2>2, <2>3, <2>4 DEF ScriptInv
<1>3. CASE EndWait
  <2>1. /\ csPc' = "line" /\ csWaiting' = NoFrame /\ csLate' = FALSE
        /\ csBus' = csBus /\ csField' = csField /\ csRaw' = csRaw \ {csFrame}
        /\ csRawLast' = csRawLast /\ csSent' = csSent /\ csCut' = csCut
    BY <1>3 DEF EndWait, NextLine
  <2>2. ScriptType' /\ WaitInv'
    BY <2>1 DEF ScriptInv, ScriptType, WaitInv
  <2>3. ValueInv'
    BY <2>1 DEF ScriptInv, ValueInv
  <2> QED
    BY <2>2, <2>3 DEF ScriptInv
<1> QED
  BY <1>1, <1>2, <1>3

(* Lines without an effect, the beginning and the end of a script.           *)
LEMMA IdleKeeps ==
  ASSUME ScriptInv, RunScript \/ OtherLine \/ Finish \/ UNCHANGED csVars
  PROVE  ScriptInv'
<1>1. /\ csWaiting' = csWaiting /\ csField' = csField /\ csRaw' = csRaw
      /\ csRawLast' = csRawLast /\ csBus' = csBus /\ csLate' = csLate
      /\ csSent' = csSent /\ csCut' = csCut
  BY DEF RunScript, OtherLine, Finish, csVars, csWait, csValues, csPast
<1>2. \/ csPc' \in {"idle", "line"}
      \/ /\ csPc' = csPc /\ csFrame' = csFrame /\ csAborted' = csAborted
         /\ csReceived' = csReceived /\ csData' = csData /\ csHeard' = csHeard
  BY DEF RunScript, OtherLine, Finish, NextLine, csVars, csThread, csWait, csPast
<1>3. ScriptType' /\ WaitInv'
  BY <1>1, <1>2 DEF ScriptInv, ScriptType, WaitInv
<1>4. ValueInv'
  BY <1>1, <1>2 DEF ScriptInv, ValueInv
<1> QED
  BY <1>3, <1>4 DEF ScriptInv

LEMMA ScriptKeeps == ScriptInv /\ [ScriptNext]_csVars => ScriptInv'
  BY AbortKeeps, BusKeeps, SettingKeeps, SendingKeeps, WaitingKeeps, IdleKeeps DEF ScriptNext

(* A script's WaitForFrame compares data of its own frame and times out only *)
(* when none came, and its SendFrame sends what was set, for every set of    *)
(* frames and any number of lines, frames and aborts: with the exceptions    *)
(* that WaitIsForItsFrame and SendsWhatWasSet name (CanScriptHandler.cpp,    *)
(* WaitForFrame, OnFrameOnBus, SendFrame and AbortRunningScript).            *)
THEOREM ScriptIsSafe == ScriptSpec => []ScriptSafe
<1>1. ScriptInv => WaitIsForItsFrame
  BY DEF ScriptInv, WaitInv, WaitIsForItsFrame, Outcome
<1>2. ScriptInv => SendsWhatWasSet
  BY DEF ScriptInv, ValueInv, SendsWhatWasSet
<1>3. ScriptInv => ScriptSafe
  BY <1>1, <1>2 DEF ScriptSafe
<1> QED
  BY InitScriptInv, ScriptKeeps, <1>3, PTL DEF ScriptSpec

HIDE ScriptFramesAssumption DEF FrameOrNone, OnBus, Waits, NoFrame

-----------------------------------------------------------------------------
(* BackupRuns, for any sources, destinations, items and runs.                *)

(* d is a destination of s. *)
Uses(s, d) == \E i \in DOMAIN Destinations[s] : Destinations[s][i] = d
Folders == [src : Sources, at : Nat, n : Nat, bad : BOOLEAN]
RunPcs == {"idle", "begin", "uncancel", "rotate", "folder", "copy", "hash", "zip", "end"}
RunRecords == [pc : RunPcs, src : Sources \cup {""}, to : Nat, item : Nat, from : Nat,
               fail : BOOLEAN, first : BOOLEAN]
AtPlace == bkRun.pc \in {"copy", "hash", "zip"}
InLoop == bkRun.pc = "folder" \/ AtPlace

BackupType ==
  /\ bkEntries \subseteq Sources
  /\ bkMax \in [Sources -> Nat] /\ bkHash \in [Sources -> BOOLEAN] /\ bkZip \in [Sources -> BOOLEAN]
  /\ bkDisk \in [Places -> SUBSET Folders] /\ bkNow \in Nat
  /\ bkRun \in RunRecords
  /\ bkGood \in [Sources -> [Places -> Nat]] /\ bkSince \in [Sources -> [Places -> Nat]]

(* A destination has one folder of a source and a second. *)
DiskInv ==
  \A d \in Places :
    /\ IsFiniteSet(bkDisk[d])
    /\ \A f \in bkDisk[d] : /\ f.n <= MaxFiles /\ f.at <= bkNow /\ Uses(f.src, d)
                            /\ \A g \in bkDisk[d] : f.src = g.src /\ f.at = g.at => f = g

(* The folder of the run, and what it has of the source. *)
Mine(f) == f \in bkDisk[Place] /\ f.src = bkRun.src /\ f.at = bkNow
RunInv ==
  /\ bkRun.pc # "idle" => bkRun.src \in Sources
  /\ bkRun.pc = "rotate" \/ InLoop => bkRun.to >= 1
  /\ AtPlace => bkRun.to <= Len(Destinations[bkRun.src]) /\ Mine(Folder)
  /\ bkRun.pc = "copy" => bkRun.item <= MaxFiles /\ (bkRun.item = 0 \/ Folder.n = bkRun.item)
  /\ bkRun.pc \in {"hash", "zip"} /\ ~bkRun.fail => Folder.n = MaxFiles
  /\ bkRun.pc = "zip" /\ bkHash[bkRun.src] /\ ~bkRun.fail => ~Folder.bad
  /\ bkRun.pc = "end" => bkRun.fail

DialogInv ==
  /\ bkShow /\ bkRun.pc \in {"idle", "begin"} => bkThrew \/ bkCancelled
  /\ EndHasReason

(* Until it fails, a run with hashes has left all of the source where it was. *)
HasWhole(s, d) == \E f \in bkDisk[d] : f.src = s /\ f.n = MaxFiles /\ ~f.bad
CompleteInv ==
  /\ InLoop /\ bkHash[bkRun.src] /\ ~bkZip[bkRun.src] /\ ~bkRun.fail =>
       \A i \in DOMAIN Destinations[bkRun.src] : i < bkRun.to => HasWhole(bkRun.src, Destinations[bkRun.src][i])
  /\ bkTold = "completed" => bkRun.pc = "idle"
  /\ CompletedIsComplete

(* The folders newer than the good one, with the one this run may still make, *)
(* are at most the rotations since.                                          *)
HasRotated(d) ==
  \/ bkRun.pc = "rotate" /\ \E i \in DOMAIN Destinations[bkRun.src] : i < bkRun.to /\ Destinations[bkRun.src][i] = d
  \/ InLoop /\ Uses(bkRun.src, d)
Newer(s, d) ==
  {f.at : f \in {g \in bkDisk[d] : g.src = s /\ g.at > bkGood[s][d]}} \cup
  {t \in {bkNow} : bkRun.src = s /\ HasRotated(d) /\ t > bkGood[s][d]}
IsGood(f, s, d) == f.src = s /\ f.at = bkGood[s][d] /\ f.n = MaxFiles /\ ~f.bad
KeptAt(s, d) ==
  Alone(s, d) /\ bkGood[s][d] # 0 /\ bkSince[s][d] < bkMax[s] =>
    /\ \E f \in bkDisk[d] : IsGood(f, s, d)
    /\ Cardinality(Newer(s, d)) <= bkSince[s][d]
KeptInv == \A s \in Sources, d \in Places : KeptAt(s, d)

BackupInv == BackupType /\ DiskInv /\ RunInv /\ DialogInv /\ CompleteInv /\ KeptInv

(* A set of numbers has a least one. *)
LEMMA LeastExists ==
  ASSUME NEW D, D \subseteq Nat, D # {}
  PROVE  \E d \in D : \A e \in D : d <= e
<1> DEFINE Below == {p \in Nat \X Nat : p[1] < p[2]}
<1>1. OpToRel(<, Nat) = Below
  BY DEF OpToRel
<1>2. IsWellFoundedOn(Below, Nat)
  BY <1>1, NatLessThanWellFounded
<1>3. PICK d \in D : \A e \in D : ~(<<e, d>> \in Below)
  BY <1>2, WFMin
<1>4. \A e \in D : ~(e < d)
  BY <1>3
<1> QED
  BY <1>4

(* There is a first folder by name: names are ordered, and no destination    *)
(* has two of one source and second.                                         *)
LEMMA FirstExists ==
  ASSUME BackupType, DiskInv, NEW d \in Places, NEW S, S \subseteq bkDisk[d], S # {}
  PROVE  /\ OldestFirst(S) \in S
         /\ \A g \in S \ {OldestFirst(S)} : FirstByName(OldestFirst(S), g)
<1>1. \A f \in S : f.src \in Sources /\ f.at \in Nat
  <2>1. bkDisk[d] \subseteq Folders
    BY DEF BackupType
  <2> QED
    BY <2>1 DEF Folders
<1> DEFINE Orders == {OrderOf[f.src] : f \in S}
<1>2. PICK o \in Orders : \A p \in Orders : o <= p
  <2>1. Orders \subseteq Nat /\ Orders # {}
    BY <1>1, BackupAssumption
  <2> QED
    BY <2>1, LeastExists
<1> DEFINE Times == {f.at : f \in {g \in S : OrderOf[g.src] = o}}
<1>3. PICK t \in Times : \A u \in Times : t <= u
  <2>1. Times \subseteq Nat /\ Times # {}
    BY <1>1, <1>2
  <2> QED
    BY <2>1, LeastExists
<1>4. PICK f \in S : OrderOf[f.src] = o /\ f.at = t
  BY <1>3
<1>5. ASSUME NEW g \in S, g # f
      PROVE  FirstByName(f, g)
  <2>1. OrderOf[f.src] <= OrderOf[g.src]
    BY <1>2, <1>4
  <2>2. CASE OrderOf[f.src] = OrderOf[g.src]
    <3>1. f.src = g.src
      BY <1>1, <2>2, BackupAssumption
    <3>2. f.at <= g.at
      BY <1>3, <1>4, <2>2
    <3>3. f.at # g.at
      BY <1>5, <3>1 DEF DiskInv
    <3> QED
      BY <1>1, <3>1, <3>2, <3>3 DEF FirstByName
  <2> QED
    BY <1>1, <2>1, <2>2, BackupAssumption DEF FirstByName
<1>6. \E h \in S : \A g \in S \ {h} : FirstByName(h, g)
  BY <1>5
<1> QED
  BY <1>6 DEF OldestFirst

(* Destinations are numbered from 1. *)
LEMMA PlaceIs ==
  ASSUME NEW s \in Sources, NEW i \in Nat, i >= 1, i <= Len(Destinations[s])
  PROVE  Destinations[s][i] \in Places /\ i \in DOMAIN Destinations[s]
BY BackupAssumption

LEMMA DomainIs ==
  ASSUME NEW s \in Sources, NEW i \in DOMAIN Destinations[s]
  PROVE  i \in Nat /\ i >= 1 /\ i <= Len(Destinations[s]) /\ Destinations[s][i] \in Places
BY BackupAssumption

(* The run is at one folder, which is its own.                               *)
LEMMA FolderIs ==
  ASSUME BackupInv, AtPlace
  PROVE  /\ bkRun.src \in Sources /\ bkRun.to \in DOMAIN Destinations[bkRun.src]
         /\ Place \in Places /\ Folder \in bkDisk[Place] /\ Folder \in Folders
         /\ Folder.src = bkRun.src /\ Folder.at = bkNow
         /\ \A f \in bkDisk[Place] : f.src = bkRun.src /\ f.at = bkNow => f = Folder
<1>1. bkRun.src \in Sources /\ bkRun.to \in Nat /\ bkRun.to >= 1 /\ bkRun.to <= Len(Destinations[bkRun.src])
  BY DEF BackupInv, BackupType, RunRecords, RunInv, AtPlace, InLoop
<1>2. Place \in Places /\ bkRun.to \in DOMAIN Destinations[bkRun.src]
  BY <1>1, PlaceIs DEF Place
<1>3. Folder \in bkDisk[Place] /\ Folder.src = bkRun.src /\ Folder.at = bkNow
  BY DEF BackupInv, RunInv, Mine
<1>4. \A f \in bkDisk[Place] : f.src = bkRun.src /\ f.at = bkNow => f = Folder
  BY <1>2, <1>3 DEF BackupInv, DiskInv
<1>5. Folder \in Folders
  BY <1>2, <1>3 DEF BackupInv, BackupType
<1> QED
  BY <1>1, <1>2, <1>3, <1>4, <1>5

LEMMA NewerIsFinite ==
  ASSUME BackupInv, NEW s \in Sources, NEW d \in Places
  PROVE  IsFiniteSet(Newer(s, d)) /\ Cardinality(Newer(s, d)) \in Nat
<1> DEFINE F == {g \in bkDisk[d] : g.src = s /\ g.at > bkGood[s][d]}
           N == {t \in {bkNow} : bkRun.src = s /\ HasRotated(d) /\ t > bkGood[s][d]}
           T == {f.at : f \in F}
<1>1. IsFiniteSet(F)
  BY FS_Subset DEF BackupInv, DiskInv
<1>2. IsFiniteSet(T)
  <2> HIDE DEF F
  <2> DEFINE at == [f \in F |-> f.at]
  <2>1. at \in Surjection(F, T)
    BY DEF Surjection
  <2> HIDE DEF at, T
  <2> QED
    BY <1>1, <2>1, FS_Surjection
<1>3. IsFiniteSet(N)
  BY FS_Singleton, FS_Subset
<1>4. Newer(s, d) = T \cup N
  BY DEF Newer
<1> HIDE DEF T, N
<1> QED
  BY <1>2, <1>3, <1>4, FS_Union, FS_CardinalityType

(* What a step may do to one source and destination without a new good      *)
(* folder or a rotation.                                                     *)
LEMMA KeptStays ==
  ASSUME BackupInv, NEW s \in Sources, NEW d \in Places,
         bkGood'[s][d] \in {bkGood[s][d], 0}, bkSince'[s][d] = bkSince[s][d], bkMax' = bkMax,
         bkGood'[s][d] # 0 =>
           /\ \A f \in bkDisk'[d] : f.src = s /\ f.at > bkGood[s][d] => f.at \in Newer(s, d)
           /\ \A f \in bkDisk[d] : IsGood(f, s, d) => f \in bkDisk'[d],
         bkRun'.src = s /\ HasRotated(d)' => bkRun.src = s /\ HasRotated(d) /\ bkNow' = bkNow
  PROVE  KeptAt(s, d)'
<1> SUFFICES ASSUME Alone(s, d), bkGood'[s][d] # 0, bkSince[s][d] < bkMax[s]
             PROVE  /\ \E f \in bkDisk'[d] : IsGood(f, s, d)'
                    /\ Cardinality(Newer(s, d)') <= bkSince[s][d]
  BY DEF KeptAt
<1>1. bkGood'[s][d] = bkGood[s][d] /\ bkGood[s][d] # 0
  OBVIOUS
<1>2. /\ \E f \in bkDisk[d] : IsGood(f, s, d)
      /\ Cardinality(Newer(s, d)) <= bkSince[s][d]
  BY <1>1 DEF BackupInv, KeptInv, KeptAt
<1>3. \E f \in bkDisk'[d] : IsGood(f, s, d)'
  BY <1>1, <1>2 DEF IsGood
<1>4. Newer(s, d)' \subseteq Newer(s, d)
  <2>1. ASSUME NEW f \in bkDisk'[d], f.src = s, f.at > bkGood[s][d]
        PROVE  f.at \in Newer(s, d)
    BY <1>1, <2>1
  <2>2. ASSUME bkRun'.src = s, HasRotated(d)', bkNow' > bkGood[s][d]
        PROVE  bkNow' \in Newer(s, d)
    BY <2>2 DEF Newer
  <2>3. ASSUME NEW t \in Newer(s, d)'
        PROVE  t \in Newer(s, d)
    <3>1. \/ \E f \in bkDisk'[d] : f.src = s /\ f.at > bkGood[s][d] /\ t = f.at
          \/ t = bkNow' /\ bkRun'.src = s /\ HasRotated(d)' /\ t > bkGood[s][d]
      BY <1>1, <2>3 DEF Newer
    <3> QED
      BY <2>1, <2>2, <3>1
  <2> QED
    BY <2>3
<1>5. Cardinality(Newer(s, d)') <= Cardinality(Newer(s, d)) /\ Cardinality(Newer(s, d)') \in Nat
  BY <1>4, NewerIsFinite, FS_Subset, FS_CardinalityType
<1>6. bkSince[s][d] \in Nat /\ Cardinality(Newer(s, d)) \in Nat
  BY NewerIsFinite DEF BackupInv, BackupType
<1> QED
  BY <1>2, <1>3, <1>5, <1>6

LEMMA KeptUnchanged ==
  ASSUME BackupInv, UNCHANGED <<bkDisk, bkGood, bkSince, bkMax, bkNow, bkRun>>
  PROVE  KeptInv'
<1> SUFFICES ASSUME NEW s \in Sources, NEW d \in Places
             PROVE  KeptAt(s, d)'
  BY DEF KeptInv
<1>1. \A f \in bkDisk[d] : f.src = s /\ f.at > bkGood[s][d] => f.at \in Newer(s, d)
  BY DEF Newer
<1>2. HasRotated(d)' => HasRotated(d)
  BY DEF HasRotated, InLoop, AtPlace
<1> QED
  BY <1>1, <1>2, KeptStays

(* Who takes a step. *)
RunSteps ==
  \/ InvalidSource \/ Begin \/ Uncancel \/ Rotation \/ Rotated \/ Cancelled \/ CreateFolder
  \/ Copy \/ CopyFails \/ CopyThrows \/ ItemsCopied \/ Hash \/ Compress \/ End
WindowSteps ==
  \/ HandleBackupProgressDialog \/ PressCancel \/ ReloadEntries
  \/ \E s \in Sources : DeleteEntry(s) \/ EditEntry(s)

LEMMA Frame ==
  ASSUME BackupType, BackupNext
  PROVE  /\ RunSteps \/ WindowSteps \/ \E s \in Sources : BackupFile(s)
         /\ RunSteps => bkNow' = bkNow /\ bkEntries' = bkEntries
         /\ WindowSteps => Window
         /\ bkEntries' \subseteq Sources /\ bkNow' \in Nat /\ bkNow' >= bkNow
         /\ bkMax' = bkMax /\ bkHash' = bkHash /\ bkZip' = bkZip
<1>1. RunSteps \/ WindowSteps \/ \E s \in Sources : BackupFile(s)
  BY DEF BackupNext, RunSteps, WindowSteps
<1>2. RunSteps => \E step \in RunPcs : Step(step)
  BY DEF RunSteps, InvalidSource, Begin, Uncancel, Rotation, BackupRotation, Rotated, Cancelled, CreateFolder,
         Copy, CopyFails, CopyThrows, ItemsCopied, Hash, Compress, End, RunPcs
<1>3. WindowSteps => Window /\ (bkEntries' \subseteq bkEntries \/ bkEntries' = Sources)
  BY DEF WindowSteps, HandleBackupProgressDialog, PressCancel, ReloadEntries, DeleteEntry, EditEntry
<1>4. bkNow \in Nat /\ bkEntries \subseteq Sources
  BY DEF BackupType
<1>5. CASE RunSteps
  BY <1>1, <1>2, <1>3, <1>4, <1>5 DEF Step, bkConfig, Window
<1>6. CASE WindowSteps
  BY <1>1, <1>2, <1>3, <1>4, <1>6 DEF Step, bkConfig, Window
<1>7. CASE \E s \in Sources : BackupFile(s)
  <2>1. bkNow' \in {bkNow, bkNow + 1} /\ bkEntries' = bkEntries /\ UNCHANGED bkConfig
    BY <1>7 DEF BackupFile
  <2> QED
    BY <1>1, <1>2, <1>3, <1>4, <2>1 DEF Step, bkConfig
<1> QED
  BY <1>1, <1>5, <1>6, <1>7

LEMMA TypeStep ==
  ASSUME BackupInv, BackupNext
  PROVE  BackupType'
<1>1. BackupType
  BY DEF BackupInv
<1>2. /\ bkDisk \in [Places -> SUBSET Folders] /\ bkNow \in Nat /\ bkEntries \subseteq Sources
      /\ bkGood \in [Sources -> [Places -> Nat]] /\ bkSince \in [Sources -> [Places -> Nat]]
  BY <1>1 DEF BackupType
<1>3. bkEntries' \subseteq Sources /\ bkNow' \in Nat /\ bkMax' = bkMax /\ bkHash' = bkHash /\ bkZip' = bkZip
  BY <1>1, Frame
<1>4. bkRun' \in RunRecords
  <2>0. bkRun \in RunRecords
    BY <1>1 DEF BackupType
  <2>1. Idle \in RunRecords /\ Done \in RunRecords
    BY <2>0 DEF Idle, Done, RunRecords, RunPcs
  <2>2. ASSUME NEW step \in {"idle", "begin", "uncancel", "rotate", "folder", "copy", "hash", "zip", "end"},
               bkRun' = [bkRun EXCEPT !.pc = step]
        PROVE  bkRun' \in RunRecords
    BY <2>0, <2>2 DEF RunRecords, RunPcs
  <2>3. CASE InvalidSource \/ Cancelled \/ CopyThrows \/ End
    BY <2>1, <2>3 DEF InvalidSource, Cancelled, Leave, CopyThrows, End
  <2>4. CASE Begin \/ ItemsCopied
    BY <2>2, <2>4 DEF Begin, ItemsCopied
  <2>5. CASE Uncancel \/ Rotated
    <3>1. PICK step \in {"rotate", "folder"} : bkRun' = [bkRun EXCEPT !.pc = step, !.to = 1]
      BY <2>5 DEF Uncancel, Rotated
    <3>2. step \in RunPcs /\ 1 \in Nat
      BY DEF RunPcs
    <3> QED
      BY <2>0, <3>1, <3>2 DEF RunRecords
  <2>6. CASE Rotation
    <3>1. bkRun' = bkRun \/ bkRun' = [bkRun EXCEPT !.to = bkRun.to + 1]
      BY <2>6 DEF Rotation, BackupRotation
    <3>2. bkRun.to + 1 \in Nat
      <4>1. bkRun.to \in Nat
        BY <2>0 DEF RunRecords
      <4> QED
        BY <4>1
    <3> QED
      BY <2>0, <3>1, <3>2 DEF RunRecords
  <2>7. CASE CreateFolder \/ CopyFails
    <3>1. \/ bkRun' = [bkRun EXCEPT !.pc = "copy", !.item = 0]
          \/ \E step \in {"end", "hash"} : bkRun' = [bkRun EXCEPT !.pc = step, !.fail = TRUE]
      BY <2>7 DEF CreateFolder, CopyFails
    <3>2. [bkRun EXCEPT !.pc = "copy", !.item = 0] \in RunRecords
      BY <2>0 DEF RunRecords, RunPcs
    <3>3. \A step \in {"end", "hash"} : [bkRun EXCEPT !.pc = step, !.fail = TRUE] \in RunRecords
      BY <2>0 DEF RunRecords, RunPcs
    <3> QED
      BY <3>1, <3>2, <3>3
  <2>8. CASE Copy
    <3>1. PICK from \in {bkRun.from, bkRun.from + 1} :
            bkRun' = [bkRun EXCEPT !.item = bkRun.item + 1, !.from = from]
      BY <2>8 DEF Copy
    <3>2. bkRun.item + 1 \in Nat /\ from \in Nat
      <4>1. bkRun.item \in Nat /\ bkRun.from \in Nat
        BY <2>0 DEF RunRecords
      <4> QED
        BY <4>1
    <3> QED
      BY <2>0, <3>1, <3>2 DEF RunRecords
  <2>9. CASE Hash
    <3>1. \/ bkRun' = [bkRun EXCEPT !.pc = "zip"]
          \/ bkRun' = [bkRun EXCEPT !.pc = "zip", !.first = TRUE]
          \/ bkRun' = [bkRun EXCEPT !.pc = "end", !.fail = TRUE, !.first = TRUE]
      BY <2>9 DEF Hash
    <3> QED
      BY <2>0, <3>1 DEF RunRecords, RunPcs
  <2>10. CASE Compress
    <3>1. bkRun' = [bkRun EXCEPT !.pc = "folder", !.to = bkRun.to + 1, !.item = 0]
      BY <2>10 DEF Compress
    <3>2. bkRun.to + 1 \in Nat
      <4>1. bkRun.to \in Nat
        BY <2>0 DEF RunRecords
      <4> QED
        BY <4>1
    <3> QED
      BY <2>0, <3>1, <3>2 DEF RunRecords, RunPcs
  <2>11. ASSUME NEW s \in Sources, BackupFile(s)
         PROVE  bkRun' \in RunRecords
    <3>1. bkRun' = bkRun \/ bkRun' = [Idle EXCEPT !.pc = "begin", !.src = s]
      BY <2>11 DEF BackupFile
    <3> QED
      BY <2>0, <2>1, <3>1 DEF RunRecords, RunPcs
  <2>12. CASE UNCHANGED bkRun
    BY <2>0, <2>12
  <2> QED
    BY <2>3, <2>4, <2>5, <2>6, <2>7, <2>8, <2>9, <2>10, <2>11, <2>12
       DEF BackupNext, Window, HandleBackupProgressDialog, PressCancel, ReloadEntries, DeleteEntry, EditEntry
<1>5. bkDisk' \in [Places -> SUBSET Folders]
  <2>1. CASE UNCHANGED bkDisk
    BY <1>2, <2>1
  <2>2. ASSUME NEW f, Copy \/ Rotation \/ Compress, bkDisk' = [bkDisk EXCEPT ![Place] = @ \ {f}]
        PROVE  bkDisk' \in [Places -> SUBSET Folders]
    BY <1>2, <2>2
  <2>3. ASSUME NEW f, NEW g \in Folders, bkDisk' = [bkDisk EXCEPT ![Place] = (@ \ {f}) \cup {g}]
        PROVE  bkDisk' \in [Places -> SUBSET Folders]
    BY <1>2, <2>3
  <2>4. ASSUME NEW g \in Folders, bkDisk' = [bkDisk EXCEPT ![Place] = @ \cup {g}]
        PROVE  bkDisk' \in [Places -> SUBSET Folders]
    BY <1>2, <2>4
  <2>5. CASE Rotation
    BY <2>1, <2>2, <2>5 DEF Rotation, BackupRotation
  <2>6. CASE CreateFolder
    <3>1. bkRun.src \in Sources
      BY <2>6 DEF CreateFolder, Step, BackupInv, RunInv
    <3>2. [src |-> bkRun.src, at |-> bkNow, n |-> 0, bad |-> FALSE] \in Folders
      BY <1>2, <3>1 DEF Folders
    <3> QED
      BY <2>1, <2>4, <2>6, <3>2 DEF CreateFolder
  <2>7. CASE Copy
    <3>1. AtPlace
      BY <2>7 DEF Copy, Step, AtPlace
    <3>2. Folder \in Folders
      BY <3>1, FolderIs
    <3>3. ASSUME NEW bad \in BOOLEAN
          PROVE  [Folder EXCEPT !.n = @ + 1, !.bad = @ \/ bad] \in Folders
      <4>1. \A n \in Nat, b \in BOOLEAN : [Folder EXCEPT !.n = n, !.bad = b] \in Folders
        BY <3>2 DEF Folders
      <4>2. Folder.n + 1 \in Nat
        BY <3>2 DEF Folders
      <4>3. (Folder.bad \/ bad) \in BOOLEAN
        OBVIOUS
      <4> QED
        BY <4>1, <4>2, <4>3
    <3> QED
      BY <2>3, <2>7, <3>3 DEF Copy
  <2>8. CASE Compress
    BY <2>1, <2>2, <2>8 DEF Compress
  <2> QED
    BY <2>1, <2>5, <2>6, <2>7, <2>8
       DEF BackupNext, InvalidSource, Begin, Uncancel, Rotated, Cancelled, Leave, CopyFails, CopyThrows,
           ItemsCopied, Hash, End, Window, HandleBackupProgressDialog, PressCancel, ReloadEntries,
           BackupFile, DeleteEntry, EditEntry
<1>6. bkGood' \in [Sources -> [Places -> Nat]] /\ bkSince' \in [Sources -> [Places -> Nat]]
  <2>1. CASE Rotation
    <3>1. /\ bkGood' = bkGood
          /\ bkSince' = [s \in Sources |-> IF s = bkRun.src \/ <<bkRun.src, s>> \in PrefixOf
                                           THEN [bkSince[s] EXCEPT ![Place] = @ + 1] ELSE bkSince[s]]
      BY <2>1 DEF Rotation, BackupRotation
    <3>2. ASSUME NEW s \in Sources
          PROVE  [bkSince[s] EXCEPT ![Place] = @ + 1] \in [Places -> Nat]
      <4>1. bkSince[s] \in [Places -> Nat]
        BY <1>2
      <4>2. \A d \in Places : bkSince[s][d] + 1 \in Nat
        BY <4>1
      <4> QED
        BY <4>1, <4>2
    <3> QED
      BY <1>2, <3>1, <3>2
  <2>2. ASSUME NEW n \in Nat
        PROVE  /\ [bkGood EXCEPT ![bkRun.src][Place] = n] \in [Sources -> [Places -> Nat]]
               /\ [bkSince EXCEPT ![bkRun.src][Place] = n] \in [Sources -> [Places -> Nat]]
    BY <1>2
  <2>3. CASE Hash
    BY <1>2, <2>2, <2>3 DEF Hash
  <2>4. CASE Compress
    <3>1. /\ bkSince' = bkSince
          /\ bkGood' = bkGood \/ bkGood' = [bkGood EXCEPT ![bkRun.src][Place] = 0]
      BY <2>4 DEF Compress
    <3>2. 0 \in Nat
      OBVIOUS
    <3> QED
      BY <1>2, <2>2, <3>1, <3>2
  <2>5. ASSUME UNCHANGED <<bkGood, bkSince>>
        PROVE  bkGood' \in [Sources -> [Places -> Nat]] /\ bkSince' \in [Sources -> [Places -> Nat]]
    BY <1>2, <2>5
  <2> QED
    BY <2>1, <2>3, <2>4, <2>5
       DEF BackupNext, InvalidSource, Begin, Uncancel, Rotated, Cancelled, Leave, CreateFolder, Copy,
           Copies, CopyFails, CopyThrows, ItemsCopied, End, Window, HandleBackupProgressDialog,
           PressCancel, ReloadEntries, BackupFile, DeleteEntry, EditEntry
<1> QED
  BY <1>1, <1>3, <1>4, <1>5, <1>6 DEF BackupType, bkConfig

LEMMA InitBackup == BackupInit => BackupInv
<1> SUFFICES ASSUME BackupInit PROVE BackupInv
  OBVIOUS
<1>1. bkRun = Idle /\ bkRun.pc = "idle" /\ ~AtPlace /\ ~InLoop
  BY DEF BackupInit, Idle, AtPlace, InLoop
<1>2. BackupType
  <2>1. bkRun \in RunRecords
    BY <1>1 DEF Idle, RunRecords, RunPcs
  <2>2. bkMax \in [Sources -> Nat] /\ bkHash \in [Sources -> BOOLEAN] /\ bkZip \in [Sources -> BOOLEAN]
    BY BackupAssumption DEF BackupInit
  <2> QED
    BY <2>1, <2>2 DEF BackupInit, BackupType
<1>3. DiskInv
  BY FS_EmptySet DEF BackupInit, DiskInv
<1>4. RunInv /\ DialogInv /\ CompleteInv
  BY <1>1 DEF BackupInit, RunInv, DialogInv, EndHasReason, CompleteInv, CompletedIsComplete
<1>5. KeptInv
  BY DEF BackupInit, KeptInv, KeptAt
<1> QED
  BY <1>2, <1>3, <1>4, <1>5 DEF BackupInv

(* A step that leaves the disk alone and is at no folder afterwards. *)
LEMMA QuietStep ==
  ASSUME BackupInv, BackupType', UNCHANGED <<bkDisk, bkGood, bkSince, bkMax>>, bkNow' >= bkNow,
         ~AtPlace', bkRun'.pc # "idle" => bkRun'.src \in Sources,
         bkRun'.pc \in {"rotate", "folder"} => bkRun'.to >= 1, bkRun'.pc = "end" => bkRun'.fail,
         \A d \in Places : HasRotated(d)' => HasRotated(d) /\ bkRun'.src = bkRun.src /\ bkNow' = bkNow,
         DialogInv', CompleteInv'
  PROVE  BackupInv'
<1>1. DiskInv'
  <2>1. bkNow \in Nat /\ bkNow' \in Nat /\ \A d \in Places : \A f \in bkDisk[d] : f.at \in Nat
    <3>1. \A d \in Places : bkDisk[d] \subseteq Folders
      BY DEF BackupInv, BackupType
    <3> QED
      BY <3>1 DEF BackupInv, BackupType, Folders
  <2>2. \A d \in Places : \A f \in bkDisk[d] : f.at <= bkNow'
    BY <2>1 DEF BackupInv, DiskInv
  <2> QED
    BY <2>2 DEF BackupInv, DiskInv
<1>2. RunInv'
  BY DEF RunInv, AtPlace, InLoop
<1>3. KeptInv'
  <2> SUFFICES ASSUME NEW s \in Sources, NEW d \in Places
               PROVE  KeptAt(s, d)'
    BY DEF KeptInv
  <2>1. \A f \in bkDisk[d] : f.src = s /\ f.at > bkGood[s][d] => f.at \in Newer(s, d)
    BY DEF Newer
  <2> QED
    BY <2>1, KeptStays
<1> QED
  BY <1>1, <1>2, <1>3 DEF BackupInv

(* A run that begins, is refused, begins to rotate or to copy, or ends.      *)
LEMMA TurnStep ==
  ASSUME BackupInv, BackupNext, InvalidSource \/ Begin \/ Uncancel \/ Rotated
  PROVE  BackupInv'
<1>1. BackupType /\ BackupType' /\ bkRun \in RunRecords
  BY TypeStep DEF BackupInv, BackupType
<1>2. /\ UNCHANGED <<bkDisk, bkGood, bkSince, bkTold, bkAlive, bkThrew>>
      /\ bkMax' = bkMax /\ bkHash' = bkHash /\ bkZip' = bkZip /\ bkNow' = bkNow /\ bkNow \in Nat
  BY <1>1, Frame DEF BackupType, InvalidSource, Begin, Uncancel, Rotated, RunSteps
<1>3. /\ bkRun.pc # "idle" /\ bkRun.pc # "end" /\ ~AtPlace /\ ~InLoop /\ bkRun.src \in Sources
      /\ \/ bkRun' = Idle /\ bkRun.pc = "begin" /\ UNCHANGED <<bkShow, bkCancelled>>
         \/ bkRun' = [bkRun EXCEPT !.pc = "uncancel"]
         \/ bkRun' = [bkRun EXCEPT !.pc = "rotate", !.to = 1]
         \/ /\ bkRun.pc = "rotate" /\ bkRun.to > Len(Destinations[bkRun.src])
            /\ bkRun' = [bkRun EXCEPT !.pc = "folder", !.to = 1]
  BY DEF InvalidSource, Begin, Uncancel, Rotated, Step, AtPlace, InLoop, BackupInv, RunInv
<1>4. \/ bkRun' = Idle /\ bkRun'.pc = "idle" /\ bkRun.pc = "begin" /\ UNCHANGED <<bkShow, bkCancelled>>
      \/ bkRun'.pc = "uncancel" /\ bkRun'.src = bkRun.src
      \/ bkRun'.pc = "rotate" /\ bkRun'.src = bkRun.src /\ bkRun'.to = 1
      \/ /\ bkRun.pc = "rotate" /\ bkRun.to > Len(Destinations[bkRun.src])
         /\ bkRun'.pc = "folder" /\ bkRun'.src = bkRun.src /\ bkRun'.to = 1
  <2>1. Idle.pc = "idle"
    BY DEF Idle
  <2>2. [bkRun EXCEPT !.pc = "uncancel"].pc = "uncancel" /\ [bkRun EXCEPT !.pc = "uncancel"].src = bkRun.src
    BY <1>1 DEF RunRecords
  <2>3. \A step \in {"rotate", "folder"} :
          /\ [bkRun EXCEPT !.pc = step, !.to = 1].pc = step
          /\ [bkRun EXCEPT !.pc = step, !.to = 1].src = bkRun.src
          /\ [bkRun EXCEPT !.pc = step, !.to = 1].to = 1
    BY <1>1 DEF RunRecords
  <2> QED
    BY <1>3, <2>1, <2>2, <2>3
<1>5. DialogInv'
  BY <1>2, <1>3, <1>4 DEF BackupInv, DialogInv, EndHasReason
<1>6. \A i \in DOMAIN Destinations[bkRun.src] : i \in Nat /\ i >= 1 /\ i <= Len(Destinations[bkRun.src])
  BY <1>3, DomainIs
<1>7. CompleteInv'
  <2>1. bkTold' # "completed"
    BY <1>2, <1>3 DEF BackupInv, CompleteInv
  <2>2. ~AtPlace'
    BY <1>4 DEF AtPlace
  <2>3. InLoop' => bkRun'.to = 1 /\ bkRun'.src = bkRun.src
    BY <1>4, <2>2 DEF InLoop
  <2> QED
    BY <1>6, <2>1, <2>3 DEF CompleteInv, CompletedIsComplete
<1>8. ASSUME NEW d \in Places, HasRotated(d)'
      PROVE  HasRotated(d) /\ bkRun'.src = bkRun.src
  <2>1. CASE bkRun'.pc = "rotate"
    BY <1>4, <1>6, <1>8, <2>1 DEF HasRotated, InLoop, AtPlace
  <2>2. CASE bkRun'.pc # "rotate"
    <3>1. /\ bkRun.pc = "rotate" /\ bkRun.to > Len(Destinations[bkRun.src]) /\ bkRun'.src = bkRun.src
          /\ Uses(bkRun.src, d)
      BY <1>4, <1>8, <2>2 DEF HasRotated, InLoop, AtPlace
    <3>2. bkRun.to \in Nat
      BY <1>1 DEF RunRecords
    <3> QED
      BY <1>3, <1>6, <3>1, <3>2, BackupAssumption DEF HasRotated, Uses
  <2> QED
    BY <2>1, <2>2
<1>9. /\ ~AtPlace' /\ (bkRun'.pc # "idle" => bkRun'.src \in Sources)
      /\ (bkRun'.pc \in {"rotate", "folder"} => bkRun'.to >= 1) /\ bkRun'.pc # "end"
  BY <1>3, <1>4 DEF AtPlace
<1> QED
  BY <1>1, <1>2, <1>5, <1>7, <1>8, <1>9, QuietStep

(* A run that leaves the destinations: cancelled, thrown out of, or done; or *)
(* that could not make its folder.                                           *)
LEMMA LeaveStep ==
  ASSUME BackupInv, BackupNext, UNCHANGED bkDisk, Cancelled \/ CreateFolder \/ CopyThrows \/ End,
         bkRun'.pc # "copy"
  PROVE  BackupInv'
<1>1. BackupType /\ BackupType' /\ bkRun \in RunRecords
  BY TypeStep DEF BackupInv, BackupType
<1>2. /\ UNCHANGED <<bkDisk, bkGood, bkSince, bkAlive>>
      /\ bkMax' = bkMax /\ bkHash' = bkHash /\ bkZip' = bkZip /\ bkNow' = bkNow /\ bkNow \in Nat
      /\ bkRun.src \in Sources /\ bkRun.pc # "idle" /\ bkTold # "completed"
  <2>1. bkRun.pc \in {"folder", "copy", "end"}
    BY DEF Cancelled, CreateFolder, CopyThrows, End, Step
  <2>2. UNCHANGED <<bkDisk, bkGood, bkSince, bkAlive>>
    BY DEF Cancelled, Leave, CreateFolder, Copies, CopyThrows, End
  <2>3. bkRun.src \in Sources /\ bkRun.pc # "idle" /\ bkTold # "completed"
    BY <2>1 DEF BackupInv, RunInv, CompleteInv
  <2> QED
    BY <1>1, <2>2, <2>3, Frame DEF RunSteps, BackupType
<1>3. CASE Cancelled
  <2>1. bkRun' = Done /\ bkCancelled' /\ UNCHANGED <<bkShow, bkTold, bkThrew>>
    BY <1>3 DEF Cancelled, Leave
  <2>2. bkRun'.pc = "idle"
    BY <2>1 DEF Done, Idle
  <2>3. DialogInv'
    BY <1>2, <2>1 DEF BackupInv, DialogInv, EndHasReason
  <2>4. CompleteInv'
    BY <1>2, <2>1, <2>2 DEF CompleteInv, CompletedIsComplete, InLoop, AtPlace
  <2> QED
    BY <1>1, <1>2, <2>2, <2>3, <2>4, QuietStep DEF AtPlace, HasRotated, InLoop
<1>4. CASE CreateFolder
  <2>1. bkRun' = [bkRun EXCEPT !.pc = "end", !.fail = TRUE] /\ UNCHANGED <<bkShow, bkCancelled, bkTold, bkThrew>>
    <3>1. bkRun' = [bkRun EXCEPT !.pc = "copy", !.item = 0] => bkRun'.pc = "copy"
      BY <1>1 DEF RunRecords
    <3> QED
      BY <1>4, <3>1 DEF CreateFolder, Copies
  <2>2. bkRun'.pc = "end" /\ bkRun'.fail /\ bkRun'.src = bkRun.src
    BY <1>1, <2>1 DEF RunRecords
  <2>3. DialogInv'
    BY <1>2, <2>1, <2>2 DEF BackupInv, DialogInv, EndHasReason
  <2>4. CompleteInv'
    BY <1>2, <2>1, <2>2 DEF CompleteInv, CompletedIsComplete, InLoop, AtPlace
  <2> QED
    BY <1>1, <1>2, <2>2, <2>3, <2>4, QuietStep DEF AtPlace, HasRotated, InLoop
<1>5. CASE CopyThrows
  <2>1. bkRun' = Idle /\ bkThrew' /\ UNCHANGED <<bkShow, bkCancelled, bkTold>>
    BY <1>5 DEF CopyThrows
  <2>2. bkRun'.pc = "idle"
    BY <2>1 DEF Idle
  <2>3. DialogInv'
    BY <1>2, <2>1 DEF BackupInv, DialogInv, EndHasReason
  <2>4. CompleteInv'
    BY <1>2, <2>1, <2>2 DEF CompleteInv, CompletedIsComplete, InLoop, AtPlace
  <2> QED
    BY <1>1, <1>2, <2>2, <2>3, <2>4, QuietStep DEF AtPlace, HasRotated, InLoop
<1>6. CASE End
  <2>1. /\ bkRun' = Done /\ bkShow' = FALSE /\ bkThrew' = bkThrew
        /\ bkTold' = IF bkRun.fail THEN "failed" ELSE "completed"
        /\ \/ bkRun.pc = "end"
           \/ bkRun.pc = "folder" /\ bkRun.to > Len(Destinations[bkRun.src])
    BY <1>6 DEF End, Step
  <2>2. bkRun'.pc = "idle" /\ bkRun'.src = bkRun.src
    BY <2>1 DEF Done, Idle
  <2>3. DialogInv'
    BY <1>2, <2>1 DEF BackupInv, DialogInv, EndHasReason
  <2>4. ASSUME bkTold' = "completed", bkHash[bkRun.src], ~bkZip[bkRun.src]
        PROVE  Complete(bkRun.src)
    <3>1. ~bkRun.fail
      BY <2>1, <2>4
    <3>2. bkRun.pc = "folder" /\ bkRun.to > Len(Destinations[bkRun.src])
      BY <2>1, <3>1 DEF BackupInv, RunInv
    <3>3. \A i \in DOMAIN Destinations[bkRun.src] : i < bkRun.to => HasWhole(bkRun.src, Destinations[bkRun.src][i])
      BY <2>4, <3>1, <3>2 DEF BackupInv, CompleteInv, InLoop
    <3>4. bkRun.to \in Nat /\ Len(Destinations[bkRun.src]) \in Nat
      <4>1. bkRun.to \in Nat
        BY <1>1 DEF RunRecords
      <4> QED
        BY <1>2, <4>1, BackupAssumption
    <3> QED
      BY <1>2, <3>2, <3>3, <3>4, DomainIs DEF Complete, HasWhole
  <2>5. CompleteInv'
    BY <1>2, <2>2, <2>4 DEF CompleteInv, CompletedIsComplete, InLoop, AtPlace, Complete
  <2> QED
    BY <1>1, <1>2, <2>2, <2>3, <2>5, QuietStep DEF AtPlace, HasRotated, InLoop
<1> QED
  BY <1>3, <1>4, <1>5, <1>6

(* The main window, and the next run.                                        *)
LEMMA WindowStep ==
  ASSUME BackupInv, BackupNext, WindowSteps
  PROVE  BackupInv'
<1>1. BackupType /\ BackupType'
  BY TypeStep DEF BackupInv
<1>2. /\ UNCHANGED <<bkMax, bkHash, bkZip, bkDisk, bkNow, bkRun, bkTold, bkAlive, bkThrew, bkGood, bkSince>>
      /\ bkShow' = bkShow /\ (bkCancelled => bkCancelled')
  <2>1. Window
    BY <1>1, Frame
  <2>2. bkShow' = bkShow
    BY DEF WindowSteps, HandleBackupProgressDialog, PressCancel, ReloadEntries, DeleteEntry, EditEntry
  <2>3. CASE HandleBackupProgressDialog
    <3>1. PICK shown : bkCancelled' = (bkCancelled \/ shown = "cancel")
      BY <2>3, Zenon DEF HandleBackupProgressDialog
    <3>2. bkCancelled => bkCancelled'
      BY <3>1, Zenon
    <3> QED
      BY <2>1, <2>2, <3>2 DEF Window, bkConfig
  <2>4. CASE UNCHANGED bkCancelled
    BY <2>1, <2>2, <2>4 DEF Window, bkConfig
  <2> QED
    BY <2>3, <2>4 DEF WindowSteps, PressCancel, ReloadEntries, DeleteEntry, EditEntry
<1>3. DiskInv' /\ KeptInv' /\ DialogInv'
  BY <1>2, KeptUnchanged DEF BackupInv, DiskInv, DialogInv, EndHasReason
<1>4. RunInv' /\ CompleteInv'
  BY <1>2 DEF BackupInv, RunInv, InLoop, AtPlace, Mine, Folder, Place, CompleteInv, CompletedIsComplete,
              Complete, HasWhole
<1> QED
  BY <1>1, <1>3, <1>4 DEF BackupInv

LEMMA BackupFileStep ==
  ASSUME BackupInv, BackupNext, NEW s \in Sources, BackupFile(s)
  PROVE  BackupInv'
<1>1. BackupType /\ BackupType'
  BY TypeStep DEF BackupInv
<1>2. /\ UNCHANGED <<bkDisk, bkGood, bkSince, bkShow, bkCancelled, bkThrew>> /\ bkMax' = bkMax /\ bkNow' >= bkNow
      /\ bkRun.pc = "idle" /\ bkTold' = "none"
      /\ \/ bkThrew /\ bkRun' = bkRun
         \/ bkAlive' = bkAlive /\ bkRun' = [Idle EXCEPT !.pc = "begin", !.src = s]
  BY <1>1, Frame DEF BackupFile
<1>3. \/ bkThrew /\ bkRun'.pc = "idle"
      \/ bkAlive' = bkAlive /\ bkRun'.pc = "begin" /\ bkRun'.src = s
  BY <1>2 DEF Idle
<1>4. ~AtPlace' /\ ~InLoop' /\ \A d \in Places : ~HasRotated(d)'
  BY <1>3 DEF AtPlace, InLoop, HasRotated
<1>5. DialogInv'
  BY <1>2, <1>3 DEF BackupInv, DialogInv, EndHasReason
<1>6. CompleteInv'
  BY <1>2, <1>4 DEF CompleteInv, CompletedIsComplete
<1> QED
  BY <1>1, <1>2, <1>3, <1>4, <1>5, <1>6, QuietStep

(* One more element is at most one more. *)
LEMMA OneMore ==
  ASSUME NEW S, IsFiniteSet(S), NEW e
  PROVE  /\ IsFiniteSet(S \cup {e}) /\ Cardinality(S) \in Nat /\ Cardinality(S \cup {e}) \in Nat
         /\ Cardinality(S \cup {e}) <= Cardinality(S) + 1
<1>1. IsFiniteSet(S \cup {e}) /\ Cardinality(S \cup {e}) \in {Cardinality(S), Cardinality(S) + 1}
  BY FS_AddElement
<1>2. Cardinality(S) \in Nat
  BY FS_CardinalityType
<1> QED
  BY <1>1, <1>2

(* What a rotation removes is not the good folder of a source alone in the   *)
(* destination: with max_backups folders there, one of them is older.        *)
LEMMA GoodStays ==
  ASSUME BackupInv, NEW s \in Sources, NEW d \in Places, NEW f \in bkDisk[d],
         Alone(s, d), bkGood[s][d] # 0, bkSince[s][d] + 1 < bkMax[s],
         Cardinality(Matching(s, d)) >= bkMax[s], IsGood(f, s, d)
  PROVE  OldestFirst(Matching(s, d)) # f
<1> DEFINE old == Matching(s, d)
           at == [g \in old |-> g.at]
           times == Newer(s, d) \cup {bkGood[s][d]}
<1>1. BackupType /\ DiskInv /\ bkDisk[d] \subseteq Folders
  BY DEF BackupInv, BackupType
<1>2. bkSince[s][d] \in Nat /\ bkMax[s] \in Nat
  BY <1>1 DEF BackupType
<1>3. Cardinality(Newer(s, d)) <= bkSince[s][d]
  BY <1>2 DEF BackupInv, KeptInv, KeptAt
<1>4. old \subseteq bkDisk[d] /\ f \in old
  BY DEF Matching, IsGood
<1>5. \A g \in old : g.src = s
  <2> SUFFICES ASSUME NEW g \in old, g.src # s PROVE FALSE
    OBVIOUS
  <2>1. <<s, g.src>> \in PrefixOf /\ g \in bkDisk[d]
    BY DEF Matching
  <2>2. g.src \in Sources /\ Uses(g.src, d)
    BY <1>1, <2>1 DEF Folders, DiskInv
  <2> QED
    BY <2>1, <2>2 DEF Alone, Uses
<1>6. SUFFICES ASSUME \A g \in old \ {f} : FirstByName(f, g)
               PROVE  FALSE
  BY <1>1, <1>4, FirstExists
<1>7. ASSUME NEW g \in old
      PROVE  g.at \in times
  <2>1. CASE g = f
    BY <2>1 DEF IsGood
  <2>2. CASE g # f
    <3>1. f.at < g.at
      <4>1. FirstByName(f, g)
        BY <1>6, <2>2
      <4>2. g.src = s /\ f.src = s /\ OrderOf[s] \in Nat
        BY <1>4, <1>5, BackupAssumption
      <4> QED
        BY <4>1, <4>2 DEF FirstByName
    <3> QED
      BY <1>4, <1>5, <3>1 DEF Newer, IsGood
  <2> QED
    BY <2>1, <2>2
<1>8. at \in Injection(old, times)
  <2>1. at \in [old -> times]
    BY <1>7
  <2>2. \A g, h \in old : g.at = h.at => g = h
    BY <1>1, <1>4, <1>5 DEF DiskInv
  <2> QED
    BY <2>1, <2>2 DEF Injection, IsInjective
<1>9. IsFiniteSet(times) /\ Cardinality(times) <= Cardinality(Newer(s, d)) + 1 /\ Cardinality(times) \in Nat
  BY NewerIsFinite, OneMore
<1>10. IsFiniteSet(Newer(s, d)) /\ Cardinality(Newer(s, d)) \in Nat
  BY NewerIsFinite
<1> HIDE DEF old, at, times
<1>11. Cardinality(old) <= Cardinality(times)
  BY <1>8, <1>9, FS_Injection
<1>12. Cardinality(old) >= bkMax[s] /\ Cardinality(old) \in Nat
  <2>1. IsFiniteSet(old)
    BY <1>8, <1>9, FS_Injection
  <2> QED
    BY <2>1, FS_CardinalityType DEF old
<1> QED
  BY <1>2, <1>3, <1>9, <1>10, <1>11, <1>12

(* A rotation: one folder less, one rotation more. *)
LEMMA RotationStep ==
  ASSUME BackupInv, BackupNext, Rotation
  PROVE  BackupInv'
<1> DEFINE me == bkRun.src
           old == Matching(me, Place)
           x == OldestFirst(old)
<1>1. BackupType /\ BackupType' /\ bkRun \in RunRecords /\ DiskInv
  BY TypeStep DEF BackupInv, BackupType
<1>2. /\ bkRun.pc = "rotate" /\ me \in Sources /\ bkRun.to \in Nat /\ bkRun.to >= 1
      /\ bkRun.to <= Len(Destinations[me])
  BY <1>1 DEF Rotation, BackupRotation, Step, BackupInv, RunInv, RunRecords
<1>3. Place \in Places /\ Uses(me, Place)
  BY <1>2, PlaceIs DEF Place, Uses
<1>4. /\ UNCHANGED <<bkShow, bkCancelled, bkTold, bkThrew, bkGood>>
      /\ bkMax' = bkMax /\ bkHash' = bkHash /\ bkZip' = bkZip /\ bkNow' = bkNow /\ bkNow \in Nat
      /\ bkTold # "completed"
  BY <1>1, <1>2, Frame DEF Rotation, BackupRotation, RunSteps, BackupType, BackupInv, CompleteInv
<1>5. bkRun' = bkRun \/ bkRun' = [bkRun EXCEPT !.to = bkRun.to + 1]
  BY DEF Rotation, BackupRotation
<1>6. bkRun'.pc = "rotate" /\ bkRun'.src = me /\ bkRun'.to \in {bkRun.to, bkRun.to + 1}
  BY <1>1, <1>2, <1>5 DEF RunRecords
<1>7. \/ UNCHANGED bkDisk
      \/ /\ bkDisk' = [bkDisk EXCEPT ![Place] = @ \ {x}]
         /\ old # {} /\ Cardinality(old) >= bkMax[me]
  BY DEF Rotation, BackupRotation
<1>8. \A s \in Sources : bkSince'[s] = IF s = me \/ <<me, s>> \in PrefixOf
                                       THEN [bkSince[s] EXCEPT ![Place] = @ + 1] ELSE bkSince[s]
  BY DEF Rotation, BackupRotation
<1>9. old # {} => x \in old
  BY <1>1, <1>3, FirstExists DEF Matching
<1>10. ASSUME NEW d \in Places
       PROVE  /\ bkDisk'[d] \subseteq bkDisk[d] /\ (d # Place => bkDisk'[d] = bkDisk[d])
              /\ \A f \in bkDisk[d] : f # x \/ bkDisk' = bkDisk => f \in bkDisk'[d]
  <2>1. bkDisk \in [Places -> SUBSET Folders]
    BY <1>1 DEF BackupType
  <2> HIDE DEF x, old
  <2> QED
    BY <1>7, <2>1
<1>11. DiskInv'
  BY <1>1, <1>4, <1>10, FS_Subset DEF DiskInv
<1>12. RunInv'
  BY <1>2, <1>6 DEF RunInv, InLoop, AtPlace
<1>13. DialogInv'
  <2>1. bkAlive' = bkAlive \/ (old = {} /\ Cardinality(old) >= bkMax[me])
    BY DEF Rotation, BackupRotation
  <2>2. CASE bkAlive' = bkAlive
    BY <1>4, <1>6, <2>2 DEF BackupInv, DialogInv, EndHasReason
  <2>3. CASE old = {} /\ Cardinality(old) >= bkMax[me]
    <3>1. bkMax[me] = 0
      <4>1. Cardinality(old) = 0 /\ bkMax[me] \in Nat
        BY <1>1, <1>2, <2>3, FS_EmptySet DEF BackupType
      <4> HIDE DEF old, me
      <4> QED
        BY <2>3, <4>1
    <3> QED
      BY <1>2, <1>4, <1>6, <3>1 DEF DialogInv, EndHasReason
  <2> QED
    BY <2>1, <2>2, <2>3
<1>14. CompleteInv'
  BY <1>4, <1>6 DEF CompleteInv, CompletedIsComplete, InLoop, AtPlace
<1>15. ASSUME NEW s \in Sources, NEW d \in Places
       PROVE  KeptAt(s, d)'
  <2>1. \A f \in bkDisk'[d] : f.src = s /\ f.at > bkGood[s][d] => f.at \in Newer(s, d)
    BY <1>10 DEF Newer
  <2>2. ASSUME HasRotated(d)', d # Place
        PROVE  HasRotated(d)
    <3>1. PICK i \in DOMAIN Destinations[me] : i < bkRun'.to /\ Destinations[me][i] = d
      BY <1>6, <2>2 DEF HasRotated, InLoop, AtPlace
    <3>2. i # bkRun.to /\ i \in Nat
      BY <1>2, <2>2, <3>1, DomainIs DEF Place
    <3>3. i < bkRun.to
      BY <1>2, <1>6, <3>1, <3>2
    <3> QED
      BY <1>2, <3>1, <3>3 DEF HasRotated
  <2>3. CASE d # Place
    <3>1. bkSince'[s][d] = bkSince[s][d]
      <4>1. bkSince[s] \in [Places -> Nat]
        BY <1>1 DEF BackupType
      <4>2. [bkSince[s] EXCEPT ![Place] = @ + 1][d] = bkSince[s][d]
        BY <2>3, <4>1
      <4> QED
        BY <1>8, <4>2
    <3>2. \A f \in bkDisk[d] : f \in bkDisk'[d]
      BY <1>10, <2>3
    <3> QED
      BY <1>4, <1>6, <2>1, <2>2, <2>3, <3>1, <3>2, KeptStays
  <2>4. CASE d = Place /\ s # me /\ <<me, s>> \in PrefixOf
    <3>1. ~Alone(s, d)
      BY <1>2, <1>3, <2>4 DEF Alone, Uses
    <3> QED
      BY <3>1 DEF KeptAt
  <2>5. CASE d = Place /\ s # me /\ <<me, s>> \notin PrefixOf
    <3>1. bkSince'[s][d] = bkSince[s][d]
      BY <1>8, <2>5
    <3>2. \A f \in bkDisk[d] : f.src = s => f \in bkDisk'[d]
      <4>1. old # {} => x.src # s
        BY <1>9, <2>5 DEF Matching
      <4> HIDE DEF x, old
      <4> QED
        BY <1>7, <1>10, <4>1
    <3> QED
      BY <1>4, <1>6, <2>1, <2>5, <3>1, <3>2, KeptStays DEF IsGood
  <2>6. CASE d = Place /\ s = me
    <3> SUFFICES ASSUME Alone(s, d), bkGood[s][d] # 0, bkSince[s][d] + 1 < bkMax[s]
                 PROVE  /\ \E f \in bkDisk'[d] : IsGood(f, s, d)
                        /\ Cardinality(Newer(s, d)') <= bkSince[s][d] + 1
      <4>1. bkSince'[s][d] = bkSince[s][d] + 1
        <5>1. bkSince[s] \in [Places -> Nat]
          BY <1>1 DEF BackupType
        <5>2. bkSince'[s] = [bkSince[s] EXCEPT ![Place] = @ + 1]
          BY <1>8, <2>6
        <5> QED
          BY <2>6, <5>1, <5>2
      <4> QED
        BY <1>4, <4>1 DEF KeptAt, IsGood
    <3>1. bkSince[s][d] \in Nat /\ bkMax[s] \in Nat
      BY <1>1 DEF BackupType
    <3>2. /\ \E f \in bkDisk[d] : IsGood(f, s, d)
          /\ Cardinality(Newer(s, d)) <= bkSince[s][d]
      BY <3>1 DEF BackupInv, KeptInv, KeptAt
    <3>3. \E f \in bkDisk'[d] : IsGood(f, s, d)
      <4>1. PICK f \in bkDisk[d] : IsGood(f, s, d)
        BY <3>2
      <4>2. UNCHANGED bkDisk \/ f # x
        BY <1>7, <2>6, <4>1, GoodStays
      <4> HIDE DEF x, old
      <4> QED
        BY <1>10, <4>1, <4>2
    <3>4. Newer(s, d)' \subseteq Newer(s, d) \cup {bkNow}
      BY <1>4, <2>1 DEF Newer
    <3>5. IsFiniteSet(Newer(s, d)) /\ Cardinality(Newer(s, d)) \in Nat
      BY NewerIsFinite
    <3>6. /\ IsFiniteSet(Newer(s, d) \cup {bkNow})
          /\ Cardinality(Newer(s, d) \cup {bkNow}) <= Cardinality(Newer(s, d)) + 1
          /\ Cardinality(Newer(s, d) \cup {bkNow}) \in Nat
      BY <3>5, OneMore
    <3>7. Cardinality(Newer(s, d)') <= Cardinality(Newer(s, d) \cup {bkNow}) /\ Cardinality(Newer(s, d)') \in Nat
      BY <3>4, <3>6, FS_Subset, FS_CardinalityType
    <3> QED
      BY <3>1, <3>2, <3>3, <3>5, <3>6, <3>7
  <2> QED
    BY <2>3, <2>4, <2>5, <2>6
<1> QED
  BY <1>1, <1>11, <1>12, <1>13, <1>14, <1>15 DEF BackupInv, KeptInv

(* The folder of the run after a step at the same destination. *)
LEMMA NextFolder ==
  ASSUME NEW f, bkRun'.src = bkRun.src, bkRun'.to = bkRun.to, bkNow' = bkNow,
         f \in bkDisk'[Place], f.src = bkRun.src, f.at = bkNow,
         \A g \in bkDisk'[Place] : g.src = bkRun.src /\ g.at = bkNow => g = f
  PROVE  Place' = Place /\ Folder' = f /\ Mine(Folder)'
<1>1. Place' = Place
  BY DEF Place
<1>2. Folder' \in bkDisk'[Place] /\ Folder'.src = bkRun.src /\ Folder'.at = bkNow
  BY <1>1 DEF Folder
<1> QED
  BY <1>1, <1>2 DEF Mine

(* What the steps at one destination have in common. *)
LEMMA LoopFacts ==
  ASSUME BackupInv, BackupNext, RunSteps, InLoop, bkTold' = bkTold, bkAlive' = bkAlive,
         UNCHANGED <<bkShow, bkCancelled, bkThrew>>,
         bkRun'.pc \notin {"idle", "begin", "rotate"}, bkRun'.src = bkRun.src
  PROVE  /\ BackupType /\ BackupType' /\ bkRun \in RunRecords /\ DialogInv'
         /\ bkMax' = bkMax /\ bkHash' = bkHash /\ bkZip' = bkZip /\ bkNow' = bkNow /\ bkNow \in Nat
         /\ bkRun.src \in Sources /\ bkTold # "completed" /\ bkTold' # "completed"
         /\ \A d : HasRotated(d)' => HasRotated(d)
<1>1. BackupType /\ BackupType' /\ bkRun \in RunRecords
  BY TypeStep DEF BackupInv, BackupType
<1>2. bkMax' = bkMax /\ bkHash' = bkHash /\ bkZip' = bkZip /\ bkNow' = bkNow /\ bkNow \in Nat
  BY <1>1, Frame DEF BackupType
<1>3. bkRun.pc # "idle" /\ bkRun.src \in Sources
  BY DEF InLoop, AtPlace, BackupInv, RunInv
<1>4. bkTold # "completed" /\ bkTold' # "completed"
  BY <1>3 DEF BackupInv, CompleteInv
<1>5. DialogInv'
  BY <1>2 DEF BackupInv, DialogInv, EndHasReason
<1>6. \A d : HasRotated(d)' => HasRotated(d)
  BY DEF HasRotated
<1> QED
  BY <1>1, <1>2, <1>3, <1>4, <1>5, <1>6

(* The new folder was counted when the destination was rotated. *)
LEMMA CreateStep ==
  ASSUME BackupInv, BackupNext, CreateFolder, bkRun' = [bkRun EXCEPT !.pc = "copy", !.item = 0]
  PROVE  BackupInv'
<1>1. /\ bkRun.pc = "folder" /\ InLoop /\ bkRun \in RunRecords /\ BackupType
      /\ UNCHANGED <<bkShow, bkCancelled, bkTold, bkAlive, bkThrew, bkGood, bkSince>>
  BY DEF CreateFolder, Step, Copies, InLoop, BackupInv, BackupType
<1>2. /\ bkRun'.pc = "copy" /\ bkRun'.src = bkRun.src /\ bkRun'.to = bkRun.to /\ bkRun'.item = 0
      /\ bkRun'.fail = bkRun.fail
  BY <1>1 DEF RunRecords
<1>3. /\ BackupType' /\ DialogInv' /\ bkRun.src \in Sources /\ bkTold' # "completed"
      /\ bkMax' = bkMax /\ bkHash' = bkHash /\ bkZip' = bkZip /\ bkNow' = bkNow /\ bkNow \in Nat
      /\ \A d : HasRotated(d)' => HasRotated(d)
  BY <1>1, <1>2, LoopFacts DEF RunSteps
<1>4. /\ bkRun.to \in Nat /\ bkRun.to >= 1 /\ bkRun.to <= Len(Destinations[bkRun.src])
  BY <1>1 DEF CreateFolder, Step, BackupInv, RunInv, RunRecords
<1>5. Place \in Places /\ Uses(bkRun.src, Place)
  BY <1>3, <1>4, PlaceIs DEF Place, Uses
<1> DEFINE new == [src |-> bkRun.src, at |-> bkNow, n |-> 0, bad |-> FALSE]
<1>6. \/ bkDisk' = bkDisk /\ \E f \in bkDisk[Place] : f.src = bkRun.src /\ f.at = bkNow
      \/ /\ bkDisk' = [bkDisk EXCEPT ![Place] = @ \cup {new}]
         /\ ~\E f \in bkDisk[Place] : f.src = bkRun.src /\ f.at = bkNow
  <2>1. bkRun'.pc # "end"
    BY <1>2
  <2>2. [bkRun EXCEPT !.pc = "end", !.fail = TRUE].pc = "end"
    BY <1>1 DEF RunRecords
  <2> QED
    BY <2>1, <2>2 DEF CreateFolder
<1>7. new.src = bkRun.src /\ new.at = bkNow /\ new.n = 0
  OBVIOUS
<1> HIDE DEF new
<1>8. DiskInv /\ bkDisk \in [Places -> SUBSET Folders]
  BY <1>1 DEF BackupInv, BackupType
<1>9. \A d \in Places : \/ bkDisk'[d] = bkDisk[d]
                        \/ /\ d = Place /\ bkDisk'[d] = bkDisk[d] \cup {new}
                           /\ ~\E f \in bkDisk[d] : f.src = bkRun.src /\ f.at = bkNow
  BY <1>6, <1>8
<1>10. DiskInv'
  <2> SUFFICES ASSUME NEW d \in Places
               PROVE  /\ IsFiniteSet(bkDisk'[d])
                      /\ \A f \in bkDisk'[d] : /\ f.n <= MaxFiles /\ f.at <= bkNow /\ Uses(f.src, d)
                                               /\ \A g \in bkDisk'[d] : f.src = g.src /\ f.at = g.at => f = g
    BY <1>3 DEF DiskInv
  <2>1. CASE bkDisk'[d] = bkDisk[d]
    BY <1>8, <2>1 DEF DiskInv
  <2>2. CASE /\ d = Place /\ bkDisk'[d] = bkDisk[d] \cup {new}
             /\ ~\E f \in bkDisk[d] : f.src = bkRun.src /\ f.at = bkNow
    <3>1. IsFiniteSet(bkDisk'[d])
      <4>1. IsFiniteSet(bkDisk[d])
        BY <1>8 DEF DiskInv
      <4> QED
        BY <2>2, <4>1, FS_AddElement
    <3>2. new.n <= MaxFiles /\ new.at <= bkNow /\ Uses(new.src, d)
      BY <1>3, <1>5, <1>7, <2>2, BackupAssumption
    <3>3. \A f \in bkDisk[d] : ~(f.src = new.src /\ f.at = new.at)
      BY <1>7, <2>2
    <3> QED
      BY <1>8, <2>2, <3>1, <3>2, <3>3 DEF DiskInv
  <2> QED
    BY <1>9, <2>1, <2>2
<1>11. PICK f \in bkDisk'[Place] : f.src = bkRun.src /\ f.at = bkNow
  <2>1. CASE bkDisk' = bkDisk /\ \E f \in bkDisk[Place] : f.src = bkRun.src /\ f.at = bkNow
    BY <2>1
  <2>2. CASE bkDisk' = [bkDisk EXCEPT ![Place] = @ \cup {new}]
    <3>1. new \in bkDisk'[Place]
      BY <1>5, <1>8, <2>2
    <3> QED
      BY <1>7, <3>1
  <2> QED
    BY <1>6, <2>1, <2>2
<1>12. Mine(Folder)'
  <2>1. \A g \in bkDisk'[Place] : g.src = bkRun.src /\ g.at = bkNow => g = f
    BY <1>5, <1>10, <1>11 DEF DiskInv
  <2> QED
    BY <1>2, <1>3, <1>11, <2>1, NextFolder
<1>13. RunInv'
  BY <1>2, <1>3, <1>4, <1>12, BackupAssumption DEF RunInv, InLoop, AtPlace
<1>14. CompleteInv'
  <2> SUFFICES ASSUME bkHash[bkRun.src], ~bkZip[bkRun.src], ~bkRun.fail,
                      NEW i \in DOMAIN Destinations[bkRun.src], i < bkRun.to
               PROVE  HasWhole(bkRun.src, Destinations[bkRun.src][i])'
    BY <1>2, <1>3 DEF CompleteInv, CompletedIsComplete, InLoop, AtPlace
  <2>1. HasWhole(bkRun.src, Destinations[bkRun.src][i])
    BY <1>1 DEF BackupInv, CompleteInv
  <2>2. bkDisk[Destinations[bkRun.src][i]] \subseteq bkDisk'[Destinations[bkRun.src][i]]
    BY <1>3, <1>9, DomainIs
  <2> QED
    BY <2>1, <2>2 DEF HasWhole
<1>15. KeptInv'
  <2> SUFFICES ASSUME NEW s \in Sources, NEW d \in Places
               PROVE  KeptAt(s, d)'
    BY DEF KeptInv
  <2>1. ASSUME NEW g \in bkDisk'[d], g.src = s, g.at > bkGood[s][d]
        PROVE  g.at \in Newer(s, d)
    <3>1. CASE g \in bkDisk[d]
      BY <2>1, <3>1 DEF Newer
    <3>2. CASE g \notin bkDisk[d]
      <4>1. d = Place /\ g = new
        BY <1>9, <2>1, <3>2
      <4>2. HasRotated(d)
        BY <1>1, <1>5, <4>1 DEF HasRotated
      <4> QED
        BY <1>7, <2>1, <4>1, <4>2 DEF Newer
    <3> QED
      BY <3>1, <3>2
  <2>2. bkDisk[d] \subseteq bkDisk'[d]
    BY <1>9
  <2> QED
    BY <1>1, <1>2, <1>3, <2>1, <2>2, KeptStays
<1> QED
  BY <1>3, <1>10, <1>13, <1>14, <1>15 DEF BackupInv

(* A copy changes a folder that is not whole yet. *)
LEMMA CopyStep ==
  ASSUME BackupInv, BackupNext, Copy
  PROVE  BackupInv'
<1>1. /\ bkRun.pc = "copy" /\ InLoop /\ AtPlace /\ bkRun \in RunRecords /\ BackupType
      /\ UNCHANGED <<bkShow, bkCancelled, bkTold, bkAlive, bkThrew, bkGood, bkSince>>
      /\ bkRun.item < MaxFiles /\ bkRun.item >= Folder.n
  BY DEF Copy, Step, Copies, InLoop, AtPlace, BackupInv, BackupType
<1>2. /\ bkRun'.pc = "copy" /\ bkRun'.src = bkRun.src /\ bkRun'.to = bkRun.to /\ bkRun'.item = bkRun.item + 1
      /\ bkRun'.fail = bkRun.fail
  <2>1. PICK from : bkRun' = [bkRun EXCEPT !.item = bkRun.item + 1, !.from = from]
    BY DEF Copy
  <2> QED
    BY <1>1, <2>1 DEF RunRecords
<1>3. /\ BackupType' /\ DialogInv' /\ bkRun.src \in Sources /\ bkTold' # "completed"
      /\ bkMax' = bkMax /\ bkHash' = bkHash /\ bkZip' = bkZip /\ bkNow' = bkNow /\ bkNow \in Nat
      /\ \A d : HasRotated(d)' => HasRotated(d)
  BY <1>1, <1>2, LoopFacts DEF RunSteps
<1>4. /\ bkRun.to \in DOMAIN Destinations[bkRun.src] /\ Place \in Places
      /\ Folder \in bkDisk[Place] /\ Folder \in Folders
      /\ Folder.src = bkRun.src /\ Folder.at = bkNow
      /\ \A f \in bkDisk[Place] : f.src = bkRun.src /\ f.at = bkNow => f = Folder
  BY <1>1, FolderIs
<1>5. bkRun.item \in Nat /\ bkRun.to \in Nat
  BY <1>1 DEF RunRecords
<1>6. Folder.n \in Nat
  BY <1>4 DEF Folders
<1>7. Folder.n = bkRun.item
  BY <1>1, <1>5, <1>6 DEF BackupInv, RunInv
<1>8. PICK new : /\ new.src = bkRun.src /\ new.at = bkNow /\ new.n = bkRun.item + 1
                 /\ bkDisk' = [bkDisk EXCEPT ![Place] = (@ \ {Folder}) \cup {new}]
  <2>1. PICK bad \in BOOLEAN :
          bkDisk' = [bkDisk EXCEPT ![Place] = (@ \ {Folder}) \cup {[Folder EXCEPT !.n = @ + 1, !.bad = @ \/ bad]}]
    BY DEF Copy
  <2> DEFINE new == [Folder EXCEPT !.n = @ + 1, !.bad = @ \/ bad]
  <2>2. new.src = bkRun.src /\ new.at = bkNow /\ new.n = bkRun.item + 1
    BY <1>4, <1>7 DEF Folders
  <2> QED
    BY <2>1, <2>2
<1>9. DiskInv /\ bkDisk \in [Places -> SUBSET Folders]
  BY <1>1 DEF BackupInv, BackupType
<1>10. \A d \in Places : bkDisk'[d] = IF d = Place THEN (bkDisk[d] \ {Folder}) \cup {new} ELSE bkDisk[d]
  BY <1>8, <1>9
<1>11. \A f \in bkDisk[Place] \ {Folder} : ~(f.src = bkRun.src /\ f.at = bkNow)
  BY <1>4
<1>12. DiskInv'
  <2> SUFFICES ASSUME NEW d \in Places
               PROVE  /\ IsFiniteSet(bkDisk'[d])
                      /\ \A f \in bkDisk'[d] : /\ f.n <= MaxFiles /\ f.at <= bkNow /\ Uses(f.src, d)
                                               /\ \A g \in bkDisk'[d] : f.src = g.src /\ f.at = g.at => f = g
    BY <1>3 DEF DiskInv
  <2>1. CASE d # Place
    BY <1>9, <1>10, <2>1 DEF DiskInv
  <2>2. CASE d = Place
    <3>1. IsFiniteSet(bkDisk'[d])
      <4>1. IsFiniteSet(bkDisk[d])
        BY <1>9 DEF DiskInv
      <4>2. IsFiniteSet(bkDisk[d] \ {Folder})
        BY <4>1, FS_RemoveElement
      <4>3. IsFiniteSet((bkDisk[d] \ {Folder}) \cup {new})
        BY <4>2, FS_AddElement
      <4> QED
        BY <1>10, <2>2, <4>3
    <3>2. new.n <= MaxFiles /\ new.at <= bkNow
      BY <1>1, <1>3, <1>5, <1>8, BackupAssumption
    <3>3. Uses(new.src, d)
      BY <1>4, <1>8, <1>9, <2>2 DEF DiskInv
    <3>4. bkDisk'[d] = (bkDisk[d] \ {Folder}) \cup {new}
      BY <1>10, <2>2
    <3>5. ASSUME NEW f \in bkDisk[d] \ {Folder}
          PROVE  /\ f.n <= MaxFiles /\ f.at <= bkNow /\ Uses(f.src, d) /\ ~(f.src = new.src /\ f.at = new.at)
                 /\ \A g \in bkDisk[d] : f.src = g.src /\ f.at = g.at => f = g
      BY <1>8, <1>9, <1>11, <2>2 DEF DiskInv
    <3> QED
      BY <3>1, <3>2, <3>3, <3>4, <3>5
  <2> QED
    BY <2>1, <2>2
<1>13. Mine(Folder)' /\ Folder' = new
  <2>1. new \in bkDisk'[Place] /\ \A g \in bkDisk'[Place] : g.src = bkRun.src /\ g.at = bkNow => g = new
    BY <1>4, <1>10, <1>11
  <2> QED
    BY <1>2, <1>3, <1>8, <2>1, NextFolder
<1>14. RunInv'
  <2>1. bkRun'.item <= MaxFiles /\ Folder'.n = bkRun'.item
    BY <1>1, <1>2, <1>5, <1>8, <1>13, BackupAssumption
  <2>2. bkRun.to >= 1 /\ bkRun.to <= Len(Destinations[bkRun.src])
    BY <1>1 DEF BackupInv, RunInv
  <2> QED
    BY <1>2, <1>3, <1>13, <2>1, <2>2 DEF RunInv, InLoop, AtPlace
<1>15. \A d \in Places : \A f \in bkDisk[d] : f.n = MaxFiles => f \in bkDisk'[d]
  <2>1. Folder.n # MaxFiles
    BY <1>1, <1>5, <1>7, BackupAssumption
  <2> QED
    BY <1>10, <2>1
<1>16. CompleteInv'
  <2> SUFFICES ASSUME bkHash[bkRun.src], ~bkZip[bkRun.src], ~bkRun.fail,
                      NEW i \in DOMAIN Destinations[bkRun.src], i < bkRun.to
               PROVE  HasWhole(bkRun.src, Destinations[bkRun.src][i])'
    BY <1>2, <1>3 DEF CompleteInv, CompletedIsComplete, InLoop, AtPlace
  <2>1. HasWhole(bkRun.src, Destinations[bkRun.src][i])
    BY <1>1 DEF BackupInv, CompleteInv
  <2>2. Destinations[bkRun.src][i] \in Places
    BY <1>3, DomainIs
  <2>3. PICK f \in bkDisk[Destinations[bkRun.src][i]] : f.src = bkRun.src /\ f.n = MaxFiles /\ ~f.bad
    BY <2>1 DEF HasWhole
  <2>4. f \in bkDisk'[Destinations[bkRun.src][i]]
    BY <1>15, <2>2, <2>3
  <2> QED
    BY <1>2, <2>3, <2>4 DEF HasWhole
<1>17. KeptInv'
  <2> SUFFICES ASSUME NEW s \in Sources, NEW d \in Places
               PROVE  KeptAt(s, d)'
    BY DEF KeptInv
  <2>1. ASSUME NEW g \in bkDisk'[d], g.src = s, g.at > bkGood[s][d]
        PROVE  g.at \in Newer(s, d)
    <3>1. PICK f \in bkDisk[d] : f.src = g.src /\ f.at = g.at
      BY <1>4, <1>8, <1>10, <2>1
    <3> QED
      BY <2>1, <3>1 DEF Newer
  <2>2. \A f \in bkDisk[d] : IsGood(f, s, d) => f \in bkDisk'[d]
    BY <1>15 DEF IsGood
  <2> QED
    BY <1>1, <1>2, <1>3, <2>1, <2>2, KeptStays
<1> QED
  BY <1>3, <1>12, <1>14, <1>16, <1>17 DEF BackupInv

(* The copy ends, rightly or not: the folder is as it was.                   *)
LEMMA CopiedStep ==
  ASSUME BackupInv, BackupNext, CopyFails \/ ItemsCopied
  PROVE  BackupInv'
<1>1. /\ bkRun.pc = "copy" /\ InLoop /\ AtPlace /\ bkRun \in RunRecords /\ BackupType
      /\ UNCHANGED <<bkDisk, bkShow, bkCancelled, bkTold, bkAlive, bkThrew, bkGood, bkSince>>
      /\ \/ bkRun' = [bkRun EXCEPT !.pc = "hash", !.fail = TRUE]
         \/ bkRun.item = MaxFiles /\ bkRun' = [bkRun EXCEPT !.pc = "hash"]
  BY DEF CopyFails, ItemsCopied, Step, Copies, InLoop, AtPlace, BackupInv, BackupType
<1>2. /\ bkRun'.pc = "hash" /\ bkRun'.src = bkRun.src /\ bkRun'.to = bkRun.to
      /\ bkRun'.fail \/ (bkRun.item = MaxFiles /\ bkRun'.fail = bkRun.fail)
  BY <1>1 DEF RunRecords
<1>3. /\ BackupType' /\ DialogInv' /\ bkRun.src \in Sources /\ bkTold' # "completed"
      /\ bkMax' = bkMax /\ bkHash' = bkHash /\ bkZip' = bkZip /\ bkNow' = bkNow /\ bkNow \in Nat
      /\ \A d : HasRotated(d)' => HasRotated(d)
  BY <1>1, <1>2, LoopFacts DEF RunSteps
<1>4. /\ Place \in Places /\ Folder \in bkDisk[Place] /\ Folder \in Folders
      /\ Folder.src = bkRun.src /\ Folder.at = bkNow
      /\ \A f \in bkDisk[Place] : f.src = bkRun.src /\ f.at = bkNow => f = Folder
  BY <1>1, FolderIs
<1>5. Mine(Folder)' /\ Folder' = Folder
  BY <1>1, <1>2, <1>3, <1>4, NextFolder
<1>6. bkRun.item = MaxFiles => Folder.n = MaxFiles
  <2>1. Folder.n \in Nat /\ Folder.n <= MaxFiles
    BY <1>1, <1>4 DEF Folders, BackupInv, DiskInv
  <2>2. bkRun.item = 0 \/ Folder.n = bkRun.item
    BY <1>1 DEF BackupInv, RunInv
  <2> QED
    BY <2>1, <2>2, BackupAssumption
<1>7. RunInv'
  <2>1. bkRun.to >= 1 /\ bkRun.to <= Len(Destinations[bkRun.src])
    BY <1>1 DEF BackupInv, RunInv
  <2> QED
    BY <1>2, <1>3, <1>5, <1>6, <2>1 DEF RunInv, InLoop, AtPlace
<1>8. DiskInv' /\ KeptInv'
  <2>1. DiskInv'
    BY <1>1, <1>3 DEF BackupInv, DiskInv
  <2>2. ASSUME NEW s \in Sources, NEW d \in Places
        PROVE  KeptAt(s, d)'
    <3>1. \A f \in bkDisk[d] : f.src = s /\ f.at > bkGood[s][d] => f.at \in Newer(s, d)
      BY DEF Newer
    <3> QED
      BY <1>1, <1>2, <1>3, <3>1, KeptStays
  <2> QED
    BY <2>1, <2>2 DEF KeptInv
<1>9. CompleteInv'
  <2>1. ~bkRun'.fail => ~bkRun.fail
    BY <1>2
  <2>2. InLoop' => InLoop
    BY <1>1
  <2> QED
    BY <1>1, <1>2, <1>3, <2>1 DEF BackupInv, CompleteInv, CompletedIsComplete, InLoop, AtPlace, HasWhole
<1> QED
  BY <1>3, <1>7, <1>8, <1>9 DEF BackupInv

(* After the hash the folder may be the good one: none is newer. *)
LEMMA HashStep ==
  ASSUME BackupInv, BackupNext, Hash
  PROVE  BackupInv'
<1>1. /\ bkRun.pc = "hash" /\ InLoop /\ AtPlace /\ bkRun \in RunRecords /\ BackupType
      /\ UNCHANGED <<bkDisk, bkShow, bkCancelled, bkTold, bkAlive, bkThrew>>
      /\ \/ bkRun' = [bkRun EXCEPT !.pc = "zip"] /\ ~bkHash[bkRun.src]
         \/ bkRun' = [bkRun EXCEPT !.pc = "zip", !.first = TRUE] /\ SameHash
         \/ bkRun' = [bkRun EXCEPT !.pc = "end", !.fail = TRUE, !.first = TRUE]
  BY DEF Hash, Step, InLoop, AtPlace, BackupInv, BackupType
<1>2. /\ bkRun'.src = bkRun.src /\ bkRun'.to = bkRun.to
      /\ \/ bkRun'.pc = "zip" /\ bkRun'.fail = bkRun.fail /\ (~bkHash[bkRun.src] \/ ~Folder.bad)
         \/ bkRun'.pc = "end" /\ bkRun'.fail
  <2>1. /\ [bkRun EXCEPT !.pc = "zip"].pc = "zip" /\ [bkRun EXCEPT !.pc = "zip"].fail = bkRun.fail
        /\ [bkRun EXCEPT !.pc = "zip"].src = bkRun.src /\ [bkRun EXCEPT !.pc = "zip"].to = bkRun.to
    BY <1>1 DEF RunRecords
  <2>2. /\ [bkRun EXCEPT !.pc = "zip", !.first = TRUE].pc = "zip"
        /\ [bkRun EXCEPT !.pc = "zip", !.first = TRUE].fail = bkRun.fail
        /\ [bkRun EXCEPT !.pc = "zip", !.first = TRUE].src = bkRun.src
        /\ [bkRun EXCEPT !.pc = "zip", !.first = TRUE].to = bkRun.to
    BY <1>1 DEF RunRecords
  <2>3. /\ [bkRun EXCEPT !.pc = "end", !.fail = TRUE, !.first = TRUE].pc = "end"
        /\ [bkRun EXCEPT !.pc = "end", !.fail = TRUE, !.first = TRUE].fail
        /\ [bkRun EXCEPT !.pc = "end", !.fail = TRUE, !.first = TRUE].src = bkRun.src
        /\ [bkRun EXCEPT !.pc = "end", !.fail = TRUE, !.first = TRUE].to = bkRun.to
    BY <1>1 DEF RunRecords
  <2> QED
    BY <1>1, <2>1, <2>2, <2>3 DEF SameHash
<1>3. /\ BackupType' /\ DialogInv' /\ bkRun.src \in Sources /\ bkTold' # "completed"
      /\ bkMax' = bkMax /\ bkHash' = bkHash /\ bkZip' = bkZip /\ bkNow' = bkNow /\ bkNow \in Nat
      /\ \A d : HasRotated(d)' => HasRotated(d)
  BY <1>1, <1>2, LoopFacts DEF RunSteps
<1>4. /\ Place \in Places /\ Folder \in bkDisk[Place] /\ Folder \in Folders
      /\ Folder.src = bkRun.src /\ Folder.at = bkNow
      /\ \A f \in bkDisk[Place] : f.src = bkRun.src /\ f.at = bkNow => f = Folder
  BY <1>1, FolderIs
<1>5. Mine(Folder)' /\ Folder' = Folder
  BY <1>1, <1>2, <1>3, <1>4, NextFolder
<1>6. ~bkRun.fail => Folder.n = MaxFiles
  BY <1>1 DEF BackupInv, RunInv
<1>7. RunInv'
  <2>1. bkRun.to >= 1 /\ bkRun.to <= Len(Destinations[bkRun.src])
    BY <1>1 DEF BackupInv, RunInv
  <2> QED
    BY <1>2, <1>3, <1>5, <1>6, <2>1 DEF RunInv, InLoop, AtPlace
<1>8. DiskInv'
  BY <1>1, <1>3 DEF BackupInv, DiskInv
<1>9. CompleteInv'
  <2>1. ~bkRun'.fail => ~bkRun.fail
    BY <1>2
  <2> QED
    BY <1>1, <1>2, <1>3, <2>1 DEF BackupInv, CompleteInv, CompletedIsComplete, InLoop, AtPlace, HasWhole
<1>10. ASSUME NEW s \in Sources, NEW d \in Places
       PROVE  KeptAt(s, d)'
  <2>1. \A f \in bkDisk[d] : f.src = s /\ f.at > bkGood[s][d] => f.at \in Newer(s, d)
    BY DEF Newer
  <2>2. \/ bkGood' = bkGood /\ bkSince' = bkSince
        \/ /\ ~bkRun'.fail /\ ~Folder.bad
           /\ bkGood' = [bkGood EXCEPT ![bkRun.src][Place] = bkNow]
           /\ bkSince' = [bkSince EXCEPT ![bkRun.src][Place] = 0]
    BY DEF Hash
  <2>3. CASE bkGood'[s][d] = bkGood[s][d] /\ bkSince'[s][d] = bkSince[s][d]
    BY <1>1, <1>2, <1>3, <2>1, <2>3, KeptStays
  <2>4. CASE /\ ~bkRun'.fail /\ ~Folder.bad /\ s = bkRun.src /\ d = Place
             /\ bkGood'[s][d] = bkNow /\ bkSince'[s][d] = 0
    <3>1. Folder.n = MaxFiles
      BY <1>2, <1>6, <2>4
    <3>2. \E f \in bkDisk'[d] : IsGood(f, s, d)'
      <4>1. Folder \in bkDisk'[d] /\ Folder.src = s /\ Folder.at = bkGood'[s][d]
        BY <1>1, <1>4, <2>4
      <4> QED
        BY <2>4, <3>1, <4>1 DEF IsGood
    <3>3. Newer(s, d)' = {}
      <4>1. bkDisk[d] \subseteq Folders
        BY <1>1 DEF BackupType
      <4>2. \A f \in bkDisk[d] : f.at \in Nat /\ f.at <= bkNow
        BY <4>1 DEF Folders, BackupInv, DiskInv
      <4>3. \A f \in bkDisk'[d] : ~(f.at > bkNow)
        BY <1>1, <1>3, <4>2
      <4>4. ~(bkNow > bkNow)
        BY <1>3
      <4> QED
        BY <1>3, <2>4, <4>3, <4>4 DEF Newer
    <3>4. Cardinality(Newer(s, d)') = 0
      BY <3>3, FS_EmptySet
    <3> QED
      BY <2>4, <3>2, <3>4 DEF KeptAt
  <2>5. bkGood \in [Sources -> [Places -> Nat]] /\ bkSince \in [Sources -> [Places -> Nat]]
    BY <1>1 DEF BackupType
  <2>6. CASE s # bkRun.src \/ d # Place
    BY <2>2, <2>3, <2>5, <2>6
  <2>7. CASE s = bkRun.src /\ d = Place
    BY <2>2, <2>3, <2>4, <2>5, <2>7
  <2> QED
    BY <2>6, <2>7
<1> QED
  BY <1>3, <1>7, <1>8, <1>9, <1>10 DEF BackupInv, KeptInv

(* The compression may remove the folder, and with it what is good. *)
LEMMA CompressStep ==
  ASSUME BackupInv, BackupNext, Compress
  PROVE  BackupInv'
<1>1. /\ bkRun.pc = "zip" /\ InLoop /\ AtPlace /\ bkRun \in RunRecords /\ BackupType
      /\ UNCHANGED <<bkShow, bkCancelled, bkTold, bkAlive, bkThrew, bkSince>>
      /\ bkRun' = [bkRun EXCEPT !.pc = "folder", !.to = bkRun.to + 1, !.item = 0]
      /\ \/ UNCHANGED <<bkDisk, bkGood>>
         \/ /\ bkZip[bkRun.src]
            /\ bkDisk' = [bkDisk EXCEPT ![Place] = @ \ {Folder}]
            /\ bkGood' = [bkGood EXCEPT ![bkRun.src][Place] = 0]
  BY DEF Compress, Step, InLoop, AtPlace, BackupInv, BackupType
<1>2. /\ bkRun'.pc = "folder" /\ bkRun'.src = bkRun.src /\ bkRun'.to = bkRun.to + 1 /\ bkRun'.fail = bkRun.fail
      /\ bkRun.to \in Nat
  BY <1>1 DEF RunRecords
<1>3. /\ BackupType' /\ DialogInv' /\ bkRun.src \in Sources /\ bkTold' # "completed"
      /\ bkMax' = bkMax /\ bkHash' = bkHash /\ bkZip' = bkZip /\ bkNow' = bkNow /\ bkNow \in Nat
      /\ \A d : HasRotated(d)' => HasRotated(d)
  BY <1>1, <1>2, LoopFacts DEF RunSteps
<1>4. /\ Place \in Places /\ Folder \in bkDisk[Place] /\ Folder.src = bkRun.src
      /\ bkRun.to \in DOMAIN Destinations[bkRun.src]
  BY <1>1, FolderIs
<1>5. bkDisk \in [Places -> SUBSET Folders] /\ bkGood \in [Sources -> [Places -> Nat]]
  BY <1>1 DEF BackupType
<1>6. ASSUME NEW d \in Places
      PROVE  /\ bkDisk'[d] \subseteq bkDisk[d]
             /\ \A f \in bkDisk[d] : f \in bkDisk'[d] \/ (d = Place /\ f = Folder /\ bkGood'[bkRun.src][d] = 0)
  <2>1. CASE UNCHANGED bkDisk
    BY <2>1
  <2>2. CASE /\ bkDisk' = [bkDisk EXCEPT ![Place] = @ \ {Folder}]
             /\ bkGood' = [bkGood EXCEPT ![bkRun.src][Place] = 0]
    BY <1>3, <1>4, <1>5, <2>2
  <2> QED
    BY <1>1, <2>1, <2>2
<1>7. DiskInv'
  BY <1>1, <1>3, <1>6, FS_Subset DEF BackupInv, DiskInv
<1>8. RunInv'
  <2>1. bkRun.to >= 1
    BY <1>1 DEF BackupInv, RunInv
  <2> QED
    BY <1>2, <1>3, <2>1 DEF RunInv, InLoop, AtPlace
<1>9. CompleteInv'
  <2> SUFFICES ASSUME bkHash[bkRun.src], ~bkZip[bkRun.src], ~bkRun.fail,
                      NEW i \in DOMAIN Destinations[bkRun.src], i < bkRun.to + 1
               PROVE  HasWhole(bkRun.src, Destinations[bkRun.src][i])'
    BY <1>2, <1>3 DEF CompleteInv, CompletedIsComplete, InLoop, AtPlace
  <2>1. bkDisk' = bkDisk
    BY <1>1
  <2>2. CASE i < bkRun.to
    BY <1>1, <2>1, <2>2 DEF BackupInv, CompleteInv, HasWhole
  <2>3. CASE i = bkRun.to
    <3>1. Folder.n = MaxFiles /\ ~Folder.bad
      BY <1>1 DEF BackupInv, RunInv
    <3> QED
      BY <1>2, <1>4, <2>1, <2>3, <3>1 DEF HasWhole, Place
  <2> QED
    BY <1>2, <1>3, <2>2, <2>3, DomainIs
<1>10. ASSUME NEW s \in Sources, NEW d \in Places
       PROVE  KeptAt(s, d)'
  <2>1. \A f \in bkDisk'[d] : f.src = s /\ f.at > bkGood[s][d] => f.at \in Newer(s, d)
    BY <1>6 DEF Newer
  <2>2. bkGood'[s][d] \in {bkGood[s][d], 0}
    BY <1>1, <1>3, <1>4, <1>5
  <2>3. bkGood'[s][d] # 0 => \A f \in bkDisk[d] : IsGood(f, s, d) => f \in bkDisk'[d]
    BY <1>4, <1>6 DEF IsGood
  <2> QED
    BY <1>1, <1>2, <1>3, <2>1, <2>2, <2>3, KeptStays
<1> QED
  BY <1>3, <1>7, <1>8, <1>9, <1>10 DEF BackupInv, KeptInv

LEMMA BackupStep ==
  ASSUME BackupInv, [BackupNext]_bkVars
  PROVE  BackupInv'
<1>1. CASE UNCHANGED bkVars
  <2>1. BackupType' /\ DiskInv' /\ DialogInv'
    BY <1>1 DEF bkVars, BackupInv, BackupType, DiskInv, DialogInv, EndHasReason
  <2>2. KeptInv'
    BY <1>1, KeptUnchanged DEF bkVars
  <2>3. RunInv' /\ CompleteInv'
    BY <1>1 DEF bkVars, BackupInv, RunInv, InLoop, AtPlace, Mine, Folder, Place, CompleteInv,
                CompletedIsComplete, Complete, HasWhole
  <2> QED
    BY <2>1, <2>2, <2>3 DEF BackupInv
<1>2. CASE BackupNext
  <2>1. RunSteps \/ WindowSteps \/ \E s \in Sources : BackupFile(s)
    BY <1>2, Frame DEF BackupInv
  <2>2. CASE WindowSteps
    BY <1>2, <2>2, WindowStep
  <2>3. CASE \E s \in Sources : BackupFile(s)
    BY <1>2, <2>3, BackupFileStep
  <2>4. CASE InvalidSource \/ Begin \/ Uncancel \/ Rotated
    BY <1>2, <2>4, TurnStep
  <2>5. CASE Cancelled \/ CopyThrows \/ End
    <3>1. UNCHANGED bkDisk /\ bkRun' \in {Idle, Done}
      BY <2>5 DEF Cancelled, Leave, CopyThrows, End
    <3>2. Idle.pc = "idle" /\ Done.pc = "idle"
      BY DEF Idle, Done
    <3> QED
      BY <1>2, <2>5, <3>1, <3>2, LeaveStep
  <2>6. CASE CreateFolder
    <3>1. \/ bkRun' = [bkRun EXCEPT !.pc = "copy", !.item = 0]
          \/ bkRun' = [bkRun EXCEPT !.pc = "end", !.fail = TRUE] /\ UNCHANGED bkDisk
      BY <2>6 DEF CreateFolder
    <3>2. [bkRun EXCEPT !.pc = "end", !.fail = TRUE].pc = "end"
      BY DEF BackupInv, BackupType, RunRecords
    <3> QED
      BY <1>2, <2>6, <3>1, <3>2, CreateStep, LeaveStep
  <2> QED
    BY <1>2, <2>1, <2>2, <2>3, <2>4, <2>5, <2>6, RotationStep, CopyStep, CopiedStep, HashStep, CompressStep
       DEF RunSteps
<1> QED
  BY <1>1, <1>2

(* For any sources, destinations and runs: the last whole backup of a source *)
(* stays until max_backups rotations more, "completed" is told of complete   *)
(* backups only, the dialog and an end of the program have their reasons.    *)
THEOREM BackupsAreSafe == BackupSpec => []BackupsSafe
<1>1. BackupInv /\ [BackupNext]_bkVars => BackupInv'
  BY BackupStep
<1>2. BackupInv => BackupsSafe
  <2> SUFFICES ASSUME BackupInv PROVE BackupsSafe
    OBVIOUS
  <2>1. GoodKept
    BY DEF BackupInv, KeptInv, KeptAt, IsGood, GoodKept
  <2>2. CompletedIsComplete /\ DialogHasReason /\ EndHasReason
    BY DEF BackupInv, CompleteInv, DialogInv, DialogHasReason
  <2> QED
    BY <2>1, <2>2 DEF BackupsSafe
<1> QED
  BY InitBackup, <1>1, <1>2, PTL DEF BackupSpec

-----------------------------------------------------------------------------
(* The CAN transmit queue, for every set of callers, every queue size of at  *)
(* least two and every number of frames.                                     *)

(* At most one thread is between m_mutex.lock and unlock. *)
MutexInv ==
  /\ \A p, q \in Producer :
       producer[p] # "idle" /\ producer[q] # "idle" => p = q
  /\ pc \in {"blocking", "reply"} => \A p \in Producer : producer[p] = "idle"

Handling == pc \in {"prepare", "sent", "pop"}

(* The queue exceeds its maximum only while the call that did it has not     *)
(* trimmed it.  Meanwhile the worker, that needs m_mutex to send, can pop    *)
(* one frame and no second one.                                              *)
SizeInv ==
  /\ Size >= 0
  /\ Size > TxQueueMax => Trimming \/ pc = "reply"
  /\ pc = "reply" => Size = TxQueueMax + 1
  /\ Trimming => \/ Size = TxQueueMax + 1
                 \/ Size = TxQueueMax /\ pc \in {"front", "prepare"}
  /\ Handling => Size >= 1

Before(k) == \A i \in 1..Len(sent) : sent[i] < k

(* Where the sent frames lie relative to the frame in the worker's hands and *)
(* to the front of the queue.                                                *)
OrderInv ==
  /\ SentInOrder /\ sent \in Seq(Nat \ {0})
  /\ Handling => data_ptr \in 1..start
  /\ pc = "pop" => is_remove
  /\ pc = "prepare" \/ (pc = "sent" /\ ~is_remove) => Before(data_ptr)
  /\ IF Handling /\ pc # "prepare" /\ is_remove
       THEN Before(data_ptr + 1)
       ELSE Before(start)

(* The queue as long as no two accesses to it overlapped.                    *)
IInv == ~torn /\ TypeOK /\ MutexInv /\ SizeInv /\ OrderInv

(* Every overflow is good for one frame: the one that a trim is about to     *)
(* remove, or, when the trim removed the frame in the worker's hands, the    *)
(* unsent one that the worker is about to pop instead.                       *)
Owed ==
  (IF Trimming \/ pc = "reply" THEN 1 ELSE 0)
    + (IF Sending /\ data_ptr # start THEN 1 ELSE 0)
CountInv == Owed <= Credit

USE TxQueueMaxAssumption, BoundsAssumption

LEMMA InitIInv == Init => IInv
<1> SUFFICES ASSUME Init PROVE IInv
  OBVIOUS
<1>1. TypeOK
  <2>1. sent \in Seq(Nat)
    BY DEF Init
  <2>2. start \in Nat \ {0} /\ finish \in Nat \ {0} /\ Size <= TxQueueMax + 1
    BY DEF Init, Size
  <2>3. producer \in [Producer -> {"idle", "trim", "notify"}]
    BY DEF Init
  <2>4. pc \in Pcs
    BY DEF Init, Pcs
  <2>5. device_state \in 0..InitCommands
    BY DEF Init, InitCommands
  <2> QED
    BY <2>1, <2>2, <2>3, <2>4, <2>5 DEF Init, TypeOK
<1>2. MutexInv /\ SizeInv
  BY DEF Init, MutexInv, SizeInv, Size, Trimming, Handling
<1>3. Len(sent) = 0
  BY DEF Init
<1>4. OrderInv
  <2>1. sent \in Seq(Nat \ {0})
    BY DEF Init
  <2> QED
    BY <1>3, <2>1 DEF Init, OrderInv, Handling, Before, SentInOrder
<1>5. ~torn
  BY DEF Init
<1> QED
  BY <1>1, <1>2, <1>4, <1>5 DEF IInv

(* A caller's step keeps the invariant. *)
LEMMA CallerStep ==
  ASSUME IInv, NEW p \in Producer, AddToTxQueue(p), ~torn'
  PROVE  IInv'
<1> USE DEF IInv
<1>1. CASE AddPush(p)
  <2>1. TypeOK'
    BY <1>1 DEF AddPush, TypeOK, SizeInv, Size, MutexFree, Trimming, frame, input
  <2>2. MutexInv'
    BY <1>1 DEF AddPush, TypeOK, MutexInv, MutexFree, frame, input
  <2>3. SizeInv'
    <3>1. producer'[p] = IF Size + 1 > TxQueueMax THEN "trim" ELSE "notify"
      BY <1>1 DEF AddPush, TypeOK
    <3>2. \A q \in Producer : q # p => producer'[q] = "idle"
      BY <1>1 DEF AddPush, TypeOK, MutexFree
    <3>3. Trimming' <=> Size + 1 > TxQueueMax
      BY <3>1, <3>2 DEF Trimming
    <3>4. ~Trimming /\ pc # "reply"
      BY <1>1 DEF AddPush, MutexFree, Trimming
    <3>5. Size' = Size + 1 /\ pc' = pc
      BY <1>1 DEF AddPush, TypeOK, Size
    <3> QED
      BY <3>3, <3>4, <3>5 DEF SizeInv, TypeOK, Handling, Size
  <2>4. OrderInv'
    BY <1>1 DEF AddPush, OrderInv, Handling, Before, SentInOrder, frame
  <2> QED
    BY <2>1, <2>2, <2>3, <2>4
<1>2. CASE AddTrim(p)
  <2>1. TypeOK'
    BY <1>2 DEF AddTrim, TypeOK, SizeInv, Size, Trimming, frame, input
  <2>2. MutexInv'
    BY <1>2 DEF AddTrim, TypeOK, MutexInv, frame, input
  <2>3. SizeInv'
    <3>1. Trimming /\ pc # "reply"
      BY <1>2 DEF AddTrim, Trimming, MutexInv
    <3>2. ~Trimming'
      BY <1>2 DEF AddTrim, TypeOK, Trimming, MutexInv
    <3>3. Size' = Size - 1 /\ pc' = pc
      BY <1>2 DEF AddTrim, TypeOK, Size
    <3> QED
      BY <3>1, <3>2, <3>3 DEF SizeInv, TypeOK, Handling, Size
  <2>4. OrderInv'
    <3>1. start' = start + 1 /\ UNCHANGED <<pc, data_ptr, is_remove, sent>>
      BY <1>2 DEF AddTrim, frame
    <3>2. Before(start) => Before(start)'
      BY <3>1 DEF Before, TypeOK
    <3> QED
      BY <3>1, <3>2 DEF OrderInv, Handling, Before, SentInOrder, TypeOK
  <2> QED
    BY <2>1, <2>2, <2>3, <2>4
<1>3. CASE AddNotify(p)
  <2>1. TypeOK'
    BY <1>3 DEF AddNotify, Notify, TypeOK, SizeInv, Size, frame, input, Pcs
  <2>2. MutexInv'
    BY <1>3 DEF AddNotify, Notify, TypeOK, MutexInv
  <2>3. SizeInv'
    BY <1>3 DEF AddNotify, Notify, TypeOK, SizeInv, Size, Handling, Trimming
  <2>4. OrderInv'
    BY <1>3 DEF AddNotify, Notify, OrderInv, Handling, Before, SentInOrder, frame
  <2> QED
    BY <2>1, <2>2, <2>3, <2>4
<1> QED
  BY <1>1, <1>2, <1>3 DEF AddToTxQueue

LEMMA AsioStep == IInv /\ OnDataReceived => IInv'
<1> SUFFICES ASSUME IInv, OnDataReceived PROVE IInv'
  OBVIOUS
<1> USE DEF IInv
<1>1. TypeOK'
  BY DEF OnDataReceived, Notify, TypeOK, Size, Pcs, queue, frame
<1>2. MutexInv' /\ SizeInv'
  BY DEF OnDataReceived, Notify, TypeOK, MutexInv, SizeInv, Size, Trimming,
         Handling, queue
<1>3. OrderInv'
  BY DEF OnDataReceived, Notify, OrderInv, Handling, Before, SentInOrder,
         queue, frame
<1> QED
  BY <1>1, <1>2, <1>3 DEF OnDataReceived, queue

(* The steps that only move the worker, outside the handling of a frame. *)
LEMMA MoveStep ==
  ASSUME IInv, NEW from, NEW to \in Pcs, Goto(from, to),
         from \notin {"prepare", "sent", "pop", "reply"},
         to \notin {"prepare", "sent", "pop", "reply"},
         to = "blocking" => MutexFree,
         from = "front" => start = finish
  PROVE  IInv'
<1> USE DEF IInv
<1>1. TypeOK'
  BY DEF Goto, TypeOK, Size, queue, input, frame
<1>2. MutexInv'
  BY DEF Goto, MutexInv, MutexFree, queue
<1>3. SizeInv'
  BY DEF Goto, TypeOK, SizeInv, Size, Trimming, Handling, queue
<1>4. OrderInv'
  BY DEF Goto, OrderInv, Handling, Before, SentInOrder, queue, frame
<1> QED
  BY <1>1, <1>2, <1>3, <1>4 DEF Goto, queue

LEMMA WorkerStep == IInv /\ WorkerThread /\ ~torn' => IInv'
<1> SUFFICES ASSUME IInv, WorkerThread, ~torn' PROVE IInv'
  OBVIOUS
<1> USE DEF IInv
<1>1. CASE OpenPort \/ OpenFails \/ Retry \/ LockedOut
  BY <1>1, MoveStep DEF OpenPort, OpenFails, Retry, LockedOut, Pcs
<1>2. CASE Wait \/ Sleep \/ Timeout \/ Wake \/ Drained
  BY <1>2, MoveStep DEF Wait, Sleep, Timeout, Wake, Drained, Pcs
<1>3. CASE ProcessReceivedFrames \/ ReceiveThrows \/ ResetNotification
  <2> USE <1>3 DEF ProcessReceivedFrames, ReceiveThrows, ResetNotification
  <2>1. TypeOK'
    <3>1. UNCHANGED <<queue, frame, received>> /\ parsed' \in Nat
      <4>1. CASE ProcessReceivedFrames \/ ReceiveThrows
        BY <4>1 DEF TypeOK
      <4>2. CASE ResetNotification
        BY <4>2 DEF input, TypeOK
      <4> QED
        BY <4>1, <4>2
    <3>2. pc' \in Pcs /\ m_CircBuff' \in Nat /\ is_notification_pending' \in BOOLEAN
      <4>1. CASE ProcessReceivedFrames
        BY <4>1 DEF TypeOK, Pcs
      <4>2. CASE ReceiveThrows
        BY <4>2 DEF TypeOK, Pcs
      <4>3. CASE ResetNotification
        BY <4>3 DEF input, TypeOK, Pcs
      <4> QED
        BY <4>1, <4>2, <4>3
    <3> QED
      BY <3>1, <3>2 DEF TypeOK, Size, queue, frame
  <2>2. MutexInv' /\ SizeInv'
    BY DEF TypeOK, MutexInv, SizeInv, Size, Trimming, Handling, queue
  <2>3. OrderInv'
    BY DEF OrderInv, Handling, Before, SentInOrder, queue, frame
  <2> QED
    BY <2>1, <2>2, <2>3
<1>4. CASE ReplyPush
  <2> USE <1>4 DEF ReplyPush
  <2>1. ~Trimming /\ Size <= TxQueueMax
    BY DEF MutexFree, Trimming, SizeInv, TypeOK, Size
  <2>2. Size' = Size + 1 /\ ~Trimming'
    BY <2>1 DEF Size, Trimming, TypeOK
  <2>3. TypeOK'
    BY <2>1, <2>2 DEF TypeOK, Pcs, Size, frame
  <2>4. MutexInv'
    BY DEF MutexInv, MutexFree
  <2>5. SizeInv'
    BY <2>1, <2>2 DEF TypeOK, SizeInv, Handling, Size
  <2>6. OrderInv'
    BY DEF OrderInv, Handling, Before, SentInOrder, frame
  <2> QED
    BY <2>3, <2>4, <2>5, <2>6
<1>5. CASE ReplyTrim
  <2> USE <1>5 DEF ReplyTrim
  <2>1. ~Trimming' /\ Size' = Size - 1
    BY DEF MutexInv, Trimming, Size, TypeOK
  <2>2. TypeOK'
    BY DEF TypeOK, Pcs, Size, frame, input
  <2>3. MutexInv'
    BY DEF MutexInv
  <2>4. SizeInv'
    BY <2>1 DEF TypeOK, SizeInv, Handling, Size
  <2>5. OrderInv'
    BY DEF TypeOK, OrderInv, Handling, Before, SentInOrder, frame
  <2> QED
    BY <2>2, <2>3, <2>4, <2>5
<1>6. CASE Front
  <2> USE <1>6 DEF Front
  <2>1. TypeOK'
    BY DEF TypeOK, Pcs, Size, queue, input
  <2>2. MutexInv' /\ SizeInv'
    BY DEF TypeOK, MutexInv, SizeInv, Size, Trimming, Handling, queue
  <2>3. OrderInv'
    BY DEF TypeOK, OrderInv, Handling, Before, SentInOrder, queue
  <2> QED
    BY <2>1, <2>2, <2>3
<1>7. CASE PrepareCommand
  <2> USE <1>7 DEF PrepareCommand
  <2>1. TypeOK'
    <3>1. device_state' \in 0..InitCommands
      BY DEF TypeOK, SendsFrame, InitCommands
    <3> QED
      BY <3>1 DEF TypeOK, Pcs, Size, queue, input
  <2>2. MutexInv' /\ SizeInv'
    BY DEF TypeOK, MutexInv, SizeInv, Size, Trimming, Handling, queue, MutexFree
  <2>3. OrderInv'
    BY DEF TypeOK, OrderInv, Handling, Before, SentInOrder, queue
  <2> QED
    BY <2>1, <2>2, <2>3
<1>8. CASE PrepareFrame
  <2> USE <1>8 DEF PrepareFrame
  <2>1. data_ptr \in 1..start /\ Before(data_ptr)
    BY DEF OrderInv, Handling
  <2>2. /\ Len(sent') = Len(sent) + 1
        /\ sent' \in Seq(Nat \ {0})
        /\ \A i \in 1..Len(sent) : sent'[i] = sent[i]
        /\ sent'[Len(sent) + 1] = data_ptr
    <3>1. sent \in Seq(Nat \ {0}) /\ data_ptr \in Nat \ {0}
      BY <2>1 DEF OrderInv, TypeOK
    <3> QED
      BY <3>1
  <2>3. TypeOK'
    <3>1. sent' \in Seq(Nat)
      BY DEF TypeOK
    <3> QED
      BY <3>1 DEF TypeOK, Pcs, Size, queue, input
  <2>4. MutexInv' /\ SizeInv'
    BY DEF TypeOK, MutexInv, SizeInv, Size, Trimming, Handling, queue, MutexFree
  <2>5. SentInOrder'
    <3> SUFFICES ASSUME NEW i \in 1..(Len(sent) + 1), NEW j \in 1..(Len(sent) + 1),
                        i < j
                 PROVE  sent'[i] < sent'[j]
      BY <2>2 DEF SentInOrder
    <3>1. Len(sent) \in Nat /\ i \in 1..Len(sent)
      BY DEF TypeOK
    <3>2. CASE j = Len(sent) + 1
      BY <2>1, <2>2, <3>1, <3>2 DEF Before
    <3>3. CASE j \in 1..Len(sent)
      BY <2>2, <3>1, <3>3 DEF OrderInv, SentInOrder
    <3> QED
      BY <3>1, <3>2, <3>3
  <2>6. Before(data_ptr + 1)'
    BY <2>1, <2>2 DEF Before, TypeOK
  <2>7. OrderInv'
    BY <2>1, <2>5, <2>6 DEF OrderInv, Handling, queue
  <2> QED
    BY <2>3, <2>4, <2>7
<1>9. CASE OnFrameSent
  <2> USE <1>9 DEF OnFrameSent
  <2>1. TypeOK'
    BY DEF TypeOK, Pcs, Size, queue, input
  <2>2. MutexInv' /\ SizeInv'
    BY DEF TypeOK, MutexInv, SizeInv, Size, Trimming, Handling, queue
  <2>3. OrderInv'
    BY DEF TypeOK, OrderInv, Handling, Before, SentInOrder, queue
  <2> QED
    BY <2>1, <2>2, <2>3
<1>10. CASE Pop
  <2> USE <1>10 DEF Pop
  <2>1. Size' = Size - 1 /\ Trimming' = Trimming
    BY DEF TypeOK, Size, Trimming
  <2>2. TypeOK'
    BY <2>1 DEF TypeOK, Pcs, Size, SizeInv, frame, input
  <2>3. MutexInv'
    BY DEF MutexInv
  <2>4. SizeInv'
    BY <2>1 DEF TypeOK, SizeInv, Handling, Size
  <2>5. OrderInv'
    BY DEF TypeOK, OrderInv, Handling, Before, SentInOrder, frame
  <2> QED
    BY <2>2, <2>3, <2>4, <2>5
<1>11. ASSUME NEW p \in Producer PROVE ~FrontCollides(p) /\ ~PopCollides(p)
  BY DEF FrontCollides, PopCollides
<1> QED
  BY <1>1, <1>2, <1>3, <1>4, <1>5, <1>6, <1>7, <1>8, <1>9, <1>10, <1>11
     DEF WorkerThread

LEMMA NextIInv == IInv /\ [Next]_vars /\ ~torn' => IInv'
<1> SUFFICES ASSUME IInv, [Next]_vars, ~torn' PROVE IInv'
  OBVIOUS
<1>1. CASE UNCHANGED vars
  BY <1>1 DEF vars, queue, input, frame, IInv, TypeOK, MutexInv, SizeInv,
     OrderInv, Size, Trimming, Handling, Before, SentInOrder
<1>2. CASE Next
  <2>1. ~Crash
    BY DEF Crash, queue, IInv
  <2> QED
    BY <1>2, <2>1, CallerStep, AsioStep, WorkerStep DEF Next
<1> QED
  BY <1>1, <1>2

-----------------------------------------------------------------------------
(* How many frames are lost. *)

LEMMA InitCount == Init => CountInv
<1> SUFFICES ASSUME Init PROVE CountInv
  OBVIOUS
<1>1. ~Trimming /\ ~Sending
  BY DEF Init, Trimming, Sending
<1> QED
  BY <1>1 DEF Init, CountInv, Owed, Credit, NextUnsent, SendingFront, InFlight

LEMMA CountStep == IInv /\ CountInv /\ [Next]_vars /\ ~torn' => CountInv'
<1> SUFFICES ASSUME IInv, CountInv, [Next]_vars, ~torn' PROVE CountInv'
  OBVIOUS
<1> USE DEF CountInv, Owed, Credit, NextUnsent, SendingFront, InFlight, IInv
<1>1. ASSUME NEW p \in Producer, AddPush(p) PROVE CountInv'
  <2> USE <1>1 DEF AddPush, frame
  <2>1. ~Trimming /\ pc # "reply"
    BY DEF MutexFree, Trimming
  <2>2. Trimming' => overflows' = overflows + 1
    BY DEF MutexFree, Trimming, TypeOK
  <2>3. Sending' = Sending
    BY DEF Sending, SendsFrame
  <2> QED
    BY <2>1, <2>2, <2>3 DEF TypeOK, SendsFrame
<1>2. ASSUME NEW p \in Producer, AddTrim(p) PROVE CountInv'
  <2> USE <1>2 DEF AddTrim, frame
  <2>1. Trimming /\ pc # "reply" /\ ~Trimming'
    BY DEF Trimming, MutexInv, TypeOK
  <2>2. Sending' = Sending /\ (Sending => data_ptr \in 1..start)
    BY DEF Sending, SendsFrame, OrderInv, Handling
  <2> QED
    BY <2>1, <2>2 DEF TypeOK, SendsFrame
<1>3. ASSUME NEW p \in Producer, AddNotify(p) PROVE CountInv'
  <2> USE <1>3 DEF AddNotify, Notify, frame
  <2>1. Trimming' = Trimming
    BY DEF Trimming, MutexInv, TypeOK
  <2>2. Sending' = Sending
    BY DEF Sending, SendsFrame
  <2> QED
    BY <2>1, <2>2 DEF TypeOK, SendsFrame
<1>4. CASE OnDataReceived
  <2> USE <1>4 DEF OnDataReceived, Notify, frame, queue
  <2>1. Trimming' = Trimming /\ Sending' = Sending
    BY DEF Trimming, Sending, SendsFrame
  <2> QED
    BY <2>1 DEF TypeOK, SendsFrame
<1>5. ASSUME pc \notin {"prepare", "sent", "pop", "reply"},
             pc' \notin {"prepare", "sent", "pop", "reply"},
             UNCHANGED <<queue, frame>>
      PROVE  CountInv'
  <2>1. Trimming' = Trimming /\ ~Sending /\ ~Sending'
    BY <1>5 DEF Trimming, Sending, queue
  <2> QED
    BY <1>5, <2>1 DEF queue, frame, TypeOK
<1>6. CASE OpenPort \/ OpenFails \/ Retry \/ LockedOut
  BY <1>5, <1>6 DEF OpenPort, OpenFails, Retry, LockedOut, Goto
<1>7. CASE Wait \/ Sleep \/ Timeout \/ Wake \/ Drained
  BY <1>5, <1>7 DEF Wait, Sleep, Timeout, Wake, Drained, Goto
<1>8. CASE ProcessReceivedFrames \/ ReceiveThrows \/ ResetNotification
  BY <1>5, <1>8 DEF ProcessReceivedFrames, ReceiveThrows, ResetNotification
<1>9. CASE ReplyPush
  <2> USE <1>9 DEF ReplyPush, frame
  <2>1. ~Trimming /\ ~Trimming' /\ ~Sending /\ ~Sending'
    BY DEF MutexFree, Trimming, Sending
  <2> QED
    BY <2>1 DEF TypeOK
<1>10. CASE ReplyTrim
  <2> USE <1>10 DEF ReplyTrim, frame
  <2>1. ~Trimming /\ ~Trimming' /\ ~Sending /\ ~Sending'
    BY DEF MutexInv, Trimming, Sending
  <2> QED
    BY <2>1 DEF TypeOK
<1>11. CASE Front
  <2> USE <1>11 DEF Front, queue
  <2>1. Trimming' = Trimming /\ ~Sending /\ Sending' = SendsFrame /\ SendsFrame' = SendsFrame
    BY DEF Trimming, Sending, SendsFrame
  <2> QED
    BY <2>1 DEF TypeOK
<1>12. CASE PrepareCommand
  <2> USE <1>12 DEF PrepareCommand, queue
  <2>1. Trimming' = Trimming /\ ~Sending /\ ~Sending'
    BY DEF Trimming, Sending
  <2> QED
    BY <2>1 DEF TypeOK
<1>13. CASE PrepareFrame
  <2> USE <1>13 DEF PrepareFrame, queue
  <2>1. Trimming' = Trimming /\ Sending /\ Sending'
    BY DEF Trimming, Sending
  <2>2. Len(sent') = Len(sent) + 1 /\ Len(sent) \in Nat
    BY DEF TypeOK
  <2> QED
    BY <2>1, <2>2 DEF TypeOK
<1>14. CASE OnFrameSent
  <2> USE <1>14 DEF OnFrameSent, queue
  <2>1. Trimming' = Trimming /\ Sending = is_remove /\ Sending' = is_remove
    BY DEF Trimming, Sending, TypeOK
  <2> QED
    BY <2>1 DEF TypeOK
<1>15. CASE Pop
  <2> USE <1>15 DEF Pop, frame
  <2>1. Trimming' = Trimming /\ Sending /\ ~Sending' /\ data_ptr \in 1..start
    BY DEF Trimming, Sending, OrderInv, Handling
  <2> QED
    BY <2>1 DEF TypeOK
<1>16. ASSUME NEW p \in Producer PROVE ~FrontCollides(p) /\ ~PopCollides(p)
  BY DEF FrontCollides, PopCollides
<1>17. CASE UNCHANGED vars
  <2>1. Trimming' = Trimming /\ Sending' = Sending /\ SendsFrame' = SendsFrame
    BY <1>17 DEF vars, queue, frame, Trimming, Sending, SendsFrame
  <2> QED
    BY <1>17, <2>1 DEF vars, queue, frame
<1>18. ~Crash
  BY DEF Crash, queue
<1> QED
  BY <1>1, <1>2, <1>3, <1>4, <1>6, <1>7, <1>8, <1>9, <1>10, <1>11, <1>12,
     <1>13, <1>14, <1>15, <1>16, <1>17, <1>18 DEF Next, AddToTxQueue, WorkerThread

(* Once torn the queue stays torn, and every variable keeps its type.        *)
LEMMA TornStep ==
  ASSUME TypeOK, [Next]_vars
  PROVE  /\ torn => torn'
         /\ torn' => TypeOK'
<1> USE DEF TypeOK
<1>1. CASE UNCHANGED vars
  BY <1>1 DEF vars, queue, input, frame, Size
<1>2. ASSUME NEW p \in Producer, AddToTxQueue(p) PROVE (torn => torn') /\ (torn' => TypeOK')
  <2>1. CASE AddPush(p)
    BY <2>1 DEF AddPush, frame, input
  <2>2. CASE AddTrim(p)
    BY <2>2 DEF AddTrim, frame, input
  <2>3. CASE AddNotify(p)
    BY <2>3 DEF AddNotify, Notify, frame, input, Pcs
  <2> QED
    BY <1>2, <2>1, <2>2, <2>3 DEF AddToTxQueue
<1>3. CASE OnDataReceived
  BY <1>3 DEF OnDataReceived, Notify, Pcs, queue, frame
<1>4. ASSUME NEW from, NEW to \in Pcs, Goto(from, to) PROVE (torn => torn') /\ (torn' => TypeOK')
  BY <1>4 DEF Goto, queue, input, frame
<1>5. CASE OpenPort \/ OpenFails \/ Retry \/ LockedOut
  BY <1>4, <1>5 DEF OpenPort, OpenFails, Retry, LockedOut, Pcs
<1>6. CASE Wait \/ Sleep \/ Timeout \/ Wake \/ Drained
  BY <1>4, <1>6 DEF Wait, Sleep, Timeout, Wake, Drained, Pcs
<1>7. CASE ProcessReceivedFrames \/ ReceiveThrows
  BY <1>7 DEF ProcessReceivedFrames, ReceiveThrows, Pcs, queue, frame
<1>8. CASE ResetNotification
  BY <1>8 DEF ResetNotification, Pcs, queue, frame, input
<1>9. CASE ReplyPush
  BY <1>9 DEF ReplyPush, Pcs, frame
<1>10. CASE ReplyTrim
  BY <1>10 DEF ReplyTrim, Pcs, frame, input
<1>11. CASE Front
  BY <1>11 DEF Front, Pcs, queue, input, Unknown
<1>12. CASE PrepareCommand
  <2>1. device_state' \in 0..InitCommands
    BY <1>12 DEF PrepareCommand, SendsFrame, InitCommands
  <2> QED
    BY <1>12, <2>1 DEF PrepareCommand, Pcs, queue, input
<1>13. CASE PrepareFrame
  <2>1. sent' \in Seq(Nat)
    BY <1>13 DEF PrepareFrame
  <2> QED
    BY <1>13, <2>1 DEF PrepareFrame, Pcs, queue, input
<1>14. CASE OnFrameSent
  BY <1>14 DEF OnFrameSent, Pcs, queue, input
<1>15. CASE Pop
  BY <1>15 DEF Pop, Pcs, frame, input
<1>16. ASSUME NEW p \in Producer, AccessOf(p)
       PROVE  /\ producer' \in [Producer -> {"idle", "trim", "notify"}]
              /\ finish' \in Nat \ {0} /\ overflows' \in Nat
  BY <1>16 DEF AccessOf
<1>17. ASSUME NEW p \in Producer, FrontCollides(p) PROVE torn' /\ TypeOK'
  BY <1>16, <1>17 DEF FrontCollides, Pcs, input, Unknown
<1>18. ASSUME NEW p \in Producer, PopCollides(p) PROVE torn' /\ TypeOK'
  <2>1. start' \in Nat \ {0}
    BY <1>18 DEF PopCollides
  <2> QED
    BY <1>16, <1>18, <2>1 DEF PopCollides, Pcs, input, frame
<1>19. CASE Crash
  BY <1>19 DEF Crash, Pcs, queue, input, frame
<1> QED
  BY <1>1, <1>2, <1>3, <1>5, <1>6, <1>7, <1>8, <1>9, <1>10, <1>11, <1>12, <1>13,
     <1>14, <1>15, <1>17, <1>18, <1>19 DEF Next, WorkerThread

(* The queue is torn, or the invariant of the queue holds.                   *)
QueueInv == TypeOK /\ (torn \/ (IInv /\ CountInv))

LEMMA QueueStep == QueueInv /\ [Next]_vars => QueueInv'
<1> SUFFICES ASSUME QueueInv, [Next]_vars PROVE QueueInv'
  OBVIOUS
<1>1. CASE torn'
  BY <1>1, TornStep DEF QueueInv
<1>2. CASE ~torn'
  <2>1. IInv /\ CountInv
    BY <1>2, TornStep DEF QueueInv
  <2>2. IInv' /\ CountInv'
    BY <1>2, <2>1, NextIInv, CountStep
  <2> QED
    BY <2>2 DEF QueueInv, IInv
<1> QED
  BY <1>1, <1>2

(* The inductive invariant holds in every reachable state. *)
THEOREM Invariant == Spec => []QueueInv
<1>1. Init => QueueInv
  BY InitIInv, InitCount DEF QueueInv, IInv
<1> QED
  BY <1>1, QueueStep, PTL DEF Spec

(* Types, and the bound of the transmit queue. *)
THEOREM TypeCorrect == Spec => []TypeOK
<1>1. QueueInv => TypeOK
  BY DEF QueueInv
<1> QED
  BY <1>1, Invariant, PTL

(* No thread pops an empty m_TxQueue, in spite of the unlocked accesses of   *)
(* SendPendingCanFrames, before two of them overlapped.                      *)
THEOREM PopsAreSafe == Spec => []NeverPopsEmpty
<1>1. QueueInv => NeverPopsEmpty
  BY DEF QueueInv, IInv, TypeOK, SizeInv, NeverPopsEmpty, Handling, Size
<1> QED
  BY <1>1, Invariant, PTL

(* Before that the frames on the serial port are in the order of the         *)
(* AddToTxQueue calls and without repetition.                                *)
THEOREM FramesInOrder == Spec => []SentInOrder
<1>1. QueueInv => SentInOrder
  BY DEF QueueInv, IInv, OrderInv, SentInOrder
<1> QED
  BY <1>1, Invariant, PTL

LEMMA UpToCardinality ==
  ASSUME NEW n \in Nat
  PROVE  IsFiniteSet(1..n) /\ Cardinality(1..n) = n
  BY FS_Interval

(* Numbers in increasing order are as many as their set has elements. *)
LEMMA RisingCardinality ==
  ASSUME ~torn, SentInOrder, sent \in Seq(Nat \ {0}), NEW n \in Nat,
         SentFrames \subseteq 1..n
  PROVE  IsFiniteSet(SentFrames) /\ Cardinality(SentFrames) >= Len(sent)
<1> DEFINE f == [i \in 1..Len(sent) |-> sent[i]]
<1>1. Len(sent) \in Nat
  OBVIOUS
<1>2. IsFiniteSet(1..n)
  BY FS_Interval
<1>3. IsFiniteSet(SentFrames)
  BY <1>2, FS_Subset
<1>4. f \in [1..Len(sent) -> SentFrames]
  BY DEF SentFrames
<1>5. \A i, j \in 1..Len(sent) : f[i] = f[j] => i = j
  <2> SUFFICES ASSUME NEW i \in 1..Len(sent), NEW j \in 1..Len(sent), i # j
               PROVE  sent[i] # sent[j]
    OBVIOUS
  <2>1. sent[i] \in Nat /\ sent[j] \in Nat
    OBVIOUS
  <2>2. CASE i < j
    BY <2>1, <2>2 DEF SentInOrder
  <2>3. CASE j < i
    BY <2>1, <2>3 DEF SentInOrder
  <2> QED
    BY <1>1, <2>2, <2>3
<1>6. f \in Injection(1..Len(sent), SentFrames)
  BY <1>4, <1>5, Zenon DEF Injection, IsInjective
<1>7. Cardinality(1..Len(sent)) = Len(sent)
  BY <1>1, UpToCardinality
<1> HIDE DEF f
<1> QED
  BY <1>3, <1>6, <1>7, FS_Injection

LEMMA LostIsPaid == IInv /\ CountInv => LossNeedsOverflow
<1> SUFFICES ASSUME IInv, CountInv PROVE LossNeedsOverflow
  OBVIOUS
<1> USE DEF IInv
<1> DEFINE n == NextUnsent - 1
           Gone == SentFrames \cup (IF InFlight = <<>> THEN {} ELSE {data_ptr})
<1>1. n \in Nat /\ n >= start - 1
  BY DEF TypeOK, NextUnsent
<1>2. \A i \in 1..Len(sent) : sent[i] \in 1..n
  <2> SUFFICES ASSUME NEW i \in 1..Len(sent) PROVE sent[i] \in 1..n
    OBVIOUS
  <2>1. sent[i] \in Nat \ {0}
    BY DEF OrderInv
  <2>2. CASE Handling /\ pc # "prepare" /\ is_remove
    <3>1. sent[i] < data_ptr + 1 /\ data_ptr \in 1..start
      BY <2>2 DEF OrderInv, Before
    <3>2. Sending
      BY <2>2 DEF Handling, Sending
    <3> QED
      BY <2>1, <3>1, <3>2 DEF NextUnsent, SendingFront, TypeOK
  <2>3. CASE ~(Handling /\ pc # "prepare" /\ is_remove)
    <3>1. sent[i] < start
      BY <2>3 DEF OrderInv, Before
    <3> QED
      BY <1>1, <2>1, <3>1 DEF TypeOK
  <2> QED
    BY <2>2, <2>3
<1>3. SentFrames \subseteq 1..n
  BY <1>2 DEF SentFrames
<1>4. IsFiniteSet(SentFrames) /\ Cardinality(SentFrames) >= Len(sent)
  BY <1>1, <1>3, RisingCardinality DEF TypeOK, OrderInv
<1>5. /\ Gone \subseteq 1..n
      /\ IsFiniteSet(Gone)
      /\ Cardinality(Gone) >= Len(sent) + Len(InFlight)
  <2>1. CASE pc = "prepare" /\ SendsFrame
    <3>1. InFlight = <<data_ptr>> /\ Gone = SentFrames \cup {data_ptr}
      BY <2>1 DEF InFlight
    <3>2. data_ptr \in 1..start /\ Before(data_ptr)
      BY <2>1 DEF OrderInv, Handling
    <3>3. data_ptr \in 1..n
      BY <1>1, <2>1, <3>2 DEF NextUnsent, SendingFront, Sending, TypeOK
    <3>4. data_ptr \notin SentFrames
      BY <3>2 DEF Before, SentFrames
    <3>5. IsFiniteSet(Gone) /\ Cardinality(Gone) = Cardinality(SentFrames) + 1
      BY <1>4, <3>1, <3>4, FS_AddElement
    <3>6. Cardinality(SentFrames) \in Nat
      BY <1>4, FS_CardinalityType
    <3>7. Len(InFlight) = 1 /\ Len(sent) \in Nat
      BY <3>1 DEF TypeOK
    <3> QED
      BY <1>3, <1>4, <3>1, <3>3, <3>5, <3>6, <3>7
  <2>2. CASE ~(pc = "prepare" /\ SendsFrame)
    <3>1. InFlight = <<>> /\ Gone = SentFrames
      BY <2>2 DEF InFlight
    <3>2. Len(InFlight) = 0 /\ Len(sent) \in Nat
      BY <3>1 DEF TypeOK
    <3> QED
      BY <1>3, <1>4, <3>1, <3>2
  <2> QED
    BY <2>1, <2>2
<1>6. Lost \subseteq (1..n) \ Gone
  <2> SUFFICES ASSUME NEW f \in Lost PROVE f \in 1..n /\ f \notin Gone
    OBVIOUS
  <2>1. f \in 1..(start - 1) /\ f \notin SentFrames
    BY DEF Lost
  <2>2. ~(pc = "prepare" /\ SendsFrame /\ data_ptr = f)
    BY DEF Lost
  <2> QED
    BY <1>1, <2>1, <2>2 DEF InFlight, TypeOK
<1>7. IsFiniteSet(1..n) /\ Cardinality(1..n) = n
  BY <1>1, UpToCardinality
<1> HIDE DEF n, Gone
<1>8. /\ IsFiniteSet((1..n) \ Gone)
      /\ Cardinality((1..n) \ Gone) = n - Cardinality(Gone)
  <2> DEFINE Upto == 1..n
  <2>1. Upto \cap Gone = Gone
    BY <1>5
  <2>2. IsFiniteSet(Upto) /\ Cardinality(Upto) = n
    BY <1>7
  <2> HIDE DEF Upto
  <2>3. /\ IsFiniteSet(Upto \ Gone)
        /\ Cardinality(Upto \ Gone) = Cardinality(Upto) - Cardinality(Upto \cap Gone)
    BY <2>2, FS_Difference, Zenon
  <2>4. IsFiniteSet(Upto \ Gone) /\ Cardinality(Upto \ Gone) = n - Cardinality(Gone)
    BY <2>1, <2>2, <2>3
  <2> QED
    BY <2>4 DEF Upto
<1>9. Cardinality(Lost) <= n - Cardinality(Gone)
  BY <1>6, <1>8, FS_Subset
<1>10. n - (Len(sent) + Len(InFlight)) <= overflows
  <2>1. Len(sent) \in Nat /\ Len(InFlight) \in Nat /\ overflows \in Nat
    BY DEF TypeOK, InFlight
  <2>2. 0 <= overflows - (n - Len(sent) - Len(InFlight))
    BY <1>1, <2>1 DEF CountInv, Owed, Credit, n
  <2> QED
    BY <1>1, <2>1, <2>2
<1>11. Cardinality(Lost) \in Nat /\ Cardinality(Gone) \in Nat
  BY <1>5, <1>6, <1>8, FS_Subset, FS_CardinalityType
<1> QED
  <2>1. Len(sent) \in Nat /\ Len(InFlight) \in Nat /\ overflows \in Nat
    BY DEF TypeOK, InFlight
  <2> QED
    BY <1>1, <1>5, <1>9, <1>10, <1>11, <2>1 DEF LossNeedsOverflow

(* Before two accesses overlapped only an overflow loses a frame, and at most *)
(* one: also when the worker pops another frame than the one it sent.        *)
THEOREM LossIsBounded == Spec => []LossNeedsOverflow
<1>1. QueueInv => LossNeedsOverflow
  BY LostIsPaid DEF QueueInv, LossNeedsOverflow
<1> QED
  BY <1>1, Invariant, PTL

-----------------------------------------------------------------------------
(* CanSerialPort implements CanTxFifo. *)

(* The frames k .. m - 1 as the abstract queue lists them. *)
Frames(k, m) == [i \in 1..(m - k) |-> k + i - 1]

LEMMA FramesAppend ==
  ASSUME NEW k \in Nat, NEW m \in Nat, k <= m
  PROVE  /\ Len(Frames(k, m)) = m - k
         /\ Append(Frames(k, m), m) = Frames(k, m + 1)
  BY DEF Frames

LEMMA FramesTail ==
  ASSUME NEW k \in Nat, NEW m \in Nat, k < m
  PROVE  /\ Frames(k, m) # <<>>
         /\ Head(Frames(k, m)) = k
         /\ Tail(Frames(k, m)) = Frames(k + 1, m)
  BY DEF Frames

(* The abstract state in terms of Frames. *)
LEMMA Mapping ==
  ASSUME IInv, CountInv
  PROVE  /\ Pending = Frames(NextUnsent, finish)
         /\ NextUnsent \in Nat /\ finish \in Nat /\ NextUnsent <= finish
         /\ overflows \in Nat /\ Len(sent) \in Nat /\ Len(InFlight) \in Nat
         /\ Credit \in Int /\ Owed <= Credit
<1>1. Len(sent) \in Nat /\ Len(InFlight) \in Nat
  BY DEF IInv, TypeOK, InFlight
<1>2. NextUnsent \in Nat /\ NextUnsent <= finish
  BY DEF IInv, TypeOK, SizeInv, Size, Handling, NextUnsent, SendingFront, Sending
<1> QED
  BY <1>1, <1>2 DEF Pending, Frames, Credit, CountInv, IInv, TypeOK

LEMMA InitFifo == Init => Fifo!Init
<1> SUFFICES ASSUME Init PROVE Fifo!Init
  OBVIOUS
<1>1. InFlight = <<>> /\ NextUnsent = 1
  BY DEF Init, InFlight, NextUnsent, SendingFront, Sending
<1>2. Pending = <<>>
  BY <1>1 DEF Init, Pending
<1>3. sent = <<>> /\ overflows = 0 /\ Len(sent) = 0 /\ Len(InFlight) = 0
  BY <1>1 DEF Init
<1>4. Credit = 0
  <2>1. NextUnsent = 1 /\ overflows = 0 /\ Len(sent) = 0 /\ Len(InFlight) = 0
    BY <1>1, <1>3
  <2> QED
    BY <2>1 DEF Credit
<1>5. torn = FALSE
  BY DEF Init
<1> QED
  BY <1>1, <1>2, <1>3, <1>4, <1>5, Zenon DEF Fifo!Init

(* A step that leaves the mapped positions alone is a stutter. *)
LEMMA Stutters ==
  ASSUME IInv, IInv', UNCHANGED <<NextUnsent, finish, InFlight, sent, overflows>>
  PROVE  UNCHANGED Fifo!vars
BY DEF Fifo!vars, Pending, Credit, IInv, TypeOK

(* A frame that is accepted, with or without an overflow. *)
LEMMA Submits ==
  ASSUME IInv, CountInv, (IInv /\ CountInv)', finish \in 1..MaxFrames,
         finish' = finish + 1, UNCHANGED <<NextUnsent, InFlight, sent>>,
         overflows' = IF Size + 1 > TxQueueMax THEN overflows + 1 ELSE overflows
  PROVE  Fifo!Submit(finish)
<1>1. /\ Pending = Frames(NextUnsent, finish)
      /\ NextUnsent \in Nat /\ finish \in Nat /\ NextUnsent <= finish
      /\ overflows \in Nat /\ Len(sent) \in Nat /\ Len(InFlight) \in Nat
  BY Mapping
<1>2. Pending' = Append(Pending, finish) /\ Len(Pending) = finish - NextUnsent
  BY <1>1, FramesAppend DEF Pending, Frames
<1>3. NextUnsent <= start + 1 /\ start \in Nat
  BY DEF NextUnsent, IInv, TypeOK
<1>4. Credit' = IF Size + 1 > TxQueueMax THEN Credit + 1 ELSE Credit
  BY <1>1 DEF Credit
<1>5. Size + 1 > TxQueueMax => Len(Pending) + 1 >= TxQueueMax
  BY <1>1, <1>2, <1>3 DEF Size
<1> QED
  BY <1>2, <1>4, <1>5 DEF Fifo!Submit

(* A frame that leaves the queue without having been copied. *)
LEMMA Discards ==
  ASSUME IInv, CountInv, (IInv /\ CountInv)', Owed > 0, NextUnsent < finish,
         NextUnsent' = NextUnsent + 1, UNCHANGED <<finish, InFlight, sent, overflows>>
  PROVE  Fifo!Discard
<1>1. /\ Pending = Frames(NextUnsent, finish)
      /\ NextUnsent \in Nat /\ finish \in Nat
      /\ overflows \in Nat /\ Len(sent) \in Nat /\ Len(InFlight) \in Nat
      /\ Credit \in Int /\ Owed <= Credit
  BY Mapping
<1>2. Pending # <<>> /\ Tail(Pending) = Frames(NextUnsent + 1, finish)
  BY <1>1, FramesTail, Zenon
<1>3. Pending' = Tail(Pending)
  BY <1>2 DEF Pending, Frames
<1>4. Credit > 0 /\ Credit' = Credit - 1
  <2>1. Owed \in Nat
    BY DEF Owed
  <2> QED
    BY <1>1, <2>1 DEF Credit
<1> QED
  BY <1>2, <1>3, <1>4 DEF Fifo!Discard

LEMMA CallerImplements ==
  ASSUME IInv, CountInv, (IInv /\ CountInv)', NEW p \in Producer, AddToTxQueue(p)
  PROVE  [Fifo!Next]_Fifo!vars
<1>1. CASE AddPush(p)
  <2> USE <1>1 DEF AddPush, frame
  <2>1. UNCHANGED <<NextUnsent, InFlight, sent>>
    BY DEF NextUnsent, InFlight, SendingFront, Sending, SendsFrame
  <2>2. finish \in 1..MaxFrames
    BY DEF IInv, TypeOK
  <2>3. Fifo!Submit(finish)
    BY <2>1, <2>2, Submits
  <2> QED
    BY <2>2, <2>3 DEF Fifo!Next, IInv, TypeOK
<1>2. CASE AddTrim(p)
  <2> USE <1>2 DEF AddTrim, frame
  <2>1. UNCHANGED <<finish, InFlight, sent, overflows>>
    BY DEF InFlight, SendsFrame
  <2>2. Trimming /\ finish > start /\ start \in Nat
    BY DEF Trimming, IInv, TypeOK, SizeInv, Size
  <2>3. CASE SendingFront
    <3>1. NextUnsent' = NextUnsent
      BY <2>2, <2>3 DEF NextUnsent, SendingFront
    <3> QED
      BY <2>1, <3>1, Stutters
  <2>4. CASE ~SendingFront
    <3>1. ~SendingFront'
      BY <2>2, <2>4 DEF SendingFront, Sending, SendsFrame, IInv, OrderInv, Handling
    <3>2. NextUnsent' = NextUnsent + 1 /\ NextUnsent < finish
      BY <2>2, <2>4, <3>1 DEF NextUnsent
    <3>3. Owed > 0
      BY <2>2 DEF Owed
    <3> QED
      BY <2>1, <3>2, <3>3, Discards DEF Fifo!Next, IInv, TypeOK
  <2> QED
    BY <2>3, <2>4
<1>3. CASE AddNotify(p)
  <2>1. UNCHANGED <<NextUnsent, finish, InFlight, sent, overflows>>
    BY <1>3 DEF AddNotify, Notify, frame, NextUnsent, InFlight, SendingFront,
                Sending, SendsFrame
  <2> QED
    BY <2>1, Stutters
<1> QED
  BY <1>1, <1>2, <1>3 DEF AddToTxQueue

LEMMA PopImplements ==
  ASSUME IInv, CountInv, (IInv /\ CountInv)', pc = "pop", pc' = "front",
         start' = start + 1, UNCHANGED <<finish, overflows, frame>>
  PROVE  [Fifo!Next]_Fifo!vars
<1>1. UNCHANGED <<finish, InFlight, sent, overflows>>
  BY DEF InFlight, frame
<1>2. Sending /\ ~Sending' /\ start \in Nat /\ data_ptr \in Nat
  BY DEF Sending, IInv, OrderInv, TypeOK
<1>3. CASE data_ptr = start
  <2>1. NextUnsent' = NextUnsent
    BY <1>2, <1>3 DEF NextUnsent, SendingFront
  <2> QED
    BY <1>1, <2>1, Stutters
<1>4. CASE data_ptr # start
  <2>1. NextUnsent' = NextUnsent + 1 /\ NextUnsent < finish
    BY <1>2, <1>4 DEF NextUnsent, SendingFront, IInv, SizeInv, Size, Handling, TypeOK
  <2>2. Owed > 0
    BY <1>2, <1>4 DEF Owed
  <2> QED
    BY <1>1, <2>1, <2>2, Discards DEF Fifo!Next, IInv, TypeOK
<1> QED
  BY <1>3, <1>4

LEMMA WorkerImplements ==
  ASSUME IInv, CountInv, (IInv /\ CountInv)', WorkerThread
  PROVE  [Fifo!Next]_Fifo!vars
<1>1. ASSUME pc \notin {"prepare", "sent", "pop"}, pc' \notin {"prepare", "sent", "pop"},
             UNCHANGED <<start, finish, overflows, frame>>
      PROVE  [Fifo!Next]_Fifo!vars
  <2>1. UNCHANGED <<NextUnsent, finish, InFlight, sent, overflows>>
    BY <1>1 DEF frame, NextUnsent, InFlight, SendingFront, Sending
  <2> QED
    BY <2>1, Stutters
<1>2. CASE OpenPort \/ OpenFails \/ Retry \/ LockedOut
  BY <1>1, <1>2 DEF OpenPort, OpenFails, Retry, LockedOut, Goto, queue
<1>3. CASE Wait \/ Sleep \/ Timeout \/ Wake \/ Drained
  BY <1>1, <1>3 DEF Wait, Sleep, Timeout, Wake, Drained, Goto, queue
<1>4. CASE ProcessReceivedFrames \/ ReceiveThrows \/ ResetNotification
  BY <1>1, <1>4 DEF ProcessReceivedFrames, ReceiveThrows, ResetNotification, queue
<1>5. CASE ReplyPush
  <2> USE <1>5 DEF ReplyPush, frame
  <2>1. UNCHANGED <<NextUnsent, InFlight, sent>>
    BY DEF NextUnsent, InFlight, SendingFront, Sending
  <2>2. finish \in 1..MaxFrames
    BY DEF IInv, TypeOK
  <2>3. Fifo!Submit(finish)
    BY <2>1, <2>2, Submits
  <2> QED
    BY <2>2, <2>3 DEF Fifo!Next, IInv, TypeOK
<1>6. CASE ReplyTrim
  <2> USE <1>6 DEF ReplyTrim, frame
  <2>1. UNCHANGED <<finish, InFlight, sent, overflows>>
    BY DEF InFlight
  <2>2. NextUnsent' = NextUnsent + 1 /\ NextUnsent < finish
    BY DEF NextUnsent, SendingFront, Sending, IInv, SizeInv, Size, TypeOK
  <2>3. Owed > 0
    BY DEF Owed
  <2> QED
    BY <2>1, <2>2, <2>3, Discards DEF Fifo!Next, IInv, TypeOK
<1>7. CASE Front
  <2> USE <1>7 DEF Front, queue
  <2>1. NextUnsent = start /\ InFlight = <<>> /\ SendsFrame' = SendsFrame
    BY DEF NextUnsent, InFlight, SendingFront, Sending, SendsFrame
  <2>2. start \in Nat /\ finish \in Nat /\ start < finish
    BY DEF IInv, TypeOK, SizeInv, Size
  <2>3. CASE SendsFrame
    <3>1. NextUnsent' = start + 1 /\ InFlight' = <<start>>
      BY <2>1, <2>3 DEF NextUnsent, InFlight, SendingFront, Sending, IInv
    <3>2. Pending = Frames(start, finish) /\ Pending' = Frames(start + 1, finish)
      BY <2>1, <3>1 DEF Pending, Frames
    <3>3. Pending # <<>> /\ Head(Pending) = start /\ Tail(Pending) = Pending'
      BY <2>2, <3>2, FramesTail, Zenon
    <3>4. Credit' = Credit
      <4>1. Len(sent) \in Nat /\ overflows \in Nat
        BY DEF IInv, TypeOK
      <4> QED
        BY <2>1, <2>2, <3>1, <4>1 DEF Credit
    <3>5. Fifo!Take
      BY <2>1, <3>1, <3>3, <3>4 DEF Fifo!Take
    <3> QED
      BY <3>5 DEF Fifo!Next, IInv, TypeOK
  <2>4. CASE ~SendsFrame
    <3>1. UNCHANGED <<NextUnsent, finish, InFlight, sent, overflows>>
      BY <2>1, <2>4 DEF NextUnsent, InFlight, SendingFront, Sending
    <3> QED
      BY <3>1, Stutters
  <2> QED
    BY <2>3, <2>4
<1>8. CASE PrepareCommand
  <2>1. UNCHANGED <<NextUnsent, finish, InFlight, sent, overflows>>
    BY <1>8 DEF PrepareCommand, queue, NextUnsent, InFlight, SendingFront, Sending
  <2> QED
    BY <2>1, Stutters
<1>9. CASE PrepareFrame
  <2> USE <1>9 DEF PrepareFrame, queue
  <2>1. NextUnsent' = NextUnsent /\ InFlight = <<data_ptr>> /\ InFlight' = <<>>
    BY DEF NextUnsent, InFlight, SendingFront, Sending
  <2>2. Pending' = Pending
    BY <2>1 DEF Pending
  <2>3. sent' = sent \o InFlight /\ Len(sent') = Len(sent) + 1
    <3>1. sent \in Seq(Nat) /\ data_ptr \in Nat /\ sent' = Append(sent, data_ptr)
      BY DEF IInv, TypeOK
    <3> QED
      BY <2>1, <3>1
  <2>4. Credit' = Credit
    <3>1. Len(sent) \in Nat /\ overflows \in Nat /\ NextUnsent \in Nat
      BY DEF IInv, TypeOK, NextUnsent
    <3> QED
      BY <2>1, <2>3, <3>1 DEF Credit
  <2>5. Fifo!Transmit
    BY <2>1, <2>2, <2>3, <2>4 DEF Fifo!Transmit
  <2> QED
    BY <2>5 DEF Fifo!Next, IInv, TypeOK
<1>10. CASE OnFrameSent
  <2>1. UNCHANGED <<NextUnsent, finish, InFlight, sent, overflows>>
    BY <1>10 DEF OnFrameSent, queue, NextUnsent, InFlight, SendingFront, Sending,
                 IInv, TypeOK
  <2> QED
    BY <2>1, Stutters
<1>11. CASE Pop
  BY <1>11, PopImplements DEF Pop
<1>12. ASSUME NEW p \in Producer PROVE ~FrontCollides(p) /\ ~PopCollides(p)
  BY DEF FrontCollides, PopCollides, IInv
<1> QED
  BY <1>2, <1>3, <1>4, <1>5, <1>6, <1>7, <1>8, <1>9, <1>10, <1>11, <1>12
     DEF WorkerThread

LEMMA StepImplements ==
  ASSUME IInv, CountInv, (IInv /\ CountInv)', [Next]_vars
  PROVE  [Fifo!Next]_Fifo!vars
<1>1. ASSUME UNCHANGED <<pc, queue, frame>> PROVE [Fifo!Next]_Fifo!vars
  <2>1. UNCHANGED <<NextUnsent, finish, InFlight, sent, overflows>>
    BY <1>1 DEF queue, frame, NextUnsent, InFlight, SendingFront, Sending, SendsFrame
  <2> QED
    BY <2>1, Stutters
<1>2. CASE UNCHANGED vars
  BY <1>1, <1>2 DEF vars
<1>3. CASE OnDataReceived
  <2>1. UNCHANGED <<NextUnsent, finish, InFlight, sent, overflows>>
    BY <1>3 DEF OnDataReceived, Notify, queue, frame, NextUnsent, InFlight,
                SendingFront, Sending, SendsFrame
  <2> QED
    BY <2>1, Stutters
<1>4. ~Crash
  BY DEF Crash, queue, IInv
<1> QED
  BY <1>2, <1>3, <1>4, CallerImplements, WorkerImplements DEF Next

(* The transmit path, with its unlocked queue and its two devices, is the    *)
(* order preserving, bounded, lossy queue that CanTxFifo describes, up to    *)
(* the first overlap of two accesses.                                        *)
THEOREM Refinement == Spec => ImplementsFifo
<1>1. QueueInv /\ QueueInv' /\ [Next]_vars => [Fifo!Next]_Fifo!vars
  <2> SUFFICES ASSUME QueueInv, QueueInv', [Next]_vars PROVE [Fifo!Next]_Fifo!vars
    OBVIOUS
  <2>1. CASE torn'
    BY <2>1 DEF Fifo!Next, QueueInv, TypeOK
  <2>2. CASE ~torn'
    <3>1. ~torn
      BY <2>2, TornStep DEF QueueInv
    <3> QED
      BY <2>2, <3>1, StepImplements DEF QueueInv
  <2> QED
    BY <2>1, <2>2
<1> QED
  BY <1>1, InitFifo, Invariant, PTL DEF Spec, ImplementsFifo, Fifo!Spec
=============================================================================
