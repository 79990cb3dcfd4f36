----------------------------- MODULE BackupRuns -----------------------------
(***************************************************************************)
(* DirectoryBackup (src/src/DirectoryBackup.cpp): a backup runs on a       *)
(* thread of its own, rotates the old folders of each destination, copies  *)
(* the source into a new one, compares hashes and compresses; the main     *)
(* window shows its dialog, and its entries can be deleted under it.       *)
(* A source is its items, which copying may get right, wrong, refuse or    *)
(* throw at; a folder is how many of them it has.                          *)
(***************************************************************************)
EXTENDS Integers, FiniteSets, FiniteSetsExt, Sequences

CONSTANTS
  Sources,       \* the names of the backed up folders
  PrefixOf,      \* the pairs <<s, t>> of sources with t's name beginning with s's
  OrderOf,       \* the order of the names: [Sources -> Nat]
  Destinations,  \* [Sources -> Seq(destination)]
  Maxes,         \* the values of max_backups
  MaxFiles, MaxRuns \* bounds: items of a source, runs

VARIABLES
  bkEntries,     \* backups: the sources listed
  bkMax, bkHash, bkZip,   \* max_backups, calculate_hash, m_Compress of every source
  bkDisk,        \* by destination, the folders: [src, at, n, bad]
  bkNow,         \* the second, of which a folder has its name
  bkRun,         \* the run: [pc, src, to, item, from, fail, first]
  bkShow,        \* show_backup_dlg
  bkCancelled,   \* is_cancelled
  bkDialog,      \* backup_prog: "none", "open", "cancel": Cancel was pressed
  bkTold,        \* the message of the last run: "none", "completed", "failed"
  bkRuns,
  bkAlive,       \* the program
  bkThrew,       \* backup_future holds an exception
  bkGood,        \* history: by source and destination, when the last whole folder was made, 0 none
  bkSince,       \* history: and how often the destination was rotated since
  bkFreed        \* history: an entry was deleted or edited under its run

bkVars == <<bkEntries, bkMax, bkHash, bkZip, bkDisk, bkNow, bkRun, bkShow, bkCancelled, bkDialog, bkTold, bkRuns,
            bkAlive, bkThrew, bkGood, bkSince, bkFreed>>
bkConfig == <<bkMax, bkHash, bkZip>>
bkHistory == <<bkGood, bkSince, bkFreed>>

Places == UNION {{Destinations[s][i] : i \in DOMAIN Destinations[s]} : s \in Sources}

(* Names are ordered and told apart; max_backups is compared as a size_t.    *)
ASSUME BackupAssumption ==
  /\ Maxes \subseteq Nat /\ MaxFiles \in Nat
  /\ OrderOf \in [Sources -> Nat] /\ \A s, t \in Sources : OrderOf[s] = OrderOf[t] => s = t
  /\ \A s \in Sources : Destinations[s] \in Seq(Places)

Idle == [pc |-> "idle", src |-> "", to |-> 0, item |-> 0, from |-> 0, fail |-> FALSE, first |-> FALSE]
Place == Destinations[bkRun.src][bkRun.to]
Folder == CHOOSE f \in bkDisk[Place] : f.src = bkRun.src /\ f.at = bkNow

BackupInit ==
  /\ bkEntries = Sources
  /\ \E m \in Maxes, h \in BOOLEAN, z \in BOOLEAN :
       bkMax = [s \in Sources |-> m] /\ bkHash = [s \in Sources |-> h] /\ bkZip = [s \in Sources |-> z]
  /\ bkDisk = [d \in Places |-> {}]
  /\ bkNow = 1 /\ bkRun = Idle /\ bkShow = FALSE /\ bkCancelled = FALSE
  /\ bkDialog = "none" /\ bkTold = "none" /\ bkRuns = 0 /\ bkAlive = TRUE /\ bkThrew = FALSE
  /\ bkGood = [s \in Sources |-> [d \in Places |-> 0]]
  /\ bkSince = [s \in Sources |-> [d \in Places |-> 0]]
  /\ bkFreed = FALSE

-----------------------------------------------------------------------------
(* BackupFile, from the tray's menu, which is disabled while a run is in     *)
(* progress: the result of the last run is fetched, and an exception of it   *)
(* is thrown into the event filter, which ends the program.                  *)
BackupFile(s) ==
  /\ bkAlive /\ s \in bkEntries /\ bkRun.pc = "idle" /\ bkRuns < MaxRuns
  /\ IF bkThrew THEN bkAlive' = FALSE /\ UNCHANGED <<bkRun, bkRuns, bkNow>>
     ELSE /\ bkRun' = [Idle EXCEPT !.pc = "begin", !.src = s] /\ bkRuns' = bkRuns + 1
          /\ bkNow' \in {bkNow + 1} \cup (IF bkRuns < 2 THEN {bkNow} ELSE {})     \* bound: or in the same second
          /\ UNCHANGED bkAlive
  /\ bkTold' = "none" /\ bkFreed' = FALSE
  /\ UNCHANGED <<bkEntries, bkConfig, bkDisk, bkShow, bkCancelled, bkDialog, bkThrew, bkGood, bkSince>>

Step(pc) ==
  /\ bkAlive /\ bkRun.pc = pc
  /\ UNCHANGED <<bkEntries, bkConfig, bkNow, bkDialog, bkRuns, bkFreed>>

(* DoBackup: a source that does not exist ends the run without a word.       *)
InvalidSource ==
  /\ Step("begin") /\ bkRun' = Idle
  /\ UNCHANGED <<bkDisk, bkShow, bkCancelled, bkTold, bkAlive, bkThrew, bkGood, bkSince>>
Begin ==
  /\ Step("begin") /\ bkShow' = TRUE /\ bkRun' = [bkRun EXCEPT !.pc = "uncancel"]
  /\ UNCHANGED <<bkDisk, bkCancelled, bkTold, bkAlive, bkThrew, bkGood, bkSince>>
Uncancel ==
  /\ Step("uncancel") /\ bkCancelled' = FALSE /\ bkRun' = [bkRun EXCEPT !.pc = "rotate", !.to = 1]
  /\ UNCHANGED <<bkDisk, bkShow, bkTold, bkAlive, bkThrew, bkGood, bkSince>>

(* BackupRotation, of one destination: the folders whose name begins with    *)
(* the source's, and the first of them by name.                              *)
Matching(s, d) == {f \in bkDisk[d] : f.src = s \/ <<s, f.src>> \in PrefixOf}
FirstByName(f, g) == OrderOf[f.src] < OrderOf[g.src] \/ (f.src = g.src /\ f.at < g.at)
NewestFirst(S) == CHOOSE f \in S : \A g \in S \ {f} : FirstByName(g, f)      \* mutant: the last of them
OldestFirst(S) == CHOOSE f \in S : \A g \in S \ {f} : FirstByName(f, g)
BackupRotation ==
  LET old == Matching(bkRun.src, Place)
      next == [bkRun EXCEPT !.to = @ + 1]
  IN  /\ Step("rotate")
      /\ IF Cardinality(old) >= bkMax[bkRun.src]
         THEN IF old = {} THEN bkAlive' = FALSE /\ UNCHANGED <<bkDisk, bkRun>>   \* *files.begin() of none
              ELSE /\ bkDisk' = [bkDisk EXCEPT ![Place] = @ \ {OldestFirst(old)}]
                   /\ bkRun' = next /\ UNCHANGED bkAlive
         ELSE bkRun' = next /\ UNCHANGED <<bkDisk, bkAlive>>
      /\ bkSince' = [s \in Sources |-> IF s = bkRun.src \/ <<bkRun.src, s>> \in PrefixOf
                                       THEN [bkSince[s] EXCEPT ![Place] = @ + 1] ELSE bkSince[s]]
      /\ UNCHANGED <<bkShow, bkCancelled, bkTold, bkThrew, bkGood>>
Rotation == bkRun.pc = "rotate" /\ bkRun.to <= Len(Destinations[bkRun.src]) /\ BackupRotation
Rotated ==
  /\ Step("rotate") /\ bkRun.to > Len(Destinations[bkRun.src])
  /\ bkRun' = [bkRun EXCEPT !.pc = "folder", !.to = 1]
  /\ UNCHANGED <<bkDisk, bkShow, bkCancelled, bkTold, bkAlive, bkThrew, bkGood, bkSince>>

-----------------------------------------------------------------------------
(* The destinations in turn. *)
Done == [Idle EXCEPT !.src = bkRun.src]
Leave == bkRun' = Done /\ UNCHANGED <<bkDisk, bkShow, bkTold, bkThrew, bkGood, bkSince>>
Copies == UNCHANGED <<bkShow, bkCancelled, bkTold, bkAlive, bkThrew, bkGood, bkSince>>

(* "Backup was cancelled by user": the run leaves with the dialog still on.  *)
Cancelled ==
  /\ (Step("folder") /\ bkRun.to <= Len(Destinations[bkRun.src])) \/ (Step("copy") /\ bkRun.item < MaxFiles)
  /\ bkCancelled /\ Leave /\ UNCHANGED <<bkCancelled, bkAlive>>

CreateFolder ==
  /\ Step("folder") /\ ~bkCancelled /\ bkRun.to <= Len(Destinations[bkRun.src])
  /\ \/ /\ bkRun' = [bkRun EXCEPT !.pc = "copy", !.item = 0]
        /\ bkDisk' = IF \E f \in bkDisk[Place] : f.src = bkRun.src /\ f.at = bkNow THEN bkDisk
                     ELSE [bkDisk EXCEPT ![Place] = @ \cup {[src |-> bkRun.src, at |-> bkNow, n |-> 0, bad |-> FALSE]}]
     \/ bkRun' = [bkRun EXCEPT !.pc = "end", !.fail = TRUE] /\ UNCHANGED bkDisk
  /\ Copies

(* An item is copied, rightly or not; its source is read for the hash in the *)
(* first destination only.                                                   *)
Copy ==
  /\ Step("copy") /\ ~bkCancelled /\ bkRun.item < MaxFiles
  /\ bkRun.item >= Folder.n          \* else it is there already
  /\ \E bad \in BOOLEAN :
       bkDisk' = [bkDisk EXCEPT ![Place] = (@ \ {Folder}) \cup {[Folder EXCEPT !.n = @ + 1, !.bad = @ \/ bad]}]
  /\ bkRun' = [bkRun EXCEPT !.item = @ + 1, !.from = IF bkRun.first THEN @ ELSE @ + 1]
  /\ Copies
CopyFails ==      \* copy_file or create_directory reports an error, as it does for what exists
  /\ Step("copy") /\ ~bkCancelled /\ bkRun.item < MaxFiles
  /\ bkRun' = [bkRun EXCEPT !.pc = "hash", !.fail = TRUE]
  /\ UNCHANGED bkDisk /\ Copies
CopyThrows ==     \* create_symlink, the iterator, file_size
  /\ Step("copy") /\ ~bkCancelled /\ bkRun.item < MaxFiles
  /\ bkThrew' = TRUE /\ bkRun' = Idle
  /\ UNCHANGED <<bkDisk, bkShow, bkCancelled, bkTold, bkAlive, bkGood, bkSince>>
ItemsCopied ==
  /\ Step("copy") /\ bkRun.item = MaxFiles /\ bkRun' = [bkRun EXCEPT !.pc = "hash"]
  /\ UNCHANGED bkDisk /\ Copies

(* The hash of what was copied against that of what was read. *)
SameHashCounted == bkRun.item = bkRun.from      \* mutant: of the lengths
SameHash == bkRun.item = bkRun.from /\ ~Folder.bad
Hash ==
  /\ Step("hash")
  /\ bkRun' = IF ~bkHash[bkRun.src] THEN [bkRun EXCEPT !.pc = "zip"]
              ELSE IF SameHash THEN [bkRun EXCEPT !.pc = "zip", !.first = TRUE]
              ELSE [bkRun EXCEPT !.pc = "end", !.fail = TRUE, !.first = TRUE]
  /\ bkGood' = IF bkRun'.fail \/ Folder.bad THEN bkGood ELSE [bkGood EXCEPT ![bkRun.src][Place] = bkNow]
  /\ bkSince' = IF bkRun'.fail \/ Folder.bad THEN bkSince ELSE [bkSince EXCEPT ![bkRun.src][Place] = 0]
  /\ UNCHANGED <<bkDisk, bkShow, bkCancelled, bkTold, bkAlive, bkThrew>>

(* CompressAndRemoveFinalBackup removes the folder, and the archive has its  *)
(* name, or is not there: find() of the words that are not found is true.    *)
Compress ==
  /\ Step("zip") /\ bkRun' = [bkRun EXCEPT !.pc = "folder", !.to = @ + 1, !.item = 0]
  /\ IF bkZip[bkRun.src] /\ ~bkRun.fail
     THEN \/ UNCHANGED <<bkDisk, bkGood>>
          \/ /\ bkDisk' = [bkDisk EXCEPT ![Place] = @ \ {Folder}]
             /\ bkGood' = [bkGood EXCEPT ![bkRun.src][Place] = 0]
     ELSE UNCHANGED <<bkDisk, bkGood>>
  /\ UNCHANGED <<bkShow, bkCancelled, bkTold, bkAlive, bkThrew, bkSince>>

End ==
  /\ Step("end") \/ (Step("folder") /\ bkRun.to > Len(Destinations[bkRun.src]))
  /\ bkTold' = IF bkRun.fail THEN "failed" ELSE "completed"
  /\ bkShow' = FALSE /\ bkRun' = Done
  /\ UNCHANGED <<bkDisk, bkCancelled, bkAlive, bkThrew, bkGood, bkSince>>

-----------------------------------------------------------------------------
Window ==
  /\ bkAlive
  /\ UNCHANGED <<bkConfig, bkDisk, bkNow, bkRun, bkTold, bkRuns, bkAlive, bkThrew, bkGood, bkSince>>

(* HandleBackupProgressDialog, of every 100 ms. *)
HandleBackupProgressDialog ==
  LET shown == IF bkShow /\ bkDialog = "none" /\ ~bkCancelled THEN "open" ELSE bkDialog
  IN  /\ Window /\ (bkRuns < 2 \/ bkRun.pc = "idle")      \* bound: within the first run, or between two
      /\ bkCancelled' = (bkCancelled \/ shown = "cancel")
      /\ bkDialog' = IF shown = "cancel" \/ ~bkShow THEN "none" ELSE shown
      /\ UNCHANGED <<bkEntries, bkShow, bkFreed>>

PressCancel ==     \* bound: of the first run
  /\ bkRuns < 2 /\ Window /\ bkDialog = "open" /\ bkDialog' = "cancel"
  /\ UNCHANGED <<bkEntries, bkShow, bkCancelled, bkFreed>>

(* Delete in the panel, and a reload, which makes the entries anew: the run  *)
(* goes on with the entry that is freed.  Bound: before the second run.      *)
DeleteEntry(s) ==
  /\ bkRuns < 2 /\ Window /\ s \in bkEntries /\ bkEntries' = bkEntries \ {s}
  /\ bkFreed' = (bkFreed \/ bkRun.src = s)
  /\ UNCHANGED <<bkShow, bkCancelled, bkDialog>>
ReloadEntries ==
  /\ bkRuns < 2 /\ Window /\ bkEntries' = Sources
  /\ bkFreed' = (bkFreed \/ bkRun.pc # "idle")
  /\ UNCHANGED <<bkShow, bkCancelled, bkDialog>>


(* Another destination, ignore list or hash setting in the panel, of the     *)
(* entry that runs: the run walks through the vectors that are replaced, and *)
(* has a hash buffer only if hashes were on when it began.                   *)
EditEntry(s) ==
  /\ bkRuns < 2 /\ Window /\ s \in bkEntries /\ bkRun.src = s /\ bkRun.pc # "idle"
  /\ bkFreed' = TRUE
  /\ UNCHANGED <<bkEntries, bkShow, bkCancelled, bkDialog>>

BackupNext ==
  \/ ~bkFreed /\ \/ InvalidSource \/ Begin \/ Uncancel \/ Rotation \/ Rotated
                 \/ Cancelled \/ CreateFolder \/ Copy \/ CopyFails \/ CopyThrows \/ ItemsCopied \/ Hash \/ Compress \/ End
  \/ HandleBackupProgressDialog \/ PressCancel \/ ReloadEntries
  \/ \E s \in Sources : BackupFile(s) \/ DeleteEntry(s) \/ EditEntry(s)

BackupSpec == BackupInit /\ [][BackupNext]_bkVars

-----------------------------------------------------------------------------
(* Properties. *)

(* The last whole backup of a source stays in a destination that no source   *)
(* of a longer or shorter name uses, until it was rotated max_backups times  *)
(* more: runs that are cancelled, fail or throw push it out like the others, *)
(* and the only folder there is goes before the first item is copied.        *)
Alone(s, d) == \A t \in Sources \ {s} : d \in {Destinations[t][i] : i \in DOMAIN Destinations[t]} =>
                                          <<s, t>> \notin PrefixOf /\ <<t, s>> \notin PrefixOf
GoodKept ==
  \A s \in Sources : \A d \in Places :
    Alone(s, d) /\ bkGood[s][d] # 0 /\ bkSince[s][d] < bkMax[s] =>
      \E f \in bkDisk[d] : f.src = s /\ f.at = bkGood[s][d] /\ f.n = MaxFiles /\ ~f.bad

(* The user is told that a backup is complete only when every destination    *)
(* has all of it, with hashes: what was copied wrongly is found by them only, *)
(* and what the compression left nothing of by nobody.                       *)
Complete(s) ==
  \A i \in DOMAIN Destinations[s] : \E f \in bkDisk[Destinations[s][i]] : f.src = s /\ f.n = MaxFiles /\ ~f.bad
CompletedIsComplete ==
  bkTold = "completed" /\ bkHash[bkRun.src] /\ ~bkZip[bkRun.src] => Complete(bkRun.src)

(* The dialog has a reason: a run, a run that threw, or one that was         *)
(* cancelled, after which none is shown until the next.                      *)
DialogHasReason == bkShow => bkRun.pc # "idle" \/ bkThrew \/ bkCancelled

(* The program ends by a backup only when the one before threw, or no folder *)
(* was there to remove of none allowed.                                      *)
EndHasReason == ~bkAlive => bkThrew \/ \E s \in Sources : bkMax[s] = 0

BackupsSafe == GoodKept /\ CompletedIsComplete /\ DialogHasReason /\ EndHasReason
=============================================================================
