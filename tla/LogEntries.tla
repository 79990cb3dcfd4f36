----------------------------- MODULE LogEntries -----------------------------
(***************************************************************************)
(* The program's log: Logger (src/src/Logger.hpp, Logger.cpp), which any   *)
(* thread writes to, and the window's panel (src/src/gui/LogPanel.cpp).    *)
(* An entry goes to the file and into preinit_entries, from where a timer  *)
(* of the window takes it to the list that is shown; the list also shows   *)
(* what a search finds in the file.  Logger::m_mutex is held from the      *)
(* acceptance of an entry to the end, so accepting is one step; the level  *)
(* and the filters are read before it.                                     *)
(***************************************************************************)
EXTENDS Integers, Sequences, FiniteSets, Sublists

CONSTANTS LogThreads,       \* threads that log
          Texts,            \* what messages and filters are made of
          MaxLogged,        \* bound: entries logged
          MaxAsked          \* bound: times the user changes, searches or clears something

Debug == 0
Verbose == 1
Error == 2
LogLevels == {Debug, Verbose, Error}
Message == [level : LogLevels, text : Texts]

VARIABLES
  lgWindow,    \* the window with its log_panel is there
  lgLevel,     \* m_DefaultLogLevel
  lgFilters,   \* m_LogFilters
  lgAt,        \* each thread inside LogInternal: the message, the filters it walks over, and
               \* whether they were freed meanwhile; or <<>>
  lgFile,      \* logfile.txt
  lgPending,   \* preinit_entries
  lgShown,     \* the list: what the timer or a search put there
  lgAsked,     \* what the user did
  lgAll,       \* history: the entries accepted, in their order
  lgCut,       \* history: how many the timer had taken when the list was cleared last
  lgTwice      \* history: a search ran while these were pending

lgGui == <<lgWindow, lgLevel, lgFilters, lgAsked>>
lgKept == <<lgFile, lgPending, lgAll>>
lgList == <<lgShown, lgCut, lgTwice>>
lgVars == <<lgGui, lgAt, lgKept, lgList>>

LogInit ==
  /\ lgWindow = FALSE /\ lgLevel = Verbose /\ lgFilters = {} /\ lgAsked = 0
  /\ lgAt = [t \in LogThreads |-> <<>>]
  /\ lgFile = <<>> /\ lgPending = <<>> /\ lgAll = <<>>
  /\ lgShown = <<>> /\ lgCut = 0 /\ lgTwice = {}

-----------------------------------------------------------------------------
(* LogInternal. *)

Logged == Len(lgAll) + Cardinality({t \in LogThreads : lgAt[t] # <<>>})

LogBegins(t) ==
  /\ lgAt[t] = <<>> /\ Logged < MaxLogged
  /\ \E m \in Message :
       /\ m.level >= lgLevel
       /\ lgAt' = [lgAt EXCEPT ![t] = [msg |-> m, walks |-> lgFilters, freed |-> FALSE]]
  /\ UNCHANGED <<lgGui, lgKept, lgList>>

(* A filter is looked for in the message; one that was freed may be found or *)
(* not.                                                                      *)
FilteredOut(t) ==
  /\ lgAt[t] # <<>> /\ (lgAt[t].freed \/ lgAt[t].msg.text \in lgAt[t].walks)
  /\ lgAt' = [lgAt EXCEPT ![t] = <<>>]
  /\ UNCHANGED <<lgGui, lgKept, lgList>>

Accept(t) ==
  /\ lgAt[t] # <<>> /\ (lgAt[t].freed \/ lgAt[t].msg.text \notin lgAt[t].walks)
  /\ LET entry == [n |-> Len(lgAll) + 1, level |-> lgAt[t].msg.level, text |-> lgAt[t].msg.text]
     IN  /\ lgAll' = Append(lgAll, entry)
         /\ lgFile' = IF entry.level >= Verbose THEN Append(lgFile, entry) ELSE lgFile
         /\ lgPending' = Append(lgPending, entry)
  /\ lgAt' = [lgAt EXCEPT ![t] = <<>>]
  /\ UNCHANGED <<lgGui, lgList>>

-----------------------------------------------------------------------------
(* The window's thread. *)

Show(entries, by) == [k \in 1..Len(entries) |-> [entry |-> entries[k], by |-> by]]

MakePanel ==
  /\ ~lgWindow /\ lgWindow' = TRUE
  /\ UNCHANGED <<lgLevel, lgFilters, lgAsked, lgAt, lgKept, lgList>>

PendingStays == lgPending     \* mutant
PendingTaken == <<>>

(* AppendPreinitedEntries, from the timer of the window. *)
Tick ==
  /\ lgWindow
  /\ lgShown' = lgShown \o Show(lgPending, "timer")
  /\ lgPending' = PendingTaken
  /\ UNCHANGED <<lgGui, lgAt, lgFile, lgAll, lgCut, lgTwice>>

Asks == lgWindow /\ lgAsked < MaxAsked /\ lgAsked' = lgAsked + 1

SetDefaultLogLevel ==
  /\ Asks /\ lgLevel' \in LogLevels
  /\ UNCHANGED <<lgWindow, lgFilters, lgAt, lgKept, lgList>>

(* SetLogFilters takes no lock: who walks over the old filters goes on.      *)
SetLogFilters ==
  /\ Asks /\ lgFilters' \in SUBSET Texts
  /\ lgAt' = [t \in LogThreads |->
                IF lgAt[t] # <<>> /\ lgAt[t].walks # {}
                  THEN [lgAt[t] EXCEPT !.freed = TRUE] ELSE lgAt[t]]
  /\ UNCHANGED <<lgWindow, lgLevel, lgKept, lgList>>

Cleared == lgCut' = Len(lgAll) - Len(lgPending)

SearchInLogFile ==
  /\ Asks /\ Cleared
  /\ \E texts \in {Texts} \cup {{x} : x \in Texts}, levels \in {LogLevels} \cup {{l} : l \in LogLevels} :
       lgShown' = Show(Within(lgFile, {e \in Elements(lgFile) : e.text \in texts /\ e.level \in levels}), "search")
  /\ lgTwice' = Elements(lgPending)
  /\ UNCHANGED <<lgWindow, lgLevel, lgFilters, lgAt, lgKept>>

PressClear ==
  /\ Asks /\ Cleared
  /\ lgShown' = <<>> /\ lgTwice' = {}
  /\ UNCHANGED <<lgWindow, lgLevel, lgFilters, lgAt, lgKept>>

LogNext ==
  \/ \E t \in LogThreads : LogBegins(t) \/ FilteredOut(t) \/ Accept(t)
  \/ MakePanel \/ Tick
  \/ SetDefaultLogLevel \/ SetLogFilters \/ SearchInLogFile \/ PressClear
LogSpec == LogInit /\ [][LogNext]_lgVars

-----------------------------------------------------------------------------
(* Properties. *)

ByTimer == Within(lgShown, {s \in Elements(lgShown) : s.by = "timer"})

(* However entries, the timer, searches and the Clear button interleave, the *)
(* list shows every entry accepted since it was cleared, or will, in the     *)
(* order of the log file.                                                    *)
NoEntryLost ==
  [k \in 1..Len(ByTimer) |-> ByTimer[k].entry] \o lgPending = SubSeq(lgAll, lgCut + 1, Len(lgAll))

(* An entry is in the list twice only if it waited for the timer when a      *)
(* search found it in the file already.                                      *)
ShownOnce ==
  \A j, k \in 1..Len(lgShown) :
    j # k /\ lgShown[j].entry = lgShown[k].entry => lgShown[j].entry \in lgTwice

LogSafe == NoEntryLost /\ ShownOnce
=============================================================================
