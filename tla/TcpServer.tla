----------------------------- MODULE TcpServer -----------------------------
(***************************************************************************)
(* The TCP server for sensors and browsers: Server, Session and            *)
(* TcpMessageExecutor (src/src/Server.cpp, Session.cpp,                    *)
(* TcpMessageExecutor.cpp).  One thread runs io_service and with it every  *)
(* handler, one at a time; BroadcastMessage, which is there for a caller to *)
(* come, and the stop at exit come from other threads under m_IoMutex.  All *)
(* handlers take it but HandleWrite, which is therefore two steps.  Of a   *)
(* message the model keeps its number, of a request what the executor      *)
(* returns for it.  Sessions are numbered in the order they are accepted;  *)
(* `sessions' is iterated in the order of their addresses in memory, which *)
(* may be any.                                                             *)
(***************************************************************************)
EXTENDS Naturals, Sequences, FiniteSets, SequencesExt

CONSTANTS Clients,      \* the addresses clients connect from
          MaxSessions,  \* bound: connections
          MaxMessages   \* bound: messages handed to SendAsync

ASSUME TcpBoundsAssumption == MaxSessions \in Nat /\ MaxMessages \in Nat

VARIABLES
  tsFrom,     \* sessionAddress of each accepted session
  tsOpen,     \* sessions whose socket is open
  tsSessions, \* Server::sessions
  tsReading,  \* sessions whose read was started and not answered
  tsClosing,  \* is_close_pending
  tsWriting,  \* sentData under async_write, or 0
  tsPending,  \* pendingMessages
  tsTimer,    \* sessions with a transferTimer armed
  tsUp,       \* the acceptor exists, and io_service runs
  tsHandling, \* HandleWrite between its reset of writeInProgress and its end:
              \* <<session, the write succeeded>>, or <<>>
  tsGiven,    \* history: the messages handed to SendAsync, per session
  tsSent,     \* history: the messages written, per session
  tsFailed,   \* history: sessions with a failed write, closed by the timer in a write,
              \* or met
  tsMet       \* history: sessions in which BroadcastMessage met HandleWrite

tsLists == <<tsFrom, tsOpen, tsSessions, tsReading, tsUp>>
tsSend  == <<tsClosing, tsWriting, tsPending, tsTimer>>
tsPast  == <<tsGiven, tsSent, tsFailed, tsMet>>
tsVars  == <<tsLists, tsHandling, tsSend, tsPast>>

Accepted == 1..Len(tsFrom)
SessionIds == 1..MaxSessions
MessagesMade == Cardinality(UNION {ToSet(tsGiven[s]) : s \in SessionIds})

TcpInit ==
  /\ tsFrom = <<>> /\ tsOpen = {} /\ tsSessions = {} /\ tsReading = {} /\ tsUp = TRUE
  /\ tsClosing = {} /\ tsTimer = {}
  /\ tsWriting = [s \in SessionIds |-> 0]
  /\ tsPending = [s \in SessionIds |-> <<>>]
  /\ tsGiven = [s \in SessionIds |-> <<>>] /\ tsSent = [s \in SessionIds |-> <<>>]
  /\ tsFailed = {} /\ tsMet = {} /\ tsHandling = <<>>

-----------------------------------------------------------------------------
(* StartAccept and HandleAccept; StartAsync starts the session's one read.   *)
HandleAccept(c) ==
  /\ tsUp /\ tsHandling = <<>> /\ Len(tsFrom) < MaxSessions
  /\ tsFrom' = Append(tsFrom, c)
  /\ LET s == Len(tsFrom) + 1 IN
       /\ tsOpen' = tsOpen \cup {s} /\ tsSessions' = tsSessions \cup {s}
       /\ tsReading' = tsReading \cup {s}
  /\ UNCHANGED <<tsUp, tsHandling, tsSend, tsPast>>

(* SendAsync: written at once, or queued and the timer (re)started.          *)
SendAsync(s, m) ==
  IF tsWriting[s] # 0
    THEN /\ tsPending' = [tsPending EXCEPT ![s] = Append(@, m)]
         /\ tsTimer' = tsTimer \cup {s}
         /\ UNCHANGED tsWriting
    ELSE /\ tsWriting' = [tsWriting EXCEPT ![s] = m]
         /\ UNCHANGED <<tsPending, tsTimer>>

(* StopAsync of a session: it takes a session of its ADDRESS off the list.   *)
SameAddress(s) == {t \in tsSessions : tsFrom[t] = tsFrom[s]}
StopSessionAny(s) ==             \* mutant: any session is taken off the list
  IF s \notin tsOpen THEN UNCHANGED <<tsOpen, tsSessions, tsReading>>
  ELSE /\ tsOpen' = tsOpen \ {s} /\ tsReading' = tsReading \ {s}
       /\ \E t \in tsSessions : tsSessions' = tsSessions \ {t}
StopSession(s) ==
  IF s \notin tsOpen THEN UNCHANGED <<tsOpen, tsSessions, tsReading>>
  ELSE /\ tsOpen' = tsOpen \ {s} /\ tsReading' = tsReading \ {s}
       /\ IF SameAddress(s) = {} THEN UNCHANGED tsSessions
          ELSE \E t \in SameAddress(s) : tsSessions' = tsSessions \ {t}

(* HandleRead: with a reply (graphs) the session closes once it is written,  *)
(* else (a measurement, a path to open, an unknown request) at once.  No     *)
(* further read is started.  A read that fails changes nothing: the session  *)
(* stays.                                                                    *)
HandleReadReply(s) ==
  /\ tsUp /\ tsHandling = <<>> /\ s \in tsReading /\ MessagesMade < MaxMessages
  /\ tsReading' = tsReading \ {s}
  /\ tsGiven' = [tsGiven EXCEPT ![s] = Append(@, MessagesMade + 1)]
  /\ SendAsync(s, MessagesMade + 1)
  /\ tsClosing' = tsClosing \cup {s}
  /\ UNCHANGED <<tsFrom, tsOpen, tsSessions, tsUp, tsHandling, tsSent, tsFailed, tsMet>>

HandleReadClose(s) ==
  /\ tsUp /\ tsHandling = <<>> /\ s \in tsReading
  /\ StopSession(s)
  /\ UNCHANGED <<tsFrom, tsUp, tsHandling, tsSend, tsPast>>

HandleReadError(s) ==
  /\ tsUp /\ tsHandling = <<>> /\ s \in tsReading
  /\ tsReading' = tsReading \ {s}
  /\ UNCHANGED <<tsFrom, tsOpen, tsSessions, tsUp, tsHandling, tsSend, tsPast>>

(* The next pending message is sent, and popped after SendAsync: when a      *)
(* write is in progress it goes to the back, and the timer is started.       *)
SendNextPending(s) ==
  LET m == Head(tsPending[s]) IN
  IF tsWriting[s] # 0
    THEN /\ tsPending' = [tsPending EXCEPT ![s] = Append(Tail(@), m)]
         /\ tsTimer' = tsTimer \cup {s}
         /\ UNCHANGED tsWriting
    ELSE /\ tsPending' = [tsPending EXCEPT ![s] = Tail(@)]
         /\ tsWriting' = [tsWriting EXCEPT ![s] = m]

(* HandleWrite, without the mutex.  First writeInProgress is reset ...  (Of  *)
(* a session that was met two writes may be under way on one buffer.)        *)
HandleWrite(s) ==
  /\ tsUp /\ tsHandling = <<>> /\ s \in tsOpen
  /\ tsWriting[s] # 0 \/ s \in tsMet
  /\ tsHandling' = <<s, TRUE>>
  /\ tsSent' = IF s \in tsMet THEN tsSent ELSE [tsSent EXCEPT ![s] = Append(@, tsWriting[s])]
  /\ tsWriting' = [tsWriting EXCEPT ![s] = 0]
  /\ UNCHANGED <<tsLists, tsClosing, tsPending, tsTimer, tsGiven, tsFailed, tsMet>>

(* ... also with an error, or after the socket was closed ...                *)
HandleWriteError(s) ==
  /\ tsUp /\ tsHandling = <<>>
  /\ tsWriting[s] # 0 \/ s \in tsMet
  /\ tsHandling' = <<s, FALSE>>
  /\ tsWriting' = [tsWriting EXCEPT ![s] = 0]
  /\ tsFailed' = tsFailed \cup {s}
  /\ UNCHANGED <<tsLists, tsClosing, tsPending, tsTimer, tsGiven, tsSent, tsMet>>

(* ... then the next message is sent, though BroadcastMessage may have begun *)
(* a write by now, or the session is closed ...                              *)
HandleWriteNext(s) ==
  /\ tsHandling = <<s, TRUE>> /\ tsHandling' = <<>>
  /\ IF tsPending[s] # <<>>
       THEN /\ SendNextPending(s)
            /\ (tsWriting[s] = 0 => UNCHANGED tsTimer)
            /\ UNCHANGED tsLists
       ELSE /\ IF s \in tsClosing THEN StopSession(s) ELSE UNCHANGED <<tsOpen, tsSessions, tsReading>>
            /\ UNCHANGED <<tsFrom, tsUp, tsWriting, tsPending, tsTimer>>
  /\ UNCHANGED <<tsClosing, tsPast>>

(* ... or, after an error, the queue is emptied.                             *)
HandleWriteEmpties(s) ==
  /\ tsHandling = <<s, FALSE>> /\ tsHandling' = <<>>
  /\ tsPending' = [tsPending EXCEPT ![s] = <<>>]
  /\ UNCHANGED <<tsLists, tsClosing, tsWriting, tsTimer, tsPast>>

HandleTransferTimer(s) ==
  /\ tsUp /\ tsHandling = <<>> /\ s \in tsTimer
  /\ IF tsPending[s] # <<>>
       THEN /\ SendNextPending(s)
            /\ (tsWriting[s] = 0 => tsTimer' = tsTimer \ {s})
            /\ UNCHANGED <<tsLists, tsFailed>>
       ELSE /\ tsTimer' = tsTimer \ {s}
            /\ IF s \in tsClosing
                 THEN /\ StopSession(s)
                      /\ tsFailed' = IF tsWriting[s] # 0 THEN tsFailed \cup {s} ELSE tsFailed
                 ELSE UNCHANGED <<tsOpen, tsSessions, tsReading, tsFailed>>
            /\ UNCHANGED <<tsFrom, tsUp, tsWriting, tsPending>>
  /\ UNCHANGED <<tsHandling, tsClosing, tsGiven, tsSent, tsMet>>

-----------------------------------------------------------------------------
(* The other threads.  BroadcastMessage: the same message to every session,  *)
(* also to one that is listed and closed already.                            *)
Handed(reached) ==
  tsGiven' = [s \in SessionIds |->
                IF s \in reached THEN Append(tsGiven[s], MessagesMade + 1) ELSE tsGiven[s]]

BroadcastMessage ==
  /\ tsUp /\ MessagesMade < MaxMessages /\ tsSessions # {}
  /\ Handed(tsSessions)
  /\ tsWriting' = [s \in SessionIds |->
                     IF s \in tsSessions /\ tsWriting[s] = 0 THEN MessagesMade + 1 ELSE tsWriting[s]]
  /\ tsPending' = [s \in SessionIds |->
                     IF s \in tsSessions /\ tsWriting[s] # 0
                       THEN Append(tsPending[s], MessagesMade + 1) ELSE tsPending[s]]
  /\ tsTimer' = tsTimer \cup {s \in tsSessions : tsWriting[s] # 0}
  /\ UNCHANGED <<tsLists, tsHandling, tsClosing, tsSent, tsFailed, tsMet>>

(* It meets HandleWrite in session h: writeInProgress, sentData and          *)
(* pendingMessages are in two hands.  The message and one that was pending   *)
(* may both be begun or neither, and the queue may have the message or not,  *)
(* or nothing.  When h takes a session off the list, the loop over it may    *)
(* also end early, or crash, that is no step follows.                        *)
BroadcastMeets(h) ==
  /\ tsUp /\ MessagesMade < MaxMessages /\ tsHandling # <<>> /\ tsHandling[1] = h
  /\ \E reached \in SUBSET tsSessions :
       /\ reached # {} /\ (reached # tsSessions => h \in tsClosing)
       /\ Handed(reached)
       /\ \E now \in {0, MessagesMade + 1} \cup ToSet(tsPending[h]),
             left \in {tsPending[h], Append(tsPending[h], MessagesMade + 1), <<>>},
             armed \in SUBSET {h} :
            /\ tsWriting' = [s \in SessionIds |->
                  IF s = h THEN now
                  ELSE IF s \in reached /\ tsWriting[s] = 0 THEN MessagesMade + 1
                  ELSE tsWriting[s]]
            /\ tsPending' = [s \in SessionIds |->
                  IF s = h THEN left
                  ELSE IF s \in reached /\ tsWriting[s] # 0
                    THEN Append(tsPending[s], MessagesMade + 1) ELSE tsPending[s]]
            /\ tsTimer' = tsTimer \cup armed \cup {s \in reached \ {h} : tsWriting[s] # 0}
  /\ tsFailed' = tsFailed \cup {h} /\ tsMet' = tsMet \cup {h}
  /\ UNCHANGED <<tsLists, tsHandling, tsClosing, tsSent>>

(* StopAsync of the server, at exit: the listed sessions are closed.         *)
StopServer ==
  /\ tsUp
  /\ tsUp' = FALSE
  /\ tsOpen' = tsOpen \ tsSessions /\ tsSessions' = {} /\ tsReading' = tsReading \ tsSessions
  /\ UNCHANGED <<tsFrom, tsHandling, tsSend, tsPast>>

TcpNext ==
  \/ \E c \in Clients : HandleAccept(c)
  \/ \E s \in Accepted :
       \/ HandleReadReply(s) \/ HandleReadClose(s) \/ HandleReadError(s)
       \/ HandleWrite(s) \/ HandleWriteError(s) \/ HandleTransferTimer(s)
       \/ HandleWriteNext(s) \/ HandleWriteEmpties(s) \/ BroadcastMeets(s)
  \/ BroadcastMessage \/ StopServer

TcpSpec == TcpInit /\ [][TcpNext]_tsVars

-----------------------------------------------------------------------------
(* Properties. *)

(* Although a session that ends takes another one of its address off the     *)
(* list, each address has as many listed sessions as open ones, so that the  *)
(* stop at exit closes all but those another one stood in for.               *)
ListCountsOpen ==
  \A c \in Clients :
    tsUp => Cardinality({s \in tsSessions : tsFrom[s] = c})
             = Cardinality({s \in tsOpen : tsFrom[s] = c})

(* Every message given to a session is written, under way or pending,        *)
(* exactly once, whatever the timer did to their order and whatever is       *)
(* broadcast between the two steps of HandleWrite, until a write fails or    *)
(* a broadcast is in the session at the same time as HandleWrite.            *)
MessagesKept ==
  \A s \in Accepted \ tsFailed :
    LET held == tsSent[s] \o tsPending[s] \o (IF tsWriting[s] = 0 THEN <<>> ELSE <<tsWriting[s]>>)
    IN Len(held) = Len(tsGiven[s]) /\ ToSet(held) = ToSet(tsGiven[s])

(* A session is closed after its reply only when all it was given is written *)
(* or under way, unless a broadcast met HandleWrite in it, or another        *)
(* session of its address got its place in the list and with it a broadcast. *)
ClosedWhenDone ==
  \A s \in tsClosing \ tsMet : (s \notin tsOpen /\ tsUp) =>
     (tsPending[s] = <<>> \/ \E t \in Accepted \ {s} : tsFrom[t] = tsFrom[s])

TcpServerSafe == ListCountsOpen /\ MessagesKept /\ ClosedWhenDone
=============================================================================
