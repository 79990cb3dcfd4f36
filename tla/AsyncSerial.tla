---------------------------- MODULE AsyncSerial ----------------------------
(***************************************************************************)
(* One AsyncSerial object of src/src/utils/AsyncSerial.cpp: the thread that*)
(* owns it calls open, write and close; a background thread runs the       *)
(* io_service, that is the handlers posted to it and the completions of the*)
(* asynchronous read and write.  The device may be unplugged and plugged in*)
(* again at any time.  Data is abstracted to the number of the write call. *)
(***************************************************************************)
EXTENDS Integers, Sequences

CONSTANTS MaxWrites,     \* bound: calls of write
          MaxOpens,      \* bound: calls of open
          MaxUnplugs     \* bound: times the device disappears

ASSUME BoundsAssumption == MaxWrites \in Nat /\ MaxOpens \in Nat /\ MaxUnplugs \in Nat

VARIABLES
  open, error,     \* pimpl->open, pimpl->error
  device,          \* is the descriptor pimpl->port open?
  plugged,         \* environment: the device is there
  handlers,        \* what was posted to pimpl->io and has not run
  reading,         \* an async_read_some is outstanding
  writing,         \* an async_write is outstanding
  writeQueue,
  writeBuffer,     \* <<>> is a null shared_array or an empty one:
  bufferSet,       \*   bufferSet tells which
  thread,          \* the background thread: none, running or ended (joinable)
  caller,          \* idle, or joining inside close
  wire,            \* history: what reached the device
  writes, opens, unplugs     \* history: numbers of calls

flags   == <<open, error>>
writer  == <<writing, writeQueue, writeBuffer, bufferSet, wire>>
history == <<writes, opens, unplugs>>
vars == <<flags, device, plugged, handlers, reading, writer, thread, caller, history>>

Init ==
  /\ open = FALSE /\ error = FALSE
  /\ device = FALSE /\ plugged = TRUE
  /\ handlers = <<>> /\ reading = FALSE
  /\ writing = FALSE /\ writeQueue = <<>> /\ writeBuffer = <<>>
  /\ bufferSet = FALSE /\ wire = <<>>
  /\ thread = "none" /\ caller = "idle"
  /\ writes = 0 /\ opens = 0 /\ unplugs = 0

Works == device /\ plugged     \* an operation on the descriptor succeeds

(* doClose: cancel and close; cancel fails on a descriptor already closed. *)
(* It leaves pimpl->open as it is.                                         *)
DoClose ==
  /\ device' = FALSE
  /\ error' = (error \/ ~device)

-----------------------------------------------------------------------------
(* The owner of the object. *)

Open ==
  /\ caller = "idle" /\ ~open /\ thread = "none"
  /\ opens < MaxOpens /\ opens' = opens + 1
  /\ \/ /\ plugged
        /\ open' = TRUE /\ error' = FALSE /\ device' = TRUE
        /\ handlers' = Append(handlers, "doRead")
        /\ thread' = "running"
     \/ /\ ~plugged                               \* port.open throws
        /\ error' = TRUE
        /\ UNCHANGED <<open, device, handlers, thread>>
  /\ UNCHANGED <<plugged, reading, writer, caller, writes, unplugs>>

Write ==
  /\ caller = "idle" /\ opens > 0
  /\ writes < MaxWrites /\ writes' = writes + 1
  /\ writeQueue' = Append(writeQueue, writes + 1)
  /\ handlers' = Append(handlers, "doWrite")
  /\ UNCHANGED <<flags, device, plugged, reading, writing, writeBuffer,
                 bufferSet, wire, thread, caller, opens, unplugs>>

(* close returns at once unless isOpen(), else posts doClose and joins. *)
Close ==
  /\ caller = "idle" /\ open
  /\ open' = FALSE
  /\ handlers' = Append(handlers, "doClose")
  /\ caller' = "joining"
  /\ UNCHANGED <<error, device, plugged, reading, writer, thread, history>>

(* The join returns; close resets the io_service (its handlers stay queued)  *)
(* and throws if error is set.                                               *)
Joined ==
  /\ caller = "joining" /\ thread = "ended"
  /\ caller' = "idle" /\ thread' = "none"
  /\ UNCHANGED <<flags, device, plugged, handlers, reading, writer, history>>

-----------------------------------------------------------------------------
(* The background thread. *)

RunHandler(h) ==
  /\ thread = "running" /\ handlers # <<>> /\ Head(handlers) = h
  /\ handlers' = Tail(handlers)

DoRead ==
  /\ RunHandler("doRead")
  /\ reading' = TRUE
  /\ UNCHANGED <<flags, device, plugged, writer, thread, caller, history>>

DoWriteUnguarded ==      \* mutant: starts a second write over an outstanding one
  /\ RunHandler("doWrite")
  /\ writeBuffer' = writeQueue /\ bufferSet' = TRUE
  /\ writeQueue' = <<>> /\ writing' = TRUE
  /\ UNCHANGED <<flags, device, plugged, reading, wire, thread, caller, history>>

DoWrite ==
  /\ RunHandler("doWrite")
  /\ IF bufferSet
       THEN UNCHANGED writer
       ELSE /\ writeBuffer' = writeQueue /\ bufferSet' = TRUE
            /\ writeQueue' = <<>>
            /\ writing' = TRUE
            /\ UNCHANGED wire
  /\ UNCHANGED <<flags, device, plugged, reading, thread, caller, history>>

CloseHandler ==
  /\ RunHandler("doClose")
  /\ DoClose
  /\ UNCHANGED <<open, plugged, reading, writer, thread, caller, history>>

(* readEnd with an error: no error at all if the owner is closing.           *)
(* (Without an error it calls back and reads on: nothing changes here.)      *)
ReadFails ==
  /\ thread = "running" /\ reading /\ ~Works
  /\ reading' = FALSE
  /\ IF open THEN device' = FALSE /\ error' = TRUE
             ELSE UNCHANGED <<device, error>>
  /\ UNCHANGED <<open, plugged, handlers, writer, thread, caller, history>>

WriteDoneEndsThere ==      \* mutant: does not look into writeQueue again
  /\ thread = "running" /\ writing /\ Works
  /\ wire' = wire \o writeBuffer
  /\ writeBuffer' = <<>> /\ bufferSet' = FALSE /\ writing' = FALSE
  /\ UNCHANGED <<flags, device, plugged, handlers, reading, writeQueue, thread,
                 caller, history>>

WriteDoneKeepsQueue ==      \* mutant: copies writeQueue and does not clear it
  /\ thread = "running" /\ writing /\ Works
  /\ wire' = wire \o writeBuffer
  /\ writeBuffer' = writeQueue
  /\ writing' = (writeQueue # <<>>) /\ bufferSet' = (writeQueue # <<>>)
  /\ UNCHANGED <<flags, device, plugged, handlers, reading, writeQueue, thread,
                 caller, history>>

(* writeEnd without an error: send what was queued meanwhile. *)
WriteDone ==
  /\ thread = "running" /\ writing /\ Works
  /\ wire' = wire \o writeBuffer
  /\ writeBuffer' = writeQueue /\ writeQueue' = <<>>
  /\ writing' = (writeQueue # <<>>)
  /\ bufferSet' = (writeQueue # <<>>)
  /\ UNCHANGED <<flags, device, plugged, handlers, reading, thread, caller, history>>

(* writeEnd with an error, after a part of the buffer was written.  The      *)
(* buffer is not reset.                                                      *)
WriteFails ==
  /\ thread = "running" /\ writing /\ ~Works
  /\ \E n \in 0..Len(writeBuffer) : wire' = wire \o SubSeq(writeBuffer, 1, n)
  /\ writing' = FALSE
  /\ device' = FALSE /\ error' = TRUE
  /\ UNCHANGED <<open, plugged, handlers, reading, writeQueue, writeBuffer,
                 bufferSet, thread, caller, history>>

(* io_service::run returns: nothing is posted, nothing is outstanding. *)
RunReturns ==
  /\ thread = "running" /\ handlers = <<>> /\ ~reading /\ ~writing
  /\ thread' = "ended"
  /\ UNCHANGED <<flags, device, plugged, handlers, reading, writer, caller, history>>

-----------------------------------------------------------------------------
Unplug ==
  /\ plugged /\ unplugs < MaxUnplugs
  /\ plugged' = FALSE /\ unplugs' = unplugs + 1
  /\ UNCHANGED <<flags, device, handlers, reading, writer, thread, caller, writes, opens>>

PlugIn ==
  /\ ~plugged
  /\ plugged' = TRUE
  /\ UNCHANGED <<flags, device, handlers, reading, writer, thread, caller, history>>

Owner == Open \/ Write \/ Close \/ Joined

BackgroundThread == DoRead \/ DoWrite \/ CloseHandler \/ ReadFails
                    \/ WriteDone \/ WriteFails \/ RunReturns

Next == Owner \/ BackgroundThread \/ Unplug \/ PlugIn

(* The background thread runs; an asynchronous operation completes. *)
FairSpec == Init /\ [][Next]_vars /\ WF_vars(BackgroundThread) /\ WF_vars(Joined)
Spec == Init /\ [][Next]_vars

-----------------------------------------------------------------------------
(* Properties *)

(* Types; the buffer is set while a write is outstanding, and nothing is     *)
(* outstanding without the background thread.                                *)
TypeOK ==
  /\ open \in BOOLEAN /\ error \in BOOLEAN
  /\ device \in BOOLEAN /\ plugged \in BOOLEAN
  /\ handlers \in Seq({"doRead", "doWrite", "doClose"})
  /\ reading \in BOOLEAN /\ writing \in BOOLEAN /\ bufferSet \in BOOLEAN
  /\ writeQueue \in Seq(Nat) /\ writeBuffer \in Seq(Nat) /\ wire \in Seq(Nat)
  /\ thread \in {"none", "running", "ended"}
  /\ caller \in {"idle", "joining"}
  /\ writes \in Nat /\ opens \in Nat /\ unplugs \in Nat
  /\ writing => bufferSet
  /\ thread # "running" => ~reading /\ ~writing

(* On the first connection, until an error, nothing is lost, repeated or     *)
(* reordered between write, doWrite and writeEnd: the wire, the buffer and   *)
(* the queue together hold what was written, in order.                       *)
NothingLost ==
  ~error /\ unplugs = 0 /\ opens <= 1 =>
    wire \o writeBuffer \o writeQueue = [i \in 1..writes |-> i]

(* Over errors and reopenings the wire shows the writes in order, none twice *)
WireInOrder == \A i, j \in 1..Len(wire) : i < j => wire[i] < wire[j]

(* The wire carries what was written, as the callers of write() expect, and  *)
(* the buffer is there as long as a write is outstanding.                    *)
WireFaithful == TypeOK /\ NothingLost /\ WireInOrder

(* The buffer handed to async_write is not touched before that operation has *)
(* completed.                                                                *)
BufferStable ==
  [][writing /\ writing' /\ writeBuffer' # writeBuffer
       => wire' = wire \o writeBuffer]_vars

GoesOut(n) == (\E i \in 1..Len(wire) : wire[i] = n) \/ ~open \/ unplugs > 0

(* What is written on the first connection goes out, unless the device fails *)
(* or the owner closes it: no write is forgotten between doWrite and         *)
(* writeEnd, however their handlers interleave with the calls of write.      *)
WrittenGoesOut ==
  \A n \in 1..MaxWrites : (n <= writes /\ open /\ opens = 1) ~> GoesOut(n)

(* "Fixed a bug that did not allow to reopen a closed serial port": what is  *)
(* written after a port was closed and opened again goes out, the device     *)
(* never failing, unless the owner closes it once more.  Nothing is asked of *)
(* what was written before.                                                  *)
ReopenedGoesOut ==
  \A n \in 1..MaxWrites :
    [](writes = n - 1 /\ opens = 2 => (writes >= n ~> GoesOut(n)))

(* close never hangs in its join, in whatever state the port is.             *)
CloseReturns == (caller = "joining") ~> (caller = "idle")

(* No handler is waited for or forgotten for ever.                           *)
HandlersEnd == WrittenGoesOut /\ CloseReturns
=============================================================================
