# CustomKeyboard in TLA+

CustomKeyboard is a Windows desktop tool: a wxWidgets GUI over a collection of
handlers, most of which own a worker thread (`std::jthread`) and talk to a
device, a socket or a file.  This directory holds TLA+ models of these handlers
and of the panels that edit what they keep, the TLC configurations that check
the models, and TLAPS proofs about the transport, the dialogues and the services.

Paths are relative to the repository; `X.cpp` stands for `src/X.cpp`.

## 1. The system

    keyboard 2 ── SerialPort ─┬─> CustomMacro ─> macros, alarms, recorder
                              └─> SerialTcpBackend (virtual machine)
    sensors, browser ── Server/Session ─> Sensors ─> DatabaseLogic
    device ── DataSerialPort <─> DataSender
    slave  ── ModbusMasterSerialPort <─> ModbusEntryHandler <─> Modbus panels

    GUI thread ─┬─ DidHandler ──┐
                ├─ CanScripts ──┤
                └─ CAN panels ──┴─> CanEntryHandler ──> isotp.c
                                       │       ^            │
                            AddToTxQueue       │ OnFrameReceived
                                       v       │
                        CanSerialPort (SerialPortBase worker, ICanDevice)
                                       v       │
                                   AsyncSerial (asio thread) ── serial port

    timer of the window ─> IdlePowerSaver, AntiLock, log and grid refreshes
    GUI only: CmdExecutor, MacroRecorder, GuiEditor, Settings; DirectoryBackup

| Component | State | Operations | Hard part |
|---|---|---|---|
| `SerialPortBase` | worker, `is_notification_pending`, `m_cv`, error and ok flags | open and retry, wait with time-out, notify, reset | a notification erased by `ResetNotification`; a port the worker itself still holds |
| `CanSerialPort` | `m_TxQueue`, `m_CircBuff`, the device | `AddToTxQueue`, `OnDataReceived`, `SendPendingCanFrames` | `front()` and `pop()` without the mutex of the producers |
| `CanDeviceLawicel`, `CanDeviceStm32` | start-up state, receive parser | build a frame, parse bytes | start-up commands in place of a frame, resynchronisation |
| `AsyncSerial` | write queue, write buffer, device, io_service | open, write, close, handlers | handlers posted before and run after an error or a reopening |
| `isotp.c` | a sending and a receiving link | send, poll, on_can_message, receive | flow control, loss, time-outs; two locking regimes |
| `CanEntryHandler` | TX list, RX map, log, mapping, ISO-TP link | worker, sent and received callbacks, recording, bit access | raw pointers of the grid into the list; a log walked while it grows |
| `DidHandler` | queue of reads, map of writes, response buffer, abort flag | add, write, notify, abort, worker, destructor; list and cache | late answers, abort between two accesses, flags that outlive their use |
| `CanScriptHandler` | running script, abort flag, awaited frame | run, abort, wait for a frame | a wait that starts after the frame came |
| `ModbusMasterSerialPort`, `ModbusHandler` | request, response, polling flags, pending writes, items | request and wait, poll cycle, write, record | a late response satisfies the next request |
| `DataSender`, `DataSerialPort` | TX queue, RX buffer, response flags | send cycle, parse lines | the response races the wait |
| `Server`, `Session` | sessions, send queue, timer | accept, read, write, time-out, stop | order of the send queue, sessions of one address |
| `Sensors`, `DatabaseLogic` | window of measurements, averages | process, insert, graphs | session thread against graph thread |
| `SerialPort`, `SerialTcpBackend`, `CustomMacro` | held keys, bound macros | take reports, run macros | reads that cut or join reports; two threads in one macro |
| `Alarms` | pending alarms, dialog semaphore | set up, cancel, go off | armed before its duration is set |
| `IdlePowerSaver`, `AntiLock` | idle flag, samples, limit | tick | unsigned seconds, the other's simulated input |
| `DirectoryBackup` | entries, runs, cancel flag, dialog | rotate, copy, hash, compress | entries deleted under a run |
| `CmdExecutor` | pages, names, parameters, buttons | add, copy, delete, save, load | three structures kept in step |
| `MacroRecorder`, macro editor | elements recorded, lists of macros | record, edit, bind, save | lists that go stale |
| `GuiEditor` | windows, map of Widgets, selection | make, select, edit, save, load | addresses that outlive windows |
| `Settings` | memory, panel, `settings.ini` | load, save, show, apply | keys that only one of them knows |
| `Logger` | file, waiting entries, list shown | log, filter, search, clear | entries shown twice |
| `MyApp` | all of the above | `OnInit`, `OnExit` | objects destroyed before the threads that use them |

What makes them correct, in a line each: the CAN stack neither loses, reorders
nor doubles a frame except on overflow; a segmented message arrives whole or
not at all; a dialogue pairs each answer with its request; a worker always comes
back to rest, and a join returns; what a panel shows is what its handler holds,
and an edit reaches the thing that was edited; what is saved is what is loaded.

`PROJECT.json` lists every component with its state of modelling, and under
`hazards` the places where the code is hard to test, each with the properties
that cover it.

## 2. Modules

One module per component or per group of functions that share state.  Threads
that meet without a mutex take a step for each access another can come between;
code that runs under one mutex, or in the GUI thread alone, is one step.  What
the standard leaves undefined (a freed entry, an iterator after a push, `front()`
of an empty deque) is a `crashed` state or a choice of outcomes.  Faults the
code is known to have stay in the model, remembered in a history variable, so
that a property can say "except after that".

| Module | Models |
|---|---|
| `CanTxFifo` | what `CanSerialPort` promises: an order preserving, bounded, lossy queue (abstract) |
| `CanSerialPort` | `AddToTxQueue`, `OnDataReceived`, the worker of `SerialPortBase` with `SendPendingCanFrames` and both devices; implements `CanTxFifo` |
| `CanDeviceRx` | the receive parsers of the two devices, bytes lost or changed |
| `AsyncSerial` | one `AsyncSerial`, its owner, its asio thread, the device |
| `IsoTpTransfer` | what ISO-TP promises: accepted messages arrive at most once, in order (abstract) |
| `IsoTp` | both links of `isotp.c`, the callers of `SendIsoTpFrame`, the poll, the bus; implements `IsoTpTransfer` |
| `DidHandler`, `DidGrid` | the UDS worker with the GUI and the ECU; the list, the cache, decoding and the panel |
| `CanTxList`, `CanLog`, `CanScript` | the list of frames to send and its grid; the recording and its panel; the scripts |
| `BitFields`, `BitEditor`, `RegisterEditor` | bit fields of a frame or register (helper); the dialogs that edit them |
| `ModbusMaster`, `ModbusItems`, `ModbusLog` | the dialogue with the slave; items and grid; the recording |
| `LogGrid` | a vector walked with an iterator while others push (helper of the log panels and `DidGrid`) |
| `Sublists` | the part of a list that a filter or a level leaves, the sums of a list's beginnings, with their lemmas (helper of the panels, of `CmdParams`, and of their proofs) |
| `DataSender`, `DataLines` | send, wait, judge; the stream cut into lines |
| `TcpServer`, `Sensors` | sessions, timer, stop; measurements, rows and graphs |
| `KeyReports`, `MacroKeys` | from the line to what is held; from what is held to a macro or an alarm |
| `PowerSaver`, `BackupRuns`, `LogEntries` | idle power saver with anti lock; directory backup; the program's log |
| `CmdPages`, `CmdParams` | the command executor: pages and their buttons; placeholders |
| `MacroEditor`, `MacroRecorder`, `GuiEditor`, `SettingsFile` | the editors, the recorder, `settings.ini` with its panel |
| `AppExit` | `OnInit`, `OnExit`, `~MyApp`, `CSingleton`, the threads meanwhile |
| `MCIsoTp` | instances of `IsoTp` for TLC: two receivers side by side |
| `MCDevices`, `MCServices`, `MCTools` | the other modules side by side |
| `DidHandler_proofs`, `IsoTp_proofs` | TLAPS proofs of these modules |
| `Threads_proofs` | proofs of `CanSerialPort`, `CanScript`, `BackupRuns` |
| `Devices_proofs` | proofs of `ModbusMaster`, `CanLog`, `ModbusLog`, `DidGrid`, `CanTxList`, `CanDeviceRx` |
| `Services_proofs` | proofs of `DataSender`, `TcpServer`, `MacroKeys`, `PowerSaver`, `AppExit`, `Sensors`, `BitEditor`, `RegisterEditor` |
| `Streams_proofs` | proofs of `DataLines`, `KeyReports`, `LogEntries` |
| `Tools_proofs` | proofs of `AsyncSerial`, `SettingsFile`, `CmdPages`, `CmdParams` |

`MCDevices`, `MCServices` and `MCTools` EXTEND modules that share no state.  A
variable `part` is chosen in the initial state and never changes; the steps are
those of that part, and the others stay in one fixed initial state.  Each
behaviour is a behaviour of one component alone, so a property of a component
holds of the composite exactly if it holds of the component, and the state
counts add instead of multiplying.  Prefixes of variable names (`mb`, `cl`, ...)
keep the modules apart.

The header of each module says which functions it stands for and what a value
abstracts.  What needs more words:

**CanSerialPort.**  `m_TxQueue` is a `std::queue` over a `std::deque`.  The
worker calls `empty()`, `front()` and `pop()` without `m_mutex`
(`CanSerialPort.cpp:82,84,100`), the producers push and pop the overflow under it
(`:43-56`).  In the deque of the only supported build, MSVC's, push and pop both
write the offset and the size, and a push may move the slots.  As long as no two
accesses overlap the deque holds the frames `start` to `finish - 1`; a frame is
the number of its `AddToTxQueue` call.  When the worker's `front()` or `pop()` and
a producer's push or pop overlap (`FrontCollides`, `PopCollides`) the queue is
`torn`: its size may be off by what was counted twice or not at all, also below
zero, `front()` finds any frame or a freed one, and the program may crash at any
moment (`Crash`).  The properties, and the refinement, hold up to the first
overlap; after it nothing can be promised.  `MaxTorn` bounds what a torn queue,
which may never empty, still sends.  `device` is chosen in the initial state, as `m_Device` is in the
constructor, and never changes.  `ReplyPush` is the flow control frame that the worker itself
queues when it receives a first frame.  When the LAWICEL parser throws, the
worker makes a new port before the old one is gone; `pc = "locked"` is the
endless retry that follows if the system gives the port to one handle only.
A parser leaves the beginning of a frame or of a line in `m_CircBuff`; `parsed`
tells which chunks it has seen.

**CanDeviceRx.**  The circular buffer, filled and overwritten by the asio thread,
and the two parsers that take frames out of it; one byte of the model is a part
of a frame (magic number, payload, CRC; letter, body, CR) and remembers its frame.

**AsyncSerial.**  The owner calls `Open`, `Write`, `Close`; `handlers` holds what
was posted to the io_service and did not run.  `RunReturns` is the end of
`io_service::run`, after which posted handlers stay in the queue until the next
`open`.  Data is the number of the `write` call.

**IsoTp.**  `isotp_poll`, `isotp_on_can_message` and `isotp_receive` are called
under `CanEntryHandler::m`, one step each; `isotp_send_with_id` is not
(`CanEntryHandler.cpp:599-602`) and takes three.  A message is the sequence of its
pieces (message, offset).  The receiving end is `isotp.c` itself (`MaxWaits = 0`,
one block size) or a foreign ECU that grants several block sizes and may say WAIT.
A time-out (10 s) happens only when nothing is under way: frames that are not
lost arrive within milliseconds.  STmin is not timed.  Two facts of the protocol
are kept out: with a foreign ECU that says WAIT twice and one lost frame, a flow
control frame of a message given up is taken for the next message; with block
size 0 and a multiple of 16 lost consecutive frames the gap is not seen.
ISO 15765-2 has no message number, so `isotp.c` cannot tell either of them.

**DidHandler.**  `pc` walks through `WorkerThread`, `HandleDidReading` and
`HandleDidWriting`; `phase` tells which of the two uses the dialogue they share.
`ecu` holds the requests not yet answered, in order.  An answer is stored at any
moment (`OnIsoTpDataReceived` takes no mutex) and ends whichever wait is going on.
`MaxLate` counts time-outs while the ECU still works on a request.  Values are
those of `DidGrid`; here an entry shows *whose* value it has.  Nothing makes the
ECU answer before the wait (12 s) and the pause (350 ms) are over: `owing` tells
that it had not when the worker went on, `doubtful` the DIDs whose value came then.

**DataSender.**  The worker makes a request, waits and judges; the port's thread
takes the front of `m_TxQueue`, writes it, and pops; the receiving thread stores a
line, which may be the answer to any request on the bus, in any order, or one
that nobody asked for, and then announces it.  `AddToTxQueue` removes the front
of a full queue, Stop and Clear remove all of it, both possibly under a frame
being sent.  As in `CanSerialPort`, two accesses at once tear the queue
(`Collide`), and so does a `pop()` of one that was emptied.  `dsDoubt` tells that the last
request was made while another was unanswered, or that an unsolicited line came.

**TcpServer.**  All handlers take `m_IoMutex` but `HandleWrite`
(`Session.cpp:61-83`), which is two steps: the reset of `writeInProgress`, and
what follows.  `BroadcastMessage`, which the sources do not call yet, may come from
another thread between the two, and may be in the same session at the same time
(`BroadcastMeets`): then a message goes twice, not at all, or out of order, and
the session is in `tsMet`.

**CmdPages.**  A file may declare more pages than it has, and a page more columns:
`Load` stops there and returns true, with tabs and columns that have nothing behind
them (`Load`, `cxShort`).  It may also throw in any page, after the tabs were made
(`LoadThrows`).  Where something went wrong (an exception, or a step to a page,
name or column that is not there) a behaviour ends, with `cxEnd` to tell why; the
program would go on with undefined state.

**MacroRecorder.**  Keys are letters, modifiers, or `Wordless` ones: ENTER, CAPSLOCK
and what is resolved as INVALID have names longer than a letter and are no
modifiers, so they begin a text and are dropped when it is finished
(`MacroRecorder.cpp:75-78`); a combination keeps them.

**SettingsFile.**  A setting stands for a group of keys that are loaded, shown and
saved alike.  `sfPorts` is what the panel's lists of COM ports offer, which
changes between two updates of the panel: a port that is not there is shown as the
first one, the first is not applied, and of any other `atoi` makes COM0.
`buffers` is `BufferSize`, loaded as a flag and saved as a number.

## 3. Runs

A composite run has one property per family; the conjuncts are defined, each
with its comment, in the module of the component.

| Run | Bounds | Shows |
|---|---|---|
| `can_tx` | 2 callers, queue of 2, 5 frames, 1 chunk received, STM32 or LAWICEL | until two accesses to the deque overlap: no pop of an empty deque, order, no loss without overflow; implements `CanTxFifo`; every frame leaves and every chunk is processed, unless the worker is locked out of its own port |
| `async_serial` | 3 writes, 2 opens, 1 unplugging | before the first error wire, buffer and queue are all that was written; over errors and reopenings the wire stays in order, nothing twice (`WireFaithful`); the buffer of a running write stays as it is; data written on the first connection goes out, `close` returns |
| `async_serial_rewrite` | 2 writes, 2 opens | **violation**: a write buffer left over from before the reopening keeps what is written afterwards |
| `isotp` | 3 messages of 5, 20, 48 bytes, sequence numbers modulo 4, 4 lost frames; or an ECU with 30 bytes, block sizes 0 and 2, 2 WAITs | whole, in order, once; no silent loss, no flooding; a failure has a cause; every transmission and reception ends |
| `isotp_callers` | 2 callers, 2 messages, no loss | **violation**: two callers overwrite the link |
| `did_dialogue` | 2 DIDs, 2 requests, 1 late, 1 dropped, 1 postponed | safe pops, the DID removed is the one asked for, nothing left behind, writes accounted for, values of their own DID unless the ECU was behind; the worker comes to rest and each read ends once it has caught up |
| `did_exit` | 2 requests, 1 abort, 1 postponed, the destructor | the join returns (with one exception) |
| `did_abort` | 2 requests, 1 abort | **violation**: an abort under the worker |
| `did_refresh` | 2 requests, 1 abort | **violation**: after an abort while the worker rests the next refresh does nothing |
| `devices` | `MCDevices.cfg` | see below |
| `services` | `MCServices.cfg` | see below |
| `tools` | `MCTools.cfg` | see below |

`devices`:

* `ModbusSafe` (2 polled units in 2 chunks, 3 requests, 2 edits): the values
  shown for a unit are the slave's for it unless an earlier request failed; a
  damaged answer is taken only through a race; every edit is sent once, in order,
  or waits, unless made while `HandleWrites` runs.  `ModbusTypeOK`: its types.
* `CanBusSafe` (list of 3 over 2 ids; buffers of 7 bytes, 3 frames, 2 bytes lost
  or changed): each row of the grid points to a listed entry whenever a handler
  starts, one entry per id except after Copy, a one-shot click is honoured; frames
  are taken from the stream in order, once, and one that is missing was damaged,
  overwritten or stood beside one that was.
* `ScriptSafe` (2 frames): a wait is ended by the frame waited for, and what is
  sent is what was set, with the named races as exceptions.
* `GridsRight` (3 logged, 2 of them kept; 5 Modbus records; a file of 4 DID rows,
  2 reads, 1 edit): each panel shows what was recorded or answered, once, in
  order, in its row, and leaves the vector only when it is changed under its walk.

`services`:

* `DataSenderSafe` (2 entries, 2 sends, a queue of 1; 3 sends were checked on their
  own): entries in turn; an OK is of the last request unless an earlier one was
  unanswered or a line came unasked; until the queue is torn each request is sent
  once, in turn, or was taken by an overflow or by Stop.
* `StreamsWhole` (5 bytes; 3 reports of 1 key, 4 were checked on their own; 2 threads, 3 entries, 2 searches or
  clears): lines whatever the chunks; when nothing is on its way and no report was
  lost, no key is held and each press ran once; no log entry is lost, and each is
  shown once unless a search came before the timer.
* `TcpServerSafe` (2 addresses, 2 sessions, 2 messages, 3 were checked on their
  own): the list counts what is open; until a write fails or a broadcast meets
  `HandleWrite` in the session, each message is sent, pending or under way exactly
  once, and a session closes when all is written.
* `SensorsAndBitsSafe` (4 measurements, averages over 3): a mean is of all
  measured, a graph ends with the latest rows; a bit dialog reads only inputs it has.
* `MacroKeysSafe` (3 threads, durations up to 2 s): an alarm is not early, its
  dialog comes, the GUI is not held up by those who wait for it.
* `PowerAndExitSafe` (4 samples, time-outs and idle times around 0, 1 and 2000 s;
  2 uses in flight): the power scheme is known and full when the user is there,
  the median is in the middle; an object is used and destroyed while what it needs
  is there, except for the pairs listed in `AppExit`.
* `BackupsSafe` (2 sources, 2 destinations, 2 runs): the good copies are kept, a
  completed one is complete, dialog and end of the program have a reason.
* `EditsFaithful` (8-bit frames for 64, 2 fields, 2 items): an edit writes exactly
  the field typed in, and polls fill the items the grid shows.

`tools`:

* `CommandsSafe` (2 pages, 2 columns, 3 commands, 3 placeholders, 5 buttons):
  names, commands and tabs agree, also of files that are short or throw midway;
  parameters stay in place; each button stands once.
* `EditorsSafe` (3 applications, 2 elements; 3 key events of a letter, a modifier
  and a wordless key, 2 recordings; 2 addresses, 3 windows): no saved macro is lost
  but by the faults named; each letter and modifier is recorded once; the map of
  Widgets follows the windows.
* `SettingsKept` (2 changes, 2 starts, every list of ports): file, memory and panel
  agree but for the settings that one of six faults has touched.

A bound caps a counter in the guard of the action it counts (`MaxFrames`,
`MaxLost`, ...).  They are chosen so that the queue overflows twice in a row,
sequence numbers and blocks wrap more than once, a request waits while another
is answered, a port is reopened after a failure, a list has a first, a middle and
a last entry, and a file is saved and loaded again.  Widths of integers are
scaled where a wrap matters (`SnModulus`, `CountModulus`, `Bits`, `IntBits`) or
kept (unsigned seconds in `PowerSaver`).  Except for `can_tx`, runs use
`CHECK_DEADLOCK FALSE`: with the bounds used up, the port closed or the program
ended, the modelled part really rests.

### Fairness

* `CanSerialPort`: weak fairness of the worker's steps and of each caller inside
  `AddToTxQueue`, strong fairness of a successful `OpenPort` (the worker retries
  for ever).  The time-out of `wait_for` is a step of the worker; without it
  `EveryFrameLeaves` fails, because notifications are lost.
* `AsyncSerial`: weak fairness of the asio thread and of the join.
* `IsoTp`: the caller returns, the worker polls every millisecond, frames that
  are not lost arrive, an ECU that said WAIT answers again.
* `DidHandler`: the worker, the GUI thread once inside a call, and the ECU, which
  answers or drops each request, as late as it likes.  `DialogueEnds` asks for an
  ECU that catches up in the end (`CatchesUp`): requests and answers of one that
  does not can stay one apart for ever, and the worker with them.  No other
  property needs it.

The composites state safety only: their threads are driven by timers and by the
user, whom nothing obliges to act.

## 4. Proofs

Each proof module names an inductive invariant, shows that `Init` establishes it
and that each action preserves it (one lemma per group of actions), and derives
the properties.  TLC checked each invariant on the bounds of its run first.

**`Threads_proofs`**.  Of `CanSerialPort` (every set of callers, every
`TX_QUEUE_MAX_SIZE >= 2`, both devices, the receive path included):

* `TypeOK`, `NeverPopsEmpty`, `SentInOrder`, the last two until the queue is torn.
  None is inductive.  `MutexInv` says
  who is inside `m_mutex`; `SizeInv` that the queue exceeds its maximum only until
  its producer trims it, during which the worker, which needs the mutex to go on,
  pops at most one frame; `OrderInv` relates the frame in the worker's hands to
  the front and to the frames sent.  With a maximum of 1 the argument fails: the
  two pops could find one frame.
* `LossNeedsOverflow`.  `CountInv` compares the overflows with what they owe: the
  frames missing from what was numbered so far, the one a trim is about to remove,
  and the unsent one the worker is about to pop because the trim took the one in
  its hands.  The property counts frames, so the cardinality of a rising sequence
  is needed (`RisingCardinality`).
* `Refinement`: each step is one of `CanTxFifo` or a stutter; an overlap breaks the
  abstract queue (`broken`), of which anything may follow.  The abstract queue
  begins behind the frame in the worker's hands if that is at the front and will
  be sent.  A push submits, `front()` takes, `write` transmits; a trim discards,
  or stutters when it removes the frame in the worker's hands, and then the
  worker's pop discards, which stutters otherwise.  `CountInv` says that an
  overflow is left to pay for each discarding.

Of the other two:

* `ScriptSafe` (every set of frames and any script).  `WaitInv` ties
  `m_WaitingFrame`, the flag and what a callback copied to the wait they belong to;
  `ValueInv` says which of raw block and field was set last.
* `BackupsSafe` (any sources, destinations, items, any number of runs).  `KeptInv`:
  the folders newer than the good one, with the one that the run under way may
  still make where it has rotated, are at most the rotations since; so where
  `max_backups` folders are, one is older, and the first by name is not the good one
  (`GoodStays`, by cardinalities).  `DiskInv`: a destination has one folder of a
  source and a second, although two runs may share a second; `RunInv` and
  `CompleteInv`: how much of the source the folder of the run and the destinations
  before it have.

**`IsoTp_proofs`** (all sizes, block sizes and moduli, any loss), if one thread at
a time calls `SendIsoTpFrame` (`OneCaller`); `isotp_callers` shows why.

* `ConsecutiveHasLength`, the assertion at `isotp.c:117`, and that a message in
  progress has bytes left.  The invariant ties each point of `isotp_send_with_id`
  to the link: while a caller is inside, the status is not INPROGRESS.
* `TypeOK`: a byte count never exceeds its size, a frame under way carries a piece
  of its message, `sn` and `bs_remain` keep their widths (`LinkInv`).
* `ImplementsTransfer`: each step of `IsoTp` is one of `IsoTpTransfer` or a stutter,
  whatever is lost and whichever timer expires.  `OneCycle` is assumed as well: the
  other end never says WAIT and grants blocks of 1 to `SnModulus` frames, as
  `isotp.c` does (8 of 16).  With larger blocks a lost cycle of sequence numbers
  goes unnoticed.  In `TransferInv`, `OrderInv` puts the consecutive frames under
  way before those that begin messages, and a first frame last; `AnswerInv` says
  that a flow control frame under way answers the message in progress and nothing
  else is under way; `ReceivedInv` that the receive buffer is the beginning of one
  message; `WindowInv` that the consecutive frames still to arrive are of that
  message, rising, and within the block.  The sequence number then tells the
  expected frame from every other that can come (`ExpectedFrame`).
* `NeverFloods`, `NoSilentLoss`, `FailureHasCause` if, moreover, all blocks have the
  same size (`NothingVanishes`).  In `LosslessInv`, `PresentInv` says that as long as
  nothing was lost the frames sent and not taken are on their way, without a gap, to
  a reception that waits for them, and every message is somewhere (`Accounted`);
  `CauseInv` that a sender in progress has an answer still to come.  `isotp` checks
  the three under the names `NoFloodNoSilentLoss` and `FailureHasCauseAtPeer`, which
  also say for which end they hold.

**`DidHandler_proofs`** (every set of DIDs, any number of requests and retries, an
ECU that answers anything at any time).

* `TypeOK`, with aborts and the destructor.  `AtDid` says where `did` is a DID.
* The others without aborts and before the destructor (`NoAborts`); `did_abort`
  shows that this is needed.  `NoEmptyPop`, `RemovesTheAsked`: the DID being asked
  for is the front of the queue from `front()` to `pop_front()` (`FrontInv`).
* `NothingLeftBehind`, `WritesAccounted`.  `ReadsSeen`: whatever is in the queue, a
  notification is pending or the worker has still to look at it; `WritesSeen`: for
  each DID the last value was sent, or the map holds it and the worker still comes
  to it, or it is among the exceptions the property names.
* `ValueIsOfDid` if also `MaxRetries > 0` (with none, the loop would give up without
  the pause).  Nothing is assumed of when the ECU answers.  `UnderWay`: outside the
  pause, unless the ECU was behind after the last one (`owing`), only the front was
  asked for; `Received`: what is stored is then an answer to it.

**`Tools_proofs`**.

* `WireFaithful` (any number of writes, openings and unpluggings).  `OrderInv`: the
  wire, the buffer of the outstanding write and the queue are rising, each before
  the next; `FirstInv`: before the first error nothing is missing from the three,
  and before the first opening nothing moved.  After an error data may be lost, so
  only the order is claimed there.  `BufferStable`, an action property, follows
  from the same invariant.
* `SettingsKept` (every set of values, any number of changes and starts).  It is
  nearly inductive by itself: `SettingsInv` adds the types and `ConnectionInv`, what
  the file can have of the Modbus connection, which no save writes; the rest is a
  case per setting of what `LoadedValue`, `Applied` and `UpdatePanel` do to it.
* `CommandsSafe` (any file, number of columns, values, gaps and edits).
  Of the pages (`PagesInv`): there are at least as many tabs, and names, as pages
  (those behind the pages are empty unless a load threw, `RestIsEmpty`), and each name is that of its page unless `Cmds.xml` was loaded over other
  names (`cxMixed`); each button of a tab has a command in the same column of its
  page (`Covers`), which every insertion and deletion keeps.  Of the parameters (`ParamsInv`): `SavedInPlace` is inductive with
  the types alone; the work is in one save.  After its n-th turn the first n
  placeholders have their values and the search stands where the n-th old value
  would have ended (`Reached`), from where the next placeholder found is the
  (n+1)-st (`NextTurn`), since the lengths fit.  Of the buttons (`ButtonsInv`): the
  places of the page and the numbers of its buttons are in bijection (`OnceEach`),
  the open row counted as column 0.

**`Devices_proofs`** (any number of units, requests, edits, frames, messages; any
list of DIDs, cache file, answers and texts; any buffer and any damage of the line).

* `ModbusTypeOK`, `ModbusSafe`, of which the next three items say why.
* Whose values: until a request fails, while one is awaited nothing else is in
  `m_SentData`, on the line or answered (`Alone`); after it, nothing older than
  the first one that failed (`Late`).
* Which bytes: the CRC flag is that of `m_RecvData` except between the two writes
  of `OnUartDataReceived` (`CrcInv`).
* What becomes of an edit: the list rises, what `HandleWrites` is done with is
  sent, and an edit made meanwhile is the newest (`EditInv`).
* `GridsRight`.  Of the log panels (`LgInv`, `MlInv`): the grid is what it had when
  the vector was cleared last, followed by what passes of the entries up to
  `until`; the iterator stands behind the rows already made, and belongs to the
  vector as it is now unless something was pushed during the walk; the label
  counts what was remembered or is about to be.  Of the DID panel (`DgInv`):
  `did_to_row` leads to a row of this DID unless the grid was filtered since; a
  row whose text is not that of its DID has a cause, and while there is no
  other, the DID is still to come in `m_UpdatedDids` (`Unshown`), so the timer
  cannot miss an answer; a saved cache is the list as it is until something in
  the list changes.
* `CanBusSafe`.  The list of frames to send (`TlInv`): the three properties are
  inductive together; the work is in what Move, Delete and Load do to a list
  without repetitions, and that the rows, filtered, stay in its order.
  The receive parsers (`RxInv`): every byte has a place in what was sent (`RxPos`),
  places rise from the parser to the end of the line, and behind the first byte
  nothing of an undamaged frame is missing (`RxFlow`).  So a frame
  that stands beside no damaged one is taken, or its first byte is still there
  (`RxKept`): if the parser of the STM32 looks at a magic number while that byte is
  in reach, it is that byte (`RxStmSync`), and a line of the LAWICEL in which a data
  frame begins is the line of that frame (`RxLineSync`).  Each exception has a damaged line of
  its own (`RxThrown`), each erased whole frame a culprit before it (`RxCause`).

**`Services_proofs`**.

* `DataSenderSafe` (every list of entries, any number of sends, any queue).  `TurnInv`: the
  times an entry was sent are its complete turns and those of the turn begun, so
  the current entry follows from the history.  `AnswerInv`: unless it is
  in doubt, the last request is in one place: queued, sent, stored, announced or
  judged.  `QueueInv`: what was sent, and the queue after it, rise; what is in
  neither was counted by an overflow or by `ClearBuffers`.
* `TcpServerSafe` (any number of clients, sessions, messages).  `NumberInv`:
  messages are numbered without a gap; `KeptInv`: what is written, pending and
  under way is what was given, as a set and by count, so nothing is doubled;
  `LoneInv`: a session that shares its address with none is listed as long as it is
  open; `ListCountsOpen` compares cardinalities per address.
* `MacroKeysSafe` (every duration).  `TimeInv`: the armed alarm has the seconds to
  go that were not counted, except between the two writes of its fields;
  `RequestInv`: as long as no two requests met, one thread waits exactly while
  there is one request, in one of its three stages; `ClickInv`: only a click leads
  the GUI to `executor_mtx`.
* `PowerAndExitSafe`.  `PsInv` is inductive as it stands (any time-outs, idle times
  and numbers of samples, as long as the samples are of an even number, which is
  what makes `MedianIsMiddle` true).  For the exit, `Leaves` names the
  step at which each object is deleted for the first time.  `ThereInTime`: before
  it an object is not gone, after it it is gone or was made again by `Get`;
  `RunsInTime`: a thread runs while its owner is there, and is inside objects that
  were made; `MadeInTime`: what the constructors made is there afterwards.  Which
  pairs of user and used object meet outside the exceptions is then arithmetic on
  `Leaves`.
* `SensorsAndBitsSafe`.  `InTurn` says who holds the database handle unless a graph
  was ordered during an insertion; `HasTaken` which rows the walk has taken so
  far; `Rising` that a mapping stays ordered by its offsets through every edit,
  and `Inputs` that a dialog has an input for each of its fields, up to `MaxFields`.

**`Streams_proofs`** (any letters and bytes; any keys, reports and failures; any
threads, texts, levels, entries and searches): `StreamsWhole`.

* `LinesWhole`.  `DlInv`: what is delivered and what is buffered is what the stream
  so far gives, taken byte by byte, and no CR is buffered between two calls.  The walk of
  `OnDataReceived` over its buffer is a recursive function; the proof follows it
  turn by turn and shows that it takes the same bytes.
* `KeyReportsSafe`.  `KrComing`: while nothing was lost, what is on its way, on the
  line and on connections, is whole reports, each the next that the keyboard
  sends after the one before; they end with what the keyboard holds, or with a
  message that is sure to be refused; and the presses still owed are those that
  will begin something.  `KrHot`: in the advanced mode what a program has pressed,
  whatever was lost, contains a key, so nothing appended to it becomes the text of
  another report.
* `LogSafe`.  `LeOrder` numbers the entries accepted and says that those waiting
  for the timer are the newest; `LeTimed` that the timer's rows are the ones
  between the last clear and them; `LeOnce` that a row equal to a waiting entry
  came from a search.

The least element of a set of numbers (`Late`, `Lowest` of the map of writes, the
oldest folder) comes from the library's theorem on well-founded orders.  The
assumptions on constants are the named `ASSUME`s of the modules; TLC evaluates them
in every run.  They say that bounds are numbers, and what the code fixes: DIDs of
16 bits, sequence numbers of at most 4, sizes of at most 4095 bytes, a queue of at
least 2 (it is 100), that `NoFrame` is no frame, that names of folders are
ordered, that no key is called like `NoKey` or the modifier; an even number of load
samples (it is 10), a positive width of `m_NumMeasurements` and resolution of the
graphs (with 0, the front of an empty list is removed), offsets and sizes of fields in the
mappings; a circular buffer that holds something, and a longest line (64) that a frame
(27) fits into; values with a length and gaps that are numbers.

**Only model-checked**

* All liveness and everything that needs fairness or ENABLED, which TLAPS does not
  do.
* What `isotp` says of a foreign ECU, which may say WAIT or grant everything at
  once: `ImplementsTransfer` on a bus that loses nothing, and why a sender gives up.
* `EditorsSafe`: what is loaded and what was recorded is filtered by `SelectSeq`.
* `EditsFaithful`: the offsets of the Modbus items are a `FoldLeft`, and a bit is
  shown to keep its value by arithmetic with `\div`, `%` and powers of two, of which
  the provers know little beyond constants.

Induction over data needs no schema here: the theorem on well-founded orders gives it
for *sets* of numbers (`SetInduction` and `RecExists` in `Sublists`), and a
recursive function is shown to exist and to be unique from its defining equation.
That is how `Within`, `DataLines` and the walks over bit fields are reasoned
about.  Operators that take an operator (`SelectSeq`, `FoldLeft`) stay out of the
provers' reach, which is why the panels filter with `Within`.

## 5. What the models found

Four violations are listed under `findings`, each with the comment or assertion
it contradicts.  The rest of this section is behaviour of the code that the
models contain, and that a property names as an exception or a hazard describes.

**CAN and serial port**

* `SendPendingCanFrames` reads and pops `m_TxQueue` without the mutex of
  `AddToTxQueue` (`CanSerialPort.cpp:82-100`).  Between whole calls this costs no
  more than what an overflow costs; where two calls overlap, MSVC's deque may end with a
  wrong size, and a frame is lost or a freed one sent without any overflow (`torn`).
* After an exception in `m_SendFunction` (the LAWICEL parser's `unhex`) the worker
  constructs the new `AsyncSerial` before the old, still open one is released
  (`SerialPortBase.cpp:173`).  Where a port opens for one handle only, as COM ports
  do, every later open fails.  `NothingIsStuck` exempts it (`pc = "locked"`).
* After an error `AsyncSerial` is closed while `isOpen()` stays true, so
  `SerialPortBase.cpp:186` never notices an unplugged port; and a `doClose` posted
  to a stopped io_service closes the next connection.  `HandlersEnd` states that
  data goes out for the first connection only; `ReopenedGoesOut`, of what is
  written on the second one, fails by a `writeBuffer` that is never reset (`:344`).
* `OnFrameSent` is also called for the LAWICEL start-up commands
  (`CanSerialPort.cpp:97`): the TX counter exceeds the frames sent.
* The LAWICEL parser erases the whole buffer at an empty or damaged line and keeps
  the last complete line until more comes, without `m_RxMutex`.  After a CRC
  mismatch the STM32 parser drops as many bytes as a frame has, and with them the
  start of the next one.
* Consecutive ISO-TP frames go to the default ECU id, not to the `frame_id` the
  caller passed (`isotp.c:131`; ids are not in the model).  A flow control frame
  handled before `send_status = INPROGRESS` is ignored (`CanEntryHandler.cpp:601`)
  and the message times out (`ignored` in `FailureHasCause`).
* `CanLogPanel`'s timer and `GenerateLogForFrame` walk `m_LogEntries` without the
  mutex (`lgWild`).  Stop keeps the rows although its tooltip says it clears them.
* `WaitForFrame` arms itself after the provoking frame was queued
  (`CanScriptHandler.cpp:423`); an abort with no script running ends the next one
  (`:75`); a field set twice is stored with its bytes reversed (`:145,206`).

**UDS**

* `~DidHandler` releases the semaphore *before* `m_worker.reset()` requests the
  stop (`DidHandler.cpp:22-23`).  A worker that wakes in between looks at the
  stop token too early, returns to `acquire()`, and the join hangs (`took`).
* A value written while `HandleDidWriting` iterates, for a DID already passed, is
  cleared unsent (`DidHandler.cpp:620`; `during`).
* Any answer that starts with 62 is taken for the current DID (`:439`).  One that
  is later than the wait and the pause is shown for the next DID, and the dialogue
  stays one answer behind until the ECU has caught up (`doubtful`).
* An abort sets `m_IsAborted` also while the worker rests (`:67`); the next refresh
  then does nothing (`did_refresh`).
* `ProcessReadDidResponse` combines bytes with `||`; strings lose their last three
  bytes; an answer of fewer data bytes throws in the worker.  A zero byte makes
  `DidCache.xml` unreadable.  `did_to_row` is stale for filtered DIDs.

**Modbus and bits**

* Nothing in an answer is compared with its request: a late one satisfies the next
  (`ModbusMasterSerialPort.cpp:45`).  Edits made during `HandleWrites` are cleared
  unsent, and the unlocked `push_back` (`ModbusHandler.cpp:965`) races it.
* Exceptions and time-outs are recorded without the lock
  (`ModbusMasterSerialPort.cpp:103-133`).
* The bit dialogs skip a float without advancing to its text's successor, cannot
  set negative values, and write back every field as it was shown.

**Keys, macros, alarms**

* The restart message of the second keyboard is shorter than a report and refused
  at `CustomMacro.cpp:756`, so `:767` is dead and held keys stay held.  A read that
  joins or cuts reports is dropped whole.
* An alarm is armed before its duration is set (`Alarms.cpp:183`); its dialog is
  awaited under `executor_mtx` (`CustomMacro.cpp:890`), in the GUI too.
* The recorder dereferences null (`MacroRecorder.cpp:104-106,187`) after the
  overlaps that `NullNeedsOverlap` lists.  The macro panel works on stale lists
  (`gui/Configuration.cpp:1335-1500`); a rename onto a used key loses a macro; a
  text with a `]` or a keyword loses its rest; MOUSE_RELEASE is never parsed.

**Services**

* `DataSender` takes late answers, and lines that nobody asked for, for the answer
  to the entry it waits on (`dsDoubt`).  The overflow of `AddToTxQueue`
  (`DataSerialPort.cpp:54-58`) or Stop may take the front that is being sent, so
  that the pop (`:184`) removes an unsent request or meets an empty queue.
* A TCP session is erased by address (`Session.cpp:130`) and its timer sends the
  front of the queue during a write (`:48`).  `HandleWrite` (`:61`) takes no mutex:
  a broadcast from another thread may overwrite `sentData` (`tsMet`).
* `Sensors` counts in a `uint8_t`; the database handle is
  shared by two threads.
* `IdlePowerSaver.cpp:75` subtracts 2000 ms from unsigned seconds.
* A failed backup leaves the dialog; an exception is thrown again by the next
  `get()` (`DirectoryBackup.cpp:66`); with no folder to remove, `*begin()` (`:346`).
* The log's search shows entries that still wait for the window, which are then
  shown again; the filters are read while they may change, and searched in the
  format string instead of the message.

**Tools**

* `Settings::LoadFile` reads Modbus keys (`Settings.cpp:101-108`) that `SaveFile`
  never writes; `UpdatePanel` does not show the CAN settings that Save applies
  (`gui/Configuration.cpp:608-611,692-772`); a file without macros stops each load.
* The panel applies a COM port only if it is not the first of its list, and then
  reads its number from the third letter of "COM3" on, where there is none: COM0
  (`gui/Configuration.cpp:591-592,600-601`).  A port that is not there is shown as the first
  one (`:694-719`).  `BufferSize` is loaded with `stob` (`Settings.cpp:190`): 2
  becomes 1.
* A `Cmds.xml` with fewer pages or columns than it declares is loaded as far as it
  goes, with tabs and columns for the rest, where Add and the others reach
  beyond a vector (`CmdExecutor.cpp:201-227`).  The file that
  `WriteDefaultCommandsFile` writes has no icon for its pages and so throws at the
  first one (`:209`).
* The recorder leaves ENTER, CAPSLOCK and unresolved keys out of what is typed
  (`MacroRecorder.cpp:75-78`).
* `CmdExecutor::Load` appends names, `AddItem` compares the column with the number
  of pages (`CmdExecutor.cpp:453`), colours are not saved, and `SaveParameters`
  uses lengths of before its own replacements (`:136-173`): the place where the
  search goes on, and the length of the text at which it stops (`:143`), so that
  values that grow leave the last ones unsaved (`FitsAt`).
* `FindwxText` (`GuiEditor.cpp:577`) inserts null Widgets, which Save, Duplicate and
  the code page follow; Delete leaves the selection on an address that the next
  window may get; `OnDestroyAll` takes every window for a text (`:639-641`).

**Exit** (`AppExit` lists every pair)

* `CanSerialPort` and `DataSerialPort` are destroyed before the workers that send
  through them, `Settings` before the `Server` that asks it, `Sensors` before the
  graph's future, `CustomMacro` before the threads that run macros, `Logger` before
  the alarms' worker.  `Get` then makes a new, inert object that nobody destroys.

## 6. Not modelled, and what is left

* `CryptoPrice` (a polled future), `WorkingDays` (a calendar), the text tools
  (`StructParser`, `MapConverter`, escaping): conversions without state.
  `StructParser`'s layout and the calendar could be checked as pure operators.
* Screen shots, links, volume, hot keys and the other helpers: one call each,
  forwarded to the Windows API.
* Layout, colours and texts of the panels; the file browser; the loaders of the
  Modbus registers, alarms and data sender; the XML text of files (a file is the
  sequence of what was saved).
* Vendored libraries, except `isotp` and the bit access of `bitfield`.
* Changing the COM port while it runs; a thread that waits for the alarm's dialog
  at exit, which blocks the join for ever; data races inside a container, but for
  the transmit queues of the CAN and data ports.

Left to do:

* proofs of `EditorsSafe` and `EditsFaithful`: the filters would be rewritten with
  `Within`, the sums with `SumsTo`, and powers of two given lemmas of their own;
* the loaders of registers, alarms and the data sender, and `StructParser`'s layout.
