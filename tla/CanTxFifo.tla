----------------------------- MODULE CanTxFifo -----------------------------
(***************************************************************************)
(* What the transmit path of CanSerialPort promises to its callers: an     *)
(* order preserving, bounded, lossy queue.  AddToTxQueue accepts a frame;  *)
(* one frame at a time is taken for transmission and reaches the serial    *)
(* port; the only frames that disappear are the oldest unsent ones, and at *)
(* most one of them for each call that found the queue full.  It promises  *)
(* nothing any more once two of its users were at the queue at once.       *)
(***************************************************************************)
EXTENDS Naturals, Sequences

CONSTANTS Frame,      \* the frames callers may submit
          Capacity    \* TX_QUEUE_MAX_SIZE

VARIABLES pending,    \* accepted frames not yet taken, oldest first
          inFlight,   \* <<>> or the one frame being handed to the port
          sent,       \* the frames handed to the port, in order
          credit,     \* calls that found the queue full, less the frames lost
          broken      \* the queue was accessed by two at once

vars == <<pending, inFlight, sent, credit, broken>>

Init == /\ pending = <<>> /\ inFlight = <<>> /\ sent = <<>>
        /\ credit = 0 /\ broken = FALSE

(* A call accepts the frame.  It counts as an overflow only when Capacity  *)
(* frames are already waiting, the one in flight included.                 *)
Submit(f) ==
  /\ pending' = Append(pending, f)
  /\ credit' \in {credit} \cup
                 (IF Len(pending) + 1 >= Capacity THEN {credit + 1} ELSE {})
  /\ UNCHANGED <<inFlight, sent>>

Take ==
  /\ pending # <<>> /\ inFlight = <<>>
  /\ inFlight' = <<Head(pending)>>
  /\ pending' = Tail(pending)
  /\ UNCHANGED <<sent, credit>>

Transmit ==
  /\ inFlight # <<>>
  /\ sent' = sent \o inFlight
  /\ inFlight' = <<>>
  /\ UNCHANGED <<pending, credit>>

(* An overflow is paid with the oldest frame that is not in flight. *)
Discard ==
  /\ credit > 0 /\ pending # <<>>
  /\ pending' = Tail(pending)
  /\ credit' = credit - 1
  /\ UNCHANGED <<inFlight, sent>>

Next == \/ /\ broken' = FALSE
           /\ \/ \E f \in Frame : Submit(f)
              \/ Take \/ Transmit \/ Discard
        \/ broken' = TRUE

Spec == Init /\ [][Next]_vars
=============================================================================
