------------------------------ MODULE MCIsoTp ------------------------------
(* IsoTp for TLC: the receiving end is isotp.c itself on a lossy bus, as the *)
(* constants of the .cfg say, or a foreign ECU with a small buffer that may  *)
(* say WAIT or grant everything at once, on a bus that loses nothing.        *)
EXTENDS IsoTp

VARIABLE peer

Ecu == INSTANCE IsoTp WITH
  Sizes <- {5, 20, 34}, RecvBufSize <- 30, BlockSizes <- {0, 2},
  MaxLost <- 0, MaxWaits <- 2

MCInit == Init /\ peer \in {"isotp.c", "ecu"}

MCNext ==
  /\ UNCHANGED peer
  /\ \/ peer = "isotp.c" /\ Next
     \/ peer = "ecu" /\ Ecu!Next

Here(A, B) == (peer = "isotp.c" /\ A) \/ (peer = "ecu" /\ B)

MCFairness ==
  /\ \A c \in Caller : WF_vars(Here(isotp_send_with_id(c), Ecu!isotp_send_with_id(c)))
  /\ WF_vars(Here(isotp_poll, Ecu!isotp_poll))
  /\ WF_vars(Here(SenderOnCanMessage, Ecu!SenderOnCanMessage))
  /\ WF_vars(Here(ReceiverOnCanMessage, Ecu!ReceiverOnCanMessage))

MCSpec == MCInit /\ [][MCNext]_<<vars, peer>> /\ MCFairness

(* NeverFloods and NoSilentLoss for isotp.c at both ends: an ECU may grant   *)
(* everything at once, and one that said WAIT too often answers a message    *)
(* given up, which the next message takes for its own.                       *)
NoFloodNoSilentLoss == peer = "isotp.c" => NeverFloods /\ NoSilentLoss

(* FailureHasCause, with the buffer size of the end that received.           *)
FailureHasCauseAtPeer ==
  IF peer = "ecu" THEN Ecu!FailureHasCause ELSE FailureHasCause
=============================================================================
