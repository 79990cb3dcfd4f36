--------------------------- MODULE IsoTpTransfer ---------------------------
(***************************************************************************)
(* What the ISO-TP link promises to its users: messages submitted to       *)
(* SendIsoTpFrame arrive whole, in the order of the calls and at most once,*)
(* or not at all.  A message is the number of its call.                    *)
(***************************************************************************)
EXTENDS Naturals, Sequences

VARIABLES submitted,     \* how many messages were accepted for sending
          delivered      \* the messages handed to the receiving user, in order

vars == <<submitted, delivered>>

Init == submitted = 0 /\ delivered = <<>>

Submit ==
  /\ submitted' = submitted + 1
  /\ UNCHANGED delivered

Last == IF delivered = <<>> THEN 0 ELSE delivered[Len(delivered)]

Deliver ==
  \E m \in (Last + 1)..submitted :
    /\ delivered' = Append(delivered, m)
    /\ UNCHANGED submitted

Next == Submit \/ Deliver

Spec == Init /\ [][Next]_vars
=============================================================================
