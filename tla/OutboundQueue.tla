--------------------------- MODULE OutboundQueue ---------------------------
(***************************************************************************)
(* What the IRC transport promises of the messages it accepts: they leave  *)
(* in the order they were accepted, each at most once.  Some are dropped,  *)
(* oldest first, and all of them when the transport is reset.  Messages    *)
(* are numbered in the order of acceptance.                                *)
(***************************************************************************)
EXTENDS Naturals, Sequences

VARIABLES accepted,   \* number of messages accepted
          pending,    \* those that have not left, oldest first
          delivered   \* those that were sent, in the order of sending

vars == <<accepted, pending, delivered>>

Accept ==
  /\ accepted' = accepted + 1
  /\ pending' = Append(pending, accepted')
  /\ UNCHANGED delivered

Deliver ==
  /\ pending # <<>>
  /\ delivered' = Append(delivered, Head(pending))
  /\ pending' = Tail(pending)
  /\ UNCHANGED accepted

Drop ==
  /\ pending # <<>>
  /\ pending' = Tail(pending)
  /\ UNCHANGED <<accepted, delivered>>

Clear ==
  /\ pending' = <<>>
  /\ UNCHANGED <<accepted, delivered>>

Init == accepted = 0 /\ pending = <<>> /\ delivered = <<>>

Next == Accept \/ Deliver \/ Drop \/ Clear

Spec == Init /\ [][Next]_vars
=============================================================================
