---------------------------- MODULE OrderedRelay ----------------------------
(***************************************************************************)
(* What the cloud mirror promises, seen from outside: the unit hands over  *)
(* frames numbered 1, 2, 3, ..., and whatever reaches the cloud reaches it *)
(* in that order.  A frame may never arrive (a full queue, a connection    *)
(* that broke, a stopped mirror) and the last one may arrive again (it was *)
(* sent a second time because the first attempt failed), but an older one  *)
(* never follows a newer one.                                              *)
(***************************************************************************)
EXTENDS Integers, Sequences

VARIABLES handed,   \* how many frames the unit has handed over
          received  \* the frames the cloud has read, in the order it read them

relayVars == <<handed, received>>

Newest == IF received = <<>> THEN 0 ELSE received[Len(received)]

RelayInit == handed = 0 /\ received = <<>>

HandOver == /\ handed' = handed + 1
            /\ UNCHANGED received

Arrive == \E f \in 1..handed :
             /\ Newest <= f
             /\ received' = Append(received, f)
             /\ UNCHANGED handed

RelayNext == HandOver \/ Arrive

RelaySpec == RelayInit /\ [][RelayNext]_relayVars
=============================================================================
