---------------------------- MODULE MCRecording ----------------------------
(***************************************************************************)
(* Two uploads with one file name stem, one of which waits for a certain   *)
(* unit and one for nothing, and a mark_dump call that waits for any unit. *)
(***************************************************************************)
EXTENDS Recording

CONSTANTS s1, s2, p1, p2, d1

MCWaitsFor == [r \in Requests |-> CASE r = p1 -> s1
                                    [] r = p2 -> NoWait
                                    [] r = d1 -> AnyUnit]
=============================================================================
