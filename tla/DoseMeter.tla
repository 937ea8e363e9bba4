------------------------------ MODULE DoseMeter ------------------------------
(***************************************************************************)
(* What the consumption of one pump promises (docs/guides/chemical-          *)
(* consumption.md): two counters that grow together, by no more than a       *)
(* bounded dose at a time, that go back only by a reset or to what was kept  *)
(* of them, and that take a value from elsewhere only where nothing had been *)
(* kept.                                                                     *)
(***************************************************************************)
EXTENDS Naturals

CONSTANTS
  MaxDose,   \* the most one frame may add
  Earlier    \* what the sensors may have shown before counters were kept

Counters == {"total", "canister"}
Nothing == [c \in {} |-> 0]
Zero == [c \in Counters |-> 0]

VARIABLES
  counted,  \* the two counters
  kept,     \* the counters as they were last kept, or Nothing
  fresh     \* they started from nothing: earlier values may be adopted

vars == <<counted, kept, fresh>>

Init == counted = Zero /\ kept = Nothing /\ fresh = TRUE

Dose ==
  /\ \E ml \in 0..MaxDose : counted' = [c \in Counters |-> counted[c] + ml]
  /\ UNCHANGED <<kept, fresh>>

Reset ==
  /\ \E S \in SUBSET Counters :
       counted' = [c \in Counters |-> IF c \in S THEN 0 ELSE counted[c]]
  /\ UNCHANGED <<kept, fresh>>

Keep == kept' = counted /\ UNCHANGED <<counted, fresh>>

Recall ==
  /\ counted' = IF kept = Nothing THEN Zero ELSE kept
  /\ fresh' = (kept = Nothing)
  /\ UNCHANGED kept

Adopt ==
  /\ fresh
  /\ \E c \in Counters : counted' = [counted EXCEPT ![c] = Earlier[c]]
  /\ UNCHANGED <<kept, fresh>>

Next == Dose \/ Reset \/ Keep \/ Recall \/ Adopt

Spec == Init /\ [][Next]_vars
=============================================================================
