----------------------------- MODULE EntityOffer -----------------------------
(***************************************************************************)
(* What the integration promises about the entities of the units            *)
(* (entity.py, module docstring): every quantity a model can have gets an   *)
(* entity; it is offered - enabled - once its unit has shown the quantity,  *)
(* never before, and stays offered whatever the unit shows later, unless    *)
(* the user has refused it; only the user undoes a refusal.                 *)
(***************************************************************************)
CONSTANT Entities

VARIABLES
  shown,    \* the entities whose quantity has arrived at some time
  offered,  \* the entities that are enabled
  refused   \* the entities a user has disabled

vars == <<shown, offered, refused>>

Init ==
  /\ shown \in SUBSET Entities
  /\ offered \in SUBSET shown
  /\ refused \in SUBSET (Entities \ offered)

\* Frames arrive, and the integration enables what they show.
Offer ==
  /\ shown' \in SUBSET Entities /\ shown \subseteq shown'
  /\ offered \subseteq offered'
  /\ offered' \ offered \subseteq shown' \ refused
  /\ UNCHANGED refused

\* The user disables an entity, or enables it, shown or not.
Refuse(e) ==
  /\ e \in offered
  /\ offered' = offered \ {e}
  /\ refused' = refused \cup {e}
  /\ UNCHANGED shown

Accept(e) ==
  /\ offered' = offered \cup {e}
  /\ refused' = refused \ {e}
  /\ UNCHANGED shown

Next == Offer \/ \E e \in Entities : Refuse(e) \/ Accept(e)

Spec == Init /\ [][Next]_vars
==============================================================================
