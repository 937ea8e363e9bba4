-------------------------- MODULE MCBackwashTracker --------------------------
(***************************************************************************)
(* BackwashTracker on days of three ticks: a unit set to run every day or   *)
(* every other day, whose clock may be one tick ahead.                     *)
(***************************************************************************)
EXTENDS BackwashTracker

MCSchedules == {<<2, 2>>, <<1, 1>>}
MCSkews == {0, 1}
MCEntries == {2}
MCNone == -1000
=============================================================================
