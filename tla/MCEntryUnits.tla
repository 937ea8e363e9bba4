---------------------------- MODULE MCEntryUnits ----------------------------
(* Two units and two platforms with a feature each, one of which had its     *)
(* entity under another key before.                                          *)
EXTENDS EntryUnits, TLC

CONSTANTS u1, u2, sensor, button, running_hours, relay

MCUnits == {u1, u2}
MCFeatures == {running_hours, relay}
MCPlatformOf == (running_hours :> sensor) @@ (relay :> button)
MCRenamed == {<<u1, running_hours>>}
MCFrames == {{relay}, MCFeatures}
=============================================================================
