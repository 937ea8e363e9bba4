---------------------------- MODULE MCUnitDevice ----------------------------
(* Every mapped unit type and header line, and one of each that is unmapped.  *)
(* The bytes that matter are all filled in, all unset, or all but the shared  *)
(* port's flow rate; outputs are all on, all off, or the filtration alone.    *)
EXTENDS UnitDevice

MCKinds ==
  {[protocol |-> "v7", types |-> T] : T \in {2..4, {5}, 9..11, 13..15, {16}}}
  \cup {[protocol |-> "v8", types |-> T] : T \in {{804}, {105}}}
SaltKinds == {[protocol |-> "v7", types |-> 13..15]}

\* Every byte of a v7 frame that a reading asks for, or the first of its word.
Bytes ==
  {6, 14, 16, 18, 20, 21, 22, 23, 25, 27, 38, 52, 53, 54, 55, 56, 58, 60, 62, 68,
   69, 71, 72, 74, 76, 78, 92, 95, 99, 101, 102, 103, 104, 105, 106, 112, 115}
MCFilled == {Bytes, Bytes \ {18, 101}, {}}
MCRelays == {{1, 2, 4, 8, 16, 32, 64, 128}, {}, {FILTRATION}}
MCSettings == SUBSET {MENU_OPEN, SHARED_PORT_ROUTING}
MCPorts == {0, AlgicidePort, FlocculantPort, 3}
MCOuts == {{}, {2, 8, 9, 11, 14}}
MCProbes == {{}, {"ph", "redox", "salinity", "temperature"}, {"ph"}}
=============================================================================
