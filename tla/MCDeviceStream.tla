--------------------------- MODULE MCDeviceStream ---------------------------
(***************************************************************************)
(* Streams for DeviceStream: aligned and shifted v7 frames, short and long *)
(* v8 frames with and without separators, junk before and between them.    *)
(***************************************************************************)
EXTENDS DeviceStream

V7(i) == << <<"head", 1, i>>, <<"body", 1, i>>, <<"head", 2, i>>,
            <<"body", 2, i>>, <<"head", 3, i>>, <<"body", 3, i>> >>

V8(i, n) == << <<"sig", 0, i>> >> \o [k \in 1..n |-> <<"text", k, i>>]
            \o << <<"nl", 0, i>> >>

Separator == << <<"nl", 0, 0>> >>
Junk(n) == [k \in 1..n |-> <<"junk", 0, 0>>]

MCStreams ==
  { V7(1) \o V7(2),                               \* aligned
    Tail(V7(0)) \o V7(1) \o V7(2),                \* joined inside a frame
    From(V7(0), 6) \o V7(1) \o V7(2) \o V7(3),    \* shifted inside a segment
    From(V7(0), 4) \o V7(1) \o V7(2),             \* shifted past a segment
    V8(1, 0) \o V8(2, 0) \o V8(3, 0) \o V8(4, 0), \* short frames in one read
    V8(3, 0) \o V8(4, 0) \o V8(5, 0) \o V8(6, 0), \* ... the second refused
    V8(4, 1) \o V8(5, 6),                        \* refused, part of the next read
    V8(1, 12) \o V8(2, 0),                       \* a line at readuntil's limit
    V8(1, 13) \o V8(2, 0),                       \* ... and one past it
    V8(1, 1) \o Separator \o V8(2, 1) \o Separator \o V8(3, 1),
    V8(1, 6) \o Separator \o V8(2, 0) \o V8(3, 5),
    Separator \o V8(1, 3) \o V8(2, 4),
    Junk(2) \o V8(1, 0) \o V8(2, 6),
    V8(1, 2) \o Junk(7) \o V8(2, 1) }

\* The decoder raises on a frame in some of them, the last or one before others.
MCRefused == {4}
=============================================================================
