---------------------------- MODULE DeviceStream ----------------------------
(***************************************************************************)
(* server.py: one connection of a unit, from the TCP byte stream to the    *)
(* frames handed on (_handle_client, _read_message, _read_initial,         *)
(* _sync_frame, _rewind_binary, _deliver_v7, _deliver_v8).                 *)
(*                                                                         *)
(* The stream is cut into cells, the pieces the framing tells apart:       *)
(*   <<"head", k, i>>  the bytes of segment k of v7 frame i that carry the *)
(*                     serial number and the segment's type                *)
(*   <<"body", k, i>>  the rest of that segment                            *)
(*   <<"sig", 0, i>>   "{v1 " at the start of v8 frame i                   *)
(*   <<"text", k, i>>  the values of v8 frame i                            *)
(*   <<"nl", 0, i>>    a newline: the end of v8 frame i, or a separator (0)*)
(*   <<"junk", 0, 0>>  anything else                                       *)
(* A v7 frame is three segments, so MessageSize, 120 bytes in the code, is *)
(* six cells.  A rewind needs all three segment heads inside one message   *)
(* and in order, as in the code: with one cell of shift they still are,    *)
(* with more the search runs off the end (IndexError, past byte 34).       *)
(*                                                                         *)
(* TCP delivers any number of cells at a time; the unit may hang up, reset *)
(* or fall silent at any moment.  The handler is cut at its awaits, the    *)
(* reads: handing a frame on never suspends, every sink is a callback that *)
(* returns at once.                                                        *)
(***************************************************************************)
EXTENDS Integers, Sequences, SequencesExt

CONSTANTS Streams,    \* the streams a unit may send: sequences of cells
          Refused,    \* the frames (by number) the decoder raises on
          ReadLimit,  \* asyncio's limit on what readuntil passes over
          MaxNumber   \* bound: the highest frame number in Streams

ASSUME LimitAssumption == ReadLimit \in Nat

Segments == 3
MessageSize == 2 * Segments

VARIABLES
  stream,    \* what the unit sends on this connection, chosen at the start
  arrived,   \* how many cells of it have reached the reader's buffer
  hungUp,    \* the unit has closed its side
  pos,       \* how many cells the handler has read
  pc,        \* "initial": in _read_initial, "line": in readuntil, "closed"
  data,      \* the bytes of the message being assembled, carried ones first
  delivered, \* history: frames forwarded, logged and decoded
  fragments, \* history: what raw_sink got when the unit hung up early
  rejected,  \* history: what rejected_sink got
  dropped,   \* history: bytes carried over that no message was made of any more
  gaveUp     \* history: the connection ended by a timeout or a reset

vars == <<stream, arrived, hungUp, pos, pc, data, delivered, fragments,
          rejected, dropped, gaveUp>>

Kind(c) == c[1]
Least(S) == CHOOSE i \in S : \A j \in S : i <= j
Where(s, kind) == {i \in DOMAIN s : Kind(s[i]) = kind}
From(s, i) == SubSeq(s, i, Len(s))

\* What a unit sends, from wherever the connection joins it: every byte of a v7
\* frame in its place, a v8 frame from its signature to the first newline, and
\* the frames numbered one after the other, whatever comes between them.
Begins(c) == Kind(c) = "sig" \/ (Kind(c) = "head" /\ c[2] = 1)

SegmentsFollow(s) ==
  \A i \in 1..(Len(s) - 1) :
    /\ Kind(s[i]) = "head" => s[i + 1] = <<"body", s[i][2], s[i][3]>>
    /\ Kind(s[i]) = "body" /\ s[i][2] < Segments =>
         s[i + 1] = <<"head", s[i][2] + 1, s[i][3]>>

LinesHoldOneFrame(s) ==
  \A i, j \in DOMAIN s :
    /\ i < j /\ Kind(s[i]) = "sig"
    /\ \A m \in i..(j - 1) : Kind(s[m]) # "nl"
    => Kind(s[j]) \in {"text", "nl"} /\ s[j][3] = s[i][3]

NumberedInTurn(s) ==
  \A i, j \in DOMAIN s :
    /\ i < j /\ Begins(s[i]) /\ Begins(s[j])
    /\ \A m \in (i + 1)..(j - 1) : ~Begins(s[m])
    => s[j][3] = s[i][3] + 1

ASSUME StreamsAssumption ==
  \A s \in Streams :
    /\ s \in Seq(STRING \X Nat \X Nat)
    /\ SegmentsFollow(s) /\ LinesHoldOneFrame(s) /\ NumberedInTurn(s)

-----------------------------------------------------------------------------
(* Framing, as pure functions of the bytes in hand *)

\* The separators lstrip removes; of the cells only newlines are any.
Stripped(d) ==
  LET solid == {i \in DOMAIN d : Kind(d[i]) # "nl"}
  IN IF solid = {} THEN <<>> ELSE From(d, Least(solid))

StartsV8(d) == d # <<>> /\ Kind(Head(d)) = "sig"

\* Mutant: wait for MESSAGE_SIZE bytes whatever they are.
HoldsWholeV8FrameNever(d) == FALSE

\* _holds_whole_v8_frame.  Any newline counts, one in front of the frame too.
HoldsWholeV8Frame(d) == StartsV8(Stripped(d)) /\ Where(d, "nl") # {}

\* Enough to look at: _read_initial's loop ends.
Ready(d) == Len(d) >= MessageSize \/ HoldsWholeV8Frame(d)

\* The offset fits: three heads of the three segments, one segment apart.
Aligned(d, o) ==
  /\ o + MessageSize - 1 <= Len(d)
  /\ \A k \in 1..Segments :
        LET c == d[o + 2 * (k - 1) + 1]
        IN c[1] = "head" /\ c[2] = k

Offsets(d) == {o \in 0..Len(d) : Aligned(d, o)}

\* _rewind_binary: the message turned until the first head is in front.
Rewound(d, o) == From(d, o + 1) \o SubSeq(d, 1, o)

-----------------------------------------------------------------------------
Init ==
  /\ stream \in Streams
  /\ arrived = 0 /\ hungUp = FALSE /\ pos = 0
  /\ pc = "initial" /\ data = <<>>
  /\ delivered = <<>> /\ fragments = <<>> /\ rejected = <<>> /\ dropped = <<>>
  /\ gaveUp = FALSE

Outputs == <<delivered, fragments, rejected, dropped>>
Environment == <<stream, arrived, hungUp>>

\* The unit and the network
Arrive ==
  /\ ~hungUp /\ arrived < Len(stream)
  /\ arrived' = arrived + 1
  /\ UNCHANGED <<stream, hungUp, pos, pc, data, Outputs, gaveUp>>

HangUp ==
  /\ ~hungUp
  /\ hungUp' = TRUE
  /\ UNCHANGED <<stream, arrived, pos, pc, data, Outputs, gaveUp>>

\* ConnectionResetError out of any read.
Reset ==
  /\ pc # "closed"
  /\ pc' = "closed" /\ gaveUp' = TRUE
  /\ UNCHANGED <<Environment, pos, data, Outputs>>

-----------------------------------------------------------------------------
(* The handler *)

Buffered == SubSeq(stream, pos + 1, arrived)

\* reader.read(MESSAGE_SIZE - len(data)): all that is there, up to the limit.
Read ==
  /\ pc = "initial" /\ ~Ready(data) /\ pos < arrived
  /\ LET room == MessageSize - Len(data)
         n == IF room < arrived - pos THEN room ELSE arrived - pos
     IN /\ data' = data \o SubSeq(Buffered, 1, n)
        /\ pos' = pos + n
  /\ UNCHANGED <<Environment, pc, Outputs, gaveUp>>

Number(f) == f[1][3]

\* The decoder's verdict on a frame that has already been logged and forwarded:
\* one it raises on closes the connection.
Verdict(f) == IF Number(f) \in Refused THEN "closed" ELSE "initial"

HandOn(f) ==
  /\ delivered' = Append(delivered, f)
  /\ UNCHANGED <<fragments, rejected>>

\* A v8 frame that ends in what was read.  The rest starts the next message,
\* unless the decoder refused the frame: then it goes with the connection.
SyncV8 ==
  /\ pc = "initial" /\ Ready(data)
  /\ Where(data, "sig") # {}
  /\ LET v8 == From(data, Least(Where(data, "sig"))) IN
       /\ Where(v8, "nl") # {}
       /\ LET newline == Least(Where(v8, "nl"))
              carry == From(v8, newline + 1)
          IN /\ HandOn(SubSeq(v8, 1, newline))
             /\ \/ Number(v8) \notin Refused /\ data' = carry /\ dropped' = <<>>
                \/ Number(v8) \in Refused /\ data' = <<>> /\ dropped' = carry
       /\ pc' = Verdict(v8)
  /\ UNCHANGED <<Environment, pos, gaveUp>>

\* A v8 frame whose end is still to come: readuntil(b"\n").
SyncV8Open ==
  /\ pc = "initial" /\ Ready(data)
  /\ Where(data, "sig") # {}
  /\ LET v8 == From(data, Least(Where(data, "sig"))) IN
       /\ Where(v8, "nl") = {}
       /\ data' = v8
  /\ pc' = "line"
  /\ UNCHANGED <<Environment, pos, Outputs, gaveUp>>

\* Mutant: a turned frame does not cost the connection.
SyncV7StaysOpen ==
  /\ pc = "initial" /\ Ready(data)
  /\ Where(data, "sig") = {} /\ Offsets(data) # {}
  /\ HandOn(Rewound(data, Least(Offsets(data))))
  /\ data' = <<>> /\ pc' = "initial"
  /\ UNCHANGED <<Environment, pos, dropped, gaveUp>>

\* A v7 frame in place, or turned into place; then the connection is closed,
\* as it is when the decoder refuses the mixture.
SyncV7 ==
  /\ pc = "initial" /\ Ready(data)
  /\ Where(data, "sig") = {} /\ Offsets(data) # {}
  /\ LET o == Least(Offsets(data)) IN
       /\ HandOn(Rewound(data, o))
       /\ data' = <<>>
       /\ pc' = IF o > 0 THEN "closed" ELSE Verdict(data)
  /\ UNCHANGED <<Environment, pos, dropped, gaveUp>>

\* No offset fits: the bytes are kept for diagnostics, the connection goes.
SyncFailed ==
  /\ pc = "initial" /\ Ready(data)
  /\ Where(data, "sig") = {} /\ Offsets(data) = {}
  /\ rejected' = Append(rejected, data)
  /\ data' = <<>> /\ pc' = "closed"
  /\ UNCHANGED <<Environment, pos, delivered, fragments, dropped, gaveUp>>

\* Mutant: a plain read instead of readuntil.
ReadLineTakesAll ==
  /\ pc = "line"
  /\ Where(Buffered, "nl") # {}
  /\ HandOn(data \o Buffered)
  /\ pos' = arrived
  /\ data' = <<>> /\ pc' = Verdict(data)
  /\ UNCHANGED <<Environment, dropped, gaveUp>>

\* readuntil gives up (LimitOverrunError) when more than ReadLimit bytes come
\* before the newline, found or not.
Overrun ==
  /\ Len(Buffered) > ReadLimit
  /\ \A i \in Where(Buffered, "nl") : i - 1 > ReadLimit

ReadLine ==
  /\ pc = "line"
  /\ Where(Buffered, "nl") # {} /\ ~Overrun
  /\ LET n == Least(Where(Buffered, "nl")) IN
       /\ HandOn(data \o SubSeq(Buffered, 1, n))
       /\ pos' = pos + n
  /\ data' = <<>> /\ pc' = Verdict(data)
  /\ UNCHANGED <<Environment, dropped, gaveUp>>

\* Mutant: readuntil's partial bytes are lost with the exception.
LineCutShortLost ==
  /\ pc = "line" /\ hungUp
  /\ Where(Buffered, "nl") = {} /\ ~Overrun
  /\ HandOn(data)
  /\ pos' = arrived
  /\ data' = <<>> /\ pc' \in {"initial", "closed"}
  /\ UNCHANGED <<Environment, dropped, gaveUp>>

\* What is in hand of the line is kept as rejected, what waits in the reader's
\* buffer is never read.
LineTooLong ==
  /\ pc = "line" /\ Overrun
  /\ rejected' = Append(rejected, data)
  /\ data' = <<>> /\ pc' = "closed"
  /\ UNCHANGED <<Environment, pos, delivered, fragments, dropped, gaveUp>>

\* The unit hung up inside a v8 frame: what there is of it is handed on, and
\* the decoder may refuse it.
LineCutShort ==
  /\ pc = "line" /\ hungUp
  /\ Where(Buffered, "nl") = {} /\ ~Overrun
  /\ HandOn(data \o Buffered)
  /\ pos' = arrived
  /\ data' = <<>> /\ pc' \in {"initial", "closed"}
  /\ UNCHANGED <<Environment, dropped, gaveUp>>

\* The unit hung up between messages, or inside one that is kept as a fragment.
EndOfStream ==
  /\ pc = "initial" /\ ~Ready(data) /\ pos = arrived /\ hungUp
  /\ fragments' = IF data = <<>> THEN fragments ELSE Append(fragments, data)
  /\ data' = <<>> /\ pc' = "closed"
  /\ UNCHANGED <<Environment, pos, delivered, rejected, dropped, gaveUp>>

\* Nothing for READ_TIMEOUT seconds: between messages ...
QuietInitial ==
  /\ pc = "initial" /\ ~Ready(data) /\ pos = arrived /\ ~hungUp
  /\ data' = <<>> /\ pc' = "closed" /\ gaveUp' = TRUE
  /\ UNCHANGED <<Environment, pos, Outputs>>

\* ... or inside a v8 frame, whose beginning goes to the rejected sink.
QuietLine ==
  /\ pc = "line" /\ ~hungUp
  /\ Where(Buffered, "nl") = {} /\ ~Overrun
  /\ rejected' = Append(rejected, data)
  /\ data' = <<>> /\ pc' = "closed" /\ gaveUp' = TRUE
  /\ UNCHANGED <<Environment, pos, delivered, fragments, dropped>>

Handler == \/ Read \/ SyncV8 \/ SyncV8Open \/ SyncV7 \/ SyncFailed
           \/ ReadLine \/ LineTooLong \/ LineCutShort \/ EndOfStream

Next == Arrive \/ HangUp \/ Reset \/ Handler \/ QuietInitial \/ QuietLine

\* The event loop resumes a read that has something to return.  Nothing makes
\* the unit send more, and a timeout is not what hands a frame on.
Spec == Init /\ [][Next]_vars /\ WF_vars(Handler)

-----------------------------------------------------------------------------
(* Properties *)

TypeOK ==
  /\ arrived \in 0..Len(stream) /\ pos \in 0..arrived
  /\ hungUp \in BOOLEAN /\ gaveUp \in BOOLEAN
  /\ pc \in {"initial", "line", "closed"}
  /\ pc = "initial" => Len(data) <= MessageSize
  /\ pc = "line" => StartsV8(data) /\ Where(data, "nl") = {}

\* The cells of one v7 frame, each in its place.
WholeV7(f) ==
  /\ Len(f) = MessageSize
  /\ \A i \in DOMAIN f : f[i][3] = Number(f) /\ f[i][1] \in {"head", "body"}
  /\ Aligned(f, 0)

\* A v7 frame put together from the pieces of two (server.py:496, the rewind)
\* reaches the decoder at most once per connection: it is the last frame of it.
MixedFrameEndsConnection ==
  \A k \in DOMAIN delivered :
     ~StartsV8(delivered[k]) /\ ~WholeV7(delivered[k]) =>
        k = Len(delivered) /\ pc = "closed"

\* Part of it: a v8 frame handed on is exactly one line of the stream, however TCP cut it:
\* it starts at its own signature, ends at the first newline after it and holds
\* no byte of another frame.  Only one the hang-up cut short may lack its end.
V8FramesAreLines ==
  \A k \in DOMAIN delivered :
     StartsV8(delivered[k]) =>
        LET f == delivered[k] IN
          /\ \A i \in DOMAIN f : Number(f) = f[i][3]
          /\ Where(f, "sig") = {1}
          /\ \/ Where(f, "nl") = {Len(f)}
             \/ Where(f, "nl") = {} /\ hungUp /\ k = Len(delivered)

\* While a connection lasts its frames come out whole, in order, none skipped
\* and none twice; bytes of the next one are never taken for the end of a line.
NoFrameSkipped ==
  /\ TypeOK /\ V8FramesAreLines
  /\ \A k \in 1..(Len(delivered) - 1) :
       Number(delivered[k + 1]) = Number(delivered[k]) + 1

\* On a stream of one protocol that starts with a frame and holds nothing but
\* frames, one after the other, every byte read is in exactly one place, in
\* order: in a frame handed on, in the fragment kept at a hang-up, in the bytes
\* kept as rejected, in hand, or lost with the connection of a refused frame.
\* The last of these is what the code gives up besides the separators between
\* v8 frames (server.py:287-289), and it is bounded: it takes a v8 frame that the
\* decoder refused, it is the last thing the connection does, and it is less
\* than one read.
Blank == <<"nl", 0, 0>>
Starts(c) == Begins(c) \/ c = Blank
Closes(c) == Kind(c) = "nl" \/ (Kind(c) = "body" /\ c[2] = Segments)

Clean ==
  /\ stream # <<>> /\ Starts(stream[1])
  /\ \A i \in 1..(Len(stream) - 1) : Closes(stream[i]) => Starts(stream[i + 1])
  /\ \/ \A i \in DOMAIN stream : Kind(stream[i]) \in {"head", "body"}
     \/ \A i \in DOMAIN stream : Kind(stream[i]) \in {"sig", "text", "nl"}

Solid(s) ==
  LET solid[i \in 0..Len(s)] ==
        IF i = 0 THEN <<>>
        ELSE IF s[i] = Blank THEN solid[i - 1] ELSE Append(solid[i - 1], s[i])
  IN solid[Len(s)]

LostWithRefusedFrame ==
  dropped # <<>> =>
    /\ pc = "closed" /\ Len(dropped) < MessageSize
    /\ delivered # <<>>
    /\ LET f == delivered[Len(delivered)] IN StartsV8(f) /\ Number(f) \in Refused

NoByteLost ==
  /\ LostWithRefusedFrame
  /\ Clean /\ ~gaveUp =>
       Solid(FlattenSeq(delivered) \o FlattenSeq(fragments)
             \o FlattenSeq(rejected) \o dropped \o data)
         = Solid(SubSeq(stream, 1, pos))

\* server.py:46-47, "a complete short v8 frame is handled at once, not after the
\* next message or the read timeout": on a clean stream of v8 frames the newline
\* is all it takes, whether or not the unit ever sends more.
Ended(n) == \E i \in 1..arrived : stream[i] = <<"nl", 0, n>>
HandedOn(n) == \E k \in DOMAIN delivered : Number(delivered[k]) = n

HandledAtOnce ==
  \A n \in 1..MaxNumber : (Clean /\ Ended(n)) ~> (HandedOn(n) \/ pc = "closed")
=============================================================================
