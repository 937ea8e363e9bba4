------------------------------- MODULE FrameLog -------------------------------
(***************************************************************************)
(* recording/frame_log.py: the ring buffer behind the recording.  Records  *)
(* are lines of the open chunk, compressed in batches; a chunk that is     *)
(* large enough is sealed; whole chunks go from the old end when the log   *)
(* passes its ceiling.  A line carries its time as a rounded difference to *)
(* the line before it, the first line of a chunk the time itself.          *)
(*                                                                         *)
(* A record is what the log is told of a frame or a marker: when it came,  *)
(* how long its line is and how much of it is left when it is compressed.  *)
(* Compression is the sum of the latter: it depends on the lines alone, so *)
(* a replay compresses as the original did.  Who may mark, and which marks *)
(* count as downloaded, is in Recording.                                   *)
(***************************************************************************)
EXTENDS Integers, Sequences, SequencesExt

CONSTANTS
  MaxBytes,    \* max_bytes
  ChunkBytes,  \* chunk_bytes
  ChunkRaw,    \* chunk_raw_bytes
  FlushEvery,  \* FLUSH_EVERY
  MaxMarkers,  \* MAX_MARKERS
  Grid,        \* ticks of the clock in the tenth of a second dt is rounded to
  Lengths,     \* a frame's line: its <<uncompressed, compressed>> lengths
  MarkLengths, \* a marker's line: the same; its note is cut, a frame is not
  Steps,       \* how far the clock moves between two records
  MaxRecords,  \* bound: records since the log began
  MaxSetBacks, \* bound: how often the clock is set back
  NoTime       \* no time: before the first record

\* An odd Grid, so that no difference is halfway between two tenths.
ASSUME SizesAssumption ==
  /\ MaxBytes \in Nat /\ ChunkBytes \in Nat \ {0} /\ 2 * ChunkBytes <= MaxBytes
  /\ ChunkRaw \in Nat \ {0} /\ FlushEvery \in Nat \ {0}
  /\ MaxMarkers \in Nat \ {0}
  /\ Grid \in Nat /\ Grid % 2 = 1
  /\ Lengths \union MarkLengths \subseteq Nat \X Nat
  /\ Steps \subseteq Int /\ NoTime \notin Int

VARIABLES
  log,      \* chunks, times, lines, pending, current, raw, first, last
  markers,  \* _markers: when each was made, and its record's place in the tape
  stored,   \* what the Store has: a log and its markers
  clock,
  tape,     \* history: every record since the log was empty, dropped or not
  setBacks, \* history: how often the clock was set back
  records   \* history: a count, for the bound

logVars == <<log, markers, stored, clock, tape, setBacks, records>>

\* _start_chunk, over the chunks there are.
StartChunk(l) ==
  [l EXCEPT !.lines = <<>>, !.pending = <<>>, !.current = 0, !.raw = 0,
            !.first = NoTime, !.last = NoTime]

EmptyLog ==
  [chunks |-> <<>>, times |-> <<>>, lines |-> <<>>, pending |-> <<>>,
   current |-> 0, raw |-> 0, first |-> NoTime, last |-> NoTime]

-----------------------------------------------------------------------------
(* Sizes *)

Total(s) ==
  LET sum[i \in 0..Len(s)] == IF i = 0 THEN 0 ELSE sum[i - 1] + s[i]
  IN sum[Len(s)]

Raw(lines) == Total([i \in DOMAIN lines |-> lines[i].raw])
Compressed(lines) == Total([i \in DOMAIN lines |-> lines[i].comp])

Sealed(l) == Total([i \in DOMAIN l.chunks |-> l.chunks[i].size])

\* Mutant: the records not yet compressed are not counted.
SizeOfCompressed(l) == Sealed(l) + l.current

\* size: what is compressed, and the pending lines at full length.
Size(l) == Sealed(l) + l.current + Raw(l.pending)

\* _flush_pending
FlushPending(l) ==
  [l EXCEPT !.current = @ + Compressed(l.pending), !.pending = <<>>]

\* _seal
Seal(l) ==
  LET f == FlushPending(l)
  IN StartChunk([f EXCEPT !.chunks = Append(@, [size |-> f.current,
                                                lines |-> f.lines]),
                          !.times = Append(@, f.first)])

\* The k oldest chunks go.
WithoutOldest(l, k) ==
  [l EXCEPT !.chunks = SubSeq(@, k + 1, Len(@)),
            !.times = SubSeq(@, k + 1, Len(@))]

\* Mutant: the time of a dropped chunk stays behind.
EnforceCapKeepsTimes(l) ==
  LET fits(k) == Size(WithoutOldest(l, k)) <= MaxBytes
      enough == {k \in 0..Len(l.chunks) : fits(k)}
  IN IF enough = {} THEN StartChunk(WithoutOldest(l, Len(l.chunks)))
     ELSE LET k == CHOOSE k \in enough : \A j \in enough : k <= j
          IN [l EXCEPT !.chunks = SubSeq(@, k + 1, Len(@))]

\* _enforce_cap: as few of the oldest chunks as will do; the open one too, when
\* it alone is past the ceiling.
EnforceCap(l) ==
  LET fits(k) == Size(WithoutOldest(l, k)) <= MaxBytes
      enough == {k \in 0..Len(l.chunks) : fits(k)}
  IN IF enough = {} THEN StartChunk(WithoutOldest(l, Len(l.chunks)))
     ELSE WithoutOldest(l, CHOOSE k \in enough : \A j \in enough : k <= j)

-----------------------------------------------------------------------------
(* Lines *)

Rounded(d) == ((d + Grid \div 2) \div Grid) * Grid

\* Mutant: the next difference is taken from the true time of this record.
LineFromTrueTime(l, at, r) ==
  IF l.last = NoTime
  THEN [l EXCEPT !.last = at, !.first = at,
                 !.lines = Append(@, [r EXCEPT !.t = at, !.dt = NoTime])]
  ELSE [l EXCEPT !.last = at,
                 !.lines = Append(@, [r EXCEPT !.dt = Rounded(at - l.last),
                                               !.t = NoTime])]

\* _append: the difference is taken from the time a reader will get for the line
\* before, so that rounding does not add up.
Line(l, at, r) ==
  IF l.last = NoTime
  THEN [l EXCEPT !.last = at, !.first = at,
                 !.lines = Append(@, [r EXCEPT !.t = at, !.dt = NoTime])]
  ELSE LET delta == Rounded(at - l.last)
       IN [l EXCEPT !.last = @ + delta,
                    !.lines = Append(@, [r EXCEPT !.dt = delta, !.t = NoTime])]

\* _append and _add_line, as far as the batch: the line joins the open chunk.
Added(l, at, r) ==
  LET one == Line(l, at, r)
      line == one.lines[Len(one.lines)]
      two == [one EXCEPT !.pending = Append(@, line), !.raw = @ + line.raw]
  IN IF Len(two.pending) >= FlushEvery THEN FlushPending(two) ELSE two

Full(l) == l.current >= ChunkBytes \/ l.raw >= ChunkRaw

\* _append and _add_line.
Add(l, at, r) ==
  LET added == Added(l, at, r)
  IN EnforceCap(IF Full(added) THEN Seal(added) ELSE added)

\* decode_lines: last, the time of the line read, after each number of lines.
LastTime(lines) ==
  LET last[i \in 0..Len(lines)] ==
        IF i = 0 THEN NoTime
        ELSE IF lines[i].t # NoTime THEN lines[i].t
        ELSE IF last[i - 1] = NoTime THEN NoTime
        ELSE last[i - 1] + lines[i].dt
  IN last

\* Each record's place in the tape, its time, and if it is a marker.
Decode(lines) ==
  [i \in 1..Len(lines) |-> [place |-> lines[i].place, at |-> LastTime(lines)[i],
                            mark |-> lines[i].mark]]

AllLines(l) ==
  FlattenSeq([i \in DOMAIN l.chunks |-> l.chunks[i].lines]) \o l.lines

Held(l) == Decode(AllLines(l))

\* _oldest_time, and the "frames" flag of a listed marker.
Oldest == IF log.times # <<>> THEN log.times[1]
          ELSE IF log.lines # <<>> THEN log.first ELSE NoTime
HasFrames(m) == Oldest # NoTime /\ m.at >= Oldest

\* The newest markers, as many as are listed.
Listed(all) ==
  SubSeq(all, IF Len(all) > MaxMarkers THEN Len(all) - MaxMarkers + 1 ELSE 1,
         Len(all))

\* The markers among records.
MarksAmong(held) ==
  LET marks[i \in 0..Len(held)] ==
        IF i = 0 THEN <<>>
        ELSE IF held[i].mark
             THEN Append(marks[i - 1], [at |-> held[i].at, place |-> held[i].place])
        ELSE marks[i - 1]
  IN marks[Len(held)]

-----------------------------------------------------------------------------
LogInit ==
  /\ log = EmptyLog /\ markers = <<>>
  /\ stored = [log |-> EmptyLog, markers |-> <<>>, tape |-> <<>>]
  /\ clock = 0 /\ tape = <<>> /\ setBacks = 0 /\ records = 0

NewRecord(length, mark) ==
  [place |-> Len(tape) + 1, raw |-> length[1], comp |-> length[2],
   mark |-> mark, t |-> NoTime, dt |-> NoTime]

\* A record comes step ticks after the one before it.
Comes(length, step, mark) ==
  /\ records < MaxRecords /\ (step < 0 => setBacks < MaxSetBacks)
  /\ records' = records + 1
  /\ clock' = clock + step
  /\ tape' = Append(tape, [at |-> clock', raw |-> length[1], comp |-> length[2]])
  /\ setBacks' = IF step < 0 THEN setBacks + 1 ELSE setBacks
  /\ log' = Add(log, clock', NewRecord(length, mark))

\* append_frame
AppendFrame(length, step) ==
  /\ Comes(length, step, FALSE)
  /\ UNCHANGED <<markers, stored>>

\* append_marker
AppendMarker(length, step) ==
  /\ Comes(length, step, TRUE)
  /\ markers' = Listed(Append(markers, [at |-> clock', place |-> Len(tape')]))
  /\ UNCHANGED stored

\* clear
Clear ==
  /\ tape # <<>>
  /\ log' = EmptyLog /\ markers' = <<>> /\ tape' = <<>>
  /\ UNCHANGED <<stored, clock, setBacks, records>>

\* forget_markers
ForgetMarkers ==
  /\ markers # <<>>
  /\ markers' = <<>>
  /\ UNCHANGED <<log, stored, clock, tape, setBacks, records>>

\* to_store
ToStore ==
  /\ stored' = [log |-> log, markers |-> markers, tape |-> tape]
  /\ UNCHANGED <<log, markers, clock, tape, setBacks, records>>

\* The lines of the open chunk one by one, each with the time a reader has for it.
Replay(l, lines) ==
  LET again[i \in 0..Len(lines)] ==
        IF i = 0 THEN l ELSE Add(again[i - 1], LastTime(lines)[i], lines[i])
  IN again[Len(lines)]

\* The sealed chunks as they are, their times read from their first lines.
SealedOnly(l) ==
  [EmptyLog EXCEPT !.chunks = l.chunks,
                   !.times = [i \in 1..Len(l.chunks) |-> l.chunks[i].lines[1].t]]

\* Mutant: a log that fills the ceiling exactly gives up a chunk.
RestoredTight(saved) ==
  LET l == EnforceCap(Replay(SealedOnly(saved), saved.lines))
  IN IF Size(l) >= MaxBytes THEN WithoutOldest(l, 1) ELSE l

\* load_store: the sealed chunks, and the open chunk's records encoded again.
Restored(saved) == EnforceCap(Replay(SealedOnly(saved), saved.lines))

\* A new set-up loads the Store.
Load ==
  /\ log' = Restored(stored.log)
  /\ markers' = stored.markers
  /\ tape' = stored.tape
  /\ UNCHANGED <<stored, clock, setBacks, records>>

\* load_store of a Store written before cases were listed: the list is rebuilt
\* from the markers among the records.
LoadUnlisted ==
  /\ log' = Restored(stored.log)
  /\ markers' = Listed(MarksAmong(Held(log')))
  /\ tape' = stored.tape
  /\ UNCHANGED <<stored, clock, setBacks, records>>

\* A Store that cannot be read leaves the log empty.
LoadUnreadable ==
  /\ log' = EmptyLog /\ markers' = <<>> /\ tape' = <<>>
  /\ stored' = [log |-> EmptyLog, markers |-> <<>>, tape |-> <<>>]
  /\ UNCHANGED <<clock, setBacks, records>>

LogNext ==
  \/ \E length \in Lengths, step \in Steps : AppendFrame(length, step)
  \/ \E length \in MarkLengths, step \in Steps : AppendMarker(length, step)
  \/ Clear \/ ForgetMarkers \/ ToStore \/ Load \/ LoadUnlisted \/ LoadUnreadable

LogSpec == LogInit /\ [][LogNext]_logVars

-----------------------------------------------------------------------------
(* Properties *)

LogTypeOK ==
  /\ Len(log.pending) < FlushEvery
  /\ log.current < ChunkBytes /\ log.raw < ChunkRaw
  /\ Len(markers) <= MaxMarkers

\* frame_log.py:12-16, "The ceiling is hard": sealed chunks, the open chunk and
\* the pending records in full never pass max_bytes, whatever the units send and
\* whatever a restart brings back; nor does the list of markers its own limit.
Ceiling ==
  /\ LogTypeOK
  /\ Sealed(log) + log.current + Raw(log.pending) <= MaxBytes

\* What can be read back is the newest records, without a gap, each with its own
\* time to within a rounding however long the chunk is.  The newest is among
\* them while lines are short enough for a chunk and a batch to fit.
Near(at, truly) == at - truly <= Grid \div 2 /\ truly - at <= Grid \div 2
AllShort ==
  \A i \in DOMAIN tape :
    /\ tape[i].raw * FlushEvery + ChunkBytes <= MaxBytes
    /\ tape[i].comp * FlushEvery + ChunkBytes <= MaxBytes

HeldIsTheNewest ==
  LET held == Held(log) IN
    /\ \A i \in DOMAIN held :
          /\ held[i].place = Len(tape) - Len(held) + i
          /\ Near(held[i].at, tape[held[i].place].at)
    /\ tape # <<>> /\ AllShort => held # <<>>

\* The "frames" flag of a listed case (markers, frame_log.py:255): set, as long as
\* the clock runs forward, while the case's own record is held; and set only while a
\* record is held that is no later than the case's own, to within the rounding of a
\* list that was rebuilt.
FrameFlagTrue ==
  LET places == {Held(log)[i].place : i \in DOMAIN Held(log)} IN
    \A i \in DOMAIN markers :
      /\ setBacks = 0 /\ markers[i].place \in places => HasFrames(markers[i])
      /\ HasFrames(markers[i]) =>
            \E p \in places : tape[p].at <= tape[markers[i].place].at + Grid \div 2

\* A reload brings back every record that was saved, with the time it had: the
\* open chunk is encoded again (load_store) and loses nothing by it.
ReloadExact == [][Load \/ LoadUnlisted => Held(log') = Held(stored.log)]_logVars
=============================================================================
