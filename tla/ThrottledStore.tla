---------------------------- MODULE ThrottledStore ----------------------------
(***************************************************************************)
(* coordinator.py: how the frame log and the consumption counters reach the *)
(* disk.  Every frame asks for a save, at most one request per interval is  *)
(* passed on to Home Assistant's Store; a mark, a switch of the recording   *)
(* or a reset of a counter asks with a short delay.  An unload saves at     *)
(* once, and the set-up after it makes a new coordinator with a Store of    *)
(* its own over the same file.  A mark that waits for a frame keeps the     *)
(* coordinator it began with, so it may come to one that was replaced; how  *)
(* long it waits (MARK_DUMP_WAIT_TIMEOUT) is left open.                     *)
(*                                                                         *)
(* Both stores work alike; the frame log has 60 s, 5 s and 10 min for       *)
(* Delay, Short and Interval, the counters have 30 s, 1 s and 60 s.         *)
(*                                                                         *)
(* An entry stands for a frame's bytes, a marker or a dose: what matters is *)
(* which of them the file has.  Store is Home Assistant's and external.     *)
(***************************************************************************)
EXTENDS Integers, FiniteSets

CONSTANTS
  Delay,       \* FRAME_LOG_SAVE_DELAY
  Short,       \* the delay of a mark or a reset
  Interval,    \* FRAME_LOG_SAVE_INTERVAL, CONSUMPTION_SAVE_INTERVAL
  MaxTime,     \* bound: the last tick
  MaxEntries,  \* bound: frames and marks
  MaxSetups    \* bound: coordinators

ASSUME DelaysAssumption ==
  /\ Delay \in Nat /\ Short \in Nat /\ Interval \in Nat
  /\ 0 < Short /\ Short < Delay /\ Delay < Interval

ASSUME SetupsAssumption == MaxSetups \in Nat \ {0}

None == -1000  \* no time
Setups == 1..MaxSetups

VARIABLES
  now,
  phase,      \* Home Assistant: running, stopping or stopped
  current,    \* the coordinator that gets the frames
  started,    \* the first coordinator since Home Assistant started
  closing,    \* its unload has saved, the server is not removed yet
  mem,        \* what each coordinator holds
  asked,      \* _frame_log_save_requested, _consumption_saved_at
  pending,    \* Store._data: there is something to write
  timer,      \* Store._delay_handle
  nextWrite,  \* Store._next_write_time
  file,
  marks,      \* history: the entries that asked for a short delay
  lastShort, lastFrame, lastWrite, since,  \* history: the last mark, frame and
                                           \* write, and when a save was due
  newer,      \* history: the entries since the last write
  late        \* history: a replaced coordinator has a save to come, or was the
              \* last to write

store == <<pending, timer, nextWrite, file>>
history == <<marks, lastShort, lastFrame, lastWrite, since, newer, late>>
vars == <<now, phase, current, started, closing, mem, asked, store, history>>

Entries == UNION {mem[g] : g \in Setups} \cup file
Fresh == Cardinality(Entries) + 1
Replaced == {g \in Setups : started <= g /\ g < current}

-----------------------------------------------------------------------------
(* Home Assistant's Store *)

\* async_delay_save: an earlier handle stays and only learns the new time; with
\* Home Assistant stopping only the final write is left.
DelaySave(g, delay) ==
  LET next == now + delay
      keeps == timer[g] # None /\ timer[g] < next
  IN /\ pending' = [pending EXCEPT ![g] = TRUE]
     /\ timer' = [timer EXCEPT ![g] = IF keeps THEN @
                                      ELSE IF phase = "running" THEN next
                                      ELSE None]
     /\ nextWrite' = [nextWrite EXCEPT ![g] = IF keeps \/ phase = "running"
                                              THEN next ELSE @]

\* A write takes what the coordinator holds at that moment, not what it held
\* when the save was asked for.
Write(g) ==
  /\ file' = mem[g]
  /\ pending' = [pending EXCEPT ![g] = FALSE]
  /\ timer' = [timer EXCEPT ![g] = None]
  /\ lastWrite' = IF g = current THEN now ELSE lastWrite
  /\ newer' = IF g = current THEN {} ELSE newer
  /\ late' = IF g = current THEN \E h \in Setups \ {g} : pending[h] ELSE late

-----------------------------------------------------------------------------
Init ==
  /\ now = 0 /\ phase = "running" /\ current = 1 /\ started = 1 /\ closing = FALSE
  /\ mem = [g \in Setups |-> {}]
  /\ asked = [g \in Setups |-> None]
  /\ pending = [g \in Setups |-> FALSE]
  /\ timer = [g \in Setups |-> None]
  /\ nextWrite = [g \in Setups |-> None]
  /\ file = {}
  /\ marks = {} /\ lastShort = None /\ lastFrame = None /\ lastWrite = 0
  /\ since = None /\ newer = {} /\ late = FALSE

\* _request_frame_log_save and _request_consumption_save, of coordinator g.
Throttled(g, delay) ==
  /\ delay >= Delay
  /\ asked[g] # None
  /\ now - asked[g] < Interval

\* Mutant: a mark does not count as the interval's request.
RequestShortUnstamped(g, delay) ==
  IF Throttled(g, delay) THEN UNCHANGED <<asked, pending, timer, nextWrite>>
  ELSE /\ asked' = IF delay < Delay THEN asked ELSE [asked EXCEPT ![g] = now]
       /\ DelaySave(g, delay)

\* Mutant: every frame is passed on.
RequestUnthrottled(g, delay) ==
  /\ asked' = [asked EXCEPT ![g] = now]
  /\ DelaySave(g, delay)

\* Mutant: the interval starts again with every frame.
RequestSlides(g, delay) ==
  /\ asked' = [asked EXCEPT ![g] = now]
  /\ IF Throttled(g, delay) THEN UNCHANGED <<pending, timer, nextWrite>>
     ELSE DelaySave(g, delay)

Request(g, delay) ==
  IF Throttled(g, delay) THEN UNCHANGED <<asked, pending, timer, nextWrite>>
  ELSE /\ asked' = [asked EXCEPT ![g] = now]
       /\ DelaySave(g, delay)

Hold(g) == mem' = [mem EXCEPT ![g] = @ \cup {Fresh}]

\* History: the current coordinator holds something newer than the file.
Record ==
  /\ Hold(current)
  /\ newer' = newer \cup {Fresh}
  /\ since' = IF pending'[current] /\ ~pending[current] THEN now ELSE since

\* _log_frame, and the frame's doses with _store_device.
Frame ==
  /\ phase # "stopped" /\ Fresh <= MaxEntries
  /\ Request(current, Delay) /\ Record
  /\ lastFrame' = now
  /\ UNCHANGED <<now, phase, current, started, closing, file, marks, lastShort,
                 lastWrite, late>>

\* mark_dump, mark_exported, set_recording, clear_recording, forget_markers and
\* reset_consumption; and a mark that has waited, which asks nothing but whether
\* the recording is on and of the same generation, while the entry is unloading.
Mark ==
  /\ phase # "stopped" /\ Fresh <= MaxEntries
  /\ Request(current, Short) /\ Record
  /\ marks' = marks \cup {Fresh} /\ lastShort' = now
  /\ UNCHANGED <<now, phase, current, started, closing, file, lastFrame, lastWrite,
                 late>>

\* async_mark_after_frame, when its coordinator was replaced while it waited: the
\* old recording is on and of the same generation, and its Store saves it.
MarkOfReplaced(g) ==
  /\ phase # "stopped" /\ Fresh <= MaxEntries
  /\ Request(g, Short) /\ Hold(g)
  /\ late' = TRUE
  /\ UNCHANGED <<now, phase, current, started, closing, file, marks, lastShort,
                 lastFrame, lastWrite, since, newer>>

\* A timer is not late: time waits for it.
Tick ==
  /\ phase # "stopped" /\ now < MaxTime
  /\ \A g \in Setups : timer[g] # None => timer[g] > now
  /\ now' = now + 1
  /\ UNCHANGED <<phase, current, started, closing, mem, asked, store, history>>

\* The handle fires: it waits on for a later next write time, writes, or leaves
\* the save to the final write.
Due(g) ==
  /\ timer[g] = now
  /\ IF phase = "running" /\ now < nextWrite[g]
     THEN /\ timer' = [timer EXCEPT ![g] = nextWrite[g]]
          /\ UNCHANGED <<file, pending, lastWrite, newer, late>>
     ELSE IF phase = "running" THEN Write(g)
     ELSE /\ timer' = [timer EXCEPT ![g] = None]
          /\ UNCHANGED <<file, pending, lastWrite, newer, late>>
  /\ UNCHANGED <<now, phase, current, started, closing, mem, asked, nextWrite,
                 marks, lastShort, lastFrame, since>>

-----------------------------------------------------------------------------
(* Unload and set-up, stop, crash *)

\* async_unload_entry saves both stores, then removes the server: frames that
\* come in between still reach this coordinator.
Unload ==
  /\ phase = "running" /\ ~closing /\ current < MaxSetups
  /\ Write(current)
  /\ closing' = TRUE
  /\ UNCHANGED <<now, phase, current, started, mem, asked, nextWrite, marks,
                 lastShort, lastFrame, since>>

\* Mutant: the new coordinator takes frames before the file is read.
NewCoordinatorUnread ==
  /\ current' = current + 1
  /\ mem' = mem
  /\ closing' = FALSE
  /\ lastWrite' = now
  /\ newer' = {}

\* async_setup_entry loads the file before the server listens.
NewCoordinator ==
  /\ current' = current + 1
  /\ mem' = [mem EXCEPT ![current + 1] = file]
  /\ closing' = FALSE
  /\ lastWrite' = now
  /\ newer' = {}

Setup ==
  /\ phase = "running" /\ closing
  /\ NewCoordinator
  /\ late' = \E g \in Setups : pending[g]
  /\ marks' = marks \cap file
  /\ UNCHANGED <<now, phase, started, asked, store, lastShort, lastFrame, since>>

Stop ==
  /\ phase = "running" /\ ~closing
  /\ phase' = "stopping"
  /\ UNCHANGED <<now, current, started, closing, mem, asked, store, history>>

\* Every store with something to write does, in any order.
FinalWrite ==
  /\ phase = "stopping"
  /\ phase' = "stopped"
  /\ IF \E g \in Setups : pending[g]
     THEN \E g \in Setups : pending[g] /\ file' = mem[g]
     ELSE UNCHANGED file
  /\ pending' = [g \in Setups |-> FALSE]
  /\ timer' = [g \in Setups |-> None]
  /\ UNCHANGED <<now, current, started, closing, mem, asked, nextWrite, history>>

\* Home Assistant starts again, after a stop or a crash.
Restart ==
  /\ current < MaxSetups
  /\ phase' = "running" /\ started' = current + 1
  /\ NewCoordinator
  /\ pending' = [g \in Setups |-> FALSE]
  /\ timer' = [g \in Setups |-> None]
  /\ marks' = marks \cap file /\ late' = FALSE
  /\ UNCHANGED <<now, asked, nextWrite, file, lastShort, lastFrame, since>>

Next ==
  \/ Frame \/ Mark \/ (\E g \in Replaced : MarkOfReplaced(g))
  \/ Tick \/ (\E g \in Setups : Due(g))
  \/ Unload \/ Setup \/ Stop \/ FinalWrite \/ Restart

Spec == Init /\ [][Next]_vars

-----------------------------------------------------------------------------
(* Properties *)

\* A Store with a handle has something to write, nothing waits past its time,
\* and a running one with something to write has a handle.  The interval counts
\* from a request that was made.
TypeOK ==
  /\ phase \in {"running", "stopping", "stopped"} /\ current \in Setups
  /\ \A g \in Setups :
       /\ timer[g] # None => pending[g] /\ now <= timer[g]
                                        /\ timer[g] <= nextWrite[g]
       /\ pending[g] /\ phase = "running" => timer[g] # None
       /\ asked[g] <= now
       /\ g > current => mem[g] = {} /\ ~pending[g]
  /\ phase = "stopped" => \A g \in Setups : ~pending[g]

\* A mark is in the file, or is about to be within the short delay of the last
\* one: no frame's own request pushes it further away, and an orderly stop only
\* brings it forward.  Promised while no replaced coordinator stands between.
MarkSoonSaved ==
  ~late =>
    \/ marks \subseteq file
    \/ /\ phase # "stopped" /\ pending[current]
       /\ phase = "running" => nextWrite[current] <= lastShort + Short

\* A save that was asked for is not put off for ever by the frames that follow
\* (what the docstring says async_delay_save alone would do): it comes within
\* the delay of the first request, or the short one of the last mark.
NotPostponed ==
  /\ TypeOK
  /\ phase = "running" /\ pending[current] =>
       \/ nextWrite[current] <= since + Delay
       \/ nextWrite[current] <= lastShort + Short

\* While nothing is pending, what a crash would lose came after the last write
\* and within one interval of it, or a replaced coordinator stands between.
LossIsBounded ==
  phase = "running" /\ ~pending[current] /\ ~(mem[current] \subseteq file)
    /\ ~late
  => /\ mem[current] \ file \subseteq newer
     /\ lastFrame - lastWrite < Interval

\* Nothing in the file is taken out of it, unless a replaced coordinator has a save
\* to come, or was the last to write: one that a frame asked for after its unload
\* had saved, or a mark that waited over the reload.  The current coordinator's
\* next write ends that.
FileKeepsSaved == [][~late => file \subseteq file']_file
=============================================================================
