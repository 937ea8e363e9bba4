--------------------------- MODULE BackwashTracker ---------------------------
(***************************************************************************)
(* trackers/backwash.py: BackwashTracker, which watches one unit's backwash *)
(* valve, decides what started a cycle, projects the next scheduled one    *)
(* and keeps its history in a Store; with the parts of coordinator.py that *)
(* create it, feed it and write typed-in dates to it.                      *)
(*                                                                         *)
(* The unit is the environment: it runs its schedule on its own clock (now *)
(* + skew) from a phase only it knows, somebody opens the valve by hand,   *)
(* changes the schedule or sets the clock, and what a frame says of all    *)
(* this is what the tracker learns.                                        *)
(*                                                                         *)
(* Time is in ticks, Day of them a day; Home Assistant's time zone has no  *)
(* changes of time here, so its local clock is "now" and UTC differs by a  *)
(* constant.  The midpoint of a cycle is rounded down to a tick.           *)
(***************************************************************************)
EXTENDS Integers, FiniteSets

CONSTANTS
  Day,          \* ticks in a day
  MinDuration,  \* MIN_BACKWASH_DURATION
  MaxGap,       \* MAX_FRAME_GAP
  MaxOpen,      \* the longest the unit keeps its valve open
  WideTol,      \* SCHEDULED_MATCH_TOLERANCE, the offset not known
  OffsetTol,    \* OFFSET_MATCH_TOLERANCE, the offset known
  ReportsMenu,  \* the profile carries MENU_BIT_IS_PRESENCE_ONLY
  Schedules,    \* <<time of day, interval in days>> that are set on the unit
  Skews,        \* how far the unit's clock is off, in ticks
  Entries,      \* bound: the dates that are typed in
  MaxTime,      \* bound: the last tick
  MaxEvents,    \* bound: hand starts, settings, clock changes, entries, restarts
  None          \* no value: a number below every tick, day and offset

ASSUME DayAssumption == Day \in Nat \ {0}
ASSUME SchedulesAssumption == Schedules \subseteq (0..(Day - 1)) \X Nat
ASSUME ClockAssumption == Skews \subseteq Int /\ Entries \subseteq Int /\ MaxTime \in Nat

\* Within the tolerance of one slot is not within that of another.
ASSUME ToleranceAssumption ==
  MinDuration \in Nat /\ OffsetTol \in Nat /\ 2 * OffsetTol < Day

ASSUME NoneAssumption ==
  /\ None \in Int /\ None < -(2 * Day)
  /\ \A s \in Skews : None < s - 2 * Day
  /\ \A t \in Entries : None < t

NoSchedule == <<None, 0>>

VARIABLES
  now,       \* Home Assistant's clock
  schedule, phase, \* the unit: its setting and a day it runs on,
  relay, since,    \* what holds its valve open and when that began,
  skew,            \* how far its clock is ahead
  mem,       \* the tracker's recorded state
  window,    \* its open relay-on window
  lastFrame, \* _last_frame_at, while it is read: with a window open
  up,        \* the tracker exists: a frame has come since Home Assistant started
  loading,   \* _loading
  saving,    \* an async_save task is scheduled
  disk,      \* the Store's file
  events,    \* history: count, for the bound
  ran,       \* history: the slot, on the unit's clock, its own cycle began in
  opened,    \* history: the slot and schedule of the window when it opened
  typed,     \* history: a typed-in date nothing has overtaken yet
  blind,     \* history: the file could not be read this time
  misled     \* history: the unit and its frames let the tracker take a wrong day

unit == <<schedule, phase, relay, since, skew>>
store == <<saving, disk>>
history == <<ran, opened, typed, blind, misled>>
vars == <<now, unit, mem, window, lastFrame, up, loading, store,
          events, history>>

Empty == [lastBackwash |-> None, lastScheduled |-> None, lastManual |-> None,
          trigger |-> "none", source |-> "none", day |-> None,
          restartDay |-> None, seen |-> NoSchedule, offset |-> None]

NoWindow == [since |-> None, menu |-> FALSE, offset |-> None]
NotOpened == [slot |-> None, schedule |-> NoSchedule, told |-> None]

-----------------------------------------------------------------------------
(* Slots *)

Slot(d, at) == d * Day + at
DayOf(t) == t \div Day
Abs(x) == IF x < 0 THEN -x ELSE x

\* _nearest_slot: the day before, the same day and the day after, the first of
\* the nearest.
NearestSlot(t, at) ==
  LET near == {Slot(DayOf(t) + k, at) : k \in {-1, 0, 1}}
      best == {s \in near : \A r \in near : Abs(s - t) <= Abs(r - t)}
  IN CHOOSE s \in best : \A r \in best : s <= r

WithinTolerance(t, at, tol) == Abs(t - NearestSlot(t, at)) <= tol

OnUnitClock(t, offset) == IF offset = None THEN t ELSE t + offset

-----------------------------------------------------------------------------
(* A frame, and what update makes of it, step by step *)

\* f: running, menu, clock (the frame carries the unit's clock), offset (the
\* published one), schedule (or NoSchedule: not in this frame).
HasSchedule(f) == f.schedule # NoSchedule
Time(f) == f.schedule[1]
Interval(f) == f.schedule[2]

\* The part of update that reads clock_offset; the last known one is kept.
TakeOffset(m, f) == IF f.offset = None THEN m ELSE [m EXCEPT !.offset = f.offset]

\* The frame shows another schedule than the last one seen.
ScheduleChanged(m, f) == HasSchedule(f) /\ f.schedule # m.seen

\* Mutant: today is Home Assistant's, not the unit's.
NoteScheduleHomeDay(m, f) ==
  IF ~ScheduleChanged(m, f) THEN m
  ELSE [m EXCEPT !.seen = f.schedule,
                 !.restartDay = IF m.seen = NoSchedule THEN m.restartDay
                                ELSE IF Interval(f) > 0 THEN DayOf(now) + 1
                                ELSE None]

\* _note_schedule: the first schedule seen is taken as it is.
NoteSchedule(m, f) ==
  IF ~ScheduleChanged(m, f) THEN m
  ELSE LET today == DayOf(OnUnitClock(now, m.offset)) IN
       [m EXCEPT !.seen = f.schedule,
                 !.restartDay = IF m.seen = NoSchedule THEN m.restartDay
                                ELSE IF Interval(f) > 0 THEN today + 1
                                ELSE None]

\* _classify and _matches_schedule
Classify(f, start, menu, offset) ==
  IF /\ HasSchedule(f) /\ Interval(f) > 0
     /\ IF offset = None THEN WithinTolerance(start, Time(f), WideTol)
        ELSE WithinTolerance(start + offset, Time(f), OffsetTol)
  THEN "scheduled"
  ELSE IF menu \/ ~ReportsMenu THEN "manual" ELSE "unknown"

\* What _backfill_split and _record_window write for a verdict.
File(m, f, verdict, moment, start, offset) ==
  IF verdict = "scheduled" THEN
     LET slot == NearestSlot(OnUnitClock(start, offset), Time(f)) IN
     [m EXCEPT !.trigger = verdict, !.lastScheduled = slot,
               !.source = "observed", !.day = DayOf(slot)]
  ELSE IF verdict = "manual" THEN
     [m EXCEPT !.trigger = verdict, !.lastManual = moment]
  ELSE [m EXCEPT !.trigger = verdict]

\* _backfill_split: a stored cycle without a verdict is classified once.
BackfillDue(m, f) ==
  /\ m.lastBackwash # None
  /\ m.lastScheduled = None /\ m.lastManual = None /\ m.trigger = "none"
  /\ HasSchedule(f)

BackfillSplit(m, f) ==
  IF ~BackfillDue(m, f) THEN m
  ELSE File(m, f, Classify(f, m.lastBackwash, FALSE, m.offset),
            m.lastBackwash, m.lastBackwash, m.offset)

\* _record_window for the window w, closed by the frame f.
Midpoint(w) == (w.since + now) \div 2

Recordable(m, w) ==
  /\ w.since # None
  /\ now - w.since >= MinDuration
  /\ m.lastBackwash = None \/ Midpoint(w) > m.lastBackwash

\* Mutant: the start is read with the offset as it is when the valve closes.
RecordWindowCurrentOffset(m, f, w) ==
  IF ~Recordable(m, w) THEN m
  ELSE LET verdict == Classify(f, w.since, w.menu, m.offset)
           filed == File([m EXCEPT !.lastBackwash = Midpoint(w)], f, verdict,
                         Midpoint(w), w.since, m.offset)
       IN IF verdict = "scheduled" /\ filed.restartDay # None
             /\ filed.day >= filed.restartDay
          THEN [filed EXCEPT !.restartDay = None] ELSE filed

RecordWindow(m, f, w) ==
  IF ~Recordable(m, w) THEN m
  ELSE LET verdict == Classify(f, w.since, w.menu, w.offset)
           filed == File([m EXCEPT !.lastBackwash = Midpoint(w)], f, verdict,
                         Midpoint(w), w.since, w.offset)
       IN IF verdict = "scheduled" /\ filed.restartDay # None
             /\ filed.day >= filed.restartDay
          THEN [filed EXCEPT !.restartDay = None] ELSE filed

\* next_scheduled_backwash, for a unit set to <<at, interval>>: the first slot
\* ahead of the unit's clock, counted from the restarted schedule or from the
\* day of the last scheduled cycle.
FirstDay(m, at, interval) ==
  IF m.restartDay # None THEN m.restartDay
  ELSE IF m.lastScheduled = None THEN None
  ELSE (IF m.day # None THEN m.day ELSE DayOf(NearestSlot(m.lastScheduled, at)))
       + interval

NextScheduled(m, at, interval) ==
  LET first == FirstDay(m, at, interval)
      late == OnUnitClock(now, m.offset) - Slot(first, at)
      steps == IF late < 0 THEN 0 ELSE late \div (interval * Day) + 1
  IN IF interval <= 0 \/ first = None THEN None ELSE Slot(first + steps * interval, at)

-----------------------------------------------------------------------------
Init ==
  /\ now = 0
  /\ schedule \in Schedules /\ phase \in {0, 1}
  /\ relay = "off" /\ since = 0
  /\ skew \in Skews
  /\ mem = Empty /\ window = NoWindow /\ lastFrame = None
  /\ up = FALSE /\ loading = FALSE
  /\ saving = FALSE /\ disk = Empty
  /\ events = 0
  /\ ran = None /\ opened = NotOpened /\ typed = None
  /\ blind = FALSE /\ misled = FALSE

-----------------------------------------------------------------------------
(* The unit and the people at it *)

Tick ==
  /\ now < MaxTime
  /\ relay # "off" => now - since < MaxOpen
  /\ now' = now + 1
  /\ UNCHANGED <<unit, mem, window, lastFrame, up, loading, store,
                 events, history>>

UnitNow == now + skew

\* It runs at its own time on the days of its phase, when it runs at all.
OwnCycle ==
  /\ relay = "off" /\ schedule[2] > 0
  /\ since' = now
  /\ UnitNow % Day = schedule[1]
  /\ DayOf(UnitNow) >= phase /\ (DayOf(UnitNow) - phase) % schedule[2] = 0
  /\ relay' = "own" /\ ran' = UnitNow
  /\ UNCHANGED <<now, schedule, phase, skew, mem, window, lastFrame, up, loading,
                 store, events, opened, typed, blind, misled>>

CountEvent == events < MaxEvents /\ events' = events + 1

ByHand ==
  /\ relay = "off" /\ CountEvent
  /\ since' = now
  /\ relay' = "hand"
  /\ UNCHANGED <<now, schedule, phase, skew, mem, window, lastFrame, up, loading,
                 store, history>>

ValveCloses ==
  /\ relay # "off"
  /\ relay' = "off" /\ since' = 0 /\ ran' = None
  /\ UNCHANGED <<now, schedule, phase, skew, mem, window, lastFrame, up, loading,
                 store, events, opened, typed, blind, misled>>

\* A changed schedule runs from the next day on.  Changed there and back, it is
\* one the tracker still knows, and has no reason to start again with.
ChangeSchedule(s) ==
  /\ s # schedule /\ relay = "off" /\ CountEvent
  /\ schedule' = s
  /\ phase' = DayOf(UnitNow) + 1
  /\ misled' = (misled \/ s \in {mem.seen, disk.seen, opened.schedule})
  /\ UNCHANGED <<now, relay, since, skew, mem, window, lastFrame, up, loading,
                 store, ran, opened, typed, blind>>

SetUnitClock(s) ==
  /\ s # skew /\ CountEvent
  /\ skew' = s
  /\ UNCHANGED <<now, schedule, phase, relay, since, mem, window, lastFrame, up,
                 loading, store, history>>

-----------------------------------------------------------------------------
(* Frames *)

\* What a frame can say now.  The offset the clock tracker published with it is
\* a median, so it may lag behind the clock the frame shows (before there is one
\* the last known is kept); the menu is open for a cycle by hand.
FrameNow ==
  {f \in [running : {relay # "off"}, menu : {relay = "hand"}, clock : BOOLEAN,
          offset : {mem.offset, skew}, schedule : {schedule, NoSchedule}] :
     f.clock \/ f.offset = mem.offset}

\* Mutant: frames are taken before the history is in.
FirstFrameTakesFrames ==
  /\ ~up
  /\ up' = TRUE /\ loading' = FALSE
  /\ mem' = Empty /\ window' = NoWindow /\ lastFrame' = None
  /\ UNCHANGED <<now, unit, store, events, history>>

\* _update_backwash for the first frame: a tracker whose load is on its way.
\* The frame itself is not taken.
FirstFrame ==
  /\ ~up
  /\ up' = TRUE /\ loading' = TRUE
  /\ mem' = Empty /\ window' = NoWindow /\ lastFrame' = None
  /\ UNCHANGED <<now, unit, store, events, history>>

\* The window after a gap that was too long, and with a frame that shows the
\* valve open.
AfterGap(w) ==
  IF w.since # None /\ lastFrame # None /\ now - lastFrame > MaxGap
  THEN NoWindow ELSE w

Menu(f) == ReportsMenu /\ f.menu

\* Takes the offset from the opening frame's own clock (_offset_when_opened).
Open(m, f, w) ==
  IF w.since # None THEN [w EXCEPT !.menu = @ \/ Menu(f)]
  ELSE [since |-> now, menu |-> Menu(f),
        offset |-> IF f.clock THEN skew ELSE m.offset]

\* History: what the unit was really doing when the window opened, and how far
\* ahead its clock was by that frame.
Witness(f) ==
  [schedule |-> f.schedule,
   told |-> IF f.clock THEN skew ELSE f.offset,
   slot |-> IF ran # None /\ f.clock /\ HasSchedule(f)
               /\ Abs(UnitNow - ran) <= OffsetTol
            THEN ran ELSE None]

\* History, from the unit and its frames alone.  A changed schedule was kept from
\* the tracker beyond the day it was set, or the offset the frame brings (none: no
\* difference) shows another day than the unit's clock ...
ChangeSeenLate(f) ==
  /\ ScheduleChanged(mem, f) /\ mem.seen # NoSchedule /\ Interval(f) > 0
  /\ \/ phase # DayOf(UnitNow) + 1
     \/ DayOf(OnUnitClock(now, f.offset)) # DayOf(UnitNow)

\* ... or the valve was open where a slot is, by the clock the frame told of, but
\* not for a cycle of the present schedule, or not so that it could be told.
LooksScheduled(f) ==
  /\ window.since # None /\ ~f.running /\ HasSchedule(f) /\ Interval(f) > 0
  /\ opened.slot = None \/ opened.schedule # schedule
  /\ LET seen == OnUnitClock(window.since, opened.told)
         tol == IF opened.told = None THEN WideTol ELSE OffsetTol
     IN \E k \in {-1, 0, 1} : Abs(seen - Slot(DayOf(seen) + k, Time(f))) <= tol

\* update, for a tracker whose history is in.
Frame(f) ==
  /\ up /\ ~loading
  /\ LET m1 == NoteSchedule(TakeOffset(mem, f), f)
         m2 == BackfillSplit(m1, f)
         w == AfterGap(window)
     IN IF f.running
        THEN /\ mem' = m2
             /\ window' = Open(m2, f, w)
             /\ opened' = IF w.since = None THEN Witness(f) ELSE opened
             /\ saving' = (saving \/ ScheduleChanged(mem, f)
                                  \/ BackfillDue(m1, f))
        ELSE /\ mem' = RecordWindow(m2, f, w)
             /\ window' = NoWindow
             /\ opened' = NotOpened
             /\ saving' = (saving \/ ScheduleChanged(mem, f)
                                  \/ BackfillDue(m1, f) \/ Recordable(m2, w))
  /\ lastFrame' = IF window'.since # None THEN now ELSE None
  /\ typed' = IF mem'.lastScheduled = mem.lastScheduled THEN typed ELSE None
  /\ misled' = (misled \/ ChangeSeenLate(f) \/ LooksScheduled(f))
  /\ UNCHANGED <<now, unit, up, loading, disk, events, ran,
                 blind>>

\* A frame whose relay bit is unknown, or one that comes while the history is
\* loading, changes nothing here.

-----------------------------------------------------------------------------
(* The Store, restarts and typed-in dates *)

\* async_load, after the file is read.
Load ==
  /\ up /\ loading
  /\ loading' = FALSE
  /\ mem' = disk
  /\ UNCHANGED <<now, unit, window, lastFrame, up, store, events,
                 history>>

\* The read raises: the finally clause clears the flag and nothing is restored.
LoadError ==
  /\ up /\ loading /\ CountEvent
  /\ loading' = FALSE
  /\ blind' = TRUE
  /\ UNCHANGED <<now, unit, mem, window, lastFrame, up, store, ran, opened,
                 typed, misled>>

\* Mutant: only what is recorded is written.
SaveSkipsEmpty ==
  /\ up /\ saving
  /\ saving' = FALSE
  /\ disk' = IF loading \/ mem.lastScheduled = None THEN disk ELSE mem
  /\ UNCHANGED <<now, unit, mem, window, lastFrame, up, loading,
                 events, history>>

\* async_save: the state as it is when the task runs; skipped while loading.
\* After a read that failed it replaces a history the tracker never had.
Save ==
  /\ up /\ saving
  /\ saving' = FALSE
  /\ disk' = IF loading THEN disk ELSE mem
  /\ typed' = IF blind /\ mem.lastScheduled # typed THEN None ELSE typed
  /\ UNCHANGED <<now, unit, mem, window, lastFrame, up, loading,
                 events, ran, opened, blind, misled>>

\* Home Assistant stops or crashes; a task that has not run is lost.
Restart ==
  /\ up /\ CountEvent
  /\ up' = FALSE /\ loading' = FALSE /\ saving' = FALSE
  /\ mem' = Empty /\ window' = NoWindow /\ lastFrame' = None
  /\ opened' = NotOpened
  /\ typed' = IF saving THEN None ELSE typed
  /\ blind' = FALSE
  /\ UNCHANGED <<now, unit, disk, ran, misled>>

\* Mutant: the loading flag is not asked.
AcceptsEntryAlways == up

\* set_last_scheduled_backwash, after the checks of the coordinator and the
\* service: not while the history is loading, not in the unit's future.
AcceptsEntry == up /\ ~loading

TypeIn(moment) ==
  /\ AcceptsEntry /\ CountEvent
  /\ moment <= now \/ moment <= OnUnitClock(now, mem.offset)
  /\ mem' = [mem EXCEPT !.lastScheduled = moment, !.source = "typed",
                        !.day = None, !.restartDay = None]
  /\ saving' = TRUE
  /\ typed' = moment /\ misled' = TRUE
  /\ UNCHANGED <<now, unit, window, lastFrame, up, loading, disk, ran, opened,
                 blind>>

\* clear_last_scheduled_backwash
Clear ==
  /\ AcceptsEntry /\ CountEvent
  /\ mem.lastScheduled # None
  /\ mem' = [mem EXCEPT !.lastScheduled = None, !.source = "none", !.day = None,
                        !.trigger = IF @ = "scheduled" /\ mem.lastManual = None
                                    THEN "none" ELSE @]
  /\ saving' = TRUE
  /\ typed' = None /\ misled' = TRUE
  /\ UNCHANGED <<now, unit, window, lastFrame, up, loading, disk, ran,
                 opened, blind>>

-----------------------------------------------------------------------------
Next ==
  \/ Tick \/ OwnCycle \/ ByHand \/ ValveCloses
  \/ \E s \in Schedules : ChangeSchedule(s)
  \/ \E s \in Skews : SetUnitClock(s)
  \/ FirstFrame \/ (\E f \in FrameNow : Frame(f))
  \/ Load \/ LoadError \/ Save \/ Restart
  \/ (\E t \in Entries : TypeIn(t)) \/ Clear

Spec == Init /\ [][Next]_vars

-----------------------------------------------------------------------------
(* Properties *)

\* The record is of one piece: a scheduled date and its source come and go
\* together, only an observed cycle fixes a day, nothing recorded is in Home
\* Assistant's future, and only a live tracker loads or saves.
TypeOK ==
  /\ now \in 0..MaxTime /\ relay \in {"off", "own", "hand"}
  /\ mem.trigger \in {"none", "scheduled", "manual", "unknown"}
  /\ mem.source \in {"none", "observed", "typed"}
  /\ (mem.source = "none") = (mem.lastScheduled = None)
  /\ mem.day # None => mem.source = "observed"
  /\ mem.lastBackwash <= now /\ mem.lastManual <= mem.lastBackwash
  /\ window.since <= now /\ (window = NoWindow) = (window.since = None)
  /\ (loading \/ saving) => up

\* The history on disk only moves forward: no start-up, early frame or
\* untimely save replaces it with an emptier one (_loading, async_save), when
\* the file could be read.
HistoryKept == [][~blind => disk'.lastBackwash >= disk.lastBackwash]_disk

\* Whatever changes the record also schedules its save, the empty record
\* included: with no save under way, disk and memory agree on everything but
\* the offset, which is saved along with the rest.
DiskMatches ==
  /\ TypeOK
  /\ up /\ ~loading /\ ~saving /\ ~blind
     => disk = [mem EXCEPT !.offset = disk.offset]

\* A cycle whose opening was seen in a frame with the unit's clock, within the
\* tolerance of the set time, is filed under the slot the unit ran it in,
\* whatever happens to the unit's clock while the valve is open.
OwnCycleRecognised ==
  [][opened.slot # None /\ mem'.lastBackwash # mem.lastBackwash =>
       \A f \in FrameNow :
         f.schedule = opened.schedule /\ Frame(f)
         => mem'.trigger = "scheduled" /\ mem'.lastScheduled = opened.slot]_vars

\* What the tracker projects is a day the unit runs on, whatever restarts and clock
\* changes happen, as long as the unit let it see what it does: each change of the
\* schedule on the unit's own day of it, with an offset that shows that day; no
\* cycle but its own within the tolerance of a slot; no date typed in or cleared.
ProjectionFollowsUnit ==
  LET next == NextScheduled(mem, schedule[1], schedule[2]) IN
  up /\ ~loading /\ ~misled /\ mem.seen = schedule /\ next # None
  => (DayOf(next) - phase) % schedule[2] = 0 /\ next % Day = schedule[1]

\* A typed-in date that was saved is still there after any number of restarts,
\* until a scheduled cycle or another entry replaces it, or a history that could
\* not be read is written over: it is never taken while the load that would
\* overwrite it is on its way.
EntryIsNotLost ==
  typed # None /\ up /\ ~loading /\ ~blind => mem.lastScheduled = typed
=============================================================================
