------------------------ MODULE BackwashTrackerProofs ------------------------
(***************************************************************************)
(* Proofs about BackwashTracker, for every length of the day, every set of  *)
(* schedules and clock offsets and every tolerance, over any number of      *)
(* cycles, changes, restarts and typed-in dates.                            *)
(***************************************************************************)
EXTENDS BackwashTracker, TLAPS

-----------------------------------------------------------------------------
(* Numbers *)

LEMMA QuotientAndRest ==
  ASSUME NEW n \in Int, n > 0, NEW a \in Int PROVE a = n * (a \div n) + (a % n)
BY Z3

LEMMA Division ==
  ASSUME NEW n \in Nat \ {0}, NEW a \in Int
  PROVE  a \div n \in Int /\ a % n \in 0..(n - 1) /\ a = n * (a \div n) + (a % n)
<1>1. a \div n \in Int
  BY SMT
<1>2. a % n \in 0..(n - 1)
  BY SMT
<1>3. n \in Int /\ n > 0
  OBVIOUS
<1>4. a = n * (a \div n) + (a % n)
  BY <1>3, QuotientAndRest, Zenon
<1>. QED  BY <1>1, <1>2, <1>4

LEMMA NoSmallMultiple ==
  ASSUME NEW n \in Nat \ {0}, NEW m \in Int, n * m < n, -n < n * m
  PROVE  m = 0
<1>1. CASE m >= 1
  BY <1>1
<1>2. CASE m <= -1
  BY <1>2
<1>. QED  BY <1>1, <1>2

\* There is one way to divide with a remainder.
LEMMA DivisionIs ==
  ASSUME NEW n \in Nat \ {0}, NEW q \in Int, NEW r \in 0..(n - 1)
  PROVE  (n * q + r) \div n = q /\ (n * q + r) % n = r
<1> DEFINE a == n * q + r
<1>1. a \in Int
  OBVIOUS
<1>2. a \div n \in Int /\ a % n \in 0..(n - 1) /\ a = n * (a \div n) + (a % n)
  <2> HIDE DEF a
  <2>. QED  BY <1>1, Division
<1>3. PICK d \in Int : d = a \div n
  BY <1>2
<1>4. PICK s \in 0..(n - 1) : s = a % n
  BY <1>2
<1>5. n * (q - d) = s - r
  BY <1>2, <1>3, <1>4
<1>6. q - d = 0
  <2>1. s - r < n /\ -n < s - r /\ q - d \in Int
    OBVIOUS
  <2>. QED  BY <1>5, <2>1, NoSmallMultiple
<1>. QED  BY <1>3, <1>4, <1>5, <1>6

\* Whole intervals do not change what is left over.
LEMMA WholeIntervals ==
  ASSUME NEW n \in Nat \ {0}, NEW a \in Int, NEW k \in Int
  PROVE  (a + k * n) % n = a % n
<1>1. PICK q \in Int, r \in 0..(n - 1) : q = a \div n /\ r = a % n /\ a = n * q + r
  BY Division
<1>2. a + k * n = n * (q + k) + r /\ q + k \in Int
  BY <1>1
<1>3. (n * (q + k) + r) % n = r
  BY <1>2, DivisionIs
<1>. QED  BY <1>1, <1>2, <1>3

-----------------------------------------------------------------------------
(* Days and slots *)

TimesOfDay == 0..(Day - 1)

LEMMA DayBounds ==
  ASSUME NEW t \in Int
  PROVE  /\ DayOf(t) \in Int
         /\ DayOf(t) * Day <= t /\ t < DayOf(t) * Day + Day
<1>1. Day \in Nat \ {0}
  BY DayAssumption DEF DayAssumption
<1>2. t \div Day \in Int /\ t % Day \in 0..(Day - 1) /\ t = Day * (t \div Day) + (t % Day)
  BY <1>1, Division
<1>3. PICK d \in Int : d = t \div Day
  BY <1>2
<1>4. PICK r \in 0..(Day - 1) : r = t % Day
  BY <1>2
<1>5. t = d * Day + r
  BY <1>1, <1>2, <1>3, <1>4
<1>6. d * Day <= t /\ t < d * Day + Day
  BY <1>1, <1>5
<1>. QED  BY <1>3, <1>6 DEF DayOf

LEMMA SlotIs ==
  ASSUME NEW d \in Int, NEW at \in TimesOfDay
  PROVE  Slot(d, at) \in Int /\ DayOf(Slot(d, at)) = d /\ Slot(d, at) % Day = at
<1>1. Day \in Nat \ {0}
  BY DayAssumption DEF DayAssumption
<1>2. (Day * d + at) \div Day = d /\ (Day * d + at) % Day = at
  BY <1>1, DivisionIs DEF TimesOfDay
<1>3. Slot(d, at) = Day * d + at /\ Slot(d, at) \in Int
  BY <1>1 DEF Slot, TimesOfDay
<1>. QED  BY <1>2, <1>3 DEF DayOf

\* The nearest slot is that of the day before, the same day or the day after.
LEMMA NearestOf ==
  ASSUME NEW t \in Int, NEW at \in TimesOfDay
  PROVE  \E k \in {-1, 0, 1} : NearestSlot(t, at) = Slot(DayOf(t) + k, at)
<1> DEFINE near == {Slot(DayOf(t) + k, at) : k \in {-1, 0, 1}}
           best == {s \in near : \A r \in near : Abs(s - t) <= Abs(r - t)}
<1>1. DayOf(t) \in Int
  BY DayBounds
<1>2. PICK a \in Int, b \in Int, c \in Int :
        a = Slot(DayOf(t) - 1, at) /\ b = Slot(DayOf(t) + 0, at) /\ c = Slot(DayOf(t) + 1, at)
  <2>1. DayOf(t) - 1 \in Int /\ DayOf(t) + 0 \in Int /\ DayOf(t) + 1 \in Int
    BY <1>1
  <2>. QED  BY <2>1, SlotIs
<1>3. near = {a, b, c}
  <2>1. DayOf(t) + (-1) = DayOf(t) - 1
    BY <1>1
  <2>. QED  BY <1>2, <2>1
<1>4. \E s \in {a, b, c} : \A r \in {a, b, c} : Abs(s - t) <= Abs(r - t)
  BY DEF Abs
<1>5. best # {} /\ best \subseteq {a, b, c}
  BY <1>3, <1>4
<1>6. \E s \in best : \A r \in best : s <= r
  <2> HIDE DEF best
  <2>1. a \in best \/ b \in best \/ c \in best
    BY <1>5
  <2>2. \A s \in best : s = a \/ s = b \/ s = c
    BY <1>5
  <2>. QED  BY <2>1, <2>2
<1>7. NearestSlot(t, at) \in best
  <2>1. NearestSlot(t, at) = CHOOSE s \in best : \A r \in best : s <= r
    BY DEF NearestSlot
  <2> HIDE DEF best
  <2>. QED  BY <1>6, <2>1
<1>8. NearestSlot(t, at) \in near
  BY <1>7
<1>. QED  BY <1>8

LEMMA NearestBounds ==
  ASSUME NEW t \in Int, NEW at \in TimesOfDay
  PROVE  /\ NearestSlot(t, at) \in Int /\ t - 2 * Day < NearestSlot(t, at)
         /\ NearestSlot(t, at) % Day = at
         /\ NearestSlot(t, at) = Slot(DayOf(NearestSlot(t, at)), at)
<1>1. PICK k \in {-1, 0, 1} : NearestSlot(t, at) = Slot(DayOf(t) + k, at)
  BY NearestOf
<1>2. PICK d \in Int : d = DayOf(t) /\ d * Day <= t /\ t < d * Day + Day
  BY DayBounds
<1>3. d + k \in Int
  BY <1>2
<1>4. /\ Slot(d + k, at) \in Int /\ DayOf(Slot(d + k, at)) = d + k
      /\ Slot(d + k, at) % Day = at
  BY <1>3, SlotIs
<1>5. Slot(d + k, at) > t - 2 * Day
  BY <1>2, DayAssumption DEF DayAssumption, Slot, TimesOfDay
<1>. QED  BY <1>1, <1>2, <1>4, <1>5

\* A moment within the tolerance of a slot has no other that is as near.
LEMMA NearestIs ==
  ASSUME NEW t \in Int, NEW d \in Int, NEW at \in TimesOfDay,
         Abs(t - Slot(d, at)) <= OffsetTol
  PROVE  NearestSlot(t, at) = Slot(d, at)
<1> DEFINE near == {Slot(DayOf(t) + k, at) : k \in {-1, 0, 1}}
           best == {s \in near : \A r \in near : Abs(s - t) <= Abs(r - t)}
<1>1. PICK today \in Int : today = DayOf(t) /\ today * Day <= t /\ t < today * Day + Day
  BY DayBounds
<1>2. Day \in Nat \ {0} /\ OffsetTol \in Nat /\ 2 * OffsetTol < Day
  BY DayAssumption, ToleranceAssumption DEF DayAssumption, ToleranceAssumption
<1>3. d - today \in {-1, 0, 1}
  <2>1. PICK far \in Int : far = d - today
    OBVIOUS
  <2>2. -OffsetTol <= t - (d * Day + at) /\ t - (d * Day + at) <= OffsetTol
    BY <1>1, <1>2 DEF Abs, Slot, TimesOfDay
  <2>3. far * Day < 2 * Day /\ -(2 * Day) < far * Day
    BY <1>1, <1>2, <2>1, <2>2 DEF TimesOfDay
  <2>4. far < 2 /\ -2 < far
    BY <1>2, <2>3
  <2>. QED  BY <2>1, <2>4
<1>4. Slot(d, at) \in near
  <2>1. d = today + (d - today)
    BY <1>1
  <2>. QED  BY <1>1, <1>3, <2>1
<1>5. ASSUME NEW k \in {-1, 0, 1}, today + k # d
      PROVE  Abs(Slot(d, at) - t) < Abs(Slot(today + k, at) - t)
  <2>1. PICK apart \in Int : apart = (today + k) - d
    BY <1>1
  <2>2. apart # 0
    BY <1>1, <1>5, <2>1
  <2>3. apart * Day >= Day \/ apart * Day <= -Day
    BY <1>2, <2>2
  <2>4. PICK m \in Int : m = apart * Day
    BY <1>2
  <2>5. Slot(today + k, at) = Slot(d, at) + m
    BY <1>1, <1>2, <2>1, <2>4 DEF Slot, TimesOfDay
  <2>6. Slot(d, at) \in Int
    BY SlotIs
  <2>7. PICK s \in Int : s = Slot(d, at)
    BY <2>6
  <2>8. m >= Day \/ m <= -Day
    BY <2>3, <2>4
  <2>9. -OffsetTol <= t - s /\ t - s <= OffsetTol
    BY <1>2, <2>7 DEF Abs
  <2>10. Abs(s - t) < Abs(s + m - t)
    BY <1>2, <2>8, <2>9 DEF Abs
  <2>. QED  BY <2>5, <2>7, <2>10
<1>6. \A s \in near : s # Slot(d, at) => Abs(Slot(d, at) - t) < Abs(s - t)
  BY <1>1, <1>5
<1>7. \A s \in near : s \in Int
  <2>1. \A k \in {-1, 0, 1} : today + k \in Int
    BY <1>1
  <2>. QED  BY <1>1, <2>1, SlotIs
<1>8. best = {Slot(d, at)}
  <2> HIDE DEF near
  <2>1. \A s \in near : Abs(s - t) \in Nat
    BY <1>7 DEF Abs
  <2>2. Slot(d, at) \in best
    BY <1>4, <1>6, <2>1
  <2>3. \A s \in best : s = Slot(d, at)
    BY <1>4, <1>6, <2>1
  <2>. QED  BY <2>2, <2>3
<1>9. NearestSlot(t, at) = CHOOSE s \in best : \A r \in best : s <= r
  BY DEF NearestSlot
<1>10. Slot(d, at) \in Int
  BY SlotIs
<1>. QED
  <2> HIDE DEF best
  <2>1. \E s \in best : \A r \in best : s <= r
    BY <1>8, <1>10
  <2>2. NearestSlot(t, at) \in best
    BY <1>9, <2>1
  <2>. QED  BY <1>8, <2>2

-----------------------------------------------------------------------------
(* The record *)

Triggers == {"none", "scheduled", "manual", "unknown"}
Sources == {"none", "observed", "typed"}
Offsets == Skews \cup {None}
Settings == Schedules \cup {NoSchedule}

Record ==
  [lastBackwash : Int, lastScheduled : Int, lastManual : Int, trigger : Triggers,
   source : Sources, day : Int, restartDay : Int, seen : Settings, offset : Offsets]

\* A record that is of one piece, made of what had happened by now.
OfOnePiece(m) ==
  /\ m \in Record
  /\ (m.source = "none") = (m.lastScheduled = None)
  /\ m.day # None => m.source = "observed"
  /\ m.lastBackwash = None \/ m.lastBackwash \in 0..now
  /\ m.lastManual <= m.lastBackwash

FrameTyped(f) == f.offset \in Offsets /\ f.schedule \in Settings

LEMMA NoneIsLow ==
  /\ None \in Int /\ None < 0 /\ Offsets \subseteq Int /\ None < -(2 * Day)
  /\ \A s \in Skews : s \in Int /\ None < s - 2 * Day
  /\ \A s \in Schedules : s[1] \in TimesOfDay /\ s[2] \in Nat /\ s # NoSchedule
<1>1. Day \in Nat \ {0}
  BY DayAssumption DEF DayAssumption
<1>2. None \in Int /\ None < -(2 * Day) /\ \A s \in Skews : None < s - 2 * Day
  BY NoneAssumption DEF NoneAssumption
<1>3. Skews \subseteq Int
  BY ClockAssumption DEF ClockAssumption
<1>4. None < 0
  BY <1>1, <1>2
<1>5. ASSUME NEW s \in Schedules PROVE s[1] \in TimesOfDay /\ s[2] \in Nat /\ s # NoSchedule
  <2>1. s \in TimesOfDay \X Nat
    BY SchedulesAssumption DEF SchedulesAssumption, TimesOfDay
  <2>2. s[1] # None
    BY <1>1, <1>4, <2>1 DEF TimesOfDay
  <2>. QED  BY <2>1, <2>2 DEF NoSchedule
<1>. QED  BY <1>2, <1>3, <1>4, <1>5 DEF Offsets

LEMMA EmptyOfOnePiece == now \in Nat => OfOnePiece(Empty)
<1> SUFFICES ASSUME now \in Nat PROVE OfOnePiece(Empty)
  OBVIOUS
<1>1. Empty \in Record
  BY NoneIsLow DEF Empty, Record, Triggers, Sources, Settings, Offsets
<1>2. /\ Empty.source = "none" /\ Empty.lastScheduled = None /\ Empty.day = None
      /\ Empty.lastBackwash = None /\ Empty.lastManual = None
  BY DEF Empty
<1>. QED  BY <1>1, <1>2, NoneIsLow DEF OfOnePiece

\* A moment on the unit's clock is a number, and its slot a time that there is.
LEMMA SlotOfMoment ==
  ASSUME now \in Nat, NEW start \in 0..now, NEW offset \in Offsets, NEW at \in TimesOfDay
  PROVE  /\ OnUnitClock(start, offset) \in Int
         /\ NearestSlot(OnUnitClock(start, offset), at) \in Int
         /\ NearestSlot(OnUnitClock(start, offset), at) # None
         /\ DayOf(NearestSlot(OnUnitClock(start, offset), at)) \in Int
<1>1. offset \in Int /\ None \in Int /\ (offset # None => None < offset - 2 * Day)
      /\ None < -(2 * Day)
  BY NoneIsLow DEF Offsets
<1>2. Day \in Nat \ {0}
  BY DayAssumption DEF DayAssumption
<1>3. PICK t \in Int : t = OnUnitClock(start, offset) /\ None < t - 2 * Day
  BY <1>1, <1>2 DEF OnUnitClock
<1>4. NearestSlot(t, at) \in Int /\ t - 2 * Day < NearestSlot(t, at)
  BY NearestBounds
<1>5. DayOf(NearestSlot(t, at)) \in Int
  BY <1>4, DayBounds
<1>6. NearestSlot(t, at) # None
  BY <1>1, <1>2, <1>3, <1>4
<1>. QED  BY <1>3, <1>4, <1>5, <1>6

LEMMA TakeOffsetEffect ==
  ASSUME NEW m, NEW f, OfOnePiece(m), FrameTyped(f)
  PROVE  /\ OfOnePiece(TakeOffset(m, f))
         /\ TakeOffset(m, f) = [m EXCEPT !.offset = TakeOffset(m, f).offset]
         /\ f.offset # None => TakeOffset(m, f).offset = f.offset
         /\ f.offset = None => TakeOffset(m, f).offset = m.offset
<1>1. m \in Record
  BY DEF OfOnePiece
<1>2. CASE f.offset = None
  <2>1. TakeOffset(m, f) = m
    BY <1>2 DEF TakeOffset
  <2>2. m = [m EXCEPT !.offset = m.offset]
    BY <1>1 DEF Record
  <2>. QED  BY <1>2, <2>1, <2>2
<1>3. CASE f.offset # None
  <2> DEFINE new == [m EXCEPT !.offset = f.offset]
  <2>1. TakeOffset(m, f) = new
    BY <1>3 DEF TakeOffset
  <2>2. new \in Record
    BY <1>1 DEF Record, FrameTyped
  <2>3. /\ new.source = m.source /\ new.lastScheduled = m.lastScheduled /\ new.day = m.day
        /\ new.lastBackwash = m.lastBackwash /\ new.lastManual = m.lastManual
        /\ new.offset = f.offset
    BY <1>1 DEF Record
  <2>4. new = [m EXCEPT !.offset = new.offset]
    BY <1>1, <2>3
  <2> HIDE DEF new
  <2>5. OfOnePiece(new)
    BY <2>2, <2>3 DEF OfOnePiece
  <2>. QED  BY <1>3, <2>1, <2>3, <2>4, <2>5
<1>. QED  BY <1>2, <1>3

\* A changed schedule starts again the day after; nothing else is touched.
LEMMA NoteScheduleEffect ==
  ASSUME NEW m, NEW f, OfOnePiece(m), FrameTyped(f), now \in Nat
  PROVE  /\ OfOnePiece(NoteSchedule(m, f))
         /\ ~ScheduleChanged(m, f) => NoteSchedule(m, f) = m
         /\ NoteSchedule(m, f) = [m EXCEPT !.seen = NoteSchedule(m, f).seen,
                                           !.restartDay = NoteSchedule(m, f).restartDay]
         /\ ScheduleChanged(m, f) =>
              /\ NoteSchedule(m, f).seen = f.schedule
              /\ m.seen # NoSchedule /\ Interval(f) > 0 =>
                   /\ NoteSchedule(m, f).restartDay # None
                   /\ NoteSchedule(m, f).restartDay = DayOf(OnUnitClock(now, m.offset)) + 1
              /\ m.seen # NoSchedule /\ ~(Interval(f) > 0) => NoteSchedule(m, f).restartDay = None
              /\ m.seen = NoSchedule => NoteSchedule(m, f).restartDay = m.restartDay
<1>1. m \in Record
  BY DEF OfOnePiece
<1>2. CASE ~ScheduleChanged(m, f)
  <2>1. NoteSchedule(m, f) = m
    BY <1>2 DEF NoteSchedule
  <2>2. m = [m EXCEPT !.seen = m.seen, !.restartDay = m.restartDay]
    BY <1>1 DEF Record
  <2>. QED  BY <1>2, <2>1, <2>2
<1>3. CASE ScheduleChanged(m, f)
  <2> DEFINE moment == OnUnitClock(now, m.offset)
             today == DayOf(moment)
             restart == IF m.seen = NoSchedule THEN m.restartDay
                        ELSE IF Interval(f) > 0 THEN today + 1 ELSE None
             new == [m EXCEPT !.seen = f.schedule, !.restartDay = restart]
  <2>1. NoteSchedule(m, f) = new
    BY <1>3 DEF NoteSchedule
  <2>2. m.offset \in Offsets
    BY <1>1 DEF Record
  <2>3. moment \in Int /\ None < moment - 2 * Day
    BY <2>2, NoneIsLow, DayAssumption DEF OnUnitClock, DayAssumption, Offsets
  <2>4. today \in Int /\ today + 1 # None
    <3>1. PICK t \in Int : t = moment
      BY <2>3
    <3>2. DayOf(t) \in Int /\ t < DayOf(t) * Day + Day
      BY DayBounds
    <3>3. PICK d \in Int : d = DayOf(t)
      BY <3>2
    <3>4. None < d * Day
      BY <2>3, <3>1, <3>2, <3>3, NoneIsLow, DayAssumption DEF DayAssumption
    <3>5. d < 0 => d * Day <= d
      BY DayAssumption DEF DayAssumption
    <3>6. None < d
      <4>1. d * Day \in Int /\ None \in Int /\ None < 0
        BY NoneIsLow, DayAssumption DEF DayAssumption
      <4>. QED  BY <3>4, <3>5, <4>1
    <3>. QED  BY <3>1, <3>3, <3>6, NoneIsLow
  <2> HIDE DEF moment, today
  <2>5. restart \in Int /\ f.schedule \in Settings
    BY <1>1, <2>4, NoneIsLow DEF Record, FrameTyped
  <2>6. /\ m.seen # NoSchedule /\ Interval(f) > 0 => restart # None /\ restart = today + 1
        /\ m.seen # NoSchedule /\ ~(Interval(f) > 0) => restart = None
        /\ m.seen = NoSchedule => restart = m.restartDay
    BY <2>4
  <2> HIDE DEF restart
  <2>7. new \in Record
    BY <1>1, <2>5 DEF Record
  <2>8. /\ new.source = m.source /\ new.lastScheduled = m.lastScheduled /\ new.day = m.day
        /\ new.lastBackwash = m.lastBackwash /\ new.lastManual = m.lastManual
        /\ new.seen = f.schedule /\ new.restartDay = restart
    BY <1>1 DEF Record
  <2>9. new = [m EXCEPT !.seen = new.seen, !.restartDay = new.restartDay]
    BY <1>1, <2>8
  <2> HIDE DEF new
  <2>10. OfOnePiece(new)
    BY <2>7, <2>8 DEF OfOnePiece
  <2>. QED  BY <1>3, <2>1, <2>6, <2>8, <2>9, <2>10 DEF today, moment
<1>. QED  BY <1>2, <1>3

LEMMA ClassifyEffect ==
  ASSUME NEW f, NEW start, NEW menu, NEW offset
  PROVE  /\ Classify(f, start, menu, offset) \in {"scheduled", "manual", "unknown"}
         /\ Classify(f, start, menu, offset) = "scheduled" => HasSchedule(f) /\ Interval(f) > 0
BY DEF Classify

\* Filing a cycle fixes its verdict, and the moment or the slot that goes with it.
LEMMA FileEffect ==
  ASSUME NEW m, NEW f, NEW verdict \in {"scheduled", "manual", "unknown"},
         NEW start \in 0..now, NEW offset \in Offsets, now \in Nat,
         OfOnePiece(m), FrameTyped(f), m.lastBackwash # None,
         verdict = "scheduled" => HasSchedule(f)
  PROVE  LET new == File(m, f, verdict, m.lastBackwash, start, offset)
             slot == NearestSlot(OnUnitClock(start, offset), Time(f))
         IN  /\ OfOnePiece(new) /\ new.trigger = verdict
             /\ new.lastBackwash = m.lastBackwash /\ new.seen = m.seen
             /\ new.restartDay = m.restartDay /\ new.offset = m.offset
             /\ verdict = "scheduled" =>
                  /\ new.lastScheduled = slot /\ new.day = DayOf(slot)
                  /\ slot # None /\ slot \in Int
             /\ verdict # "scheduled" => new.lastScheduled = m.lastScheduled /\ new.day = m.day
<1> DEFINE new == File(m, f, verdict, m.lastBackwash, start, offset)
           slot == NearestSlot(OnUnitClock(start, offset), Time(f))
<1>1. m \in Record
  BY DEF OfOnePiece
<1>2. CASE verdict = "scheduled"
  <2>1. Time(f) \in TimesOfDay
    BY <1>2, NoneIsLow DEF FrameTyped, Settings, HasSchedule, Time
  <2>2. slot \in Int /\ slot # None /\ DayOf(slot) \in Int
    BY <2>1, SlotOfMoment
  <2>3. new = [m EXCEPT !.trigger = verdict, !.lastScheduled = slot,
                        !.source = "observed", !.day = DayOf(slot)]
    BY <1>2 DEF File
  <2> HIDE DEF slot, new
  <2>4. /\ new \in Record /\ new.source = "observed" /\ new.trigger = verdict
        /\ new.lastScheduled = slot /\ new.day = DayOf(slot)
        /\ new.lastBackwash = m.lastBackwash /\ new.lastManual = m.lastManual
        /\ new.seen = m.seen /\ new.restartDay = m.restartDay /\ new.offset = m.offset
    BY <1>1, <2>2, <2>3 DEF Record, Triggers, Sources
  <2>5. OfOnePiece(new)
    BY <2>2, <2>4 DEF OfOnePiece
  <2>. QED  BY <1>2, <2>2, <2>4, <2>5 DEF slot, new
<1>3. CASE verdict = "manual"
  <2>1. new = [m EXCEPT !.trigger = verdict, !.lastManual = m.lastBackwash]
    BY <1>3 DEF File
  <2> HIDE DEF new
  <2>2. /\ new \in Record /\ new.source = m.source /\ new.trigger = verdict
        /\ new.lastScheduled = m.lastScheduled /\ new.day = m.day
        /\ new.lastBackwash = m.lastBackwash /\ new.lastManual = m.lastBackwash
        /\ new.seen = m.seen /\ new.restartDay = m.restartDay /\ new.offset = m.offset
    BY <1>1, <2>1 DEF Record, Triggers
  <2>3. new.lastManual <= new.lastBackwash
    BY <2>2 DEF OfOnePiece
  <2>4. OfOnePiece(new)
    BY <2>2, <2>3 DEF OfOnePiece
  <2>. QED  BY <1>3, <2>2, <2>4 DEF new
<1>4. CASE verdict = "unknown"
  <2>1. new = [m EXCEPT !.trigger = verdict]
    BY <1>4 DEF File
  <2> HIDE DEF new
  <2>2. /\ new \in Record /\ new.source = m.source /\ new.trigger = verdict
        /\ new.lastScheduled = m.lastScheduled /\ new.day = m.day
        /\ new.lastBackwash = m.lastBackwash /\ new.lastManual = m.lastManual
        /\ new.seen = m.seen /\ new.restartDay = m.restartDay /\ new.offset = m.offset
    BY <1>1, <1>4, <2>1 DEF Record, Triggers
  <2>3. OfOnePiece(new)
    BY <2>2 DEF OfOnePiece
  <2>. QED  BY <1>4, <2>2, <2>3 DEF new
<1>. QED  BY <1>2, <1>3, <1>4

LEMMA BackfillEffect ==
  ASSUME NEW m, NEW f, OfOnePiece(m), FrameTyped(f), now \in Nat
  PROVE  /\ OfOnePiece(BackfillSplit(m, f))
         /\ ~BackfillDue(m, f) => BackfillSplit(m, f) = m
         /\ BackfillSplit(m, f).lastBackwash = m.lastBackwash
         /\ BackfillSplit(m, f).seen = m.seen
         /\ BackfillSplit(m, f).restartDay = m.restartDay
         /\ BackfillSplit(m, f).offset = m.offset
         /\ BackfillSplit(m, f).lastScheduled = m.lastScheduled =>
              BackfillSplit(m, f).day = m.day
<1>1. CASE ~BackfillDue(m, f)
  BY <1>1 DEF BackfillSplit
<1>2. CASE BackfillDue(m, f)
  <2> DEFINE verdict == Classify(f, m.lastBackwash, FALSE, m.offset)
             new == File(m, f, verdict, m.lastBackwash, m.lastBackwash, m.offset)
  <2>1. BackfillSplit(m, f) = new
    BY <1>2 DEF BackfillSplit
  <2>2. m.lastBackwash # None /\ m.lastBackwash \in 0..now /\ m.offset \in Offsets
    BY <1>2 DEF BackfillDue, OfOnePiece, Record
  <2>3. /\ verdict \in {"scheduled", "manual", "unknown"}
        /\ verdict = "scheduled" => HasSchedule(f)
    BY ClassifyEffect
  <2> HIDE DEF verdict
  <2>4. /\ OfOnePiece(new) /\ new.lastBackwash = m.lastBackwash /\ new.seen = m.seen
        /\ new.restartDay = m.restartDay /\ new.offset = m.offset
    BY <2>2, <2>3, FileEffect
  <2>5. new.lastScheduled = m.lastScheduled => new.day = m.day
    <3>1. verdict = "scheduled" => new.lastScheduled # None
      BY <2>2, <2>3, FileEffect
    <3>2. verdict # "scheduled" => new.day = m.day
      BY <2>2, <2>3, FileEffect
    <3>3. m.lastScheduled = None
      BY <1>2 DEF BackfillDue
    <3>. QED  BY <3>1, <3>2, <3>3
  <2> HIDE DEF new
  <2>. QED  BY <1>2, <2>1, <2>4, <2>5
<1>. QED  BY <1>1, <1>2

WindowTyped(w) ==
  /\ w \in [since : Int, menu : BOOLEAN, offset : Offsets]
  /\ w.since = None \/ w.since \in 0..now
  /\ (w = NoWindow) = (w.since = None)

\* A window that is recorded: its middle becomes the last backwash, and the verdict
\* decides what else is learnt.
Verdict(f, w) == Classify(f, w.since, w.menu, w.offset)
SlotOf(f, w) == NearestSlot(OnUnitClock(w.since, w.offset), Time(f))

LEMMA RecordWindowEffect ==
  ASSUME NEW m, NEW f, NEW w, OfOnePiece(m), FrameTyped(f), WindowTyped(w), now \in Nat
  PROVE  /\ OfOnePiece(RecordWindow(m, f, w))
         /\ ~Recordable(m, w) => RecordWindow(m, f, w) = m
         /\ RecordWindow(m, f, w).seen = m.seen
         /\ RecordWindow(m, f, w).offset = m.offset
         /\ Recordable(m, w) =>
              /\ RecordWindow(m, f, w).lastBackwash = Midpoint(w)
              /\ Midpoint(w) \in 0..now /\ m.lastBackwash < Midpoint(w)
              /\ RecordWindow(m, f, w).trigger = Verdict(f, w)
              /\ Verdict(f, w) = "scheduled" =>
                   /\ RecordWindow(m, f, w).lastScheduled = SlotOf(f, w)
                   /\ RecordWindow(m, f, w).day = DayOf(SlotOf(f, w))
                   /\ RecordWindow(m, f, w).restartDay \in {None, m.restartDay}
              /\ Verdict(f, w) # "scheduled" =>
                   /\ RecordWindow(m, f, w).lastScheduled = m.lastScheduled
                   /\ RecordWindow(m, f, w).day = m.day
                   /\ RecordWindow(m, f, w).restartDay = m.restartDay
<1>1. CASE ~Recordable(m, w)
  BY <1>1 DEF RecordWindow
<1>2. CASE Recordable(m, w)
  <2> DEFINE middle == Midpoint(w)
             mid == [m EXCEPT !.lastBackwash = middle]
             verdict == Verdict(f, w)
             slot == SlotOf(f, w)
             filed == File(mid, f, verdict, middle, w.since, w.offset)
             done == verdict = "scheduled" /\ filed.restartDay # None
                     /\ filed.day >= filed.restartDay
             new == IF done THEN [filed EXCEPT !.restartDay = None] ELSE filed
  <2>1. RecordWindow(m, f, w) = new
    BY <1>2 DEF RecordWindow, Verdict
  <2>2. /\ w.since \in 0..now /\ w.offset \in Offsets
        /\ m.lastBackwash = None \/ middle > m.lastBackwash
    BY <1>2 DEF Recordable, WindowTyped
  <2>3. middle \in 0..now
    BY <2>2 DEF Midpoint
  <2>4. middle # None /\ m.lastBackwash < middle
    BY <2>2, <2>3, NoneIsLow
  <2>5. /\ verdict \in {"scheduled", "manual", "unknown"}
        /\ verdict = "scheduled" => HasSchedule(f)
    BY ClassifyEffect DEF Verdict
  <2> HIDE DEF middle, verdict
  <2>6. /\ mid \in Record /\ mid.lastBackwash = middle /\ mid.source = m.source
        /\ mid.lastScheduled = m.lastScheduled /\ mid.day = m.day
        /\ mid.lastManual = m.lastManual /\ mid.restartDay = m.restartDay
        /\ mid.seen = m.seen /\ mid.offset = m.offset
    BY <2>3 DEF OfOnePiece, Record
  <2>7. mid.lastManual <= mid.lastBackwash
    <3>1. m.lastManual <= m.lastBackwash /\ m.lastManual \in Int /\ m.lastBackwash \in Int
      BY DEF OfOnePiece, Record
    <3>. QED  BY <2>3, <2>4, <2>6, <3>1
  <2> HIDE DEF mid
  <2>8. OfOnePiece(mid)
    BY <2>3, <2>6, <2>7 DEF OfOnePiece
  <2>9. /\ OfOnePiece(filed) /\ filed.trigger = verdict
        /\ filed.lastBackwash = middle /\ filed.seen = m.seen
        /\ filed.restartDay = m.restartDay /\ filed.offset = m.offset
        /\ verdict = "scheduled" => filed.lastScheduled = slot /\ filed.day = DayOf(slot)
        /\ verdict # "scheduled" =>
             filed.lastScheduled = m.lastScheduled /\ filed.day = m.day
    <3>1. filed = File(mid, f, verdict, mid.lastBackwash, w.since, w.offset)
      BY <2>6
    <3>2. mid.lastBackwash # None
      BY <2>4, <2>6
    <3> HIDE DEF filed
    <3>. QED  BY <2>2, <2>5, <2>6, <2>8, <3>1, <3>2, FileEffect DEF SlotOf
  <2> HIDE DEF filed, slot
  <2>10. filed \in Record
    BY <2>9 DEF OfOnePiece
  <2>11. /\ new \in Record /\ new.trigger = filed.trigger /\ new.source = filed.source
         /\ new.lastBackwash = filed.lastBackwash /\ new.lastManual = filed.lastManual
         /\ new.lastScheduled = filed.lastScheduled /\ new.day = filed.day
         /\ new.seen = filed.seen /\ new.offset = filed.offset
         /\ new.restartDay \in {None, filed.restartDay}
         /\ verdict # "scheduled" => new.restartDay = filed.restartDay
    BY <2>10, NoneIsLow DEF Record
  <2> HIDE DEF new
  <2>12. OfOnePiece(new)
    BY <2>9, <2>11 DEF OfOnePiece
  <2>. QED  BY <1>2, <2>1, <2>3, <2>4, <2>9, <2>11, <2>12 DEF middle, verdict, slot
<1>. QED  BY <1>1, <1>2
-----------------------------------------------------------------------------
(* What holds in every state *)

Clocks ==
  /\ now \in 0..MaxTime /\ schedule \in Schedules /\ phase \in Int
  /\ relay \in {"off", "own", "hand"} /\ skew \in Skews
  /\ up \in BOOLEAN /\ loading \in BOOLEAN /\ saving \in BOOLEAN
  /\ blind \in BOOLEAN /\ misled \in BOOLEAN

Recorded == OfOnePiece(mem) /\ OfOnePiece(disk) /\ WindowTyped(window)

\* A tracker that is not there, or has not read its file, has learnt nothing.
Flags ==
  /\ loading \/ saving => up
  /\ ~(loading /\ saving)
  /\ ~up \/ loading => opened = NotOpened /\ window = NoWindow /\ mem = Empty

Alive == up /\ ~loading /\ ~blind

Saved == Alive /\ ~saving => disk = [mem EXCEPT !.offset = disk.offset]

NotBehind == Alive => mem.lastBackwash >= disk.lastBackwash

EntrySafe ==
  typed # None => (Alive => mem.lastScheduled = typed)
                  /\ (~saving => disk.lastScheduled = typed)

RecordInv == Clocks /\ Recorded /\ Flags /\ Saved /\ NotBehind /\ EntrySafe

\* A record stays of one piece as time goes by.
LEMMA OfOnePieceLater ==
  ASSUME NEW m, OfOnePiece(m), now \in Nat, now' \in Nat, now' >= now
  PROVE  OfOnePiece(m)'
<1>1. m.lastBackwash = None \/ m.lastBackwash \in 0..now'
  BY DEF OfOnePiece
<1>. QED  BY <1>1 DEF OfOnePiece

LEMMA WindowTypedLater ==
  ASSUME NEW w, WindowTyped(w), now \in Nat, now' \in Nat, now' >= now
  PROVE  WindowTyped(w)'
<1>1. w.since = None \/ w.since \in 0..now'
  BY DEF WindowTyped
<1>. QED  BY <1>1 DEF WindowTyped

LEMMA NoWindowTyped == WindowTyped(NoWindow)
<1>1. /\ NoWindow \in [since : Int, menu : BOOLEAN, offset : Offsets]
      /\ NoWindow.since = None
  BY NoneIsLow DEF NoWindow, Offsets
<1>. QED  BY <1>1 DEF WindowTyped

\* What a frame says is typed.
LEMMA FrameNowTyped ==
  ASSUME RecordInv, NEW f \in FrameNow
  PROVE  /\ FrameTyped(f) /\ f.schedule \in {schedule, NoSchedule}
         /\ f.running = (relay # "off") /\ f.clock \in BOOLEAN /\ f.menu \in BOOLEAN
<1>1. mem.offset \in Offsets /\ skew \in Offsets /\ schedule \in Settings
  BY DEF RecordInv, Clocks, Recorded, OfOnePiece, Record, Offsets, Settings
<1>2. /\ f.offset \in {mem.offset, skew} /\ f.schedule \in {schedule, NoSchedule}
      /\ f.running \in {relay # "off"} /\ f.clock \in BOOLEAN /\ f.menu \in {relay = "hand"}
  BY DEF FrameNow
<1>3. NoSchedule \in Settings
  BY DEF Settings
<1>. QED  BY <1>1, <1>2, <1>3 DEF FrameTyped

\* The steps of update, one after the other.
Noted(f) == NoteSchedule(TakeOffset(mem, f), f)
Filled(f) == BackfillSplit(Noted(f), f)

LEMMA FilledEffect ==
  ASSUME RecordInv, NEW f \in FrameNow
  PROVE  /\ OfOnePiece(Noted(f)) /\ OfOnePiece(Filled(f))
         /\ Filled(f).lastBackwash = mem.lastBackwash
         /\ Noted(f).lastScheduled = mem.lastScheduled /\ Noted(f).day = mem.day
         /\ Noted(f).lastBackwash = mem.lastBackwash /\ Noted(f).trigger = mem.trigger
         /\ Filled(f).seen = Noted(f).seen /\ Filled(f).restartDay = Noted(f).restartDay
         /\ Filled(f).offset = Noted(f).offset
         /\ Filled(f).offset = f.offset
         /\ ~ScheduleChanged(mem, f) =>
              Noted(f).seen = mem.seen /\ Noted(f).restartDay = mem.restartDay
         /\ ScheduleChanged(mem, f) =>
              /\ Noted(f).seen = f.schedule
              /\ mem.seen # NoSchedule /\ Interval(f) > 0 =>
                   /\ Noted(f).restartDay # None
                   /\ Noted(f).restartDay = DayOf(OnUnitClock(now, f.offset)) + 1
              /\ mem.seen # NoSchedule /\ ~(Interval(f) > 0) => Noted(f).restartDay = None
              /\ mem.seen = NoSchedule => Noted(f).restartDay = mem.restartDay
         /\ ~BackfillDue(Noted(f), f) => Filled(f) = Noted(f)
         /\ Filled(f).lastScheduled = mem.lastScheduled => Filled(f).day = mem.day
         /\ ~ScheduleChanged(mem, f) /\ ~BackfillDue(Noted(f), f) =>
              Filled(f) = [mem EXCEPT !.offset = Filled(f).offset]
<1> DEFINE taken == TakeOffset(mem, f)
<1>1. /\ OfOnePiece(mem) /\ mem \in Record /\ FrameTyped(f) /\ now \in Nat
  BY FrameNowTyped DEF RecordInv, Recorded, OfOnePiece, Clocks
<1>2. /\ OfOnePiece(taken) /\ taken = [mem EXCEPT !.offset = taken.offset]
      /\ taken.offset = f.offset
  <2>1. f.offset = None => mem.offset = None
    <3>1. f.offset \in {mem.offset, skew}
      BY DEF FrameNow
    <3>2. skew \in Int /\ None < skew - 2 * Day /\ Day \in Nat
      BY NoneIsLow, DayAssumption DEF RecordInv, Clocks, DayAssumption
    <3>3. skew # None
      BY <3>2, NoneIsLow
    <3>. QED  BY <3>1, <3>3
  <2>2. /\ OfOnePiece(taken) /\ taken = [mem EXCEPT !.offset = taken.offset]
        /\ f.offset # None => taken.offset = f.offset
        /\ f.offset = None => taken.offset = mem.offset
    BY <1>1, TakeOffsetEffect
  <2>. QED  BY <2>1, <2>2
<1>3. PICK o : taken = [mem EXCEPT !.offset = o]
  BY <1>2
<1>4. /\ taken.lastBackwash = mem.lastBackwash /\ taken.lastScheduled = mem.lastScheduled
      /\ taken.day = mem.day /\ taken.seen = mem.seen /\ taken.restartDay = mem.restartDay
  BY <1>1, <1>3 DEF Record
<1>5. ScheduleChanged(taken, f) = ScheduleChanged(mem, f)
  BY <1>4 DEF ScheduleChanged
<1>6. Noted(f) = NoteSchedule(taken, f)
  BY DEF Noted
<1> HIDE DEF taken
<1>7. /\ OfOnePiece(Noted(f))
      /\ ~ScheduleChanged(taken, f) => Noted(f) = taken
      /\ Noted(f) = [taken EXCEPT !.seen = Noted(f).seen, !.restartDay = Noted(f).restartDay]
      /\ ScheduleChanged(taken, f) =>
           /\ Noted(f).seen = f.schedule
           /\ taken.seen # NoSchedule /\ Interval(f) > 0 =>
                /\ Noted(f).restartDay # None
                /\ Noted(f).restartDay = DayOf(OnUnitClock(now, taken.offset)) + 1
           /\ taken.seen # NoSchedule /\ ~(Interval(f) > 0) => Noted(f).restartDay = None
           /\ taken.seen = NoSchedule => Noted(f).restartDay = taken.restartDay
  <2> DEFINE new == NoteSchedule(taken, f)
  <2>1. /\ OfOnePiece(new)
        /\ ~ScheduleChanged(taken, f) => new = taken
        /\ new = [taken EXCEPT !.seen = new.seen, !.restartDay = new.restartDay]
        /\ ScheduleChanged(taken, f) =>
             /\ new.seen = f.schedule
             /\ taken.seen # NoSchedule /\ Interval(f) > 0 =>
                  /\ new.restartDay # None
                  /\ new.restartDay = DayOf(OnUnitClock(now, taken.offset)) + 1
             /\ taken.seen # NoSchedule /\ ~(Interval(f) > 0) => new.restartDay = None
             /\ taken.seen = NoSchedule => new.restartDay = taken.restartDay
    BY <1>1, <1>2, NoteScheduleEffect
  <2>. QED  BY <1>6, <2>1
<1>8. PICK s, r : Noted(f) = [taken EXCEPT !.seen = s, !.restartDay = r]
  BY <1>7
<1>9. taken \in Record
  BY <1>2 DEF OfOnePiece
<1>10. /\ Noted(f).lastBackwash = taken.lastBackwash /\ Noted(f).day = taken.day
       /\ Noted(f).lastScheduled = taken.lastScheduled /\ Noted(f).offset = taken.offset
       /\ Noted(f).trigger = taken.trigger /\ taken.trigger = mem.trigger
  BY <1>1, <1>3, <1>8, <1>9 DEF Record
<1>11. /\ OfOnePiece(Filled(f))
       /\ ~BackfillDue(Noted(f), f) => Filled(f) = Noted(f)
       /\ Filled(f).lastBackwash = Noted(f).lastBackwash /\ Filled(f).seen = Noted(f).seen
       /\ Filled(f).restartDay = Noted(f).restartDay /\ Filled(f).offset = Noted(f).offset
  BY <1>1, <1>7, BackfillEffect DEF Filled
<1>12. ~ScheduleChanged(mem, f) => Noted(f).seen = mem.seen /\ Noted(f).restartDay = mem.restartDay
  BY <1>4, <1>5, <1>7
<1>13. ~ScheduleChanged(mem, f) /\ ~BackfillDue(Noted(f), f) =>
         Filled(f) = [mem EXCEPT !.offset = Filled(f).offset]
  BY <1>2, <1>5, <1>7, <1>11
<1>14. ScheduleChanged(mem, f) =>
         /\ Noted(f).seen = f.schedule
         /\ mem.seen # NoSchedule /\ Interval(f) > 0 =>
              /\ Noted(f).restartDay # None
              /\ Noted(f).restartDay = DayOf(OnUnitClock(now, f.offset)) + 1
         /\ mem.seen # NoSchedule /\ ~(Interval(f) > 0) => Noted(f).restartDay = None
         /\ mem.seen = NoSchedule => Noted(f).restartDay = mem.restartDay
  BY <1>2, <1>4, <1>5, <1>7
<1>15. Filled(f).lastScheduled = mem.lastScheduled => Filled(f).day = mem.day
  <2>1. Filled(f).lastScheduled = Noted(f).lastScheduled => Filled(f).day = Noted(f).day
    BY <1>1, <1>7, BackfillEffect DEF Filled
  <2>. QED  BY <1>4, <1>10, <2>1
<1>. QED  BY <1>2, <1>4, <1>7, <1>10, <1>11, <1>12, <1>13, <1>14, <1>15

\* A window after a gap, and one an open valve is seen in.
LEMMA WindowEffect ==
  ASSUME RecordInv, NEW f \in FrameNow
  PROVE  /\ WindowTyped(AfterGap(window))
         /\ AfterGap(window) \in {window, NoWindow}
         /\ WindowTyped(Open(Filled(f), f, AfterGap(window)))
<1> DEFINE w == AfterGap(window)
<1>1. /\ WindowTyped(window) /\ now \in Nat /\ skew \in Offsets
      /\ f.clock \in BOOLEAN /\ f.menu \in BOOLEAN
  BY FrameNowTyped DEF RecordInv, Recorded, Clocks, Offsets
<1>2. w \in {window, NoWindow}
  BY DEF AfterGap
<1>3. WindowTyped(w)
  BY <1>1, <1>2, NoWindowTyped
<1>4. Filled(f).offset \in Offsets
  BY FilledEffect DEF OfOnePiece, Record
<1> HIDE DEF w
<1>5. CASE w.since = None
  <2> DEFINE new == [since |-> now, menu |-> Menu(f),
                     offset |-> IF f.clock THEN skew ELSE Filled(f).offset]
  <2>1. Open(Filled(f), f, w) = new
    BY <1>5 DEF Open
  <2>2. Menu(f) \in BOOLEAN
    BY <1>1 DEF Menu
  <2>3. new \in [since : Int, menu : BOOLEAN, offset : Offsets]
    BY <1>1, <1>4, <2>2
  <2>4. new.since = now /\ now # None /\ NoWindow.since = None
    BY <1>1, NoneIsLow DEF NoWindow
  <2>. QED  BY <1>1, <1>2, <1>3, <2>1, <2>3, <2>4 DEF WindowTyped, w
<1>6. CASE w.since # None
  <2> DEFINE new == [w EXCEPT !.menu = (w.menu \/ Menu(f))]
  <2>1. Open(Filled(f), f, w) = new
    BY <1>6 DEF Open
  <2>2. w \in [since : Int, menu : BOOLEAN, offset : Offsets]
    BY <1>3 DEF WindowTyped
  <2>3. Menu(f) \in BOOLEAN
    BY <1>1 DEF Menu
  <2>4. new \in [since : Int, menu : BOOLEAN, offset : Offsets] /\ new.since = w.since
    BY <2>2, <2>3
  <2>5. NoWindow.since = None
    BY DEF NoWindow
  <2> HIDE DEF new
  <2>6. WindowTyped(new)
    BY <1>3, <1>6, <2>4, <2>5 DEF WindowTyped
  <2>. QED  BY <1>2, <1>3, <2>1, <2>6 DEF w
<1>. QED  BY <1>5, <1>6
\* update, as a whole: the record stays of one piece, never goes back, and when
\* nothing is to be saved is what it was but for the offset.
LEMMA FrameEffect ==
  ASSUME RecordInv, NEW f \in FrameNow, Frame(f)
  PROVE  /\ OfOnePiece(mem)' /\ WindowTyped(window)'
         /\ mem'.lastBackwash >= mem.lastBackwash
         /\ saving' \in BOOLEAN /\ misled' \in BOOLEAN
         /\ saving => saving'
         /\ ~saving' => mem' = [mem EXCEPT !.offset = mem'.offset]
         /\ typed' # None => typed' = typed /\ mem'.lastScheduled = mem.lastScheduled
<1> DEFINE w == AfterGap(window)
           m2 == Filled(f)
           new == RecordWindow(m2, f, w)
<1>1. /\ now \in Nat /\ now' = now /\ FrameTyped(f) /\ mem \in Record
      /\ saving \in BOOLEAN /\ misled \in BOOLEAN
  BY FrameNowTyped DEF RecordInv, Clocks, Recorded, OfOnePiece, Frame
<1>2. /\ OfOnePiece(m2) /\ m2.lastBackwash = mem.lastBackwash
      /\ ~ScheduleChanged(mem, f) /\ ~BackfillDue(Noted(f), f) =>
           m2 = [mem EXCEPT !.offset = m2.offset]
  BY FilledEffect
<1>3. WindowTyped(w) /\ WindowTyped(Open(m2, f, w))
  BY WindowEffect
<1>4. /\ OfOnePiece(new)
      /\ ~Recordable(m2, w) => new = m2
  BY <1>1, <1>2, <1>3, RecordWindowEffect
<1>5. Recordable(m2, w) => new.lastBackwash > m2.lastBackwash
  BY <1>1, <1>2, <1>3, RecordWindowEffect
<1>6. f.running =>
        /\ mem' = m2 /\ window' = Open(m2, f, w)
        /\ saving' = (saving \/ ScheduleChanged(mem, f) \/ BackfillDue(Noted(f), f))
  BY DEF Frame, Filled, Noted
<1>7. ~f.running =>
        /\ mem' = new /\ window' = NoWindow
        /\ saving' = (saving \/ ScheduleChanged(mem, f) \/ BackfillDue(Noted(f), f)
                             \/ Recordable(m2, w))
  BY DEF Frame, Filled, Noted
<1>8. /\ typed' # None => typed' = typed /\ mem'.lastScheduled = mem.lastScheduled
      /\ misled' \in BOOLEAN
  BY <1>1 DEF Frame
<1> HIDE DEF w, m2, new
<1>9. m2.lastBackwash \in Int /\ new.lastBackwash \in Int
  BY <1>2, <1>4 DEF OfOnePiece, Record
<1>10. CASE f.running
  <2>1. OfOnePiece(mem)' /\ WindowTyped(window)'
    BY <1>1, <1>2, <1>3, <1>6, <1>10 DEF OfOnePiece, WindowTyped
  <2>2. mem'.lastBackwash >= mem.lastBackwash
    BY <1>2, <1>6, <1>9, <1>10
  <2>3. ~saving' => mem' = [mem EXCEPT !.offset = mem'.offset]
    BY <1>2, <1>6, <1>10
  <2>. QED  BY <1>1, <1>6, <1>8, <1>10, <2>1, <2>2, <2>3
<1>11. CASE ~f.running
  <2>1. OfOnePiece(mem)' /\ WindowTyped(window)'
    <3>1. WindowTyped(NoWindow)
      BY NoWindowTyped
    <3>. QED  BY <1>1, <1>4, <1>7, <1>11, <3>1 DEF OfOnePiece, WindowTyped
  <2>2. mem'.lastBackwash >= mem.lastBackwash
    BY <1>2, <1>4, <1>5, <1>7, <1>9, <1>11
  <2>3. ~saving' => mem' = [mem EXCEPT !.offset = mem'.offset]
    BY <1>2, <1>4, <1>7, <1>11
  <2>. QED  BY <1>1, <1>7, <1>8, <1>11, <2>1, <2>2, <2>3
<1>. QED  BY <1>10, <1>11

\* A date that is typed in is of one piece with the rest, and so is one taken back.
LEMMA TypedInEffect ==
  ASSUME NEW m, OfOnePiece(m), NEW t \in Entries, now \in Nat
  PROVE  OfOnePiece([m EXCEPT !.lastScheduled = t, !.source = "typed",
                              !.day = None, !.restartDay = None])
<1> DEFINE new == [m EXCEPT !.lastScheduled = t, !.source = "typed",
                            !.day = None, !.restartDay = None]
<1>1. m \in Record /\ t \in Int /\ t # None /\ None \in Int
  BY NoneAssumption, ClockAssumption DEF OfOnePiece, NoneAssumption, ClockAssumption
<1>2. /\ new \in Record /\ new.lastScheduled = t /\ new.source = "typed" /\ new.day = None
      /\ new.lastBackwash = m.lastBackwash /\ new.lastManual = m.lastManual
  BY <1>1 DEF Record, Sources
<1> HIDE DEF new
<1>3. OfOnePiece(new)
  BY <1>1, <1>2 DEF OfOnePiece
<1>. QED  BY <1>3 DEF new

LEMMA ClearedEffect ==
  ASSUME NEW m, OfOnePiece(m), NEW g \in Triggers
  PROVE  OfOnePiece([m EXCEPT !.lastScheduled = None, !.source = "none", !.day = None,
                              !.trigger = g])
<1> DEFINE new == [m EXCEPT !.lastScheduled = None, !.source = "none", !.day = None,
                            !.trigger = g]
<1>1. m \in Record /\ None \in Int
  BY NoneAssumption DEF OfOnePiece, NoneAssumption
<1>2. /\ new \in Record /\ new.lastScheduled = None /\ new.source = "none" /\ new.day = None
      /\ new.lastBackwash = m.lastBackwash /\ new.lastManual = m.lastManual
  BY <1>1 DEF Record, Sources
<1> HIDE DEF new
<1>3. OfOnePiece(new)
  BY <1>1, <1>2 DEF OfOnePiece
<1>. QED  BY <1>3 DEF new

LEMMA RecordInit == Init => RecordInv
<1> SUFFICES ASSUME Init PROVE RecordInv
  OBVIOUS
<1>1. Clocks
  <2>1. now = 0 /\ MaxTime \in Nat /\ phase \in Int
    BY ClockAssumption DEF Init, ClockAssumption
  <2>2. 0 \in 0..MaxTime
    BY <2>1
  <2>3. /\ up \in BOOLEAN /\ loading \in BOOLEAN /\ saving \in BOOLEAN
        /\ blind \in BOOLEAN /\ misled \in BOOLEAN
    BY DEF Init
  <2>4. schedule \in Schedules /\ relay = "off" /\ skew \in Skews
    BY DEF Init
  <2>. QED  BY <2>1, <2>2, <2>3, <2>4 DEF Clocks
<1>2. OfOnePiece(Empty) /\ WindowTyped(NoWindow)
  BY <1>1, EmptyOfOnePiece, NoWindowTyped DEF Clocks
<1>. QED  BY <1>1, <1>2 DEF Init, RecordInv, Recorded, Flags, Saved, NotBehind, EntrySafe, Alive
LEMMA RecordStep == RecordInv /\ [Next]_vars => RecordInv'
<1> SUFFICES ASSUME RecordInv, [Next]_vars PROVE RecordInv'
  OBVIOUS
<1> USE DEF RecordInv
<1>1. /\ now \in Nat /\ now \in 0..MaxTime /\ MaxTime \in Nat /\ mem \in Record
      /\ disk \in Record
  BY ClockAssumption DEF Clocks, Recorded, OfOnePiece, ClockAssumption
\* What the unit and the people at it do leaves the tracker alone.
<1>2. ASSUME UNCHANGED <<mem, disk, window, up, loading, saving, opened, typed, blind>>,
             Clocks', now' >= now
      PROVE  RecordInv'
  <2>1. now' \in Nat
    BY <1>1, <1>2 DEF Clocks
  <2>2. OfOnePiece(mem)' /\ OfOnePiece(disk)' /\ WindowTyped(window)'
    <3>1. PICK m, d, w : m = mem /\ d = disk /\ w = window
      OBVIOUS
    <3>2. OfOnePiece(m)' /\ OfOnePiece(d)' /\ WindowTyped(w)'
      BY <1>1, <1>2, <2>1, <3>1, OfOnePieceLater, WindowTypedLater DEF Recorded
    <3>. QED  BY <1>2, <3>1, <3>2 DEF OfOnePiece, WindowTyped
  <2>. QED  BY <1>2, <2>2 DEF Recorded, Flags, Saved, NotBehind, EntrySafe, Alive
<1>3. CASE Tick
  <2>1. Clocks' /\ now' >= now
    BY <1>1, <1>3 DEF Tick, Clocks, unit, store, history
  <2>. QED  BY <1>2, <1>3, <2>1 DEF Tick, unit, store, history
<1>4. CASE OwnCycle
  <2>1. Clocks' /\ now' >= now
    BY <1>1, <1>4 DEF OwnCycle, Clocks, store
  <2>. QED  BY <1>2, <1>4, <2>1 DEF OwnCycle, store
<1>5. CASE ByHand
  <2>1. Clocks' /\ now' >= now
    BY <1>1, <1>5 DEF ByHand, Clocks, store, history
  <2>. QED  BY <1>2, <1>5, <2>1 DEF ByHand, store, history
<1>6. CASE ValveCloses
  <2>1. Clocks' /\ now' >= now
    BY <1>1, <1>6 DEF ValveCloses, Clocks, store
  <2>. QED  BY <1>2, <1>6, <2>1 DEF ValveCloses, store
<1>7. ASSUME NEW s \in Schedules, ChangeSchedule(s) PROVE RecordInv'
  <2>1. skew \in Int
    BY NoneIsLow DEF Clocks
  <2>2. DayOf(UnitNow) \in Int
    BY <1>1, <2>1, DayBounds DEF UnitNow
  <2>3. Clocks' /\ now' >= now
    BY <1>1, <1>7, <2>2 DEF ChangeSchedule, Clocks, store
  <2>. QED  BY <1>2, <1>7, <2>3 DEF ChangeSchedule, store
<1>8. ASSUME NEW s \in Skews, SetUnitClock(s) PROVE RecordInv'
  <2>1. Clocks' /\ now' >= now
    BY <1>1, <1>8 DEF SetUnitClock, Clocks, store, history
  <2>. QED  BY <1>2, <1>8, <2>1 DEF SetUnitClock, store, history
<1>9. CASE FirstFrame
  <2>1. Clocks'
    BY <1>9 DEF FirstFrame, Clocks, unit, store, history
  <2>2. OfOnePiece(Empty) /\ WindowTyped(NoWindow)
    BY <1>1, EmptyOfOnePiece, NoWindowTyped
  <2>3. Recorded'
    BY <1>9, <2>2 DEF FirstFrame, Recorded, OfOnePiece, WindowTyped, store
  <2>4. Flags'
    BY <1>9 DEF FirstFrame, Flags, unit, store, history
  <2>. QED  BY <1>9, <2>1, <2>3, <2>4 DEF FirstFrame, Saved, NotBehind, EntrySafe, Alive, store, history
<1>10. ASSUME NEW f \in FrameNow, Frame(f) PROVE RecordInv'
  <2>1. /\ OfOnePiece(mem)' /\ WindowTyped(window)'
        /\ mem'.lastBackwash >= mem.lastBackwash
        /\ saving' \in BOOLEAN /\ misled' \in BOOLEAN
        /\ saving => saving'
        /\ ~saving' => mem' = [mem EXCEPT !.offset = mem'.offset]
        /\ typed' # None => typed' = typed /\ mem'.lastScheduled = mem.lastScheduled
    BY <1>10, FrameEffect
  <2>2. /\ up /\ ~loading /\ disk' = disk
        /\ UNCHANGED <<now, schedule, phase, relay, since, skew, up, loading, blind>>
    BY <1>10 DEF Frame, unit
  <2>3. Clocks'
    BY <2>1, <2>2 DEF Clocks
  <2>4. Recorded'
    BY <2>1, <2>2 DEF Recorded, OfOnePiece
  <2>5. Flags'
    BY <2>2 DEF Flags
  <2>6. Saved'
    <3> SUFFICES ASSUME Alive', ~saving' PROVE disk' = [mem' EXCEPT !.offset = disk'.offset]
      BY DEF Saved
    <3>1. disk = [mem EXCEPT !.offset = disk.offset]
      BY <1>1, <2>1, <2>2 DEF Saved, Alive
    <3>2. PICK o : mem' = [mem EXCEPT !.offset = o]
      BY <2>1
    <3>. QED  BY <1>1, <2>2, <3>1, <3>2 DEF Record
  <2>7. NotBehind'
    <3>1. mem.lastBackwash \in Int /\ disk.lastBackwash \in Int
      BY <1>1 DEF Record
    <3>2. mem'.lastBackwash \in Int
      BY <2>4 DEF Recorded, OfOnePiece, Record
    <3>. QED  BY <2>1, <2>2, <3>1, <3>2 DEF NotBehind, Alive
  <2>8. EntrySafe'
    BY <2>1, <2>2 DEF EntrySafe, Alive
  <2>. QED  BY <2>3, <2>4, <2>5, <2>6, <2>7, <2>8
<1>11. CASE Load
  <2>1. ~saving
    BY <1>11 DEF Load, Flags
  <2>2. /\ up /\ loading' = FALSE /\ mem' = disk
        /\ UNCHANGED <<now, schedule, phase, relay, since, skew, window, up, saving, disk,
                       typed, blind, misled, opened>>
    BY <1>11 DEF Load, unit, store, history
  <2>3. Clocks'
    BY <2>2 DEF Clocks
  <2>4. Recorded'
    BY <2>2 DEF Recorded, OfOnePiece, WindowTyped
  <2>5. Flags'
    BY <2>2, <2>1 DEF Flags
  <2>6. Saved'
    BY <1>1, <2>2 DEF Saved, Record
  <2>7. NotBehind'
    BY <1>1, <2>2 DEF NotBehind, Record
  <2>8. EntrySafe'
    BY <2>1, <2>2 DEF EntrySafe
  <2>. QED  BY <2>3, <2>4, <2>5, <2>6, <2>7, <2>8
<1>12. CASE LoadError
  <2>1. /\ up /\ loading' = FALSE /\ blind' = TRUE
        /\ UNCHANGED <<now, schedule, phase, relay, since, skew, mem, window, up, saving, disk,
                       typed, misled, opened>>
    BY <1>12 DEF LoadError, unit, store
  <2>2. Clocks' /\ Recorded'
    <3>1. Clocks'
      BY <2>1 DEF Clocks
    <3>2. Recorded'
      BY <2>1 DEF Recorded, OfOnePiece, WindowTyped
    <3>. QED  BY <3>1, <3>2
  <2>3. Flags'
    BY <1>12, <2>1 DEF LoadError, Flags
  <2>. QED  BY <2>1, <2>2, <2>3 DEF Saved, NotBehind, EntrySafe, Alive
<1>13. CASE Save
  <2>1. ~loading
    BY <1>13 DEF Save, Flags
  <2>2. /\ up /\ saving' = FALSE /\ disk' = mem
        /\ typed' = IF blind /\ mem.lastScheduled # typed THEN None ELSE typed
        /\ UNCHANGED <<now, schedule, phase, relay, since, skew, mem, window, up, loading,
                       blind, misled, opened>>
    BY <1>13, <2>1 DEF Save, unit
  <2>3. Clocks' /\ Recorded'
    BY <2>2 DEF Clocks, Recorded, OfOnePiece, WindowTyped
  <2>4. Flags'
    BY <2>2 DEF Flags
  <2>5. Saved' /\ NotBehind'
    BY <1>1, <2>2 DEF Saved, NotBehind, Record
  <2>6. EntrySafe'
    BY <2>1, <2>2 DEF EntrySafe, Alive
  <2>. QED  BY <2>3, <2>4, <2>5, <2>6
<1>14. CASE Restart
  <2>1. Clocks'
    BY <1>14 DEF Restart, Clocks, unit
  <2>2. OfOnePiece(Empty) /\ WindowTyped(NoWindow)
    BY <1>1, EmptyOfOnePiece, NoWindowTyped
  <2>3. Recorded'
    BY <1>14, <2>2 DEF Restart, Recorded, OfOnePiece, WindowTyped
  <2>4. Flags'
    BY <1>14 DEF Restart, Flags
  <2>. QED  BY <1>14, <2>1, <2>3, <2>4 DEF Restart, Saved, NotBehind, EntrySafe, Alive
<1>15. ASSUME NEW t \in Entries, TypeIn(t) PROVE RecordInv'
  <2>1. /\ up /\ ~loading /\ saving' = TRUE /\ typed' = t /\ misled' = TRUE
        /\ mem' = [mem EXCEPT !.lastScheduled = t, !.source = "typed",
                              !.day = None, !.restartDay = None]
        /\ UNCHANGED <<now, schedule, phase, relay, since, skew, window, up, loading, disk,
                       blind, opened>>
    BY <1>15 DEF TypeIn, AcceptsEntry, unit
  <2>2. OfOnePiece(mem)'
    <3>1. PICK m : m = mem
      OBVIOUS
    <3>2. OfOnePiece([m EXCEPT !.lastScheduled = t, !.source = "typed",
                               !.day = None, !.restartDay = None])
      BY <1>1, <3>1, TypedInEffect DEF Recorded
    <3>. QED  BY <2>1, <3>1, <3>2 DEF OfOnePiece
  <2>3. Clocks'
    BY <2>1 DEF Clocks
  <2>4. Recorded'
    BY <2>1, <2>2 DEF Recorded, OfOnePiece, WindowTyped
  <2>5. Flags'
    BY <2>1 DEF Flags
  <2>6. mem'.lastScheduled = t /\ mem'.lastBackwash = mem.lastBackwash
    BY <1>1, <2>1 DEF Record
  <2>. QED  BY <2>1, <2>3, <2>4, <2>5, <2>6 DEF Saved, NotBehind, EntrySafe, Alive
<1>16. CASE Clear
  <2> DEFINE g == IF mem.trigger = "scheduled" /\ mem.lastManual = None
                  THEN "none" ELSE mem.trigger
  <2>1. /\ up /\ ~loading /\ saving' = TRUE /\ typed' = None
        /\ mem' = [mem EXCEPT !.lastScheduled = None, !.source = "none", !.day = None,
                              !.trigger = g]
        /\ UNCHANGED <<now, schedule, phase, relay, since, skew, window, up, loading, disk,
                       blind, opened>>
        /\ misled' = TRUE
    BY <1>16 DEF Clear, AcceptsEntry, unit
  <2>2. g \in Triggers
    BY <1>1 DEF Record, Triggers
  <2> HIDE DEF g
  <2>3. OfOnePiece(mem)'
    <3>1. PICK m, h : m = mem /\ h = g
      OBVIOUS
    <3>2. OfOnePiece([m EXCEPT !.lastScheduled = None, !.source = "none", !.day = None,
                               !.trigger = h])
      BY <2>2, <3>1, ClearedEffect DEF Recorded
    <3>. QED  BY <2>1, <3>1, <3>2 DEF OfOnePiece
  <2>4. Clocks'
    BY <2>1 DEF Clocks
  <2>5. Recorded'
    BY <2>1, <2>3 DEF Recorded, OfOnePiece, WindowTyped
  <2>6. Flags'
    BY <2>1 DEF Flags
  <2>7. mem'.lastBackwash = mem.lastBackwash
    BY <1>1, <2>1 DEF Record
  <2>. QED  BY <2>1, <2>4, <2>5, <2>6, <2>7 DEF Saved, NotBehind, EntrySafe, Alive
<1>17. CASE UNCHANGED vars
  <2>1. Clocks' /\ now' >= now
    BY <1>1, <1>17 DEF vars, Clocks, unit, store, history
  <2>. QED  BY <1>2, <1>17, <2>1 DEF vars, unit, store, history
<1>. QED
  BY <1>3, <1>4, <1>5, <1>6, <1>7, <1>8, <1>9, <1>10, <1>11, <1>12, <1>13, <1>14, <1>15,
     <1>16, <1>17 DEF Next
LEMMA RecordAlways == Spec => []RecordInv
BY RecordInit, RecordStep, PTL DEF Spec

LEMMA RecordGivesType == RecordInv => TypeOK
<1> SUFFICES ASSUME RecordInv PROVE TypeOK
  OBVIOUS
<1>1. now \in 0..MaxTime /\ now \in Nat /\ relay \in {"off", "own", "hand"}
  BY ClockAssumption DEF RecordInv, Clocks, ClockAssumption
<1>2. mem \in Record /\ OfOnePiece(mem) /\ WindowTyped(window)
  BY DEF RecordInv, Recorded, OfOnePiece
<1>3. mem.trigger \in Triggers /\ mem.source \in Sources /\ mem.lastBackwash \in Int
  BY <1>2 DEF Record
<1>4. mem.lastBackwash <= now
  BY <1>1, <1>2, <1>3, NoneIsLow DEF OfOnePiece
<1>5. window.since <= now
  BY <1>1, <1>2, NoneIsLow DEF WindowTyped
<1>. QED
  BY <1>1, <1>2, <1>3, <1>4, <1>5
  DEF TypeOK, Triggers, Sources, OfOnePiece, WindowTyped, RecordInv, Flags

\* The record is of one piece in every state: what is known of the last scheduled
\* cycle comes with its source, nothing recorded lies ahead of Home Assistant's
\* clock, and only a tracker that is there loads or saves (BackwashTracker).
THEOREM RecordIsOfOnePiece == Spec => []TypeOK
BY RecordAlways, RecordGivesType, PTL

\* Every change of the record is followed by a save: when none is due, the file
\* and the tracker agree on all but the offset (async_save and its callers).
THEOREM FileKeepsUp == Spec => []DiskMatches
<1>1. RecordInv => DiskMatches
  BY RecordGivesType DEF RecordInv, Saved, Alive, DiskMatches
<1>. QED  BY <1>1, RecordAlways, PTL

\* A typed-in date outlives every restart after its save, unless a cycle, another
\* entry or a file that could not be read takes its place
\* (set_last_scheduled_backwash, async_load).
THEOREM TypedDateStays == Spec => []EntryIsNotLost
<1>1. RecordInv => EntryIsNotLost
  BY DEF RecordInv, EntrySafe, Alive, EntryIsNotLost
<1>. QED  BY <1>1, RecordAlways, PTL

\* No save puts an older history in the place of the one on file, when that could
\* be read: the tracker does not save before it has loaded (async_save, _loading).
THEOREM FileNeverGoesBack == Spec => HistoryKept
<1>1. RecordInv /\ [Next]_vars => [~blind => disk'.lastBackwash >= disk.lastBackwash]_disk
  <2> SUFFICES ASSUME RecordInv, Next, disk' # disk, ~blind
               PROVE  disk'.lastBackwash >= disk.lastBackwash
    BY DEF vars, store
  <2>1. Save
    <3>1. ~Tick /\ ~OwnCycle /\ ~ByHand /\ ~ValveCloses /\ ~FirstFrame /\ ~Load /\ ~LoadError
          /\ ~Restart /\ ~Clear
      BY DEF Tick, OwnCycle, ByHand, ValveCloses, FirstFrame, Load, LoadError, Restart, Clear,
             store
    <3>2. /\ \A s \in Schedules : ~ChangeSchedule(s)
          /\ \A s \in Skews : ~SetUnitClock(s)
          /\ \A f \in FrameNow : ~Frame(f)
          /\ \A t \in Entries : ~TypeIn(t)
      BY DEF ChangeSchedule, SetUnitClock, Frame, TypeIn, store
    <3>. QED  BY <3>1, <3>2 DEF Next
  <2>2. disk' = mem /\ Alive
    BY <2>1 DEF Save, RecordInv, Flags, Alive
  <2>. QED  BY <2>2 DEF RecordInv, NotBehind
<1>. QED  BY <1>1, RecordAlways, PTL DEF Spec, HistoryKept
-----------------------------------------------------------------------------
(* The unit's cycles *)

OnPhase(d) == (d - phase) % schedule[2] = 0

\* The unit runs on its own at its set time, on a day of its phase.
RunsItsSchedule ==
  ran # None =>
    /\ relay = "own" /\ ran \in Int /\ None < ran
    /\ ran % Day = schedule[1] /\ schedule[2] > 0 /\ OnPhase(DayOf(ran))

\* A window whose cycle was seen to begin keeps the offset it began with, and that
\* places its start at the slot, whatever is done to the clock meanwhile.
SlotWasSeen ==
  opened.slot # None =>
    /\ opened.slot \in Int /\ None < opened.slot
    /\ opened.schedule \in Schedules /\ opened.schedule[2] > 0
    /\ opened.slot % Day = opened.schedule[1]
    /\ window.since # None /\ window.offset # None
    /\ Abs((window.since + window.offset) - opened.slot) <= OffsetTol
    /\ opened.schedule = schedule /\ ~misled => OnPhase(DayOf(opened.slot))

\* What a record says of the days the unit runs on is so.
InPhase(m) ==
  ~misled =>
    /\ m.seen = NoSchedule => m.lastScheduled = None /\ m.restartDay = None
    /\ m.lastScheduled # None => m.day # None
    /\ m.trigger = "none" => m.lastBackwash = None
    /\ m.seen = schedule /\ schedule[2] > 0 =>
         IF m.restartDay # None THEN OnPhase(m.restartDay)
         ELSE m.lastScheduled # None => OnPhase(m.day)

\* The offset of the window is the one its first frame told of.
OffsetWasTold == window.since # None => window.offset = opened.told

CycleInv ==
  RunsItsSchedule /\ SlotWasSeen /\ OffsetWasTold /\ InPhase(mem) /\ InPhase(disk)

LEMMA DayIsThere ==
  ASSUME NEW t \in Int, None < t PROVE DayOf(t) # None
<1>1. Day \in Nat \ {0} /\ None \in Int /\ None < 0
  BY DayAssumption, NoneIsLow DEF DayAssumption
<1>2. PICK d \in Int : d = DayOf(t) /\ d * Day <= t /\ t < d * Day + Day
  BY DayBounds
<1>3. CASE d >= 0
  BY <1>1, <1>2, <1>3
<1>4. CASE d < 0
  <2>1. t < (d + 1) * Day
    BY <1>1, <1>2
  <2>2. (d + 1) * Day <= d + 1
    <3>1. PICK e \in Nat : d + 1 = -e
      <4>1. -(d + 1) \in Nat /\ d + 1 = -(-(d + 1))
        BY <1>4
      <4>. QED  BY <4>1
    <3>2. e * Day >= e
      BY <1>1
    <3>3. (d + 1) * Day = -(e * Day)
      BY <1>1, <3>1
    <3>. QED  BY <1>1, <1>2, <3>1, <3>2, <3>3
  <2>3. (d + 1) * Day \in Int
    BY <1>1, <1>2
  <2>. QED  BY <1>1, <1>2, <2>1, <2>2, <2>3
<1>. QED  BY <1>2, <1>3, <1>4

LEMMA SlotOfItsDay ==
  ASSUME NEW t \in Int, NEW at \in TimesOfDay, t % Day = at
  PROVE  DayOf(t) \in Int /\ t = Slot(DayOf(t), at)
<1>1. Day \in Nat \ {0}
  BY DayAssumption DEF DayAssumption
<1>2. t \div Day \in Int /\ t = Day * (t \div Day) + (t % Day)
  BY <1>1, Division
<1>3. Day * (t \div Day) = (t \div Day) * Day
  BY <1>1, <1>2
<1>. QED  BY <1>2, <1>3 DEF Slot, DayOf

\* A window opened at a slot is filed under that slot.
LEMMA SlotIsFound ==
  ASSUME RecordInv, CycleInv, NEW f \in FrameNow, f.schedule = opened.schedule,
         opened.slot # None
  PROVE  Verdict(f, window) = "scheduled" /\ SlotOf(f, window) = opened.slot
<1> DEFINE at == Time(f)
           t == window.since + window.offset
           d == DayOf(opened.slot)
<1>1. /\ opened.slot \in Int /\ opened.schedule \in Schedules /\ opened.schedule[2] > 0
      /\ opened.slot % Day = opened.schedule[1]
      /\ window.since # None /\ window.offset # None
      /\ Abs((window.since + window.offset) - opened.slot) <= OffsetTol
  BY DEF CycleInv, SlotWasSeen
<1>2. /\ at \in TimesOfDay /\ f.schedule # NoSchedule /\ f.schedule[2] > 0
      /\ opened.slot % Day = at
  BY <1>1, NoneIsLow DEF Time
<1>3. window.since \in Int /\ window.offset \in Int
  BY NoneIsLow DEF RecordInv, Recorded, WindowTyped
<1>4. d \in Int /\ opened.slot = Slot(d, at)
  BY <1>1, <1>2, SlotOfItsDay
<1>5. t \in Int
  BY <1>3
<1> HIDE DEF d, at
<1>6. Abs(t - Slot(d, at)) <= OffsetTol
  <2>1. Abs(t - opened.slot) <= OffsetTol
    BY <1>1
  <2> HIDE DEF t
  <2>. QED  BY <1>4, <2>1, Zenon
<1> HIDE DEF t
<1>7. NearestSlot(t, at) = opened.slot
  BY <1>2, <1>4, <1>5, <1>6, NearestIs
<1>8. Abs(t - NearestSlot(t, at)) <= OffsetTol
  BY <1>4, <1>6, <1>7
<1>9. Verdict(f, window) = "scheduled"
  BY <1>1, <1>2, <1>8 DEF Verdict, Classify, WithinTolerance, HasSchedule, Interval, t, at
<1>10. SlotOf(f, window) = opened.slot
  BY <1>1, <1>7 DEF SlotOf, OnUnitClock, t, at
<1>. QED  BY <1>9, <1>10
\* What a frame learns: nothing on the days the unit runs, or, from a window it
\* closes, what the verdict on that window says.
LEMMA FrameLearns ==
  ASSUME RecordInv, CycleInv, NEW f \in FrameNow, Frame(f)
  PROVE  /\ mem'.seen = Noted(f).seen
         /\ mem'.restartDay \in {None, Noted(f).restartDay}
         /\ mem'.lastBackwash # mem.lastBackwash =>
              /\ AfterGap(window) = window /\ mem'.trigger = Verdict(f, window)
              /\ Verdict(f, window) = "scheduled" =>
                   /\ mem'.lastScheduled = SlotOf(f, window)
                   /\ mem'.day = DayOf(SlotOf(f, window))
              /\ Verdict(f, window) # "scheduled" =>
                   /\ mem'.lastScheduled = Filled(f).lastScheduled
                   /\ mem'.day = Filled(f).day
                   /\ mem'.restartDay = Noted(f).restartDay
         /\ mem'.lastBackwash = mem.lastBackwash => mem' = Filled(f)
<1> DEFINE w == AfterGap(window)
           m2 == Filled(f)
           new == RecordWindow(m2, f, w)
<1>1. now \in Nat /\ FrameTyped(f)
  BY FrameNowTyped DEF RecordInv, Clocks
<1>2. /\ OfOnePiece(m2) /\ m2.lastBackwash = mem.lastBackwash
      /\ m2.seen = Noted(f).seen /\ m2.restartDay = Noted(f).restartDay
  BY FilledEffect
<1>3. WindowTyped(w) /\ w \in {window, NoWindow}
  BY WindowEffect
<1>4. m2.lastBackwash \in Int
  BY <1>2 DEF OfOnePiece, Record
<1>5. CASE f.running
  <2>1. mem' = m2
    BY <1>5 DEF Frame, Filled, Noted
  <2>. QED  BY <1>2, <2>1
<1>6. CASE ~f.running
  <2>1. mem' = new
    BY <1>6 DEF Frame, Filled, Noted
  <2>2. CASE ~Recordable(m2, w)
    <3>1. new = m2
      BY <2>2 DEF RecordWindow
    <3>. QED  BY <1>2, <2>1, <3>1
  <2>3. CASE Recordable(m2, w)
    <3>1. /\ new.seen = m2.seen
          /\ new.lastBackwash = Midpoint(w) /\ Midpoint(w) \in 0..now
          /\ m2.lastBackwash < Midpoint(w)
          /\ new.trigger = Verdict(f, w)
          /\ Verdict(f, w) = "scheduled" =>
               /\ new.lastScheduled = SlotOf(f, w) /\ new.day = DayOf(SlotOf(f, w))
               /\ new.restartDay \in {None, m2.restartDay}
          /\ Verdict(f, w) # "scheduled" =>
               /\ new.lastScheduled = m2.lastScheduled /\ new.day = m2.day
               /\ new.restartDay = m2.restartDay
      BY <1>1, <1>2, <1>3, <2>3, RecordWindowEffect
    <3>2. w.since # None /\ NoWindow.since = None
      BY <2>3 DEF Recordable, NoWindow
    <3>3. w = window
      BY <1>3, <3>2
    <3>4. new.lastBackwash # mem.lastBackwash
      BY <1>2, <1>4, <3>1
    <3>5. /\ new.seen = Noted(f).seen /\ new.restartDay \in {None, Noted(f).restartDay}
      BY <1>2, <3>1
    <3> HIDE DEF new, w, m2
    <3>6. /\ new.trigger = Verdict(f, window)
          /\ Verdict(f, window) = "scheduled" =>
               /\ new.lastScheduled = SlotOf(f, window)
               /\ new.day = DayOf(SlotOf(f, window))
          /\ Verdict(f, window) # "scheduled" =>
               /\ new.lastScheduled = m2.lastScheduled /\ new.day = m2.day
               /\ new.restartDay = Noted(f).restartDay
      BY <1>2, <3>1, <3>3
    <3>. QED  BY <2>1, <3>3, <3>4, <3>5, <3>6 DEF w, m2
  <2>. QED  BY <2>2, <2>3
<1>. QED  BY <1>5, <1>6

\* A cycle whose opening was seen is recognised as the schedule's own.
LEMMA OwnCycleStep ==
  ASSUME RecordInv, CycleInv, NEW f \in FrameNow, Frame(f),
         opened.slot # None, mem'.lastBackwash # mem.lastBackwash,
         f.schedule = opened.schedule
  PROVE  /\ mem'.trigger = "scheduled" /\ mem'.lastScheduled = opened.slot
         /\ mem'.day = DayOf(opened.slot)
<1>1. Verdict(f, window) = "scheduled" /\ SlotOf(f, window) = opened.slot
  BY SlotIsFound
<1>. QED  BY <1>1, FrameLearns
LEMMA EmptyInPhase == InPhase(Empty)
<1>1. /\ Empty.seen = NoSchedule /\ Empty.lastScheduled = None /\ Empty.restartDay = None
      /\ Empty.trigger = "none" /\ Empty.lastBackwash = None
  BY DEF Empty
<1>. QED  BY <1>1 DEF InPhase

LEMMA CycleInit == Init => CycleInv
<1> SUFFICES ASSUME Init PROVE CycleInv
  OBVIOUS
<1>1. /\ ran = None /\ opened.slot = None /\ mem = Empty /\ disk = Empty
      /\ window.since = None
  BY DEF Init, NotOpened, NoWindow
<1>. QED  BY <1>1, EmptyInPhase DEF CycleInv, RunsItsSchedule, SlotWasSeen, OffsetWasTold

\* An open window seen from its beginning is one the unit had just opened.
LEMMA OpeningIsSeen ==
  ASSUME RecordInv, CycleInv, NEW f \in FrameNow, Frame(f)
  PROVE  SlotWasSeen'
<1> DEFINE w == AfterGap(window)
           m2 == Filled(f)
<1> SUFFICES ASSUME opened'.slot # None
             PROVE  /\ opened'.slot \in Int /\ None < opened'.slot
                    /\ opened'.schedule \in Schedules /\ opened'.schedule[2] > 0
                    /\ opened'.slot % Day = opened'.schedule[1]
                    /\ window'.since # None /\ window'.offset # None
                    /\ Abs((window'.since + window'.offset) - opened'.slot) <= OffsetTol
                    /\ opened'.schedule = schedule' /\ ~misled' => OnPhase(DayOf(opened.slot))'
  BY DEF SlotWasSeen
<1>1. /\ WindowTyped(window) /\ now \in Nat /\ skew \in Int /\ None < skew /\ None \in Int
      /\ schedule \in Schedules /\ None < 0
  <2>1. now \in Nat /\ skew \in Skews /\ WindowTyped(window) /\ schedule \in Schedules
    BY DEF RecordInv, Clocks, Recorded
  <2>2. skew \in Int /\ None < skew - 2 * Day /\ Day \in Nat
    BY <2>1, NoneIsLow, DayAssumption DEF DayAssumption
  <2>. QED  BY <2>1, <2>2, NoneIsLow
<1>2. w \in {window, NoWindow} /\ NoWindow.since = None
  BY DEF AfterGap, NoWindow
<1>3. /\ schedule' = schedule /\ phase' = phase /\ skew' = skew
      /\ (~misled' => ~misled)
  BY DEF Frame, unit
<1>4. f.running
  BY DEF Frame, NotOpened
<1>5. /\ window' = Open(m2, f, w)
      /\ opened' = IF w.since = None THEN Witness(f) ELSE opened
  BY <1>4 DEF Frame, Filled, Noted
<1> HIDE DEF w, m2
<1>6. CASE w.since = None
  <2>1. opened' = Witness(f)
    BY <1>5, <1>6
  <2>2. /\ ran # None /\ f.clock /\ HasSchedule(f) /\ Abs(UnitNow - ran) <= OffsetTol
        /\ opened'.slot = ran /\ opened'.schedule = f.schedule
    BY <2>1 DEF Witness
  <2>3. f.schedule = schedule
    BY <2>2, FrameNowTyped DEF HasSchedule
  <2>4. /\ ran \in Int /\ None < ran /\ ran % Day = schedule[1] /\ schedule[2] > 0
        /\ OnPhase(DayOf(ran))
    BY <2>2 DEF CycleInv, RunsItsSchedule
  <2>5. window'.since = now /\ window'.offset = skew
    BY <1>5, <1>6, <2>2 DEF Open
  <2>6. now # None /\ skew # None
    BY <1>1
  <2>7. Abs((now + skew) - ran) <= OffsetTol
    BY <2>2 DEF UnitNow
  <2>8. OnPhase(DayOf(opened.slot))'
    BY <1>3, <2>2, <2>4 DEF OnPhase, DayOf
  <2>. QED  BY <1>1, <1>3, <2>2, <2>3, <2>4, <2>5, <2>6, <2>7, <2>8
<1>7. CASE w.since # None
  <2>1. opened' = opened /\ w = window
    BY <1>2, <1>5, <1>7
  <2>2. window' = [window EXCEPT !.menu = window.menu \/ Menu(f)]
    BY <1>5, <1>7, <2>1 DEF Open
  <2>3. window'.since = window.since /\ window'.offset = window.offset
    BY <1>1, <2>2 DEF WindowTyped
  <2>4. /\ opened.slot \in Int /\ None < opened.slot
        /\ opened.schedule \in Schedules /\ opened.schedule[2] > 0
        /\ opened.slot % Day = opened.schedule[1]
        /\ window.since # None /\ window.offset # None
        /\ Abs((window.since + window.offset) - opened.slot) <= OffsetTol
        /\ opened.schedule = schedule /\ ~misled => OnPhase(DayOf(opened.slot))
    BY <2>1 DEF CycleInv, SlotWasSeen
  <2>5. opened'.schedule = schedule' /\ ~misled' => OnPhase(DayOf(opened.slot))'
    BY <1>3, <2>1, <2>4 DEF OnPhase, DayOf
  <2>. QED  BY <2>1, <2>3, <2>4, <2>5
<1>. QED  BY <1>6, <1>7

\* Unless it was misled, the tracker has no cycle without a verdict to go back to,
\* and a frame files the one it records.
LEMMA VerdictIsFiled ==
  ASSUME RecordInv, CycleInv, NEW f \in FrameNow, Frame(f), ~misled
  PROVE  /\ ~BackfillDue(Noted(f), f)
         /\ mem'.trigger = "none" => mem'.lastBackwash = None
<1>1. mem.trigger = "none" => mem.lastBackwash = None
  BY DEF CycleInv, InPhase
<1>2. Noted(f).trigger = mem.trigger /\ Noted(f).lastBackwash = mem.lastBackwash
  BY FilledEffect
<1>3. ~BackfillDue(Noted(f), f)
  BY <1>1, <1>2 DEF BackfillDue
<1>4. Filled(f) = Noted(f)
  BY <1>3, FilledEffect
<1>5. CASE mem'.lastBackwash = mem.lastBackwash
  <2>1. mem' = Noted(f)
    BY <1>4, <1>5, FrameLearns
  <2>. QED  BY <1>1, <1>2, <1>3, <2>1
<1>6. CASE mem'.lastBackwash # mem.lastBackwash
  <2>1. mem'.trigger = Verdict(f, window)
    BY <1>6, FrameLearns
  <2>2. mem'.trigger # "none"
    BY <2>1, ClassifyEffect DEF Verdict
  <2>. QED  BY <1>3, <2>2
<1>. QED  BY <1>5, <1>6

\* A change that was not kept from the tracker starts the schedule again on the
\* unit's own day.
LEMMA RestartIsSeen ==
  ASSUME RecordInv, CycleInv, NEW f \in FrameNow, Frame(f), ~misled, ~ChangeSeenLate(f),
         mem'.seen # mem.seen
  PROVE  mem'.restartDay = None \/ mem'.restartDay = phase
<1>1. mem.seen = NoSchedule => mem.restartDay = None
  BY DEF CycleInv, InPhase
<1>2. mem'.seen = Noted(f).seen /\ mem'.restartDay \in {None, Noted(f).restartDay}
  BY FrameLearns
<1>3. ScheduleChanged(mem, f)
  BY <1>2, FilledEffect
<1>4. CASE mem.seen = NoSchedule
  <2>1. Noted(f).restartDay = mem.restartDay
    BY <1>3, <1>4, FilledEffect
  <2>. QED  BY <1>1, <1>2, <1>4, <2>1
<1>5. CASE mem.seen # NoSchedule /\ Interval(f) > 0
  <2>1. Noted(f).restartDay = DayOf(OnUnitClock(now, f.offset)) + 1
    BY <1>3, <1>5, FilledEffect
  <2>2. phase = DayOf(UnitNow) + 1 /\ DayOf(OnUnitClock(now, f.offset)) = DayOf(UnitNow)
    BY <1>3, <1>5 DEF ChangeSeenLate
  <2>. QED  BY <1>2, <2>1, <2>2
<1>6. CASE mem.seen # NoSchedule /\ ~(Interval(f) > 0)
  <2>1. Noted(f).restartDay = None
    BY <1>3, <1>6, FilledEffect
  <2>. QED  BY <1>2, <2>1
<1>. QED  BY <1>4, <1>5, <1>6

\* What is filed as scheduled was seen to begin at its slot, when nothing else was
\* open there.
LEMMA CycleIsSeen ==
  ASSUME RecordInv, CycleInv, NEW f \in FrameNow, Frame(f), ~misled, ~LooksScheduled(f),
         \/ mem'.lastScheduled # mem.lastScheduled
         \/ mem'.trigger = "scheduled" /\ mem'.lastBackwash # mem.lastBackwash
  PROVE  /\ opened.slot # None /\ opened.schedule = schedule
         /\ mem'.lastBackwash # mem.lastBackwash
<1>1. ~BackfillDue(Noted(f), f)
  BY VerdictIsFiled
<1>2. Filled(f).lastScheduled = mem.lastScheduled /\ Filled(f).lastBackwash = mem.lastBackwash
  BY <1>1, FilledEffect
<1>3. mem'.lastBackwash # mem.lastBackwash
  <2>1. mem'.lastBackwash = mem.lastBackwash => mem' = Filled(f)
    BY FrameLearns
  <2>. QED  BY <1>2, <2>1
<1>4. AfterGap(window) = window /\ Verdict(f, window) = "scheduled"
  <2>1. /\ AfterGap(window) = window /\ mem'.trigger = Verdict(f, window)
        /\ Verdict(f, window) # "scheduled" => mem'.lastScheduled = Filled(f).lastScheduled
    BY <1>3, FrameLearns
  <2>. QED  BY <1>2, <2>1
<1>5. ~f.running /\ window.since # None
  <2>1. f.running => mem' = Filled(f)
    BY DEF Frame, Filled, Noted
  <2>2. ~f.running => mem' = RecordWindow(Filled(f), f, window)
    BY <1>4 DEF Frame, Filled, Noted
  <2>3. ~Recordable(Filled(f), window) => RecordWindow(Filled(f), f, window) = Filled(f)
    BY DEF RecordWindow
  <2>. QED  BY <1>2, <1>3, <2>1, <2>2, <2>3 DEF Recordable
<1>6. HasSchedule(f) /\ Interval(f) > 0
  BY <1>4, ClassifyEffect DEF Verdict
<1>7. Time(f) \in TimesOfDay
  <2>1. f.schedule \in Settings
    BY FrameNowTyped DEF FrameTyped
  <2>. QED  BY <1>6, <2>1, NoneIsLow DEF Settings, HasSchedule, Time
<1>8. window.since \in Int /\ window.offset \in Int /\ window.offset = opened.told
  BY <1>5, NoneIsLow DEF RecordInv, Recorded, WindowTyped, CycleInv, OffsetWasTold
<1> DEFINE seen == OnUnitClock(window.since, opened.told)
           tol == IF opened.told = None THEN WideTol ELSE OffsetTol
<1>9. seen \in Int
  BY <1>8 DEF OnUnitClock
<1>10. Abs(seen - NearestSlot(seen, Time(f))) <= tol
  BY <1>4, <1>8 DEF Verdict, Classify, WithinTolerance, OnUnitClock
<1>11. \E k \in {-1, 0, 1} : Abs(seen - Slot(DayOf(seen) + k, Time(f))) <= tol
  <2> HIDE DEF seen, tol
  <2>1. PICK k \in {-1, 0, 1} : NearestSlot(seen, Time(f)) = Slot(DayOf(seen) + k, Time(f))
    BY <1>7, <1>9, NearestOf
  <2>. QED  BY <1>10, <2>1
<1>12. ~(opened.slot = None \/ opened.schedule # schedule)
  BY <1>5, <1>6, <1>11 DEF LooksScheduled
<1>. QED  BY <1>3, <1>12

\* The frame that finds the valve open tells the offset its window keeps.
LEMMA OffsetIsTold ==
  ASSUME RecordInv, CycleInv, NEW f \in FrameNow, Frame(f)
  PROVE  OffsetWasTold'
<1> DEFINE w == AfterGap(window)
<1>1. CASE ~f.running
  <2>1. window' = NoWindow
    BY <1>1 DEF Frame
  <2>. QED  BY <2>1 DEF OffsetWasTold, NoWindow
<1>2. CASE f.running
  <2>1. /\ window' = Open(Filled(f), f, w)
        /\ opened' = IF w.since = None THEN Witness(f) ELSE opened
    BY <1>2 DEF Frame, Filled, Noted
  <2>2. w \in {window, NoWindow} /\ NoWindow.since = None
    BY DEF AfterGap, NoWindow
  <2> HIDE DEF w
  <2>3. CASE w.since = None
    <3>1. window'.offset = (IF f.clock THEN skew ELSE Filled(f).offset)
      BY <2>1, <2>3 DEF Open
    <3>2. opened'.told = (IF f.clock THEN skew ELSE f.offset)
      BY <2>1, <2>3 DEF Witness
    <3>3. Filled(f).offset = f.offset
      BY FilledEffect
    <3>. QED  BY <3>1, <3>2, <3>3 DEF OffsetWasTold
  <2>4. CASE w.since # None
    <3>1. w = window /\ opened' = opened
      BY <2>1, <2>2, <2>4
    <3>2. window' = [window EXCEPT !.menu = window.menu \/ Menu(f)]
      BY <2>1, <2>4, <3>1 DEF Open
    <3>3. window'.since = window.since /\ window'.offset = window.offset
      BY <3>2 DEF RecordInv, Recorded, WindowTyped
    <3>. QED  BY <2>4, <3>1, <3>3 DEF CycleInv, OffsetWasTold
  <2>. QED  BY <2>3, <2>4
<1>. QED  BY <1>1, <1>2

\* What a frame taught the tracker of the unit's days is so, or it was misled.
LEMMA LearnsThePhase ==
  ASSUME RecordInv, CycleInv, NEW f \in FrameNow, Frame(f), ~misled'
  PROVE  /\ mem'.seen = NoSchedule => mem'.lastScheduled = None /\ mem'.restartDay = None
         /\ mem'.lastScheduled # None => mem'.day # None
         /\ mem'.trigger = "none" => mem'.lastBackwash = None
         /\ mem'.seen = schedule /\ schedule[2] > 0 =>
              IF mem'.restartDay # None THEN OnPhase(mem'.restartDay)
              ELSE mem'.lastScheduled # None => OnPhase(mem'.day)
<1>1. /\ ~misled
      /\ mem'.seen # mem.seen => mem'.restartDay = None \/ mem'.restartDay = phase
      /\ \/ mem'.lastScheduled # mem.lastScheduled
         \/ mem'.trigger = "scheduled" /\ mem'.lastBackwash # mem.lastBackwash
         => /\ opened.slot # None /\ opened.schedule = schedule
            /\ mem'.lastBackwash # mem.lastBackwash
  BY RestartIsSeen, CycleIsSeen DEF Frame
<1>2. /\ mem.seen = NoSchedule => mem.lastScheduled = None /\ mem.restartDay = None
      /\ mem.lastScheduled # None => mem.day # None
      /\ mem.trigger = "none" => mem.lastBackwash = None
      /\ mem.seen = schedule /\ schedule[2] > 0 =>
           IF mem.restartDay # None THEN OnPhase(mem.restartDay)
           ELSE mem.lastScheduled # None => OnPhase(mem.day)
  BY <1>1 DEF CycleInv, InPhase
<1>3. schedule \in Schedules /\ schedule[2] \in Nat /\ schedule # NoSchedule /\ phase \in Int
  BY NoneIsLow DEF RecordInv, Clocks
<1>4. schedule[2] > 0 => OnPhase(phase)
  BY <1>3 DEF OnPhase
<1>5. f.schedule \in {schedule, NoSchedule}
  BY FrameNowTyped
<1>6. /\ mem'.seen = Noted(f).seen
      /\ mem'.restartDay \in {None, Noted(f).restartDay}
  BY FrameLearns
\* What was noted of the schedule
<1>7. Noted(f).seen \in {mem.seen, schedule}
  BY <1>5, FilledEffect DEF ScheduleChanged, HasSchedule
<1>8. ASSUME mem'.seen = schedule, schedule[2] > 0, mem'.restartDay # None
      PROVE  OnPhase(mem'.restartDay)
  <2>1. CASE ScheduleChanged(mem, f)
    <3>1. mem'.seen # mem.seen
      BY <1>6, <2>1, FilledEffect DEF ScheduleChanged
    <3>2. mem'.restartDay = phase
      BY <1>1, <1>8, <3>1
    <3>. QED  BY <1>4, <1>8, <3>2
  <2>2. CASE ~ScheduleChanged(mem, f)
    <3>1. Noted(f).seen = mem.seen /\ Noted(f).restartDay = mem.restartDay
      BY <2>2, FilledEffect
    <3>2. mem'.restartDay = mem.restartDay /\ mem.seen = schedule
      BY <1>6, <1>8, <3>1
    <3>. QED  BY <1>2, <1>8, <3>2
  <2>. QED  BY <2>1, <2>2
\* What is recorded has its verdict
<1>9. mem'.trigger = "none" => mem'.lastBackwash = None
  BY <1>1, VerdictIsFiled
\* A cycle was filed by its slot
<1> DEFINE filed == \/ mem'.lastScheduled # mem.lastScheduled
                    \/ mem'.trigger = "scheduled" /\ mem'.lastBackwash # mem.lastBackwash
<1>10. CASE filed
  <2>1. /\ opened.slot # None /\ opened.schedule = schedule
        /\ mem'.lastBackwash # mem.lastBackwash
    BY <1>1, <1>10
  <2>2. HasSchedule(f)
    <3> SUFFICES ASSUME ~HasSchedule(f) PROVE FALSE
      OBVIOUS
    <3>1. ~ScheduleChanged(mem, f) /\ ~BackfillDue(Noted(f), f)
      BY DEF ScheduleChanged, BackfillDue
    <3>2. Filled(f).lastScheduled = mem.lastScheduled
      BY <3>1, FilledEffect
    <3>3. Verdict(f, window) # "scheduled"
      BY ClassifyEffect DEF Verdict
    <3>4. mem'.lastScheduled = mem.lastScheduled /\ mem'.trigger # "scheduled"
      BY <2>1, <3>2, <3>3, FrameLearns
    <3>. QED  BY <1>10, <3>4
  <2>3. f.schedule = schedule
    BY <1>5, <2>2 DEF HasSchedule
  <2>4. mem'.lastScheduled = opened.slot /\ mem'.day = DayOf(opened.slot)
    BY <2>1, <2>3, OwnCycleStep
  <2>5. opened.slot \in Int /\ None < opened.slot /\ OnPhase(DayOf(opened.slot))
    BY <1>1, <2>1 DEF CycleInv, SlotWasSeen
  <2>6. mem'.day # None
    BY <2>4, <2>5, DayIsThere
  <2>7. mem'.seen # NoSchedule
    <3>1. CASE ScheduleChanged(mem, f)
      BY <1>3, <1>6, <2>3, <3>1, FilledEffect
    <3>2. CASE ~ScheduleChanged(mem, f)
      <4>1. mem.seen = schedule
        BY <2>2, <2>3, <3>2 DEF ScheduleChanged
      <4>. QED  BY <1>3, <1>6, <3>2, <4>1, FilledEffect
    <3>. QED  BY <3>1, <3>2
  <2>. QED  BY <1>8, <1>9, <2>4, <2>5, <2>6, <2>7
\* None was
<1>11. CASE ~filed
  <2>1. mem'.lastScheduled = mem.lastScheduled
    BY <1>11
  <2>2. mem'.day = mem.day /\ mem'.restartDay = Noted(f).restartDay
    <3>1. CASE mem'.lastBackwash = mem.lastBackwash
      <4>1. mem' = Filled(f)
        BY <3>1, FrameLearns
      <4>. QED  BY <2>1, <4>1, FilledEffect
    <3>2. CASE mem'.lastBackwash # mem.lastBackwash
      <4>1. mem'.trigger = Verdict(f, window) /\ mem'.trigger # "scheduled"
        BY <1>11, <3>2, FrameLearns
      <4>2. /\ mem'.lastScheduled = Filled(f).lastScheduled /\ mem'.day = Filled(f).day
            /\ mem'.restartDay = Noted(f).restartDay
        BY <3>2, <4>1, FrameLearns
      <4>. QED  BY <2>1, <4>2, FilledEffect
    <3>. QED  BY <3>1, <3>2
  <2>3. mem'.seen = NoSchedule => mem'.lastScheduled = None /\ mem'.restartDay = None
    <3>1. mem'.seen = NoSchedule => mem.seen = NoSchedule
      BY <1>3, <1>6, <1>7
    <3>2. mem'.seen = NoSchedule => ~ScheduleChanged(mem, f)
      BY <1>5, <1>6, FilledEffect DEF ScheduleChanged, HasSchedule
    <3>3. mem'.seen = NoSchedule => mem'.restartDay \in {None, mem.restartDay}
      BY <1>6, <3>2, FilledEffect
    <3>. QED  BY <1>2, <2>1, <3>1, <3>3
  <2>4. ASSUME mem'.seen = schedule, schedule[2] > 0, mem'.restartDay = None,
               mem'.lastScheduled # None
        PROVE  OnPhase(mem'.day)
    <3>1. CASE ScheduleChanged(mem, f)
      <4>1. HasSchedule(f) /\ f.schedule = schedule
        BY <1>5, <3>1 DEF ScheduleChanged, HasSchedule
      <4>2. mem.seen # NoSchedule
        BY <1>2, <2>1, <2>4
      <4>3. Noted(f).restartDay # None
        BY <2>4, <3>1, <4>1, <4>2, FilledEffect DEF Interval
      <4>. QED  BY <2>2, <2>4, <4>3
    <3>2. CASE ~ScheduleChanged(mem, f)
      <4>1. Noted(f).seen = mem.seen /\ Noted(f).restartDay = mem.restartDay
        BY <3>2, FilledEffect
      <4>. QED  BY <1>2, <1>6, <2>1, <2>2, <2>4, <4>1
    <3>. QED  BY <3>1, <3>2
  <2>. QED  BY <1>2, <1>8, <1>9, <2>1, <2>2, <2>3, <2>4
<1> HIDE DEF filed
<1>. QED  BY <1>10, <1>11, Zenon

LEMMA CycleStep == RecordInv /\ CycleInv /\ [Next]_vars => CycleInv'
<1> SUFFICES ASSUME RecordInv, CycleInv, [Next]_vars PROVE CycleInv'
  OBVIOUS
<1> USE DEF CycleInv
<1>1. ASSUME UNCHANGED <<schedule, phase, mem, disk>>, ~misled' => ~misled
      PROVE  InPhase(mem)' /\ InPhase(disk)'
  BY <1>1 DEF InPhase, OnPhase
<1>2. ASSUME UNCHANGED <<schedule, phase, window, opened>>, ~misled' => ~misled
      PROVE  SlotWasSeen' /\ OffsetWasTold'
  BY <1>2 DEF SlotWasSeen, OffsetWasTold, OnPhase, DayOf
<1>3. ASSUME UNCHANGED <<schedule, phase, relay, ran>>
      PROVE  RunsItsSchedule'
  BY <1>3 DEF RunsItsSchedule, OnPhase, DayOf
<1>4. CASE Tick
  BY <1>1, <1>2, <1>3, <1>4 DEF Tick, unit, store, history
<1>5. CASE OwnCycle
  <2>1. RunsItsSchedule'
    <3>1. now \in Nat /\ skew \in Int /\ None < skew - 2 * Day /\ Day \in Nat /\ None \in Int
      BY NoneIsLow, DayAssumption DEF RecordInv, Clocks, DayAssumption
    <3>2. UnitNow \in Int /\ None < UnitNow
      BY <3>1 DEF UnitNow
    <3>. QED  BY <1>5, <3>2 DEF OwnCycle, RunsItsSchedule, OnPhase, DayOf
  <2>. QED  BY <1>1, <1>2, <1>5, <2>1 DEF OwnCycle, store
<1>6. CASE ByHand
  <2>1. RunsItsSchedule'
    <3>1. ran = None
      BY <1>6 DEF ByHand, RunsItsSchedule
    <3>. QED  BY <1>6, <3>1 DEF ByHand, RunsItsSchedule, history
  <2>. QED  BY <1>1, <1>2, <1>6, <2>1 DEF ByHand, store, history
<1>7. CASE ValveCloses
  <2>1. RunsItsSchedule'
    BY <1>7 DEF ValveCloses, RunsItsSchedule
  <2>. QED  BY <1>1, <1>2, <1>7, <2>1 DEF ValveCloses, store
<1>8. ASSUME NEW s \in Schedules, ChangeSchedule(s) PROVE CycleInv'
  <2>1. /\ relay = "off" /\ schedule' = s
        /\ ~misled' => ~misled /\ s # mem.seen /\ s # disk.seen /\ s # opened.schedule
        /\ UNCHANGED <<mem, disk, window, opened, ran>>
    BY <1>8 DEF ChangeSchedule, store
  <2>2. ran = None
    BY <2>1 DEF RunsItsSchedule
  <2>3. RunsItsSchedule'
    BY <2>1, <2>2 DEF RunsItsSchedule
  <2>4. SlotWasSeen' /\ OffsetWasTold'
    BY <2>1 DEF SlotWasSeen, OffsetWasTold
  <2>5. InPhase(mem)' /\ InPhase(disk)'
    BY <2>1 DEF InPhase
  <2>. QED  BY <2>3, <2>4, <2>5
<1>9. ASSUME NEW s \in Skews, SetUnitClock(s) PROVE CycleInv'
  BY <1>1, <1>2, <1>3, <1>9 DEF SetUnitClock, store, history
<1>10. CASE FirstFrame
  <2>1. opened = NotOpened /\ opened' = opened
    BY <1>10 DEF FirstFrame, RecordInv, Flags, history
  <2>2. SlotWasSeen' /\ OffsetWasTold'
    BY <1>10, <2>1 DEF FirstFrame, SlotWasSeen, OffsetWasTold, NotOpened, NoWindow
  <2>3. InPhase(mem)'
    <3>1. mem' = Empty
      BY <1>10 DEF FirstFrame
    <3>2. /\ Empty.seen = NoSchedule /\ Empty.lastScheduled = None
          /\ Empty.restartDay = None /\ Empty.lastBackwash = None
      BY DEF Empty
    <3>. QED  BY <3>1, <3>2 DEF InPhase
  <2>4. InPhase(disk)'
    BY <1>10 DEF FirstFrame, InPhase, OnPhase, unit, store, history
  <2>5. RunsItsSchedule'
    BY <1>3, <1>10 DEF FirstFrame, unit, history
  <2>. QED  BY <2>2, <2>3, <2>4, <2>5
<1>11. ASSUME NEW f \in FrameNow, Frame(f) PROVE CycleInv'
  <2>1. /\ UNCHANGED <<schedule, phase, relay, ran, disk>>
        /\ ~misled' => ~misled
    BY <1>11 DEF Frame, unit
  <2>2. RunsItsSchedule'
    BY <1>3, <2>1
  <2>3. SlotWasSeen' /\ OffsetWasTold'
    BY <1>11, OpeningIsSeen, OffsetIsTold
  <2>4. InPhase(disk)'
    BY <2>1 DEF InPhase, OnPhase
  <2>5. InPhase(mem)'
    <3> SUFFICES ASSUME ~misled'
                 PROVE  /\ mem'.seen = NoSchedule =>
                             mem'.lastScheduled = None /\ mem'.restartDay = None
                        /\ mem'.trigger = "none" => mem'.lastBackwash = None
                        /\ mem'.lastScheduled # None => mem'.day # None
                        /\ mem'.seen = schedule' /\ schedule'[2] > 0 =>
                             IF mem'.restartDay # None THEN OnPhase(mem.restartDay)'
                             ELSE mem'.lastScheduled # None => OnPhase(mem.day)'
      BY DEF InPhase
    <3>1. /\ mem'.seen = NoSchedule => mem'.lastScheduled = None /\ mem'.restartDay = None
          /\ mem'.trigger = "none" => mem'.lastBackwash = None
          /\ mem'.lastScheduled # None => mem'.day # None
          /\ mem'.seen = schedule /\ schedule[2] > 0 =>
               IF mem'.restartDay # None THEN OnPhase(mem'.restartDay)
               ELSE mem'.lastScheduled # None => OnPhase(mem'.day)
      BY <1>11, LearnsThePhase
    <3>. QED  BY <2>1, <3>1 DEF OnPhase
  <2>. QED  BY <2>2, <2>3, <2>4, <2>5
<1>12. CASE Load
  <2>1. mem' = disk /\ UNCHANGED <<schedule, phase, relay, ran, disk, window, opened, misled>>
    BY <1>12 DEF Load, unit, store, history
  <2>2. InPhase(mem)' /\ InPhase(disk)'
    BY <2>1 DEF InPhase, OnPhase
  <2>. QED  BY <1>2, <1>3, <2>1, <2>2
<1>13. CASE LoadError
  BY <1>1, <1>2, <1>3, <1>13 DEF LoadError, unit, store
<1>14. CASE Save
  <2>1. /\ disk' \in {disk, mem}
        /\ UNCHANGED <<schedule, phase, relay, ran, mem, window, opened, misled>>
    BY <1>14 DEF Save, unit
  <2>2. InPhase(mem)' /\ InPhase(disk)'
    BY <2>1 DEF InPhase, OnPhase
  <2>. QED  BY <1>2, <1>3, <2>1, <2>2
<1>15. CASE Restart
  <2>1. /\ mem' = Empty /\ opened' = NotOpened /\ window' = NoWindow
        /\ UNCHANGED <<schedule, phase, relay, ran, disk, misled>>
    BY <1>15 DEF Restart, unit
  <2>2. SlotWasSeen' /\ OffsetWasTold'
    BY <2>1 DEF SlotWasSeen, OffsetWasTold, NotOpened, NoWindow
  <2>3. InPhase(mem)'
    <3>1. /\ Empty.seen = NoSchedule /\ Empty.lastScheduled = None
          /\ Empty.restartDay = None /\ Empty.lastBackwash = None
      BY DEF Empty
    <3>. QED  BY <2>1, <3>1 DEF InPhase
  <2>4. InPhase(disk)'
    BY <2>1 DEF InPhase, OnPhase
  <2>. QED  BY <1>3, <2>1, <2>2, <2>3, <2>4
<1>16. ASSUME NEW t \in Entries, TypeIn(t) PROVE CycleInv'
  <2>1. misled' = TRUE /\ UNCHANGED <<schedule, phase, relay, ran, window, opened>>
    BY <1>16 DEF TypeIn, unit
  <2>. QED  BY <1>2, <1>3, <2>1 DEF InPhase
<1>17. CASE Clear
  <2>1. misled' = TRUE /\ UNCHANGED <<schedule, phase, relay, ran, window, opened>>
    BY <1>17 DEF Clear, unit
  <2>. QED  BY <1>2, <1>3, <2>1 DEF InPhase
<1>18. CASE UNCHANGED vars
  BY <1>1, <1>2, <1>3, <1>18 DEF vars, unit, store, history
<1>. QED
  BY <1>4, <1>5, <1>6, <1>7, <1>8, <1>9, <1>10, <1>11, <1>12, <1>13, <1>14, <1>15,
     <1>16, <1>17, <1>18 DEF Next

LEMMA CycleAlways == Spec => [](RecordInv /\ CycleInv)
<1>1. Init => RecordInv /\ CycleInv
  BY RecordInit, CycleInit
<1>2. RecordInv /\ CycleInv /\ [Next]_vars => RecordInv' /\ CycleInv'
  BY RecordStep, CycleStep
<1>. QED  BY <1>1, <1>2, PTL DEF Spec

\* A cycle the tracker saw begin at its time is filed under the slot the unit ran
\* it in, when its valve closes, whatever is done to the unit's clock meanwhile
\* (_offset_when_opened, _classify, _record_window).
THEOREM OwnCycleIsFiled == Spec => OwnCycleRecognised
<1>1. RecordInv /\ CycleInv /\ [Next]_vars =>
        [opened.slot # None /\ mem'.lastBackwash # mem.lastBackwash =>
           \A f \in FrameNow :
             f.schedule = opened.schedule /\ Frame(f)
             => mem'.trigger = "scheduled" /\ mem'.lastScheduled = opened.slot]_vars
  BY OwnCycleStep
<1>. QED  BY <1>1, CycleAlways, PTL DEF Spec, OwnCycleRecognised

\* What the tracker projects as the next cycle is at the unit's set time and on a
\* day the unit runs on, as long as each change of the schedule reached it on the
\* unit's own day of it with an offset that shows that day, no other opening of the
\* valve came within the tolerance of a slot, and nobody typed in or cleared a date
\* (next_scheduled_backwash, _note_schedule, _record_window).
THEOREM ProjectionIsInPhase == Spec => []ProjectionFollowsUnit
<1>1. RecordInv /\ CycleInv => ProjectionFollowsUnit
  <2> DEFINE at == schedule[1]
             interval == schedule[2]
             first == FirstDay(mem, at, interval)
             late == OnUnitClock(now, mem.offset) - Slot(first, at)
             steps == IF late < 0 THEN 0 ELSE late \div (interval * Day) + 1
             next == NextScheduled(mem, at, interval)
  <2> SUFFICES ASSUME RecordInv, CycleInv, up, ~loading, ~misled, mem.seen = schedule,
                      next # None
               PROVE  (DayOf(next) - phase) % interval = 0 /\ next % Day = at
    BY DEF ProjectionFollowsUnit
  <2>1. /\ at \in TimesOfDay /\ interval \in Nat /\ phase \in Int
        /\ now \in Int /\ None \in Int /\ Day \in Nat \ {0}
    BY NoneIsLow, DayAssumption DEF RecordInv, Clocks, DayAssumption
  <2>2. /\ mem.offset \in Int /\ mem.restartDay \in Int /\ mem.day \in Int
    BY NoneIsLow DEF RecordInv, Recorded, OfOnePiece, Record
  <2>3. interval > 0 /\ first # None /\ next = Slot(first + steps * interval, at)
    BY <2>1 DEF NextScheduled
  <2>4. /\ mem.lastScheduled # None => mem.day # None
        /\ IF mem.restartDay # None THEN OnPhase(mem.restartDay)
           ELSE mem.lastScheduled # None => OnPhase(mem.day)
    BY <2>3 DEF CycleInv, InPhase
  <2>5. first \in Int /\ (first - phase) % interval = 0
    <3>1. CASE mem.restartDay # None
      <4>1. first = mem.restartDay
        BY <3>1 DEF FirstDay
      <4>. QED  BY <2>2, <2>4, <3>1, <4>1 DEF OnPhase
    <3>2. CASE mem.restartDay = None
      <4>1. mem.lastScheduled # None /\ mem.day # None /\ first = mem.day + interval
        BY <2>3, <2>4, <3>2 DEF FirstDay
      <4>2. ((mem.day - phase) + 1 * interval) % interval = (mem.day - phase) % interval
        <5>1. mem.day - phase \in Int /\ interval \in Nat \ {0} /\ 1 \in Int
          BY <2>1, <2>2, <2>3
        <5> HIDE DEF interval
        <5>. QED  BY <5>1, WholeIntervals
      <4>3. first - phase = (mem.day - phase) + 1 * interval
        BY <2>1, <2>2, <4>1
      <4>. QED  BY <2>1, <2>2, <2>4, <3>2, <4>1, <4>2, <4>3 DEF OnPhase
    <3>. QED  BY <3>1, <3>2
  <2> HIDE DEF first
  <2>6. steps \in Int
    <3>1. late \in Int
      <4>1. OnUnitClock(now, mem.offset) \in Int
        BY <2>1, <2>2 DEF OnUnitClock
      <4>2. Slot(first, at) \in Int
        BY <2>1, <2>5, SlotIs
      <4>. QED  BY <4>1, <4>2
    <3>2. interval * Day \in Nat \ {0}
      BY <2>1, <2>3
    <3> HIDE DEF late
    <3>3. late \div (interval * Day) \in Int
      BY <3>1, <3>2, Division
    <3>. QED  BY <3>3
  <2> HIDE DEF steps, next
  <2>7. /\ first + steps * interval \in Int
        /\ (first + steps * interval) - phase = (first - phase) + steps * interval
    BY <2>1, <2>5, <2>6
  <2>8. DayOf(next) = first + steps * interval /\ next % Day = at
    BY <2>1, <2>3, <2>7, SlotIs
  <2>9. ((first - phase) + steps * interval) % interval = (first - phase) % interval
    <3>1. first - phase \in Int /\ interval \in Nat \ {0}
      BY <2>1, <2>3, <2>5
    <3> HIDE DEF interval
    <3>. QED  BY <2>6, <3>1, WholeIntervals
  <2>. QED  BY <2>5, <2>7, <2>8, <2>9
<1>. QED  BY <1>1, CycleAlways, PTL

=============================================================================
