----------------------------- MODULE Consumption -----------------------------
(***************************************************************************)
(* trackers/consumption.py for one pump of one unit, with the coordinator's  *)
(* store and the two sensors that seed it.  The pump doses as it likes; the  *)
(* tracker sees it in the unit's frames, by the wall clock, and adds what it *)
(* estimates was dosed since the frame before.                               *)
(*                                                                         *)
(* Time is real; the wall clock is set forward and back against it.  A tick  *)
(* is the unit's frame interval (10 s), a rate is a dose per tick.  When the *)
(* store writes is in ThrottledStore: here it writes when it likes.          *)
(***************************************************************************)
EXTENDS Integers

CONSTANTS
  Rates,      \* the flow rates the owner may set
  MaxRate,    \* the highest of them
  Cap,        \* MAX_PUMP_INTERVAL in ticks
  Earlier,    \* what the sensors showed before there was a store, in millilitres
  MaxTime,    \* bound: ticks
  MaxEvents   \* bound: switches, clock changes, resets, unreadable frames, restarts

Counters == {"total", "canister"}
None == -1000   \* no time, no rate
Nothing == [c \in {} |-> 0]
Zero == [c \in Counters |-> 0]
Larger(a, b) == IF a > b THEN a ELSE b
Smaller(a, b) == IF a < b THEN a ELSE b

ASSUME ConsumptionAssumption ==
  /\ Cap \in Nat \ {0} /\ MaxTime \in Nat /\ MaxEvents \in Nat
  /\ Rates \subseteq 1..MaxRate /\ MaxRate \in Nat
  /\ Earlier \in [Counters -> Nat]

VARIABLES
  time, skew,     \* the real time, and how far the wall clock is ahead of it
  pump,           \* the rate the unit doses at, 0 when the pump is off
  phase,          \* the entry: "loaded", "closing" once its unload has saved
  tracked,        \* the coordinator has a tracker for the unit
  counters,       \* _counters
  last_on, last_rate,  \* _last_on, _last_flowrate
  restored,       \* restored_keys has the pump
  toSeed,         \* the sensors that are not added to Home Assistant yet
  file,           \* the pump's entry in the store, Nothing if there is no valid one
  dosed,          \* history: what was dosed, from where the counters started
  gap,            \* history: ticks since the last frame that counted
  excused,        \* history: the ways this gap may be estimated wrong, "over", "under"
  over, under,    \* history: the ticks by which the estimate may be wrong
  events

unitVars == <<time, skew, pump>>
tracker == <<counters, last_on, last_rate>>
history == <<dosed, gap, excused, over, under>>
vars == <<unitVars, phase, tracked, tracker, restored, toSeed, file, history, events>>

Wall == time + skew

Init ==
  /\ time = 0 /\ skew = 0 /\ pump = 0
  /\ phase = "loaded" /\ tracked = FALSE
  /\ counters = Zero /\ last_on = None /\ last_rate = None
  /\ restored = FALSE /\ toSeed = Counters
  /\ file = Nothing
  /\ dosed = Zero /\ gap = 0 /\ excused = {} /\ over = 0 /\ under = 0
  /\ events = 0

\* Something no frame shows, and the ways it makes the estimate wrong.
Event(ways) ==
  /\ events < MaxEvents
  /\ events' = events + 1
  /\ excused' = excused \cup ways

-----------------------------------------------------------------------------
(* The unit, its owner and the clock *)

Tick ==
  /\ time < MaxTime
  /\ time' = time + 1
  /\ dosed' = [c \in Counters |-> dosed[c] + pump]
  /\ gap' = gap + 1
  /\ UNCHANGED <<skew, pump, phase, tracked, tracker, restored, toSeed, file,
                 excused, over, under, events>>

\* The pump is switched off, or on or to another rate.
Switch ==
  /\ \/ pump # 0 /\ pump' = 0 /\ Event({"over"})
     \/ pump' \in Rates \ {pump} /\ Event({"over", "under"})
  /\ UNCHANGED <<time, skew, phase, tracked, tracker, restored, toSeed, file,
                 dosed, gap, over, under>>

\* Home Assistant's clock is corrected, by more than a gap that is credited.
ClockSet ==
  /\ \/ skew' = skew - Cap - 1 /\ Event({"under"})
     \/ skew' = skew + Cap + 1 /\ Event({"over"})
  /\ time + skew' > None
  /\ UNCHANGED <<time, pump, phase, tracked, tracker, restored, toSeed, file,
                 dosed, gap, over, under>>

-----------------------------------------------------------------------------
(* The tracker *)

\* Mutant: no cap.
CreditUncapped(rate) ==
  IF last_on = None \/ rate \in {0, None} THEN 0 ELSE Larger(Wall - last_on, 0) * rate

\* Mutant: a clock set back takes away.
CreditNegative(rate) ==
  IF last_on = None \/ rate \in {0, None} THEN 0 ELSE Smaller(Wall - last_on, Cap) * rate

\* _credit: what is added, since the last frame with the pump on.
Credit(rate) ==
  IF last_on = None \/ rate \in {0, None} THEN 0
  ELSE Smaller(Larger(Wall - last_on, 0), Cap) * rate

Add(ml) == counters' = [c \in Counters |-> counters[c] + ml]

\* On, with a rate: the interval at the current rate.
SeenOn(rate) ==
  /\ Add(Credit(rate))
  /\ last_on' = Wall /\ last_rate' = rate

\* Mutant: the interval in which the pump stopped is left out.
SeenOffUncredited ==
  /\ UNCHANGED counters
  /\ last_on' = None /\ last_rate' = None

\* Off, or on without a rate: the interval at the rate it ran with.
SeenOff ==
  /\ Add(Credit(last_rate))
  /\ last_on' = None /\ last_rate' = None

\* Not in the frame: nothing is credited.
SeenAbsent ==
  /\ UNCHANGED counters
  /\ last_on' = None /\ last_rate' = None

\* A gap that counts ends; the estimate may be ahead if the pump was on at its
\* start.  An unload has saved before: whether the file gets what later frames
\* add to its tracker is open.
GapEnds(unreadable) ==
  LET ways == excused \cup (IF unreadable THEN {"under"} ELSE {})
  IN  /\ over' = over + (IF last_on # None /\ "over" \in ways THEN Cap ELSE 0)
      /\ IF phase = "closing" THEN UNCHANGED <<gap, excused, under>>
         ELSE /\ gap' = 0
              /\ under' = under + (IF "under" \in ways THEN gap ELSE Larger(gap - Cap, 0))
              /\ excused' = IF unreadable THEN {"under"} ELSE {}

\* update, by a frame that shows the pump as it is.
Frame ==
  /\ tracked' = TRUE
  /\ IF pump = 0 THEN SeenOff ELSE SeenOn(pump)
  /\ GapEnds(FALSE)
  /\ events' = IF phase = "closing" THEN events + 1 ELSE events
  /\ events' <= MaxEvents
  /\ UNCHANGED <<unitVars, phase, restored, toSeed, file, dosed>>

\* update, by a frame without the rate of a running pump or without the pump.
UnreadableFrame ==
  /\ events < MaxEvents /\ events' = events + 1
  /\ tracked' = TRUE
  /\ SeenAbsent \/ (pump # 0 /\ SeenOff)
  /\ GapEnds(TRUE)
  /\ UNCHANGED <<unitVars, phase, restored, toSeed, file, dosed>>

-----------------------------------------------------------------------------
(* Resets, the store and the sensors *)

\* reset_consumption, by the button of the pump or the service: the interval
\* that is running is still credited.
Reset(S) ==
  /\ Event({"over"})
  /\ phase = "loaded" /\ tracked
  /\ counters' = [c \in Counters |-> IF c \in S THEN 0 ELSE counters[c]]
  /\ dosed' = [c \in Counters |-> IF c \in S THEN 0 ELSE dosed[c]]
  /\ UNCHANGED <<unitVars, phase, tracked, last_on, last_rate, restored, toSeed, file,
                 gap, over, under>>

\* The store writes what the tracker holds.
Save ==
  /\ tracked
  /\ file' = counters
  /\ UNCHANGED <<unitVars, phase, tracked, tracker, restored, toSeed, history, events>>

\* Mutant: the sensors seed whatever the store had.
SeedAlways(c) ==
  /\ tracked /\ phase = "loaded" /\ c \in toSeed
  /\ toSeed' = toSeed \ {c}
  /\ counters' = [counters EXCEPT ![c] = Earlier[c]]
  /\ dosed' = [dosed EXCEPT ![c] = Earlier[c]]
  /\ excused' = excused \cup {"over"}
  /\ UNCHANGED <<unitVars, phase, tracked, last_on, last_rate, restored, file, gap,
                 over, under, events>>

\* async_added_to_hass of one of the two sensors, once the platforms are set up:
\* what the first frames have credited is overwritten.
Seed(c) ==
  /\ tracked /\ phase = "loaded" /\ c \in toSeed
  /\ toSeed' = toSeed \ {c}
  /\ IF restored THEN UNCHANGED <<counters, dosed, excused>>
     ELSE /\ counters' = [counters EXCEPT ![c] = Earlier[c]]
          /\ dosed' = [dosed EXCEPT ![c] = Earlier[c]]
          /\ excused' = excused \cup {"over"}
  /\ UNCHANGED <<unitVars, phase, tracked, last_on, last_rate, restored, file, gap,
                 over, under, events>>

\* async_unload_entry, perhaps before a sensor has seeded: that of a disabled
\* entity never does.
Unload ==
  /\ Event({"over", "under"})
  /\ phase = "loaded"
  /\ phase' = "closing"
  /\ file' = IF tracked THEN counters ELSE Nothing
  /\ UNCHANGED <<unitVars, tracked, tracker, restored, toSeed, dosed, gap, over, under>>

\* async_load_consumption in a new coordinator.
Load ==
  /\ phase' = "loaded"
  /\ counters' = IF file = Nothing THEN Zero ELSE file
  /\ tracked' = (file # Nothing) /\ restored' = (file # Nothing)
  /\ last_on' = None /\ last_rate' = None
  /\ toSeed' = Counters

Setup ==
  /\ phase = "closing"
  /\ Load
  /\ UNCHANGED <<unitVars, file, history, events>>

\* Home Assistant is gone and comes back: what the file has not is lost.
Crash ==
  /\ events < MaxEvents /\ events' = events + 1
  /\ Load
  /\ dosed' = IF file = Nothing THEN Zero ELSE file
  /\ gap' = 0 /\ excused' = {"under"} /\ over' = 0 /\ under' = 0
  /\ UNCHANGED <<unitVars, file>>

Next ==
  \/ Tick \/ Switch \/ ClockSet \/ Frame \/ UnreadableFrame
  \/ \E S \in (SUBSET Counters) \ {{}} : Reset(S)
  \/ Save \/ (\E c \in Counters : Seed(c))
  \/ Unload \/ Setup \/ Crash

Spec == Init /\ [][Next]_vars

-----------------------------------------------------------------------------
(* Properties *)

EntryTyped ==
  /\ phase \in {"loaded", "closing"}
  /\ tracked \in BOOLEAN /\ restored \in BOOLEAN
  /\ toSeed \subseteq Counters
  /\ file \in [Counters -> Nat] \cup {Nothing}

TrackerTyped ==
  /\ counters \in [Counters -> Nat]
  /\ last_on \in Int
  /\ last_rate \in Rates \cup {None}

HistoryTyped ==
  /\ dosed \in [Counters -> Nat]
  /\ gap \in Nat /\ over \in Nat /\ under \in Nat
  /\ excused \subseteq {"over", "under"}

\* The counters are volumes, whatever the clock did.
TypeOK ==
  /\ time \in 0..MaxTime /\ skew \in Int /\ Wall > None
  /\ pump \in Rates \cup {0} /\ events \in 0..MaxEvents
  /\ EntryTyped /\ TrackerTyped /\ HistoryTyped

\* The estimate runs ahead of the pump only by what 30 s can dose, once for
\* each gap between two frames in which the pump was switched, the clock was
\* set forward, a counter was reset or the entry was reloaded: not by the length
\* of an outage ("a long gap is not counted as continuous dosing", the guide).
NoPhantomDose ==
  phase = "loaded" =>
    \A c \in Counters : counters[c] - dosed[c] <= MaxRate * over

\* It falls behind only by the gaps in which the pump was switched on or to
\* another rate, the clock was set back or the tracker was new, by what an
\* outage exceeds 30 s, and by the gap that is still open: while the pump stays
\* as it is nothing is lost, the interval in which it stops included.
NoDoseLost ==
  phase = "loaded" =>
    \A c \in Counters : dosed[c] - counters[c] <= MaxRate * (under + gap)

\* Both counters only grow together and by what 30 s can dose, but for resets;
\* a restart brings back exactly what was saved, which no sensor overwrites
\* with its rounded litres.
Meter ==
  INSTANCE DoseMeter WITH
    MaxDose <- MaxRate * Cap, Earlier <- Earlier,
    counted <- counters, kept <- file, fresh <- ~restored

ImplementsMeter == Meter!Spec
=============================================================================
