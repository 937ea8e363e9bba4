-------------------------- MODULE ConsumptionProofs --------------------------
(***************************************************************************)
(* Proofs about Consumption, for every set of rates, every cap and every     *)
(* bound: the counters are typed, the estimate stays within what the cap and *)
(* the frames allow on both sides, and the tracker implements DoseMeter.     *)
(*                                                                         *)
(* The bounds are not inductive as they stand.  What makes them so is the    *)
(* state of the open gap: while nothing has happened in it that no frame     *)
(* shows, the pump still runs at the rate the tracker remembers, and the     *)
(* wall clock has moved as far as real time.                                 *)
(***************************************************************************)
EXTENDS Consumption, TLAPS

-----------------------------------------------------------------------------
(* Arithmetic *)

LEMMA Bounds ==
  /\ Cap \in Nat /\ MaxRate \in Nat /\ MaxTime \in Nat /\ MaxEvents \in Nat
  /\ \A r \in Rates : r \in Nat /\ r > 0 /\ r <= MaxRate
  /\ MaxRate * Cap \in Nat
<1>1. Cap \in Nat /\ MaxRate \in Nat
  BY ConsumptionAssumption DEF ConsumptionAssumption
<1>2. MaxRate * Cap \in Nat
  BY <1>1
<1>. QED  BY <1>1, <1>2, ConsumptionAssumption DEF ConsumptionAssumption

LEMMA EarlierTyped == Earlier \in [Counters -> Nat]
BY ConsumptionAssumption DEF ConsumptionAssumption

\* A longer interval or a higher rate is no smaller a dose.
LEMMA DoseGrows ==
  ASSUME NEW a \in Nat, NEW b \in Nat, NEW r \in Nat, NEW q \in Nat, a <= b, r <= q
  PROVE  a * r \in Nat /\ a * r <= b * q
<1>1. a * r <= b * r
  <2>1. (b - a) * r \in Nat
    OBVIOUS
  <2>2. b * r = a * r + (b - a) * r
    OBVIOUS
  <2>. QED  BY <2>1, <2>2
<1>2. b * r <= b * q
  <2>1. b * (q - r) \in Nat
    OBVIOUS
  <2>2. b * q = b * r + b * (q - r)
    OBVIOUS
  <2>. QED  BY <2>1, <2>2
<1>. QED  BY <1>1, <1>2

\* What one frame credits: nothing without a pump seen on, and otherwise the
\* interval, cut at both ends, at its rate.
LEMMA CreditFacts ==
  ASSUME TypeOK, NEW rate \in Rates \cup {0, None}
  PROVE  /\ Credit(rate) \in 0..(MaxRate * Cap)
         /\ last_on = None => Credit(rate) = 0
<1>1. CASE last_on = None \/ rate \in {0, None}
  BY <1>1, Bounds DEF Credit
<1>2. CASE ~(last_on = None \/ rate \in {0, None})
  <2> DEFINE d == Smaller(Larger(Wall - last_on, 0), Cap)
  <2>1. d \in Nat /\ d <= Cap
    BY Bounds DEF TypeOK, TrackerTyped, Wall, Smaller, Larger
  <2>2. rate \in Nat /\ rate <= MaxRate
    BY <1>2, Bounds
  <2>3. d * rate \in Nat /\ d * rate <= Cap * MaxRate
    BY <2>1, <2>2, Bounds, DoseGrows
  <2>4. Credit(rate) = d * rate
    BY <1>2 DEF Credit
  <2> HIDE DEF d
  <2>5. Cap * MaxRate = MaxRate * Cap
    BY Bounds
  <2>. QED  BY <1>2, <2>3, <2>4, <2>5
<1>. QED  BY <1>1, <1>2

-----------------------------------------------------------------------------
(* Types *)

\* The rate a tracker remembers is one the unit had.
Remembers == last_on # None => last_rate \in Rates

Typed == TypeOK /\ Remembers

LEMMA FrameTyped ==
  ASSUME TypeOK, NEW rate \in Rates \cup {0, None}, Add(Credit(rate))
  PROVE  counters' \in [Counters -> Nat]
BY CreditFacts, Bounds DEF TypeOK, TrackerTyped, Add

LEMMA GapTyped ==
  ASSUME HistoryTyped, NEW u \in BOOLEAN, GapEnds(u)
  PROVE  gap' \in Nat /\ over' \in Nat /\ under' \in Nat /\ excused' \subseteq {"over", "under"}
<1> DEFINE ways == excused \cup (IF u THEN {"under"} ELSE {})
<1>1. over' \in Nat
  BY Bounds DEF GapEnds, HistoryTyped
<1>2. CASE phase = "closing"
  BY <1>1, <1>2 DEF GapEnds, HistoryTyped
<1>3. CASE phase # "closing"
  <2>1. gap' = 0 /\ excused' \subseteq {"under"}
    BY <1>3 DEF GapEnds
  <2>2. under' \in Nat
    BY <1>3, Bounds DEF GapEnds, HistoryTyped, Larger
  <2>. QED  BY <1>1, <2>1, <2>2
<1>. QED  BY <1>2, <1>3

LEMMA LoadTyped ==
  ASSUME EntryTyped, Load
  PROVE  /\ TrackerTyped' /\ Remembers'
         /\ phase' \in {"loaded", "closing"}
         /\ tracked' \in BOOLEAN /\ restored' \in BOOLEAN /\ toSeed' \subseteq Counters
<1>1. counters' \in [Counters -> Nat]
  BY DEF EntryTyped, Load, Zero
<1>2. last_on' = None /\ last_rate' = None /\ None \in Int
  BY DEF Load, None
<1>. QED  BY <1>1, <1>2 DEF EntryTyped, TrackerTyped, Load, Remembers

LEMMA TypeInit == Init => Typed
<1> SUFFICES ASSUME Init PROVE TypeOK /\ Remembers
  BY DEF Typed
<1>1. TrackerTyped /\ Remembers
  BY DEF Init, Zero, None, Remembers, TrackerTyped
<1>2. HistoryTyped
  BY DEF Init, Zero, HistoryTyped
<1>3. EntryTyped
  BY DEF Init, EntryTyped
<1>4. time \in 0..MaxTime /\ skew \in Int /\ Wall > None
  BY Bounds DEF Init, Wall, None
<1>5. pump \in Rates \cup {0} /\ events \in 0..MaxEvents
  BY Bounds DEF Init
<1>. QED  BY <1>1, <1>2, <1>3, <1>4, <1>5 DEF TypeOK

\* The parts of the state most actions leave alone.
LEMMA TrackerKept == ASSUME TrackerTyped, Remembers, UNCHANGED tracker
                     PROVE  TrackerTyped' /\ Remembers'
BY DEF TrackerTyped, Remembers, tracker

LEMMA EntryKept == ASSUME EntryTyped, UNCHANGED <<phase, tracked, restored, toSeed, file>>
                   PROVE  EntryTyped'
BY DEF EntryTyped

LEMMA EventTyped ==
  ASSUME TypeOK, NEW ways \in SUBSET {"over", "under"}, Event(ways)
  PROVE  events' \in 0..MaxEvents /\ excused' \subseteq {"over", "under"}
<1>1. events \in 0..MaxEvents /\ excused \subseteq {"over", "under"}
  BY DEF TypeOK, HistoryTyped
<1>. QED  BY <1>1, Bounds DEF Event

LEMMA TypeStep == Typed /\ [Next]_vars => Typed'
<1> SUFFICES ASSUME TypeOK, Remembers, [Next]_vars PROVE TypeOK' /\ Remembers'
  BY DEF Typed
<1>a. EntryTyped /\ TrackerTyped /\ HistoryTyped
  BY DEF TypeOK
<1>1. CASE Tick
  <2>1. time' \in 0..MaxTime /\ skew' \in Int /\ Wall' > None
    BY <1>1, Bounds DEF Tick, TypeOK, Wall, None
  <2>2. HistoryTyped'
    BY <1>1, Bounds DEF Tick, TypeOK, HistoryTyped
  <2>3. EntryTyped' /\ TrackerTyped' /\ Remembers'
    BY <1>1, <1>a, EntryKept, TrackerKept DEF Tick
  <2>. QED  BY <1>1, <2>1, <2>2, <2>3 DEF Tick, TypeOK
<1>2. CASE Switch
  <2>1. events' \in 0..MaxEvents /\ excused' \subseteq {"over", "under"}
    BY <1>2, EventTyped DEF Switch
  <2>2. HistoryTyped'
    BY <1>2, <1>a, <2>1 DEF Switch, HistoryTyped
  <2>3. EntryTyped' /\ TrackerTyped' /\ Remembers'
    BY <1>2, <1>a, EntryKept, TrackerKept DEF Switch
  <2>. QED  BY <1>2, <2>1, <2>2, <2>3 DEF Switch, TypeOK, Wall
<1>3. CASE ClockSet
  <2>1. events' \in 0..MaxEvents /\ excused' \subseteq {"over", "under"}
    BY <1>3, EventTyped DEF ClockSet
  <2>2. HistoryTyped'
    BY <1>3, <1>a, <2>1 DEF ClockSet, HistoryTyped
  <2>3. EntryTyped' /\ TrackerTyped' /\ Remembers'
    BY <1>3, <1>a, EntryKept, TrackerKept DEF ClockSet
  <2>4. skew' \in Int /\ Wall' > None
    BY <1>3, Bounds DEF ClockSet, TypeOK, Wall, None
  <2>. QED  BY <1>3, <2>1, <2>2, <2>3, <2>4 DEF ClockSet, TypeOK
<1>4. CASE Frame
  <2>1. counters' \in [Counters -> Nat]
    BY <1>4, FrameTyped DEF Frame, SeenOn, SeenOff, TypeOK, TrackerTyped
  <2>2. TrackerTyped' /\ Remembers'
    BY <1>4, <2>1 DEF Frame, SeenOn, SeenOff, TypeOK, TrackerTyped, Remembers, Wall, None
  <2>3. HistoryTyped'
    BY <1>4, <1>a, GapTyped DEF Frame, HistoryTyped
  <2>4. EntryTyped'
    BY <1>4, <1>a DEF Frame, EntryTyped
  <2>5. events' \in 0..MaxEvents
    BY <1>4, Bounds DEF Frame, TypeOK
  <2>. QED  BY <1>4, <2>2, <2>3, <2>4, <2>5 DEF Frame, TypeOK, unitVars, Wall
<1>5. CASE UnreadableFrame
  <2>1. counters' \in [Counters -> Nat]
    BY <1>5, FrameTyped DEF UnreadableFrame, SeenAbsent, SeenOff, TypeOK, TrackerTyped
  <2>2. TrackerTyped' /\ Remembers'
    BY <1>5, <2>1 DEF UnreadableFrame, SeenAbsent, SeenOff, TrackerTyped, Remembers, None
  <2>3. HistoryTyped'
    BY <1>5, <1>a, GapTyped DEF UnreadableFrame, HistoryTyped
  <2>4. EntryTyped'
    BY <1>5, <1>a DEF UnreadableFrame, EntryTyped
  <2>5. events' \in 0..MaxEvents
    BY <1>5, Bounds DEF UnreadableFrame, TypeOK
  <2>. QED  BY <1>5, <2>2, <2>3, <2>4, <2>5 DEF UnreadableFrame, TypeOK, unitVars, Wall
<1>6. ASSUME NEW S \in SUBSET Counters, Reset(S) PROVE TypeOK' /\ Remembers'
  <2>1. events' \in 0..MaxEvents /\ excused' \subseteq {"over", "under"}
    BY <1>6, EventTyped DEF Reset
  <2>2. counters' \in [Counters -> Nat] /\ dosed' \in [Counters -> Nat]
    BY <1>6, <1>a DEF Reset, TrackerTyped, HistoryTyped
  <2>3. TrackerTyped' /\ Remembers'
    BY <1>6, <1>a, <2>2 DEF Reset, TrackerTyped, Remembers
  <2>4. HistoryTyped'
    BY <1>6, <1>a, <2>1, <2>2 DEF Reset, HistoryTyped
  <2>5. EntryTyped'
    BY <1>6, <1>a DEF Reset, EntryTyped
  <2>. QED  BY <1>6, <2>1, <2>3, <2>4, <2>5 DEF Reset, TypeOK, unitVars, Wall
<1>7. CASE Save
  <2>1. EntryTyped'
    BY <1>7, <1>a DEF Save, EntryTyped, TrackerTyped
  <2>2. HistoryTyped' /\ TrackerTyped' /\ Remembers'
    BY <1>7, <1>a, TrackerKept DEF Save, HistoryTyped, history
  <2>. QED  BY <1>7, <2>1, <2>2 DEF Save, TypeOK, unitVars, Wall
<1>8. ASSUME NEW c \in Counters, Seed(c) PROVE TypeOK' /\ Remembers'
  <2>1. counters' \in [Counters -> Nat] /\ dosed' \in [Counters -> Nat]
    BY <1>8, <1>a, EarlierTyped DEF Seed, TrackerTyped, HistoryTyped
  <2>2. TrackerTyped' /\ Remembers'
    BY <1>8, <1>a, <2>1 DEF Seed, TrackerTyped, Remembers
  <2>3. HistoryTyped'
    BY <1>8, <1>a, <2>1 DEF Seed, HistoryTyped
  <2>4. EntryTyped'
    BY <1>8, <1>a DEF Seed, EntryTyped
  <2>. QED  BY <1>8, <2>2, <2>3, <2>4 DEF Seed, TypeOK, unitVars, Wall
<1>9. CASE Unload
  <2>1. events' \in 0..MaxEvents /\ excused' \subseteq {"over", "under"}
    BY <1>9, EventTyped DEF Unload
  <2>2. TrackerTyped' /\ Remembers'
    BY <1>9, <1>a, TrackerKept DEF Unload
  <2>3. HistoryTyped'
    BY <1>9, <1>a, <2>1 DEF Unload, HistoryTyped
  <2>4. EntryTyped'
    BY <1>9, <1>a DEF Unload, EntryTyped, TrackerTyped
  <2>. QED  BY <1>9, <2>1, <2>2, <2>3, <2>4 DEF Unload, TypeOK, unitVars, Wall
<1>10. CASE Setup
  <2>1. EntryTyped' /\ TrackerTyped' /\ Remembers'
    BY <1>10, <1>a, LoadTyped DEF Setup, EntryTyped
  <2>2. HistoryTyped'
    BY <1>10, <1>a DEF Setup, HistoryTyped, history
  <2>. QED  BY <1>10, <2>1, <2>2 DEF Setup, TypeOK, unitVars, Wall
<1>11. CASE Crash
  <2>1. EntryTyped' /\ TrackerTyped' /\ Remembers'
    BY <1>11, <1>a, LoadTyped DEF Crash, EntryTyped
  <2>2. HistoryTyped'
    BY <1>11, <1>a DEF Crash, HistoryTyped, EntryTyped, Zero
  <2>3. events' \in 0..MaxEvents
    BY <1>11, Bounds DEF Crash, TypeOK
  <2>. QED  BY <1>11, <2>1, <2>2, <2>3 DEF Crash, TypeOK, unitVars, Wall
<1>12. CASE UNCHANGED vars
  <2>1. EntryTyped' /\ TrackerTyped' /\ Remembers'
    BY <1>12, <1>a, EntryKept, TrackerKept DEF vars, tracker
  <2>2. HistoryTyped'
    BY <1>12, <1>a DEF vars, history, HistoryTyped
  <2>. QED  BY <1>12, <2>1, <2>2 DEF vars, unitVars, TypeOK, Wall
<1>. QED
  BY <1>1, <1>2, <1>3, <1>4, <1>5, <1>6, <1>7, <1>8, <1>9, <1>10, <1>11, <1>12 DEF Next

\* Counters, clocks and the store's entry are typed in every reachable state:
\* no sequence of frames, clock changes, resets and restarts makes a counter
\* negative.
THEOREM CountersTyped == Spec => []TypeOK
<1>1. Spec => []Typed
  BY TypeInit, TypeStep, PTL DEF Spec
<1>2. Typed => TypeOK
  BY DEF Typed
<1>. QED  BY <1>1, <1>2, PTL

-----------------------------------------------------------------------------
(* The meter *)

\* What no tracker holds, no store has either.
Untracked == ~tracked => counters = Zero /\ file = Nothing

LEMMA UntrackedStep == Untracked /\ [Next]_vars => Untracked'
<1> SUFFICES ASSUME Untracked, [Next]_vars PROVE Untracked'
  OBVIOUS
<1>1. CASE Tick \/ Switch \/ ClockSet
  BY <1>1 DEF Tick, Switch, ClockSet, Untracked, tracker
<1>2. CASE Frame \/ UnreadableFrame
  BY <1>2 DEF Frame, UnreadableFrame, Untracked
<1>3. CASE \E S \in (SUBSET Counters) \ {{}} : Reset(S)
  BY <1>3 DEF Reset, Untracked
<1>4. CASE Save \/ \E c \in Counters : Seed(c)
  BY <1>4 DEF Save, Seed, Untracked
<1>5. CASE Unload
  BY <1>5 DEF Unload, Untracked, tracker
<1>6. CASE Setup \/ Crash
  BY <1>6 DEF Setup, Crash, Load, Untracked
<1>7. CASE UNCHANGED vars
  BY <1>7 DEF vars, tracker, Untracked
<1>. QED  BY <1>1, <1>2, <1>3, <1>4, <1>5, <1>6, <1>7 DEF Next

LEMMA MeterDoses ==
  ASSUME TypeOK, NEW rate \in Rates \cup {0, None}, Add(Credit(rate)),
         UNCHANGED <<file, restored>>
  PROVE  Meter!Dose
<1>1. Credit(rate) \in 0..(MaxRate * Cap)
  BY CreditFacts
<1>. QED  BY <1>1 DEF Add, Meter!Dose, Meter!Counters, Counters

LEMMA MeterStep ==
  ASSUME Typed, Untracked, [Next]_vars
  PROVE  Meter!Next \/ UNCHANGED Meter!vars
<1>a. TypeOK /\ TrackerTyped
  BY DEF Typed, TypeOK
<1>1. CASE Tick \/ Switch \/ ClockSet
  BY <1>1 DEF Tick, Switch, ClockSet, tracker, Meter!vars
<1>2. CASE Frame
  <2>1. CASE pump = 0
    BY <1>2, <1>a, <2>1, MeterDoses DEF Frame, SeenOff, TrackerTyped, Meter!Next
  <2>2. CASE pump # 0
    BY <1>2, <1>a, <2>2, MeterDoses DEF Frame, SeenOn, TypeOK, Meter!Next
  <2>. QED  BY <2>1, <2>2
<1>3. CASE UnreadableFrame
  <2>1. CASE SeenAbsent
    BY <1>3, <2>1 DEF UnreadableFrame, SeenAbsent, Meter!vars
  <2>2. CASE SeenOff
    BY <1>3, <1>a, <2>2, MeterDoses DEF UnreadableFrame, SeenOff, TrackerTyped, Meter!Next
  <2>. QED  BY <1>3, <2>1, <2>2 DEF UnreadableFrame
<1>4. CASE \E S \in (SUBSET Counters) \ {{}} : Reset(S)
  BY <1>4 DEF Reset, Meter!Next, Meter!Reset, Meter!Counters, Counters
<1>5. CASE Save
  BY <1>5 DEF Save, tracker, Meter!Next, Meter!Keep
<1>6. ASSUME NEW c \in Counters, Seed(c) PROVE Meter!Next \/ UNCHANGED Meter!vars
  <2>1. CASE restored
    BY <1>6, <2>1 DEF Seed, Meter!vars
  <2>2. CASE ~restored
    BY <1>6, <2>2 DEF Seed, Meter!Next, Meter!Adopt, Meter!Counters, Counters
  <2>. QED  BY <2>1, <2>2
<1>7. CASE Unload
  <2>1. CASE tracked
    BY <1>7, <2>1 DEF Unload, tracker, Meter!Next, Meter!Keep
  <2>2. CASE ~tracked
    BY <1>7, <2>2 DEF Unload, tracker, Untracked, Meter!vars
  <2>. QED  BY <2>1, <2>2
<1>8. CASE Setup \/ Crash
  <2>1. Load /\ UNCHANGED file
    BY <1>8 DEF Setup, Crash
  <2>. QED
    BY <2>1 DEF Load, Nothing, Zero, Counters, Meter!Next, Meter!Recall,
                Meter!Nothing, Meter!Zero, Meter!Counters
<1>9. CASE UNCHANGED vars
  BY <1>9 DEF vars, tracker, Meter!vars
<1>. QED  BY <1>1, <1>2, <1>3, <1>4, <1>5, <1>6, <1>7, <1>8, <1>9 DEF Next

\* The tracker is a meter, for every set of rates and every cap: each frame adds
\* the same bounded dose to both counters, and a restart brings back what was
\* kept, which the sensors leave alone.
THEOREM TrackerIsAMeter == Spec => ImplementsMeter
<1>1. Init => Typed /\ Untracked /\ Meter!Init
  BY TypeInit DEF Init, Untracked, Zero, Nothing, Counters,
                  Meter!Init, Meter!Zero, Meter!Nothing, Meter!Counters
<1>2. Typed /\ Untracked /\ [Next]_vars => (Typed /\ Untracked)'
  BY TypeStep, UntrackedStep
<1>3. Typed /\ Untracked /\ [Next]_vars => [Meter!Next]_(Meter!vars)
  BY MeterStep
<1>. QED  BY <1>1, <1>2, <1>3, PTL DEF Spec, ImplementsMeter, Meter!Spec

-----------------------------------------------------------------------------
(* What an open gap can be credited *)

\* No more than the pump dosed in it, when the clock has not run ahead.
LEMMA CreditUpper ==
  ASSUME TypeOK, NEW rate \in Rates, last_on # None => Wall - last_on <= gap
  PROVE  Credit(rate) <= gap * rate
<1>1. rate \in Nat /\ gap \in Nat /\ gap * rate \in Nat
  BY Bounds DEF TypeOK, HistoryTyped
<1>2. CASE last_on = None
  BY <1>1, <1>2 DEF Credit
<1>3. CASE last_on # None
  <2> DEFINE d == Smaller(Larger(Wall - last_on, 0), Cap)
  <2>1. d \in Nat /\ d <= gap
    BY <1>1, <1>3, Bounds DEF TypeOK, TrackerTyped, Wall, Smaller, Larger
  <2>2. Credit(rate) = d * rate \/ Credit(rate) = 0
    BY DEF Credit
  <2> HIDE DEF d
  <2>3. d * rate <= gap * rate
    BY <1>1, <2>1, DoseGrows
  <2>. QED  BY <1>1, <2>2, <2>3
<1>. QED  BY <1>2, <1>3

\* No less than the pump dosed in it, but for what exceeds the cap, when the
\* clock has not fallen behind.
LEMMA CreditLower ==
  ASSUME TypeOK, NEW rate \in Rates, last_on # None, Wall - last_on >= gap
  PROVE  gap * rate - Credit(rate) <= MaxRate * Larger(gap - Cap, 0)
<1>1. /\ rate \in Nat /\ rate > 0 /\ rate <= MaxRate /\ gap \in Nat
      /\ Cap \in Nat /\ MaxRate \in Nat
  BY Bounds DEF TypeOK, HistoryTyped
<1> DEFINE d == Smaller(Larger(Wall - last_on, 0), Cap)
           e == Larger(gap - Cap, 0)
<1>2. d \in Nat /\ e \in Nat /\ gap <= d + e
  BY <1>1 DEF TypeOK, TrackerTyped, Wall, Smaller, Larger
<1>3. Credit(rate) = d * rate
  BY <1>1 DEF Credit, None
<1> HIDE DEF d, e
<1>4. gap * rate <= (d + e) * rate
  BY <1>1, <1>2, DoseGrows
<1>5. e * rate <= e * MaxRate /\ e * MaxRate = MaxRate * e
  BY <1>1, <1>2, DoseGrows
<1>6. (d + e) * rate = d * rate + e * rate
  BY <1>1, <1>2
<1>7. gap * rate \in Nat /\ d * rate \in Nat /\ e * rate \in Nat /\ MaxRate * e \in Nat
  BY <1>1, <1>2
<1>8. gap * rate - Credit(rate) <= MaxRate * e
  BY <1>3, <1>4, <1>5, <1>6, <1>7
<1>. QED  BY <1>8 DEF e

\* Allowances add up.
LEMMA Allowance ==
  ASSUME NEW a \in Nat, NEW b \in Nat
  PROVE  /\ MaxRate * a \in Nat /\ MaxRate * b \in Nat /\ MaxRate * (a + b) \in Nat
         /\ MaxRate * (a + b) = MaxRate * a + MaxRate * b
BY Bounds

LEMMA OneMore ==
  ASSUME NEW a \in Nat
  PROVE  /\ MaxRate * (a + 1) = MaxRate * a + MaxRate
         /\ MaxRate * a \in Nat /\ MaxRate \in Nat
BY Bounds

LEMMA Allows ==
  ASSUME NEW a \in Nat, NEW b \in Nat, a <= b
  PROVE  MaxRate * a \in Nat /\ MaxRate * b \in Nat /\ MaxRate * a <= MaxRate * b
<1>1. a * MaxRate <= b * MaxRate
  BY Bounds, DoseGrows
<1>2. a * MaxRate = MaxRate * a /\ b * MaxRate = MaxRate * b
  BY Bounds
<1>3. MaxRate * a \in Nat /\ MaxRate * b \in Nat
  BY Allowance
<1>. QED  BY <1>1, <1>2, <1>3

-----------------------------------------------------------------------------
(* The estimate does not run ahead *)

\* As long as nothing in the gap can make it too much, the pump runs as the
\* tracker remembers and the clock has not run ahead of real time.
SteadyOver(c) ==
  last_on # None /\ "over" \notin excused =>
    /\ pump = last_rate
    /\ Wall - last_on <= gap
    /\ counters[c] + gap * pump - dosed[c] <= MaxRate * over

\* What an unload has saved is ahead by no more than the counters were.
SavedOver(c) ==
  phase = "closing" =>
    /\ "over" \in excused
    /\ file # Nothing => file[c] - dosed[c] <= MaxRate * over

Ahead(c) ==
  /\ counters[c] - dosed[c] <= MaxRate * over
  /\ SteadyOver(c)
  /\ SavedOver(c)

\* The numbers one counter's step is about.
LEMMA CounterTyped ==
  ASSUME TypeOK, NEW c \in Counters
  PROVE  /\ counters[c] \in Nat /\ dosed[c] \in Nat /\ gap \in Nat /\ over \in Nat
         /\ under \in Nat /\ pump \in Nat /\ pump <= MaxRate /\ Wall \in Int
         /\ last_on \in Int /\ time \in Int /\ skew \in Int
         /\ MaxRate * over \in Nat /\ MaxRate * under \in Nat /\ MaxRate * gap \in Nat
         /\ gap * pump \in Nat
<1>1. /\ counters[c] \in Nat /\ dosed[c] \in Nat /\ gap \in Nat /\ over \in Nat
      /\ under \in Nat
  BY DEF TypeOK, TrackerTyped, HistoryTyped
<1>2. pump \in Nat /\ pump <= MaxRate
  BY Bounds DEF TypeOK
<1>3. Wall \in Int /\ last_on \in Int /\ time \in Int /\ skew \in Int
  BY Bounds DEF TypeOK, TrackerTyped, Wall
<1>. QED  BY <1>1, <1>2, <1>3, Bounds

\* The ticks by which the gap that a frame ends may be credited too much.
OverTicks == IF last_on # None /\ "over" \in excused THEN Cap ELSE 0

CreditedOver(c) == counters'[c] - dosed[c] <= MaxRate * (over + OverTicks)

LEMMA NoDifference == ASSUME NEW n \in Int, NEW m, m = n PROVE n - m = 0
OBVIOUS

LEMMA NothingAdded == ASSUME NEW n \in Nat, NEW m, m = 0 PROVE n + m = n
OBVIOUS

LEMMA ZeroTimes == ASSUME NEW n \in Nat PROVE 0 * n = 0
OBVIOUS

\* What any frame credits for a gap, by the excuses of the gap.
LEMMA CreditOver ==
  ASSUME Typed, NEW c \in Counters, Ahead(c), NEW rate \in Rates,
         "over" \notin excused => rate = last_rate \/ last_on = None,
         counters'[c] = counters[c] + Credit(rate)
  PROVE  CreditedOver(c)
<1>a. TypeOK
  BY DEF Typed
<1>1. /\ counters[c] \in Nat /\ dosed[c] \in Nat /\ over \in Nat
      /\ MaxRate * over \in Nat /\ MaxRate * Cap \in Nat /\ Cap \in Nat
  BY <1>a, CounterTyped, Bounds
<1>2. Credit(rate) \in 0..(MaxRate * Cap) /\ (last_on = None => Credit(rate) = 0)
  BY <1>a, CreditFacts
<1>3. CASE last_on = None
  <2>1. OverTicks = 0
    BY <1>3 DEF OverTicks
  <2>. QED  BY <1>1, <1>2, <1>3, <2>1 DEF Ahead, CreditedOver
<1>4. CASE last_on # None /\ "over" \in excused
  <2>1. MaxRate * (over + Cap) = MaxRate * over + MaxRate * Cap
    BY <1>1, Allowance
  <2>2. OverTicks = Cap
    BY <1>4 DEF OverTicks
  <2>. QED  BY <1>1, <1>2, <2>1, <2>2 DEF Ahead, CreditedOver
<1>5. CASE last_on # None /\ "over" \notin excused
  <2>1. /\ rate = pump /\ Wall - last_on <= gap
        /\ counters[c] + gap * rate - dosed[c] <= MaxRate * over
    BY <1>5 DEF Ahead, SteadyOver
  <2>2. Credit(rate) <= gap * rate
    BY <1>a, <2>1, CreditUpper
  <2>3. gap * rate \in Nat
    BY <1>a, <2>1, CounterTyped
  <2>4. OverTicks = 0 /\ Credit(rate) \in Nat
    BY <1>2, <1>5, Bounds DEF OverTicks
  <2>. QED  BY <1>1, <2>1, <2>2, <2>3, <2>4 DEF CreditedOver
<1>. QED  BY <1>3, <1>4, <1>5

\* The step of a frame, from what it credits.
LEMMA FrameAhead ==
  ASSUME Typed, Typed', NEW c \in Counters, Ahead(c), NEW u \in BOOLEAN, GapEnds(u),
         UNCHANGED <<dosed, file, phase>>,
         CreditedOver(c),
         \/ last_on' = None
         \/ last_on' = Wall' /\ last_rate' = pump' /\ counters'[c] \in Nat
  PROVE  Ahead(c)'
<1>a. TypeOK /\ counters[c] \in Nat /\ dosed[c] \in Nat /\ over \in Nat /\ Cap \in Nat
  BY CounterTyped, Bounds DEF Typed
<1>b. time' \in Int /\ skew' \in Int /\ pump' \in Nat
  BY Bounds DEF Typed, TypeOK, Wall
<1>1. over' = over + OverTicks /\ OverTicks \in Nat
  BY <1>a DEF GapEnds, OverTicks
<1>2. counters'[c] - dosed'[c] <= MaxRate * over'
  BY <1>1 DEF CreditedOver
<1>3. over' \in Nat /\ over <= over' /\ MaxRate * over \in Nat /\ MaxRate * over' \in Nat
      /\ MaxRate * over <= MaxRate * over'
  <2>1. over' \in Nat /\ over <= over'
    BY <1>a, <1>1
  <2>. QED  BY <1>a, <2>1, Allows
<1>4. SavedOver(c)'
  <2>1. CASE phase = "closing"
    <3>1. excused' = excused
      BY <2>1 DEF GapEnds
    <3>2. file # Nothing => file[c] - dosed[c] <= MaxRate * over
      BY <2>1 DEF Ahead, SavedOver
    <3>3. file # Nothing => file[c] \in Nat
      BY <1>a DEF TypeOK, EntryTyped
    <3>. QED  BY <1>a, <1>3, <2>1, <3>1, <3>2, <3>3 DEF Ahead, SavedOver
  <2>2. CASE phase # "closing"
    BY <2>2 DEF SavedOver
  <2>. QED  BY <2>1, <2>2
<1>5. SteadyOver(c)'
  <2>1. CASE phase = "closing"
    BY <2>1 DEF GapEnds, Ahead, SavedOver, SteadyOver
  <2>2. CASE phase # "closing"
    <3>1. gap' = 0
      BY <2>2 DEF GapEnds
    <3>2. CASE last_on' = None
      BY <3>2 DEF SteadyOver
    <3>3. CASE last_on' = Wall' /\ last_rate' = pump' /\ counters'[c] \in Nat
      <4>1. Wall' - last_on' <= gap'
        <5>1. last_on' = Wall' /\ Wall' \in Int
          BY <3>3, <1>b DEF Wall
        <5>2. Wall' - last_on' = 0
          BY <5>1, NoDifference
        <5>. QED  BY <3>1, <5>2
      <4>2. gap' * pump' = 0
        BY <3>1, <1>b, ZeroTimes
      <4>3. counters'[c] + gap' * pump' - dosed'[c] <= MaxRate * over'
        BY <1>a, <1>2, <3>3, <4>2
      <4>. QED  BY <3>3, <4>1, <4>3 DEF SteadyOver
    <3>. QED  BY <3>2, <3>3
  <2>. QED  BY <2>1, <2>2
<1>. QED  BY <1>2, <1>4, <1>5 DEF Ahead

LEMMA AheadStep ==
  ASSUME Typed, Typed', [Next]_vars, NEW c \in Counters, Ahead(c)
  PROVE  Ahead(c)'
<1>a. TypeOK /\ Remembers /\ TypeOK'
  BY DEF Typed
<1>b. /\ counters[c] \in Nat /\ dosed[c] \in Nat /\ gap \in Nat /\ pump \in Nat
      /\ Wall \in Int /\ last_on \in Int /\ time \in Int /\ skew \in Int
      /\ over \in Nat /\ MaxRate * over \in Nat /\ gap * pump \in Nat
  BY <1>a, CounterTyped
<1>c. MaxRate * over' \in Nat
  <2>1. over' \in Nat
    BY <1>a DEF TypeOK, HistoryTyped
  <2>. QED  BY <2>1, Allowance
<1>1. CASE Tick
  <2>1. (gap + 1) * pump = gap * pump + pump
    BY <1>b
  <2>2. Wall' = Wall + 1
    BY <1>1, <1>b DEF Tick, Wall
  <2>3. file # Nothing => file[c] \in Nat
    BY <1>a DEF TypeOK, EntryTyped
  <2>. QED
    BY <1>1, <1>b, <2>1, <2>2, <2>3 DEF Tick, tracker, Ahead, SteadyOver, SavedOver
<1>2. CASE Switch
  BY <1>2 DEF Switch, Event, tracker, Ahead, SteadyOver, SavedOver, Wall
<1>3. CASE ClockSet
  <2>1. CASE skew' = skew - Cap - 1 /\ Event({"under"})
    <3>2. "over" \in excused' <=> "over" \in excused
      BY <2>1 DEF Event
    <3>3. UNCHANGED <<pump, phase, tracker, file, dosed, gap, over>>
      BY <1>3 DEF ClockSet
    <3>4. ASSUME Wall - last_on <= gap PROVE Wall' - last_on <= gap
      BY <1>3, <1>b, <2>1, <3>4, Bounds DEF ClockSet, Wall
    <3>. QED  BY <3>2, <3>3, <3>4 DEF tracker, Ahead, SteadyOver, SavedOver
  <2>2. CASE skew' = skew + Cap + 1 /\ Event({"over"})
    BY <1>3, <2>2 DEF ClockSet, Event, tracker, Ahead, SteadyOver, SavedOver
  <2>. QED  BY <1>3, <2>1, <2>2 DEF ClockSet
<1>off. ASSUME SeenOff
        PROVE  CreditedOver(c)
  <2>1. counters'[c] = counters[c] + Credit(last_rate)
    BY <1>off DEF SeenOff, Add
  <2>2. CASE last_on = None
    <3>1. Credit(last_rate) = 0 /\ OverTicks = 0
      BY <2>2 DEF Credit, OverTicks
    <3>. QED  BY <1>b, <2>1, <3>1 DEF Ahead, CreditedOver
  <2>3. CASE last_on # None
    <3>1. last_rate \in Rates
      BY <1>a, <2>3 DEF Remembers
    <3>. QED  BY <2>1, <3>1, CreditOver
  <2>. QED  BY <2>2, <2>3
<1>4. CASE Frame
  <2>1. CASE pump = 0
    BY <1>4, <1>off, <2>1, FrameAhead DEF Frame, SeenOff
  <2>2. CASE pump # 0
    <3>1. pump \in Rates
      BY <1>a, <2>2 DEF TypeOK
    <3>2. counters'[c] = counters[c] + Credit(pump)
      BY <1>4, <2>2 DEF Frame, SeenOn, Add
    <3>3. CreditedOver(c)
      BY <3>1, <3>2, CreditOver DEF Ahead, SteadyOver
    <3>4. last_on' = Wall' /\ last_rate' = pump' /\ counters'[c] \in Nat
      BY <1>4, <1>a, <2>2 DEF Frame, SeenOn, unitVars, Wall, TypeOK, TrackerTyped
    <3>. QED  BY <1>4, <3>3, <3>4, FrameAhead DEF Frame
  <2>. QED  BY <2>1, <2>2
<1>5. CASE UnreadableFrame
  <2>1. CASE SeenAbsent
    <3>1. CreditedOver(c)
      <4>1. MaxRate * (over + Cap) = MaxRate * over + MaxRate * Cap /\ MaxRate * Cap \in Nat
        BY <1>b, Bounds, Allowance
      <4>2. OverTicks \in {0, Cap}
        BY DEF OverTicks
      <4>. QED  BY <1>b, <2>1, <4>1, <4>2 DEF SeenAbsent, Ahead, CreditedOver
    <3>. QED  BY <1>5, <2>1, <3>1, FrameAhead DEF UnreadableFrame, SeenAbsent
  <2>2. CASE SeenOff
    BY <1>5, <1>off, <2>2, FrameAhead DEF UnreadableFrame, SeenOff
  <2>. QED  BY <1>5, <2>1, <2>2 DEF UnreadableFrame
<1>6. ASSUME NEW S \in SUBSET Counters, Reset(S) PROVE Ahead(c)'
  <2>1. counters'[c] - dosed'[c] <= MaxRate * over
    BY <1>6, <1>b DEF Reset, Ahead
  <2>. QED  BY <1>6, <2>1 DEF Reset, Event, Ahead, SteadyOver, SavedOver
<1>7. CASE Save
  BY <1>7 DEF Save, tracker, history, unitVars, Wall, Ahead, SteadyOver, SavedOver
<1>8. ASSUME NEW d \in Counters, Seed(d) PROVE Ahead(c)'
  <2>1. CASE restored
    BY <1>8, <2>1 DEF Seed, unitVars, Wall, Ahead, SteadyOver, SavedOver
  <2>2. CASE ~restored
    <3>1. counters'[c] - dosed'[c] <= MaxRate * over
      BY <1>8, <1>a, <1>b, <2>2, EarlierTyped
      DEF Seed, Ahead, TypeOK, TrackerTyped, HistoryTyped
    <3>. QED  BY <1>8, <2>2, <3>1 DEF Seed, Ahead, SteadyOver, SavedOver
  <2>. QED  BY <2>1, <2>2
<1>9. CASE Unload
  BY <1>9 DEF Unload, Event, tracker, Ahead, SteadyOver, SavedOver
<1>10. CASE Setup
  <2>1. counters'[c] - dosed'[c] <= MaxRate * over'
    BY <1>10, <1>b, <1>c DEF Setup, Load, history, Zero, Ahead, SavedOver
  <2>. QED  BY <1>10, <2>1 DEF Setup, Load, Ahead, SteadyOver, SavedOver
<1>11. CASE Crash
  <2>1. counters'[c] = dosed'[c] /\ counters'[c] \in Nat /\ MaxRate * over' = 0
    BY <1>11, <1>a, Bounds DEF Crash, Load, TypeOK, TrackerTyped
  <2>. QED  BY <1>11, <2>1 DEF Crash, Load, Ahead, SteadyOver, SavedOver
<1>12. CASE UNCHANGED vars
  BY <1>12 DEF vars, tracker, history, unitVars, Wall, Ahead, SteadyOver, SavedOver
<1>. QED
  BY <1>1, <1>2, <1>3, <1>4, <1>5, <1>6, <1>7, <1>8, <1>9, <1>10, <1>11, <1>12 DEF Next

\* The estimate is ahead of the pump only by what the cap lets one gap credit,
\* once for each gap in which a frame could not tell what happened: for every
\* rate and every cap, however long the outages and wherever the clock is set.
THEOREM EstimateNotAhead == Spec => []NoPhantomDose
<1> DEFINE Inv == Typed /\ \A c \in Counters : Ahead(c)
<1>1. Init => Inv
  <2> SUFFICES ASSUME Init PROVE Inv
    OBVIOUS
  <2>1. Typed
    BY TypeInit
  <2>2. \A c \in Counters : Ahead(c)
    BY Bounds DEF Init, Zero, Ahead, SteadyOver, SavedOver
  <2>. QED  BY <2>1, <2>2
<1>2. Inv /\ [Next]_vars => Inv'
  <2> SUFFICES ASSUME Inv, [Next]_vars PROVE Inv'
    OBVIOUS
  <2>1. Typed'
    BY TypeStep
  <2>2. \A c \in Counters : Ahead(c)'
    BY <2>1, AheadStep
  <2>. QED  BY <2>1, <2>2
<1>3. Inv => NoPhantomDose
  BY DEF NoPhantomDose, Ahead
<1>. QED  BY <1>1, <1>2, <1>3, PTL DEF Spec

-----------------------------------------------------------------------------
(* The estimate does not fall behind *)

\* As long as nothing in the gap can make it too little, a pump that the tracker
\* does not see on is off, one that it does runs as remembered or has stopped,
\* and the clock has not fallen behind real time.
SteadyUnder(c) ==
  "under" \notin excused =>
    /\ last_on = None =>
         /\ pump = 0
         /\ dosed[c] - counters[c] <= MaxRate * under
    /\ last_on # None =>
         /\ pump \in {0, last_rate}
         /\ Wall - last_on >= gap
         /\ dosed[c] - counters[c] <= MaxRate * under + gap * last_rate

\* What an unload has saved is behind by no more than the counters were.
SavedUnder(c) ==
  phase = "closing" =>
    /\ "under" \in excused
    /\ dosed[c] - (IF file = Nothing THEN 0 ELSE file[c]) <= MaxRate * (under + gap)

Behind(c) ==
  /\ dosed[c] - counters[c] <= MaxRate * (under + gap)
  /\ SteadyUnder(c)
  /\ SavedUnder(c)

\* A frame that shows the pump leaves no more open than the gap exceeds the cap.
CreditedUnder(c) == dosed[c] - counters'[c] <= MaxRate * (under + Larger(gap - Cap, 0))

LEMMA CreditUnder ==
  ASSUME Typed, NEW c \in Counters, Behind(c), NEW rate \in Rates,
         last_on # None, rate = last_rate, "under" \notin excused,
         counters'[c] = counters[c] + Credit(rate)
  PROVE  CreditedUnder(c)
<1>a. TypeOK
  BY DEF Typed
<1> DEFINE e == Larger(gap - Cap, 0)
<1>1. /\ counters[c] \in Nat /\ dosed[c] \in Nat /\ under \in Nat /\ gap \in Nat
      /\ MaxRate * under \in Nat /\ gap * rate \in Nat
  BY <1>a, CounterTyped, Bounds
<1>2. Credit(rate) \in Nat
  BY <1>a, CreditFacts, Bounds
<1>3. gap * rate - Credit(rate) <= MaxRate * e
  BY <1>a, CreditLower DEF Behind, SteadyUnder
<1>4. dosed[c] - counters[c] <= MaxRate * under + gap * rate
  BY DEF Behind, SteadyUnder
<1>5. e \in Nat
  BY <1>1, Bounds DEF Larger
<1> HIDE DEF e
<1>6. MaxRate * (under + e) = MaxRate * under + MaxRate * e /\ MaxRate * e \in Nat
  BY <1>1, <1>5, Allowance
<1>7. dosed[c] - (counters[c] + Credit(rate)) <= MaxRate * (under + e)
  BY <1>1, <1>2, <1>3, <1>4, <1>6
<1>. QED  BY <1>7 DEF CreditedUnder, e

\* Nothing was lost and nothing is credited: the pump was off all the time.
LEMMA IdleUnder ==
  ASSUME Typed, NEW c \in Counters, Behind(c),
         last_on = None, "under" \notin excused, counters'[c] = counters[c]
  PROVE  CreditedUnder(c)
<1> DEFINE e == Larger(gap - Cap, 0)
<1>1. /\ counters[c] \in Nat /\ dosed[c] \in Nat /\ under \in Nat /\ gap \in Nat
      /\ MaxRate * under \in Nat
  BY CounterTyped, Bounds DEF Typed
<1>2. e \in Nat
  BY <1>1, Bounds DEF Larger
<1> HIDE DEF e
<1>3. MaxRate * (under + e) = MaxRate * under + MaxRate * e /\ MaxRate * e \in Nat
  BY <1>1, <1>2, Allowance
<1>4. dosed[c] - counters[c] <= MaxRate * under
  BY DEF Behind, SteadyUnder
<1>5. dosed[c] - counters[c] <= MaxRate * (under + e)
  BY <1>1, <1>3, <1>4
<1>. QED  BY <1>5 DEF CreditedUnder, e

\* The step of a frame that ends a gap, from what it credits.
LEMMA GapBehind ==
  ASSUME Typed, Typed', NEW c \in Counters, Behind(c), NEW u \in BOOLEAN, GapEnds(u),
         UNCHANGED <<dosed, file, phase, pump>>, phase = "loaded",
         counters'[c] \in Nat, counters'[c] >= counters[c],
         ~u /\ "under" \notin excused => CreditedUnder(c),
         u \/ (IF pump = 0 THEN last_on' = None ELSE last_on' = Wall' /\ last_rate' = pump)
  PROVE  Behind(c)'
<1>a. /\ counters[c] \in Nat /\ dosed[c] \in Nat /\ under \in Nat /\ gap \in Nat
      /\ MaxRate * under \in Nat /\ MaxRate * gap \in Nat /\ pump \in Nat
  BY CounterTyped DEF Typed
<1>b. Wall' # None /\ Wall' \in Int
  <2>1. time' \in Int /\ skew' \in Int /\ Wall' > None
    BY Bounds DEF Typed, TypeOK
  <2>2. Wall' \in Int
    BY <2>1 DEF Wall
  <2>. QED  BY <2>1, <2>2 DEF None
<1>c. under' \in Nat /\ MaxRate * under' \in Nat
  <2>1. under' \in Nat
    BY DEF Typed, TypeOK, HistoryTyped
  <2>. QED  BY <2>1, Allowance
<1>1. gap' = 0 /\ excused' = (IF u THEN {"under"} ELSE {})
  BY DEF GapEnds
<1>2. dosed'[c] - counters'[c] <= MaxRate * under'
  <2>1. CASE u \/ "under" \in excused
    <3>1. under' = under + gap
      BY <2>1 DEF GapEnds
    <3>2. dosed[c] - counters[c] <= MaxRate * under'
      BY <3>1 DEF Behind
    <3>. QED  BY <1>a, <1>c, <3>2
  <2>2. CASE ~u /\ "under" \notin excused
    <3>1. under' = under + Larger(gap - Cap, 0)
      BY <2>2 DEF GapEnds
    <3>2. dosed[c] - counters'[c] <= MaxRate * under'
      BY <2>2, <3>1 DEF CreditedUnder
    <3>. QED  BY <3>2
  <2>. QED  BY <2>1, <2>2
<1>3. under' + gap' = under'
  BY <1>1, <1>c, NothingAdded
<1>4. SteadyUnder(c)'
  <2>1. CASE u
    BY <1>1, <2>1 DEF SteadyUnder
  <2>2. CASE ~u /\ pump = 0
    BY <1>2, <2>2 DEF SteadyUnder
  <2>3. CASE ~u /\ pump # 0
    <3>1. last_on' = Wall' /\ last_on' # None /\ last_rate' = pump'
      BY <1>b, <2>3
    <3>2. Wall' - last_on' >= gap'
      <4>1. Wall' - last_on' = 0
        BY <1>b, <3>1, NoDifference
      <4>. QED  BY <1>1, <4>1
    <3>3. gap' * last_rate' = 0
      BY <1>a, <1>1, <3>1, ZeroTimes
    <3>4. dosed'[c] - counters'[c] <= MaxRate * under' + gap' * last_rate'
      BY <1>2, <1>c, <3>3
    <3>. QED  BY <3>1, <3>2, <3>4 DEF SteadyUnder
  <2>. QED  BY <2>1, <2>2, <2>3
<1>5. SavedUnder(c)'
  BY DEF SavedUnder
<1>. QED  BY <1>2, <1>3, <1>4, <1>5 DEF Behind

\* A frame after the unload only adds.
LEMMA ClosingBehind ==
  ASSUME Typed, NEW c \in Counters, Behind(c), NEW u \in BOOLEAN, GapEnds(u),
         UNCHANGED <<dosed, file, phase>>, phase = "closing",
         counters'[c] \in Nat, counters'[c] >= counters[c]
  PROVE  Behind(c)'
<1>a. /\ counters[c] \in Nat /\ dosed[c] \in Nat /\ under \in Nat /\ gap \in Nat
      /\ MaxRate * (under + gap) \in Nat
  <2>1. counters[c] \in Nat /\ dosed[c] \in Nat /\ under \in Nat /\ gap \in Nat
    BY CounterTyped DEF Typed
  <2>. QED  BY <2>1, Allowance
<1>1. UNCHANGED <<gap, excused, under>>
  BY DEF GapEnds
<1>2. dosed'[c] - counters'[c] <= MaxRate * (under' + gap')
  <2>1. dosed[c] - counters[c] <= MaxRate * (under + gap)
    BY DEF Behind
  <2>2. dosed[c] - counters'[c] <= MaxRate * (under + gap)
    BY <1>a, <2>1
  <2>. QED  BY <1>1, <2>2
<1>. QED  BY <1>1, <1>2 DEF Behind, SteadyUnder, SavedUnder

\* The tick in which nothing the tracker would miss begins.
LEMMA TickBehind == ASSUME Typed, NEW c \in Counters, Behind(c), Tick PROVE Behind(c)'
<1>a. /\ counters[c] \in Nat /\ dosed[c] \in Nat /\ under \in Nat /\ gap \in Nat
      /\ MaxRate * under \in Nat /\ pump \in Nat /\ pump <= MaxRate
      /\ Wall \in Int /\ last_on \in Int /\ time \in Int /\ skew \in Int
  BY CounterTyped DEF Typed
<1>b. MaxRate * (under + (gap + 1)) = MaxRate * (under + gap) + MaxRate
      /\ MaxRate * (under + gap) \in Nat /\ MaxRate \in Nat
  <2>1. MaxRate * (under + (gap + 1)) = MaxRate * ((under + gap) + 1)
    BY <1>a
  <2>2. under + gap \in Nat
    BY <1>a
  <2>. QED  BY <2>1, <2>2, OneMore
<1>1. /\ dosed'[c] = dosed[c] + pump /\ gap' = gap + 1 /\ Wall' = Wall + 1
      /\ under' + gap' = under + (gap + 1)
  BY <1>a DEF Tick, Wall
<1>2. UNCHANGED <<counters, last_on, last_rate, pump, phase, file, excused, under>>
  BY DEF Tick, tracker
<1>3. dosed'[c] - counters'[c] <= MaxRate * (under' + gap')
  <2>1. dosed[c] - counters[c] <= MaxRate * (under + gap)
    BY DEF Behind
  <2>2. (dosed[c] + pump) - counters[c] <= MaxRate * (under + (gap + 1))
    BY <1>a, <1>b, <2>1
  <2>3. dosed'[c] - counters'[c] = (dosed[c] + pump) - counters[c]
    BY <1>1, <1>2
  <2>4. MaxRate * (under' + gap') = MaxRate * (under + (gap + 1))
    BY <1>1
  <2>. QED  BY <2>2, <2>3, <2>4
<1>4. SavedUnder(c)'
  <2>1. CASE phase = "closing"
    <3> DEFINE held == IF file = Nothing THEN 0 ELSE file[c]
    <3>1. held \in Nat
      BY DEF Typed, TypeOK, EntryTyped
    <3>2. dosed[c] - held <= MaxRate * (under + gap) /\ "under" \in excused
      BY <2>1 DEF Behind, SavedUnder
    <3> HIDE DEF held
    <3>3. (dosed[c] + pump) - held <= MaxRate * (under + (gap + 1))
      BY <1>a, <1>b, <3>1, <3>2
    <3>4. held' = held /\ "under" \in excused'
      BY <1>2, <3>2 DEF held
    <3>5. dosed'[c] - held' <= MaxRate * (under' + gap')
      <4>1. dosed'[c] - held' = (dosed[c] + pump) - held
        BY <1>1, <3>4
      <4>2. MaxRate * (under' + gap') = MaxRate * (under + (gap + 1))
        BY <1>1
      <4>. QED  BY <3>3, <4>1, <4>2
    <3>. QED  BY <3>4, <3>5 DEF SavedUnder, held
  <2>2. CASE phase # "closing"
    BY <1>2, <2>2 DEF SavedUnder
  <2>. QED  BY <2>1, <2>2
<1>5. SteadyUnder(c)'
  <2>1. CASE "under" \in excused
    BY <1>2, <2>1 DEF SteadyUnder
  <2>2. CASE "under" \notin excused /\ last_on = None
    <3>1. pump = 0 /\ dosed[c] - counters[c] <= MaxRate * under
      BY <2>2 DEF Behind, SteadyUnder
    <3>. QED  BY <1>a, <1>1, <1>2, <2>2, <3>1 DEF SteadyUnder
  <2>3. CASE "under" \notin excused /\ last_on # None
    <3>1. /\ pump \in {0, last_rate} /\ Wall - last_on >= gap
          /\ dosed[c] - counters[c] <= MaxRate * under + gap * last_rate
      BY <2>3 DEF Behind, SteadyUnder
    <3>2. last_rate \in Nat /\ gap * last_rate \in Nat
      BY <1>a, <2>3, Bounds DEF Typed, Remembers
    <3>3. (gap + 1) * last_rate = gap * last_rate + last_rate
      BY <1>a, <3>2
    <3>4. (dosed[c] + pump) - counters[c] <= MaxRate * under + (gap + 1) * last_rate
      BY <1>a, <3>1, <3>2, <3>3
    <3>5. (Wall + 1) - last_on >= gap + 1
      BY <1>a, <3>1
    <3>6. pump' \in {0, last_rate'}
      BY <1>2, <3>1
    <3>7. Wall' - last_on' >= gap'
      <4>1. Wall' - last_on' = (Wall + 1) - last_on
        BY <1>1, <1>2
      <4>. QED  BY <1>1, <3>5, <4>1
    <3>8. dosed'[c] - counters'[c] <= MaxRate * under' + gap' * last_rate'
      <4>1. dosed'[c] - counters'[c] = (dosed[c] + pump) - counters[c]
        BY <1>1, <1>2
      <4>2. MaxRate * under' + gap' * last_rate' = MaxRate * under + (gap + 1) * last_rate
        BY <1>1, <1>2
      <4>. QED  BY <3>4, <4>1, <4>2
    <3>. QED  BY <1>2, <2>3, <3>6, <3>7, <3>8 DEF SteadyUnder
  <2>. QED  BY <2>1, <2>2, <2>3
<1>. QED  BY <1>3, <1>4, <1>5 DEF Behind

\* What a frame adds, it adds to both counters.
LEMMA Added ==
  ASSUME Typed, NEW c \in Counters, NEW rate \in Rates \cup {0, None}, Add(Credit(rate))
  PROVE  /\ counters'[c] = counters[c] + Credit(rate)
         /\ counters'[c] \in Nat /\ counters'[c] >= counters[c]
<1>1. Credit(rate) \in Nat /\ counters[c] \in Nat
  BY CreditFacts, CounterTyped, Bounds DEF Typed
<1>2. counters'[c] = counters[c] + Credit(rate)
  BY DEF Add
<1>. QED  BY <1>1, <1>2

LEMMA FrameBehind == ASSUME Typed, Typed', NEW c \in Counters, Behind(c), Frame PROVE Behind(c)'
<1>a. TypeOK /\ Remembers /\ last_rate \in Rates \cup {0, None}
  BY DEF Typed, TypeOK, TrackerTyped
<1>b. GapEnds(FALSE) /\ UNCHANGED <<dosed, file, phase, pump, time, skew>> /\ Wall' = Wall
  BY DEF Frame, unitVars, Wall
<1>1. CASE pump = 0
  <2>1. SeenOff
    BY <1>1 DEF Frame
  <2>2. /\ counters'[c] = counters[c] + Credit(last_rate)
        /\ counters'[c] \in Nat /\ counters'[c] >= counters[c] /\ last_on' = None
    BY <1>a, <2>1, Added DEF SeenOff
  <2>3. CASE phase = "closing"
    BY <1>b, <2>2, <2>3, ClosingBehind
  <2>4. CASE phase # "closing"
    <3>1. phase = "loaded"
      BY <1>a, <2>4 DEF TypeOK, EntryTyped
    <3>2. ASSUME "under" \notin excused PROVE CreditedUnder(c)
      <4>1. CASE last_on = None
        <5>1. Credit(last_rate) = 0 /\ counters[c] \in Nat
          BY <1>a, <4>1, CounterTyped DEF Credit
        <5>. QED  BY <2>2, <3>2, <4>1, <5>1, IdleUnder
      <4>2. CASE last_on # None
        BY <1>a, <2>2, <3>2, <4>2, CreditUnder DEF Remembers
      <4>. QED  BY <4>1, <4>2
    <3>. QED  BY <1>1, <1>b, <2>2, <3>1, <3>2, GapBehind
  <2>. QED  BY <2>3, <2>4
<1>2. CASE pump # 0
  <2>1. SeenOn(pump) /\ pump \in Rates
    BY <1>2, <1>a DEF Frame, TypeOK
  <2>2. /\ counters'[c] = counters[c] + Credit(pump)
        /\ counters'[c] \in Nat /\ counters'[c] >= counters[c]
        /\ last_on' = Wall' /\ last_rate' = pump
    BY <1>b, <2>1, Added DEF SeenOn
  <2>3. CASE phase = "closing"
    BY <1>b, <2>2, <2>3, ClosingBehind
  <2>4. CASE phase # "closing"
    <3>1. phase = "loaded"
      BY <1>a, <2>4 DEF TypeOK, EntryTyped
    <3>2. ASSUME "under" \notin excused PROVE CreditedUnder(c)
      <4>1. last_on # None /\ pump = last_rate
        BY <1>2, <3>2 DEF Behind, SteadyUnder
      <4>. QED  BY <2>1, <2>2, <3>2, <4>1, CreditUnder
    <3>. QED  BY <1>2, <1>b, <2>2, <3>1, <3>2, GapBehind
  <2>. QED  BY <2>3, <2>4
<1>. QED  BY <1>1, <1>2

LEMMA UnreadableBehind ==
  ASSUME Typed, Typed', NEW c \in Counters, Behind(c), UnreadableFrame
  PROVE  Behind(c)'
<1>1. GapEnds(TRUE) /\ UNCHANGED <<dosed, file, phase, pump>>
  BY DEF UnreadableFrame, unitVars
<1>2. counters'[c] \in Nat /\ counters'[c] >= counters[c]
  <2>1. CASE SeenAbsent
    <3>1. counters[c] \in Nat /\ counters' = counters
      BY <2>1, CounterTyped DEF SeenAbsent, Typed
    <3>. QED  BY <3>1
  <2>2. CASE SeenOff
    BY <2>2, Added DEF SeenOff, Typed, TypeOK, TrackerTyped
  <2>. QED  BY <2>1, <2>2 DEF UnreadableFrame
<1>3. CASE phase = "closing"
  BY <1>1, <1>2, <1>3, ClosingBehind
<1>4. CASE phase # "closing"
  <2>1. phase = "loaded"
    BY <1>4 DEF Typed, TypeOK, EntryTyped
  <2>. QED  BY <1>1, <1>2, <2>1, GapBehind
<1>. QED  BY <1>3, <1>4

LEMMA BehindStep ==
  ASSUME Typed, Typed', Untracked, [Next]_vars, NEW c \in Counters, Behind(c)
  PROVE  Behind(c)'
<1>a. /\ counters[c] \in Nat /\ dosed[c] \in Nat /\ gap \in Nat /\ under \in Nat
      /\ MaxRate * under \in Nat /\ MaxRate * (under + gap) \in Nat
      /\ pump \in Nat /\ Wall \in Int /\ last_on \in Int /\ skew \in Int /\ time \in Int
  <2>1. under + gap \in Nat
    BY CounterTyped DEF Typed
  <2>. QED  BY <2>1, CounterTyped, OneMore DEF Typed
<1>1. CASE Tick
  BY <1>1, TickBehind
<1>2. CASE Switch
  BY <1>2 DEF Switch, Event, tracker, Behind, SteadyUnder, SavedUnder, Wall
<1>3. CASE ClockSet
  <2>1. CASE skew' = skew - Cap - 1 /\ Event({"under"})
    BY <1>3, <2>1 DEF ClockSet, Event, tracker, Behind, SteadyUnder, SavedUnder
  <2>2. CASE skew' = skew + Cap + 1 /\ Event({"over"})
    <3>1. "under" \in excused' <=> "under" \in excused
      BY <2>2 DEF Event
    <3>2. UNCHANGED <<pump, phase, tracker, file, dosed, gap, under>>
      BY <1>3 DEF ClockSet
    <3>3. ASSUME Wall - last_on >= gap PROVE Wall' - last_on >= gap
      BY <1>3, <1>a, <2>2, <3>3, Bounds DEF ClockSet, Wall
    <3>. QED  BY <3>1, <3>2, <3>3 DEF tracker, Behind, SteadyUnder, SavedUnder
  <2>. QED  BY <1>3, <2>1, <2>2 DEF ClockSet
<1>4. CASE Frame
  BY <1>4, FrameBehind
<1>5. CASE UnreadableFrame
  BY <1>5, UnreadableBehind
<1>level. ASSUME dosed'[c] = counters'[c], counters'[c] \in Nat, phase = "loaded",
                 UNCHANGED <<unitVars, phase, last_on, last_rate, gap, under>>,
                 "under" \in excused' <=> "under" \in excused
          PROVE  Behind(c)'
  <2>1. dosed'[c] - counters'[c] = 0
    BY <1>level, NoDifference
  <2>2. ASSUME "under" \notin excused, last_on # None
        PROVE  dosed'[c] - counters'[c] <= MaxRate * under + gap * last_rate
    <3>1. last_rate \in Nat /\ gap * last_rate \in Nat
      BY <1>a, <2>2, Bounds DEF Typed, Remembers
    <3>. QED  BY <1>a, <2>1, <3>1
  <2>. QED
    BY <1>a, <1>level, <2>1, <2>2 DEF unitVars, Wall, Behind, SteadyUnder, SavedUnder
<1>6. ASSUME NEW S \in SUBSET Counters, Reset(S) PROVE Behind(c)'
  <2>1. "under" \in excused' <=> "under" \in excused
    BY <1>6 DEF Reset, Event
  <2>2. CASE c \in S
    BY <1>6, <1>level, <2>1, <2>2 DEF Reset
  <2>3. CASE c \notin S
    <3>1. dosed'[c] = dosed[c] /\ counters'[c] = counters[c]
      BY <1>6, <2>3 DEF Reset
    <3>. QED
      BY <1>6, <2>1, <3>1 DEF Reset, unitVars, Wall, Behind, SteadyUnder, SavedUnder
  <2>. QED  BY <2>2, <2>3
<1>7. CASE Save
  <2>1. counters # Nothing /\ file' = counters
    BY <1>7 DEF Save, Typed, TypeOK, TrackerTyped, Nothing, Counters
  <2>2. UNCHANGED <<counters, last_on, last_rate, pump, phase, Wall, dosed, gap,
                    excused, under>>
    BY <1>7 DEF Save, tracker, history, unitVars, Wall
  <2>. QED  BY <2>1, <2>2 DEF Behind, SteadyUnder, SavedUnder
<1>8. ASSUME NEW d \in Counters, Seed(d) PROVE Behind(c)'
  <2>1. CASE restored \/ c # d
    <3>1. dosed'[c] = dosed[c] /\ counters'[c] = counters[c]
      BY <1>8, <2>1 DEF Seed, Typed, TypeOK, TrackerTyped, HistoryTyped
    <3>2. "under" \in excused' <=> "under" \in excused
      BY <1>8 DEF Seed
    <3>. QED
      BY <1>8, <3>1, <3>2 DEF Seed, unitVars, Wall, Behind, SteadyUnder, SavedUnder
  <2>2. CASE ~restored /\ c = d
    <3>1. dosed'[c] = counters'[c] /\ counters'[c] \in Nat
      BY <1>8, <2>2, EarlierTyped DEF Seed, Typed, TypeOK, TrackerTyped, HistoryTyped
    <3>2. "under" \in excused' <=> "under" \in excused
      BY <1>8 DEF Seed
    <3>. QED  BY <1>8, <1>level, <3>1, <3>2 DEF Seed
  <2>. QED  BY <2>1, <2>2
<1>9. CASE Unload
  <2>1. (IF file' = Nothing THEN 0 ELSE file'[c]) = counters[c]
    <3>1. CASE tracked
      BY <1>9, <3>1 DEF Unload, Typed, TypeOK, TrackerTyped, Nothing, Counters
    <3>2. CASE ~tracked
      BY <1>9, <3>2 DEF Unload, Untracked, Zero
    <3>. QED  BY <3>1, <3>2
  <2>2. "under" \in excused' /\ UNCHANGED <<counters, dosed, gap, under>>
    BY <1>9 DEF Unload, Event, tracker
  <2>. QED  BY <2>1, <2>2 DEF Behind, SteadyUnder, SavedUnder
<1>10. CASE Setup
  <2>1. counters'[c] = IF file = Nothing THEN 0 ELSE file[c]
    BY <1>10 DEF Setup, Load, Zero
  <2>2. "under" \in excused /\ phase' = "loaded" /\ UNCHANGED <<dosed, gap, excused, under>>
    BY <1>10 DEF Setup, Load, history, Behind, SavedUnder
  <2>. QED  BY <1>10, <2>1, <2>2 DEF Setup, Behind, SteadyUnder, SavedUnder
<1>11. CASE Crash
  <2>1. dosed'[c] - counters'[c] = 0
    <3>1. counters'[c] \in Nat /\ dosed'[c] = counters'[c]
      BY <1>11 DEF Crash, Load, Typed, TypeOK, TrackerTyped
    <3>. QED  BY <3>1, NoDifference
  <2>2. MaxRate * (under' + gap') = 0 /\ excused' = {"under"} /\ phase' = "loaded"
    BY <1>11, Bounds DEF Crash, Load
  <2>. QED  BY <2>1, <2>2 DEF Behind, SteadyUnder, SavedUnder
<1>12. CASE UNCHANGED vars
  BY <1>12 DEF vars, tracker, history, unitVars, Wall, Behind, SteadyUnder, SavedUnder
<1>. QED
  BY <1>1, <1>2, <1>3, <1>4, <1>5, <1>6, <1>7, <1>8, <1>9, <1>10, <1>11, <1>12 DEF Next

\* The estimate is behind the pump only by the gaps in which no frame could tell
\* what happened, by what outages exceed the cap and by the gap still open: for
\* every rate and every cap, and for any order of frames, resets and restarts.
THEOREM EstimateNotBehind == Spec => []NoDoseLost
<1> DEFINE Inv == Typed /\ Untracked /\ \A c \in Counters : Behind(c)
<1>1. Init => Inv
  <2> SUFFICES ASSUME Init PROVE Inv
    OBVIOUS
  <2>1. Typed
    BY TypeInit
  <2>2. \A c \in Counters : Behind(c)
    BY Bounds DEF Init, Zero, Behind, SteadyUnder, SavedUnder
  <2>3. Untracked
    BY DEF Init, Untracked
  <2>. QED  BY <2>1, <2>2, <2>3
<1>2. Inv /\ [Next]_vars => Inv'
  <2> SUFFICES ASSUME Inv, [Next]_vars PROVE Inv'
    OBVIOUS
  <2>1. Typed' /\ Untracked'
    BY TypeStep, UntrackedStep
  <2>2. \A c \in Counters : Behind(c)'
    BY <2>1, BehindStep
  <2>. QED  BY <2>1, <2>2
<1>3. Inv => NoDoseLost
  BY DEF NoDoseLost, Behind
<1>. QED  BY <1>1, <1>2, <1>3, PTL DEF Spec
=============================================================================
