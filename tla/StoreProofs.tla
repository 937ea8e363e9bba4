----------------------------- MODULE StoreProofs ------------------------------
(***************************************************************************)
(* Proofs about what the integration keeps in Home Assistant's Stores:      *)
(* ThrottledStore, when it is written, and FrameLog, the recording that is  *)
(* most of it.                                                              *)
(*                                                                         *)
(* ThrottledStore: for all delays with Short < Delay < Interval, any number *)
(* of set-ups, frames and marks, and any time.  The argument rests on one   *)
(* fact about a running Store: a save that is pending is due within Delay   *)
(* of the last request passed on, so until it is written the throttle holds *)
(* every frame's request back.  Only a mark can move it, and a mark's delay *)
(* is short.                                                                *)
(*                                                                         *)
(* FrameLog: for every ceiling, chunk, batch and grid, records of any       *)
(* length, any number of them, and any clock.  Two facts carry it.  The log *)
(* is always the end of the tape, each line with its time to within a       *)
(* rounding, since a difference is taken from the time a reader will get.   *)
(* And the open chunk came about line by line over the chunks there are now *)
(* (Chain), whichever were dropped since: so encoding it again, which is    *)
(* what a reload does, brings back the very same log.                       *)
(***************************************************************************)
EXTENDS ThrottledStore, FrameLog, SequenceTheorems, WellFoundedInduction, TLAPS

Times == Nat \cup {None}

ClockTyped ==
  /\ now \in Nat /\ phase \in {"running", "stopping", "stopped"}
  /\ current \in Setups /\ closing \in BOOLEAN
  /\ closing => current < MaxSetups
  /\ started \in Setups /\ started <= current

StoreTyped ==
  /\ asked \in [Setups -> Times] /\ timer \in [Setups -> Times]
  /\ nextWrite \in [Setups -> Times] /\ pending \in [Setups -> BOOLEAN]
  /\ mem = [g \in Setups |-> mem[g]]

HistoryTyped ==
  /\ lastShort \in Times /\ lastFrame \in Times /\ since \in Times
  /\ lastWrite \in Nat /\ late \in BOOLEAN

Typed == ClockTyped /\ StoreTyped /\ HistoryTyped

-----------------------------------------------------------------------------
(* What the helpers do *)

\* A running Store with something to write will be due, not in the past and not
\* after the time it was last told.
InTime(g) ==
  /\ timer[g] # None => pending[g] /\ now <= timer[g] /\ timer[g] <= nextWrite[g]
  /\ pending[g] /\ phase = "running" => timer[g] # None

LEMMA DelaySaveEffect ==
  ASSUME Typed, NEW g \in Setups, InTime(g), NEW delay \in Nat, DelaySave(g, delay)
  PROVE  /\ pending' = [pending EXCEPT ![g] = TRUE]
         /\ timer' \in [Setups -> Times] /\ nextWrite' \in [Setups -> Times]
         /\ \A h \in Setups \ {g} : timer'[h] = timer[h] /\ nextWrite'[h] = nextWrite[h]
         /\ timer'[g] # None => now <= timer'[g] /\ timer'[g] <= nextWrite'[g]
         /\ phase = "running" => timer'[g] # None /\ nextWrite'[g] = now + delay
<1> DEFINE next == now + delay
           keeps == timer[g] # None /\ timer[g] < next
<1>1. next \in Nat /\ next # None /\ now <= next
  BY DEF None, Typed, ClockTyped
<1>2. /\ pending' = [pending EXCEPT ![g] = TRUE]
      /\ timer' = [timer EXCEPT ![g] = IF keeps THEN @
                                       ELSE IF phase = "running" THEN next ELSE None]
      /\ nextWrite' = [nextWrite EXCEPT ![g] = IF keeps \/ phase = "running"
                                               THEN next ELSE @]
  BY DEF DelaySave
<1>3. timer[g] \in Times /\ nextWrite[g] \in Times /\ None \in Times /\ next \in Times
  BY <1>1 DEF Typed, StoreTyped, Times
<1>4. /\ timer'[g] = IF keeps THEN timer[g] ELSE IF phase = "running" THEN next ELSE None
      /\ nextWrite'[g] = IF keeps \/ phase = "running" THEN next ELSE nextWrite[g]
      /\ timer' \in [Setups -> Times] /\ nextWrite' \in [Setups -> Times]
      /\ \A h \in Setups \ {g} : timer'[h] = timer[h] /\ nextWrite'[h] = nextWrite[h]
  <2> HIDE DEF keeps, next
  <2>. QED  BY <1>2, <1>3 DEF Typed, StoreTyped
<1>5. keeps => now <= timer[g] /\ timer[g] <= next
  BY <1>1, <1>3 DEF InTime, Typed, ClockTyped, Times, None
<1>6. /\ timer'[g] # None => now <= timer'[g] /\ timer'[g] <= nextWrite'[g]
      /\ phase = "running" => timer'[g] # None /\ nextWrite'[g] = next
  <2>1. keeps => timer[g] # None
    OBVIOUS
  <2> HIDE DEF keeps, next
  <2>. QED  BY <1>1, <1>4, <1>5, <2>1
<1>. QED  BY <1>2, <1>4, <1>6

\* A request that is passed on stamps the interval; one held back does nothing.
LEMMA RequestEffect ==
  ASSUME NEW g, NEW delay, Request(g, delay)
  PROVE  \/ Throttled(g, delay) /\ UNCHANGED <<asked, pending, timer, nextWrite>>
         \/ /\ ~Throttled(g, delay) /\ DelaySave(g, delay)
            /\ asked' = [asked EXCEPT ![g] = now]
BY DEF Request

LEMMA Delays == Delay \in Nat /\ Short \in Nat /\ Interval \in Nat
                /\ 0 < Short /\ Short < Delay /\ Delay < Interval
BY DelaysAssumption DEF DelaysAssumption

\* A mark is always passed on.
LEMMA ShortPasses == ASSUME NEW g PROVE ~Throttled(g, Short)
BY Delays DEF Throttled

-----------------------------------------------------------------------------
(* Types *)

\* The store's part of a request, of either kind.
LEMMA RequestTyped ==
  ASSUME Typed, NEW g \in Setups, InTime(g), NEW delay \in Nat, Request(g, delay),
         UNCHANGED <<now, phase, current>>
  PROVE  /\ asked' \in [Setups -> Times] /\ timer' \in [Setups -> Times]
         /\ nextWrite' \in [Setups -> Times] /\ pending' \in [Setups -> BOOLEAN]
<1>1. now \in Times
  BY DEF Typed, ClockTyped, Times
<1>2. CASE Throttled(g, delay) /\ UNCHANGED <<asked, pending, timer, nextWrite>>
  BY <1>2 DEF Typed, StoreTyped
<1>3. CASE /\ ~Throttled(g, delay) /\ DelaySave(g, delay)
           /\ asked' = [asked EXCEPT ![g] = now]
  <2>1. /\ pending' = [pending EXCEPT ![g] = TRUE]
        /\ timer' \in [Setups -> Times] /\ nextWrite' \in [Setups -> Times]
    BY <1>1, <1>3, DelaySaveEffect
  <2>. QED  BY <1>1, <1>3, <2>1 DEF Typed, StoreTyped
<1>. QED  BY <1>2, <1>3, RequestEffect

LEMMA NewCoordinatorTyped ==
  ASSUME Typed, NewCoordinator, current < MaxSetups
  PROVE  /\ current' \in Setups /\ current' = current + 1 /\ closing' = FALSE
         /\ mem' = [g \in Setups |-> mem'[g]] /\ mem'[current'] = file
         /\ \A g \in Setups : g # current' => mem'[g] = mem[g]
         /\ lastWrite' = now /\ newer' = {}
<1>1. current \in Setups /\ current + 1 \in Setups /\ current' = current + 1
  BY SetupsAssumption DEF SetupsAssumption, NewCoordinator, Typed, ClockTyped, Setups
<1>2. mem' = [mem EXCEPT ![current'] = file] /\ mem = [g \in Setups |-> mem[g]]
  BY <1>1 DEF NewCoordinator, Typed, StoreTyped
<1>3. /\ mem' = [g \in Setups |-> mem'[g]] /\ mem'[current'] = file
      /\ \A g \in Setups : g # current' => mem'[g] = mem[g]
  <2> DEFINE c == current'
  <2>1. c \in Setups /\ mem' = [mem EXCEPT ![c] = file] /\ mem = [g \in Setups |-> mem[g]]
    BY <1>1, <1>2
  <2> HIDE DEF c
  <2>2. /\ mem' = [g \in Setups |-> mem'[g]] /\ mem'[c] = file
        /\ \A g \in Setups : g # c => mem'[g] = mem[g]
    BY <2>1
  <2>. QED  BY <2>2 DEF c
<1>. QED  BY <1>1, <1>3 DEF NewCoordinator

LEMMA TypedStep ==
  Typed /\ (\A g \in Setups : InTime(g)) /\ [Next]_vars => Typed'
<1> SUFFICES ASSUME Typed, \A g \in Setups : InTime(g), [Next]_vars
             PROVE  ClockTyped' /\ StoreTyped' /\ HistoryTyped'
  BY DEF Typed, ClockTyped, StoreTyped, HistoryTyped
<1> USE DEF store, history
<1>t. /\ ClockTyped /\ StoreTyped /\ HistoryTyped /\ current \in Setups
      /\ InTime(current) /\ now \in Times
  BY DEF Typed, ClockTyped, Times
<1>0. ASSUME NEW g \in Setups, NEW delay \in Nat, Request(g, delay), Hold(g),
             UNCHANGED <<now, phase, current, started, closing>>
      PROVE  StoreTyped' /\ ClockTyped'
  <2>1. mem' = [h \in Setups |-> mem'[h]]
    BY <1>0, <1>t DEF Hold, StoreTyped
  <2>. QED  BY <1>0, <1>t, <2>1, RequestTyped DEF StoreTyped, ClockTyped
<1>1. ASSUME NEW delay \in Nat, Request(current, delay), Record,
             UNCHANGED <<now, phase, current, started, closing>>
      PROVE  StoreTyped' /\ since' \in Times /\ ClockTyped'
  BY <1>0, <1>1, <1>t DEF Record, HistoryTyped
<1>12. ASSUME NEW g \in Replaced, MarkOfReplaced(g)
       PROVE  ClockTyped' /\ StoreTyped' /\ HistoryTyped'
  <2>1. g \in Setups /\ Short \in Nat
    BY Delays DEF Replaced
  <2>. QED  BY <1>0, <1>12, <1>t, <2>1 DEF MarkOfReplaced, HistoryTyped
<1>2. CASE Frame
  BY <1>1, <1>2, <1>t, Delays DEF Frame, HistoryTyped
<1>3. CASE Mark
  BY <1>1, <1>3, <1>t, Delays DEF Mark, HistoryTyped
<1>4. CASE Tick
  BY <1>4, <1>t DEF Tick, ClockTyped, StoreTyped, HistoryTyped
<1>5. ASSUME NEW g \in Setups, Due(g) PROVE ClockTyped' /\ StoreTyped' /\ HistoryTyped'
  BY <1>5, <1>t DEF Due, Write, ClockTyped, StoreTyped, HistoryTyped, Times
<1>6. CASE Unload
  BY <1>6, <1>t DEF Unload, Write, ClockTyped, StoreTyped, HistoryTyped, Times
<1>7. CASE Setup
  <2>1. current < MaxSetups
    BY <1>7, <1>t DEF Setup, ClockTyped
  <2>. QED  BY <1>7, <1>t, <2>1, NewCoordinatorTyped
            DEF Setup, ClockTyped, StoreTyped, HistoryTyped, Setups
<1>8. CASE Stop
  BY <1>8, <1>t DEF Stop, ClockTyped, StoreTyped, HistoryTyped
<1>9. CASE FinalWrite
  BY <1>9, <1>t DEF FinalWrite, ClockTyped, StoreTyped, HistoryTyped, Times
<1>10. CASE Restart
  <2>1. /\ NewCoordinator /\ current < MaxSetups /\ phase' = "running" /\ now' = now
        /\ started' = current + 1
    BY <1>10 DEF Restart
  <2>2. /\ current' \in Setups /\ current' = current + 1 /\ closing' = FALSE
        /\ mem' = [g \in Setups |-> mem'[g]] /\ lastWrite' = now
    BY <2>1, NewCoordinatorTyped
  <2>3. ClockTyped'
    <3>1. now' \in Nat /\ started' \in Setups /\ started' <= current'
      BY <1>t, <2>1, <2>2 DEF ClockTyped, Setups
    <3>. QED  BY <2>1, <2>2, <3>1, Zenon DEF ClockTyped
  <2>4. StoreTyped'
    BY <1>10, <1>t, <2>2 DEF Restart, StoreTyped, Times
  <2>5. HistoryTyped'
    BY <1>10, <1>t, <2>2 DEF Restart, HistoryTyped, ClockTyped
  <2>. QED  BY <2>3, <2>4, <2>5
<1>11. CASE UNCHANGED vars
  BY <1>11, <1>t DEF vars, ClockTyped, StoreTyped, HistoryTyped
<1> HIDE DEF store, history
<1>. QED
  BY <1>2, <1>3, <1>4, <1>5, <1>6, <1>7, <1>8, <1>9, <1>10, <1>11, <1>12, Zenon DEF Next

LEMMA TypeOKParts ==
  TypeOK <=>
    /\ phase \in {"running", "stopping", "stopped"} /\ current \in Setups
    /\ \A g \in Setups : InTime(g)
    /\ \A g \in Setups : asked[g] <= now
    /\ \A g \in Setups : g > current => mem[g] = {} /\ ~pending[g]
    /\ phase = "stopped" => \A g \in Setups : ~pending[g]
BY DEF TypeOK, InTime

-----------------------------------------------------------------------------
(* The stores are in time *)

\* What a request does to the stores of an entry that is not stopped.
LEMMA RequestInTime ==
  ASSUME Typed, TypeOK, NEW c \in Setups, c <= current, NEW delay \in Nat,
         Request(c, delay), phase # "stopped", UNCHANGED <<now, phase, current>>
  PROVE  /\ \A g \in Setups : InTime(g)'
         /\ \A g \in Setups : asked'[g] <= now'
         /\ \A g \in Setups : g > current => ~pending'[g]
<1> USE TypeOKParts
<1>1. current \in Setups /\ now \in Nat /\ (\A g \in Setups : InTime(g))
  BY DEF Typed, ClockTyped
<1>2. CASE Throttled(c, delay) /\ UNCHANGED <<asked, pending, timer, nextWrite>>
  BY <1>2 DEF InTime
<1>3. CASE /\ ~Throttled(c, delay) /\ DelaySave(c, delay)
           /\ asked' = [asked EXCEPT ![c] = now]
  <2>1. /\ pending' = [pending EXCEPT ![c] = TRUE]
        /\ \A h \in Setups \ {c} : timer'[h] = timer[h] /\ nextWrite'[h] = nextWrite[h]
        /\ timer'[c] # None => now <= timer'[c]
                                     /\ timer'[c] <= nextWrite'[c]
        /\ phase = "running" => timer'[c] # None
    BY <1>1, <1>3, DelaySaveEffect
  <2>2. \A g \in Setups : pending'[g] = (g = c \/ pending[g])
    BY <2>1 DEF Typed, StoreTyped
  <2>3. ASSUME NEW g \in Setups PROVE InTime(g)'
    <3>1. CASE g = c
      BY <2>1, <2>2, <3>1 DEF InTime
    <3>2. CASE g # c
      BY <1>1, <2>1, <2>2, <3>2 DEF InTime
    <3>. QED  BY <3>1, <3>2
  <2>4. \A g \in Setups : asked'[g] <= now'
    BY <1>1, <1>3 DEF Typed, StoreTyped
  <2>5. \A g \in Setups : g > current => ~pending'[g]
    <3>1. \A g \in Setups : g > current => ~pending[g] /\ g # c
      BY <1>1 DEF Setups
    <3>. QED  BY <2>2, <3>1
  <2>. QED  BY <2>3, <2>4, <2>5
<1>. QED  BY <1>2, <1>3, RequestEffect

LEMMA TypeOKStep == Typed /\ TypeOK /\ [Next]_vars => TypeOK'
<1> SUFFICES ASSUME Typed, TypeOK, [Next]_vars PROVE TypeOK'
  OBVIOUS
<1> USE DEF store, history
<1>t. /\ ClockTyped /\ StoreTyped /\ now \in Nat /\ current \in Setups
      /\ Setups \subseteq Nat /\ \A g \in Setups : timer[g] \in Times /\ asked[g] \in Times
  BY DEF Typed, ClockTyped, StoreTyped, Setups
<1>s. /\ \A g \in Setups : InTime(g)
      /\ \A g \in Setups : asked[g] <= now
      /\ \A g \in Setups : g > current => mem[g] = {} /\ ~pending[g]
  BY TypeOKParts
<1>p. TypeOK' <=>
        /\ phase' \in {"running", "stopping", "stopped"} /\ current' \in Setups
        /\ \A g \in Setups : InTime(g)'
        /\ \A g \in Setups : asked'[g] <= now'
        /\ \A g \in Setups : g > current' => mem'[g] = {} /\ ~pending'[g]
        /\ phase' = "stopped" => \A g \in Setups : ~pending'[g]
  BY DEF TypeOK, InTime
<1>1. ASSUME NEW c \in Setups, c <= current, NEW delay \in Nat, Request(c, delay), Hold(c),
             phase # "stopped", UNCHANGED <<now, phase, current>>
      PROVE  TypeOK'
  <2>1. \A g \in Setups : g > current => mem'[g] = mem[g]
    BY <1>1, <1>t DEF Hold, StoreTyped
  <2>2. /\ \A g \in Setups : InTime(g)'
        /\ \A g \in Setups : asked'[g] <= now'
        /\ \A g \in Setups : g > current => ~pending'[g]
    BY <1>1, RequestInTime
  <2>. QED  BY <1>1, <1>p, <1>s, <1>t, <2>1, <2>2 DEF ClockTyped
<1>2. CASE Frame
  BY <1>1, <1>2, <1>t, Delays DEF Frame, Record
<1>3. CASE Mark
  BY <1>1, <1>3, <1>t, Delays DEF Mark, Record
<1>12. ASSUME NEW g \in Replaced, MarkOfReplaced(g) PROVE TypeOK'
  <2>1. g \in Setups /\ g <= current
    BY <1>t DEF Replaced, ClockTyped
  <2>. QED  BY <1>1, <1>12, <2>1, Delays DEF MarkOfReplaced
<1>4. CASE Tick
  <2>1. \A g \in Setups : InTime(g)'
    BY <1>4, <1>s, <1>t DEF Tick, InTime, Times
  <2>2. \A g \in Setups : asked'[g] <= now'
    BY <1>4, <1>s, <1>t DEF Tick, Times, None
  <2>. QED  BY <1>4, <1>p, <1>s, <1>t, <2>1, <2>2 DEF Tick, ClockTyped
<1>5. ASSUME NEW g \in Setups, Due(g) PROVE TypeOK'
  <2>1. /\ phase' = phase /\ current' = current /\ mem' = mem /\ asked' = asked /\ now' = now
        /\ nextWrite' = nextWrite /\ timer[g] = now
        /\ \A h \in Setups \ {g} : timer'[h] = timer[h] /\ pending'[h] = pending[h]
        /\ \/ phase = "running" /\ now < nextWrite[g] /\ timer'[g] = nextWrite[g]
              /\ pending'[g] = pending[g]
           \/ phase = "running" /\ timer'[g] = None /\ pending'[g] = FALSE
           \/ phase # "running" /\ timer'[g] = None /\ pending'[g] = pending[g]
    BY <1>5, <1>t DEF Due, Write, StoreTyped
  <2>2. nextWrite[g] \in Times /\ timer[g] # None /\ pending[g]
    <3>1. nextWrite[g] \in Times /\ timer[g] # None
      BY <1>t, <2>1 DEF StoreTyped, None
    <3>. QED  BY <1>s, <3>1 DEF InTime
  <2>3. InTime(g)'
    <3>1. CASE phase = "running" /\ now < nextWrite[g] /\ timer'[g] = nextWrite[g]
               /\ pending'[g] = pending[g]
      <4>1. nextWrite[g] \in Nat /\ nextWrite[g] # None
        BY <1>t, <2>2, <3>1 DEF Times, None
      <4>. QED  BY <1>t, <2>1, <2>2, <3>1, <4>1 DEF InTime
    <3>2. CASE timer'[g] = None /\ (phase # "running" \/ ~pending'[g])
      BY <2>1, <3>2 DEF InTime
    <3>. QED  BY <2>1, <3>1, <3>2
  <2>4. \A h \in Setups \ {g} : InTime(h)'
    BY <1>s, <2>1 DEF InTime
  <2>5. \A h \in Setups : h > current => ~pending'[h]
    BY <1>s, <2>1, <2>2
  <2>6. phase # "stopped"
    BY <2>2, TypeOKParts
  <2>. QED  BY <1>p, <1>s, <1>t, <2>1, <2>3, <2>4, <2>5, <2>6 DEF ClockTyped
<1>6. CASE Unload
  <2>1. /\ phase' = phase /\ current' = current /\ mem' = mem /\ asked' = asked /\ now' = now
        /\ nextWrite' = nextWrite /\ phase = "running"
        /\ \A h \in Setups \ {current} : timer'[h] = timer[h] /\ pending'[h] = pending[h]
        /\ timer'[current] = None /\ pending'[current] = FALSE
    BY <1>6, <1>t DEF Unload, Write, StoreTyped
  <2>2. \A h \in Setups : InTime(h)'
    BY <1>s, <2>1 DEF InTime
  <2>. QED  BY <1>p, <1>s, <1>t, <2>1, <2>2
<1>7. CASE Setup
  <2>1. current < MaxSetups /\ phase' = phase /\ phase = "running" /\ NewCoordinator
        /\ UNCHANGED <<now, asked, pending, timer, nextWrite>>
    BY <1>7, <1>t DEF Setup, ClockTyped
  <2>2. current' = current + 1 /\ current' \in Setups
        /\ \A g \in Setups : g # current' => mem'[g] = mem[g]
    BY <2>1, NewCoordinatorTyped
  <2>3. \A g \in Setups : InTime(g)'
    BY <1>s, <2>1 DEF InTime
  <2>. QED  BY <1>p, <1>s, <1>t, <2>1, <2>2, <2>3
<1>8. CASE Stop
  BY <1>8, <1>p, <1>s, <1>t DEF Stop, InTime
<1>9. CASE FinalWrite
  <2>1. \A g \in Setups : ~pending'[g] /\ timer'[g] = None
    BY <1>9 DEF FinalWrite
  <2>2. \A g \in Setups : InTime(g)'
    BY <2>1 DEF InTime
  <2>. QED  BY <1>9, <1>p, <1>s, <1>t, <2>1, <2>2 DEF FinalWrite
<1>10. CASE Restart
  <2>1. \A g \in Setups : ~pending'[g] /\ timer'[g] = None
    BY <1>10 DEF Restart
  <2>2. \A g \in Setups : InTime(g)'
    BY <2>1 DEF InTime
  <2>3. current' = current + 1 /\ current' \in Setups
        /\ \A g \in Setups : g # current' => mem'[g] = mem[g]
    BY <1>10, NewCoordinatorTyped DEF Restart
  <2>. QED  BY <1>10, <1>p, <1>s, <1>t, <2>1, <2>2, <2>3 DEF Restart
<1>11. CASE UNCHANGED vars
  BY <1>11 DEF vars, TypeOK
<1> HIDE DEF store, history
<1>. QED
  BY <1>2, <1>3, <1>4, <1>5, <1>6, <1>7, <1>8, <1>9, <1>10, <1>11, <1>12, Zenon DEF Next

LEMMA InitTyped == Init => Typed /\ TypeOK
<1> SUFFICES ASSUME Init PROVE Typed /\ TypeOK
  OBVIOUS
<1>1. 1 \in Setups /\ None \in Times
  BY SetupsAssumption DEF SetupsAssumption, Setups, Times
<1>2. ClockTyped /\ StoreTyped /\ HistoryTyped
  <2>1. ClockTyped
    <3>1. now \in Nat /\ started \in Setups /\ started <= current
      BY <1>1 DEF Init
    <3>. QED  BY <1>1, <3>1, Zenon DEF Init, ClockTyped
  <2>2. StoreTyped
    BY <1>1 DEF Init, StoreTyped
  <2>3. HistoryTyped
    BY <1>1 DEF Init, HistoryTyped, Times
  <2>. QED  BY <2>1, <2>2, <2>3
<1>3. TypeOK
  BY <1>1 DEF Init, TypeOK, None
<1>. QED  BY <1>2, <1>3 DEF Typed

-----------------------------------------------------------------------------
(* What each step does to the current coordinator's store *)

Unchanged(g) == pending'[g] = pending[g] /\ nextWrite'[g] = nextWrite[g] /\ asked'[g] = asked[g]

\* The request of this step is passed on, to be written after delay.
PassedOn(delay) ==
  /\ pending'[current] /\ asked'[current] = now
  /\ phase = "running" => nextWrite'[current] = now + delay
  /\ since' = IF pending[current] THEN since ELSE now

LEMMA PassedOnEffect ==
  ASSUME Typed, TypeOK, NEW delay \in Nat, Request(current, delay),
         ~Throttled(current, delay), Record
  PROVE  PassedOn(delay) /\ \A g \in Setups \ {current} : Unchanged(g)
<1>1. current \in Setups /\ InTime(current)
  BY TypeOKParts
<1>2. DelaySave(current, delay) /\ asked' = [asked EXCEPT ![current] = now]
  BY RequestEffect
<1>3. /\ pending' = [pending EXCEPT ![current] = TRUE]
      /\ \A h \in Setups \ {current} : nextWrite'[h] = nextWrite[h]
      /\ phase = "running" => nextWrite'[current] = now + delay
  BY <1>1, <1>2, DelaySaveEffect
<1>4. since' = IF pending[current] THEN since ELSE now
  BY <1>1, <1>3 DEF Record, Typed, StoreTyped
<1>. QED  BY <1>1, <1>2, <1>3, <1>4 DEF PassedOn, Unchanged, Typed, StoreTyped

\* A frame or a mark is held by the coordinator and not yet written.
Recorded ==
  /\ mem'[current] = mem[current] \cup {Fresh} /\ newer' = newer \cup {Fresh}
  /\ phase # "stopped" /\ UNCHANGED <<now, phase, current, file, lastWrite, late>>
  /\ \A g \in Setups \ {current} : Unchanged(g)

LEMMA RecordEffect == Typed /\ Record => mem'[current] = mem[current] \cup {Fresh}
                                         /\ newer' = newer \cup {Fresh}
<1> SUFFICES ASSUME Typed, Record PROVE mem'[current] = mem[current] \cup {Fresh}
                                         /\ newer' = newer \cup {Fresh}
  OBVIOUS
<1> DEFINE new == mem[current] \cup {Fresh}
<1>1. mem' = [mem EXCEPT ![current] = new] /\ newer' = newer \cup {Fresh}
  BY DEF Record, Hold
<1>2. current \in Setups /\ mem = [g \in Setups |-> mem[g]]
  BY DEF Typed, ClockTyped, StoreTyped
<1> HIDE DEF new
<1>3. mem'[current] = new
  BY <1>1, <1>2
<1>. QED  BY <1>1, <1>3 DEF new

LEMMA FrameEffect ==
  ASSUME Typed, TypeOK, Frame
  PROVE  /\ Recorded /\ lastFrame' = now /\ UNCHANGED <<marks, lastShort>>
         /\ \/ /\ asked[current] # None /\ now - asked[current] < Interval
               /\ Unchanged(current) /\ since' = since
            \/ ~Throttled(current, Delay) /\ PassedOn(Delay)
<1>1. /\ Record /\ Request(current, Delay) /\ phase # "stopped" /\ lastFrame' = now
      /\ UNCHANGED <<now, phase, current, file, marks, lastShort, lastWrite, late>>
  BY DEF Frame
<1>2. CASE Throttled(current, Delay)
  <2>1. UNCHANGED <<asked, pending, timer, nextWrite>>
    BY <1>1, <1>2, RequestEffect
  <2>2. since' = since
    BY <1>1, <2>1 DEF Record
  <2>. QED  BY <1>1, <1>2, <2>1, <2>2, RecordEffect DEF Recorded, Unchanged, Throttled
<1>3. CASE ~Throttled(current, Delay)
  <2>1. PassedOn(Delay) /\ \A g \in Setups \ {current} : Unchanged(g)
    BY <1>1, <1>3, PassedOnEffect, Delays
  <2>. QED  BY <1>1, <1>3, <2>1, RecordEffect DEF Recorded
<1>. QED  BY <1>2, <1>3

LEMMA MarkEffect ==
  ASSUME Typed, TypeOK, Mark
  PROVE  /\ Recorded /\ PassedOn(Short) /\ UNCHANGED lastFrame
         /\ marks' = marks \cup {Fresh} /\ lastShort' = now
<1>1. /\ Record /\ Request(current, Short) /\ phase # "stopped"
      /\ marks' = marks \cup {Fresh} /\ lastShort' = now
      /\ UNCHANGED <<now, phase, current, file, lastFrame, lastWrite, late>>
  BY DEF Mark
<1>2. PassedOn(Short) /\ \A g \in Setups \ {current} : Unchanged(g)
  BY <1>1, PassedOnEffect, ShortPasses, Delays
<1>. QED  BY <1>1, <1>2, RecordEffect DEF Recorded

\* A coordinator that was replaced takes a mark, and its Store will save it.
Astray ==
  /\ late' = TRUE /\ Unchanged(current) /\ asked'[current] = asked[current]
  /\ mem'[current] = mem[current] /\ phase # "stopped"
  /\ \A g \in Setups : g > current => asked'[g] = asked[g]
  /\ UNCHANGED <<now, phase, current, file, marks, lastShort, lastFrame, lastWrite,
                 since, newer>>

LEMMA AstrayEffect ==
  ASSUME Typed, TypeOK, NEW g \in Replaced, MarkOfReplaced(g) PROVE Astray
<1>1. /\ g \in Setups /\ g # current /\ g < current /\ InTime(g) /\ current \in Setups
      /\ Setups \subseteq Nat
  BY TypeOKParts DEF Replaced, Setups
<1>2. /\ DelaySave(g, Short) /\ asked' = [asked EXCEPT ![g] = now]
  BY RequestEffect, ShortPasses DEF MarkOfReplaced
<1>3. /\ pending' = [pending EXCEPT ![g] = TRUE]
      /\ \A h \in Setups \ {g} : nextWrite'[h] = nextWrite[h]
  BY <1>1, <1>2, DelaySaveEffect, Delays
<1>4. Unchanged(current)
  BY <1>1, <1>2, <1>3 DEF Unchanged, Typed, StoreTyped
<1>5. mem'[current] = mem[current]
  BY <1>1 DEF MarkOfReplaced, Hold, Typed, StoreTyped
<1>6. \A h \in Setups : h > current => asked'[h] = asked[h]
  BY <1>1, <1>2 DEF Typed, StoreTyped
<1>. QED  BY <1>4, <1>5, <1>6 DEF MarkOfReplaced, Astray, Unchanged

\* The file takes what coordinator g holds, and its store has nothing pending.
Written(g) ==
  /\ phase = "running" /\ file' = mem[g] /\ pending' = [pending EXCEPT ![g] = FALSE]
  /\ lastWrite' = IF g = current THEN now ELSE lastWrite
  /\ newer' = IF g = current THEN {} ELSE newer
  /\ late' = IF g = current THEN \E h \in Setups \ {g} : pending[h] ELSE late
  /\ UNCHANGED <<phase, current, mem, asked, nextWrite, marks, lastShort, lastFrame,
                 since>>

\* Nothing a property speaks of changes, or time passes, or it is the end.
Idles ==
  /\ phase' = phase \/ phase' # "running"
  /\ phase' = phase \/ phase' # "stopped"
  /\ UNCHANGED <<current, mem, asked, pending, nextWrite, file, marks, lastShort,
                 lastFrame, lastWrite, since, newer, late>>

LEMMA DueEffect == ASSUME NEW g \in Setups, Due(g) PROVE Idles \/ Written(g)
BY DEF Due, Write, Idles, Written

LEMMA TickEffect == Tick => Idles
BY DEF Tick, Idles, store, history

LEMMA StopEffect == Stop => Idles
BY DEF Stop, Idles, store, history

LEMMA UnloadEffect == Unload => Written(current)
BY DEF Unload, Write, Written

LEMMA StutterEffect == UNCHANGED vars => Idles
BY DEF vars, store, history, Idles

\* A coordinator whose memory is the file takes over.
Successor ==
  /\ current' = current + 1 /\ current' \in Setups
  /\ mem'[current'] = file /\ lastWrite' = now /\ newer' = {}
  /\ marks' = marks \cap file /\ phase' = "running" /\ now' = now
  /\ UNCHANGED <<asked, nextWrite, file, lastShort, lastFrame, since>>

LEMMA SetupEffect == ASSUME Typed, Setup
                     PROVE  Successor /\ pending' = pending /\ late' = \E g \in Setups : pending[g]
<1>1. current < MaxSetups
  BY DEF Setup, Typed, ClockTyped
<1>. QED  BY <1>1, NewCoordinatorTyped DEF Setup, Successor, store

LEMMA RestartEffect ==
  ASSUME Typed, Restart
  PROVE  Successor /\ late' = FALSE /\ \A g \in Setups : ~pending'[g]
BY NewCoordinatorTyped DEF Restart, Successor

-----------------------------------------------------------------------------
(* The throttle while a save is pending *)

\* Coordinators still to come have made no request.
NoneAhead == \A g \in Setups : g > current => asked[g] = None

\* A pending save is due within Delay of the last request passed on.
PendingThrottles ==
  phase = "running" /\ pending[current] =>
    asked[current] # None /\ nextWrite[current] <= asked[current] + Delay

\* With nothing pending, what was asked for has been written, and the last frame
\* came within an interval of the last write.
WrittenSinceAsked ==
  phase = "running" /\ ~pending[current] =>
    asked[current] <= lastWrite /\ lastFrame - lastWrite < Interval

\* Until a pending save is written, frames are held back.
LEMMA HeldBack ==
  ASSUME Typed, TypeOK, PendingThrottles, phase = "running", pending[current]
  PROVE  Throttled(current, Delay)
<1>1. /\ now \in Nat /\ asked[current] \in Nat /\ timer[current] \in Nat
      /\ nextWrite[current] \in Nat /\ timer[current] # None
  <2>1. current \in Setups /\ timer[current] # None /\ asked[current] # None
        /\ now <= timer[current] /\ timer[current] <= nextWrite[current]
    BY TypeOKParts DEF InTime, PendingThrottles
  <2>. QED  BY <2>1 DEF Typed, ClockTyped, StoreTyped, Times, None
<1>2. now <= timer[current] /\ timer[current] <= nextWrite[current]
  BY <1>1, TypeOKParts DEF InTime
<1>3. nextWrite[current] <= asked[current] + Delay
  BY DEF PendingThrottles
<1>4. now - asked[current] < Interval
  BY <1>1, <1>2, <1>3, Delays
<1>5. asked[current] # None /\ Delay >= Delay
  BY Delays DEF PendingThrottles
<1>. QED  BY <1>4, <1>5 DEF Throttled

\* The kinds of steps, as the invariants see them.
LEMMA StepKinds ==
  ASSUME Typed, TypeOK, [Next]_vars
  PROVE  \/ Frame \/ Mark \/ Astray \/ Idles \/ (\E g \in Setups : pending[g] /\ Written(g))
         \/ (phase = "running" /\ ~pending[current] /\ Written(current))
         \/ Setup \/ Restart \/ FinalWrite
<1>1. ASSUME NEW g \in Setups, Due(g)
      PROVE  Idles \/ (pending[g] /\ Written(g))
  <2>1. timer[g] = now /\ now # None
    BY <1>1 DEF Due, Typed, ClockTyped, None
  <2>. QED  BY <1>1, <2>1, DueEffect, TypeOKParts DEF InTime
<1>2. ASSUME Unload
      PROVE  \/ \E g \in Setups : pending[g] /\ Written(g)
             \/ phase = "running" /\ ~pending[current] /\ Written(current)
  BY <1>2, UnloadEffect, TypeOKParts DEF Unload
<1>3. ASSUME NEW g \in Replaced, MarkOfReplaced(g) PROVE Astray
  BY <1>3, AstrayEffect
<1>. QED  BY <1>1, <1>2, <1>3, TickEffect, StopEffect, StutterEffect, Zenon DEF Next

LEMMA NoneAheadStep == Typed /\ TypeOK /\ NoneAhead /\ [Next]_vars => NoneAhead'
<1> SUFFICES ASSUME Typed, TypeOK, NoneAhead, [Next]_vars PROVE NoneAhead'
  OBVIOUS
<1>t. current \in Nat /\ Setups \subseteq Nat
  BY DEF Typed, ClockTyped, Setups
<1>1. ASSUME Recorded PROVE NoneAhead'
  <2>1. current' = current /\ \A g \in Setups \ {current} : asked'[g] = asked[g]
    BY <1>1, Zenon DEF Recorded, Unchanged
  <2>2. \A g \in Setups : g > current => g # current
    BY <1>t
  <2>3. \A g \in Setups : g > current => asked'[g] = asked[g]
    BY <2>1, <2>2, Zenon
  <2>. QED  BY <2>1, <2>3, Zenon DEF NoneAhead
<1>2. ASSUME UNCHANGED <<current, asked>> PROVE NoneAhead'
  BY <1>2 DEF NoneAhead
<1>3. ASSUME Successor PROVE NoneAhead'
  BY <1>3, <1>t DEF Successor, NoneAhead
<1>4. ASSUME Astray PROVE NoneAhead'
  BY <1>4 DEF Astray, NoneAhead
<1>. QED  BY <1>1, <1>2, <1>3, <1>4, StepKinds, FrameEffect, MarkEffect, SetupEffect,
             RestartEffect DEF Idles, Written, FinalWrite

LEMMA PendingThrottlesStep ==
  Typed /\ TypeOK /\ PendingThrottles /\ [Next]_vars => PendingThrottles'
<1> SUFFICES ASSUME Typed, TypeOK, PendingThrottles, [Next]_vars,
                    phase' = "running", pending'[current']
             PROVE  asked'[current'] # None /\ nextWrite'[current'] <= asked'[current'] + Delay
  BY DEF PendingThrottles
<1> DEFINE Goal == asked'[current'] # None /\ nextWrite'[current'] <= asked'[current'] + Delay
<1>t. now \in Nat /\ current \in Setups /\ now # None
  BY DEF Typed, ClockTyped, None
<1>0. ASSUME phase = "running", pending[current], current' = current, Unchanged(current)
      PROVE  Goal
  BY <1>0 DEF PendingThrottles, Unchanged
<1>1. CASE Frame
  BY <1>0, <1>1, <1>t, FrameEffect, Delays DEF Recorded, PassedOn, Unchanged
<1>2. CASE Mark
  BY <1>2, <1>t, MarkEffect, Delays DEF Recorded, PassedOn
<1>3. CASE Idles
  BY <1>0, <1>3 DEF Idles, Unchanged
<1>4. ASSUME NEW g \in Setups, Written(g) PROVE Goal
  BY <1>0, <1>4, <1>t DEF Written, Unchanged, Typed, StoreTyped
<1>5. CASE Setup
  <2>1. Successor /\ pending' = pending
    BY <1>5, SetupEffect
  <2>2. ~pending[current']
    BY <1>t, <2>1, TypeOKParts DEF Successor, Setups
  <2>. QED  BY <2>1, <2>2
<1>6. CASE Restart
  BY <1>6, RestartEffect DEF Successor
<1>7. CASE FinalWrite
  BY <1>7 DEF FinalWrite
<1>8. CASE Astray
  BY <1>0, <1>8 DEF Astray, Unchanged
<1>. QED  BY <1>1, <1>2, <1>3, <1>4, <1>5, <1>6, <1>7, <1>8, <1>t, StepKinds

\* No frame is from the future.
FrameIsPast == lastFrame <= now

LEMMA FrameIsPastStep == Typed /\ FrameIsPast /\ [Next]_vars => FrameIsPast'
<1> SUFFICES ASSUME Typed, FrameIsPast, [Next]_vars PROVE lastFrame' <= now'
  BY DEF FrameIsPast
<1>1. now \in Nat /\ lastFrame \in Times /\ lastFrame <= now
  BY DEF Typed, ClockTyped, HistoryTyped, FrameIsPast
<1>2. lastFrame' = lastFrame \/ (lastFrame' = now /\ now' = now)
  BY DEF Next, vars, store, history, Frame, Mark, MarkOfReplaced, Tick, Due, Unload, Setup, Stop,
         FinalWrite, Restart
<1>3. now' = now \/ now' = now + 1
  BY DEF Next, vars, store, history, Frame, Mark, MarkOfReplaced, Tick, Due, Unload, Setup, Stop,
         FinalWrite, Restart
<1>. QED  BY <1>1, <1>2, <1>3 DEF Times, None

LEMMA WrittenSinceAskedStep ==
  Typed /\ TypeOK /\ NoneAhead /\ FrameIsPast /\ WrittenSinceAsked /\ [Next]_vars
    => WrittenSinceAsked'
<1> SUFFICES ASSUME Typed, TypeOK, NoneAhead, FrameIsPast, WrittenSinceAsked, [Next]_vars,
                    phase' = "running", ~pending'[current']
             PROVE  asked'[current'] <= lastWrite' /\ lastFrame' - lastWrite' < Interval
  BY DEF WrittenSinceAsked
<1> DEFINE Goal == asked'[current'] <= lastWrite' /\ lastFrame' - lastWrite' < Interval
<1>t. /\ now \in Nat /\ current \in Setups /\ lastWrite \in Nat
      /\ asked[current] \in Times /\ asked[current] <= now
  BY TypeOKParts DEF Typed, ClockTyped, StoreTyped, HistoryTyped
<1>f. lastFrame \in Times /\ lastFrame - now < Interval
  <2>1. lastFrame \in Times /\ lastFrame <= now
    BY DEF Typed, HistoryTyped, FrameIsPast
  <2>. QED  BY <1>t, <2>1, Delays DEF Times, None
<1>0. ASSUME phase = "running", ~pending[current], current' = current, Unchanged(current),
             UNCHANGED <<lastWrite, lastFrame>>
      PROVE  Goal
  BY <1>0 DEF WrittenSinceAsked, Unchanged
<1>1. CASE Frame
  <2>1. /\ lastFrame' = now /\ phase = "running" /\ current' = current /\ lastWrite' = lastWrite
        /\ now - asked[current] < Interval /\ Unchanged(current)
    BY <1>1, FrameEffect DEF Recorded, PassedOn
  <2>2. asked[current] <= lastWrite
    BY <2>1 DEF WrittenSinceAsked, Unchanged
  <2>3. now - lastWrite < Interval
    BY <1>t, <2>1, <2>2, Delays DEF Times, None
  <2>. QED  BY <2>1, <2>2, <2>3 DEF Unchanged
<1>2. CASE Mark
  BY <1>2, MarkEffect DEF Recorded, PassedOn
<1>3. CASE Idles
  BY <1>0, <1>3 DEF Idles, Unchanged
<1>4. ASSUME NEW g \in Setups, Written(g) PROVE Goal
  <2>1. CASE g = current
    BY <1>4, <1>f, <1>t, <2>1 DEF Written
  <2>2. CASE g # current
    BY <1>0, <1>4, <1>t, <2>2 DEF Written, Unchanged, Typed, StoreTyped
  <2>. QED  BY <2>1, <2>2
<1>5. ASSUME Successor PROVE Goal
  <2>1. current' \in Setups /\ current' > current
    BY <1>5, <1>t DEF Successor, Setups
  <2>2. asked'[current'] = None
    BY <1>5, <2>1 DEF Successor, NoneAhead
  <2>. QED  BY <1>5, <1>f, <1>t, <2>2 DEF Successor, None
<1>6. CASE FinalWrite
  BY <1>6 DEF FinalWrite
<1>7. CASE Astray
  BY <1>0, <1>7 DEF Astray, Unchanged
<1>. QED  BY <1>1, <1>2, <1>3, <1>4, <1>5, <1>6, <1>7, <1>t, StepKinds, SetupEffect,
             RestartEffect

-----------------------------------------------------------------------------
(* What the file and the coordinators hold *)

\* While no replaced coordinator stands between, only the current one has something
\* to write, ...
OldSettled == ~late => \A g \in Setups : g # current => ~pending[g]

\* ... it holds all the file has, and what the file lacks came since the last write.
FileHeld == ~late => file \subseteq mem[current] /\ mem[current] \ file \subseteq newer

MarksHeld == marks \subseteq mem[current]

LEMMA OldSettledStep == Typed /\ TypeOK /\ OldSettled /\ [Next]_vars => OldSettled'
<1> SUFFICES ASSUME Typed, TypeOK, OldSettled, [Next]_vars, ~late',
                    NEW g \in Setups, g # current'
             PROVE  ~pending'[g]
  BY DEF OldSettled
<1>0. ASSUME ~late, g # current, pending'[g] = pending[g] PROVE ~pending'[g]
  BY <1>0 DEF OldSettled
<1>1. ASSUME Recorded PROVE ~pending'[g]
  BY <1>0, <1>1 DEF Recorded, Unchanged
<1>2. CASE Idles
  BY <1>0, <1>2 DEF Idles
<1>3. ASSUME NEW h \in Setups, Written(h) PROVE ~pending'[g]
  BY <1>0, <1>3 DEF Written, Typed, StoreTyped
<1>4. CASE Setup
  <2>1. pending' = pending /\ ~pending[g]
    BY <1>4, SetupEffect
  <2>. QED  BY <2>1
<1>5. CASE Restart \/ FinalWrite
  BY <1>5 DEF Restart, FinalWrite
<1>. QED  BY <1>1, <1>2, <1>3, <1>4, <1>5, StepKinds, FrameEffect, MarkEffect DEF Typed, ClockTyped, Astray

\* The final write, of the one store that has something to write.
LEMMA FinalWriteEffect ==
  ASSUME Typed, TypeOK, OldSettled, FinalWrite, ~late
  PROVE  /\ file' = mem[current] \/ (file' = file /\ ~pending[current])
         /\ phase' = "stopped"
         /\ UNCHANGED <<current, mem, newer, marks, late>>
<1>1. current \in Setups
  BY DEF Typed, ClockTyped
<1>. QED  BY <1>1 DEF FinalWrite, OldSettled, history

LEMMA FileHeldStep == Typed /\ TypeOK /\ OldSettled /\ FileHeld /\ [Next]_vars => FileHeld'
<1> SUFFICES ASSUME Typed, TypeOK, OldSettled, FileHeld, [Next]_vars, ~late'
             PROVE  file' \subseteq mem'[current'] /\ mem'[current'] \ file' \subseteq newer'
  BY DEF FileHeld
<1> DEFINE Goal == file' \subseteq mem'[current'] /\ mem'[current'] \ file' \subseteq newer'
<1>1. ASSUME Recorded PROVE Goal
  BY <1>1 DEF Recorded, FileHeld
<1>2. CASE Idles
  BY <1>2 DEF Idles, FileHeld
<1>3. ASSUME NEW g \in Setups, Written(g), g = current \/ pending[g] PROVE Goal
  <2>1. g = current
    BY <1>3 DEF Written, OldSettled
  <2>. QED  BY <1>3, <2>1 DEF Written
<1>4. ASSUME Successor PROVE Goal
  BY <1>4 DEF Successor
<1>5. CASE FinalWrite
  <2>1. ~late
    BY <1>5 DEF FinalWrite, history
  <2>. QED  BY <1>5, <2>1, FinalWriteEffect DEF FileHeld
<1>. QED  BY <1>1, <1>2, <1>3, <1>4, <1>5, StepKinds, FrameEffect, MarkEffect, SetupEffect,
             RestartEffect DEF Typed, ClockTyped, Astray

LEMMA MarksHeldStep == Typed /\ TypeOK /\ MarksHeld /\ [Next]_vars => MarksHeld'
<1> SUFFICES ASSUME Typed, TypeOK, MarksHeld, [Next]_vars PROVE marks' \subseteq mem'[current']
  BY DEF MarksHeld
<1>1. CASE Frame \/ Mark
  BY <1>1, FrameEffect, MarkEffect DEF Recorded, MarksHeld
<1>2. CASE UNCHANGED <<current, mem, marks>>
  BY <1>2 DEF MarksHeld
<1>3. CASE Setup \/ Restart
  BY <1>3, SetupEffect, RestartEffect DEF Successor
<1>4. CASE Astray
  BY <1>4 DEF Astray, MarksHeld
<1>. QED  BY <1>1, <1>2, <1>3, <1>4, StepKinds DEF Idles, Written, FinalWrite, history

-----------------------------------------------------------------------------
(* The theorems *)

SaveInv ==
  /\ Typed /\ TypeOK /\ NoneAhead /\ PendingThrottles /\ FrameIsPast /\ WrittenSinceAsked
  /\ OldSettled /\ FileHeld /\ MarksHeld

LEMMA SaveInvariant == Spec => []SaveInv
<1>1. Init => SaveInv
  <2> SUFFICES ASSUME Init PROVE SaveInv
    OBVIOUS
  <2>1. Typed /\ TypeOK
    BY InitTyped
  <2>2. current \in Setups
    BY <2>1 DEF Typed, ClockTyped
  <2>3. NoneAhead /\ PendingThrottles /\ FrameIsPast /\ OldSettled /\ FileHeld /\ MarksHeld
    BY <2>2 DEF Init, NoneAhead, PendingThrottles, FrameIsPast, OldSettled, FileHeld,
                MarksHeld, None
  <2>4. WrittenSinceAsked
    BY <2>2, Delays DEF Init, WrittenSinceAsked, None
  <2>. QED  BY <2>1, <2>3, <2>4 DEF SaveInv
<1>2. SaveInv /\ [Next]_vars => SaveInv'
  <2>1. Typed /\ TypeOK /\ [Next]_vars => Typed'
    BY TypedStep, TypeOKParts
  <2>. QED  BY <2>1, TypeOKStep, NoneAheadStep, PendingThrottlesStep, FrameIsPastStep,
               WrittenSinceAskedStep, OldSettledStep, FileHeldStep, MarksHeldStep DEF SaveInv
<1>. QED  BY <1>1, <1>2, PTL DEF Spec

LEMMA MarkSoonSavedStep == SaveInv /\ MarkSoonSaved /\ [Next]_vars => MarkSoonSaved'
<1> DEFINE Goal == \/ marks' \subseteq file'
                   \/ /\ phase' # "stopped" /\ pending'[current']
                      /\ phase' = "running" => nextWrite'[current'] <= lastShort' + Short
<1> SUFFICES ASSUME SaveInv, MarkSoonSaved, [Next]_vars, ~late' PROVE Goal
  BY DEF MarkSoonSaved
<1>t. Typed /\ TypeOK /\ OldSettled /\ MarksHeld /\ PendingThrottles /\ current \in Setups
      /\ now \in Nat
  BY DEF SaveInv, Typed, ClockTyped
<1>0. ASSUME ~late, Unchanged(current), current' = current,
             UNCHANGED <<marks, file, lastShort>>,
             phase' # "stopped" \/ phase' = phase, phase' # "running" \/ phase' = phase
      PROVE  Goal
  BY <1>0 DEF MarkSoonSaved, Unchanged
<1>1. CASE Frame
  <2>1. Recorded /\ UNCHANGED <<marks, lastShort>>
    BY <1>1, <1>t, FrameEffect
  <2>2. CASE Unchanged(current)
    BY <1>0, <2>1, <2>2 DEF Recorded
  <2>3. CASE ~Throttled(current, Delay) /\ PassedOn(Delay)
    <3>1. ~(phase = "running" /\ pending[current])
      BY <1>t, <2>3, HeldBack
    <3>. QED  BY <2>1, <2>3, <3>1 DEF Recorded, PassedOn, MarkSoonSaved
  <2>. QED  BY <1>1, <1>t, <2>2, <2>3, FrameEffect
<1>2. CASE Mark
  BY <1>2, <1>t, MarkEffect, Delays DEF Recorded, PassedOn
<1>3. CASE Idles
  BY <1>0, <1>3 DEF Idles, Unchanged
<1>4. ASSUME NEW g \in Setups, Written(g), g = current \/ pending[g] PROVE Goal
  <2>1. g = current
    BY <1>4, <1>t DEF Written, OldSettled
  <2>. QED  BY <1>4, <1>t, <2>1 DEF Written, MarksHeld
<1>5. ASSUME Successor PROVE Goal
  BY <1>5 DEF Successor
<1>6. CASE FinalWrite
  <2>1. ~late
    BY <1>6 DEF FinalWrite, history
  <2>2. file' = mem[current] \/ (file' = file /\ ~pending[current])
    BY <1>6, <1>t, <2>1, FinalWriteEffect
  <2>. QED  BY <1>6, <1>t, <2>1, <2>2 DEF FinalWrite, history, MarkSoonSaved, MarksHeld
<1>. QED  BY <1>1, <1>2, <1>3, <1>4, <1>5, <1>6, <1>t, StepKinds, SetupEffect, RestartEffect
  DEF Astray

\* Every mark is in the file, or is about to be within the short delay of the
\* last one, whatever frames, writes, reloads, stops and crashes come in between:
\* unless a replaced coordinator (a frame late in its unload, or a mark that waited
\* over the reload) has a save to come, or was the last to write.
THEOREM MarksReachTheFile == Spec => []MarkSoonSaved
<1>1. Init => MarkSoonSaved
  BY DEF Init, MarkSoonSaved
<1>. QED  BY <1>1, MarkSoonSavedStep, SaveInvariant, PTL DEF Spec

\* A save that is pending is due in time after the first request or the last mark.
DueInTime ==
  phase = "running" /\ pending[current] =>
    \/ nextWrite[current] <= since + Delay
    \/ nextWrite[current] <= lastShort + Short

LEMMA DueInTimeStep == SaveInv /\ DueInTime /\ [Next]_vars => DueInTime'
<1> DEFINE Goal == \/ nextWrite'[current'] <= since' + Delay
                   \/ nextWrite'[current'] <= lastShort' + Short
<1> SUFFICES ASSUME SaveInv, DueInTime, [Next]_vars, phase' = "running", pending'[current']
             PROVE Goal
  BY DEF DueInTime
<1>t. Typed /\ TypeOK /\ PendingThrottles /\ current \in Setups /\ now \in Nat
  BY DEF SaveInv, Typed, ClockTyped
<1>0. ASSUME phase = "running", pending[current], Unchanged(current), current' = current,
             UNCHANGED <<since, lastShort>>
      PROVE  Goal
  BY <1>0 DEF DueInTime, Unchanged
<1>1. CASE Frame
  <2>1. Recorded /\ UNCHANGED lastShort
    BY <1>1, <1>t, FrameEffect
  <2>2. CASE Unchanged(current) /\ since' = since
    BY <1>0, <2>1, <2>2 DEF Recorded, Unchanged
  <2>3. CASE ~Throttled(current, Delay) /\ PassedOn(Delay)
    <3>1. ~(phase = "running" /\ pending[current])
      BY <1>t, <2>3, HeldBack
    <3>. QED  BY <1>t, <2>1, <2>3, <3>1, Delays DEF Recorded, PassedOn
  <2>. QED  BY <1>1, <1>t, <2>2, <2>3, FrameEffect
<1>2. CASE Mark
  BY <1>2, <1>t, MarkEffect, Delays DEF Recorded, PassedOn
<1>3. CASE Idles
  BY <1>0, <1>3 DEF Idles, Unchanged
<1>4. ASSUME NEW g \in Setups, Written(g) PROVE Goal
  BY <1>0, <1>4, <1>t DEF Written, Unchanged, Typed, StoreTyped
<1>5. CASE Setup
  <2>1. Successor /\ pending' = pending
    BY <1>5, <1>t, SetupEffect
  <2>2. ~pending[current']
    BY <1>t, <2>1, TypeOKParts DEF Successor, Setups
  <2>. QED  BY <2>1, <2>2
<1>6. CASE Restart \/ FinalWrite
  BY <1>6, <1>t, RestartEffect DEF Successor, FinalWrite
<1>7. CASE Astray
  BY <1>0, <1>7 DEF Astray, Unchanged
<1>. QED  BY <1>1, <1>2, <1>3, <1>4, <1>5, <1>6, <1>7, <1>t, StepKinds

\* Frames that follow each other never put a pending save off: it is due within
\* the delay of the first request, or the short one of the last mark.
THEOREM SaveIsNotPostponed == Spec => []NotPostponed
<1>1. Init => DueInTime
  BY SetupsAssumption DEF SetupsAssumption, Init, DueInTime, Setups
<1>2. SaveInv /\ DueInTime => NotPostponed
  BY DEF SaveInv, DueInTime, NotPostponed
<1>. QED  BY <1>1, <1>2, DueInTimeStep, SaveInvariant, PTL DEF Spec

\* What a crash loses while no save is pending came after the last write and
\* within one interval of it, unless a replaced coordinator stands between.
THEOREM CrashLossIsBounded == Spec => []LossIsBounded
<1>1. SaveInv => LossIsBounded
  BY DEF SaveInv, FileHeld, WrittenSinceAsked, LossIsBounded
<1>. QED  BY <1>1, SaveInvariant, PTL

\* Nothing saved is taken out of the file, unless a replaced coordinator has a save
\* to come or was the last to write; the next write of the current one ends that.
THEOREM SavedStaysInFile == Spec => FileKeepsSaved
<1>1. SaveInv /\ [Next]_vars => [~late => file \subseteq file']_file
  <2> SUFFICES ASSUME SaveInv, [Next]_vars, ~late PROVE file \subseteq file'
    OBVIOUS
  <2>t. Typed /\ TypeOK /\ OldSettled /\ FileHeld
    BY DEF SaveInv
  <2>1. ASSUME NEW g \in Setups, Written(g), g = current \/ pending[g]
        PROVE  file \subseteq file'
    <3>1. g = current
      BY <2>1, <2>t DEF OldSettled
    <3>. QED  BY <2>1, <2>t, <3>1 DEF Written, FileHeld
  <2>2. CASE FinalWrite
    BY <2>2, <2>t, FinalWriteEffect DEF FileHeld
  <2>. QED  BY <2>1, <2>2, <2>t, StepKinds, FrameEffect, MarkEffect, SetupEffect,
               RestartEffect DEF Recorded, Astray, Idles, Successor, Typed, ClockTyped
<1>. QED  BY <1>1, SaveInvariant, PTL DEF Spec, FileKeepsSaved


-----------------------------------------------------------------------------
(* Induction and recursion over the places of a sequence *)

\* Places from 0 on, each there because the one before it is.
LEMMA UpTo ==
  ASSUME NEW n \in Nat, NEW B, 0 \in B, \A i \in 1..n : i - 1 \in B => i \in B
  PROVE  0..n \subseteq B
<1> DEFINE R == OpToRel(<, Nat)
           Missing == {i \in 0..n : i \notin B}
<1>1. IsWellFoundedOn(R, Nat)
  BY NatLessThanWellFounded
<1>2. \A x, y \in Nat : <<y, x>> \in R <=> y < x
  BY DEF OpToRel
<1> HIDE DEF R
<1>3. SUFFICES ASSUME Missing # {} PROVE FALSE
  OBVIOUS
<1>4. Missing \subseteq Nat
  OBVIOUS
<1>5. PICK x \in Missing : \A y \in Missing : ~(<<y, x>> \in R)
  BY <1>1, <1>3, <1>4, WFMin
<1>6. x \in 0..n /\ x # 0 /\ x \notin B
  OBVIOUS
<1>7. x \in 1..n /\ x - 1 \in 0..n /\ x - 1 < x
  BY <1>6
<1>8. x - 1 \in B
  BY <1>2, <1>4, <1>5, <1>7
<1>. QED  BY <1>6, <1>7, <1>8

\* What is left of a sequence from a place on.
LEMMA RestOfSeq ==
  ASSUME NEW S, NEW s \in Seq(S), NEW n, n = Len(s), NEW m \in 0..n
  PROVE  /\ SubSeq(s, m + 1, n) \in Seq(S) /\ Len(SubSeq(s, m + 1, n)) = n - m
         /\ \A i \in 1..(n - m) : SubSeq(s, m + 1, n)[i] = s[m + i]
<1>1. n \in Nat
  OBVIOUS
<1>2. SubSeq(s, m + 1, n) \in Seq(S)
  BY <1>1
<1>3. Len(SubSeq(s, m + 1, n)) = n - m
  BY <1>1
<1>4. ASSUME NEW i \in 1..(n - m) PROVE SubSeq(s, m + 1, n)[i] = s[m + i]
  BY <1>1
<1>. QED  BY <1>2, <1>3, <1>4

\* The results of a recursion along s, from base in S: one after each place.
Runs(S, step, base, n, s) ==
  {f \in [0..n -> S] : f[0] = base /\ \A j \in 1..n : f[j] = step[<<f[j - 1], s[j]>>]}

LEMMA RunExists ==
  ASSUME NEW S, NEW T, NEW step \in [S \X T -> S], NEW base \in S,
         NEW n \in Nat, NEW s \in [1..n -> T]
  PROVE  Runs(S, step, base, n, s) # {}
<1> DEFINE Run(i, f) == /\ f \in [0..i -> S] /\ f[0] = base
                        /\ \A j \in 1..i : f[j] = step[<<f[j - 1], s[j]>>]
           B == {i \in 0..n : \E f : Run(i, f)}
<1>1. 0 \in B
  <2> DEFINE g == [j \in 0..0 |-> base]
  <2>1. Run(0, g)
    OBVIOUS
  <2> HIDE DEF g
  <2>2. 0 \in 0..n
    OBVIOUS
  <2>. QED  BY <2>1, <2>2
<1>2. ASSUME NEW i \in 1..n, i - 1 \in B PROVE i \in B
  <2>1. PICK f : Run(i - 1, f)
    BY <1>2
  <2> DEFINE g == [j \in 0..i |-> IF j = i THEN step[<<f[i - 1], s[i]>>] ELSE f[j]]
  <2>2. i - 1 \in 0..(i - 1) /\ i \in Nat
    OBVIOUS
  <2>3. step[<<f[i - 1], s[i]>>] \in S
    BY <2>1, <2>2
  <2>4. \A j \in 0..(i - 1) : j \in 0..i /\ j # i
    OBVIOUS
  <2>5. g \in [0..i -> S] /\ g[0] = base /\ g[i] = step[<<f[i - 1], s[i]>>]
        /\ \A j \in 0..(i - 1) : g[j] = f[j]
    BY <2>1, <2>3, <2>4
  <2>6. \A j \in 1..i : g[j] = step[<<g[j - 1], s[j]>>]
    <3> HIDE DEF g
    <3>1. TAKE j \in 1..i
    <3>2. CASE j = i
      BY <2>2, <2>5, <3>2
    <3>3. CASE j # i
      <4>1. j \in 1..(i - 1) /\ j \in 0..(i - 1) /\ j - 1 \in 0..(i - 1)
        BY <3>3
      <4>. QED  BY <2>1, <2>5, <4>1
    <3>. QED  BY <3>2, <3>3
  <2> HIDE DEF g
  <2>. QED  BY <2>5, <2>6
<1> HIDE DEF B
<1>3. 0..n \subseteq B
  BY <1>1, <1>2, UpTo
<1>4. n \in B
  BY <1>3
<1>. QED  BY <1>4 DEF B, Runs

-----------------------------------------------------------------------------
(* Sums *)

\* The sums of a sequence's beginnings.
Sums(s) == {f \in [0..Len(s) -> Int] :
              f[0] = 0 /\ \A j \in 1..Len(s) : f[j] = f[j - 1] + s[j]}

\* Total is the last of them, whichever way they are found.
LEMMA TotalIs ==
  ASSUME NEW s \in Seq(Int)
  PROVE  /\ Sums(s) # {}
         /\ \A f \in Sums(s) : Total(s) = f[Len(s)]
<1> DEFINE n == Len(s)
           step == [p \in Int \X Int |-> p[1] + p[2]]
           sum[i \in 0..n] == IF i = 0 THEN 0 ELSE sum[i - 1] + s[i]
<1>1. n \in Nat /\ s \in [1..n -> Int] /\ step \in [Int \X Int -> Int]
      /\ 0 \in Int
  OBVIOUS
<1>2. PICK f \in Runs(Int, step, 0, n, s) : TRUE
  <2> HIDE DEF step, n
  <2>1. Runs(Int, step, 0, n, s) # {}
    BY <1>1, RunExists
  <2>. QED  BY <2>1
<1>2a. /\ f \in [0..n -> Int] /\ f[0] = 0
       /\ \A j \in 1..n : f[j] = step[<<f[j - 1], s[j]>>]
  BY <1>2 DEF Runs
<1>3. \A j \in 1..n : f[j] = f[j - 1] + s[j]
  <2>1. TAKE j \in 1..n
  <2>2. j - 1 \in 0..n
    BY <1>1
  <2>3. <<f[j - 1], s[j]>> \in Int \X Int
    BY <1>1, <1>2a, <2>2
  <2>. QED  BY <1>2a, <2>3
<1>4. f \in Sums(s)
  BY <1>2a, <1>3 DEF Sums
<1>5. f = [i \in 0..n |-> IF i = 0 THEN 0 ELSE f[i - 1] + s[i]]
  <2>1. \A i \in 0..n : f[i] = IF i = 0 THEN 0 ELSE f[i - 1] + s[i]
    BY <1>1, <1>2a, <1>3
  <2>. QED  BY <1>2a, <2>1
<1>6. sum = [i \in 0..n |-> IF i = 0 THEN 0 ELSE sum[i - 1] + s[i]]
  <2> HIDE DEF n
  <2>. QED  BY <1>5
<1>7. Total(s) = sum[n]
  BY DEF Total
<1> HIDE DEF sum
<1>8. ASSUME NEW g \in Sums(s) PROVE g[n] = sum[n]
  <2> DEFINE B == {i \in 0..n : g[i] = sum[i]}
  <2>1. 0 \in B
    BY <1>1, <1>6, <1>8 DEF Sums
  <2>2. ASSUME NEW i \in 1..n, i - 1 \in B PROVE i \in B
    <3>1. i \in 0..n /\ i # 0
      BY <1>1
    <3>2. sum[i] = sum[i - 1] + s[i]
      BY <1>6, <3>1
    <3>3. g[i] = g[i - 1] + s[i]
      BY <1>8 DEF Sums
    <3>. QED  BY <2>2, <3>1, <3>2, <3>3
  <2> HIDE DEF B
  <2>3. 0..n \subseteq B
    BY <1>1, <2>1, <2>2, UpTo
  <2>4. n \in 0..n
    BY <1>1
  <2>5. n \in B
    BY <2>3, <2>4
  <2>. QED  BY <2>5 DEF B
<1>. QED  BY <1>4, <1>7, <1>8

LEMMA TotalEmpty == Total(<<>>) = 0
<1>1. <<>> \in Seq(Int) /\ Len(<<>>) = 0
  OBVIOUS
<1>2. PICK f : f \in Sums(<<>>)
  BY <1>1, TotalIs
<1>. QED  BY <1>1, <1>2, TotalIs DEF Sums

LEMMA TotalAppend ==
  ASSUME NEW s \in Seq(Nat), NEW x \in Nat
  PROVE  /\ Total(s) \in Int
         /\ Total(Append(s, x)) = Total(s) + x
<1> DEFINE n == Len(s)
           r == Append(s, x)
<1>1. n \in Nat /\ s \in Seq(Int) /\ r \in Seq(Int) /\ Len(r) = n + 1
      /\ r[n + 1] = x /\ \A i \in 1..n : r[i] = s[i]
  OBVIOUS
<1> HIDE DEF r
<1>2. PICK f : f \in Sums(r)
  BY <1>1, TotalIs
<1> DEFINE g == [i \in 0..n |-> f[i]]
<1>2a. f \in [0..(n + 1) -> Int] /\ f[0] = 0
       /\ \A j \in 1..(n + 1) : f[j] = f[j - 1] + r[j]
  BY <1>1, <1>2 DEF Sums
<1>3. g \in Sums(s)
  <2>1. g \in [0..n -> Int] /\ g[0] = 0
    BY <1>1, <1>2a
  <2>2. \A j \in 1..n : g[j] = g[j - 1] + s[j]
    BY <1>1, <1>2a
  <2>. QED  BY <2>1, <2>2 DEF Sums
<1>4. Total(s) = g[n] /\ g[n] = f[n]
  BY <1>1, <1>3, TotalIs
<1>5. Total(r) = f[n + 1] /\ f[n + 1] = f[n] + x /\ f[n] \in Int
  <2>1. n + 1 \in 1..(n + 1) /\ (n + 1) - 1 = n /\ n \in 0..(n + 1)
    BY <1>1
  <2>2. Total(r) = f[n + 1]
    BY <1>1, <1>2, TotalIs
  <2>. QED  BY <1>1, <1>2a, <2>1, <2>2
<1>. QED  BY <1>4, <1>5 DEF r

\* Of natural numbers, the sums are natural numbers and bounded by the largest one.
LEMMA SumsBound ==
  ASSUME NEW s \in Seq(Nat), NEW b \in Nat, NEW f \in Sums(s)
  PROVE  /\ \A i \in 0..Len(s) : f[i] \in Nat
         /\ (\A i \in 1..Len(s) : s[i] <= b) => f[Len(s)] <= Len(s) * b
<1> DEFINE n == Len(s)
           C == {i \in 0..n : f[i] \in Nat}
           B == {i \in 0..n : f[i] <= i * b}
<1>1. /\ n \in Nat /\ s \in [1..n -> Nat]
      /\ f \in [0..n -> Int] /\ f[0] = 0
      /\ \A j \in 1..n : f[j] = f[j - 1] + s[j]
  BY DEF Sums
<1>2. \A j \in 1..n : j - 1 \in 0..n /\ j \in 0..n
  BY <1>1
<1> HIDE DEF n
<1>3. 0..n \subseteq C
  <2>1. 0 \in C
    BY <1>1
  <2>2. ASSUME NEW i \in 1..n, i - 1 \in C PROVE i \in C
    BY <1>1, <1>2, <2>2
  <2> HIDE DEF C
  <2>. QED  BY <1>1, <2>1, <2>2, UpTo
<1>4. ASSUME \A i \in 1..n : s[i] <= b PROVE f[n] <= n * b
  <2>1. 0 \in B
    BY <1>1
  <2>2. ASSUME NEW i \in 1..n, i - 1 \in B PROVE i \in B
    <3>1. i \in 0..n /\ i - 1 \in 0..n /\ f[i] = f[i - 1] + s[i] /\ s[i] <= b
      BY <1>1, <1>2, <1>4
    <3>2. f[i - 1] <= (i - 1) * b
      BY <2>2
    <3>3. (i - 1) * b + b = i * b
      BY <3>1
    <3>4. (i - 1) * b \in Int /\ i * b \in Int /\ f[i - 1] \in Int /\ s[i] \in Int
      BY <1>1, <3>1
    <3>5. f[i] <= i * b
      BY <3>1, <3>2, <3>3, <3>4
    <3>. QED  BY <3>1, <3>5
  <2> HIDE DEF B
  <2>3. 0..n \subseteq B
    BY <1>1, <2>1, <2>2, UpTo
  <2>4. n \in B
    BY <1>1, <2>3
  <2>. QED  BY <2>4 DEF B
<1>. QED  BY <1>3, <1>4 DEF n

LEMMA TotalBound ==
  ASSUME NEW s \in Seq(Nat), NEW b \in Nat
  PROVE  /\ Total(s) \in Nat
         /\ (\A i \in 1..Len(s) : s[i] <= b) => Total(s) <= Len(s) * b
<1>1. s \in Seq(Int) /\ Len(s) \in 0..Len(s)
  OBVIOUS
<1>2. PICK f : f \in Sums(s)
  BY <1>1, TotalIs
<1>3. Total(s) = f[Len(s)]
  BY <1>1, <1>2, TotalIs
<1>. QED  BY <1>1, <1>2, <1>3, SumsBound

\* The sum of the last ones is no more than the sum of all.
LEMMA TotalOfRest ==
  ASSUME NEW s \in Seq(Nat), NEW k \in 0..Len(s)
  PROVE  /\ Total(SubSeq(s, k + 1, Len(s))) <= Total(s)
         /\ k = Len(s) - 1 => Total(SubSeq(s, k + 1, Len(s))) = s[Len(s)]
<1> DEFINE n == Len(s)
           r == SubSeq(s, k + 1, n)
<1>1. /\ n \in Nat /\ s \in Seq(Int) /\ r \in Seq(Int) /\ Len(r) = n - k
      /\ \A j \in 1..(n - k) : r[j] = s[k + j]
  OBVIOUS
<1>2. PICK f : f \in Sums(s)
  BY <1>1, TotalIs
<1>3. f \in [0..n -> Int] /\ \A j \in 1..n : f[j] = f[j - 1] + s[j]
  BY <1>2 DEF Sums
<1>3a. k \in 0..n
  OBVIOUS
<1> HIDE DEF r, n
<1> DEFINE g == [j \in 0..(n - k) |-> f[k + j] - f[k]]
<1>4. g \in Sums(r)
  <2>1. g \in [0..(n - k) -> Int] /\ g[0] = 0
    <3>1. \A j \in 0..(n - k) : k + j \in 0..n /\ k \in 0..n
      BY <1>1, <1>3a
    <3>2. ASSUME NEW j \in 0..(n - k) PROVE f[k + j] - f[k] \in Int
      <4>1. f[k + j] \in Int /\ f[k] \in Int
        BY <1>3, <3>1
      <4>. QED  BY <4>1
    <3>3. 0 \in 0..(n - k) /\ k + 0 = k /\ f[k] \in Int
      BY <1>1, <1>3, <1>3a
    <3>. QED  BY <3>2, <3>3
  <2>2. ASSUME NEW j \in 1..(n - k) PROVE g[j] = g[j - 1] + r[j]
    <3>1. k + j \in 1..n /\ j - 1 \in 0..(n - k) /\ j \in 0..(n - k)
          /\ k + (j - 1) = (k + j) - 1 /\ (k + j) - 1 \in 0..n
          /\ k + j \in 0..n
      BY <1>1, <1>3a
    <3>2. g[j] = f[k + j] - f[k] /\ g[j - 1] = f[(k + j) - 1] - f[k]
      BY <3>1
    <3>3. f[k + j] = f[(k + j) - 1] + s[k + j] /\ r[j] = s[k + j]
      BY <1>1, <1>3, <3>1
    <3>4. f[k] \in Int /\ f[(k + j) - 1] \in Int /\ f[k + j] \in Int
      BY <1>3, <1>3a, <3>1
    <3>5. s[k + j] \in Int
      BY <1>1, <3>1 DEF n
    <3> HIDE DEF g
    <3>. QED  BY <3>2, <3>3, <3>4, <3>5
  <2> HIDE DEF g
  <2>. QED  BY <1>1, <2>1, <2>2 DEF Sums
<1>5. Total(r) = g[n - k] /\ Total(s) = f[n]
  <2> HIDE DEF g
  <2>1. Total(r) = g[n - k]
    BY <1>1, <1>4, TotalIs
  <2>2. Total(s) = f[n]
    BY <1>1, <1>2, TotalIs DEF n
  <2>. QED  BY <2>1, <2>2
<1>6. f[k] \in Nat /\ f[n] \in Nat
  <2>1. \A i \in 0..n : f[i] \in Nat
    BY <1>2, SumsBound DEF n
  <2>. QED  BY <1>1, <1>3a, <2>1
<1>6a. g[n - k] = f[n] - f[k]
  <2>1. n - k \in 0..(n - k) /\ k + (n - k) = n
    BY <1>1, <1>3a
  <2>. QED  BY <2>1
<1>7. k = n - 1 => f[n] = f[k] + s[n]
  BY <1>1, <1>3, <1>3a
<1>8. k = n - 1 => s[n] \in Nat
  BY <1>1, <1>3a DEF n
<1> HIDE DEF g
<1>. QED  BY <1>5, <1>6, <1>6a, <1>7, <1>8 DEF n, r

-----------------------------------------------------------------------------
(* The log's types, and the constants *)

LEMMA Sizes ==
  /\ MaxBytes \in Nat /\ ChunkBytes \in Nat \ {0} /\ ChunkRaw \in Nat \ {0}
  /\ FlushEvery \in Nat \ {0} /\ MaxMarkers \in Nat \ {0}
  /\ Grid \in Nat /\ Grid % 2 = 1 /\ Steps \subseteq Int /\ NoTime \notin Int
  /\ Lengths \subseteq Nat \X Nat /\ MarkLengths \subseteq Nat \X Nat
BY SizesAssumption DEF SizesAssumption

ReadTimes == Int \cup {NoTime}

LineSet == [place : Nat \ {0}, raw : Nat, comp : Nat, mark : BOOLEAN,
            t : ReadTimes, dt : ReadTimes]

ChunkSet == [size : Nat, lines : Seq(LineSet)]

LogSet == [chunks : Seq(ChunkSet), times : Seq(ReadTimes), lines : Seq(LineSet),
           pending : Seq(LineSet), current : Nat, raw : Nat,
           first : ReadTimes, last : ReadTimes]

\* What a record's line says, and the time a reader will get for it.
LineOf(l, at, r) ==
  IF l.last = NoTime THEN [r EXCEPT !.t = at, !.dt = NoTime]
  ELSE [r EXCEPT !.dt = Rounded(at - l.last), !.t = NoTime]

NewLast(l, at) == IF l.last = NoTime THEN at ELSE l.last + Rounded(at - l.last)

\* The open chunk with one more line.
Grown(l, x, last) ==
  [chunks |-> l.chunks, times |-> l.times, lines |-> Append(l.lines, x),
   pending |-> IF Len(l.pending) + 1 >= FlushEvery THEN <<>> ELSE Append(l.pending, x),
   current |-> IF Len(l.pending) + 1 >= FlushEvery
               THEN l.current + Compressed(Append(l.pending, x)) ELSE l.current,
   raw |-> l.raw + x.raw,
   first |-> IF l.last = NoTime THEN last ELSE l.first,
   last |-> last]

LEMMA LogIs ==
  ASSUME NEW l \in LogSet
  PROVE  l = [chunks |-> l.chunks, times |-> l.times, lines |-> l.lines,
              pending |-> l.pending, current |-> l.current, raw |-> l.raw,
              first |-> l.first, last |-> l.last]
BY DEF LogSet

LEMMA RoundedIsInt ==
  ASSUME NEW d \in Int
  PROVE  /\ Rounded(d) \in Int
         /\ \E q \in Int : Rounded(d) = q * Grid
         /\ Rounded(d) - d <= Grid \div 2 /\ d - Rounded(d) <= Grid \div 2
<1> DEFINE h == Grid \div 2
           q == (d + h) \div Grid
<1>1. Grid \in Nat /\ Grid > 0 /\ h \in Int /\ Grid = 2 * h + 1
  BY Sizes
<1> HIDE DEF h
<1>2. q \in Int /\ Grid * q <= d + h /\ d + h < Grid * q + Grid
  BY <1>1
<1> HIDE DEF q
<1>3. q * Grid = Grid * q /\ Grid * q \in Int
  BY <1>1, <1>2
<1>4. Rounded(d) = q * Grid
  BY DEF Rounded, q, h
<1>. QED  BY <1>1, <1>2, <1>3, <1>4 DEF h

\* A time that is on the grid already is not moved.
LEMMA RoundedTwice ==
  ASSUME NEW d \in Int
  PROVE  Rounded(Rounded(d)) = Rounded(d)
<1> DEFINE h == Grid \div 2
<1>1. PICK q \in Int : Rounded(d) = q * Grid
  BY RoundedIsInt
<1>2. Grid \in Nat /\ Grid > 0 /\ h \in Int /\ Grid = 2 * h + 1
  BY Sizes
<1>3. Rounded(Rounded(d)) = ((q * Grid + h) \div Grid) * Grid
  BY <1>1 DEF Rounded
<1> HIDE DEF h
<1>4. (q * Grid + h) \div Grid = q
  BY <1>2
<1>. QED  BY <1>1, <1>3, <1>4

LEMMA LineOfType ==
  ASSUME NEW l \in LogSet, NEW at \in Int, NEW r \in LineSet
  PROVE  /\ LineOf(l, at, r) \in LineSet /\ NewLast(l, at) \in Int
         /\ LineOf(l, at, r).place = r.place /\ LineOf(l, at, r).raw = r.raw
         /\ LineOf(l, at, r).comp = r.comp /\ LineOf(l, at, r).mark = r.mark
         /\ l.last = NoTime => LineOf(l, at, r).t = at /\ NewLast(l, at) = at
         /\ l.last # NoTime => /\ LineOf(l, at, r).t = NoTime
                               /\ LineOf(l, at, r).dt = Rounded(at - l.last)
                               /\ NewLast(l, at) = l.last + Rounded(at - l.last)
<1>1. l.last \in Int \cup {NoTime} /\ NoTime \notin Int /\ NoTime \in ReadTimes
      /\ Int \subseteq ReadTimes
  BY Sizes DEF LogSet, ReadTimes
<1>2. CASE l.last = NoTime
  <2>1. LineOf(l, at, r) = [r EXCEPT !.t = at, !.dt = NoTime] /\ NewLast(l, at) = at
    BY <1>2 DEF LineOf, NewLast
  <2>. QED  BY <1>1, <1>2, <2>1 DEF LineSet
<1>3. CASE l.last # NoTime
  <2> DEFINE d == Rounded(at - l.last)
  <2>1. d \in Int /\ l.last \in Int /\ l.last + d \in Int
    BY <1>1, <1>3, RoundedIsInt
  <2>2. LineOf(l, at, r) = [r EXCEPT !.dt = d, !.t = NoTime] /\ NewLast(l, at) = l.last + d
    BY <1>3 DEF LineOf, NewLast
  <2> HIDE DEF d
  <2>. QED  BY <1>1, <1>3, <2>1, <2>2 DEF LineSet, d
<1>. QED  BY <1>2, <1>3

LEMMA AddedIs ==
  ASSUME NEW l \in LogSet, NEW at \in Int, NEW r \in LineSet
  PROVE  Added(l, at, r) = Grown(l, LineOf(l, at, r), NewLast(l, at))
<1> DEFINE x == LineOf(l, at, r)
           last == NewLast(l, at)
           one == Line(l, at, r)
           two == [one EXCEPT !.pending = Append(@, x), !.raw = @ + x.raw]
<1>1. x \in LineSet /\ last \in Int
  BY LineOfType
<1>2. one = [l EXCEPT !.lines = Append(@, x), !.last = last,
                      !.first = IF l.last = NoTime THEN last ELSE l.first]
  <2>1. l = [chunks |-> l.chunks, times |-> l.times, lines |-> l.lines,
              pending |-> l.pending, current |-> l.current, raw |-> l.raw,
              first |-> l.first, last |-> l.last]
    BY LogIs
  <2>. QED  BY <2>1 DEF Line, LineOf, NewLast
<1> HIDE DEF x, last, one
<1>3. one = [chunks |-> l.chunks, times |-> l.times, lines |-> Append(l.lines, x),
             pending |-> l.pending, current |-> l.current, raw |-> l.raw,
             first |-> IF l.last = NoTime THEN last ELSE l.first, last |-> last]
  BY <1>2 DEF LogSet
<1>3a. one \in LogSet
  <2>1. l.first \in ReadTimes /\ last \in ReadTimes
    BY <1>1 DEF LogSet, ReadTimes
  <2>. QED  BY <1>1, <1>3, <2>1 DEF LogSet
<1>4. one.lines[Len(one.lines)] = x
  BY <1>1, <1>3 DEF LogSet
<1>5. two = [chunks |-> l.chunks, times |-> l.times, lines |-> Append(l.lines, x),
             pending |-> Append(l.pending, x), current |-> l.current, raw |-> l.raw + x.raw,
             first |-> IF l.last = NoTime THEN last ELSE l.first, last |-> last]
  <2> DEFINE fst == IF l.last = NoTime THEN last ELSE l.first
  <2>1. two = [one EXCEPT !.pending = Append(l.pending, x), !.raw = l.raw + x.raw]
    BY <1>3
  <2>2. one = [chunks |-> l.chunks, times |-> l.times, lines |-> Append(l.lines, x),
               pending |-> l.pending, current |-> l.current, raw |-> l.raw,
               first |-> fst, last |-> last]
    BY <1>3
  <2> HIDE DEF fst, two
  <2>3. two = [chunks |-> l.chunks, times |-> l.times, lines |-> Append(l.lines, x),
               pending |-> Append(l.pending, x), current |-> l.current,
               raw |-> l.raw + x.raw, first |-> fst, last |-> last]
    BY <2>1, <2>2
  <2>. QED  BY <2>3 DEF fst
<1>6. Len(two.pending) = Len(l.pending) + 1
  <2>1. two.pending = Append(l.pending, x)
    BY <1>5
  <2>2. l.pending \in Seq(LineSet)
    BY DEF LogSet
  <2>. QED  BY <1>1, <2>1, <2>2
<1>7. Added(l, at, r) = IF Len(two.pending) >= FlushEvery THEN FlushPending(two) ELSE two
  BY <1>4 DEF Added, one
<1> HIDE DEF two
<1>8. FlushPending(two) = [two EXCEPT !.current = l.current + Compressed(Append(l.pending, x)),
                                      !.pending = <<>>]
  BY <1>5 DEF FlushPending
<1>8a. FlushPending(two) =
         [chunks |-> l.chunks, times |-> l.times, lines |-> Append(l.lines, x),
          pending |-> <<>>, current |-> l.current + Compressed(Append(l.pending, x)),
          raw |-> l.raw + x.raw,
          first |-> IF l.last = NoTime THEN last ELSE l.first, last |-> last]
  <2> DEFINE fst == IF l.last = NoTime THEN last ELSE l.first
             now2 == l.current + Compressed(Append(l.pending, x))
  <2>1. two = [chunks |-> l.chunks, times |-> l.times, lines |-> Append(l.lines, x),
               pending |-> Append(l.pending, x), current |-> l.current,
               raw |-> l.raw + x.raw, first |-> fst, last |-> last]
    BY <1>5
  <2>2. FlushPending(two) = [two EXCEPT !.current = now2, !.pending = <<>>]
    BY <1>8
  <2> HIDE DEF fst, now2
  <2>3. FlushPending(two) =
          [chunks |-> l.chunks, times |-> l.times, lines |-> Append(l.lines, x),
           pending |-> <<>>, current |-> now2, raw |-> l.raw + x.raw,
           first |-> fst, last |-> last]
    BY <2>1, <2>2
  <2>. QED  BY <2>3 DEF fst, now2
<1>9. Added(l, at, r) = Grown(l, x, last)
  <2>1. CASE Len(l.pending) + 1 >= FlushEvery
    <3>1. Added(l, at, r) = FlushPending(two)
      BY <1>6, <1>7, <2>1
    <3>. QED  BY <1>8a, <2>1, <3>1 DEF Grown
  <2>2. CASE ~(Len(l.pending) + 1 >= FlushEvery)
    <3>1. Added(l, at, r) = two
      BY <1>6, <1>7, <2>2
    <3>. QED  BY <1>5, <2>2, <3>1 DEF Grown
  <2>. QED  BY <2>1, <2>2
<1>. QED  BY <1>9 DEF x, last

\* To write a line down again from the time a reader has for it changes nothing.
LEMMA AddedAgain ==
  ASSUME NEW l \in LogSet, NEW at \in Int, NEW r \in LineSet
  PROVE  Added(l, NewLast(l, at), LineOf(l, at, r)) = Added(l, at, r)
<1> DEFINE x == LineOf(l, at, r)
           last == NewLast(l, at)
<1>1. x \in LineSet /\ last \in Int
  BY LineOfType
<1>2. LineOf(l, last, x) = x /\ NewLast(l, last) = last
  <2>1. CASE l.last = NoTime
    BY <2>1 DEF LineOf, NewLast, LineSet
  <2>2. CASE l.last # NoTime
    <3>1. l.last \in Int
      BY <2>2 DEF LogSet, ReadTimes
    <3> DEFINE d == Rounded(at - l.last)
    <3>2. d \in Int /\ Rounded(d) = d
      BY <3>1, RoundedIsInt, RoundedTwice
    <3>3. last = l.last + d /\ last - l.last = d
      BY <2>2, <3>1, <3>2 DEF NewLast
    <3>4. x = [r EXCEPT !.dt = d, !.t = NoTime]
      BY <2>2 DEF LineOf
    <3> HIDE DEF d, x, last
    <3>5. LineOf(l, last, x) = [x EXCEPT !.dt = d, !.t = NoTime]
      BY <2>2, <3>2, <3>3 DEF LineOf
    <3>6. NewLast(l, last) = l.last + d
      BY <2>2, <3>2, <3>3 DEF NewLast
    <3>. QED  BY <3>3, <3>4, <3>5, <3>6 DEF LineSet
  <2>. QED  BY <2>1, <2>2
<1> HIDE DEF x, last
<1>3. Added(l, last, x) = Grown(l, x, last)
  BY <1>1, <1>2, AddedIs
<1>4. Added(l, at, r) = Grown(l, x, last)
  BY AddedIs DEF x, last
<1>. QED  BY <1>3, <1>4 DEF x, last

-----------------------------------------------------------------------------
(* Sizes of a log *)

LEMMA LeastOfPlaces ==
  ASSUME NEW P \in SUBSET Nat, P # {}
  PROVE  \E k \in P : \A j \in P : k <= j
<1> DEFINE R == OpToRel(<, Nat)
<1>1. IsWellFoundedOn(R, Nat)
  BY NatLessThanWellFounded
<1>2. \A x, y \in Nat : <<y, x>> \in R <=> y < x
  BY DEF OpToRel
<1> HIDE DEF R
<1>3. PICK x \in P : \A y \in P : ~(<<y, x>> \in R)
  BY <1>1, WFMin
<1>4. \A y \in P : ~(y < x)
  BY <1>2, <1>3
<1>. QED  BY <1>3, <1>4

LEMMA LinesSize ==
  ASSUME NEW s \in Seq(LineSet)
  PROVE  /\ Raw(s) \in Nat /\ Compressed(s) \in Nat
         /\ Raw(<<>>) = 0
         /\ \A b \in Nat : (\A i \in 1..Len(s) : s[i].raw <= b) => Raw(s) <= Len(s) * b
         /\ \A b \in Nat : (\A i \in 1..Len(s) : s[i].comp <= b)
                              => Compressed(s) <= Len(s) * b
<1> DEFINE a == [i \in DOMAIN s |-> s[i].raw]
           c == [i \in DOMAIN s |-> s[i].comp]
<1>1. a \in Seq(Nat) /\ Len(a) = Len(s) /\ \A i \in 1..Len(s) : a[i] = s[i].raw
  <2>1. \A i \in 1..Len(s) : s[i] \in LineSet
    OBVIOUS
  <2>2. \A i \in 1..Len(s) : s[i].raw \in Nat
    BY <2>1 DEF LineSet
  <2>. QED  BY <2>2
<1>2. c \in Seq(Nat) /\ Len(c) = Len(s) /\ \A i \in 1..Len(s) : c[i] = s[i].comp
  <2>1. \A i \in 1..Len(s) : s[i] \in LineSet
    OBVIOUS
  <2>2. \A i \in 1..Len(s) : s[i].comp \in Nat
    BY <2>1 DEF LineSet
  <2>. QED  BY <2>2
<1>3. Raw(s) = Total(a) /\ Compressed(s) = Total(c)
  BY DEF Raw, Compressed
<1> HIDE DEF a, c
<1>4. 0 \in Nat
  OBVIOUS
<1>5. Raw(<<>>) = 0
  <2>1. [i \in DOMAIN <<>> |-> (<<>>)[i].raw] = <<>>
    OBVIOUS
  <2>. QED  BY <2>1, TotalEmpty DEF Raw
<1>6. Total(a) \in Nat /\ Total(c) \in Nat
  BY <1>1, <1>2, <1>4, TotalBound
<1>7. ASSUME NEW b \in Nat, \A i \in 1..Len(s) : s[i].raw <= b
      PROVE  Raw(s) <= Len(s) * b
  <2>1. \A i \in 1..Len(a) : a[i] <= b
    BY <1>1, <1>7
  <2>2. Total(a) <= Len(a) * b
    BY <1>1, <2>1, TotalBound
  <2>. QED  BY <1>1, <1>3, <2>2
<1>8. ASSUME NEW b \in Nat, \A i \in 1..Len(s) : s[i].comp <= b
      PROVE  Compressed(s) <= Len(s) * b
  <2>1. \A i \in 1..Len(c) : c[i] <= b
    BY <1>2, <1>8
  <2>2. Total(c) <= Len(c) * b
    BY <1>2, <2>1, TotalBound
  <2>. QED  BY <1>2, <1>3, <2>2
<1>. QED  BY <1>3, <1>5, <1>6, <1>7, <1>8

\* Fewer chunks weigh less; the newest alone weighs its size.
LEMMA SealedSize ==
  ASSUME NEW l \in LogSet, NEW k \in 0..Len(l.chunks)
  PROVE  /\ Sealed(l) \in Nat /\ Sealed(WithoutOldest(l, k)) \in Nat
         /\ Sealed(WithoutOldest(l, k)) <= Sealed(l)
         /\ k = Len(l.chunks) => Sealed(WithoutOldest(l, k)) = 0
         /\ k = Len(l.chunks) - 1 =>
              Sealed(WithoutOldest(l, k)) = l.chunks[Len(l.chunks)].size
<1> DEFINE n == Len(l.chunks)
           c == l.chunks
           s == [i \in DOMAIN c |-> c[i].size]
           d == SubSeq(c, k + 1, n)
           r == [i \in DOMAIN d |-> d[i].size]
<1>1. c \in Seq(ChunkSet) /\ n \in Nat /\ d \in Seq(ChunkSet) /\ Len(d) = n - k
      /\ \A i \in 1..(n - k) : d[i] = c[k + i]
  <2>1. c \in Seq(ChunkSet)
    BY DEF LogSet
  <2>. QED  BY <2>1
<1>2. s \in Seq(Nat) /\ Len(s) = n /\ \A i \in 1..n : s[i] = c[i].size
  <2>1. \A i \in 1..n : c[i] \in ChunkSet
    BY <1>1
  <2>2. \A i \in 1..n : c[i].size \in Nat
    BY <2>1 DEF ChunkSet
  <2>3. DOMAIN c = 1..n
    BY <1>1
  <2> HIDE DEF c, n
  <2>4. s \in [1..n -> Nat]
    BY <2>2, <2>3
  <2>5. s \in Seq(Nat) /\ Len(s) = n
    BY <1>1, <2>3, <2>4
  <2>6. \A i \in 1..n : s[i] = c[i].size
    BY <2>3
  <2>. QED  BY <2>5, <2>6
<1>3. Sealed(l) = Total(s)
  BY DEF Sealed
<1>4. WithoutOldest(l, k).chunks = d
  BY DEF WithoutOldest, LogSet
<1>5. Sealed(WithoutOldest(l, k)) = Total(r)
  BY <1>4 DEF Sealed
<1>6. r = SubSeq(s, k + 1, n)
  <2> HIDE DEF d, s
  <2>1. DOMAIN r = 1..(n - k) /\ DOMAIN SubSeq(s, k + 1, n) = 1..(n - k)
    BY <1>1, <1>2
  <2>2. \A i \in 1..(n - k) : r[i] = SubSeq(s, k + 1, n)[i]
    <3>1. TAKE i \in 1..(n - k)
    <3>2. k + i \in 1..n
      BY <1>1
    <3>3. SubSeq(s, k + 1, n)[i] = s[k + i]
      BY <1>1, <1>2
    <3>4. r[i] = d[i].size
      BY <1>1
    <3>. QED  BY <1>1, <1>2, <3>2, <3>3, <3>4
  <2>3. r = [i \in 1..(n - k) |-> r[i]]
    BY <1>1
  <2>4. SubSeq(s, k + 1, n) = [i \in 1..(n - k) |-> SubSeq(s, k + 1, n)[i]]
    <3>1. SubSeq(s, k + 1, n) \in Seq(Nat) /\ Len(SubSeq(s, k + 1, n)) = n - k
      BY <1>1, <1>2
    <3>. QED  BY <3>1
  <2> HIDE DEF r
  <2>. QED  BY <2>2, <2>3, <2>4
<1> HIDE DEF r, s, d
<1>7. Total(s) \in Nat /\ Total(r) \in Nat
  <2>1. r \in Seq(Nat) /\ 0 \in Nat
    BY <1>1, <1>2, <1>6
  <2>. QED  BY <1>2, <2>1, TotalBound
<1>8. k \in 0..Len(s) /\ Len(s) = n
  BY <1>2
<1>9. /\ Total(r) <= Total(s)
      /\ k = n - 1 => Total(r) = s[n]
  BY <1>2, <1>6, <1>8, TotalOfRest
<1>10. k = n => r = <<>>
  BY <1>1, <1>2, <1>6
<1>11. k = n - 1 => s[n] = c[n].size
  <2> HIDE DEF n
  <2>1. k = n - 1 => n \in 1..n
    BY <1>1
  <2>. QED  BY <1>2, <2>1
<1>. QED  BY <1>3, <1>5, <1>7, <1>9, <1>10, <1>11, TotalEmpty

-----------------------------------------------------------------------------
(* The parts of a log fit together *)

\* A chunk begins with a line that has its time, and so does the open one.
Shaped(l) ==
  /\ l \in LogSet /\ Len(l.times) = Len(l.chunks)
  /\ \A i \in 1..Len(l.chunks) :
       /\ l.chunks[i].lines # <<>>
       /\ l.times[i] = l.chunks[i].lines[1].t /\ l.times[i] \in Int
  /\ l.lines = <<>> => /\ l.pending = <<>> /\ l.current = 0 /\ l.raw = 0
                       /\ l.first = NoTime /\ l.last = NoTime
  /\ l.lines # <<>> => l.first = l.lines[1].t /\ l.first \in Int /\ l.last \in Int
  /\ Len(l.pending) <= Len(l.lines)
  /\ \A i \in 1..Len(l.pending) :
       l.pending[i] = l.lines[Len(l.lines) - Len(l.pending) + i]

\* Below the limits at which the open chunk is compressed and sealed.
Small(l) == Len(l.pending) < FlushEvery /\ ~Full(l)

\* Sealed chunks and nothing else.
Only(chunks, times) ==
  [chunks |-> chunks, times |-> times, lines |-> <<>>, pending |-> <<>>,
   current |-> 0, raw |-> 0, first |-> NoTime, last |-> NoTime]

LEMMA OnlyShaped ==
  ASSUME NEW chunks \in Seq(ChunkSet), NEW times \in Seq(ReadTimes),
         Len(times) = Len(chunks),
         \A i \in 1..Len(chunks) :
           /\ chunks[i].lines # <<>>
           /\ times[i] = chunks[i].lines[1].t /\ times[i] \in Int
  PROVE  Shaped(Only(chunks, times)) /\ Small(Only(chunks, times))
<1>1. Only(chunks, times) \in LogSet
  BY DEF Only, LogSet, ReadTimes
<1>2. Len(<<>>) = 0
  OBVIOUS
<1>. QED  BY <1>1, <1>2, Sizes DEF Only, Shaped, Small, Full

LEMMA EmptyShaped == Shaped(EmptyLog) /\ Small(EmptyLog) /\ Size(EmptyLog) = 0
<1>1. EmptyLog = Only(<<>>, <<>>)
  BY DEF EmptyLog, Only
<1>2. Shaped(EmptyLog) /\ Small(EmptyLog)
  <2>1. /\ <<>> \in Seq(ChunkSet) /\ <<>> \in Seq(ReadTimes) /\ Len(<<>>) = 0
        /\ \A i \in 1..Len(<<>>) : FALSE
    OBVIOUS
  <2>2. Shaped(Only(<<>>, <<>>)) /\ Small(Only(<<>>, <<>>))
    BY <2>1, OnlyShaped
  <2>. QED  BY <1>1, <2>2
<1>3. Size(EmptyLog) = Sealed(EmptyLog) + 0 + Raw(<<>>)
  BY DEF Size, EmptyLog
<1>4. Sealed(EmptyLog) = Total(<<>>)
  <2>1. [i \in DOMAIN EmptyLog.chunks |-> EmptyLog.chunks[i].size] = <<>>
    BY DEF EmptyLog
  <2>. QED  BY <2>1 DEF Sealed
<1>5. Raw(<<>>) = 0
  <2>1. <<>> \in Seq(LineSet)
    OBVIOUS
  <2>. QED  BY <2>1, LinesSize
<1>. QED  BY <1>2, <1>3, <1>4, <1>5, TotalEmpty

LEMMA WithoutOldestIs ==
  ASSUME NEW l \in LogSet, Len(l.times) = Len(l.chunks), NEW k \in 0..Len(l.chunks)
  PROVE  /\ WithoutOldest(l, k) \in LogSet
         /\ WithoutOldest(l, k) =
              [chunks |-> SubSeq(l.chunks, k + 1, Len(l.chunks)),
               times |-> SubSeq(l.times, k + 1, Len(l.times)),
               lines |-> l.lines, pending |-> l.pending, current |-> l.current,
               raw |-> l.raw, first |-> l.first, last |-> l.last]
         /\ Len(WithoutOldest(l, k).chunks) = Len(l.chunks) - k
         /\ Len(WithoutOldest(l, k).times) = Len(l.chunks) - k
         /\ \A i \in 1..(Len(l.chunks) - k) :
              /\ WithoutOldest(l, k).chunks[i] = l.chunks[k + i]
              /\ WithoutOldest(l, k).times[i] = l.times[k + i]
<1> DEFINE n == Len(l.chunks)
           c == SubSeq(l.chunks, k + 1, n)
           s == SubSeq(l.times, k + 1, Len(l.times))
<1>1. l.chunks \in Seq(ChunkSet) /\ l.times \in Seq(ReadTimes)
  BY DEF LogSet
<1>2. c \in Seq(ChunkSet) /\ Len(c) = n - k /\ \A i \in 1..(n - k) : c[i] = l.chunks[k + i]
  BY <1>1
<1>3. s \in Seq(ReadTimes) /\ Len(s) = n - k /\ \A i \in 1..(n - k) : s[i] = l.times[k + i]
  BY <1>1
<1>4. WithoutOldest(l, k) = [l EXCEPT !.chunks = c, !.times = s]
  BY DEF WithoutOldest
<1> HIDE DEF c, s
<1>5. [l EXCEPT !.chunks = c, !.times = s] =
         [chunks |-> c, times |-> s, lines |-> l.lines, pending |-> l.pending,
          current |-> l.current, raw |-> l.raw, first |-> l.first, last |-> l.last]
  <2>1. ASSUME NEW a1, NEW a2, NEW a3, NEW a4, NEW a5, NEW a6, NEW a7, NEW a8,
               l = [chunks |-> a1, times |-> a2, lines |-> a3, pending |-> a4,
                    current |-> a5, raw |-> a6, first |-> a7, last |-> a8],
               NEW e, e = [l EXCEPT !.chunks = c, !.times = s]
        PROVE  e = [chunks |-> c, times |-> s, lines |-> a3, pending |-> a4,
                  current |-> a5, raw |-> a6, first |-> a7, last |-> a8]
    BY <2>1
  <2>. QED  BY <2>1, LogIs
<1>6. [l EXCEPT !.chunks = c, !.times = s] \in LogSet
  BY <1>2, <1>3, <1>5 DEF LogSet
<1>. QED  BY <1>2, <1>3, <1>4, <1>5, <1>6 DEF c, s

LEMMA WithoutOldestParts ==
  ASSUME NEW l \in LogSet, Len(l.times) = Len(l.chunks), NEW k \in 0..Len(l.chunks)
  PROVE  /\ WithoutOldest(l, k) \in LogSet
         /\ WithoutOldest(l, k).chunks = SubSeq(l.chunks, k + 1, Len(l.chunks))
         /\ WithoutOldest(l, k).times = SubSeq(l.times, k + 1, Len(l.times))
         /\ WithoutOldest(l, k).lines = l.lines
         /\ WithoutOldest(l, k).pending = l.pending
         /\ WithoutOldest(l, k).current = l.current
         /\ WithoutOldest(l, k).last = l.last
<1> DEFINE w == WithoutOldest(l, k)
<1>1. w \in LogSet
  BY WithoutOldestIs
<1>2. w = [chunks |-> SubSeq(l.chunks, k + 1, Len(l.chunks)),
           times |-> SubSeq(l.times, k + 1, Len(l.times)),
           lines |-> l.lines, pending |-> l.pending, current |-> l.current,
           raw |-> l.raw, first |-> l.first, last |-> l.last]
  BY WithoutOldestIs
<1> HIDE DEF w
<1>3. /\ w.chunks = SubSeq(l.chunks, k + 1, Len(l.chunks))
      /\ w.times = SubSeq(l.times, k + 1, Len(l.times))
      /\ w.lines = l.lines /\ w.pending = l.pending
      /\ w.current = l.current /\ w.last = l.last
  BY <1>2
<1>. QED  BY <1>1, <1>3 DEF w

LEMMA WithoutOldestShaped ==
  ASSUME NEW l, Shaped(l), NEW k \in 0..Len(l.chunks)
  PROVE  /\ Shaped(WithoutOldest(l, k))
         /\ Small(l) => Small(WithoutOldest(l, k))
         /\ Size(WithoutOldest(l, k)) <= Size(l)
<1> DEFINE m == WithoutOldest(l, k)
           n == Len(l.chunks)
<1>1. l \in LogSet /\ Len(l.times) = n
  BY DEF Shaped
<1>2. /\ m \in LogSet /\ m.lines = l.lines /\ m.pending = l.pending
      /\ m.current = l.current /\ m.raw = l.raw /\ m.first = l.first /\ m.last = l.last
      /\ Len(m.chunks) = n - k /\ Len(m.times) = n - k
      /\ \A i \in 1..(n - k) : m.chunks[i] = l.chunks[k + i] /\ m.times[i] = l.times[k + i]
  <2>1. Len(l.times) = Len(l.chunks)
    BY <1>1
  <2>2. m = [chunks |-> SubSeq(l.chunks, k + 1, Len(l.chunks)),
             times |-> SubSeq(l.times, k + 1, Len(l.times)),
             lines |-> l.lines, pending |-> l.pending, current |-> l.current,
             raw |-> l.raw, first |-> l.first, last |-> l.last]
    BY <1>1, <2>1, WithoutOldestIs
  <2>3. /\ m \in LogSet /\ Len(m.chunks) = n - k /\ Len(m.times) = n - k
        /\ \A i \in 1..(n - k) : m.chunks[i] = l.chunks[k + i] /\ m.times[i] = l.times[k + i]
    BY <1>1, <2>1, WithoutOldestIs
  <2> HIDE DEF m
  <2>4. /\ m.lines = l.lines /\ m.pending = l.pending /\ m.current = l.current
        /\ m.raw = l.raw /\ m.first = l.first /\ m.last = l.last
    BY <2>2
  <2>. QED  BY <2>3, <2>4
<1>3. n \in Nat /\ k \in 0..n
  BY <1>1 DEF LogSet
<1>4. Sealed(m) <= Sealed(l) /\ Sealed(m) \in Nat /\ Sealed(l) \in Nat
  BY <1>1, SealedSize
<1> HIDE DEF m
<1>5. \A i \in 1..(n - k) : k + i \in 1..n
  BY <1>3
<1> HIDE DEF n
<1>6. Shaped(m)
  <2>1. \A i \in 1..Len(m.chunks) :
          /\ m.chunks[i].lines # <<>>
          /\ m.times[i] = m.chunks[i].lines[1].t /\ m.times[i] \in Int
    <3>1. TAKE i \in 1..Len(m.chunks)
    <3>2. i \in 1..(n - k)
      BY <1>2
    <3>3. m.chunks[i] = l.chunks[k + i] /\ m.times[i] = l.times[k + i]
      BY <1>2, <3>2
    <3>4. k + i \in 1..Len(l.chunks)
      BY <1>5, <3>2 DEF n
    <3>. QED  BY <3>3, <3>4 DEF Shaped
  <2>. QED  BY <1>2, <2>1 DEF Shaped
<1>7. Small(l) => Small(m)
  BY <1>2 DEF Small, Full
<1>8. Size(m) <= Size(l)
  <2>1. l.current \in Nat /\ Raw(l.pending) \in Nat
    BY <1>1, LinesSize DEF LogSet
  <2>. QED  BY <1>2, <1>4, <2>1 DEF Size
<1>. QED  BY <1>6, <1>7, <1>8 DEF m

LEMMA EnforceCapIs ==
  ASSUME NEW l, Shaped(l)
  PROVE  \/ /\ EnforceCap(l) = EmptyLog
            /\ \A k \in 0..Len(l.chunks) : Size(WithoutOldest(l, k)) > MaxBytes
         \/ \E k \in 0..Len(l.chunks) :
              /\ EnforceCap(l) = WithoutOldest(l, k)
              /\ Size(WithoutOldest(l, k)) <= MaxBytes
              /\ \A j \in 0..Len(l.chunks) : Size(WithoutOldest(l, j)) <= MaxBytes => k <= j
<1> DEFINE n == Len(l.chunks)
           enough == {k \in 0..n : Size(WithoutOldest(l, k)) <= MaxBytes}
           least == CHOOSE k \in enough : \A j \in enough : k <= j
<1>1. l \in LogSet /\ Len(l.times) = n /\ n \in Nat
  BY DEF Shaped, LogSet
<1>2. EnforceCap(l) = IF enough = {} THEN StartChunk(WithoutOldest(l, n))
                      ELSE WithoutOldest(l, least)
  BY DEF EnforceCap
<1>3. CASE enough = {}
  <2>1. \A k \in 0..n : Size(WithoutOldest(l, k)) \in Int
    <3>1. TAKE k \in 0..n
    <3> DEFINE m == WithoutOldest(l, k)
    <3>2. m.current = l.current /\ m.pending = l.pending
      BY <1>1, WithoutOldestIs
    <3>3. Sealed(m) \in Nat /\ l.current \in Nat /\ Raw(l.pending) \in Nat
      BY <1>1, SealedSize, LinesSize DEF LogSet
    <3> HIDE DEF m
    <3>4. Size(m) \in Int
      BY <3>2, <3>3 DEF Size
    <3>. QED  BY <3>4 DEF m
  <2>2. \A k \in 0..n : Size(WithoutOldest(l, k)) > MaxBytes
    BY <1>3, <2>1, Sizes
  <2>3. StartChunk(WithoutOldest(l, n)) = EmptyLog
    <3>1. n \in 0..Len(l.chunks)
      BY <1>1
    <3> DEFINE m == WithoutOldest(l, n)
    <3>2. m \in LogSet /\ Len(m.chunks) = 0 /\ Len(m.times) = 0
      BY <1>1, <3>1, WithoutOldestIs
    <3> HIDE DEF m
    <3>3. m.chunks = <<>> /\ m.times = <<>>
      <4>1. m.chunks \in Seq(ChunkSet) /\ m.times \in Seq(ReadTimes)
        BY <3>2 DEF LogSet
      <4>. QED  BY <3>2, <4>1
    <3>4. StartChunk(m) = EmptyLog
      <4>1. ASSUME NEW a1, NEW a2, NEW a3, NEW a4, NEW a5, NEW a6, NEW a7, NEW a8,
                   m = [chunks |-> a1, times |-> a2, lines |-> a3, pending |-> a4,
                        current |-> a5, raw |-> a6, first |-> a7, last |-> a8],
                   NEW e, e = StartChunk(m)
            PROVE  e = [chunks |-> a1, times |-> a2, lines |-> <<>>,
                                    pending |-> <<>>, current |-> 0, raw |-> 0,
                                    first |-> NoTime, last |-> NoTime]
        BY <4>1 DEF StartChunk
      <4>2. StartChunk(m) = [chunks |-> m.chunks, times |-> m.times, lines |-> <<>>,
                             pending |-> <<>>, current |-> 0, raw |-> 0,
                             first |-> NoTime, last |-> NoTime]
        BY <3>2, <4>1, LogIs
      <4>. QED  BY <3>3, <4>2 DEF EmptyLog
    <3>. QED  BY <3>4 DEF m
  <2>. QED  BY <1>2, <1>3, <2>2, <2>3
<1>4. CASE enough # {}
  <2>1. enough \in SUBSET Nat
    BY <1>1
  <2> HIDE DEF enough
  <2>2. least \in enough /\ \A j \in enough : least <= j
    BY <1>4, <2>1, LeastOfPlaces
  <2> HIDE DEF least
  <2>3. EnforceCap(l) = WithoutOldest(l, least)
    BY <1>2, <1>4
  <2>. QED  BY <2>2, <2>3 DEF enough
<1>. QED  BY <1>3, <1>4

LEMMA AddedShaped ==
  ASSUME NEW l, Shaped(l), Len(l.pending) < FlushEvery, NEW at \in Int, NEW r \in LineSet
  PROVE  /\ Shaped(Added(l, at, r)) /\ Len(Added(l, at, r).pending) < FlushEvery
         /\ Added(l, at, r) = Grown(l, LineOf(l, at, r), NewLast(l, at))
         /\ LineOf(l, at, r) \in LineSet /\ NewLast(l, at) \in Int
         /\ Added(l, at, r).lines # <<>>
<1> DEFINE x == LineOf(l, at, r)
           last == NewLast(l, at)
           g == Grown(l, x, last)
           n == Len(l.lines)
           p == Len(l.pending)
<1>1. /\ l \in LogSet /\ l.lines \in Seq(LineSet) /\ l.pending \in Seq(LineSet)
      /\ n \in Nat /\ p \in Nat /\ p <= n
      /\ \A i \in 1..p : l.pending[i] = l.lines[n - p + i]
  BY DEF Shaped, LogSet
<1>2. /\ x \in LineSet /\ last \in Int /\ x.raw \in Nat
      /\ l.last = NoTime => x.t = last
  BY <1>1, LineOfType DEF LineSet
<1>3. Added(l, at, r) = g
  BY <1>1, AddedIs
<1> HIDE DEF x, last
<1>4. /\ g.chunks = l.chunks /\ g.times = l.times /\ g.lines = Append(l.lines, x)
      /\ g.pending = IF p + 1 >= FlushEvery THEN <<>> ELSE Append(l.pending, x)
      /\ g.first = IF l.last = NoTime THEN last ELSE l.first
      /\ g.last = last
  BY DEF Grown
<1>5. g.lines \in Seq(LineSet) /\ Len(g.lines) = n + 1 /\ g.lines # <<>>
      /\ g.lines[n + 1] = x /\ \A i \in 1..n : g.lines[i] = l.lines[i]
  BY <1>1, <1>2, <1>4
<1>6. l.last = NoTime <=> l.lines = <<>>
  BY Sizes DEF Shaped
<1>7. g \in LogSet
  <2>1. Append(l.pending, x) \in Seq(LineSet) /\ <<>> \in Seq(LineSet)
    BY <1>1, <1>2
  <2>2. Compressed(Append(l.pending, x)) \in Nat
    BY <2>1, LinesSize
  <2>3. l.current \in Nat /\ l.raw \in Nat /\ l.first \in ReadTimes
        /\ l.chunks \in Seq(ChunkSet) /\ l.times \in Seq(ReadTimes)
    BY <1>1 DEF LogSet
  <2>4. Append(l.lines, x) \in Seq(LineSet)
    BY <1>1, <1>2
  <2>5. last \in ReadTimes
    BY <1>2 DEF ReadTimes
  <2> DEFINE c == Compressed(Append(l.pending, x))
             P == Append(l.pending, x)
             fst == IF l.last = NoTime THEN last ELSE l.first
             pend == IF p + 1 >= FlushEvery THEN <<>> ELSE P
             cur == IF p + 1 >= FlushEvery THEN l.current + c ELSE l.current
  <2>6. g = [chunks |-> l.chunks, times |-> l.times, lines |-> Append(l.lines, x),
             pending |-> pend, current |-> cur, raw |-> l.raw + x.raw,
             first |-> fst, last |-> last]
    BY DEF Grown
  <2>7. pend \in Seq(LineSet)
    BY <2>1
  <2> HIDE DEF c
  <2>8. cur \in Nat
    BY <2>2, <2>3 DEF c
  <2>9. fst \in ReadTimes /\ l.raw + x.raw \in Nat
    BY <1>2, <2>3, <2>5
  <2> HIDE DEF pend, cur, fst
  <2>. QED  BY <2>3, <2>4, <2>5, <2>6, <2>7, <2>8, <2>9 DEF LogSet
<1>8. g.first = g.lines[1].t /\ g.first \in Int
  <2>1. CASE l.lines = <<>>
    <3>1. n = 0
      BY <2>1
    <3>. QED  BY <1>2, <1>4, <1>5, <1>6, <2>1, <3>1
  <2>2. CASE l.lines # <<>>
    <3>1. 1 \in 1..n
      BY <1>1, <2>2
    <3>2. l.first = l.lines[1].t /\ l.first \in Int
      BY <2>2 DEF Shaped
    <3>. QED  BY <1>4, <1>5, <1>6, <2>2, <3>1, <3>2
  <2>. QED  BY <2>1, <2>2
<1>9. /\ Len(g.pending) <= Len(g.lines) /\ Len(g.pending) < FlushEvery
      /\ \A i \in 1..Len(g.pending) :
           g.pending[i] = g.lines[Len(g.lines) - Len(g.pending) + i]
  <2>1. CASE p + 1 >= FlushEvery
    <3>1. g.pending = <<>> /\ Len(g.pending) = 0
      BY <1>4, <2>1
    <3>. QED  BY <1>1, <1>5, <3>1, Sizes
  <2>2. CASE ~(p + 1 >= FlushEvery)
    <3>1. g.pending = Append(l.pending, x)
      BY <1>4, <2>2
    <3>2. Len(g.pending) = p + 1 /\ g.pending[p + 1] = x
          /\ \A i \in 1..p : g.pending[i] = l.pending[i]
      BY <1>1, <1>2, <3>1
    <3>3. ASSUME NEW i \in 1..(p + 1) PROVE g.pending[i] = g.lines[(n + 1) - (p + 1) + i]
      <4> HIDE DEF n, p, g
      <4>1. CASE i = p + 1
        <5>1. (n + 1) - (p + 1) + i = n + 1
          BY <1>1, <4>1
        <5>. QED  BY <1>5, <3>2, <4>1, <5>1
      <4>2. CASE i # p + 1
        <5>1. i \in 1..p /\ (n + 1) - (p + 1) + i = n - p + i /\ n - p + i \in 1..n
          BY <1>1, <4>2
        <5>. QED  BY <1>1, <1>5, <3>2, <5>1
      <4>. QED  BY <4>1, <4>2
    <3>4. Len(g.pending) <= Len(g.lines) /\ Len(g.pending) < FlushEvery
      BY <1>1, <1>5, <2>2, <3>2, Sizes
    <3>. QED  BY <1>5, <3>2, <3>3, <3>4
  <2>. QED  BY <2>1, <2>2
<1> HIDE DEF g
<1>10. Shaped(g)
  BY <1>2, <1>4, <1>5, <1>7, <1>8, <1>9 DEF Shaped
<1>. QED  BY <1>2, <1>3, <1>5, <1>9, <1>10 DEF g, x, last

\* What sealing makes of the open chunk.
SealedChunk(l) == [size |-> l.current + Compressed(l.pending), lines |-> l.lines]

LEMMA SealIs ==
  ASSUME NEW l, Shaped(l), l.lines # <<>>
  PROVE  /\ Seal(l) = Only(Append(l.chunks, SealedChunk(l)), Append(l.times, l.first))
         /\ SealedChunk(l) \in ChunkSet
         /\ Shaped(Seal(l)) /\ Small(Seal(l))
<1> DEFINE c == SealedChunk(l)
           f == FlushPending(l)
           e == [f EXCEPT !.chunks = Append(@, [size |-> f.current, lines |-> f.lines]),
                          !.times = Append(@, f.first)]
           n == Len(l.chunks)
<1>1. l \in LogSet /\ Len(l.times) = n /\ l.first = l.lines[1].t /\ l.first \in Int
  BY DEF Shaped
<1>2. l.chunks \in Seq(ChunkSet) /\ l.times \in Seq(ReadTimes) /\ l.lines \in Seq(LineSet)
      /\ l.pending \in Seq(LineSet) /\ l.current \in Nat
  BY <1>1 DEF LogSet
<1>3. c \in ChunkSet
  <2>1. Compressed(l.pending) \in Nat
    BY <1>2, LinesSize
  <2>. QED  BY <1>2, <2>1 DEF SealedChunk, ChunkSet
<1>4. ASSUME NEW a1, NEW a2, NEW a3, NEW a4, NEW a5, NEW a6, NEW a7, NEW a8,
             l = [chunks |-> a1, times |-> a2, lines |-> a3, pending |-> a4,
                  current |-> a5, raw |-> a6, first |-> a7, last |-> a8]
      PROVE  Seal(l) = Only(Append(a1, [size |-> a5 + Compressed(a4), lines |-> a3]),
                            Append(a2, a7))
  <2> DEFINE q == a5 + Compressed(a4)
  <2>1. f = [l EXCEPT !.current = q, !.pending = <<>>]
    BY <1>4 DEF FlushPending
  <2> HIDE DEF f, q
  <2>2. f = [chunks |-> a1, times |-> a2, lines |-> a3, pending |-> <<>>,
             current |-> q, raw |-> a6, first |-> a7, last |-> a8]
    BY <1>4, <2>1
  <2>3. e = [f EXCEPT !.chunks = Append(a1, [size |-> q, lines |-> a3]),
                      !.times = Append(a2, a7)]
    BY <2>2
  <2> HIDE DEF e
  <2>4. e = [chunks |-> Append(a1, [size |-> q, lines |-> a3]), times |-> Append(a2, a7),
             lines |-> a3, pending |-> <<>>, current |-> q, raw |-> a6,
             first |-> a7, last |-> a8]
    BY <2>2, <2>3
  <2>5. Seal(l) = StartChunk(e)
    BY DEF Seal, e, f
  <2> DEFINE z == StartChunk(e)
  <2>6. z = [e EXCEPT !.lines = <<>>, !.pending = <<>>, !.current = 0, !.raw = 0,
                      !.first = NoTime, !.last = NoTime]
    BY DEF StartChunk
  <2> HIDE DEF z
  <2>7. z = Only(Append(a1, [size |-> q, lines |-> a3]), Append(a2, a7))
    BY <2>4, <2>6 DEF Only
  <2>. QED  BY <2>5, <2>7 DEF q, z
<1>5. Seal(l) = Only(Append(l.chunks, c), Append(l.times, l.first))
  BY <1>1, <1>4, LogIs DEF SealedChunk
<1> DEFINE cs == Append(l.chunks, c)
           ts == Append(l.times, l.first)
<1>6. c.lines = l.lines
  BY DEF SealedChunk
<1> HIDE DEF c
<1>7. cs \in Seq(ChunkSet) /\ Len(cs) = n + 1 /\ cs[n + 1] = c /\ n \in Nat
      /\ \A i \in 1..n : cs[i] = l.chunks[i]
  BY <1>2, <1>3
<1>8. ts \in Seq(ReadTimes) /\ Len(ts) = n + 1 /\ ts[n + 1] = l.first
      /\ \A i \in 1..n : ts[i] = l.times[i]
  <2> DEFINE z == l.times
             y == l.first
  <2>1. z \in Seq(ReadTimes) /\ Len(z) = n /\ y \in ReadTimes /\ n \in Nat
    BY <1>1, <1>2, <1>7 DEF ReadTimes
  <2> HIDE DEF z, y, n
  <2>2. Append(z, y) \in Seq(ReadTimes) /\ Len(Append(z, y)) = n + 1
    BY <2>1
  <2>3. Append(z, y)[n + 1] = y
    BY <2>1
  <2>4. \A i \in 1..n : Append(z, y)[i] = z[i]
    BY <2>1
  <2>. QED  BY <2>2, <2>3, <2>4 DEF z, y
<1> HIDE DEF cs, ts
<1>9. ASSUME NEW i \in 1..Len(cs)
      PROVE  cs[i].lines # <<>> /\ ts[i] = cs[i].lines[1].t /\ ts[i] \in Int
  <2>1. CASE i = n + 1
    BY <1>1, <1>6, <1>7, <1>8, <2>1
  <2>2. CASE i # n + 1
    <3>1. i \in 1..Len(l.chunks)
      BY <1>7, <2>2
    <3>. QED  BY <1>7, <1>8, <3>1 DEF Shaped
  <2>. QED  BY <2>1, <2>2
<1>10. Shaped(Only(cs, ts)) /\ Small(Only(cs, ts))
  BY <1>7, <1>8, <1>9, OnlyShaped
<1>. QED  BY <1>3, <1>5, <1>10 DEF c, cs, ts

\* Of one piece, and within every limit.
Within(l) == Shaped(l) /\ Small(l) /\ Size(l) <= MaxBytes

LEMMA EmptyWithin == Within(EmptyLog)
BY EmptyShaped, Sizes DEF Within

LEMMA CapWithin ==
  ASSUME NEW l, Shaped(l), Small(l)
  PROVE  Within(EnforceCap(l))
<1>1. CASE EnforceCap(l) = EmptyLog
  BY <1>1, EmptyWithin
<1>2. CASE \E k \in 0..Len(l.chunks) : /\ EnforceCap(l) = WithoutOldest(l, k)
                                       /\ Size(WithoutOldest(l, k)) <= MaxBytes
  BY <1>2, WithoutOldestShaped DEF Within
<1>. QED  BY <1>1, <1>2, EnforceCapIs

\* The log before the ceiling is enforced.
BeforeCap(l, at, r) ==
  IF Full(Added(l, at, r)) THEN Seal(Added(l, at, r)) ELSE Added(l, at, r)

LEMMA AddIs ==
  ASSUME NEW l, Shaped(l), Small(l), NEW at \in Int, NEW r \in LineSet
  PROVE  /\ Add(l, at, r) = EnforceCap(BeforeCap(l, at, r))
         /\ Shaped(BeforeCap(l, at, r)) /\ Small(BeforeCap(l, at, r))
<1> DEFINE a == Added(l, at, r)
<1>1. Shaped(a) /\ Len(a.pending) < FlushEvery /\ a.lines # <<>>
  BY AddedShaped DEF Small
<1> HIDE DEF a
<1>2. Add(l, at, r) = EnforceCap(BeforeCap(l, at, r))
  BY DEF Add, BeforeCap
<1>3. CASE Full(a)
  BY <1>1, <1>2, <1>3, SealIs DEF BeforeCap, a
<1>4. CASE ~Full(a)
  BY <1>1, <1>2, <1>4 DEF BeforeCap, a, Small
<1>. QED  BY <1>3, <1>4

LEMMA AddWithin ==
  ASSUME NEW l, Shaped(l), Small(l), NEW at \in Int, NEW r \in LineSet
  PROVE  Within(Add(l, at, r))
BY AddIs, CapWithin

-----------------------------------------------------------------------------
(* The times of lines *)

\* The first line of a chunk has its time, every line after it a difference.
Readable(s) ==
  \A i \in 1..Len(s) : /\ i = 1 => s[i].t # NoTime
                       /\ s[i].t = NoTime => s[i].dt # NoTime

\* The times a reader gets.
Clocks(s) == {f \in [0..Len(s) -> ReadTimes] :
                /\ f[0] = NoTime
                /\ \A j \in 1..Len(s) :
                     f[j] = IF s[j].t # NoTime THEN s[j].t
                            ELSE IF f[j - 1] = NoTime THEN NoTime
                            ELSE f[j - 1] + s[j].dt}

LEMMA LastTimeIs ==
  ASSUME NEW s \in Seq(LineSet), Readable(s)
  PROVE  /\ LastTime(s) \in Clocks(s)
         /\ \A f \in Clocks(s) : LastTime(s) = f
         /\ \A j \in 1..Len(s) : /\ LastTime(s)[j] \in Int
                                 /\ s[j].t # NoTime => LastTime(s)[j] = s[j].t
                                 /\ s[j].t = NoTime =>
                                      /\ j > 1 /\ s[j].dt \in Int
                                      /\ LastTime(s)[j] = LastTime(s)[j - 1] + s[j].dt
<1> DEFINE n == Len(s)
           next(f, x) == IF x.t # NoTime THEN x.t
                         ELSE IF f = NoTime THEN NoTime ELSE f + x.dt
           D == [p \in ReadTimes \X LineSet |->
                   IF next(p[1], p[2]) \in ReadTimes THEN next(p[1], p[2]) ELSE NoTime]
           last[i \in 0..n] == IF i = 0 THEN NoTime ELSE next(last[i - 1], s[i])
<1>1. n \in Nat /\ s \in [1..n -> LineSet] /\ NoTime \in ReadTimes
      /\ D \in [ReadTimes \X LineSet -> ReadTimes]
  BY DEF ReadTimes
<1>2. \A j \in 1..n : s[j] \in LineSet /\ s[j].t \in ReadTimes /\ s[j].dt \in ReadTimes
                      /\ (s[j].t = NoTime => s[j].dt \in Int)
  <2>1. \A j \in 1..n : s[j] \in LineSet
    BY <1>1
  <2>. QED  BY <2>1 DEF LineSet, Readable, ReadTimes
<1>3. \A j \in 1..n : j - 1 \in 0..n /\ j \in 0..n /\ j # 0
  BY <1>1
<1>4. PICK f : f \in Runs(ReadTimes, D, NoTime, n, s)
  <2> HIDE DEF D, n
  <2>1. Runs(ReadTimes, D, NoTime, n, s) # {}
    BY <1>1, RunExists
  <2>. QED  BY <2>1
<1>5. f \in [0..n -> ReadTimes] /\ f[0] = NoTime
      /\ \A j \in 1..n : f[j] = D[<<f[j - 1], s[j]>>]
  <2> HIDE DEF D, n
  <2>. QED  BY <1>4 DEF Runs
<1>6. ASSUME NEW a \in ReadTimes, NEW j \in 1..n PROVE next(a, s[j]) \in ReadTimes
  BY <1>2 DEF ReadTimes
<1>7. \A j \in 1..n : f[j] = next(f[j - 1], s[j])
  <2>1. TAKE j \in 1..n
  <2>2. f[j - 1] \in ReadTimes /\ s[j] \in LineSet
    BY <1>2, <1>3, <1>5
  <2>3. next(f[j - 1], s[j]) \in ReadTimes
    BY <1>6, <2>2
  <2>4. D[<<f[j - 1], s[j]>>] = next(f[j - 1], s[j])
    <3> HIDE DEF next
    <3>. QED  BY <2>2, <2>3
  <2> HIDE DEF D, next
  <2>. QED  BY <1>5, <2>4
<1>8. f \in Clocks(s)
  BY <1>5, <1>7 DEF Clocks
<1> HIDE DEF next, D
<1>9. f = [i \in 0..n |-> IF i = 0 THEN NoTime ELSE next(f[i - 1], s[i])]
  <2>1. \A i \in 0..n : f[i] = IF i = 0 THEN NoTime ELSE next(f[i - 1], s[i])
    <3>1. TAKE i \in 0..n
    <3>2. CASE i = 0
      BY <1>5, <3>2
    <3>3. CASE i # 0
      BY <1>1, <1>7, <3>3
    <3>. QED  BY <3>2, <3>3
  <2> HIDE DEF n
  <2>. QED  BY <1>5, <2>1
<1>10. last = [i \in 0..n |-> IF i = 0 THEN NoTime ELSE next(last[i - 1], s[i])]
  <2> HIDE DEF n
  <2>. QED  BY <1>9
<1>11. LastTime(s) = last
  BY DEF LastTime, next
<1> HIDE DEF last
<1>12. ASSUME NEW g \in Clocks(s) PROVE g = last
  <2> DEFINE B == {i \in 0..n : g[i] = last[i]}
  <2>0. g \in [0..n -> ReadTimes] /\ g[0] = NoTime
        /\ \A j \in 1..n : g[j] = next(g[j - 1], s[j])
    BY <1>12 DEF Clocks, next
  <2> HIDE DEF n
  <2>1. 0 \in B
    BY <1>1, <1>10, <2>0
  <2>2. ASSUME NEW i \in 1..n, i - 1 \in B PROVE i \in B
    <3>1. last[i] = next(last[i - 1], s[i])
      BY <1>3, <1>10
    <3>. QED  BY <1>3, <2>0, <2>2, <3>1
  <2> HIDE DEF B
  <2>3. 0..n \subseteq B
    BY <1>1, <2>1, <2>2, UpTo
  <2>4. \A i \in 0..n : g[i] = last[i]
    BY <2>3 DEF B
  <2>5. last = [i \in 0..n |-> last[i]]
    BY <1>10
  <2>. QED  BY <2>0, <2>4, <2>5
<1>13. f = last
  BY <1>8, <1>12
<1>14. \A j \in 1..n : f[j] \in Int
  <2> DEFINE B == {i \in 0..n : i # 0 => f[i] \in Int}
  <2>1. 0 \in B
    BY <1>1
  <2>2. ASSUME NEW i \in 1..n, i - 1 \in B PROVE i \in B
    <3>1. f[i] = next(f[i - 1], s[i]) /\ i \in 0..n /\ s[i].t \in ReadTimes
      BY <1>2, <1>3, <1>7
    <3>2. CASE s[i].t # NoTime
      BY <3>1, <3>2 DEF next, ReadTimes
    <3>3. CASE s[i].t = NoTime
      <4>1. i # 1 /\ s[i].dt \in Int
        BY <1>2, <3>3 DEF Readable
      <4>2. f[i - 1] \in Int
        BY <2>2, <4>1
      <4>3. f[i] = f[i - 1] + s[i].dt
        BY <3>1, <3>3, <4>2, Sizes DEF next
      <4>. QED  BY <3>1, <4>1, <4>2, <4>3
    <3>. QED  BY <3>2, <3>3
  <2> HIDE DEF B
  <2>3. 0..n \subseteq B
    BY <1>1, <2>1, <2>2, UpTo
  <2>. QED  BY <1>3, <2>3 DEF B
<1>15. ASSUME NEW j \in 1..n
       PROVE  /\ s[j].t # NoTime => f[j] = s[j].t
              /\ s[j].t = NoTime => j > 1 /\ s[j].dt \in Int /\ f[j] = f[j - 1] + s[j].dt
  <2>1. f[j] = next(f[j - 1], s[j])
    BY <1>7
  <2>2. CASE s[j].t # NoTime
    BY <2>1, <2>2 DEF next
  <2>3. CASE s[j].t = NoTime
    <3>1. j # 1 /\ s[j].dt \in Int
      BY <1>2, <2>3 DEF Readable
    <3>2. j > 1 /\ j - 1 \in 1..n
      BY <1>1, <3>1
    <3>3. f[j - 1] \in Int
      BY <1>14, <3>2
    <3>. QED  BY <2>1, <2>3, <3>1, <3>2, <3>3, Sizes DEF next
  <2>. QED  BY <2>2, <2>3
<1>. QED  BY <1>8, <1>11, <1>12, <1>13, <1>14, <1>15

\* A line more changes no time before it; lines dropped at the front change none,
\* if what is left begins with a time.
LEMMA LastTimeAppend ==
  ASSUME NEW s \in Seq(LineSet), NEW x \in LineSet, Readable(Append(s, x))
  PROVE  /\ Readable(s)
         /\ \A j \in 0..Len(s) : LastTime(Append(s, x))[j] = LastTime(s)[j]
<1> DEFINE n == Len(s)
           r == Append(s, x)
           f == LastTime(r)
           g == [j \in 0..n |-> f[j]]
<1>1. n \in Nat /\ r \in Seq(LineSet) /\ Len(r) = n + 1 /\ \A i \in 1..n : r[i] = s[i]
  OBVIOUS
<1>2. Readable(s)
  <2> HIDE DEF r
  <2>1. \A i \in 1..n : i \in 1..(n + 1)
    BY <1>1
  <2>2. Readable(r)
    BY DEF r
  <2>. QED  BY <1>1, <2>1, <2>2 DEF Readable
<1>3. f \in Clocks(r)
  BY <1>1, LastTimeIs
<1> HIDE DEF f, r
<1>4. /\ f \in [0..(n + 1) -> ReadTimes] /\ f[0] = NoTime
      /\ \A j \in 1..(n + 1) : f[j] = IF r[j].t # NoTime THEN r[j].t
                                      ELSE IF f[j - 1] = NoTime THEN NoTime
                                      ELSE f[j - 1] + r[j].dt
  BY <1>1, <1>3 DEF Clocks
<1> HIDE DEF n
<1>5. g \in [0..n -> ReadTimes] /\ g[0] = NoTime
  BY <1>1, <1>4
<1>6. \A j \in 1..n : g[j] = IF s[j].t # NoTime THEN s[j].t
                             ELSE IF g[j - 1] = NoTime THEN NoTime
                             ELSE g[j - 1] + s[j].dt
  <2>1. TAKE j \in 1..n
  <2>2. j \in 1..(n + 1) /\ j \in 0..n /\ j - 1 \in 0..n
    BY <1>1
  <2>3. g[j] = f[j] /\ g[j - 1] = f[j - 1] /\ r[j] = s[j]
    BY <1>1, <2>2
  <2> HIDE DEF g
  <2>. QED  BY <1>4, <2>2, <2>3
<1>7. g \in Clocks(s)
  BY <1>5, <1>6 DEF Clocks, n
<1>8. LastTime(s) = g
  BY <1>2, <1>7, LastTimeIs
<1>. QED  BY <1>2, <1>8 DEF f, n, r

LEMMA LastTimeRest ==
  ASSUME NEW s \in Seq(LineSet), Readable(s), NEW k \in 0..Len(s),
         k < Len(s) => s[k + 1].t # NoTime
  PROVE  /\ Readable(SubSeq(s, k + 1, Len(s)))
         /\ \A j \in 1..(Len(s) - k) :
              LastTime(SubSeq(s, k + 1, Len(s)))[j] = LastTime(s)[k + j]
<1> DEFINE n == Len(s)
           r == SubSeq(s, k + 1, n)
           f == LastTime(s)
           g == [j \in 0..(n - k) |-> IF j = 0 THEN NoTime ELSE f[k + j]]
<1>1. n \in Nat /\ k \in 0..n /\ r \in Seq(LineSet) /\ Len(r) = n - k
      /\ \A i \in 1..(n - k) : r[i] = s[k + i]
  OBVIOUS
<1>2. f \in Clocks(s)
  BY LastTimeIs
<1>3. \A i \in 1..(n - k) : k + i \in 1..n /\ k + i \in 0..n
  BY <1>1
<1> HIDE DEF f, r
<1>4. /\ f \in [0..n -> ReadTimes] /\ f[0] = NoTime
      /\ \A j \in 1..n : f[j] = IF s[j].t # NoTime THEN s[j].t
                                ELSE IF f[j - 1] = NoTime THEN NoTime
                                ELSE f[j - 1] + s[j].dt
  BY <1>2 DEF Clocks
<1>5. /\ k < n => s[k + 1].t # NoTime
      /\ \A i \in 1..n : s[i].t = NoTime => s[i].dt # NoTime
  BY DEF Readable
<1> HIDE DEF n
<1>6. Readable(r)
  <2>1. ASSUME NEW i \in 1..Len(r)
        PROVE  (i = 1 => r[i].t # NoTime) /\ (r[i].t = NoTime => r[i].dt # NoTime)
    <3>1. i \in 1..(n - k) /\ r[i] = s[k + i] /\ k + i \in 1..n
      BY <1>1, <1>3
    <3>2. i = 1 => k < n
      BY <1>1, <3>1
    <3>. QED  BY <1>5, <3>1, <3>2
  <2>. QED  BY <2>1 DEF Readable
<1>7. g \in [0..(n - k) -> ReadTimes] /\ g[0] = NoTime
  <2>1. \A j \in 0..(n - k) : j # 0 => f[k + j] \in ReadTimes
    BY <1>1, <1>3, <1>4
  <2>2. NoTime \in ReadTimes /\ 0 \in 0..(n - k)
    BY <1>1 DEF ReadTimes
  <2>. QED  BY <2>1, <2>2
<1>8. \A j \in 1..(n - k) : g[j] = IF r[j].t # NoTime THEN r[j].t
                                   ELSE IF g[j - 1] = NoTime THEN NoTime
                                   ELSE g[j - 1] + r[j].dt
  <2>1. TAKE j \in 1..(n - k)
  <2>2. k + j \in 1..n /\ j \in 0..(n - k) /\ j # 0 /\ j - 1 \in 0..(n - k) /\ r[j] = s[k + j]
        /\ k + (j - 1) = (k + j) - 1
    BY <1>1, <1>3
  <2>3. g[j] = f[k + j]
    BY <2>2
  <2>4. CASE j = 1
    <3>1. r[j].t # NoTime
      <4>1. k < n
        BY <1>1, <2>2
      <4>. QED  BY <1>5, <2>2, <2>4, <4>1
    <3> HIDE DEF g
    <3>. QED  BY <1>4, <2>2, <2>3, <3>1
  <2>5. CASE j # 1
    <3>1. j - 1 # 0
      BY <2>5
    <3>2. g[j - 1] = f[(k + j) - 1]
      BY <2>2, <3>1
    <3> HIDE DEF g
    <3>. QED  BY <1>4, <2>2, <2>3, <3>2
  <2>. QED  BY <2>4, <2>5
<1>9. g \in Clocks(r)
  BY <1>1, <1>7, <1>8 DEF Clocks
<1>10. LastTime(r) = g
  BY <1>1, <1>6, <1>9, LastTimeIs
<1>11. \A j \in 1..(n - k) : g[j] = f[k + j]
  BY <1>1
<1>. QED  BY <1>6, <1>10, <1>11 DEF f, n, r

-----------------------------------------------------------------------------
(* The lines of all chunks *)

Flats(ss) == {f \in [0..Len(ss) -> Seq(LineSet)] :
                f[0] = <<>> /\ \A j \in 1..Len(ss) : f[j] = f[j - 1] \o ss[j]}

LEMMA FlattenIs ==
  ASSUME NEW ss \in Seq(Seq(LineSet))
  PROVE  /\ Flats(ss) # {}
         /\ \A f \in Flats(ss) : FlattenSeq(ss) = f[Len(ss)]
<1> DEFINE n == Len(ss)
           S == Seq(LineSet)
           step == [p \in S \X S |-> p[1] \o p[2]]
           flatten[i \in 1..n] == IF i = 1 THEN ss[i] ELSE flatten[i - 1] \o ss[i]
<1>1. n \in Nat /\ ss \in [1..n -> S] /\ <<>> \in S
  OBVIOUS
<1>1a. step \in [S \X S -> S]
  <2>1. \A p \in S \X S : p[1] \o p[2] \in S
    OBVIOUS
  <2>. QED  BY <2>1
<1>2. PICK f : f \in Runs(S, step, <<>>, n, ss)
  <2> HIDE DEF step, n, S
  <2>1. Runs(S, step, <<>>, n, ss) # {}
    BY <1>1, <1>1a, RunExists
  <2>. QED  BY <2>1
<1>3. f \in [0..n -> S] /\ f[0] = <<>> /\ \A j \in 1..n : f[j] = step[<<f[j - 1], ss[j]>>]
  <2> HIDE DEF step, n, S
  <2>. QED  BY <1>2 DEF Runs
<1>4. \A j \in 1..n : f[j] = f[j - 1] \o ss[j]
  <2>1. TAKE j \in 1..n
  <2> HIDE DEF n, S
  <2>2. j - 1 \in 0..n
    BY <1>1
  <2>3. <<f[j - 1], ss[j]>> \in S \X S
    BY <1>1, <1>3, <2>2
  <2>. QED  BY <1>3, <2>3
<1> HIDE DEF step
<1>5. f \in Flats(ss)
  BY <1>3, <1>4 DEF Flats
<1> DEFINE first == [i \in 1..n |-> f[i]]
<1>6. first = [i \in 1..n |-> IF i = 1 THEN ss[i] ELSE first[i - 1] \o ss[i]]
  <2> HIDE DEF n
  <2>1. ASSUME NEW i \in 1..n PROVE first[i] = IF i = 1 THEN ss[i] ELSE first[i - 1] \o ss[i]
    <3>1. first[i] = f[i - 1] \o ss[i]
      BY <1>4
    <3>2. CASE i = 1
      <4>1. f[i - 1] = <<>> /\ ss[i] \in Seq(LineSet)
        BY <1>1, <1>3, <3>2
      <4>. QED  BY <3>1, <3>2, <4>1
    <3>3. CASE i # 1
      <4>1. i - 1 \in 1..n
        BY <1>1, <3>3
      <4>2. first[i - 1] = f[i - 1]
        BY <4>1
      <4>. QED  BY <3>1, <3>3, <4>2
    <3>. QED  BY <3>2, <3>3
  <2>. QED  BY <2>1
<1>7. flatten = [i \in 1..n |-> IF i = 1 THEN ss[i] ELSE flatten[i - 1] \o ss[i]]
  <2> HIDE DEF n, first
  <2>. QED  BY <1>6
<1>8. FlattenSeq(ss) = IF n = 0 THEN ss ELSE flatten[n]
  BY DEF FlattenSeq
<1> HIDE DEF flatten, first
<1>9. ASSUME NEW g \in Flats(ss) PROVE FlattenSeq(ss) = g[n]
  <2>0. g \in [0..n -> S] /\ g[0] = <<>> /\ \A j \in 1..n : g[j] = g[j - 1] \o ss[j]
    BY <1>9 DEF Flats
  <2> DEFINE B == {i \in 0..n : i # 0 => g[i] = flatten[i]}
  <2> HIDE DEF n
  <2>1. 0 \in B
    BY <1>1
  <2>2. ASSUME NEW i \in 1..n, i - 1 \in B PROVE i \in B
    <3>0. ss[i] \in S
      <4> HIDE DEF S
      <4>. QED  BY <1>1
    <3>1. i \in 0..n /\ g[i] = g[i - 1] \o ss[i] /\ ss[i] \in Seq(LineSet)
      <4>1. i \in 0..n
        BY <1>1
      <4>2. g[i] = g[i - 1] \o ss[i]
        BY <2>0
      <4>. QED  BY <3>0, <4>1, <4>2
    <3>2. CASE i = 1
      <4>1. g[i - 1] = <<>>
        BY <2>0, <3>2
      <4>2. flatten[i] = ss[i]
        BY <1>7, <3>2
      <4>. QED  BY <3>1, <4>1, <4>2
    <3>3. CASE i # 1
      <4>1. flatten[i] = flatten[i - 1] \o ss[i]
        BY <1>7, <3>3
      <4>2. i - 1 # 0
        BY <3>3
      <4>. QED  BY <2>2, <3>1, <4>1, <4>2
    <3>. QED  BY <3>2, <3>3
  <2> HIDE DEF B
  <2>3. 0..n \subseteq B
    BY <1>1, <2>1, <2>2, UpTo
  <2>4. CASE n = 0
    <3>1. ss = <<>> /\ g[n] = <<>>
      BY <2>0, <2>4 DEF n
    <3>. QED  BY <1>8, <2>4, <3>1
  <2>5. CASE n # 0
    <3>1. n \in 0..n
      BY <1>1
    <3>2. g[n] = flatten[n]
      BY <2>3, <2>5, <3>1 DEF B
    <3>. QED  BY <1>8, <2>5, <3>2
  <2>. QED  BY <2>4, <2>5
<1>. QED  BY <1>5, <1>9

LEMMA FlattenAppend ==
  ASSUME NEW ss \in Seq(Seq(LineSet)), NEW x \in Seq(LineSet)
  PROVE  /\ FlattenSeq(ss) \in Seq(LineSet)
         /\ FlattenSeq(Append(ss, x)) = FlattenSeq(ss) \o x
<1> DEFINE n == Len(ss)
           S == Seq(LineSet)
           rr == Append(ss, x)
<1>1. n \in Nat /\ rr \in Seq(S) /\ Len(rr) = n + 1 /\ rr[n + 1] = x
      /\ \A i \in 1..n : rr[i] = ss[i]
  <2> HIDE DEF S
  <2>1. ss \in Seq(S) /\ x \in S
    BY DEF S
  <2>. QED  BY <2>1
<1> HIDE DEF rr
<1>2. PICK f : f \in Flats(rr)
  BY <1>1, FlattenIs
<1>3. f \in [0..(n + 1) -> S] /\ f[0] = <<>> /\ \A j \in 1..(n + 1) : f[j] = f[j - 1] \o rr[j]
  BY <1>1, <1>2 DEF Flats
<1> HIDE DEF n
<1> DEFINE g == [j \in 0..n |-> f[j]]
<1>4. g \in Flats(ss)
  <2>1. g \in [0..n -> S] /\ g[0] = <<>>
    <3> HIDE DEF S
    <3>. QED  BY <1>1, <1>3
  <2>2. \A j \in 1..n : g[j] = g[j - 1] \o ss[j]
    <3>1. TAKE j \in 1..n
    <3>2. j \in 1..(n + 1) /\ j \in 0..n /\ j - 1 \in 0..n
      BY <1>1
    <3>3. g[j] = f[j] /\ g[j - 1] = f[j - 1] /\ rr[j] = ss[j]
      BY <1>1, <3>2
    <3> HIDE DEF g
    <3>. QED  BY <1>3, <3>2, <3>3
  <2> HIDE DEF g
  <2>. QED  BY <2>1, <2>2 DEF Flats, n
<1>5. FlattenSeq(ss) = g[n] /\ FlattenSeq(rr) = f[n + 1]
  <2> HIDE DEF g
  <2>1. FlattenSeq(ss) = g[n]
    BY <1>4, FlattenIs DEF n
  <2>2. FlattenSeq(rr) = f[n + 1]
    BY <1>1, <1>2, FlattenIs
  <2>. QED  BY <2>1, <2>2
<1>6. g[n] = f[n] /\ f[n] \in S /\ f[n + 1] = f[n] \o x
  <2>1. n \in 0..n /\ n \in 0..(n + 1) /\ n + 1 \in 1..(n + 1) /\ (n + 1) - 1 = n
    BY <1>1
  <2>2. f[n] \in S
    BY <1>3, <2>1
  <2>3. f[n + 1] = f[n] \o x
    BY <1>1, <1>3, <2>1
  <2>. QED  BY <2>1, <2>2, <2>3
<1>. QED  BY <1>5, <1>6 DEF rr

\* The lines of the chunks from some place on are the end of the lines of all.
LEMMA FlattenRest ==
  ASSUME NEW ss \in Seq(Seq(LineSet)), NEW k \in 0..Len(ss)
  PROVE  \E p \in Seq(LineSet) :
            FlattenSeq(ss) = p \o FlattenSeq(SubSeq(ss, k + 1, Len(ss)))
<1> DEFINE n == Len(ss)
           S == Seq(LineSet)
           rr == SubSeq(ss, k + 1, n)
<1>1. n \in Nat /\ k \in 0..n /\ rr \in Seq(S) /\ Len(rr) = n - k
      /\ \A i \in 1..(n - k) : rr[i] = ss[k + i]
  <2> HIDE DEF S
  <2>1. ss \in Seq(S)
    BY DEF S
  <2>. QED  BY <2>1
<1>2. \A i \in 1..n : ss[i] \in S
  <2> HIDE DEF S
  <2>1. ss \in Seq(S)
    BY DEF S
  <2>. QED  BY <2>1
<1> HIDE DEF rr
<1>3. PICK f : f \in Flats(ss)
  BY FlattenIs
<1>4. PICK g : g \in Flats(rr)
  BY <1>1, FlattenIs
<1>5. f \in [0..n -> S] /\ \A j \in 1..n : f[j] = f[j - 1] \o ss[j]
  BY <1>3 DEF Flats
<1>6. /\ g \in [0..(n - k) -> S] /\ g[0] = <<>>
      /\ \A j \in 1..(n - k) : g[j] = g[j - 1] \o rr[j]
  BY <1>1, <1>4 DEF Flats
<1>7. FlattenSeq(ss) = f[n]
  BY <1>3, FlattenIs
<1>8. FlattenSeq(rr) = g[n - k]
  BY <1>1, <1>4, FlattenIs
<1> HIDE DEF n
<1> DEFINE B == {j \in 0..(n - k) : f[k + j] = f[k] \o g[j]}
<1>9. 0 \in B
  <2>1. f[k] \in S /\ g[0] = <<>>
    <3> HIDE DEF S
    <3>. QED  BY <1>1, <1>5, <1>6
  <2>2. f[k] \o <<>> = f[k] /\ k + 0 = k /\ 0 \in 0..(n - k)
    BY <1>1, <2>1
  <2>. QED  BY <2>1, <2>2
<1>10. ASSUME NEW j \in 1..(n - k), j - 1 \in B PROVE j \in B
  <2>1. k + j \in 1..n /\ (k + j) - 1 = k + (j - 1) /\ j - 1 \in 0..(n - k) /\ j \in 0..(n - k)
    BY <1>1
  <2>2. f[k + j] = f[k + (j - 1)] \o ss[k + j]
    BY <1>5, <2>1
  <2>3. f[k + (j - 1)] = f[k] \o g[j - 1] /\ g[j] = g[j - 1] \o ss[k + j]
    BY <1>1, <1>6, <1>10
  <2>4. f[k] \in S /\ g[j - 1] \in S /\ ss[k + j] \in S
    <3> HIDE DEF S
    <3>. QED  BY <1>1, <1>2, <1>5, <1>6, <2>1
  <2>5. (f[k] \o g[j - 1]) \o ss[k + j] = f[k] \o (g[j - 1] \o ss[k + j])
    <3>1. ASSUME NEW u \in Seq(LineSet), NEW v \in Seq(LineSet), NEW w \in Seq(LineSet)
          PROVE  (u \o v) \o w = u \o (v \o w)
      OBVIOUS
    <3>. QED  BY <2>4, <3>1
  <2>. QED  BY <2>1, <2>2, <2>3, <2>5
<1>11. 0..(n - k) \subseteq B
  <2> HIDE DEF B
  <2>1. n - k \in Nat
    BY <1>1
  <2>. QED  BY <1>9, <1>10, <2>1, UpTo
<1>12. n - k \in B /\ k + (n - k) = n
  <2>1. n - k \in 0..(n - k) /\ k + (n - k) = n
    BY <1>1
  <2> HIDE DEF B
  <2>. QED  BY <1>11, <2>1
<1>13. f[n] = f[k] \o g[n - k]
  BY <1>12
<1>14. f[k] \in S
  <2> HIDE DEF S
  <2>. QED  BY <1>1, <1>5
<1>. QED  BY <1>7, <1>8, <1>13, <1>14 DEF n, rr

\* The lines of each sealed chunk.
SealedLines(l) == [i \in DOMAIN l.chunks |-> l.chunks[i].lines]

LEMMA SealedLinesIs ==
  ASSUME NEW l \in LogSet
  PROVE  /\ SealedLines(l) \in Seq(Seq(LineSet))
         /\ Len(SealedLines(l)) = Len(l.chunks)
         /\ \A i \in 1..Len(l.chunks) : SealedLines(l)[i] = l.chunks[i].lines
         /\ AllLines(l) = FlattenSeq(SealedLines(l)) \o l.lines
         /\ AllLines(l) \in Seq(LineSet)
<1>1. l.chunks \in Seq(ChunkSet) /\ l.lines \in Seq(LineSet)
  BY DEF LogSet
<1>2. \A i \in 1..Len(l.chunks) : l.chunks[i] \in ChunkSet
  BY <1>1
<1>3. \A i \in 1..Len(l.chunks) : l.chunks[i].lines \in Seq(LineSet)
  BY <1>2 DEF ChunkSet
<1>4. /\ SealedLines(l) \in Seq(Seq(LineSet))
      /\ Len(SealedLines(l)) = Len(l.chunks)
      /\ \A i \in 1..Len(l.chunks) : SealedLines(l)[i] = l.chunks[i].lines
  <2> DEFINE S == Seq(LineSet)
             c == l.chunks
  <2>1. \A i \in 1..Len(c) : c[i].lines \in S
    BY <1>3
  <2>2. c \in Seq(ChunkSet)
    BY <1>1
  <2> HIDE DEF S, c
  <2>3. [i \in DOMAIN c |-> c[i].lines] \in Seq(S)
        /\ Len([i \in DOMAIN c |-> c[i].lines]) = Len(c)
        /\ \A i \in 1..Len(c) : [j \in DOMAIN c |-> c[j].lines][i] = c[i].lines
    BY <2>1, <2>2
  <2>. QED  BY <2>3 DEF SealedLines, S, c
<1>5. AllLines(l) = FlattenSeq(SealedLines(l)) \o l.lines
  BY DEF AllLines, SealedLines
<1>6. FlattenSeq(SealedLines(l)) \in Seq(LineSet)
  BY <1>1, <1>4, FlattenAppend
<1>. QED  BY <1>1, <1>4, <1>5, <1>6

LEMMA AllAdded ==
  ASSUME NEW l, Shaped(l), Len(l.pending) < FlushEvery, NEW at \in Int, NEW r \in LineSet
  PROVE  AllLines(Added(l, at, r)) = Append(AllLines(l), LineOf(l, at, r))
<1> DEFINE a == Added(l, at, r)
           x == LineOf(l, at, r)
           f == FlattenSeq(SealedLines(l))
<1>1. l \in LogSet /\ x \in LineSet /\ a = Grown(l, x, NewLast(l, at)) /\ Shaped(a)
  <2>1. l \in LogSet
    BY DEF Shaped
  <2>2. x \in LineSet /\ a = Grown(l, x, NewLast(l, at)) /\ Shaped(a)
    BY AddedShaped
  <2>. QED  BY <2>1, <2>2
<1> HIDE DEF a, x
<1>2. a.chunks = l.chunks /\ a.lines = Append(l.lines, x)
  BY <1>1 DEF Grown
<1>3. AllLines(a) = f \o Append(l.lines, x)
  <2>1. SealedLines(a) = SealedLines(l)
    BY <1>2 DEF SealedLines
  <2>2. a \in LogSet
    BY <1>1 DEF Shaped
  <2>. QED  BY <1>2, <2>1, <2>2, SealedLinesIs
<1>4. AllLines(l) = f \o l.lines /\ l.lines \in Seq(LineSet) /\ f \in Seq(LineSet)
  BY <1>1, SealedLinesIs, FlattenAppend DEF LogSet
<1> HIDE DEF f
<1>5. f \o Append(l.lines, x) = Append(f \o l.lines, x)
  BY <1>1, <1>4
<1>. QED  BY <1>3, <1>4, <1>5 DEF a, x

LEMMA AllSealed ==
  ASSUME NEW l, Shaped(l), l.lines # <<>>
  PROVE  AllLines(Seal(l)) = AllLines(l)
<1> DEFINE c == SealedChunk(l)
           b == Seal(l)
           f == FlattenSeq(SealedLines(l))
           ss == SealedLines(l)
           n == Len(l.chunks)
<1>1. /\ b = Only(Append(l.chunks, c), Append(l.times, l.first))
      /\ c \in ChunkSet /\ Shaped(b) /\ l \in LogSet /\ b \in LogSet
  BY SealIs DEF Shaped
<1>2. c.lines = l.lines
  BY DEF SealedChunk
<1> HIDE DEF b, c
<1>3. b.chunks = Append(l.chunks, c) /\ b.lines = <<>>
  BY <1>1 DEF Only
<1>4. l.chunks \in Seq(ChunkSet) /\ l.lines \in Seq(LineSet)
  BY <1>1 DEF LogSet
<1>5. /\ ss \in Seq(Seq(LineSet)) /\ Len(ss) = n
      /\ \A i \in 1..n : ss[i] = l.chunks[i].lines
      /\ AllLines(l) = f \o l.lines
  BY <1>1, SealedLinesIs
<1>6. /\ SealedLines(b) \in Seq(Seq(LineSet)) /\ Len(SealedLines(b)) = n + 1
      /\ \A i \in 1..(n + 1) : SealedLines(b)[i] = b.chunks[i].lines
      /\ AllLines(b) = FlattenSeq(SealedLines(b)) \o <<>>
  <2>1. Len(b.chunks) = n + 1
    BY <1>1, <1>3, <1>4
  <2>. QED  BY <1>1, <1>3, <2>1, SealedLinesIs
<1>7. /\ n \in Nat /\ b.chunks[n + 1] = c
      /\ \A i \in 1..n : b.chunks[i] = l.chunks[i]
  BY <1>1, <1>3, <1>4
<1> HIDE DEF n
<1>8. SealedLines(b) = Append(ss, l.lines)
  <2> DEFINE u == SealedLines(b)
             v == Append(ss, l.lines)
             S == Seq(LineSet)
  <2>1. /\ v \in Seq(S) /\ Len(v) = n + 1 /\ v[n + 1] = l.lines
        /\ \A i \in 1..n : v[i] = ss[i]
    <3>1. ss \in Seq(S) /\ l.lines \in S
      BY <1>4, <1>5
    <3> HIDE DEF S, ss
    <3>. QED  BY <1>5, <1>7, <3>1
  <2>2. u \in Seq(S) /\ Len(u) = n + 1
    BY <1>6
  <2>3. \A i \in 1..(n + 1) : u[i] = v[i]
    <3>1. TAKE i \in 1..(n + 1)
    <3>2. CASE i = n + 1
      BY <1>2, <1>6, <1>7, <2>1, <3>2
    <3>3. CASE i # n + 1
      <4>1. i \in 1..n
        BY <1>7, <3>3
      <4>. QED  BY <1>5, <1>6, <1>7, <2>1, <4>1
    <3>. QED  BY <3>2, <3>3
  <2> HIDE DEF u, v, S
  <2>4. u = v
    BY <2>1, <2>2, <2>3
  <2>. QED  BY <2>4 DEF u, v
<1>9. FlattenSeq(SealedLines(b)) = f \o l.lines /\ f \in Seq(LineSet)
  BY <1>4, <1>5, <1>8, FlattenAppend
<1>10. (f \o l.lines) \o <<>> = f \o l.lines
  BY <1>4, <1>9
<1>. QED  BY <1>5, <1>6, <1>9, <1>10 DEF b

\* The time of the oldest record held.
OldestOf(l) == IF l.times # <<>> THEN l.times[1]
               ELSE IF l.lines # <<>> THEN l.first ELSE NoTime

LEMMA AllFirst ==
  ASSUME NEW l, Shaped(l)
  PROVE  /\ AllLines(l) # <<>> => AllLines(l)[1].t = OldestOf(l) /\ OldestOf(l) \in Int
         /\ AllLines(l) = <<>> => OldestOf(l) = NoTime
         /\ l.lines # <<>> \/ l.chunks # <<>> => AllLines(l) # <<>>
         /\ Len(l.lines) <= Len(AllLines(l))
         /\ \A i \in 1..Len(l.lines) :
              l.lines[i] = AllLines(l)[Len(AllLines(l)) - Len(l.lines) + i]
<1> DEFINE ss == SealedLines(l)
           f == FlattenSeq(ss)
           n == Len(l.chunks)
<1>1. /\ l \in LogSet /\ ss \in Seq(Seq(LineSet)) /\ Len(ss) = n
      /\ \A i \in 1..n : ss[i] = l.chunks[i].lines
      /\ AllLines(l) = f \o l.lines /\ f \in Seq(LineSet) /\ l.lines \in Seq(LineSet)
      /\ l.chunks \in Seq(ChunkSet) /\ l.times \in Seq(ReadTimes) /\ Len(l.times) = n
      /\ n \in Nat
  <2>1. l \in LogSet
    BY DEF Shaped
  <2>2. f \in Seq(LineSet)
    BY <2>1, SealedLinesIs, FlattenAppend
  <2>3. /\ ss \in Seq(Seq(LineSet)) /\ Len(ss) = n
        /\ \A i \in 1..n : ss[i] = l.chunks[i].lines
        /\ AllLines(l) = f \o l.lines
    BY <2>1, SealedLinesIs
  <2>4. /\ l.lines \in Seq(LineSet) /\ l.chunks \in Seq(ChunkSet)
        /\ l.times \in Seq(ReadTimes) /\ Len(l.times) = n /\ n \in Nat
    BY <2>1 DEF LogSet, Shaped
  <2>. QED  BY <2>1, <2>2, <2>3, <2>4
<1>2. CASE n = 0
  <2>1. l.chunks = <<>> /\ l.times = <<>>
    BY <1>1, <1>2
  <2>2. f = <<>>
    <3>1. PICK g : g \in Flats(ss)
      BY <1>1, FlattenIs
    <3>2. f = g[Len(ss)]
      BY <1>1, <3>1, FlattenIs
    <3>3. g[0] = <<>>
      BY <3>1 DEF Flats
    <3>. QED  BY <1>1, <1>2, <3>2, <3>3
  <2> HIDE DEF f
  <2>3. AllLines(l) = l.lines
    BY <1>1, <2>2
  <2>4. l.lines # <<>> => l.first = l.lines[1].t /\ l.first \in Int
    BY DEF Shaped
  <2>5. \A i \in 1..Len(l.lines) : l.lines[i] = l.lines[Len(l.lines) - Len(l.lines) + i]
    BY <1>1
  <2>. QED  BY <1>1, <2>1, <2>3, <2>4, <2>5 DEF OldestOf
<1>3. CASE n # 0
  <2>1. 1 \in 1..n /\ l.times # <<>>
    BY <1>1, <1>3
  <2>2. l.chunks[1].lines # <<>> /\ l.times[1] = l.chunks[1].lines[1].t /\ l.times[1] \in Int
    BY <2>1 DEF Shaped
  <2>3. PICK g : g \in Flats(ss)
    BY <1>1, FlattenIs
  <2>4. /\ g \in [0..n -> Seq(LineSet)] /\ g[0] = <<>> /\ f = g[n]
        /\ \A j \in 1..n : g[j] = g[j - 1] \o ss[j]
    BY <1>1, <2>3, FlattenIs DEF Flats
  <2>5. ss[1] = l.chunks[1].lines /\ ss[1] \in Seq(LineSet)
    <3> DEFINE S == Seq(LineSet)
    <3>1. ss \in Seq(S) /\ 1 \in 1..Len(ss)
      BY <1>1, <2>1
    <3> HIDE DEF S, ss
    <3>2. ss[1] \in S
      BY <3>1
    <3>. QED  BY <1>1, <2>1, <3>2 DEF S
  <2> HIDE DEF f, ss, n
  <2> DEFINE x == l.chunks[1].lines[1]
             B == {j \in 0..n : j # 0 => g[j] # <<>> /\ g[j][1] = x}
  <2>6. 0..n \subseteq B
    <3>1. 0 \in B
      BY <1>1
    <3>2. ASSUME NEW j \in 1..n, j - 1 \in B PROVE j \in B
      <4>0. j \in 0..n /\ j - 1 \in 0..n
        BY <1>1
      <4>1. j \in 0..n /\ j - 1 \in 0..n /\ g[j] = g[j - 1] \o ss[j]
        <5>1. g[j] = g[j - 1] \o ss[j]
          BY <2>4
        <5>. QED  BY <4>0, <5>1
      <4>2. CASE j = 1
        <5>0. g[j] = <<>> \o ss[1]
          <6>1. g[1 - 1] = <<>>
            BY <2>4
          <6>. QED  BY <4>1, <4>2, <6>1
        <5>1. g[j] = ss[1]
          <6>1. ASSUME NEW u \in Seq(LineSet) PROVE <<>> \o u = u
            OBVIOUS
          <6>. QED  BY <2>5, <5>0, <6>1
        <5>. QED  BY <2>2, <2>5, <4>1, <5>1
      <4>3. CASE j # 1
        <5>1. g[j - 1] # <<>> /\ g[j - 1][1] = x
          BY <3>2, <4>3
        <5>2. g[j - 1] \in Seq(LineSet) /\ ss[j] \in Seq(LineSet)
          <6> DEFINE S == Seq(LineSet)
          <6>1. ss \in Seq(S) /\ j \in 1..Len(ss) /\ g \in [0..n -> S]
            BY <1>1, <2>4
          <6> HIDE DEF S
          <6>2. g[j - 1] \in S /\ ss[j] \in S
            BY <4>1, <6>1
          <6>. QED  BY <6>2 DEF S
        <5>3. g[j] # <<>> /\ g[j][1] = g[j - 1][1]
          <6> HIDE DEF x
          <6>1. ASSUME NEW u \in Seq(LineSet), NEW v \in Seq(LineSet), u # <<>>
                PROVE  u \o v # <<>> /\ (u \o v)[1] = u[1]
            BY <6>1
          <6>. QED  BY <4>1, <5>1, <5>2, <6>1
        <5>. QED  BY <4>1, <5>1, <5>3
      <4>. QED  BY <4>2, <4>3
    <3> HIDE DEF B
    <3>. QED  BY <1>1, <3>1, <3>2, UpTo
  <2>7. f # <<>> /\ f[1] = x
    <3>1. n \in B
      <4> HIDE DEF B
      <4>. QED  BY <1>1, <2>6
    <3>. QED  BY <1>3, <2>4, <3>1
  <2> HIDE DEF B, x
  <2>8. ASSUME NEW u \in Seq(LineSet), NEW v \in Seq(LineSet), u # <<>>
        PROVE  /\ u \o v # <<>> /\ (u \o v)[1] = u[1] /\ Len(v) <= Len(u \o v)
               /\ \A i \in 1..Len(v) : v[i] = (u \o v)[Len(u \o v) - Len(v) + i]
    BY <2>8
  <2>9. /\ AllLines(l) # <<>> /\ AllLines(l)[1] = x /\ Len(l.lines) <= Len(AllLines(l))
        /\ \A i \in 1..Len(l.lines) :
             l.lines[i] = AllLines(l)[Len(AllLines(l)) - Len(l.lines) + i]
    BY <1>1, <2>7, <2>8
  <2>10. OldestOf(l) = l.times[1]
    BY <2>1 DEF OldestOf
  <2>. QED  BY <2>2, <2>9, <2>10 DEF x
<1>. QED  BY <1>2, <1>3
-----------------------------------------------------------------------------
(* What can be read back *)

\* Without its oldest chunks a log reads as the end of what it read as.
LEMMA AllRest ==
  ASSUME NEW l, Shaped(l), NEW k \in 0..Len(l.chunks)
  PROVE  \E m \in 0..Len(AllLines(l)) :
            /\ AllLines(WithoutOldest(l, k)) = SubSeq(AllLines(l), m + 1, Len(AllLines(l)))
            /\ m < Len(AllLines(l)) => AllLines(l)[m + 1].t # NoTime
<1> DEFINE w == WithoutOldest(l, k)
           ss == SealedLines(l)
           f == FlattenSeq(ss)
           n == Len(l.chunks)
<1>1. /\ l \in LogSet /\ w \in LogSet /\ Shaped(w) /\ w.lines = l.lines
      /\ w.chunks = SubSeq(l.chunks, k + 1, n)
      /\ Len(w.chunks) = n - k /\ \A i \in 1..(n - k) : w.chunks[i] = l.chunks[k + i]
  <2>1. l \in LogSet /\ Len(l.times) = Len(l.chunks)
    BY DEF Shaped
  <2>2. Shaped(w)
    BY WithoutOldestShaped
  <2>3. /\ w \in LogSet /\ Len(w.chunks) = n - k
        /\ \A i \in 1..(n - k) : w.chunks[i] = l.chunks[k + i]
    BY <2>1, WithoutOldestIs
  <2>4. w = [chunks |-> SubSeq(l.chunks, k + 1, n),
             times |-> SubSeq(l.times, k + 1, Len(l.times)),
             lines |-> l.lines, pending |-> l.pending, current |-> l.current,
             raw |-> l.raw, first |-> l.first, last |-> l.last]
    BY <2>1, WithoutOldestIs
  <2>5. w.lines = l.lines /\ w.chunks = SubSeq(l.chunks, k + 1, n)
    BY <2>4
  <2>. QED  BY <2>1, <2>2, <2>3, <2>5
<1> HIDE DEF w
<1>2. /\ ss \in Seq(Seq(LineSet)) /\ Len(ss) = n
      /\ \A i \in 1..n : ss[i] = l.chunks[i].lines
      /\ AllLines(l) = f \o l.lines
  BY <1>1, SealedLinesIs
<1>3. /\ SealedLines(w) \in Seq(Seq(LineSet)) /\ Len(SealedLines(w)) = n - k
      /\ \A i \in 1..(n - k) : SealedLines(w)[i] = w.chunks[i].lines
      /\ AllLines(w) = FlattenSeq(SealedLines(w)) \o l.lines
      /\ AllLines(w) \in Seq(LineSet)
  BY <1>1, SealedLinesIs
<1>4. l.lines \in Seq(LineSet) /\ n \in Nat /\ k \in 0..n
  BY <1>1 DEF LogSet
<1> HIDE DEF n
<1>5. SealedLines(w) = SubSeq(ss, k + 1, n)
  <2> DEFINE S == Seq(LineSet)
             u == SealedLines(w)
             v == SubSeq(ss, k + 1, n)
  <2>1. ss \in Seq(S) /\ u \in Seq(S)
    BY <1>2, <1>3
  <2>2. \A i \in 1..(n - k) : u[i] = ss[k + i]
    <3>1. TAKE i \in 1..(n - k)
    <3>2. k + i \in 1..n
      BY <1>4
    <3>. QED  BY <1>1, <1>2, <1>3, <3>2
  <2>2a. n = Len(ss)
    BY <1>2
  <2> HIDE DEF S, u, ss
  <2>3. v \in Seq(S) /\ Len(v) = n - k /\ \A i \in 1..(n - k) : v[i] = ss[k + i]
    <3>1. /\ SubSeq(ss, k + 1, n) \in Seq(S) /\ Len(SubSeq(ss, k + 1, n)) = n - k
          /\ \A i \in 1..(n - k) : SubSeq(ss, k + 1, n)[i] = ss[k + i]
      <4>1. ss \in Seq(S) /\ n = Len(ss) /\ k \in 0..n
        BY <1>4, <2>1, <2>2a
      <4> HIDE DEF v
      <4>2. n \in Nat
        BY <1>4
      <4>3. SubSeq(ss, k + 1, n) \in Seq(S)
        BY <4>1, <4>2
      <4>4. Len(SubSeq(ss, k + 1, n)) = n - k
        BY <4>1, <4>2
      <4>5. ASSUME NEW i \in 1..(n - k) PROVE SubSeq(ss, k + 1, n)[i] = ss[k + i]
        BY <4>1, <4>2
      <4>. QED  BY <4>3, <4>4, <4>5
    <3>. QED  BY <3>1
  <2>4. Len(u) = n - k
    BY <1>3 DEF u
  <2> HIDE DEF v
  <2>5. \A i \in 1..Len(u) : u[i] = v[i]
    BY <2>2, <2>3, <2>4
  <2>6. u = v
    <3>1. ASSUME NEW c \in Seq(S), NEW d \in Seq(S), Len(c) = Len(d),
                 \A i \in 1..Len(c) : c[i] = d[i]
          PROVE  c = d
      BY <3>1
    <3>. QED  BY <2>1, <2>3, <2>4, <2>5, <3>1
  <2>. QED  BY <2>6 DEF u, v
<1>6. PICK p \in Seq(LineSet) : f = p \o FlattenSeq(SealedLines(w))
  BY <1>2, <1>4, <1>5, FlattenRest DEF n
<1>7. FlattenSeq(SealedLines(w)) \in Seq(LineSet)
  BY <1>3, <1>4, FlattenAppend
<1> DEFINE m == Len(p)
<1>8. ASSUME NEW u \in Seq(LineSet), NEW v \in Seq(LineSet), NEW x \in Seq(LineSet)
      PROVE  (u \o v) \o x = u \o (v \o x)
  OBVIOUS
<1>9. AllLines(l) = p \o AllLines(w)
  <2> DEFINE g == FlattenSeq(SealedLines(w))
  <2>1. (p \o g) \o l.lines = p \o (g \o l.lines)
    BY <1>4, <1>7, <1>8
  <2>. QED  BY <1>2, <1>3, <1>6, <2>1
<1> HIDE DEF f, ss
<1>10. ASSUME NEW u \in Seq(LineSet), NEW v \in Seq(LineSet)
       PROVE  /\ Len(u) \in 0..Len(u \o v) /\ v = SubSeq(u \o v, Len(u) + 1, Len(u \o v))
              /\ Len(u) < Len(u \o v) => v # <<>> /\ (u \o v)[Len(u) + 1] = v[1]
  <2>1. Len(u) \in Nat /\ Len(v) \in Nat /\ Len(u \o v) = Len(u) + Len(v) /\ u \o v \in Seq(LineSet)
    OBVIOUS
  <2>2. \A i \in 1..Len(v) : (u \o v)[Len(u) + i] = v[i]
    OBVIOUS
  <2>3. v = SubSeq(u \o v, Len(u) + 1, Len(u \o v))
    OBVIOUS
  <2>4. Len(u) < Len(u \o v) => v # <<>> /\ (u \o v)[Len(u) + 1] = v[1]
    BY <2>1, <2>2
  <2>. QED  BY <2>1, <2>3, <2>4
<1>11. /\ m \in 0..Len(AllLines(l)) /\ AllLines(w) = SubSeq(AllLines(l), m + 1, Len(AllLines(l)))
       /\ m < Len(AllLines(l)) => AllLines(w) # <<>> /\ AllLines(l)[m + 1] = AllLines(w)[1]
  <2> DEFINE v == AllLines(w)
  <2>1. v \in Seq(LineSet)
    BY <1>3
  <2> HIDE DEF v
  <2>2. /\ m \in 0..Len(p \o v) /\ v = SubSeq(p \o v, m + 1, Len(p \o v))
        /\ m < Len(p \o v) => v # <<>> /\ (p \o v)[m + 1] = v[1]
    BY <1>10, <2>1
  <2>3. AllLines(l) = p \o v
    BY <1>9 DEF v
  <2>. QED  BY <2>2, <2>3 DEF v
<1>12. AllLines(w) # <<>> => AllLines(w)[1].t # NoTime
  <2>1. AllLines(w) # <<>> => AllLines(w)[1].t \in Int
    BY <1>1, AllFirst
  <2>. QED  BY <2>1, Sizes
<1> HIDE DEF m
<1>. QED  BY <1>11, <1>12 DEF w

LEMMA AllEmpty == AllLines(EmptyLog) = <<>>
<1>1. Shaped(EmptyLog) /\ EmptyLog.lines = <<>> /\ EmptyLog.chunks = <<>>
  BY EmptyShaped DEF EmptyLog
<1>2. EmptyLog \in LogSet
  BY <1>1 DEF Shaped
<1>3. OldestOf(EmptyLog) = NoTime
  BY DEF OldestOf, EmptyLog
<1>. QED  BY <1>1, <1>3, AllFirst, Sizes

\* What the history has of a record.
TapeSet == [at : Int, raw : Nat, comp : Nat]

\* The lines L are the newest records of the tape tp, each with its time.
Holds(L, tp) ==
  /\ L \in Seq(LineSet) /\ Readable(L) /\ Len(L) <= Len(tp)
  /\ \A i \in 1..Len(L) :
       /\ L[i].place = Len(tp) - Len(L) + i
       /\ L[i].raw = tp[Len(tp) - Len(L) + i].raw
       /\ L[i].comp = tp[Len(tp) - Len(L) + i].comp
       /\ L[i].t # NoTime => L[i].t = tp[Len(tp) - Len(L) + i].at
       /\ Near(LastTime(L)[i], tp[Len(tp) - Len(L) + i].at)

LEMMA HoldsNone ==
  ASSUME NEW tp \in Seq(TapeSet)
  PROVE  Holds(<<>>, tp)
<1>1. <<>> \in Seq(LineSet) /\ Len(<<>>) = 0 /\ Len(tp) \in Nat
  OBVIOUS
<1>. QED  BY <1>1 DEF Holds, Readable

LEMMA HoldsAppend ==
  ASSUME NEW tp \in Seq(TapeSet), NEW L, Holds(L, tp), NEW x \in LineSet, NEW e \in TapeSet,
         x.place = Len(tp) + 1, x.raw = e.raw, x.comp = e.comp,
         x.t # NoTime => x.t = e.at,
         x.t = NoTime => /\ L # <<>> /\ x.dt # NoTime
                         /\ Near(LastTime(L)[Len(L)] + x.dt, e.at)
  PROVE  /\ Holds(Append(L, x), Append(tp, e))
         /\ LastTime(Append(L, x))[Len(L) + 1] = IF x.t # NoTime THEN x.t
                                                 ELSE LastTime(L)[Len(L)] + x.dt
         /\ \A j \in 1..Len(L) : LastTime(Append(L, x))[j] = LastTime(L)[j]
<1> DEFINE n == Len(L)
           t == Len(tp)
           M == Append(L, x)
           tq == Append(tp, e)
<1>1. L \in Seq(LineSet) /\ Readable(L) /\ n <= t
  BY DEF Holds
<1>2. /\ n \in Nat /\ t \in Nat /\ M \in Seq(LineSet) /\ Len(M) = n + 1 /\ M[n + 1] = x
      /\ \A i \in 1..n : M[i] = L[i]
  BY <1>1
<1>3. Len(tq) = t + 1 /\ tq[t + 1] = e /\ \A i \in 1..t : tq[i] = tp[i]
  OBVIOUS
<1>4. \A i \in 1..n :
        /\ L[i].place = t - n + i /\ L[i].raw = tp[t - n + i].raw
        /\ L[i].comp = tp[t - n + i].comp
        /\ L[i].t # NoTime => L[i].t = tp[t - n + i].at
        /\ Near(LastTime(L)[i], tp[t - n + i].at)
  BY DEF Holds
<1>4a. L # <<>> <=> n # 0
  BY <1>1
<1>4b. x.place = t + 1
  OBVIOUS
<1>5. Readable(M)
  <2>1. ASSUME NEW i \in 1..Len(M)
        PROVE  (i = 1 => M[i].t # NoTime) /\ (M[i].t = NoTime => M[i].dt # NoTime)
    <3>1. CASE i \in 1..n
      BY <1>1, <1>2, <3>1 DEF Readable
    <3>2. CASE i = n + 1
      BY <1>2, <1>4a, <3>2
    <3>. QED  BY <1>2, <3>1, <3>2
  <2>. QED  BY <2>1 DEF Readable
<1>6. \A j \in 0..n : LastTime(M)[j] = LastTime(L)[j]
  BY <1>1, <1>5, LastTimeAppend
<1>7. LastTime(M)[n + 1] = IF x.t # NoTime THEN x.t ELSE LastTime(L)[n] + x.dt
  <2>1. LastTime(M) \in Clocks(M)
    BY <1>2, <1>5, LastTimeIs
  <2>2. \A j \in 1..(n + 1) : LastTime(M)[j] = IF M[j].t # NoTime THEN M[j].t
                                          ELSE IF LastTime(M)[j - 1] = NoTime THEN NoTime
                                          ELSE LastTime(M)[j - 1] + M[j].dt
    BY <1>2, <2>1 DEF Clocks
  <2>3. n + 1 \in 1..(n + 1) /\ (n + 1) - 1 = n /\ n \in 0..n
    BY <1>2
  <2>4. x.t = NoTime => LastTime(L)[n] # NoTime
    <3>1. n # 0 => n \in 1..n
      BY <1>2
    <3>2. n # 0 => LastTime(L)[n] \in Int
      BY <1>1, <3>1, LastTimeIs
    <3>. QED  BY <1>4a, <3>2, Sizes
  <2>. QED  BY <1>2, <1>6, <2>2, <2>3, <2>4
<1> HIDE DEF M, tq
<1>8. ASSUME NEW i \in 1..(n + 1)
      PROVE  /\ M[i].place = (t + 1) - (n + 1) + i
             /\ M[i].raw = tq[(t + 1) - (n + 1) + i].raw
             /\ M[i].comp = tq[(t + 1) - (n + 1) + i].comp
             /\ M[i].t # NoTime => M[i].t = tq[(t + 1) - (n + 1) + i].at
             /\ Near(LastTime(M)[i], tq[(t + 1) - (n + 1) + i].at)
  <2> HIDE DEF n, t
  <2>1. CASE i \in 1..n
    <3>1. (t + 1) - (n + 1) + i = t - n + i /\ t - n + i \in 1..t /\ i \in 0..n
      BY <1>1, <1>2, <2>1
    <3>. QED  BY <1>2, <1>3, <1>4, <1>6, <2>1, <3>1
  <2>2. CASE i = n + 1
    <3>1. (t + 1) - (n + 1) + i = t + 1
      BY <1>2, <2>2
    <3>2. M[i] = x /\ tq[t + 1] = e
      BY <1>2, <1>3, <2>2
    <3>3. Near(LastTime(M)[n + 1], e.at)
      <4>1. CASE x.t # NoTime
        <5>1. e.at \in Int /\ Grid \div 2 \in Int /\ Grid \div 2 >= 0
          BY Sizes DEF TapeSet
        <5>. QED  BY <1>7, <4>1, <5>1 DEF Near
      <4>2. CASE x.t = NoTime
        BY <1>7, <4>2 DEF n
      <4>. QED  BY <4>1, <4>2
    <3>. QED  BY <1>4b, <2>2, <3>1, <3>2, <3>3
  <2>. QED  BY <1>2, <2>1, <2>2
<1>9. n + 1 <= t + 1
  BY <1>1, <1>2
<1>10. Holds(M, tq)
  BY <1>2, <1>3, <1>5, <1>8, <1>9 DEF Holds
<1>11. \A j \in 1..n : LastTime(M)[j] = LastTime(L)[j]
  <2>1. \A j \in 1..n : j \in 0..n
    BY <1>2
  <2>. QED  BY <1>6, <2>1
<1>. QED  BY <1>7, <1>10, <1>11 DEF M, tq

LEMMA HoldsRest ==
  ASSUME NEW tp \in Seq(TapeSet), NEW L, Holds(L, tp), NEW m \in 0..Len(L),
         m < Len(L) => L[m + 1].t # NoTime
  PROVE  /\ Holds(SubSeq(L, m + 1, Len(L)), tp)
         /\ \A j \in 1..(Len(L) - m) :
              /\ LastTime(SubSeq(L, m + 1, Len(L)))[j] = LastTime(L)[m + j]
              /\ SubSeq(L, m + 1, Len(L))[j] = L[m + j]
         /\ Len(SubSeq(L, m + 1, Len(L))) = Len(L) - m
<1> DEFINE n == Len(L)
           t == Len(tp)
           M == SubSeq(L, m + 1, n)
<1>1. L \in Seq(LineSet) /\ Readable(L) /\ n <= t
  BY DEF Holds
<1>2. /\ n \in Nat /\ t \in Nat /\ m \in 0..n /\ M \in Seq(LineSet) /\ Len(M) = n - m
      /\ \A i \in 1..(n - m) : M[i] = L[m + i]
  BY <1>1
<1>3. Readable(M) /\ \A j \in 1..(n - m) : LastTime(M)[j] = LastTime(L)[m + j]
  BY <1>1, LastTimeRest
<1>4. \A i \in 1..n :
        /\ L[i].place = t - n + i /\ L[i].raw = tp[t - n + i].raw
        /\ L[i].comp = tp[t - n + i].comp
        /\ L[i].t # NoTime => L[i].t = tp[t - n + i].at
        /\ Near(LastTime(L)[i], tp[t - n + i].at)
  BY DEF Holds
<1> HIDE DEF M, n, t
<1>5. ASSUME NEW i \in 1..(n - m)
      PROVE  /\ M[i].place = t - (n - m) + i
             /\ M[i].raw = tp[t - (n - m) + i].raw
             /\ M[i].comp = tp[t - (n - m) + i].comp
             /\ M[i].t # NoTime => M[i].t = tp[t - (n - m) + i].at
             /\ Near(LastTime(M)[i], tp[t - (n - m) + i].at)
  <2>1. t - (n - m) + i = t - n + (m + i) /\ m + i \in 1..n
    BY <1>2
  <2>. QED  BY <1>2, <1>3, <1>4, <2>1
<1>6. n - m <= t
  BY <1>1, <1>2
<1>7. Holds(M, tp)
  BY <1>2, <1>3, <1>5, <1>6 DEF Holds, t
<1>. QED  BY <1>2, <1>3, <1>7 DEF M, n
-----------------------------------------------------------------------------
(* A log that holds the newest records *)

\* The end of a sequence of lines: those that are left when chunks are dropped.
EndOf(L, m) == SubSeq(L, m + 1, Len(L))

\* The log l holds the newest records of the tape tp, and knows the time a reader
\* will get for the last one.
Kept(l, tp) ==
  /\ Shaped(l) /\ Holds(AllLines(l), tp)
  /\ l.lines # <<>> => l.last = LastTime(AllLines(l))[Len(AllLines(l))]

LEMMA KeptEmpty ==
  ASSUME NEW tp \in Seq(TapeSet)
  PROVE  Kept(EmptyLog, tp)
<1>1. EmptyLog.lines = <<>>
  BY DEF EmptyLog
<1>. QED  BY <1>1, EmptyShaped, AllEmpty, HoldsNone DEF Kept

\* What a record's line says agrees with when it came, to within a rounding.
LEMMA KeptAdded ==
  ASSUME NEW tp \in Seq(TapeSet), NEW l, Kept(l, tp), Len(l.pending) < FlushEvery,
         NEW r \in LineSet, NEW e \in TapeSet,
         r.place = Len(tp) + 1, r.raw = e.raw, r.comp = e.comp
  PROVE  /\ Kept(Added(l, e.at, r), Append(tp, e))
         /\ \A j \in 1..Len(AllLines(l)) :
              LastTime(AllLines(Added(l, e.at, r)))[j] = LastTime(AllLines(l))[j]
         /\ LastTime(AllLines(Added(l, e.at, r)))[Len(AllLines(l)) + 1] = NewLast(l, e.at)
         /\ AllLines(Added(l, e.at, r)) = Append(AllLines(l), LineOf(l, e.at, r))
<1> DEFINE at == e.at
           a == Added(l, at, r)
           x == LineOf(l, at, r)
           L == AllLines(l)
           q == NewLast(l, at)
<1>1. Shaped(l) /\ l \in LogSet /\ at \in Int /\ Holds(L, tp)
      /\ L \in Seq(LineSet)
  BY DEF Kept, Shaped, TapeSet, Holds
<1>2. Shaped(a) /\ a = Grown(l, x, q) /\ x \in LineSet /\ a.lines # <<>>
  BY <1>1, AddedShaped
<1>3. AllLines(a) = Append(L, x)
  BY <1>1, AllAdded
<1>4. /\ x.place = r.place /\ x.raw = r.raw /\ x.comp = r.comp
      /\ l.last = NoTime => x.t = at /\ q = at
      /\ l.last # NoTime => x.t = NoTime /\ x.dt = Rounded(at - l.last)
                            /\ q = l.last + Rounded(at - l.last)
  BY <1>1, LineOfType
<1>5. a.last = q
  <2> HIDE DEF a, q
  <2>. QED  BY <1>2 DEF Grown
<1> HIDE DEF a, x, q
<1>6. CASE l.last = NoTime
  <2>1. x.t = at /\ q = at /\ at # NoTime
    BY <1>1, <1>4, <1>6, Sizes
  <2>2. /\ Holds(Append(L, x), Append(tp, e))
        /\ LastTime(Append(L, x))[Len(L) + 1] = x.t
        /\ \A j \in 1..Len(L) : LastTime(Append(L, x))[j] = LastTime(L)[j]
    BY <1>1, <1>2, <1>4, <2>1, HoldsAppend
  <2>3. Len(AllLines(a)) = Len(L) + 1
    BY <1>1, <1>2, <1>3
  <2>. QED  BY <1>2, <1>3, <1>5, <2>1, <2>2, <2>3 DEF Kept, a, x, q
<1>7. CASE l.last # NoTime
  <2> DEFINE d == Rounded(at - l.last)
  <2>1. l.lines # <<>> /\ l.last \in Int
    BY <1>1, <1>7 DEF Shaped
  <2>2. L # <<>> /\ l.last = LastTime(L)[Len(L)]
    BY <1>1, <2>1, AllFirst DEF Kept
  <2>3. /\ d \in Int /\ d - (at - l.last) <= Grid \div 2
        /\ (at - l.last) - d <= Grid \div 2
    <3> HIDE DEF at
    <3>1. at - l.last \in Int
      BY <1>1, <2>1
    <3>. QED  BY <3>1, RoundedIsInt
  <2>4. x.t = NoTime /\ x.dt = d /\ q = l.last + d /\ d # NoTime
    BY <1>4, <1>7, <2>3, Sizes
  <2> HIDE DEF d
  <2>5. Near(l.last + d, at)
    <3>1. Grid \div 2 \in Int
      BY Sizes
    <3>. QED  BY <1>1, <2>1, <2>3, <3>1 DEF Near
  <2>6. /\ Holds(Append(L, x), Append(tp, e))
        /\ LastTime(Append(L, x))[Len(L) + 1] = LastTime(L)[Len(L)] + d
        /\ \A j \in 1..Len(L) : LastTime(Append(L, x))[j] = LastTime(L)[j]
    BY <1>1, <1>2, <1>4, <2>2, <2>4, <2>5, HoldsAppend
  <2>7. Len(AllLines(a)) = Len(L) + 1
    BY <1>1, <1>2, <1>3
  <2>. QED  BY <1>2, <1>3, <1>5, <2>2, <2>4, <2>6, <2>7 DEF Kept, a, x, q
<1>. QED  BY <1>6, <1>7

LEMMA KeptSealed ==
  ASSUME NEW tp, NEW l, Kept(l, tp), l.lines # <<>>
  PROVE  Kept(Seal(l), tp) /\ AllLines(Seal(l)) = AllLines(l)
<1>1. Shaped(l)
  BY DEF Kept
<1>2. AllLines(Seal(l)) = AllLines(l) /\ Shaped(Seal(l))
  BY <1>1, AllSealed, SealIs
<1>3. Seal(l).lines = <<>>
  BY <1>1, SealIs DEF Only
<1>. QED  BY <1>2, <1>3 DEF Kept

LEMMA KeptRest ==
  ASSUME NEW tp \in Seq(TapeSet), NEW l, Kept(l, tp), NEW k \in 0..Len(l.chunks)
  PROVE  /\ Kept(WithoutOldest(l, k), tp)
         /\ \E m \in 0..Len(AllLines(l)) :
              /\ AllLines(WithoutOldest(l, k)) = EndOf(AllLines(l), m)
              /\ m < Len(AllLines(l)) => AllLines(l)[m + 1].t # NoTime
<1> DEFINE w == WithoutOldest(l, k)
           L == AllLines(l)
           M == AllLines(w)
<1>1. Shaped(l) /\ Holds(L, tp) /\ L \in Seq(LineSet)
  BY DEF Kept, Holds
<1>2. PICK m \in 0..Len(L) : /\ M = SubSeq(L, m + 1, Len(L))
                             /\ m < Len(L) => L[m + 1].t # NoTime
  BY <1>1, AllRest
<1>3. Shaped(w) /\ w.lines = l.lines /\ w.last = l.last
  <2>1. Shaped(w)
    BY <1>1, WithoutOldestShaped
  <2>2. l \in LogSet /\ Len(l.times) = Len(l.chunks)
    BY <1>1 DEF Shaped
  <2>. QED  BY <2>1, <2>2, WithoutOldestIs
<1>4. M # <<>> \/ l.lines = <<>>
  BY <1>3, AllFirst
<1> HIDE DEF w, M
<1>5. /\ Holds(M, tp) /\ Len(M) = Len(L) - m
      /\ \A j \in 1..(Len(L) - m) : LastTime(M)[j] = LastTime(L)[m + j]
  BY <1>1, <1>2, HoldsRest
<1>6. M # <<>> => LastTime(M)[Len(M)] = LastTime(L)[Len(L)]
  <2>1. Len(L) \in Nat /\ m \in 0..Len(L) /\ (M # <<>> => Len(M) # 0)
    <3>1. M \in Seq(LineSet)
      BY <1>5 DEF Holds
    <3>. QED  BY <1>1, <3>1
  <2>2. M # <<>> => Len(M) \in 1..(Len(L) - m) /\ m + Len(M) = Len(L)
    BY <1>5, <2>1
  <2>. QED  BY <1>5, <2>2
<1>7. l.lines # <<>> => l.last = LastTime(L)[Len(L)]
  BY DEF Kept
<1>8. Kept(w, tp)
  BY <1>3, <1>4, <1>5, <1>6, <1>7 DEF Kept, M
<1>. QED  BY <1>2, <1>8 DEF w, M, EndOf

LEMMA KeptCap ==
  ASSUME NEW tp \in Seq(TapeSet), NEW l, Kept(l, tp)
  PROVE  /\ Kept(EnforceCap(l), tp)
         /\ \E m \in 0..Len(AllLines(l)) :
              /\ AllLines(EnforceCap(l)) = EndOf(AllLines(l), m)
              /\ m < Len(AllLines(l)) => AllLines(l)[m + 1].t # NoTime
<1>1. CASE EnforceCap(l) = EmptyLog
  <2> DEFINE L == AllLines(l)
  <2>1. L \in Seq(LineSet)
    BY DEF Kept, Holds
  <2> HIDE DEF L
  <2>2. Len(L) \in 0..Len(L) /\ ~(Len(L) < Len(L)) /\ SubSeq(L, Len(L) + 1, Len(L)) = <<>>
    BY <2>1
  <2>. QED  BY <1>1, <2>2, KeptEmpty, AllEmpty DEF L, EndOf
<1>2. CASE \E k \in 0..Len(l.chunks) : EnforceCap(l) = WithoutOldest(l, k)
  BY <1>2, KeptRest
<1>. QED  BY <1>1, <1>2, EnforceCapIs DEF Kept

LEMMA KeptBeforeCap ==
  ASSUME NEW tp \in Seq(TapeSet), NEW l, Kept(l, tp), Small(l),
         NEW r \in LineSet, NEW e \in TapeSet,
         r.place = Len(tp) + 1, r.raw = e.raw, r.comp = e.comp
  PROVE  /\ Kept(BeforeCap(l, e.at, r), Append(tp, e))
         /\ AllLines(BeforeCap(l, e.at, r)) = AllLines(Added(l, e.at, r))
<1>1. Len(l.pending) < FlushEvery /\ Shaped(l) /\ e.at \in Int
  BY DEF Small, Kept, TapeSet
<1>2. Kept(Added(l, e.at, r), Append(tp, e)) /\ Added(l, e.at, r).lines # <<>>
  BY <1>1, KeptAdded, AddedShaped
<1>. QED  BY <1>2, KeptSealed DEF BeforeCap

\* The newest record is never what makes the log forget all of it, while lines are
\* short enough for a chunk and a batch to fit.
EachFits(tp) ==
  \A i \in DOMAIN tp : /\ tp[i].raw * FlushEvery + ChunkBytes <= MaxBytes
                       /\ tp[i].comp * FlushEvery + ChunkBytes <= MaxBytes

\* The longest a line may then be.
Longest == (MaxBytes - ChunkBytes) \div FlushEvery

LEMMA LongestIs ==
  /\ Longest \in Nat /\ FlushEvery * Longest + ChunkBytes <= MaxBytes
  /\ \A c \in Nat : c * FlushEvery + ChunkBytes <= MaxBytes => c <= Longest
<1> DEFINE d == MaxBytes - ChunkBytes
           b == Longest
<1>1. d \in Nat /\ FlushEvery \in Nat /\ FlushEvery > 0
  BY SizesAssumption DEF SizesAssumption
<1>1a. b = d \div FlushEvery
  BY DEF Longest
<1> HIDE DEF d, b
<1>2. b \in Int /\ FlushEvery * b <= d /\ d < FlushEvery * b + FlushEvery
  BY <1>1, <1>1a
<1>2a. b >= 0
  <2>1. SUFFICES ASSUME b <= -1 PROVE FALSE
    BY <1>2
  <2>2. FlushEvery * b <= FlushEvery * (-1)
    BY <1>1, <1>2, <2>1
  <2>. QED  BY <1>1, <1>2, <2>2
<1>3. ASSUME NEW c \in Nat, c * FlushEvery <= d PROVE c <= b
  <2>1. SUFFICES ASSUME b + 1 <= c PROVE FALSE
    BY <1>2
  <2>2. FlushEvery * (b + 1) <= FlushEvery * c
    BY <1>1, <1>2, <2>1
  <2>3. FlushEvery * (b + 1) = FlushEvery * b + FlushEvery
    BY <1>1, <1>2
  <2>4. FlushEvery * c = c * FlushEvery
    BY <1>1
  <2>. QED  BY <1>1, <1>2, <1>3, <2>2, <2>3, <2>4
<1>4. MaxBytes \in Nat /\ ChunkBytes \in Nat /\ d = MaxBytes - ChunkBytes
  BY Sizes DEF d
<1>5. \A c \in Nat : c * FlushEvery \in Int
  BY <1>1
<1>6. FlushEvery * b \in Int
  BY <1>1, <1>2
<1>7. FlushEvery * b + ChunkBytes <= MaxBytes
  BY <1>2, <1>4, <1>6
<1>8. \A c \in Nat : c * FlushEvery + ChunkBytes <= MaxBytes => c <= b
  BY <1>3, <1>4, <1>5
<1>. QED  BY <1>2, <1>2a, <1>7, <1>8 DEF b

\* One more line in a batch that was not full: what it comes to, compressed or not.
LEMMA BatchFits ==
  ASSUME NEW P \in Seq(LineSet), NEW x \in LineSet, NEW b \in Nat,
         Len(P) < FlushEvery, FlushEvery * b + ChunkBytes <= MaxBytes,
         x.raw <= b, x.comp <= b,
         \A i \in 1..Len(P) : P[i].raw <= b /\ P[i].comp <= b
  PROVE  /\ Raw(Append(P, x)) \in Nat /\ Compressed(Append(P, x)) \in Nat
         /\ Raw(Append(P, x)) + ChunkBytes <= MaxBytes
         /\ Compressed(Append(P, x)) + ChunkBytes <= MaxBytes
<1> DEFINE Q == Append(P, x)
           n == Len(P)
<1>1. /\ Q \in Seq(LineSet) /\ Len(Q) = n + 1 /\ Q[n + 1] = x /\ n \in Nat
      /\ \A i \in 1..n : Q[i] = P[i]
  OBVIOUS
<1>2. \A i \in 1..(n + 1) : Q[i].raw <= b /\ Q[i].comp <= b
  <2>1. TAKE i \in 1..(n + 1)
  <2>2. i = n + 1 \/ i \in 1..n
    BY <1>1
  <2>. QED  BY <1>1, <2>2
<1> HIDE DEF Q
<1>3. /\ Raw(Q) \in Nat /\ Compressed(Q) \in Nat
      /\ Raw(Q) <= (n + 1) * b /\ Compressed(Q) <= (n + 1) * b
  <2>1. Raw(Q) \in Nat /\ Compressed(Q) \in Nat
    BY <1>1, LinesSize
  <2>2. Raw(Q) <= Len(Q) * b /\ Compressed(Q) <= Len(Q) * b
    BY <1>1, <1>2, LinesSize
  <2>. QED  BY <1>1, <2>1, <2>2
<1>4. (n + 1) * b <= FlushEvery * b /\ (n + 1) * b \in Int /\ FlushEvery * b \in Int
  <2> HIDE DEF n
  <2>1. n + 1 <= FlushEvery /\ FlushEvery \in Nat
    BY <1>1, Sizes DEF n
  <2>2. PICK d \in Nat : FlushEvery = (n + 1) + d
    <3>1. FlushEvery - (n + 1) \in Nat /\ FlushEvery = (n + 1) + (FlushEvery - (n + 1))
      BY <1>1, <2>1
    <3>. QED  BY <3>1
  <2>3. ((n + 1) + d) * b = (n + 1) * b + d * b /\ d * b \in Nat /\ (n + 1) * b \in Nat
    BY <1>1
  <2> HIDE DEF n
  <2>. QED  BY <2>2, <2>3
<1>5. MaxBytes \in Nat /\ ChunkBytes \in Nat
  BY Sizes
<1> HIDE DEF n
<1>. QED  BY <1>3, <1>4, <1>5 DEF Q

\* The open chunk, with one more line, fits under the ceiling: sealed or not.
LEMMA OpenFits ==
  ASSUME NEW tp \in Seq(TapeSet), NEW l, Kept(l, tp), Small(l),
         NEW r \in LineSet, NEW e \in TapeSet,
         r.place = Len(tp) + 1, r.raw = e.raw, r.comp = e.comp, EachFits(Append(tp, e))
  PROVE  /\ SealedChunk(Added(l, e.at, r)).size <= MaxBytes
         /\ ~Full(Added(l, e.at, r)) =>
              Added(l, e.at, r).current + Raw(Added(l, e.at, r).pending) <= MaxBytes
<1> DEFINE a == Added(l, e.at, r)
           x == LineOf(l, e.at, r)
           q == NewLast(l, e.at)
           P == l.pending
           Q == Append(P, x)
           L == AllLines(l)
           b == Longest
<1>1. /\ l \in LogSet /\ Shaped(l) /\ e.at \in Int /\ e.raw \in Nat /\ e.comp \in Nat
      /\ Len(P) < FlushEvery /\ P \in Seq(LineSet) /\ l.current \in Nat
      /\ l.current < ChunkBytes
  <2>1. l \in LogSet /\ Shaped(l)
    BY DEF Kept, Shaped
  <2>2. ~(l.current >= ChunkBytes) /\ Len(P) < FlushEvery
    BY DEF Small, Full
  <2>3. P \in Seq(LineSet) /\ l.current \in Nat
    BY <2>1 DEF LogSet
  <2>4. e.at \in Int /\ e.raw \in Nat /\ e.comp \in Nat
    BY DEF TapeSet
  <2>5. l.current < ChunkBytes
    BY <2>2, <2>3, Sizes
  <2>. QED  BY <2>1, <2>2, <2>3, <2>4, <2>5
<1>2. /\ x \in LineSet /\ a = Grown(l, x, q) /\ x.raw = e.raw /\ x.comp = e.comp
  BY <1>1, AddedShaped, LineOfType
<1>3. /\ b \in Nat /\ FlushEvery * b + ChunkBytes <= MaxBytes
      /\ \A c \in Nat : c * FlushEvery + ChunkBytes <= MaxBytes => c <= b
  BY LongestIs
<1>4. e.raw <= b /\ e.comp <= b /\ \A i \in 1..Len(tp) : tp[i].raw <= b /\ tp[i].comp <= b
  <2> DEFINE tq == Append(tp, e)
  <2>1. /\ tq \in Seq(TapeSet) /\ Len(tq) = Len(tp) + 1 /\ tq[Len(tp) + 1] = e
        /\ \A i \in 1..Len(tp) : tq[i] = tp[i]
    OBVIOUS
  <2>2. \A i \in 1..Len(tq) : /\ tq[i] \in TapeSet
                              /\ tq[i].raw * FlushEvery + ChunkBytes <= MaxBytes
                              /\ tq[i].comp * FlushEvery + ChunkBytes <= MaxBytes
    BY <2>1 DEF EachFits
  <2> HIDE DEF tq, b
  <2>3. \A i \in 1..Len(tq) : tq[i].raw <= b /\ tq[i].comp <= b
    BY <1>3, <2>2 DEF TapeSet
  <2>. QED  BY <2>1, <2>3
<1>5. \A i \in 1..Len(P) : P[i].raw <= b /\ P[i].comp <= b
  <2>1. TAKE i \in 1..Len(P)
  <2> DEFINE n == Len(l.lines)
             j == n - Len(P) + i
             m == Len(L) - n + j
  <2>2. /\ Len(P) <= n /\ P[i] = l.lines[j] /\ n \in Nat /\ Len(P) \in Nat
    <3>1. Len(P) <= n /\ P[i] = l.lines[j]
      BY <1>1 DEF Shaped
    <3>2. l.lines \in Seq(LineSet) /\ P \in Seq(LineSet)
      BY <1>1 DEF LogSet
    <3>. QED  BY <3>1, <3>2
  <2>3. j \in 1..n
    <3> HIDE DEF n, P
    <3>. QED  BY <2>2
  <2>4. n <= Len(L) /\ l.lines[j] = L[m] /\ Len(L) \in Nat
    <3>1. L \in Seq(LineSet)
      BY DEF Kept, Holds
    <3>2. n <= Len(L) /\ l.lines[j] = L[Len(L) - n + j]
      BY <1>1, <2>3, AllFirst
    <3>. QED  BY <3>1, <3>2
  <2> HIDE DEF n, j
  <2>5. m \in 1..Len(L)
    BY <2>2, <2>3, <2>4
  <2> HIDE DEF m
  <2>6. /\ L[m].raw = tp[Len(tp) - Len(L) + m].raw /\ L[m].comp = tp[Len(tp) - Len(L) + m].comp
        /\ Len(L) <= Len(tp)
    BY <2>5 DEF Kept, Holds
  <2>7. Len(tp) - Len(L) + m \in 1..Len(tp)
    <3>1. Len(tp) \in Nat
      OBVIOUS
    <3> HIDE DEF L
    <3>. QED  BY <2>4, <2>5, <2>6, <3>1
  <2>. QED  BY <1>4, <2>2, <2>4, <2>6, <2>7
<1> HIDE DEF b, L
<1>6. /\ Raw(Q) \in Nat /\ Compressed(Q) \in Nat /\ Raw(Q) + ChunkBytes <= MaxBytes
      /\ Compressed(Q) + ChunkBytes <= MaxBytes
  BY <1>1, <1>2, <1>3, <1>4, <1>5, BatchFits
<1>7. \/ a.pending = <<>> /\ a.current = l.current + Compressed(Q)
      \/ a.pending = Q /\ a.current = l.current
  <2> HIDE DEF a, x, q
  <2>. QED  BY <1>2 DEF Grown
<1>8. Compressed(<<>>) = 0 /\ Raw(<<>>) = 0
  <2>1. [i \in DOMAIN <<>> |-> <<>>[i].raw] = <<>> /\ [i \in DOMAIN <<>> |-> <<>>[i].comp] = <<>>
    OBVIOUS
  <2>. QED  BY <2>1, TotalEmpty DEF Compressed, Raw
<1>9. MaxBytes \in Nat /\ ChunkBytes \in Nat
  BY Sizes
<1>10. SealedChunk(a).size = a.current + Compressed(a.pending)
  BY DEF SealedChunk
<1>11. ~Full(a) => ~(a.current >= ChunkBytes)
  BY DEF Full
<1> HIDE DEF a, Q, P
<1>12. SealedChunk(a).size <= MaxBytes
  <2>1. a.current + Compressed(a.pending) = l.current + Compressed(Q)
    <3>1. CASE a.pending = <<>> /\ a.current = l.current + Compressed(Q)
      <4>1. a.current + Compressed(a.pending) = (l.current + Compressed(Q)) + 0
        BY <1>8, <3>1
      <4>. QED  BY <1>1, <1>6, <4>1
    <3>2. CASE a.pending = Q /\ a.current = l.current
      BY <3>2
    <3>. QED  BY <1>7, <3>1, <3>2
  <2>. QED  BY <1>1, <1>6, <1>9, <1>10, <2>1
<1>13. ~Full(a) => a.current + Raw(a.pending) <= MaxBytes
  <2>1. CASE a.pending = <<>> /\ a.current = l.current + Compressed(Q)
    <3>1. Raw(a.pending) = 0 /\ a.current \in Nat
      BY <1>1, <1>6, <1>8, <2>1
    <3>2. ~Full(a) => a.current < ChunkBytes
      BY <1>9, <1>11, <3>1
    <3>3. ChunkBytes <= MaxBytes
      BY <1>6, <1>9, Sizes
    <3>. QED  BY <1>9, <3>1, <3>2, <3>3
  <2>2. CASE a.pending = Q /\ a.current = l.current
    <3>1. Raw(a.pending) = Raw(Q)
      BY <2>2
    <3>. QED  BY <1>1, <1>6, <1>9, <2>2, <3>1, Sizes
  <2>. QED  BY <1>7, <2>1, <2>2
<1>. QED  BY <1>12, <1>13 DEF a

LEMMA NewestStays ==
  ASSUME NEW tp \in Seq(TapeSet), NEW l, Kept(l, tp), Small(l),
         NEW r \in LineSet, NEW e \in TapeSet,
         r.place = Len(tp) + 1, r.raw = e.raw, r.comp = e.comp, EachFits(Append(tp, e))
  PROVE  AllLines(Add(l, e.at, r)) # <<>>
<1> DEFINE a == Added(l, e.at, r)
           c == BeforeCap(l, e.at, r)
           n == Len(c.chunks)
<1>1. Shaped(l) /\ e.at \in Int /\ Len(l.pending) < FlushEvery
  BY DEF Kept, TapeSet, Small
<1>2. Shaped(a) /\ a.lines # <<>> /\ a \in LogSet
  <2>1. Shaped(a) /\ a.lines # <<>>
    BY <1>1, AddedShaped
  <2> HIDE DEF a
  <2>. QED  BY <2>1 DEF Shaped
<1>3. Add(l, e.at, r) = EnforceCap(c) /\ Shaped(c)
  BY <1>1, AddIs
<1>4. /\ SealedChunk(a).size <= MaxBytes
      /\ ~Full(a) => a.current + Raw(a.pending) <= MaxBytes
  BY OpenFits
<1>5. Full(a) => c = Seal(a)
  BY DEF BeforeCap
<1>6. ~Full(a) => c = a
  BY DEF BeforeCap
<1> HIDE DEF a, c
<1>7. /\ c \in LogSet /\ Len(c.times) = Len(c.chunks) /\ n \in Nat
      /\ c.chunks \in Seq(ChunkSet)
  BY <1>3 DEF Shaped, LogSet
<1>8. CASE Full(a)
  <2>1. /\ c = Only(Append(a.chunks, SealedChunk(a)), Append(a.times, a.first))
        /\ SealedChunk(a) \in ChunkSet
    BY <1>2, <1>5, <1>8, SealIs
  <2>2. /\ c.chunks = Append(a.chunks, SealedChunk(a)) /\ c.pending = <<>> /\ c.current = 0
    BY <2>1 DEF Only
  <2>3. n >= 1 /\ c.chunks[n] = SealedChunk(a)
    <3>1. a.chunks \in Seq(ChunkSet)
      BY <1>2 DEF LogSet
    <3>. QED  BY <2>1, <2>2, <3>1
  <2> DEFINE w == WithoutOldest(c, n - 1)
  <2>4. n - 1 \in 0..n /\ n - 1 \in 0..Len(c.chunks)
    BY <1>7, <2>3
  <2>5. /\ Sealed(w) = SealedChunk(a).size /\ w.pending = <<>> /\ w.current = 0
    <3>1. Sealed(w) = c.chunks[n].size
      BY <1>7, <2>4, SealedSize
    <3>2. w.pending = c.pending /\ w.current = c.current
      <4>1. ASSUME NEW k \in 0..Len(c.chunks)
            PROVE  /\ WithoutOldest(c, k).pending = c.pending
                   /\ WithoutOldest(c, k).current = c.current
        BY <1>7, WithoutOldestIs
      <4>. QED  BY <2>4, <4>1
    <3>. QED  BY <2>2, <2>3, <3>1, <3>2
  <2>6. Raw(<<>>) = 0
    <3>1. <<>> \in Seq(LineSet)
      OBVIOUS
    <3>. QED  BY <3>1, LinesSize
  <2>7. SealedChunk(a).size \in Nat
    BY <2>1 DEF ChunkSet
  <2>8. Size(w) <= MaxBytes
    <3> HIDE DEF w
    <3>. QED  BY <1>4, <2>5, <2>6, <2>7 DEF Size
  <2>9. PICK k \in 0..Len(c.chunks) : EnforceCap(c) = WithoutOldest(c, k) /\ k <= n - 1
    <3>1. ~(Size(w) > MaxBytes)
      <4>1. Size(w) \in Int /\ MaxBytes \in Int
        <5> HIDE DEF w
        <5>. QED  BY <2>5, <2>6, <2>7, Sizes DEF Size
      <4> HIDE DEF w
      <4>. QED  BY <2>8, <4>1
    <3>2. ~\A k \in 0..Len(c.chunks) : Size(WithoutOldest(c, k)) > MaxBytes
      BY <2>4, <3>1
    <3>3. PICK k \in 0..Len(c.chunks) :
            /\ EnforceCap(c) = WithoutOldest(c, k)
            /\ \A j \in 0..Len(c.chunks) : Size(WithoutOldest(c, j)) <= MaxBytes => k <= j
      BY <1>3, <3>2, EnforceCapIs
    <3>. QED  BY <2>4, <2>8, <3>3
  <2>10. Shaped(WithoutOldest(c, k)) /\ WithoutOldest(c, k).chunks # <<>>
    <3>1. Shaped(WithoutOldest(c, k))
      BY <1>3, WithoutOldestShaped
    <3>2. Len(WithoutOldest(c, k).chunks) = n - k
      BY <1>7, WithoutOldestIs
    <3>3. n - k # 0
      BY <1>7, <2>9
    <3>. QED  BY <3>1, <3>2, <3>3
  <2>. QED  BY <1>3, <2>9, <2>10, AllFirst
<1>9. CASE ~Full(a)
  <2>1. c = a /\ c.lines # <<>> /\ c.current + Raw(c.pending) <= MaxBytes
    BY <1>2, <1>4, <1>6, <1>9
  <2> DEFINE w == WithoutOldest(c, n)
  <2>2. n \in 0..Len(c.chunks)
    BY <1>7
  <2>3. Sealed(w) = 0 /\ w.pending = c.pending /\ w.current = c.current
    <3>1. Sealed(w) = 0
      BY <1>7, <2>2, SealedSize
    <3>2. w.pending = c.pending /\ w.current = c.current
      BY <1>7, <2>2, WithoutOldestIs
    <3>. QED  BY <3>1, <3>2
  <2>4. Raw(c.pending) \in Nat /\ c.current \in Nat
    BY <1>7, LinesSize DEF LogSet
  <2>5. Size(w) <= MaxBytes /\ Size(w) \in Int /\ MaxBytes \in Int
    <3> HIDE DEF w
    <3>. QED  BY <2>1, <2>3, <2>4, Sizes DEF Size
  <2>6. ~(Size(w) > MaxBytes)
    <3> HIDE DEF w
    <3>. QED  BY <2>5
  <2>7. PICK k \in 0..Len(c.chunks) : EnforceCap(c) = WithoutOldest(c, k)
    BY <1>3, <2>2, <2>6, EnforceCapIs
  <2>8. Shaped(WithoutOldest(c, k)) /\ WithoutOldest(c, k).lines # <<>>
    BY <1>3, <1>7, <2>1, WithoutOldestShaped, WithoutOldestIs
  <2>. QED  BY <1>3, <2>7, <2>8, AllFirst
<1>. QED  BY <1>8, <1>9

\* The log after a record holds the newest records, the new one with them.
LEMMA KeptAdd ==
  ASSUME NEW tp \in Seq(TapeSet), NEW l, Kept(l, tp), Small(l),
         NEW r \in LineSet, NEW e \in TapeSet,
         r.place = Len(tp) + 1, r.raw = e.raw, r.comp = e.comp
  PROVE  /\ Kept(Add(l, e.at, r), Append(tp, e))
         /\ \E m \in 0..Len(AllLines(Added(l, e.at, r))) :
              /\ AllLines(Add(l, e.at, r)) = EndOf(AllLines(Added(l, e.at, r)), m)
              /\ m < Len(AllLines(Added(l, e.at, r))) =>
                   AllLines(Added(l, e.at, r))[m + 1].t # NoTime
<1>1. Append(tp, e) \in Seq(TapeSet) /\ Shaped(l) /\ e.at \in Int
  BY DEF Kept, TapeSet
<1>2. /\ Kept(BeforeCap(l, e.at, r), Append(tp, e))
      /\ AllLines(BeforeCap(l, e.at, r)) = AllLines(Added(l, e.at, r))
  BY KeptBeforeCap
<1>3. Add(l, e.at, r) = EnforceCap(BeforeCap(l, e.at, r))
  BY <1>1, AddIs
<1>. QED  BY <1>1, <1>2, <1>3, KeptCap

-----------------------------------------------------------------------------
(* While the clock runs forward *)

\* The records came one after the other, and none after the moment given.
Steady(tp, moment) ==
  /\ \A i, j \in 1..Len(tp) : i <= j => tp[i].at <= tp[j].at
  /\ \A i \in 1..Len(tp) : tp[i].at <= moment

\* A line is read no earlier than the beginning of any chunk before it.
Forward(L) ==
  \A i, j \in 1..Len(L) : i <= j /\ L[i].t # NoTime => LastTime(L)[j] >= L[i].t

LEMMA SteadyAppend ==
  ASSUME NEW tp \in Seq(TapeSet), NEW moment \in Int, Steady(tp, moment),
         NEW e \in TapeSet, moment <= e.at
  PROVE  Steady(Append(tp, e), e.at)
<1> DEFINE n == Len(tp)
           tq == Append(tp, e)
<1>1. Len(tq) = n + 1 /\ tq[n + 1] = e /\ n \in Nat /\ \A i \in 1..n : tq[i] = tp[i]
  OBVIOUS
<1>2. e.at \in Int /\ \A i \in 1..n : tp[i].at \in Int
  <2>1. \A i \in 1..n : tp[i] \in TapeSet
    OBVIOUS
  <2>. QED  BY <2>1 DEF TapeSet
<1>3. /\ \A i, j \in 1..n : i <= j => tp[i].at <= tp[j].at
      /\ \A i \in 1..n : tp[i].at <= moment
  BY DEF Steady
<1> HIDE DEF tq, n
<1>4. \A i \in 1..(n + 1) : tq[i].at <= e.at
  <2>1. TAKE i \in 1..(n + 1)
  <2>2. i = n + 1 \/ i \in 1..n
    BY <1>1
  <2>. QED  BY <1>1, <1>2, <1>3, <2>2
<1>5. ASSUME NEW i \in 1..(n + 1), NEW j \in 1..(n + 1), i <= j
      PROVE  tq[i].at <= tq[j].at
  <2>1. CASE j = n + 1
    BY <1>1, <1>4, <2>1
  <2>2. CASE j # n + 1
    <3>1. i \in 1..n /\ j \in 1..n
      BY <1>1, <1>5, <2>2
    <3>. QED  BY <1>1, <1>3, <1>5, <3>1
  <2>. QED  BY <2>1, <2>2
<1>. QED  BY <1>1, <1>4, <1>5 DEF Steady, tq

LEMMA SteadyLater ==
  ASSUME NEW tp \in Seq(TapeSet), NEW moment \in Int, Steady(tp, moment), NEW later \in Int, moment <= later
  PROVE  Steady(tp, later)
<1>1. \A i \in 1..Len(tp) : tp[i].at \in Int
  <2>1. \A i \in 1..Len(tp) : tp[i] \in TapeSet
    OBVIOUS
  <2>. QED  BY <2>1 DEF TapeSet
<1>. QED  BY <1>1 DEF Steady

\* The difference to the line before is never negative.
LEMMA RoundedForward ==
  ASSUME NEW d \in Int, d + Grid \div 2 >= 0
  PROVE  Rounded(d) >= 0
<1> DEFINE h == Grid \div 2
           q == (d + h) \div Grid
<1>1. Grid \in Nat /\ Grid > 0 /\ h \in Int
  BY Sizes
<1>1a. d + h >= 0
  OBVIOUS
<1> HIDE DEF h
<1>2. q \in Int /\ q >= 0
  BY <1>1, <1>1a
<1> HIDE DEF q
<1>3. q * Grid >= 0
  BY <1>1, <1>2
<1>. QED  BY <1>3 DEF Rounded, q, h

LEMMA ForwardAdded ==
  ASSUME NEW tp \in Seq(TapeSet), NEW l, Kept(l, tp), Len(l.pending) < FlushEvery,
         NEW r \in LineSet, NEW e \in TapeSet, NEW moment \in Int,
         r.place = Len(tp) + 1, r.raw = e.raw, r.comp = e.comp,
         Steady(tp, moment), moment <= e.at, Forward(AllLines(l))
  PROVE  Forward(AllLines(Added(l, e.at, r)))
<1> DEFINE L == AllLines(l)
           M == AllLines(Added(l, e.at, r))
           x == LineOf(l, e.at, r)
           q == NewLast(l, e.at)
           n == Len(L)
<1>1. /\ M = Append(L, x) /\ LastTime(M)[n + 1] = q
      /\ \A j \in 1..n : LastTime(M)[j] = LastTime(L)[j]
  BY KeptAdded
<1>2. Shaped(l) /\ l \in LogSet /\ e.at \in Int /\ Holds(L, tp)
  BY DEF Kept, Shaped, TapeSet
<1>3. /\ x \in LineSet /\ q \in Int
      /\ l.last = NoTime => x.t = e.at /\ q = e.at
      /\ l.last # NoTime => x.t = NoTime /\ q = l.last + Rounded(e.at - l.last)
  BY <1>2, LineOfType
<1>4. L \in Seq(LineSet) /\ n <= Len(tp) /\ n \in Nat /\ Len(tp) \in Nat
      /\ Readable(L)
  BY <1>2 DEF Holds
<1>5. \A i \in 1..n : /\ L[i].t # NoTime => L[i].t = tp[Len(tp) - n + i].at
                      /\ Near(LastTime(L)[i], tp[Len(tp) - n + i].at)
                      /\ LastTime(L)[i] \in Int
  BY <1>2, <1>4, LastTimeIs DEF Holds
<1>6. l.last # NoTime => n # 0 /\ l.last = LastTime(L)[n] /\ l.last \in Int
  <2>1. l.last # NoTime => l.lines # <<>>
    BY <1>2 DEF Shaped
  <2>2. l.lines # <<>> => L # <<>> /\ l.last = LastTime(L)[n] /\ l.last \in Int
    BY <1>2, AllFirst DEF Kept, Shaped
  <2>. QED  BY <1>4, <2>1, <2>2
<1>7. \A i \in 1..Len(tp) : tp[i].at <= e.at /\ tp[i].at \in Int
  <2>1. \A i \in 1..Len(tp) : tp[i].at <= moment
    BY DEF Steady
  <2>2. \A i \in 1..Len(tp) : tp[i] \in TapeSet
    OBVIOUS
  <2>3. \A i \in 1..Len(tp) : tp[i].at \in Int
    BY <2>2 DEF TapeSet
  <2>4. TAKE i \in 1..Len(tp)
  <2>5. tp[i].at <= moment /\ tp[i].at \in Int
    BY <2>1, <2>3
  <2>. QED  BY <1>2, <2>5
<1>8. \A i \in 1..n : Len(tp) - n + i \in 1..Len(tp)
  <2> HIDE DEF n
  <2>. QED  BY <1>4
<1>9. Len(M) = n + 1 /\ M[n + 1] = x /\ \A i \in 1..n : M[i] = L[i]
  BY <1>1, <1>3, <1>4
<1>10. \A i, j \in 1..n : i <= j /\ L[i].t # NoTime => LastTime(L)[j] >= L[i].t
  BY DEF Forward
<1> HIDE DEF L, M, x, q, n
<1>11. \A i \in 1..n : L[i].t # NoTime => q >= L[i].t
  <2>1. TAKE i \in 1..n
  <2>2. HAVE L[i].t # NoTime
  <2>3. CASE l.last = NoTime
    BY <1>2, <1>3, <1>5, <1>7, <1>8, <2>2, <2>3
  <2>4. CASE l.last # NoTime
    <3>1. n \in 1..n /\ l.last = LastTime(L)[n] /\ l.last \in Int
      BY <1>4, <1>6, <2>4
    <3>2. l.last >= L[i].t /\ L[i].t \in Int
      <4>1. i <= n
        BY <1>4
      <4>2. L[i].t = tp[Len(tp) - n + i].at /\ tp[Len(tp) - n + i].at \in Int
        BY <1>5, <1>7, <1>8, <2>2
      <4>. QED  BY <1>10, <2>2, <3>1, <4>1, <4>2
    <3>3. tp[Len(tp) - n + n].at <= e.at /\ Near(l.last, tp[Len(tp) - n + n].at)
          /\ tp[Len(tp) - n + n].at \in Int
      BY <1>5, <1>7, <1>8, <3>1
    <3>4. e.at - l.last \in Int /\ (e.at - l.last) + Grid \div 2 >= 0
      <4>1. Grid \div 2 \in Int
        BY Sizes
      <4>2. l.last - tp[Len(tp) - n + n].at <= Grid \div 2
        BY <3>3 DEF Near
      <4>3. ASSUME NEW a \in Int, NEW b \in Int, NEW c \in Int, NEW d \in Int,
                   c <= a, b - c <= d
            PROVE  a - b \in Int /\ (a - b) + d >= 0
        BY <4>3
      <4>. QED  BY <1>2, <3>1, <3>3, <4>1, <4>2, <4>3
    <3>5. Rounded(e.at - l.last) >= 0 /\ Rounded(e.at - l.last) \in Int
      BY <3>4, RoundedForward, RoundedIsInt
    <3>. QED  BY <1>3, <2>4, <3>1, <3>2, <3>5
  <2>. QED  BY <2>3, <2>4
<1>12. ASSUME NEW i \in 1..(n + 1), NEW j \in 1..(n + 1), i <= j, M[i].t # NoTime
       PROVE  LastTime(M)[j] >= M[i].t
  <2>1. CASE j # n + 1
    <3>1. i \in 1..n /\ j \in 1..n
      BY <1>4, <1>12, <2>1
    <3>. QED  BY <1>1, <1>9, <1>10, <1>12, <3>1
  <2>2. CASE j = n + 1 /\ i # n + 1
    <3>1. i \in 1..n
      BY <1>4, <2>2
    <3>. QED  BY <1>1, <1>9, <1>11, <1>12, <2>2, <3>1
  <2>3. CASE j = n + 1 /\ i = n + 1
    <3>1. q = x.t
      BY <1>3, <1>9, <1>12, <2>3
    <3>. QED  BY <1>1, <1>3, <1>9, <2>3, <3>1
  <2>. QED  BY <2>1, <2>2, <2>3
<1>. QED  BY <1>9, <1>12 DEF Forward, M

LEMMA ForwardRest ==
  ASSUME NEW tp \in Seq(TapeSet), NEW L, Holds(L, tp), NEW m \in 0..Len(L),
         m < Len(L) => L[m + 1].t # NoTime, Forward(L)
  PROVE  Forward(EndOf(L, m))
<1> DEFINE M == SubSeq(L, m + 1, Len(L))
           n == Len(L)
<1>1. /\ Len(M) = n - m
      /\ \A j \in 1..(n - m) : LastTime(M)[j] = LastTime(L)[m + j] /\ M[j] = L[m + j]
  BY HoldsRest
<1>2. n \in Nat /\ m \in 0..n
  BY DEF Holds
<1>3. \A i, j \in 1..n : i <= j /\ L[i].t # NoTime => LastTime(L)[j] >= L[i].t
  BY DEF Forward
<1> HIDE DEF M, n
<1>4. ASSUME NEW i \in 1..(n - m), NEW j \in 1..(n - m), i <= j, M[i].t # NoTime
      PROVE  LastTime(M)[j] >= M[i].t
  <2>1. m + i \in 1..n /\ m + j \in 1..n /\ m + i <= m + j
    BY <1>2, <1>4
  <2>. QED  BY <1>1, <1>3, <1>4, <2>1
<1>. QED  BY <1>1, <1>4 DEF Forward, EndOf, M

LEMMA ForwardAdd ==
  ASSUME NEW tp \in Seq(TapeSet), NEW l, Kept(l, tp), Small(l),
         NEW r \in LineSet, NEW e \in TapeSet, NEW moment \in Int,
         r.place = Len(tp) + 1, r.raw = e.raw, r.comp = e.comp,
         Steady(tp, moment), moment <= e.at, Forward(AllLines(l))
  PROVE  Forward(AllLines(Add(l, e.at, r)))
<1> DEFINE M == AllLines(Added(l, e.at, r))
<1>1. Len(l.pending) < FlushEvery /\ Append(tp, e) \in Seq(TapeSet)
  BY DEF Small
<1>2. Forward(M) /\ Holds(M, Append(tp, e))
  BY <1>1, ForwardAdded, KeptAdded DEF Kept
<1>3. PICK m \in 0..Len(M) : /\ AllLines(Add(l, e.at, r)) = EndOf(M, m)
                             /\ m < Len(M) => M[m + 1].t # NoTime
  BY KeptAdd
<1> HIDE DEF M
<1>. QED  BY <1>1, <1>2, <1>3, ForwardRest
-----------------------------------------------------------------------------
(* A reload *)

\* The open chunk came about line by line, over the chunks there are now, and within
\* the ceiling all the time.
Chain(l, h) ==
  /\ h[0] = SealedOnly(l) /\ h[Len(l.lines)] = l
  /\ \A i \in 0..Len(l.lines) : Within(h[i]) /\ h[i].chunks = l.chunks
  /\ \A i \in 1..Len(l.lines) :
       h[i] = Added(h[i - 1], LastTime(l.lines)[i], l.lines[i])

Chains(l) == {h \in [0..Len(l.lines) -> LogSet] : Chain(l, h)}

LEMMA SealedOnlyIs ==
  ASSUME NEW l, Shaped(l)
  PROVE  SealedOnly(l) = Only(l.chunks, l.times)
<1> DEFINE n == Len(l.chunks)
           ts == [i \in 1..n |-> l.chunks[i].lines[1].t]
<1>1. l.times \in Seq(ReadTimes) /\ Len(l.times) = n /\ n \in Nat
      /\ \A i \in 1..n : l.times[i] = l.chunks[i].lines[1].t
  BY DEF Shaped, LogSet
<1>2. ts = l.times
  <2> HIDE DEF n
  <2>1. DOMAIN l.times = 1..n /\ l.times = [i \in 1..n |-> l.times[i]]
    BY <1>1
  <2>. QED  BY <1>1, <2>1
<1>3. SealedOnly(l) = [EmptyLog EXCEPT !.chunks = l.chunks, !.times = ts]
  BY DEF SealedOnly
<1> HIDE DEF ts
<1>. QED  BY <1>2, <1>3 DEF EmptyLog, Only

\* With no line in the open chunk there is nothing to encode again.
LEMMA OnlyIs ==
  ASSUME NEW l, Shaped(l), l.lines = <<>>
  PROVE  SealedOnly(l) = l
<1>1. l \in LogSet /\ l.pending = <<>> /\ l.current = 0 /\ l.raw = 0
      /\ l.first = NoTime /\ l.last = NoTime
  BY DEF Shaped
<1>2. l = Only(l.chunks, l.times)
  BY <1>1, LogIs DEF Only
<1>. QED  BY <1>2, SealedOnlyIs

LEMMA SealedGrew ==
  ASSUME NEW l, Within(l), l.lines = <<>>
  PROVE  Chains(l) # {}
<1> DEFINE h == [i \in 0..0 |-> l]
<1>1. l \in LogSet /\ Shaped(l) /\ Len(l.lines) = 0
  BY DEF Within, Shaped
<1>2. SealedOnly(l) = l
  BY <1>1, OnlyIs
<1>3. h \in [0..0 -> LogSet] /\ \A i \in 0..0 : h[i] = l /\ i = 0
  BY <1>1
<1>4. 0 \in 0..0 /\ ~\E i \in 1..0 : TRUE
  OBVIOUS
<1> HIDE DEF h
<1>5. Chain(l, h)
  BY <1>1, <1>2, <1>3, <1>4 DEF Chain
<1>6. h \in [0..Len(l.lines) -> LogSet]
  BY <1>1, <1>3
<1>. QED  BY <1>5, <1>6 DEF Chains

\* Whether old chunks go before or after a line is added makes no difference.
LEMMA AddedRest ==
  ASSUME NEW l, Shaped(l), Len(l.pending) < FlushEvery, NEW at \in Int, NEW r \in LineSet,
         NEW k \in 0..Len(l.chunks)
  PROVE  Added(WithoutOldest(l, k), at, r) = WithoutOldest(Added(l, at, r), k)
<1> DEFINE w == WithoutOldest(l, k)
           a == Added(l, at, r)
           x == LineOf(l, at, r)
           q == NewLast(l, at)
           cs == SubSeq(l.chunks, k + 1, Len(l.chunks))
           ts == SubSeq(l.times, k + 1, Len(l.times))
<1>1. l \in LogSet /\ Len(l.times) = Len(l.chunks)
  BY DEF Shaped
<1>2. /\ w \in LogSet
      /\ w = [chunks |-> cs, times |-> ts,
              lines |-> l.lines, pending |-> l.pending, current |-> l.current,
              raw |-> l.raw, first |-> l.first, last |-> l.last]
  BY <1>1, WithoutOldestIs
<1>3. a = Grown(l, x, q) /\ Shaped(a)
  BY AddedShaped
<1>4. Added(w, at, r) = Grown(w, LineOf(w, at, r), NewLast(w, at))
  BY <1>2, AddedIs
<1>5. w.last = l.last
  BY <1>2
<1>6. LineOf(w, at, r) = x /\ NewLast(w, at) = q
  <2> HIDE DEF w
  <2>. QED  BY <1>5 DEF LineOf, NewLast
<1> HIDE DEF a, x, q
<1>7. a \in LogSet /\ Len(a.times) = Len(a.chunks)
  BY <1>3 DEF Shaped
<1>8. a.chunks = l.chunks /\ a.times = l.times
  BY <1>3 DEF Grown
<1>9. WithoutOldest(a, k) =
        [chunks |-> cs, times |-> ts,
         lines |-> a.lines, pending |-> a.pending, current |-> a.current,
         raw |-> a.raw, first |-> a.first, last |-> a.last]
  BY <1>7, <1>8, WithoutOldestIs
<1> HIDE DEF w, cs, ts
<1>10. Grown(w, x, q) =
        [chunks |-> cs, times |-> ts,
         lines |-> a.lines, pending |-> a.pending, current |-> a.current,
         raw |-> a.raw, first |-> a.first, last |-> a.last]
  <2>1. w.chunks = cs /\ w.times = ts /\ w.lines = l.lines /\ w.pending = l.pending
        /\ w.current = l.current /\ w.raw = l.raw /\ w.first = l.first /\ w.last = l.last
    BY <1>2
  <2>. QED  BY <1>3, <2>1 DEF Grown
<1>. QED  BY <1>4, <1>6, <1>9, <1>10 DEF a, w

LEMMA GrewAdded ==
  ASSUME NEW l, Within(l), Chains(l) # {}, Readable(l.lines),
         l.lines # <<>> => l.last = LastTime(l.lines)[Len(l.lines)],
         NEW at \in Int, NEW r \in LineSet, NEW k \in 0..Len(l.chunks),
         ~Full(Added(l, at, r)), Size(WithoutOldest(Added(l, at, r), k)) <= MaxBytes
  PROVE  Chains(WithoutOldest(Added(l, at, r), k)) # {}
<1> DEFINE a == Added(l, at, r)
           x == LineOf(l, at, r)
           q == NewLast(l, at)
           w == WithoutOldest(a, k)
           n == Len(l.lines)
<1>1. l \in LogSet /\ Shaped(l) /\ Small(l) /\ Len(l.pending) < FlushEvery
      /\ Len(l.times) = Len(l.chunks)
  BY DEF Within, Shaped, Small
<1>2. /\ a = Grown(l, x, q) /\ Shaped(a) /\ x \in LineSet /\ q \in Int
      /\ Len(a.pending) < FlushEvery
  BY <1>1, AddedShaped
<1>3. /\ l.last = NoTime => x.t = at /\ q = at
      /\ l.last # NoTime => x.t = NoTime /\ x.dt = Rounded(at - l.last)
                            /\ q = l.last + Rounded(at - l.last)
  BY <1>1, LineOfType
<1>4. Added(l, q, x) = a
  BY <1>1, AddedAgain
<1>5. PICK h : h \in [0..n -> LogSet] /\ Chain(l, h)
  BY DEF Chains
<1>6. /\ l.lines \in Seq(LineSet) /\ n \in Nat /\ l.chunks \in Seq(ChunkSet)
      /\ l.times \in Seq(ReadTimes)
  BY <1>1 DEF LogSet
<1> HIDE DEF a, x, q, n
<1>7. a.chunks = l.chunks /\ a.lines = Append(l.lines, x) /\ a \in LogSet /\ Small(a)
      /\ a.times = l.times /\ Len(a.times) = Len(a.chunks)
  BY <1>1, <1>2 DEF Grown, Shaped, Small, a
<1>8. /\ w \in LogSet /\ Shaped(w) /\ Small(w) /\ w.lines = a.lines
      /\ w.chunks = SubSeq(l.chunks, k + 1, Len(l.chunks))
      /\ w.times = SubSeq(l.times, k + 1, Len(l.times))
  <2>1. k \in 0..Len(a.chunks)
    BY <1>7
  <2>2. Shaped(w) /\ Small(w)
    BY <1>2, <1>7, <2>1, WithoutOldestShaped
  <2>3. w \in LogSet /\ w.lines = a.lines
        /\ w.chunks = SubSeq(a.chunks, k + 1, Len(a.chunks))
        /\ w.times = SubSeq(a.times, k + 1, Len(a.times))
    BY <1>7, <2>1, WithoutOldestParts
  <2> HIDE DEF w
  <2>. QED  BY <1>7, <2>2, <2>3
<1>9. Within(w)
  BY <1>8 DEF Within, a
\* The lines with the new one, and their times.
<1> DEFINE M == Append(l.lines, x)
<1>10. M \in Seq(LineSet) /\ Len(M) = n + 1 /\ M[n + 1] = x /\ \A i \in 1..n : M[i] = l.lines[i]
  BY <1>2, <1>6 DEF n
<1>11. l.last = NoTime <=> n = 0
  <2>1. l.lines = <<>> <=> n = 0
    BY <1>6 DEF n
  <2>2. l.lines = <<>> => l.last = NoTime
    BY <1>1 DEF Shaped
  <2>3. l.lines # <<>> => l.last \in Int
    BY <1>1 DEF Shaped
  <2>. QED  BY <2>1, <2>2, <2>3, Sizes
<1>11a. l.last # NoTime => l.last \in Int /\ l.last = LastTime(l.lines)[n]
  <2>1. l.last # NoTime => l.lines # <<>>
    BY <1>1 DEF Shaped
  <2>. QED  BY <1>1, <2>1 DEF Shaped, n
<1> HIDE DEF M
<1>12. Readable(M) /\ LastTime(M)[n + 1] = q /\ \A i \in 1..n : LastTime(M)[i] = LastTime(l.lines)[i]
  <2>1. Readable(M)
    <3>1. ASSUME NEW i \in 1..Len(M)
          PROVE  (i = 1 => M[i].t # NoTime) /\ (M[i].t = NoTime => M[i].dt # NoTime)
      <4>1. CASE i \in 1..n
        BY <1>10, <4>1 DEF Readable, n
      <4>2. CASE i = n + 1
        <5>1. CASE l.last = NoTime
          <6>1. x.t \in Int
            BY <1>3, <5>1
          <6>. QED  BY <1>10, <4>2, <6>1, Sizes
        <5>2. CASE l.last # NoTime
          <6>0. at - l.last \in Int
            BY <1>11a, <5>2
          <6>1. x.dt \in Int
            BY <1>3, <5>2, <6>0, RoundedIsInt
          <6>2. i # 1
            BY <1>6, <1>11, <4>2, <5>2
          <6>. QED  BY <1>10, <4>2, <6>1, <6>2, Sizes
        <5>. QED  BY <5>1, <5>2
      <4>. QED  BY <1>6, <1>10, <4>1, <4>2
    <3>. QED  BY <3>1 DEF Readable
  <2>2. \A j \in 0..n : LastTime(M)[j] = LastTime(l.lines)[j]
    BY <1>2, <1>6, <2>1, LastTimeAppend DEF M, n
  <2>3. \A j \in 1..(n + 1) : LastTime(M)[j] = IF M[j].t # NoTime THEN M[j].t
                                          ELSE IF LastTime(M)[j - 1] = NoTime THEN NoTime
                                          ELSE LastTime(M)[j - 1] + M[j].dt
    BY <1>10, <2>1, LastTimeIs DEF Clocks
  <2>4. n + 1 \in 1..(n + 1) /\ (n + 1) - 1 = n /\ n \in 0..n /\ \A i \in 1..n : i \in 0..n
    BY <1>6
  <2>5. CASE l.last = NoTime
    <3>1. x.t # NoTime
      BY <1>3, <2>5, Sizes
    <3>. QED  BY <1>3, <1>10, <2>1, <2>2, <2>3, <2>4, <2>5, <3>1
  <2>6. CASE l.last # NoTime
    <3>1. LastTime(M)[n] = l.last
      BY <1>11a, <2>2, <2>4, <2>6
    <3>. QED  BY <1>3, <1>10, <2>1, <2>2, <2>3, <2>4, <2>6, <3>1
  <2>. QED  BY <2>5, <2>6
<1>13. /\ h[0] = SealedOnly(l) /\ h[n] = l
       /\ \A i \in 0..n : Within(h[i]) /\ h[i].chunks = l.chunks
       /\ \A i \in 1..n : h[i] = Added(h[i - 1], LastTime(l.lines)[i], l.lines[i])
  BY <1>5 DEF Chain, n
<1>14. \A i \in 0..n : /\ Shaped(h[i]) /\ Small(h[i]) /\ Len(h[i].pending) < FlushEvery
                       /\ Size(h[i]) <= MaxBytes /\ Size(h[i]) \in Int
                       /\ h[i] \in LogSet /\ Len(h[i].times) = Len(h[i].chunks)
  <2>1. TAKE i \in 0..n
  <2>2. Within(h[i])
    BY <1>13
  <2>3. Shaped(h[i]) /\ Small(h[i]) /\ Size(h[i]) <= MaxBytes
    BY <2>2 DEF Within
  <2>4. h[i] \in LogSet /\ Len(h[i].times) = Len(h[i].chunks) /\ Len(h[i].pending) < FlushEvery
    BY <2>3 DEF Shaped, Small
  <2>5. Size(h[i]) \in Int
    <3>1. h[i].pending \in Seq(LineSet) /\ h[i].current \in Nat /\ h[i].chunks \in Seq(ChunkSet)
      BY <2>4 DEF LogSet
    <3>2. Raw(h[i].pending) \in Nat
      BY <3>1, LinesSize
    <3>3. Sealed(h[i]) \in Nat
      <4>1. 0 \in 0..Len(h[i].chunks)
        BY <3>1
      <4>. QED  BY <2>4, <4>1, SealedSize
    <3>. QED  BY <3>1, <3>2, <3>3 DEF Size
  <2>. QED  BY <2>3, <2>4, <2>5
<1> DEFINE g == [i \in 0..(n + 1) |-> IF i = n + 1 THEN w ELSE WithoutOldest(h[i], k)]
<1>15. \A i \in 0..n : /\ WithoutOldest(h[i], k) \in LogSet /\ Within(WithoutOldest(h[i], k))
                       /\ WithoutOldest(h[i], k).chunks = w.chunks
  <2>1. TAKE i \in 0..n
  <2>2. k \in 0..Len(h[i].chunks) /\ h[i].chunks = l.chunks
    BY <1>13
  <2>3. Shaped(WithoutOldest(h[i], k)) /\ Small(WithoutOldest(h[i], k))
        /\ Size(WithoutOldest(h[i], k)) <= Size(h[i])
    BY <1>14, <2>2, WithoutOldestShaped
  <2>4. WithoutOldest(h[i], k) \in LogSet
        /\ WithoutOldest(h[i], k).chunks = SubSeq(h[i].chunks, k + 1, Len(h[i].chunks))
    BY <1>14, <2>2, WithoutOldestParts
  <2> DEFINE v == WithoutOldest(h[i], k)
  <2>5. Size(v) <= MaxBytes
    <3>1. v.pending \in Seq(LineSet) /\ v.current \in Nat /\ v.chunks \in Seq(ChunkSet)
      BY <2>4 DEF LogSet
    <3> HIDE DEF v
    <3>2. Raw(v.pending) \in Nat
      BY <3>1, LinesSize
    <3>3. Sealed(v) \in Nat
      BY <1>14, <2>2, SealedSize DEF v
    <3>4. Size(v) \in Int
      BY <3>1, <3>2, <3>3 DEF Size
    <3>5. Size(v) <= Size(h[i]) /\ Size(h[i]) <= MaxBytes /\ Size(h[i]) \in Int
      BY <1>14, <2>3 DEF v
    <3>. QED  BY <3>4, <3>5, Sizes
  <2> HIDE DEF w
  <2>. QED  BY <1>8, <2>2, <2>3, <2>4, <2>5 DEF Within
<1>16. g \in [0..(n + 1) -> LogSet] /\ g[n + 1] = w /\ \A i \in 0..n : g[i] = WithoutOldest(h[i], k)
  <2>1. n + 1 \in 0..(n + 1) /\ \A i \in 0..n : i \in 0..(n + 1) /\ i # n + 1
    BY <1>6
  <2>2. \A i \in 0..(n + 1) : i # n + 1 => i \in 0..n
    BY <1>6
  <2> HIDE DEF w
  <2>. QED  BY <1>8, <1>15, <2>1, <2>2
<1> HIDE DEF g
<1>17. g[0] = SealedOnly(w)
  <2>1. SealedOnly(w) = Only(w.chunks, w.times)
    BY <1>8, SealedOnlyIs
  <2>2. SealedOnly(l) = Only(l.chunks, l.times)
    BY <1>1, SealedOnlyIs
  <2>3. 0 \in 0..n /\ h[0] \in LogSet /\ Len(h[0].times) = Len(h[0].chunks)
    BY <1>6, <1>14
  <2>4. h[0] = Only(l.chunks, l.times) /\ g[0] = WithoutOldest(h[0], k)
    BY <1>13, <1>16, <2>2, <2>3
  <2>5. h[0].chunks = l.chunks /\ h[0].times = l.times /\ h[0].lines = <<>>
        /\ h[0].pending = <<>> /\ h[0].current = 0 /\ h[0].raw = 0
        /\ h[0].first = NoTime /\ h[0].last = NoTime
    BY <2>4 DEF Only
  <2>6. k \in 0..Len(h[0].chunks)
    BY <2>5
  <2>7. WithoutOldest(h[0], k) =
              [chunks |-> SubSeq(h[0].chunks, k + 1, Len(h[0].chunks)),
               times |-> SubSeq(h[0].times, k + 1, Len(h[0].times)),
               lines |-> h[0].lines, pending |-> h[0].pending, current |-> h[0].current,
               raw |-> h[0].raw, first |-> h[0].first, last |-> h[0].last]
    BY <2>3, <2>6, WithoutOldestIs
  <2> HIDE DEF w
  <2>8. g[0] = Only(w.chunks, w.times)
    BY <1>8, <2>4, <2>5, <2>7 DEF Only
  <2>. QED  BY <2>1, <2>8
<1>18. \A i \in 0..(n + 1) : Within(g[i]) /\ g[i].chunks = w.chunks
  <2>1. TAKE i \in 0..(n + 1)
  <2>2. i = n + 1 \/ i \in 0..n
    BY <1>6
  <2> HIDE DEF w
  <2>. QED  BY <1>9, <1>15, <1>16, <2>2
<1>19. ASSUME NEW i \in 1..(n + 1) PROVE g[i] = Added(g[i - 1], LastTime(M)[i], M[i])
  <2>1. CASE i = n + 1
    <3>1. g[i] = WithoutOldest(Added(l, q, x), k)
      BY <1>4, <1>16, <2>1
    <3>2. WithoutOldest(Added(l, q, x), k) = Added(WithoutOldest(l, k), q, x)
      BY <1>1, <1>2, AddedRest
    <3>3. i - 1 = n /\ n \in 0..n
      BY <1>6, <2>1
    <3>4. g[i - 1] = WithoutOldest(l, k)
      BY <1>13, <1>16, <3>3
    <3>. QED  BY <1>10, <1>12, <2>1, <3>1, <3>2, <3>4
  <2>2. CASE i # n + 1
    <3>1. i \in 1..n /\ i \in 0..n /\ i - 1 \in 0..n
      BY <1>6, <2>2
    <3> DEFINE t == LastTime(l.lines)[i]
    <3>2. g[i] = WithoutOldest(Added(h[i - 1], t, l.lines[i]), k)
      BY <1>13, <1>16, <3>1
    <3>3. t \in Int /\ l.lines[i] \in LineSet
      BY <1>6, <3>1, LastTimeIs DEF n
    <3> HIDE DEF t
    <3>4. k \in 0..Len(h[i - 1].chunks)
      BY <1>13, <3>1
    <3>5. Shaped(h[i - 1]) /\ Len(h[i - 1].pending) < FlushEvery
      BY <1>14, <3>1
    <3>6. WithoutOldest(Added(h[i - 1], t, l.lines[i]), k)
            = Added(WithoutOldest(h[i - 1], k), t, l.lines[i])
      BY <3>3, <3>4, <3>5, AddedRest
    <3>7. g[i - 1] = WithoutOldest(h[i - 1], k)
      BY <1>16, <3>1
    <3>. QED  BY <1>10, <1>12, <3>1, <3>2, <3>6, <3>7 DEF t
  <2>. QED  BY <2>1, <2>2
<1> HIDE DEF w
<1>20. w.lines = M /\ Len(w.lines) = n + 1
  BY <1>7, <1>8, <1>10 DEF M
<1>21. Chain(w, g)
  BY <1>16, <1>17, <1>18, <1>19, <1>20 DEF Chain
<1>22. g \in Chains(w)
  BY <1>16, <1>20, <1>21 DEF Chains
<1>. QED  BY <1>22 DEF w, a

\* The lines of the open chunk can be read by themselves.
LEMMA OpenReadable ==
  ASSUME NEW tp, NEW l, Kept(l, tp)
  PROVE  /\ Readable(l.lines)
         /\ l.lines # <<>> => l.last = LastTime(l.lines)[Len(l.lines)]
<1> DEFINE L == AllLines(l)
           n == Len(l.lines)
           m == Len(L) - n
<1>1. /\ Shaped(l) /\ l.lines \in Seq(LineSet) /\ L \in Seq(LineSet) /\ Readable(L)
  BY DEF Kept, Shaped, LogSet, Holds
<1>2. n <= Len(L) /\ \A i \in 1..n : l.lines[i] = L[Len(L) - n + i]
  BY <1>1, AllFirst
<1>3. n \in Nat /\ Len(L) \in Nat
  BY <1>1
<1>3a. l.lines = <<>> <=> n = 0
  BY <1>1
<1>4. CASE n = 0
  BY <1>3a, <1>4 DEF Readable
<1>5. CASE n # 0
  <2>0. /\ l.lines[1].t = l.first /\ l.first \in Int
        /\ l.last = LastTime(L)[Len(L)]
    BY <1>1, <1>3a, <1>5 DEF Shaped, Kept
  <2> HIDE DEF n, L
  <2>0a. ASSUME NEW c \in Nat, NEW d \in Nat, d <= c, d # 0
         PROVE  /\ c - d \in 0..c /\ c - (c - d) = d /\ (c - d) + d = c
                /\ 1 \in 1..d /\ d \in 1..d
    BY <2>0a
  <2>0b. n <= Len(L)
    BY <1>2
  <2>1. m \in 0..Len(L) /\ Len(L) - m = n /\ 1 \in 1..n /\ n \in 1..n /\ m + n = Len(L)
    BY <1>3, <1>5, <2>0a, <2>0b
  <2> HIDE DEF m
  <2>2. L[m + 1].t # NoTime
    BY <1>2, <2>0, <2>1, Sizes DEF m
  <2>3. /\ Readable(SubSeq(L, m + 1, Len(L)))
        /\ \A j \in 1..(Len(L) - m) : LastTime(SubSeq(L, m + 1, Len(L)))[j] = LastTime(L)[m + j]
    BY <1>1, <2>1, <2>2, LastTimeRest
  <2>4. SubSeq(L, m + 1, Len(L)) = l.lines
    <3> DEFINE v == SubSeq(L, m + 1, Len(L))
    <3>0. /\ SubSeq(L, m + 1, Len(L)) \in Seq(LineSet)
          /\ Len(SubSeq(L, m + 1, Len(L))) = Len(L) - m
          /\ \A i \in 1..(Len(L) - m) : SubSeq(L, m + 1, Len(L))[i] = L[m + i]
      <4> DEFINE z == Len(L)
      <4>1. L \in Seq(LineSet) /\ m \in 0..z /\ z = Len(L)
        BY <1>1, <2>1
      <4> HIDE DEF z
      <4>2. /\ SubSeq(L, m + 1, z) \in Seq(LineSet) /\ Len(SubSeq(L, m + 1, z)) = z - m
            /\ \A i \in 1..(z - m) : SubSeq(L, m + 1, z)[i] = L[m + i]
        BY <4>1, RestOfSeq
      <4>. QED  BY <4>2 DEF z
    <3>1. v \in Seq(LineSet) /\ Len(v) = n /\ \A i \in 1..n : v[i] = L[m + i]
      BY <2>1, <3>0
    <3>2. \A i \in 1..n : v[i] = l.lines[i]
      BY <1>2, <3>1 DEF m
    <3> HIDE DEF v
    <3>3. ASSUME NEW c \in Seq(LineSet), NEW d \in Seq(LineSet), Len(c) = Len(d),
                 \A i \in 1..Len(c) : c[i] = d[i]
          PROVE  c = d
      BY <3>3
    <3>4. v = l.lines
      BY <1>1, <3>1, <3>2, <3>3 DEF n
    <3>. QED  BY <3>4 DEF v
  <2>5. LastTime(l.lines)[n] = LastTime(L)[m + n]
    BY <2>1, <2>3, <2>4
  <2>. QED  BY <2>0, <2>1, <2>3, <2>4, <2>5 DEF n
<1>. QED  BY <1>4, <1>5

LEMMA GrewAdd ==
  ASSUME NEW tp, NEW l, Kept(l, tp), Within(l), Chains(l) # {},
         NEW at \in Int, NEW r \in LineSet
  PROVE  Chains(Add(l, at, r)) # {}
<1> DEFINE a == Added(l, at, r)
           c == BeforeCap(l, at, r)
<1>1. Shaped(l) /\ Small(l) /\ Len(l.pending) < FlushEvery /\ l \in LogSet
  BY DEF Within, Small, Shaped
<1>2. Shaped(a) /\ a.lines # <<>> /\ a = Grown(l, LineOf(l, at, r), NewLast(l, at))
  BY <1>1, AddedShaped
<1>3. Add(l, at, r) = EnforceCap(c) /\ Shaped(c) /\ Small(c) /\ Within(Add(l, at, r))
  BY <1>1, AddIs, AddWithin
<1>4. (Full(a) => c = Seal(a)) /\ (~Full(a) => c = a)
  BY DEF BeforeCap
<1>5. a.chunks = l.chunks
  <2> HIDE DEF a
  <2>. QED  BY <1>2 DEF Grown
<1> HIDE DEF c
<1>6. CASE EnforceCap(c) = EmptyLog
  <2>1. EmptyLog.lines = <<>>
    BY DEF EmptyLog
  <2>. QED  BY <1>3, <1>6, <2>1, EmptyWithin, SealedGrew
<1>7. CASE \E k \in 0..Len(c.chunks) : /\ EnforceCap(c) = WithoutOldest(c, k)
                                       /\ Size(WithoutOldest(c, k)) <= MaxBytes
  <2>1. PICK k \in 0..Len(c.chunks) : /\ EnforceCap(c) = WithoutOldest(c, k)
                                      /\ Size(WithoutOldest(c, k)) <= MaxBytes
    BY <1>7
  <2>2. CASE Full(a)
    <3> HIDE DEF a
    <3>1. c.lines = <<>>
      BY <1>2, <1>4, <2>2, SealIs DEF Only
    <3>2. WithoutOldest(c, k).lines = <<>>
      BY <1>3, <3>1, WithoutOldestParts DEF Shaped
    <3>. QED  BY <1>3, <2>1, <3>2, SealedGrew
  <2>3. CASE ~Full(a)
    <3>1. k \in 0..Len(l.chunks) /\ Size(WithoutOldest(a, k)) <= MaxBytes
          /\ Add(l, at, r) = WithoutOldest(a, k)
      <4> HIDE DEF a
      <4>. QED  BY <1>3, <1>4, <1>5, <2>1, <2>3
    <3>2. /\ Readable(l.lines)
          /\ l.lines # <<>> => l.last = LastTime(l.lines)[Len(l.lines)]
      BY OpenReadable
    <3>3. Chains(WithoutOldest(a, k)) # {}
      BY <2>3, <3>1, <3>2, GrewAdded
    <3>. QED  BY <3>1, <3>3
  <2>. QED  BY <2>2, <2>3
<1>. QED  BY <1>3, <1>6, <1>7, EnforceCapIs

\* A log within its ceiling is left as it is.
LEMMA CapKeeps ==
  ASSUME NEW l, Shaped(l), Size(l) <= MaxBytes
  PROVE  EnforceCap(l) = l
<1>1. l \in LogSet /\ Len(l.times) = Len(l.chunks)
  BY DEF Shaped
<1>2. l.chunks \in Seq(ChunkSet) /\ l.times \in Seq(ReadTimes) /\ Len(l.chunks) \in Nat
  BY <1>1 DEF LogSet
<1>3. 0 \in 0..Len(l.chunks)
  BY <1>2
<1>4. WithoutOldest(l, 0) = l
  <2>1. WithoutOldest(l, 0) =
              [chunks |-> SubSeq(l.chunks, 0 + 1, Len(l.chunks)),
               times |-> SubSeq(l.times, 0 + 1, Len(l.times)),
               lines |-> l.lines, pending |-> l.pending, current |-> l.current,
               raw |-> l.raw, first |-> l.first, last |-> l.last]
    BY <1>1, <1>3, WithoutOldestIs
  <2>2. ASSUME NEW S, NEW s \in Seq(S) PROVE SubSeq(s, 0 + 1, Len(s)) = s
    OBVIOUS
  <2>3. SubSeq(l.chunks, 0 + 1, Len(l.chunks)) = l.chunks
        /\ SubSeq(l.times, 0 + 1, Len(l.times)) = l.times
    BY <1>2, <2>2
  <2>4. l = [chunks |-> l.chunks, times |-> l.times, lines |-> l.lines,
             pending |-> l.pending, current |-> l.current,
             raw |-> l.raw, first |-> l.first, last |-> l.last]
    BY <1>1, LogIs
  <2>. QED  BY <2>1, <2>3, <2>4
<1>5. Size(l) \in Int
  <2>1. l.pending \in Seq(LineSet) /\ l.current \in Nat
    BY <1>1 DEF LogSet
  <2>2. Raw(l.pending) \in Nat
    BY <2>1, LinesSize
  <2>3. Sealed(l) \in Nat
    BY <1>1, <1>3, SealedSize
  <2>. QED  BY <2>1, <2>2, <2>3 DEF Size
<1>6. ~(Size(WithoutOldest(l, 0)) > MaxBytes)
  BY <1>4, <1>5, Sizes
<1>7. PICK k \in 0..Len(l.chunks) :
        /\ EnforceCap(l) = WithoutOldest(l, k)
        /\ \A j \in 0..Len(l.chunks) : Size(WithoutOldest(l, j)) <= MaxBytes => k <= j
  BY <1>3, <1>6, EnforceCapIs
<1>8. k = 0
  BY <1>2, <1>3, <1>4, <1>7
<1>. QED  BY <1>4, <1>7, <1>8

\* A log that came about line by line is what load_store makes of it.
LEMMA RestoredIs ==
  ASSUME NEW l, Within(l), Chains(l) # {}, Readable(l.lines)
  PROVE  Restored(l) = l
<1> DEFINE n == Len(l.lines)
           b == SealedOnly(l)
           t == LastTime(l.lines)
           again[i \in 0..n] == IF i = 0 THEN b ELSE Add(again[i - 1], t[i], l.lines[i])
<1>1. l.lines \in Seq(LineSet) /\ n \in Nat
  BY DEF Within, Shaped, LogSet
<1>2. PICK h : h \in [0..n -> LogSet] /\ Chain(l, h)
  BY DEF Chains
<1>3. /\ h[0] = b /\ h[n] = l
      /\ \A i \in 0..n : Within(h[i]) /\ h[i].chunks = l.chunks
      /\ \A i \in 1..n : h[i] = Added(h[i - 1], t[i], l.lines[i])
  BY <1>2 DEF Chain
<1>4. \A i \in 1..n : t[i] \in Int /\ l.lines[i] \in LineSet
  BY <1>1, LastTimeIs
<1>5. Replay(b, l.lines) = again[n]
  BY DEF Replay
<1> HIDE DEF t, n, b
<1>6. \A i \in 1..n : h[i] = Add(h[i - 1], t[i], l.lines[i])
  <2>1. TAKE i \in 1..n
  <2>2. i \in 0..n /\ i - 1 \in 0..n
    BY <1>1
  <2>3. h[i] = Added(h[i - 1], t[i], l.lines[i]) /\ Within(h[i]) /\ Within(h[i - 1])
    BY <1>3, <2>2
  <2>4. BeforeCap(h[i - 1], t[i], l.lines[i]) = h[i]
    BY <2>3 DEF BeforeCap, Within, Small
  <2>5. Add(h[i - 1], t[i], l.lines[i]) = EnforceCap(h[i])
    BY <1>4, <2>3, <2>4, AddIs DEF Within
  <2>. QED  BY <2>3, <2>5, CapKeeps DEF Within
<1>7. h = [i \in 0..n |-> IF i = 0 THEN b ELSE Add(h[i - 1], t[i], l.lines[i])]
  <2>1. \A i \in 0..n : h[i] = IF i = 0 THEN b ELSE Add(h[i - 1], t[i], l.lines[i])
    <3>1. TAKE i \in 0..n
    <3>2. i = 0 \/ i \in 1..n
      BY <1>1
    <3>3. i \in 1..n => i # 0
      BY <1>1
    <3>. QED  BY <1>3, <1>6, <3>2, <3>3
  <2>. QED  BY <1>2, <2>1
<1>8. again = [i \in 0..n |-> IF i = 0 THEN b ELSE Add(again[i - 1], t[i], l.lines[i])]
  BY <1>7
<1> HIDE DEF again
<1> DEFINE B == {i \in 0..n : again[i] = h[i]}
<1>9. 0 \in B
  BY <1>1, <1>3, <1>8
<1>10. ASSUME NEW i \in 1..n, i - 1 \in B PROVE i \in B
  <2>1. i \in 0..n /\ i # 0
    BY <1>1
  <2>2. again[i] = Add(again[i - 1], t[i], l.lines[i])
    BY <1>8, <2>1
  <2>3. h[i] = Add(h[i - 1], t[i], l.lines[i])
    BY <1>6
  <2>. QED  BY <1>10, <2>1, <2>2, <2>3
<1>11. n \in B
  <2> HIDE DEF B
  <2>1. 0..n \subseteq B
    BY <1>1, <1>9, <1>10, UpTo
  <2>. QED  BY <1>1, <2>1
<1>12. Replay(b, l.lines) = l
  BY <1>3, <1>5, <1>11
<1>. QED  BY <1>12, CapKeeps DEF Restored, b, Within

-----------------------------------------------------------------------------
(* The markers *)

MarkerSet == [at : Int, place : Nat \ {0}]

HeldSet == [place : Nat \ {0}, at : Int, mark : BOOLEAN]

\* Each marker knows its record's place, and its time to within a rounding.
Marked(ms, tp) ==
  /\ ms \in Seq(MarkerSet)
  /\ \A i \in 1..Len(ms) : /\ ms[i].place <= Len(tp)
                           /\ Near(ms[i].at, tp[ms[i].place].at)

\* While the clock runs forward: no earlier than a chunk that began before it.
MarkedForward(ms, L) ==
  \A i \in 1..Len(ms), j \in 1..Len(L) :
    L[j].t # NoTime /\ L[j].place <= ms[i].place => L[j].t <= ms[i].at

\* All of ms are markers of ns.
From(ms, ns) == \A i \in 1..Len(ms) : \E j \in 1..Len(ns) : ms[i] = ns[j]

LEMMA ListedIs ==
  ASSUME NEW ms \in Seq(MarkerSet)
  PROVE  /\ Listed(ms) \in Seq(MarkerSet) /\ Len(Listed(ms)) <= MaxMarkers
         /\ From(Listed(ms), ms)
<1> DEFINE n == Len(ms)
           k == IF n > MaxMarkers THEN n - MaxMarkers + 1 ELSE 1
           s == SubSeq(ms, k, n)
<1>1. n \in Nat /\ MaxMarkers \in Nat \ {0} /\ Listed(ms) = s
  BY Sizes DEF Listed
<1> HIDE DEF n
<1>2. k \in Int /\ k >= 1 /\ (n + 1) - k <= MaxMarkers
  BY <1>1
<1> HIDE DEF k
<1>3. s \in Seq(MarkerSet)
  BY <1>1, <1>2 DEF n
<1>4. Len(s) = IF k <= n THEN (n + 1) - k ELSE 0
  BY <1>1, <1>2 DEF n
<1>5. \A i \in 1..Len(s) : s[i] = ms[k + i - 1]
  BY <1>1, <1>2, <1>4 DEF n
<1> HIDE DEF s
<1>6. From(s, ms)
  <2>1. ASSUME NEW i \in 1..Len(s) PROVE k + i - 1 \in 1..n
    BY <1>1, <1>2, <1>4
  <2>. QED  BY <1>5, <2>1 DEF From, n
<1>7. Len(s) <= MaxMarkers
  BY <1>1, <1>2, <1>4
<1>. QED  BY <1>1, <1>3, <1>6, <1>7

LEMMA HeldIs ==
  ASSUME NEW l, NEW tp, Kept(l, tp)
  PROVE  /\ Held(l) \in Seq(HeldSet) /\ Len(Held(l)) = Len(AllLines(l))
         /\ \A i \in 1..Len(AllLines(l)) :
              /\ Held(l)[i].place = AllLines(l)[i].place
              /\ Held(l)[i].at = LastTime(AllLines(l))[i]
<1> DEFINE L == AllLines(l)
           n == Len(L)
<1>1. L \in Seq(LineSet) /\ Readable(L) /\ n \in Nat
  BY DEF Kept, Holds
<1>2. \A i \in 1..n : L[i] \in LineSet /\ LastTime(L)[i] \in Int
  BY <1>1, LastTimeIs
<1>3. Held(l) = [i \in 1..n |-> [place |-> L[i].place, at |-> LastTime(L)[i],
                                 mark |-> L[i].mark]]
  BY DEF Held, Decode
<1> HIDE DEF L, n
<1> DEFINE e(i) == [place |-> L[i].place, at |-> LastTime(L)[i], mark |-> L[i].mark]
<1>4. \A i \in 1..n : e(i) \in HeldSet /\ e(i).place = L[i].place /\ e(i).at = LastTime(L)[i]
  BY <1>2 DEF HeldSet, LineSet
<1>5. Held(l) = [i \in 1..n |-> e(i)]
  BY <1>3
<1> HIDE DEF e
<1>. QED  BY <1>1, <1>4, <1>5 DEF L, n

\* What the list has of a record.
MarkOf(r) == [at |-> r.at, place |-> r.place]

\* All of ms are of records held.
Among(ms, held) == \A i \in 1..Len(ms) : \E j \in 1..Len(held) : ms[i] = MarkOf(held[j])

\* Each marker among records is one of them.
LEMMA MarksAmongIs ==
  ASSUME NEW held \in Seq(HeldSet)
  PROVE  /\ MarksAmong(held) \in Seq(MarkerSet)
         /\ \A i \in 1..Len(MarksAmong(held)) : \E j \in 1..Len(held) :
              MarksAmong(held)[i] = [at |-> held[j].at, place |-> held[j].place]
<1> DEFINE n == Len(held)
           S == Seq(MarkerSet)
           step == [p \in S \X HeldSet |-> IF p[2].mark THEN Append(p[1], MarkOf(p[2])) ELSE p[1]]
           among[i \in 0..n] == IF i = 0 THEN <<>>
                                ELSE IF held[i].mark
                                     THEN Append(among[i - 1], [at |-> held[i].at,
                                                                place |-> held[i].place])
                                ELSE among[i - 1]
<1>1. n \in Nat /\ held \in [1..n -> HeldSet] /\ <<>> \in S
  OBVIOUS
<1>2. \A r \in HeldSet : MarkOf(r) \in MarkerSet
  BY DEF HeldSet, MarkerSet, MarkOf
<1>3. MarksAmong(held) = among[n]
  BY DEF MarksAmong
<1>3a. ASSUME NEW u \in Seq(MarkerSet), NEW v \in MarkerSet
       PROVE  /\ Append(u, v) \in Seq(MarkerSet) /\ Len(Append(u, v)) = Len(u) + 1
              /\ Append(u, v)[Len(u) + 1] = v /\ Len(u) \in Nat
              /\ \A k \in 1..Len(u) : Append(u, v)[k] = u[k]
  OBVIOUS
<1> HIDE DEF n
<1>4. step \in [S \X HeldSet -> S]
  <2>1. ASSUME NEW p \in S \X HeldSet
        PROVE  (IF p[2].mark THEN Append(p[1], MarkOf(p[2])) ELSE p[1]) \in S
    <3>1. p[1] \in S /\ p[2] \in HeldSet /\ MarkOf(p[2]) \in MarkerSet
      BY <1>2
    <3>2. Append(p[1], MarkOf(p[2])) \in S
      BY <1>3a, <3>1
    <3> HIDE DEF S
    <3>. QED  BY <3>1, <3>2
  <2> HIDE DEF S
  <2>. QED  BY <2>1
<1>5. PICK f : f \in Runs(S, step, <<>>, n, held)
  <2> HIDE DEF step, S
  <2>1. Runs(S, step, <<>>, n, held) # {}
    BY <1>1, <1>4, RunExists
  <2>. QED  BY <2>1
<1>6. f \in [0..n -> S] /\ f[0] = <<>> /\ \A j \in 1..n : f[j] = step[<<f[j - 1], held[j]>>]
  <2> HIDE DEF step, S
  <2>. QED  BY <1>5 DEF Runs
<1>7. \A j \in 1..n : f[j] = IF held[j].mark THEN Append(f[j - 1], MarkOf(held[j])) ELSE f[j - 1]
  <2>1. TAKE j \in 1..n
  <2> HIDE DEF S
  <2>2. j - 1 \in 0..n
    BY <1>1
  <2>3. <<f[j - 1], held[j]>> \in S \X HeldSet
    BY <1>1, <1>6, <2>2
  <2>. QED  BY <1>6, <2>3
<1>8. f = [i \in 0..n |-> IF i = 0 THEN <<>>
                          ELSE IF held[i].mark THEN Append(f[i - 1], MarkOf(held[i]))
                          ELSE f[i - 1]]
  <2> HIDE DEF S, step
  <2>1. ASSUME NEW i \in 0..n
        PROVE  f[i] = IF i = 0 THEN <<>>
                      ELSE IF held[i].mark THEN Append(f[i - 1], MarkOf(held[i]))
                      ELSE f[i - 1]
    <3>1. i = 0 \/ i \in 1..n
      BY <1>1
    <3>2. i \in 1..n => i # 0
      BY <1>1
    <3>. QED  BY <1>6, <1>7, <3>1, <3>2
  <2>. QED  BY <1>6, <2>1
<1>9. among = [i \in 0..n |-> IF i = 0 THEN <<>>
                              ELSE IF held[i].mark THEN Append(among[i - 1], MarkOf(held[i]))
                              ELSE among[i - 1]]
  BY <1>8 DEF MarkOf
<1> HIDE DEF among, step
<1> DEFINE B == {i \in 0..n : among[i] = f[i] /\ Among(f[i], held)}
<1>10. 0 \in B
  <2>1. 0 \in 0..n /\ among[0] = <<>> /\ f[0] = <<>>
    BY <1>1, <1>6, <1>9
  <2>2. Among(<<>>, held)
    <3>1. Len(<<>>) = 0
      OBVIOUS
    <3>. QED  BY <3>1 DEF Among
  <2>. QED  BY <2>1, <2>2
<1>11. ASSUME NEW i \in 1..n, i - 1 \in B PROVE i \in B
  <2>1. i \in 0..n /\ i # 0 /\ i - 1 \in 0..n
    BY <1>1
  <2>2. among[i - 1] = f[i - 1] /\ Among(f[i - 1], held)
    BY <1>11
  <2>3. among[i] = f[i]
    <3>1. f[i] = IF held[i].mark THEN Append(f[i - 1], MarkOf(held[i])) ELSE f[i - 1]
      BY <1>7
    <3>2. among[i] = IF held[i].mark THEN Append(among[i - 1], MarkOf(held[i])) ELSE among[i - 1]
      BY <1>9, <2>1
    <3>. QED  BY <2>2, <3>1, <3>2
  <2>4. f[i - 1] \in S
    <3> HIDE DEF S
    <3>. QED  BY <1>6, <2>1
  <2>5. MarkOf(held[i]) \in MarkerSet
    BY <1>1, <1>2
  <2>6. Among(f[i], held)
    <3>1. CASE ~held[i].mark
      <4>1. f[i] = f[i - 1]
        BY <1>7, <3>1
      <4>. QED  BY <2>2, <4>1
    <3>2. CASE held[i].mark
      <4>1. f[i] = Append(f[i - 1], MarkOf(held[i]))
        BY <1>7, <3>2
      <4> DEFINE m == Len(f[i - 1])
      <4>2. /\ m \in Nat /\ Len(f[i]) = m + 1 /\ f[i][m + 1] = MarkOf(held[i])
            /\ \A k \in 1..m : f[i][k] = f[i - 1][k]
        <5> DEFINE u == f[i - 1]
                   v == MarkOf(held[i])
        <5>1. u \in Seq(MarkerSet) /\ v \in MarkerSet
          BY <2>4, <2>5
        <5> HIDE DEF u, v
        <5>2. /\ Len(Append(u, v)) = Len(u) + 1 /\ Append(u, v)[Len(u) + 1] = v
              /\ Len(u) \in Nat /\ \A k \in 1..Len(u) : Append(u, v)[k] = u[k]
          BY <1>3a, <5>1
        <5>3. f[i] = Append(u, v) /\ m = Len(u)
          BY <4>1 DEF u, v
        <5> HIDE DEF m
        <5>4. /\ m \in Nat /\ Len(f[i]) = m + 1 /\ f[i][m + 1] = v
              /\ \A k \in 1..m : f[i][k] = u[k]
          BY <5>2, <5>3
        <5>. QED  BY <5>4 DEF u, v
      <4> HIDE DEF m
      <4>3. ASSUME NEW k \in 1..(m + 1) PROVE \E j \in 1..n : f[i][k] = MarkOf(held[j])
        <5>1. k = m + 1 \/ k \in 1..m
          BY <4>2
        <5>2. \A z \in 1..m : \E j \in 1..n : f[i - 1][z] = MarkOf(held[j])
          BY <2>2 DEF m, Among, n
        <5>. QED  BY <4>2, <5>1, <5>2
      <4>. QED  BY <4>2, <4>3 DEF Among, n
    <3>. QED  BY <3>1, <3>2
  <2>. QED  BY <2>1, <2>3, <2>6
<1>12. n \in B
  <2> HIDE DEF B
  <2>1. 0..n \subseteq B
    BY <1>1, <1>10, <1>11, UpTo
  <2>. QED  BY <1>1, <2>1
<1>13. f[n] \in S
  <2> HIDE DEF S
  <2>. QED  BY <1>1, <1>6
<1>14. among[n] = f[n] /\ Among(f[n], held)
  BY <1>12
<1> DEFINE found == MarksAmong(held)
<1>15. found \in S /\ Among(found, held)
  <2> HIDE DEF S, found
  <2>1. found = f[n]
    BY <1>3, <1>14 DEF found
  <2>. QED  BY <1>13, <1>14, <2>1
<1> HIDE DEF found
<1>16. \A i \in 1..Len(found) : \E j \in 1..Len(held) :
         found[i] = [at |-> held[j].at, place |-> held[j].place]
  BY <1>15 DEF Among, MarkOf
<1>. QED  BY <1>15, <1>16 DEF found

-----------------------------------------------------------------------------
(* The inductive invariant *)

\* A log with its markers, and the records it is the end of.
Sound(l, ms, tp) ==
  /\ tp \in Seq(TapeSet)
  /\ Within(l) /\ Kept(l, tp) /\ Chains(l) # {}
  /\ tp # <<>> /\ EachFits(tp) => AllLines(l) # <<>>
  /\ Marked(ms, tp) /\ Len(ms) <= MaxMarkers

\* What holds of it besides while the clock runs forward.
Ahead(l, ms, tp, moment) ==
  Steady(tp, moment) /\ Forward(AllLines(l)) /\ MarkedForward(ms, AllLines(l))

LogInv ==
  /\ clock \in Int /\ setBacks \in Nat
  /\ Sound(log, markers, tape)
  /\ Sound(stored.log, stored.markers, stored.tape)
  /\ setBacks = 0 => /\ Ahead(log, markers, tape, clock)
                     /\ Ahead(stored.log, stored.markers, stored.tape, clock)

LEMMA EmptySound ==
  /\ Sound(EmptyLog, <<>>, <<>>)
  /\ \A moment \in Int : Ahead(EmptyLog, <<>>, <<>>, moment)
<1>1. <<>> \in Seq(TapeSet) /\ <<>> \in Seq(MarkerSet) /\ Len(<<>>) = 0
  OBVIOUS
<1>2. EmptyLog.lines = <<>> /\ AllLines(EmptyLog) = <<>>
  BY AllEmpty DEF EmptyLog
<1>3. Chains(EmptyLog) # {}
  BY <1>2, EmptyWithin, SealedGrew
<1>4. Marked(<<>>, <<>>) /\ Len(<<>>) <= MaxMarkers
  BY <1>1, Sizes DEF Marked
<1>5. Sound(EmptyLog, <<>>, <<>>)
  BY <1>1, <1>3, <1>4, EmptyWithin, KeptEmpty DEF Sound
<1>6. \A moment \in Int : Ahead(EmptyLog, <<>>, <<>>, moment)
  BY <1>1, <1>2 DEF Ahead, Steady, Forward, MarkedForward
<1>. QED  BY <1>5, <1>6

LEMMA NoMarkers ==
  ASSUME NEW l, NEW ms, NEW tp, Sound(l, ms, tp)
  PROVE  /\ Sound(l, <<>>, tp)
         /\ \A moment \in Int : Ahead(l, ms, tp, moment) => Ahead(l, <<>>, tp, moment)
<1>1. <<>> \in Seq(MarkerSet) /\ Len(<<>>) = 0
  OBVIOUS
<1>2. Marked(<<>>, tp) /\ Len(<<>>) <= MaxMarkers /\ MarkedForward(<<>>, AllLines(l))
  BY <1>1, Sizes DEF Marked, MarkedForward
<1>. QED  BY <1>2 DEF Sound, Ahead

\* Another record.
LEMMA SoundAdd ==
  ASSUME NEW l, NEW ms, NEW tp, Sound(l, ms, tp),
         NEW r \in LineSet, NEW e \in TapeSet,
         r.place = Len(tp) + 1, r.raw = e.raw, r.comp = e.comp
  PROVE  /\ Sound(Add(l, e.at, r), ms, Append(tp, e))
         /\ \A moment \in Int : Ahead(l, ms, tp, moment) /\ moment <= e.at =>
              Ahead(Add(l, e.at, r), ms, Append(tp, e), e.at)
<1> DEFINE tq == Append(tp, e)
           b == Add(l, e.at, r)
           L == AllLines(l)
           M == AllLines(Added(l, e.at, r))
<1>1. /\ tp \in Seq(TapeSet) /\ Within(l) /\ Kept(l, tp) /\ Chains(l) # {}
      /\ Marked(ms, tp) /\ Len(ms) <= MaxMarkers
      /\ Shaped(l) /\ Small(l) /\ Len(l.pending) < FlushEvery /\ e.at \in Int
  BY DEF Sound, Within, Small, TapeSet
<1>2. /\ tq \in Seq(TapeSet) /\ Len(tq) = Len(tp) + 1 /\ Len(tp) \in Nat
      /\ \A i \in 1..Len(tp) : tq[i] = tp[i]
  BY <1>1
<1>3. Within(b) /\ Kept(b, tq) /\ Chains(b) # {}
  <2>1. Within(b)
    BY <1>1, AddWithin
  <2>2. Kept(b, tq)
    BY <1>1, KeptAdd
  <2>3. Chains(b) # {}
    BY <1>1, GrewAdd
  <2>. QED  BY <2>1, <2>2, <2>3
<1>4. EachFits(tq) => AllLines(b) # <<>>
  BY <1>1, NewestStays
<1>5. Marked(ms, tq)
  <2>1. ms \in Seq(MarkerSet)
    BY <1>1 DEF Marked
  <2>2. \A i \in 1..Len(ms) : ms[i].place \in Nat \ {0}
    <3>1. \A i \in 1..Len(ms) : ms[i] \in MarkerSet
      BY <2>1
    <3>. QED  BY <3>1 DEF MarkerSet
  <2>3. \A i \in 1..Len(ms) : ms[i].place <= Len(tp) /\ Near(ms[i].at, tp[ms[i].place].at)
    BY <1>1 DEF Marked
  <2> HIDE DEF tq
  <2>4. \A i \in 1..Len(ms) : ms[i].place \in 1..Len(tp)
    BY <1>2, <2>2, <2>3
  <2>. QED  BY <1>2, <2>1, <2>3, <2>4 DEF Marked
<1>6. Sound(b, ms, tq)
  <2> HIDE DEF b, tq
  <2>. QED  BY <1>1, <1>2, <1>3, <1>4, <1>5 DEF Sound
<1>7. ASSUME NEW moment \in Int, Ahead(l, ms, tp, moment), moment <= e.at
      PROVE  Ahead(b, ms, tq, e.at)
  <2>1. Steady(tp, moment) /\ Forward(L) /\ MarkedForward(ms, L)
    BY <1>7 DEF Ahead
  <2>2. Steady(tq, e.at)
    BY <1>1, <1>7, <2>1, SteadyAppend
  <2>3. Forward(AllLines(b))
    BY <1>1, <1>7, <2>1, ForwardAdd
  <2>4. MarkedForward(ms, AllLines(b))
    <3> DEFINE x == LineOf(l, e.at, r)
    <3>1. M = Append(L, x) /\ x \in LineSet /\ x.place = Len(tp) + 1
      BY <1>1, KeptAdded, AddedShaped, LineOfType DEF Shaped
    <3>2. L \in Seq(LineSet)
      BY <1>1 DEF Kept, Holds
    <3>3. PICK m \in 0..Len(M) : AllLines(b) = EndOf(M, m)
      BY <1>1, KeptAdd
    <3> HIDE DEF x, L, M, b
    <3>4. /\ M \in Seq(LineSet) /\ Len(M) = Len(L) + 1 /\ M[Len(L) + 1] = x /\ Len(L) \in Nat
          /\ \A i \in 1..Len(L) : M[i] = L[i]
      BY <3>1, <3>2
    <3>5. \A i \in 1..Len(ms) : ms[i].place <= Len(tp) /\ ms[i].place \in Nat
      <4>1. ms \in Seq(MarkerSet)
        BY <1>1 DEF Marked
      <4>2. \A i \in 1..Len(ms) : ms[i] \in MarkerSet
        BY <4>1
      <4>. QED  BY <1>1, <4>2 DEF Marked, MarkerSet
    <3>6. \A j \in 1..Len(AllLines(b)) : /\ m + j \in 1..Len(M)
                                         /\ AllLines(b)[j] = M[m + j]
      BY <3>3, <3>4 DEF EndOf
    <3>7. ASSUME NEW i \in 1..Len(ms), NEW j \in 1..Len(M),
                 M[j].t # NoTime, M[j].place <= ms[i].place
          PROVE  M[j].t <= ms[i].at
      <4>1. j # Len(L) + 1
        BY <1>2, <3>1, <3>4, <3>5, <3>7
      <4>2. j \in 1..Len(L)
        BY <3>4, <4>1
      <4>. QED  BY <2>1, <3>4, <3>7, <4>2 DEF MarkedForward
    <3>. QED  BY <3>6, <3>7 DEF MarkedForward
  <2>. QED  BY <2>2, <2>3, <2>4 DEF Ahead
<1>. QED  BY <1>6, <1>7

\* Another list of markers.
LEMMA SoundMarks ==
  ASSUME NEW l, NEW ms, NEW tp, Sound(l, ms, tp), NEW ns, Marked(ns, tp)
  PROVE  /\ Sound(l, Listed(ns), tp)
         /\ \A moment \in Int : Ahead(l, ms, tp, moment) /\ MarkedForward(ns, AllLines(l)) =>
              Ahead(l, Listed(ns), tp, moment)
<1> DEFINE z == Listed(ns)
<1>1. z \in Seq(MarkerSet) /\ Len(z) <= MaxMarkers /\ From(z, ns)
  BY ListedIs DEF Marked
<1> HIDE DEF z
<1>2. Marked(z, tp)
  BY <1>1 DEF Marked, From
<1>3. MarkedForward(ns, AllLines(l)) => MarkedForward(z, AllLines(l))
  BY <1>1 DEF MarkedForward, From
<1>. QED  BY <1>1, <1>2, <1>3 DEF Sound, Ahead, z

\* The marker of the newest record.
LEMMA SoundMark ==
  ASSUME NEW l, NEW ms, NEW tp, Sound(l, ms, tp), tp # <<>>,
         NEW m, m = [at |-> tp[Len(tp)].at, place |-> Len(tp)]
  PROVE  /\ Sound(l, Listed(Append(ms, m)), tp)
         /\ \A moment \in Int : Ahead(l, ms, tp, moment) => Ahead(l, Listed(Append(ms, m)), tp, moment)
<1> DEFINE ns == Append(ms, m)
           n == Len(ms)
           L == AllLines(l)
<1>1. tp \in Seq(TapeSet) /\ Marked(ms, tp) /\ ms \in Seq(MarkerSet) /\ Holds(L, tp)
  BY DEF Sound, Marked, Kept
<1>2. Len(tp) \in Nat \ {0} /\ \A i \in 1..Len(tp) : tp[i].at \in Int
  <2>1. Len(tp) \in Nat \ {0} /\ \A i \in 1..Len(tp) : tp[i] \in TapeSet
    BY <1>1
  <2>. QED  BY <2>1 DEF TapeSet
<1>3. m \in MarkerSet /\ m.at = tp[Len(tp)].at /\ m.place = Len(tp)
  BY <1>2 DEF MarkerSet
<1>4. /\ ns \in Seq(MarkerSet) /\ Len(ns) = n + 1 /\ ns[n + 1] = m /\ n \in Nat
      /\ \A i \in 1..n : ns[i] = ms[i]
  BY <1>1, <1>3
<1> HIDE DEF ns, n, L
<1>5. Marked(ns, tp)
  <2>1. ASSUME NEW i \in 1..(n + 1)
        PROVE  ns[i].place <= Len(tp) /\ Near(ns[i].at, tp[ns[i].place].at)
    <3>1. CASE i = n + 1
      <4>1. Near(m.at, tp[m.place].at)
        <5>1. Grid \div 2 \in Int /\ Grid \div 2 >= 0
          BY Sizes
        <5>. QED  BY <1>2, <1>3, <5>1 DEF Near
      <4>. QED  BY <1>2, <1>3, <1>4, <3>1, <4>1
    <3>2. CASE i # n + 1
      <4>1. i \in 1..n
        BY <1>4, <3>2
      <4>. QED  BY <1>1, <1>4, <4>1 DEF Marked, n
    <3>. QED  BY <3>1, <3>2
  <2>. QED  BY <1>4, <2>1 DEF Marked
<1>6. ASSUME NEW moment \in Int, Ahead(l, ms, tp, moment) PROVE MarkedForward(ns, L)
  <2>1. Steady(tp, moment) /\ MarkedForward(ms, L)
    BY <1>6 DEF Ahead, L
  <2>2. \A j \in 1..Len(L) : L[j].t # NoTime => L[j].t <= m.at
    <3>1. TAKE j \in 1..Len(L)
    <3>2. HAVE L[j].t # NoTime
    <3>3. /\ L[j].t = tp[Len(tp) - Len(L) + j].at /\ Len(L) <= Len(tp) /\ Len(L) \in Nat
      BY <1>1, <3>2 DEF Holds
    <3>4. Len(tp) - Len(L) + j \in 1..Len(tp) /\ Len(tp) \in 1..Len(tp)
      BY <1>2, <3>3
    <3>. QED  BY <1>3, <2>1, <3>3, <3>4 DEF Steady
  <2>3. ASSUME NEW i \in 1..(n + 1), NEW j \in 1..Len(L),
               L[j].t # NoTime, L[j].place <= ns[i].place
        PROVE  L[j].t <= ns[i].at
    <3>1. CASE i = n + 1
      BY <1>4, <2>2, <2>3, <3>1
    <3>2. CASE i # n + 1
      <4>1. i \in 1..n
        BY <1>4, <3>2
      <4>. QED  BY <1>4, <2>1, <2>3, <4>1 DEF MarkedForward, n
    <3>. QED  BY <3>1, <3>2
  <2>. QED  BY <1>4, <2>3 DEF MarkedForward
<1>. QED  BY <1>5, <1>6, SoundMarks DEF ns, L

\* The list rebuilt from the markers among the records.
LEMMA SoundUnlisted ==
  ASSUME NEW l, NEW ms, NEW tp, Sound(l, ms, tp)
  PROVE  /\ Sound(l, Listed(MarksAmong(Held(l))), tp)
         /\ \A moment \in Int : Ahead(l, ms, tp, moment) =>
              Ahead(l, Listed(MarksAmong(Held(l))), tp, moment)
<1> DEFINE ns == MarksAmong(Held(l))
           L == AllLines(l)
           n == Len(L)
<1>1. tp \in Seq(TapeSet) /\ Kept(l, tp) /\ Holds(L, tp) /\ L \in Seq(LineSet) /\ n \in Nat
  BY DEF Sound, Kept, Holds
<1>2. /\ Held(l) \in Seq(HeldSet) /\ Len(Held(l)) = n
      /\ \A i \in 1..n : Held(l)[i].place = L[i].place /\ Held(l)[i].at = LastTime(L)[i]
  BY <1>1, HeldIs
<1>3. /\ ns \in Seq(MarkerSet)
      /\ \A i \in 1..Len(ns) : \E j \in 1..n :
           ns[i] = [at |-> Held(l)[j].at, place |-> Held(l)[j].place]
  BY <1>2, MarksAmongIs
<1> HIDE DEF ns, L
<1>4. \A i \in 1..Len(ns) : \E j \in 1..n :
        ns[i].at = LastTime(L)[j] /\ ns[i].place = L[j].place
  <2>1. TAKE i \in 1..Len(ns)
  <2>2. PICK j \in 1..n : ns[i] = [at |-> Held(l)[j].at, place |-> Held(l)[j].place]
    BY <1>3
  <2>3. ns[i].at = Held(l)[j].at /\ ns[i].place = Held(l)[j].place
    BY <2>2
  <2>. QED  BY <1>2, <2>3
<1>5. /\ Len(L) <= Len(tp) /\ Len(tp) \in Nat
      /\ \A j \in 1..n : /\ L[j].place = Len(tp) - n + j
                         /\ Near(LastTime(L)[j], tp[Len(tp) - n + j].at)
  BY <1>1 DEF Holds
<1>6. Marked(ns, tp)
  <2>1. ASSUME NEW i \in 1..Len(ns)
        PROVE  ns[i].place <= Len(tp) /\ Near(ns[i].at, tp[ns[i].place].at)
    <3>1. PICK j \in 1..n : ns[i].at = LastTime(L)[j] /\ ns[i].place = L[j].place
      BY <1>4
    <3>2. ns[i].place = Len(tp) - n + j /\ Near(ns[i].at, tp[Len(tp) - n + j].at)
      BY <1>5, <3>1
    <3>3. Len(tp) - n + j <= Len(tp)
      <4> HIDE DEF n
      <4>. QED  BY <1>1, <1>5
    <3>. QED  BY <3>2, <3>3
  <2>. QED  BY <1>3, <2>1 DEF Marked
<1>7. ASSUME NEW moment \in Int, Ahead(l, ms, tp, moment) PROVE MarkedForward(ns, L)
  <2>1. Forward(L)
    BY <1>7 DEF Ahead, L
  <2>2. ASSUME NEW i \in 1..Len(ns), NEW j \in 1..Len(L),
               L[j].t # NoTime, L[j].place <= ns[i].place
        PROVE  L[j].t <= ns[i].at
    <3>1. PICK k \in 1..n : ns[i].at = LastTime(L)[k] /\ ns[i].place = L[k].place
      BY <1>4
    <3>2. Len(tp) - n + j <= Len(tp) - n + k
      BY <1>5, <2>2, <3>1
    <3>3. j <= k
      <4> HIDE DEF n
      <4>. QED  BY <1>1, <1>5, <3>2 DEF n
    <3>4. LastTime(L)[k] >= L[j].t
      BY <2>1, <2>2, <3>1, <3>3 DEF Forward
    <3>5. LastTime(L)[k] \in Int /\ L[j].t \in Int
      <4>1. Readable(L)
        BY <1>1 DEF Holds
      <4>2. LastTime(L)[k] \in Int /\ LastTime(L)[j] = L[j].t /\ LastTime(L)[j] \in Int
        BY <1>1, <2>2, <3>1, <4>1, LastTimeIs
      <4>. QED  BY <4>2
    <3>. QED  BY <3>1, <3>4, <3>5
  <2>. QED  BY <2>2 DEF MarkedForward
<1>. QED  BY <1>6, <1>7, SoundMarks DEF ns, L

\* A reload brings the log back as it was.
LEMMA SoundRestored ==
  ASSUME NEW l, NEW ms, NEW tp, Sound(l, ms, tp)
  PROVE  Restored(l) = l
BY OpenReadable, RestoredIs DEF Sound

-----------------------------------------------------------------------------
(* The invariant holds in every step *)

LEMMA LogInitInv == LogInit => LogInv
BY EmptySound DEF LogInit, LogInv

\* A record of the lengths given, and what the history gets of it.
LEMMA ComesInv ==
  ASSUME LogInv, NEW length \in Nat \X Nat, NEW step \in Int, NEW mark \in BOOLEAN,
         Comes(length, step, mark)
  PROVE  /\ clock' \in Int /\ setBacks' \in Nat
         /\ Sound(log', markers, tape')
         /\ setBacks' = 0 => /\ setBacks = 0 /\ clock <= clock'
                             /\ Ahead(log', markers, tape', clock')
         /\ tape' # <<>> /\ tape'[Len(tape')].at = clock'
<1> DEFINE r == NewRecord(length, mark)
           e == [at |-> clock', raw |-> length[1], comp |-> length[2]]
<1>1. /\ clock \in Int /\ setBacks \in Nat /\ Sound(log, markers, tape)
      /\ setBacks = 0 => Ahead(log, markers, tape, clock)
  BY DEF LogInv
<1>2. /\ clock' = clock + step /\ tape' = Append(tape, e)
      /\ setBacks' = IF step < 0 THEN setBacks + 1 ELSE setBacks
      /\ log' = Add(log, clock', r)
  BY DEF Comes
<1>3. tape \in Seq(TapeSet) /\ Len(tape) \in Nat
  BY <1>1 DEF Sound
<1>4. length[1] \in Nat /\ length[2] \in Nat /\ clock' \in Int /\ setBacks' \in Nat
  BY <1>1, <1>2
<1>5. e \in TapeSet /\ e.at = clock' /\ e.raw = length[1] /\ e.comp = length[2]
  BY <1>4 DEF TapeSet
<1>6. /\ r \in LineSet /\ r.place = Len(tape) + 1 /\ r.raw = length[1] /\ r.comp = length[2]
  BY <1>3, <1>4 DEF NewRecord, LineSet, ReadTimes
<1> HIDE DEF r, e
<1>7. Sound(log', markers, tape')
  BY <1>1, <1>2, <1>5, <1>6, SoundAdd
<1>8. ASSUME setBacks' = 0
      PROVE  setBacks = 0 /\ clock <= clock' /\ Ahead(log', markers, tape', clock')
  <2>1. setBacks = 0 /\ clock <= clock'
    BY <1>1, <1>2, <1>8
  <2>. QED  BY <1>1, <1>2, <1>5, <1>6, <2>1, SoundAdd
<1>9. tape' # <<>> /\ tape'[Len(tape')].at = clock'
  BY <1>2, <1>3, <1>5
<1>. QED  BY <1>4, <1>7, <1>8, <1>9

\* The Store is not touched, and what it has is only older for it.
LEMMA StoredLater ==
  ASSUME LogInv, NEW moment \in Int, setBacks = 0, clock <= moment
  PROVE  Ahead(stored.log, stored.markers, stored.tape, moment)
BY SteadyLater DEF LogInv, Ahead, Sound

LEMMA LogNextInv ==
  ASSUME LogInv, [LogNext]_logVars
  PROVE  LogInv'
<1>0. /\ clock \in Int /\ setBacks \in Nat
      /\ Sound(log, markers, tape)
      /\ Sound(stored.log, stored.markers, stored.tape)
      /\ setBacks = 0 => /\ Ahead(log, markers, tape, clock)
                         /\ Ahead(stored.log, stored.markers, stored.tape, clock)
  BY DEF LogInv
<1>1. ASSUME NEW length \in Lengths, NEW step \in Steps, AppendFrame(length, step)
      PROVE  LogInv'
  <2>1. length \in Nat \X Nat /\ step \in Int
    BY Sizes
  <2>2. Comes(length, step, FALSE) /\ markers' = markers /\ stored' = stored
    BY <1>1 DEF AppendFrame
  <2>3. /\ clock' \in Int /\ setBacks' \in Nat /\ Sound(log', markers, tape')
        /\ setBacks' = 0 => setBacks = 0 /\ clock <= clock' /\ Ahead(log', markers, tape', clock')
    BY <2>1, <2>2, ComesInv
  <2>4. setBacks' = 0 => Ahead(stored.log, stored.markers, stored.tape, clock')
    BY <2>3, StoredLater
  <2>. QED  BY <1>0, <2>2, <2>3, <2>4 DEF LogInv
<1>2. ASSUME NEW length \in MarkLengths, NEW step \in Steps, AppendMarker(length, step)
      PROVE  LogInv'
  <2> DEFINE m == [at |-> clock', place |-> Len(tape')]
  <2>1. length \in Nat \X Nat /\ step \in Int
    BY Sizes
  <2>2. Comes(length, step, TRUE) /\ markers' = Listed(Append(markers, m)) /\ stored' = stored
    BY <1>2 DEF AppendMarker
  <2>3. /\ clock' \in Int /\ setBacks' \in Nat /\ Sound(log', markers, tape')
        /\ setBacks' = 0 => setBacks = 0 /\ clock <= clock' /\ Ahead(log', markers, tape', clock')
        /\ tape' # <<>> /\ tape'[Len(tape')].at = clock'
    BY <2>1, <2>2, ComesInv
  <2>4. setBacks' = 0 => Ahead(stored.log, stored.markers, stored.tape, clock')
    BY <2>3, StoredLater
  <2>5. m = [at |-> tape'[Len(tape')].at, place |-> Len(tape')]
    BY <2>3
  <2> HIDE DEF m
  <2>6. /\ Sound(log', Listed(Append(markers, m)), tape')
        /\ Ahead(log', markers, tape', clock') =>
             Ahead(log', Listed(Append(markers, m)), tape', clock')
    BY <2>3, <2>5, SoundMark
  <2>. QED  BY <1>0, <2>2, <2>3, <2>4, <2>6 DEF LogInv
<1>3. CASE Clear
  BY <1>0, <1>3, EmptySound DEF Clear, LogInv
<1>4. CASE ForgetMarkers
  BY <1>0, <1>4, NoMarkers DEF ForgetMarkers, LogInv
<1>5. CASE ToStore
  <2>1. stored'.log = log /\ stored'.markers = markers /\ stored'.tape = tape
    BY <1>5 DEF ToStore
  <2>. QED  BY <1>0, <1>5, <2>1 DEF ToStore, LogInv
<1>6. CASE Load
  <2>1. log' = stored.log
    BY <1>0, <1>6, SoundRestored DEF Load
  <2>. QED  BY <1>0, <1>6, <2>1 DEF Load, LogInv
<1>7. CASE LoadUnlisted
  <2>1. log' = stored.log
    BY <1>0, <1>7, SoundRestored DEF LoadUnlisted
  <2>2. markers' = Listed(MarksAmong(Held(stored.log)))
    BY <1>7, <2>1 DEF LoadUnlisted
  <2>. QED  BY <1>0, <1>7, <2>1, <2>2, SoundUnlisted DEF LoadUnlisted, LogInv
<1>8. CASE LoadUnreadable
  <2>1. stored'.log = EmptyLog /\ stored'.markers = <<>> /\ stored'.tape = <<>>
    BY <1>8 DEF LoadUnreadable
  <2>. QED  BY <1>0, <1>8, <2>1, EmptySound DEF LoadUnreadable, LogInv
<1>9. CASE UNCHANGED logVars
  BY <1>0, <1>9 DEF logVars, LogInv
<1>. QED  BY <1>1, <1>2, <1>3, <1>4, <1>5, <1>6, <1>7, <1>8, <1>9 DEF LogNext

LEMMA LogInvariant == LogSpec => []LogInv
<1>1. LogInit => LogInv
  BY LogInitInv
<1>2. LogInv /\ [LogNext]_logVars => LogInv'
  BY LogNextInv
<1>. QED  BY <1>1, <1>2, PTL DEF LogSpec

-----------------------------------------------------------------------------
(* The theorems *)

\* frame_log.py:12-16, "The ceiling is hard": whatever the units send and whatever a
\* restart brings back, for every size of chunk, batch and ceiling.
THEOREM LogCeiling == LogSpec => []Ceiling
<1>1. LogInv => Ceiling
  <2> SUFFICES ASSUME LogInv PROVE Ceiling
    OBVIOUS
  <2>1. Within(log) /\ Len(markers) <= MaxMarkers
    BY DEF LogInv, Sound
  <2>2. /\ Len(log.pending) < FlushEvery /\ ~(log.current >= ChunkBytes)
        /\ ~(log.raw >= ChunkRaw) /\ Size(log) <= MaxBytes /\ log \in LogSet
    BY <2>1 DEF Within, Small, Full, Shaped
  <2>3. log.current < ChunkBytes /\ log.raw < ChunkRaw
    BY <2>2, Sizes DEF LogSet
  <2>. QED  BY <2>1, <2>2, <2>3 DEF Ceiling, LogTypeOK, Size
<1>. QED  BY <1>1, LogInvariant, PTL

\* What can be read back is the newest records without a gap, each with its own time
\* to within a rounding, however many records, chunks and reloads there were.
THEOREM LogHoldsTheNewest == LogSpec => []HeldIsTheNewest
<1>1. LogInv => HeldIsTheNewest
  <2> SUFFICES ASSUME LogInv PROVE HeldIsTheNewest
    OBVIOUS
  <2> DEFINE L == AllLines(log)
  <2>1. /\ tape \in Seq(TapeSet) /\ Kept(log, tape) /\ Holds(L, tape)
        /\ tape # <<>> /\ EachFits(tape) => L # <<>>
    BY DEF LogInv, Sound, Kept
  <2>2. /\ Held(log) \in Seq(HeldSet) /\ Len(Held(log)) = Len(L)
        /\ \A i \in 1..Len(L) : /\ Held(log)[i].place = L[i].place
                                /\ Held(log)[i].at = LastTime(L)[i]
    BY <2>1, HeldIs
  <2>3. L \in Seq(LineSet)
    BY <2>1 DEF Holds
  <2> HIDE DEF L
  <2>4. DOMAIN Held(log) = 1..Len(L) /\ (L # <<>> => Held(log) # <<>>)
    BY <2>2, <2>3
  <2>5. \A i \in 1..Len(L) :
          /\ Held(log)[i].place = Len(tape) - Len(Held(log)) + i
          /\ Near(Held(log)[i].at, tape[Held(log)[i].place].at)
    BY <2>1, <2>2 DEF Holds
  <2>6. tape # <<>> /\ AllShort => Held(log) # <<>>
    BY <2>1, <2>4 DEF AllShort, EachFits
  <2>. QED  BY <2>4, <2>5, <2>6 DEF HeldIsTheNewest
<1>. QED  BY <1>1, LogInvariant, PTL

\* A listed case says that it has frames while its own record is held, as long as the
\* clock runs forward, and never when every record held is later than its own.
THEOREM LogFlagsTrue == LogSpec => []FrameFlagTrue
<1>1. LogInv => FrameFlagTrue
  <2> SUFFICES ASSUME LogInv PROVE FrameFlagTrue
    OBVIOUS
  <2> DEFINE L == AllLines(log)
             places == {Held(log)[i].place : i \in DOMAIN Held(log)}
  <2>1. /\ tape \in Seq(TapeSet) /\ Kept(log, tape) /\ Holds(L, tape) /\ Shaped(log)
        /\ Marked(markers, tape)
        /\ setBacks = 0 => MarkedForward(markers, L)
    BY DEF LogInv, Sound, Kept, Ahead
  <2>2. /\ Held(log) \in Seq(HeldSet) /\ Len(Held(log)) = Len(L)
        /\ \A i \in 1..Len(L) : Held(log)[i].place = L[i].place
    BY <2>1, HeldIs
  <2>3. L \in Seq(LineSet) /\ Len(L) <= Len(tape) /\ Len(tape) \in Nat
    BY <2>1 DEF Holds
  <2>4. Oldest = OldestOf(log)
    BY DEF Oldest, OldestOf
  <2>5. /\ L # <<>> => L[1].t = Oldest /\ Oldest \in Int
        /\ L = <<>> => Oldest = NoTime
    BY <2>1, <2>4, AllFirst
  <2> HIDE DEF L
  <2>6. places = {L[i].place : i \in 1..Len(L)}
    BY <2>2
  <2> HIDE DEF places
  <2>7. \A i \in 1..Len(L) : /\ L[i].place = Len(tape) - Len(L) + i
                             /\ L[i].t # NoTime => L[i].t = tape[L[i].place].at
    BY <2>1 DEF Holds
  <2>8. Grid \div 2 \in Int
    BY Sizes
  <2>9. ASSUME NEW i \in DOMAIN markers
        PROVE  /\ setBacks = 0 /\ markers[i].place \in places => HasFrames(markers[i])
               /\ HasFrames(markers[i]) =>
                    \E p \in places : tape[p].at <= tape[markers[i].place].at + Grid \div 2
    <3>1. /\ i \in 1..Len(markers) /\ markers[i].at \in Int /\ markers[i].place \in Nat \ {0}
          /\ markers[i].place <= Len(tape) /\ Near(markers[i].at, tape[markers[i].place].at)
      <4>1. markers \in Seq(MarkerSet)
        BY <2>1 DEF Marked
      <4>2. i \in 1..Len(markers) /\ markers[i] \in MarkerSet
        BY <4>1
      <4>. QED  BY <2>1, <4>2 DEF Marked, MarkerSet
    <3>2. ASSUME setBacks = 0, markers[i].place \in places
          PROVE  HasFrames(markers[i])
      <4>1. PICK k \in 1..Len(L) : markers[i].place = L[k].place
        BY <2>6, <3>2
      <4>2. 1 \in 1..Len(L) /\ L # <<>> /\ Len(L) \in Nat
        BY <2>3
      <4>3. L[1].place <= L[k].place
        BY <2>3, <2>7, <4>2
      <4>4. L[1].t <= markers[i].at
        BY <2>1, <2>5, <3>1, <3>2, <4>1, <4>2, <4>3, Sizes DEF MarkedForward
      <4>. QED  BY <2>5, <3>1, <4>2, <4>4, Sizes DEF HasFrames
    <3>3. ASSUME HasFrames(markers[i])
          PROVE  \E p \in places : tape[p].at <= tape[markers[i].place].at + Grid \div 2
      <4>1. L # <<>> /\ Oldest <= markers[i].at /\ Oldest \in Int
        BY <2>5, <3>1, <3>3 DEF HasFrames
      <4>2. 1 \in 1..Len(L)
        BY <2>3, <4>1
      <4>3. L[1].place \in places /\ tape[L[1].place].at = Oldest
        BY <2>5, <2>6, <2>7, <4>1, <4>2, Sizes
      <4>4. tape[markers[i].place].at \in Int
        <5>1. tape[markers[i].place] \in TapeSet
          BY <2>1, <2>3, <3>1
        <5>. QED  BY <5>1 DEF TapeSet
      <4>5. markers[i].at <= tape[markers[i].place].at + Grid \div 2
        BY <2>8, <3>1, <4>4 DEF Near
      <4>6. Oldest <= tape[markers[i].place].at + Grid \div 2
        BY <2>8, <3>1, <4>1, <4>4, <4>5
      <4>. QED  BY <4>3, <4>6
    <3>. QED  BY <3>2, <3>3
  <2>. QED  BY <2>9 DEF FrameFlagTrue, places
<1>. QED  BY <1>1, LogInvariant, PTL

\* A reload brings back every record that was saved, with the time it had, although the
\* open chunk is encoded again.
THEOREM LogReloadExact == LogSpec => ReloadExact
<1>1. LogInv /\ [LogNext]_logVars => [Load \/ LoadUnlisted => Held(log') = Held(stored.log)]_logVars
  <2>1. LogInv /\ (Load \/ LoadUnlisted) => Held(log') = Held(stored.log)
    BY SoundRestored DEF LogInv, Load, LoadUnlisted
  <2>. QED  BY <2>1
<1>. QED  BY <1>1, LogInvariant, PTL DEF LogSpec, ReloadExact
=============================================================================
