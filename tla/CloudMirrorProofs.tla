--------------------------- MODULE CloudMirrorProofs ---------------------------
(***************************************************************************)
(* Proofs about the cloud mirror, for every capacity of the queue and every *)
(* number of frames and faults: its type invariant, what becomes of every   *)
(* frame, and that it is an ordered relay.                                  *)
(*                                                                         *)
(* The inductive invariant places every frame on one line.  Low is the      *)
(* newest frame that has left the queue: those after it are the queue,      *)
(* without a gap, and everything the worker or the network has is at most   *)
(* the frame in the worker's hand.                                          *)
(***************************************************************************)
EXTENDS CloudMirror, SequenceTheorems, TLAPS

Low == handed - Len(queue)
Ceiling == IF pending = NoFrame THEN Low ELSE pending

\* The queue holds the frames after Low, each one once and in order.
QueueFollows ==
  /\ Low \in Nat
  /\ \A i \in 1..Len(queue) : queue[i] = Low + i

\* The worker has a frame in its hand exactly while it is working on it.
HandFull == (pending = NoFrame) <=> pc \in {"get", "stopped", "stopping"}

Typed == TypeOK /\ HandFull

\* The wire is in order, after what the cloud has read and up to the hand.
WireOrdered ==
  /\ \A i \in 1..Len(wire) : Relay!Newest <= wire[i] /\ wire[i] <= Ceiling
  /\ \A i, j \in 1..Len(wire) : i <= j => wire[i] <= wire[j]

ReceivedBelow == \A i \in 1..Len(received) : received[i] <= Ceiling

OverflowBelow == \A f \in overflow : f <= Low

\* Where a frame can be once it has left the queue and the worker's hand.
Places == Range(wire) \cup Range(received) \cup overflow \cup lost

\* Every frame up to Low is in one of these places, or in the hand.
Accounted == \A f \in 1..Low : f \in Places \/ f = pending

\* A frame the worker waits to drain was written, to a connection or to nothing.
WrittenOnce == pc = "drain" => pending \in Places

HandBelow == pending <= Low

Order == QueueFollows /\ HandBelow /\ WireOrdered /\ ReceivedBelow
         /\ OverflowBelow

-----------------------------------------------------------------------------
(* Sequences *)

\* Append adds its element at the end and nothing else.
LEMMA AppendFacts ==
  ASSUME NEW S, NEW s \in Seq(S), NEW e \in S
  PROVE  /\ Append(s, e) \in Seq(S)
         /\ Len(Append(s, e)) = Len(s) + 1
         /\ \A i \in 1..Len(s) : Append(s, e)[i] = s[i]
         /\ Append(s, e)[Len(s) + 1] = e
         /\ Range(Append(s, e)) = Range(s) \cup {e}
<1>1. /\ Append(s, e) \in Seq(S)
      /\ Len(Append(s, e)) = Len(s) + 1
      /\ \A i \in 1..Len(s) : Append(s, e)[i] = s[i]
      /\ Append(s, e)[Len(s) + 1] = e
  OBVIOUS
<1>2. /\ DOMAIN s = 1..Len(s) /\ Len(s) \in Nat
      /\ DOMAIN Append(s, e) = 1..(Len(s) + 1)
  BY <1>1, LenProperties
<1>3. Range(Append(s, e)) = Range(s) \cup {e}
  BY <1>1, <1>2 DEF Range
<1>4. QED  BY <1>1, <1>3

\* Head and Tail split a sequence that is not empty.
LEMMA HeadTailFacts ==
  ASSUME NEW S, NEW s \in Seq(S), s # <<>>
  PROVE  /\ Len(s) \in Nat \ {0}
         /\ Head(s) = s[1] /\ Head(s) \in S
         /\ Tail(s) \in Seq(S)
         /\ Len(Tail(s)) = Len(s) - 1
         /\ \A i \in 1..Len(Tail(s)) : Tail(s)[i] = s[i + 1]
         /\ Range(s) = {Head(s)} \cup Range(Tail(s))
<1>1. /\ Len(s) \in Nat \ {0}
      /\ Head(s) = s[1] /\ Head(s) \in S
      /\ Tail(s) \in Seq(S)
      /\ Len(Tail(s)) = Len(s) - 1
      /\ \A i \in 1..Len(Tail(s)) : Tail(s)[i] = s[i + 1]
  BY HeadTailProperties, EmptySeq
<1>2. /\ DOMAIN s = 1..Len(s)
      /\ DOMAIN Tail(s) = 1..(Len(s) - 1)
  BY <1>1, LenProperties
<1>3. Range(s) \subseteq {Head(s)} \cup Range(Tail(s))
  <2>1. SUFFICES ASSUME NEW i \in 1..Len(s), s[i] # Head(s)
                 PROVE  s[i] \in Range(Tail(s))
    BY <1>2 DEF Range
  <2>2. i - 1 \in 1..Len(Tail(s)) /\ Tail(s)[i - 1] = s[i]
    BY <2>1, <1>1
  <2>3. QED  BY <2>2, <1>1, <1>2 DEF Range
<1>4. {Head(s)} \cup Range(Tail(s)) \subseteq Range(s)
  BY <1>1, <1>2 DEF Range
<1>5. QED  BY <1>1, <1>3, <1>4

\* The elements of a sequence are in the set it is a sequence over.
LEMMA RangeWithin ==
  ASSUME NEW S, NEW s \in Seq(S)
  PROVE  Range(s) \subseteq S
  BY LenProperties, ElementOfSeq DEF Range

-----------------------------------------------------------------------------
(* The two helpers of the worker *)

\* Write leaves the frame on the wire, or among the lost.
LEMMA WriteFacts ==
  ASSUME TypeOK, NEW f \in Frames, Write(f)
  PROVE  /\ pc' = "drain"
         /\ \/ wire' = wire /\ lost' = lost \cup {f}
            \/ wire' = Append(wire, f) /\ lost' = lost
         /\ wire' \in Seq(Frames) /\ lost' \subseteq Frames
         /\ Range(wire) \subseteq Range(wire') /\ lost \subseteq lost'
         /\ f \in Range(wire') \cup lost'
<1>1. CASE conn' = "live"
  <2>1. wire' = Append(wire, f) /\ lost' = lost
    BY <1>1 DEF Write
  <2>2. /\ Append(wire, f) \in Seq(Frames)
        /\ Range(Append(wire, f)) = Range(wire) \cup {f}
    BY AppendFacts DEF TypeOK
  <2>3. QED  BY <2>1, <2>2 DEF Write, TypeOK
<1>2. CASE conn' # "live"
  BY <1>2 DEF Write, TypeOK
<1>3. QED  BY <1>1, <1>2

\* Proceed keeps the connection and writes the frame at most once.
LEMMA ProceedFacts ==
  ASSUME TypeOK, NEW f \in Frames, Proceed(f)
  PROVE  /\ pc' \in {"connect", "renew", "drain"}
         /\ conn' = conn
         /\ wire' = wire \/ wire' = Append(wire, f)
         /\ wire' \in Seq(Frames) /\ lost' \subseteq Frames
         /\ Range(wire) \subseteq Range(wire') /\ lost \subseteq lost'
         /\ pc' = "drain" => f \in Range(wire') \cup lost'
<1>1. CASE pc' = "drain" /\ Write(f) /\ conn' = conn
  BY <1>1, WriteFacts
<1>2. CASE UNCHANGED <<conn, wire, lost>> /\ pc' \in {"connect", "renew"}
  BY <1>2 DEF TypeOK
<1>3. QED  BY <1>1, <1>2 DEF Proceed, Write

-----------------------------------------------------------------------------
(* Types *)

LEMMA TypeInit == Init => Typed
  BY CapacityAssumption, BoundsAssumption, EmptySeq
  DEF Init, Typed, TypeOK, HandFull, Await

LEMMA TypeStep == Typed /\ [Next]_vars => Typed'
<1> SUFFICES ASSUME TypeOK, HandFull, [Next]_vars PROVE TypeOK' /\ HandFull'
  BY DEF Typed
<1> USE CapacityAssumption, BoundsAssumption
<1>1. CASE Enqueue
  <2>1. handed' \in Frames /\ handed' \in 0..MaxFrames
    BY <1>1 DEF Enqueue, TypeOK, Frames
  <2>2. CASE Len(queue) < Capacity
    <3>1. queue' = Append(queue, handed') /\ overflow' = overflow
      BY <1>1, <2>2 DEF Enqueue
    <3>2. queue \in Seq(Frames) /\ Len(queue) \in Nat
      BY LenProperties DEF TypeOK
    <3>3. queue' \in Seq(Frames) /\ Len(queue') = Len(queue) + 1
      BY <2>1, <3>1, <3>2, AppendFacts
    <3>4. Len(queue') <= Capacity
      BY <2>2, <3>2, <3>3
    <3>5. QED  BY <1>1, <2>1, <3>1, <3>3, <3>4 DEF Enqueue, TypeOK, HandFull
  <2>3. CASE ~ (Len(queue) < Capacity)
    <3>1. queue # <<>> /\ Len(queue) = Capacity
      BY <2>3, EmptySeq, LenProperties DEF TypeOK
    <3>2. Head(queue) \in Frames /\ Tail(queue) \in Seq(Frames)
          /\ Len(Tail(queue)) = Capacity - 1
      BY <3>1, HeadTailFacts DEF TypeOK
    <3>3. queue' \in Seq(Frames) /\ Len(queue') <= Capacity
      BY <1>1, <2>1, <2>3, <3>2, AppendFacts DEF Enqueue
    <3>4. overflow' \subseteq Frames
      BY <1>1, <2>3, <3>2 DEF Enqueue, TypeOK
    <3>5. QED  BY <1>1, <2>1, <3>3, <3>4 DEF Enqueue, TypeOK, HandFull
  <2>4. QED  BY <2>2, <2>3
<1>2. CASE Start
  BY <1>2 DEF Start, TypeOK, HandFull, Await
<1>3. CASE Stop
  BY <1>3 DEF Stop, TypeOK, HandFull, Await
<1>4. CASE Stopped
  BY <1>4 DEF Stopped, TypeOK, HandFull, Await
<1>5. CASE TakeFrame
  <2>1. Head(queue) \in Frames /\ Tail(queue) \in Seq(Frames)
        /\ Len(Tail(queue)) <= Capacity
    BY <1>5, HeadTailFacts DEF TakeFrame, TypeOK
  <2>2. /\ pc' \in {"connect", "renew", "drain"} /\ conn' = conn
        /\ wire' \in Seq(Frames) /\ lost' \subseteq Frames
    BY <1>5, <2>1, ProceedFacts DEF TakeFrame
  <2>3. QED
    BY <1>5, <2>1, <2>2 DEF TakeFrame, TypeOK, HandFull, Await, Frames, NoFrame
<1>6. CASE Retry
  <2>1. pending \in Frames
    BY <1>6 DEF Retry, HandFull, TypeOK
  <2>2. /\ pc' \in {"connect", "renew", "drain"} /\ conn' = conn
        /\ wire' \in Seq(Frames) /\ lost' \subseteq Frames
    BY <1>6, <2>1, ProceedFacts DEF Retry
  <2>3. QED  BY <1>6, <2>1, <2>2 DEF Retry, TypeOK, HandFull, Await
<1>7. CASE Renewed
  BY <1>7 DEF Renewed, TypeOK, HandFull, Await
<1>8. CASE Connected
  <2>1. pending \in Frames
    BY <1>8 DEF Connected, HandFull, TypeOK
  <2>2. pc' = "drain" /\ wire' \in Seq(Frames) /\ lost' \subseteq Frames
    BY <1>8, <2>1, WriteFacts DEF Connected
  <2>3. QED  BY <1>8, <2>1, <2>2 DEF Connected, TypeOK, HandFull, Await
<1>9. CASE ConnectFailed
  BY <1>9 DEF ConnectFailed, TypeOK, HandFull, Await
<1>10. CASE Drained
  BY <1>10 DEF Drained, TypeOK, HandFull, Await
<1>11. CASE DrainFailed \/ DrainRaises
  BY <1>11 DEF DrainFailed, DrainRaises, TypeOK, HandFull, Await
<1>12. CASE Discarded
  BY <1>12 DEF Discarded, TypeOK, HandFull, Await
<1>13. CASE CloudReads
  <2>1. Head(wire) \in Frames /\ Tail(wire) \in Seq(Frames)
    BY <1>13, HeadTailFacts DEF CloudReads, TypeOK
  <2>2. received' \in Seq(Frames)
    BY <1>13, <2>1, AppendFacts DEF CloudReads, TypeOK
  <2>3. QED  BY <1>13, <2>1, <2>2 DEF CloudReads, TypeOK, HandFull
<1>14. CASE Break
  <2>1. Range(wire) \subseteq Frames /\ <<>> \in Seq(Frames)
    BY RangeWithin, EmptySeq DEF TypeOK
  <2>2. QED  BY <1>14, <2>1 DEF Break, TypeOK, HandFull
<1>15. CASE UNCHANGED vars
  BY <1>15 DEF vars, TypeOK, HandFull
<1>16. QED
  BY <1>1, <1>2, <1>3, <1>4, <1>5, <1>6, <1>7, <1>8, <1>9, <1>10, <1>11,
     <1>12, <1>13, <1>14, <1>15 DEF Next, Worker

\* The variables of the mirror keep their types, whatever the capacity of the
\* queue: it never holds more than "maxsize" frames (forwarder.py, enqueue).
THEOREM TypeCorrect == Spec => []TypeOK
<1>1. Spec => []Typed
  BY TypeInit, TypeStep, PTL DEF Spec
<1>2. Typed => TypeOK
  BY DEF Typed
<1>3. QED  BY <1>1, <1>2, PTL

-----------------------------------------------------------------------------
(* A stopped mirror is closed *)

\* Once stop() has returned nothing of the mirror is left: no connection and no
\* frame in hand, wherever the worker was cancelled (forwarder.py, stop).
THEOREM StoppedMirrorIsClosed == Spec => []StoppedIsClosed
<1>1. Init => Typed /\ StoppedIsClosed
  BY TypeInit DEF Init, StoppedIsClosed
<1>2. Typed /\ StoppedIsClosed /\ [Next]_vars => Typed' /\ StoppedIsClosed'
  <2> SUFFICES ASSUME Typed, StoppedIsClosed, [Next]_vars
               PROVE  StoppedIsClosed'
    BY TypeStep
  <2>1. CASE Enqueue \/ CloudReads \/ Break
    BY <2>1 DEF Enqueue, CloudReads, Break, StoppedIsClosed
  <2>2. CASE Stopped
    BY <2>2 DEF Stopped, StoppedIsClosed, Typed, HandFull
  <2>3. CASE Start \/ Stop
    BY <2>3 DEF Start, Stop, StoppedIsClosed
  <2>4. CASE TakeFrame \/ Retry
    BY <2>4 DEF TakeFrame, Retry, Proceed, Write, StoppedIsClosed
  <2>5. CASE Renewed \/ Connected \/ ConnectFailed
    BY <2>5 DEF Renewed, Connected, ConnectFailed, Write, StoppedIsClosed
  <2>6. CASE Drained \/ DrainFailed \/ DrainRaises \/ Discarded
    BY <2>6 DEF Drained, DrainFailed, DrainRaises, Discarded, StoppedIsClosed
  <2>7. CASE UNCHANGED vars
    BY <2>7 DEF vars, StoppedIsClosed
  <2>8. QED
    BY <2>1, <2>2, <2>3, <2>4, <2>5, <2>6, <2>7 DEF Next, Worker
<1>3. QED  BY <1>1, <1>2, PTL DEF Spec

-----------------------------------------------------------------------------
(* The order of the frames *)

LEMMA LineTypes ==
  ASSUME TypeOK, QueueFollows
  PROVE  Low \in Nat /\ Ceiling \in Nat
  BY DEF TypeOK, QueueFollows, Ceiling, Frames, NoFrame

\* Nothing sent and nothing read: the wire stays in order below a ceiling that
\* does not fall.
LEMMA WireKept ==
  ASSUME TypeOK, WireOrdered, ReceivedBelow, UNCHANGED <<wire, received>>,
         Ceiling \in Nat, Ceiling' \in Nat, Ceiling <= Ceiling'
  PROVE  WireOrdered' /\ ReceivedBelow'
<1>1. /\ \A i \in 1..Len(wire) : wire[i] \in Frames
      /\ \A i \in 1..Len(received) : received[i] \in Frames
  BY ElementOfSeq DEF TypeOK
<1>2. Relay!Newest' = Relay!Newest
  BY DEF Relay!Newest
<1>3. ReceivedBelow'
  BY <1>1 DEF ReceivedBelow, Frames
<1>4. WireOrdered'
  BY <1>1, <1>2 DEF WireOrdered, Frames
<1>5. QED  BY <1>3, <1>4

\* A frame sent at the ceiling goes behind everything on the wire.
LEMMA WireExtended ==
  ASSUME TypeOK, WireOrdered, ReceivedBelow, NEW f \in Frames,
         wire' = Append(wire, f), received' = received,
         Ceiling \in Nat, Ceiling <= f, Ceiling' = f
  PROVE  WireOrdered' /\ ReceivedBelow'
<1>1. /\ \A i \in 1..Len(wire) : wire[i] \in Frames
      /\ \A i \in 1..Len(received) : received[i] \in Frames
      /\ Len(received) \in Nat /\ Len(wire) \in Nat
      /\ received # <<>> => Len(received) \in Nat \ {0}
  BY ElementOfSeq, LenProperties, EmptySeq DEF TypeOK
<1>2. /\ Len(wire') = Len(wire) + 1 /\ wire'[Len(wire) + 1] = f
      /\ \A i \in 1..Len(wire) : wire'[i] = wire[i]
  BY AppendFacts DEF TypeOK
<1>3. ReceivedBelow'
  BY <1>1 DEF ReceivedBelow, Frames
<1>4. Relay!Newest' = Relay!Newest /\ Relay!Newest <= f /\ Relay!Newest \in Nat
  BY <1>1 DEF Relay!Newest, ReceivedBelow, Frames
<1>5. \A i \in 1..Len(wire) : Relay!Newest <= wire[i] /\ wire[i] <= f
  BY <1>1 DEF WireOrdered, Frames
<1>6. \A i \in 1..Len(wire') : Relay!Newest' <= wire'[i] /\ wire'[i] <= Ceiling'
  BY <1>1, <1>2, <1>4, <1>5 DEF Frames
<1>7. \A i, j \in 1..Len(wire') : i <= j => wire'[i] <= wire'[j]
  <2>1. SUFFICES ASSUME NEW i \in 1..Len(wire'), NEW j \in 1..Len(wire'),
                        i <= j
                 PROVE  wire'[i] <= wire'[j]
    OBVIOUS
  <2>2. CASE j \in 1..Len(wire)
    BY <2>1, <2>2, <1>1, <1>2 DEF WireOrdered
  <2>3. CASE j = Len(wire) + 1
    BY <2>1, <2>3, <1>1, <1>2, <1>5 DEF Frames
  <2>4. QED  BY <2>1, <2>2, <2>3, <1>1, <1>2
<1>8. QED  BY <1>3, <1>6, <1>7 DEF WireOrdered

LEMMA QueueKept ==
  ASSUME QueueFollows, UNCHANGED <<queue, handed>>
  PROVE  QueueFollows' /\ Low' = Low
  BY DEF QueueFollows, Low

LEMMA OrderInit == Init => Order
<1> SUFFICES ASSUME Init PROVE Order
  OBVIOUS
<1>0. <<>> \in Seq(Frames) /\ Len(<<>>) = 0
  BY EmptySeq
<1>1. handed = 0
  BY DEF Init
<1>2. Len(queue) = 0
  BY <1>0 DEF Init
<1>3. Low = 0
  BY <1>1, <1>2 DEF Low
<1>4. QED
  BY <1>0, <1>2, <1>3 DEF Init, Order, QueueFollows, HandBelow, WireOrdered,
     ReceivedBelow, OverflowBelow, NoFrame

LEMMA OrderEnqueue ==
  ASSUME Typed, Typed', Order, Enqueue
  PROVE  Order'
<1> USE DEF Typed, Order
<1>1. /\ queue \in Seq(Frames) /\ Len(queue) \in Nat /\ handed \in Nat
      /\ handed' \in Frames /\ handed' = handed + 1
      /\ pending \in Nat /\ Low \in Nat
  BY LenProperties DEF TypeOK, Enqueue, Frames, NoFrame, QueueFollows
<1>2. CASE Len(queue) < Capacity
  <2>1. queue' = Append(queue, handed') /\ overflow' = overflow
    BY <1>2 DEF Enqueue
  <2>2. /\ Len(queue') = Len(queue) + 1 /\ queue'[Len(queue) + 1] = handed'
        /\ \A i \in 1..Len(queue) : queue'[i] = queue[i]
    BY <1>1, <2>1, AppendFacts
  <2>3. Low' = Low /\ handed' = Low + Len(queue) + 1
    BY <1>1, <2>2 DEF Low
  <2>4. QueueFollows'
    BY <1>1, <2>2, <2>3 DEF QueueFollows
  <2>5. HandBelow' /\ OverflowBelow' /\ Ceiling' = Ceiling
    BY <2>1, <2>3 DEF Enqueue, HandBelow, OverflowBelow, Ceiling
  <2>6. WireOrdered' /\ ReceivedBelow'
    BY <2>5, LineTypes, WireKept DEF Enqueue
  <2>7. QED  BY <2>4, <2>5, <2>6
<1>3. CASE ~ (Len(queue) < Capacity)
  <2>1. queue # <<>>
    BY <1>1, <1>3, EmptySeq, CapacityAssumption
  <2>2. /\ queue' = Append(Tail(queue), handed')
        /\ overflow' = overflow \cup {Head(queue)}
    BY <1>3 DEF Enqueue
  <2>3. /\ Len(queue) \in Nat \ {0} /\ Head(queue) = queue[1]
        /\ Tail(queue) \in Seq(Frames) /\ Len(Tail(queue)) = Len(queue) - 1
        /\ \A i \in 1..Len(Tail(queue)) : Tail(queue)[i] = queue[i + 1]
    BY <1>1, <2>1, HeadTailFacts
  <2>4. /\ Len(queue') = Len(queue) /\ queue'[Len(queue)] = handed'
        /\ \A i \in 1..(Len(queue) - 1) : queue'[i] = Tail(queue)[i]
    BY <1>1, <2>2, <2>3, AppendFacts
  <2>5. Low' = Low + 1 /\ handed' = Low' + Len(queue) /\ Head(queue) = Low + 1
    BY <1>1, <2>3, <2>4 DEF Low, QueueFollows
  <2>6. QueueFollows'
    <3>1. \A i \in 1..(Len(queue) - 1) : queue'[i] = Low + (i + 1)
      BY <2>3, <2>4 DEF QueueFollows
    <3>2. queue'[Len(queue)] = Low' + Len(queue)
      BY <2>4, <2>5
    <3>3. \A i \in 1..Len(queue') : queue'[i] = Low' + i
      <4>1. SUFFICES ASSUME NEW i \in 1..Len(queue)
                     PROVE  queue'[i] = Low' + i
        BY <2>4
      <4>2. CASE i = Len(queue)
        BY <3>2, <4>2
      <4>3. CASE i \in 1..(Len(queue) - 1)
        BY <1>1, <2>5, <3>1, <4>3
      <4>4. i = Len(queue) \/ i \in 1..(Len(queue) - 1)
        <5>1. Len(queue) \in Nat
          BY <1>1
        <5>2. QED  BY <4>1, <5>1
      <4>5. QED  BY <4>2, <4>3, <4>4
    <3>4. QED  BY <1>1, <2>5, <3>3 DEF QueueFollows
  <2>7. HandBelow'
    BY <1>1, <2>5 DEF Enqueue, HandBelow
  <2>8. OverflowBelow'
    BY <1>1, <2>2, <2>5 DEF OverflowBelow, TypeOK, Frames
  <2>9. Ceiling' \in Nat /\ Ceiling <= Ceiling' /\ Ceiling \in Nat
    BY <1>1, <2>5 DEF Enqueue, Ceiling
  <2>10. WireOrdered' /\ ReceivedBelow'
    BY <2>9, WireKept DEF Enqueue
  <2>11. QED  BY <2>6, <2>7, <2>8, <2>10
<1>4. QED  BY <1>2, <1>3

\* What the worker does with a frame in hand, or on its way to one, keeps the
\* order: it writes the frame at the ceiling or leaves the wire alone.
LEMMA OrderSend ==
  ASSUME TypeOK, QueueFollows', Low' \in Nat, WireOrdered, ReceivedBelow,
         pending' \in Frames, received' = received,
         wire' = wire \/ wire' = Append(wire, pending'),
         Ceiling \in Nat, Ceiling <= pending'
  PROVE  WireOrdered' /\ ReceivedBelow'
<1>1. Ceiling' = pending' /\ pending' \in Nat
  BY DEF Ceiling, Frames, NoFrame
<1>2. QED  BY <1>1, WireKept, WireExtended

LEMMA OrderTakeFrame ==
  ASSUME Typed, Typed', Order, TakeFrame
  PROVE  Order'
<1> USE DEF Typed, Order
<1>1. /\ Len(queue) \in Nat \ {0} /\ Head(queue) = queue[1]
      /\ Head(queue) \in Frames
      /\ Tail(queue) \in Seq(Frames) /\ Len(Tail(queue)) = Len(queue) - 1
      /\ \A i \in 1..Len(Tail(queue)) : Tail(queue)[i] = queue[i + 1]
  BY HeadTailFacts DEF TakeFrame, TypeOK
<1>2. /\ handed \in Nat /\ Low \in Nat /\ Low = handed - Len(queue)
      /\ pending = NoFrame /\ pending' = Head(queue)
  BY <1>1 DEF TypeOK, TakeFrame, Low, QueueFollows, HandFull
<1>3. Low' = Low + 1 /\ pending' = Low'
  BY <1>1, <1>2 DEF TakeFrame, Low, QueueFollows
<1>4. QueueFollows'
  BY <1>1, <1>2, <1>3 DEF TakeFrame, QueueFollows
<1>5. HandBelow' /\ OverflowBelow'
  BY <1>2, <1>3 DEF TakeFrame, HandBelow, OverflowBelow, TypeOK, Frames
<1>6. wire' = wire \/ wire' = Append(wire, pending')
  BY <1>1, <1>2, ProceedFacts DEF TakeFrame
<1>7. Ceiling = Low
  BY <1>2 DEF Ceiling
<1>8. WireOrdered' /\ ReceivedBelow'
  BY <1>1, <1>2, <1>3, <1>4, <1>6, <1>7, OrderSend DEF TakeFrame
<1>9. QED  BY <1>4, <1>5, <1>8

LEMMA OrderCloudReads ==
  ASSUME Typed, Typed', Order, CloudReads
  PROVE  Order'
<1> USE DEF Typed, Order
<1>1. /\ Len(wire) \in Nat \ {0} /\ Head(wire) = wire[1]
      /\ Head(wire) \in Frames /\ Len(wire') = Len(wire) - 1
      /\ \A i \in 1..Len(wire') : wire'[i] = wire[i + 1]
  BY HeadTailFacts DEF CloudReads, TypeOK
<1>2. /\ received' = Append(received, Head(wire)) /\ Len(received) \in Nat
      /\ Len(received') = Len(received) + 1
      /\ received'[Len(received) + 1] = Head(wire)
      /\ \A i \in 1..Len(received) : received'[i] = received[i]
  BY <1>1, AppendFacts, LenProperties DEF CloudReads, TypeOK
<1>3. QueueFollows' /\ Low' = Low /\ Ceiling' = Ceiling /\ Ceiling \in Nat
  BY QueueKept, LineTypes DEF CloudReads, Ceiling
<1>4. HandBelow' /\ OverflowBelow'
  BY <1>3 DEF CloudReads, HandBelow, OverflowBelow
<1>5. Head(wire) <= Ceiling
  BY <1>1 DEF WireOrdered
<1>6. ReceivedBelow'
  BY <1>2, <1>3, <1>5 DEF ReceivedBelow
<1>7. Relay!Newest' = Head(wire)
  BY <1>2, EmptySeq DEF Relay!Newest, TypeOK
<1>8. WireOrdered'
  <2>1. \A i \in 1..Len(wire') : wire'[i] <= Ceiling /\ Head(wire) <= wire'[i]
    BY <1>1 DEF WireOrdered
  <2>2. \A i, j \in 1..Len(wire') : i <= j => wire'[i] <= wire'[j]
    BY <1>1 DEF WireOrdered
  <2>3. QED  BY <1>3, <1>7, <2>1, <2>2 DEF WireOrdered
<1>9. QED  BY <1>3, <1>4, <1>6, <1>8

LEMMA OrderBreak ==
  ASSUME Typed, Typed', Order, Break
  PROVE  Order'
<1> USE DEF Typed, Order
<1>1. wire' = <<>> /\ Len(wire') = 0 /\ received' = received
  BY EmptySeq DEF Break, TypeOK
<1>2. QueueFollows' /\ Low' = Low /\ Ceiling' = Ceiling
  BY QueueKept DEF Break, Ceiling
<1>3. HandBelow' /\ OverflowBelow' /\ ReceivedBelow'
  BY <1>2 DEF Break, HandBelow, OverflowBelow, ReceivedBelow
<1>4. WireOrdered'
  BY <1>1 DEF WireOrdered
<1>5. QED  BY <1>2, <1>3, <1>4

\* A step of the worker or of stop() that puts a frame on the wire, or lets go
\* of the one in hand, and leaves the queue alone.
LEMMA OrderWork ==
  ASSUME Typed, Typed', Order,
         UNCHANGED <<queue, handed, received, overflow>>,
         \/ pending' = pending /\ UNCHANGED wire
         \/ pending' = NoFrame /\ UNCHANGED wire
         \/ /\ pending' = pending /\ pending \in Frames
            /\ wire' = wire \/ wire' = Append(wire, pending)
  PROVE  Order'
<1> USE DEF Typed, Order
<1>1. /\ QueueFollows' /\ Low' = Low /\ Low \in Nat /\ pending \in Nat
      /\ Ceiling \in Nat /\ pending <= Low
  BY QueueKept, LineTypes DEF HandBelow, TypeOK, Frames, NoFrame
<1>2. HandBelow' /\ OverflowBelow'
  BY <1>1 DEF HandBelow, OverflowBelow, NoFrame
<1>3. CASE pending' \in {pending, NoFrame} /\ UNCHANGED wire
  <2>1. Ceiling' \in Nat /\ Ceiling <= Ceiling'
    BY <1>1, <1>3 DEF Ceiling, NoFrame
  <2>2. QED  BY <1>1, <1>2, <1>3, <2>1, WireKept
<1>4. CASE /\ pending' = pending /\ pending \in Frames
           /\ wire' = wire \/ wire' = Append(wire, pending)
  <2>1. Ceiling <= pending'
    BY <1>1, <1>4 DEF Ceiling, Frames, NoFrame
  <2>2. WireOrdered' /\ ReceivedBelow'
    BY <1>1, <1>4, <2>1, OrderSend
  <2>3. QED  BY <1>1, <1>2, <2>2
<1>5. QED  BY <1>3, <1>4

LEMMA OrderStep == Typed /\ Order /\ [Next]_vars => Order'
<1> SUFFICES ASSUME Typed, Order, [Next]_vars PROVE Order'
  OBVIOUS
<1>1. Typed'
  BY TypeStep
<1>2. CASE Enqueue
  BY <1>1, <1>2, OrderEnqueue
<1>3. CASE TakeFrame
  BY <1>1, <1>3, OrderTakeFrame
<1>4. CASE CloudReads
  BY <1>1, <1>4, OrderCloudReads
<1>5. CASE Break
  BY <1>1, <1>5, OrderBreak
<1>6. CASE Retry
  <2>1. pending \in Frames
    BY <1>6 DEF Retry, Typed, HandFull, TypeOK
  <2>2. wire' = wire \/ wire' = Append(wire, pending)
    BY <1>6, <2>1, ProceedFacts DEF Retry, Typed
  <2>3. QED  BY <1>1, <1>6, <2>1, <2>2, OrderWork DEF Retry
<1>7. CASE Connected
  <2>1. pending \in Frames
    BY <1>7 DEF Connected, Typed, HandFull, TypeOK
  <2>2. wire' = wire \/ wire' = Append(wire, pending)
    BY <1>7, <2>1, WriteFacts DEF Connected, Typed
  <2>3. QED  BY <1>1, <1>7, <2>1, <2>2, OrderWork DEF Connected
<1>8. CASE Start \/ Stop \/ Stopped
  BY <1>1, <1>8, OrderWork DEF Start, Stop, Stopped
<1>9. CASE Renewed \/ ConnectFailed \/ Drained \/ DrainFailed \/ DrainRaises \/ Discarded
  BY <1>1, <1>9, OrderWork
  DEF Renewed, ConnectFailed, Drained, DrainFailed, DrainRaises, Discarded
<1>10. CASE UNCHANGED vars
  BY <1>1, <1>10, OrderWork DEF vars
<1>11. QED
  BY <1>2, <1>3, <1>4, <1>5, <1>6, <1>7, <1>8, <1>9, <1>10 DEF Next, Worker

\* Every frame keeps its place on the line, in every reachable state.
THEOREM LineInvariant == Spec => [](Typed /\ Order)
<1>1. Init => Typed /\ Order
  BY TypeInit, OrderInit
<1>2. Typed /\ Order /\ [Next]_vars => Typed' /\ Order'
  BY TypeStep, OrderStep
<1>3. QED  BY <1>1, <1>2, PTL DEF Spec

\* Dropping starts at the oldest frame, so what is queued is newer than what
\* was dropped, sent or read, and has no gap (forwarder.py, enqueue).
THEOREM QueueHoldsTheNewest == Spec => []QueueIsTheNewest
<1>1. Typed /\ Order => QueueIsTheNewest
  <2> SUFFICES ASSUME Typed, Order, NEW i \in DOMAIN queue
               PROVE  /\ \A f \in overflow : f < queue[i]
                      /\ \A f \in Range(wire) \cup Range(received) :
                            f < queue[i]
                      /\ queue[i] = handed - (Len(queue) - i)
    BY DEF QueueIsTheNewest
  <2> USE DEF Typed, Order
  <2>1. /\ DOMAIN queue = 1..Len(queue) /\ Len(queue) \in Nat
        /\ DOMAIN wire = 1..Len(wire) /\ DOMAIN received = 1..Len(received)
        /\ handed \in Nat
    BY LenProperties DEF TypeOK
  <2>2. Low \in Nat /\ Ceiling \in Nat /\ Ceiling <= Low
    BY LineTypes DEF Ceiling, HandBelow, TypeOK, NoFrame
  <2>3. queue[i] = Low + i /\ i \in 1..Len(queue)
    BY <2>1 DEF QueueFollows
  <2>4. \A f \in Range(wire) \cup Range(received) : f \in Nat /\ f <= Ceiling
    <3>1. Range(wire) \subseteq Frames /\ Range(received) \subseteq Frames
      BY RangeWithin DEF TypeOK
    <3>2. \A f \in Range(wire) : f <= Ceiling
      BY <2>1 DEF Range, WireOrdered
    <3>3. \A f \in Range(received) : f <= Ceiling
      BY <2>1 DEF Range, ReceivedBelow
    <3>4. QED  BY <3>1, <3>2, <3>3 DEF Frames
  <2>5. \A f \in overflow : f \in Nat /\ f <= Low
    BY DEF OverflowBelow, TypeOK, Frames
  <2>6. queue[i] = handed - (Len(queue) - i)
    BY <2>1, <2>3 DEF Low
  <2>7. QED  BY <2>1, <2>2, <2>3, <2>4, <2>5, <2>6
<1>2. QED  BY <1>1, LineInvariant, PTL

-----------------------------------------------------------------------------
(* The mirror is an ordered relay *)

LEMMA RelayStarts == Init => Relay!RelayInit
  BY DEF Init, Relay!RelayInit

LEMMA RelaySteps ==
  Typed /\ Order /\ [Next]_vars => [Relay!RelayNext]_(Relay!relayVars)
<1> SUFFICES ASSUME Typed, Order, [Next]_vars
             PROVE  [Relay!RelayNext]_(Relay!relayVars)
  OBVIOUS
<1>1. CASE Enqueue
  BY <1>1 DEF Enqueue, Relay!RelayNext, Relay!HandOver
<1>2. CASE CloudReads
  <2>1. Len(wire) \in Nat \ {0} /\ Head(wire) = wire[1] /\ Head(wire) \in Frames
    BY <1>2, HeadTailFacts DEF CloudReads, Typed, TypeOK
  <2>2. Relay!Newest <= Head(wire) /\ Head(wire) <= Ceiling
    BY <2>1 DEF Order, WireOrdered
  <2>3. Ceiling \in Nat /\ Ceiling <= handed /\ handed \in Nat
    <3>1. Len(queue) \in Nat /\ handed \in Nat
      BY LenProperties DEF Typed, TypeOK
    <3>2. Low <= handed /\ Low \in Nat /\ Ceiling \in Nat /\ Ceiling <= Low
      BY <3>1, LineTypes
      DEF Typed, Order, Low, Ceiling, HandBelow, TypeOK, NoFrame
    <3>3. QED  BY <3>1, <3>2
  <2>4. Head(wire) \in 1..handed
    BY <2>1, <2>2, <2>3 DEF Frames
  <2>5. Relay!Arrive
    BY <1>2, <2>2, <2>4 DEF CloudReads, Relay!Arrive
  <2>6. QED  BY <2>5 DEF Relay!RelayNext
<1>3. CASE UNCHANGED <<handed, received>>
  BY <1>3 DEF Relay!relayVars
<1>4. CASE Start \/ Stop \/ Stopped \/ Break \/ UNCHANGED vars
  BY <1>3, <1>4 DEF Start, Stop, Stopped, Break, vars
<1>5. CASE Worker
  BY <1>3, <1>5 DEF Worker, TakeFrame, Retry, Renewed, Connected,
     ConnectFailed, Drained, DrainFailed, DrainRaises, Discarded
<1>6. QED  BY <1>1, <1>2, <1>4, <1>5 DEF Next

\* The cloud reads the frames in the order the unit sent them, across retries,
\* forced reconnects, overflow and stops (forwarder.py:78-79).
THEOREM MirrorIsOrdered == Spec => InOrder
<1>1. Spec => [](Typed /\ Order)
  BY LineInvariant
<1>2. Init => Relay!RelayInit
  BY RelayStarts
<1>3. Typed /\ Order /\ [Next]_vars => [Relay!RelayNext]_(Relay!relayVars)
  BY RelaySteps
<1>4. QED
  BY <1>1, <1>2, <1>3, PTL DEF Spec, InOrder, Relay!RelaySpec

-----------------------------------------------------------------------------
(* No frame vanishes *)

LEMMA PlacesGrow ==
  ASSUME Typed, Typed', [Next]_vars
  PROVE  Places \subseteq Places'
<1> USE DEF Typed
<1>1. CASE Enqueue
  BY <1>1 DEF Enqueue, Places
<1>2. CASE TakeFrame
  <2>1. Head(queue) \in Frames
    BY <1>2, HeadTailFacts DEF TakeFrame, TypeOK
  <2>2. Range(wire) \subseteq Range(wire') /\ lost \subseteq lost'
    BY <1>2, <2>1, ProceedFacts DEF TakeFrame
  <2>3. QED  BY <1>2, <2>2 DEF TakeFrame, Places
<1>3. CASE Retry
  <2>1. pending \in Frames
    BY <1>3 DEF Retry, HandFull, TypeOK
  <2>2. Range(wire) \subseteq Range(wire') /\ lost \subseteq lost'
    BY <1>3, <2>1, ProceedFacts DEF Retry
  <2>3. QED  BY <1>3, <2>2 DEF Retry, Places
<1>4. CASE Connected
  <2>1. pending \in Frames
    BY <1>4 DEF Connected, HandFull, TypeOK
  <2>2. Range(wire) \subseteq Range(wire') /\ lost \subseteq lost'
    BY <1>4, <2>1, WriteFacts DEF Connected
  <2>3. QED  BY <1>4, <2>2 DEF Connected, Places
<1>5. CASE CloudReads
  <2>1. Head(wire) \in Frames /\ Range(wire) = {Head(wire)} \cup Range(wire')
    BY <1>5, HeadTailFacts DEF CloudReads, TypeOK
  <2>2. Range(received') = Range(received) \cup {Head(wire)}
    BY <1>5, <2>1, AppendFacts DEF CloudReads, TypeOK
  <2>3. QED  BY <1>5, <2>1, <2>2 DEF CloudReads, Places
<1>6. CASE Break
  BY <1>6 DEF Break, Places
<1>7. CASE Start \/ Stop \/ Stopped \/ UNCHANGED vars
  BY <1>7 DEF Start, Stop, Stopped, vars, Places
<1>8. CASE Renewed \/ ConnectFailed \/ Drained \/ DrainFailed \/ DrainRaises \/ Discarded
  BY <1>8 DEF Renewed, ConnectFailed, Drained, DrainFailed, DrainRaises, Discarded, Places
<1>9. QED
  BY <1>1, <1>2, <1>3, <1>4, <1>5, <1>6, <1>7, <1>8 DEF Next, Worker

LEMMA WrittenStep ==
  ASSUME Typed, Typed', WrittenOnce, [Next]_vars
  PROVE  WrittenOnce'
<1> USE DEF Typed
<1>1. Places \subseteq Places'
  BY PlacesGrow
<1>2. CASE TakeFrame
  <2>1. Head(queue) \in Frames
    BY <1>2, HeadTailFacts DEF TakeFrame, TypeOK
  <2>2. pc' = "drain" => Head(queue) \in Range(wire') \cup lost'
    BY <1>2, <2>1, ProceedFacts DEF TakeFrame
  <2>3. QED  BY <1>2, <2>2 DEF TakeFrame, WrittenOnce, Places
<1>3. CASE Retry
  <2>1. pending \in Frames
    BY <1>3 DEF Retry, HandFull, TypeOK
  <2>2. pc' = "drain" => pending \in Range(wire') \cup lost'
    BY <1>3, <2>1, ProceedFacts DEF Retry
  <2>3. QED  BY <1>3, <2>2 DEF Retry, WrittenOnce, Places
<1>4. CASE Connected
  <2>1. pending \in Frames
    BY <1>4 DEF Connected, HandFull, TypeOK
  <2>2. pending \in Range(wire') \cup lost'
    BY <1>4, <2>1, WriteFacts DEF Connected
  <2>3. QED  BY <1>4, <2>2 DEF Connected, WrittenOnce, Places
<1>5. CASE Enqueue \/ CloudReads \/ Break \/ UNCHANGED vars
  BY <1>1, <1>5 DEF Enqueue, CloudReads, Break, vars, WrittenOnce
<1>6. CASE \/ Start \/ Stop \/ Stopped \/ Renewed \/ ConnectFailed
           \/ Drained \/ DrainFailed \/ DrainRaises \/ Discarded
  BY <1>6 DEF Start, Stop, Stopped, Renewed, ConnectFailed, Drained,
     DrainFailed, DrainRaises, Discarded, WrittenOnce
<1>7. QED
  BY <1>2, <1>3, <1>4, <1>5, <1>6 DEF Next, Worker

LEMMA AccountedStep ==
  ASSUME Typed, Typed', Order, Order', Accounted, WrittenOnce, [Next]_vars
  PROVE  Accounted'
<1> USE DEF Typed
<1>1. /\ Places \subseteq Places' /\ Low \in Nat
      /\ Len(queue) \in Nat /\ handed \in Nat
  BY PlacesGrow, LenProperties DEF Order, QueueFollows, TypeOK
<1>2. CASE Enqueue
  <2>1. CASE Len(queue) < Capacity
    <3>1. queue' = Append(queue, handed') /\ handed' \in Frames
          /\ handed' = handed + 1
      BY <1>2, <2>1 DEF Enqueue, TypeOK, Frames
    <3>2. Len(queue') = Len(queue) + 1
      BY <3>1, AppendFacts DEF TypeOK
    <3>3. Low' = Low
      BY <1>1, <3>1, <3>2 DEF Low
    <3>4. QED  BY <1>1, <1>2, <3>3 DEF Enqueue, Accounted
  <2>2. CASE ~ (Len(queue) < Capacity)
    <3>1. queue # <<>>
      BY <1>1, <2>2, EmptySeq, CapacityAssumption
    <3>2. /\ Len(queue) \in Nat \ {0} /\ Head(queue) = queue[1]
          /\ Tail(queue) \in Seq(Frames) /\ Len(Tail(queue)) = Len(queue) - 1
      BY <3>1, HeadTailFacts DEF TypeOK
    <3>3. /\ queue' = Append(Tail(queue), handed')
          /\ handed' \in Frames /\ handed' = handed + 1
          /\ Head(queue) \in overflow'
      BY <1>2, <2>2 DEF Enqueue, TypeOK, Frames
    <3>4. Len(queue') = Len(queue)
      BY <3>2, <3>3, AppendFacts
    <3>5. Low' = Low + 1 /\ Head(queue) = Low + 1
      <4>1. handed' = handed + 1
        BY <3>3
      <4>2. Low' = Low + 1
        BY <1>1, <3>4, <4>1 DEF Low
      <4>3. Head(queue) = Low + 1
        BY <3>2 DEF Order, QueueFollows
      <4>4. QED  BY <4>2, <4>3
    <3>6. Low + 1 \in Places'
      BY <3>3, <3>5 DEF Places
    <3>7. QED  BY <1>1, <1>2, <3>5, <3>6 DEF Enqueue, Accounted
  <2>3. QED  BY <2>1, <2>2
<1>3. CASE TakeFrame
  <2>1. /\ Len(queue) \in Nat \ {0} /\ Head(queue) = queue[1]
        /\ Len(Tail(queue)) = Len(queue) - 1
    BY <1>3, HeadTailFacts DEF TakeFrame, TypeOK
  <2>2. Low' = Low + 1 /\ pending' = Low + 1
    BY <1>1, <1>3, <2>1 DEF TakeFrame, Low, Order, QueueFollows
  <2>3. pending = NoFrame
    BY <1>3 DEF TakeFrame, HandFull
  <2>4. \A f \in 1..Low : f \in Places'
    BY <1>1, <2>3 DEF Accounted, NoFrame
  <2>5. QED  BY <1>1, <2>2, <2>4 DEF Accounted
<1>4. CASE Drained \/ Stop
  <2>1. pending \in Places' \cup {NoFrame}
    BY <1>1, <1>4 DEF Drained, Stop, WrittenOnce, Places
  <2>2. Low' = Low
    BY <1>4 DEF Drained, Stop, Low
  <2>3. QED  BY <1>1, <2>1, <2>2 DEF Accounted, NoFrame
<1>5. CASE /\ pending' = pending /\ UNCHANGED <<queue, handed>>
  BY <1>1, <1>5 DEF Accounted, Low
<1>6. CASE Retry \/ Renewed \/ Connected \/ ConnectFailed \/ DrainFailed
           \/ DrainRaises \/ Discarded
  BY <1>5, <1>6 DEF Retry, Renewed, Connected, ConnectFailed, DrainFailed,
     DrainRaises, Discarded
<1>7. CASE Start \/ Stopped \/ CloudReads \/ Break \/ UNCHANGED vars
  BY <1>5, <1>7 DEF Start, Stopped, CloudReads, Break, vars
<1>8. QED
  BY <1>2, <1>3, <1>4, <1>6, <1>7 DEF Next, Worker

\* A frame that left the queue is on its way, read, in the worker's hand, or
\* was lost for one of the reasons the code knows: a full queue, a broken
\* connection, a stop.  None slips through a retry (forwarder.py, _worker).
THEOREM NoFrameVanishes == Spec => []NothingVanishes
<1> DEFINE IInv == Typed /\ Order /\ Accounted /\ WrittenOnce
<1>1. Init => IInv
  <2> SUFFICES ASSUME Init PROVE Accounted /\ WrittenOnce
    BY TypeInit, OrderInit
  <2>1. <<>> \in Seq(Frames) /\ Len(<<>>) = 0
    BY EmptySeq
  <2>2. handed = 0 /\ pc # "drain"
    BY DEF Init
  <2>3. Len(queue) = 0
    BY <2>1 DEF Init
  <2>4. Low = 0
    BY <2>2, <2>3 DEF Low
  <2>5. QED  BY <2>2, <2>4 DEF Accounted, WrittenOnce
<1>2. IInv /\ [Next]_vars => IInv'
  BY TypeStep, OrderStep, AccountedStep, WrittenStep
<1>3. IInv => NothingVanishes
  <2> SUFFICES ASSUME IInv, NEW f \in 1..handed
               PROVE  f \in Range(queue) \cup Places \/ f = pending
    BY DEF NothingVanishes, Places
  <2>1. /\ DOMAIN queue = 1..Len(queue) /\ Len(queue) \in Nat
        /\ handed \in Nat /\ Low \in Nat
    BY LenProperties DEF Typed, TypeOK, Order, QueueFollows
  <2>2. CASE f \in 1..Low
    BY <2>2 DEF Accounted
  <2>3. CASE f \notin 1..Low
    <3>1. f - Low \in 1..Len(queue)
      BY <2>1, <2>3 DEF Low
    <3>2. queue[f - Low] = f
      BY <2>1, <3>1 DEF Order, QueueFollows
    <3>3. QED  BY <2>1, <3>1, <3>2 DEF Range
  <2>4. QED  BY <2>2, <2>3
<1>4. QED
  <2>1. Spec => []IInv
    BY <1>1, <1>2, PTL DEF Spec
  <2>2. QED  BY <1>3, <2>1, PTL

=============================================================================
