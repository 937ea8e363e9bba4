----------------------------- MODULE CloudMirror -----------------------------
(***************************************************************************)
(* forwarder.py: AsekoCloudMirror, the TCP client that repeats every frame *)
(* of a unit to Aseko's cloud.                                             *)
(*                                                                         *)
(* Frames are numbered in the order the server hands them to enqueue.  The *)
(* worker task is cut at its awaits: "pc" names the await it is suspended  *)
(* in.  Between two awaits nothing else runs, so what the code does there  *)
(* is one action.                                                          *)
(*                                                                         *)
(* The network is the environment.  A connection is a FIFO; it breaks at   *)
(* any moment and takes with it what the cloud has not read yet, and the   *)
(* mirror does not see that at once: a write to a broken connection is     *)
(* lost, and its drain may succeed or raise.  What was written before an   *)
(* orderly close still arrives before anything of the next connection, or  *)
(* not at all.                                                             *)
(***************************************************************************)
EXTENDS Integers, Sequences, Functions

CONSTANTS Capacity,   \* maxsize of the queue (1000 in the code)
          MaxFrames,  \* bound: frames the unit sends
          MaxFaults   \* bound: failed connects and broken connections

ASSUME CapacityAssumption == Capacity \in Nat \ {0}
ASSUME BoundsAssumption == MaxFrames \in Nat /\ MaxFaults \in Nat

VARIABLES
  queue,     \* self._queue
  pending,   \* the worker's local "pending": a frame, or NoFrame
  pc,        \* where the worker is suspended
  conn,      \* self._writer: "none", "live", or "broken" (not noticed yet)
  handed,    \* frames enqueue was called with
  wire,      \* written to a connection, not read by the cloud yet
  received,  \* history: frames read by the cloud, in order
  overflow,  \* history: frames dropped by a full queue
  lost,      \* history: frames that went down with a connection or a stop
  faults     \* history: failures so far, bounded by MaxFaults

vars == <<queue, pending, pc, conn, handed, wire, received, overflow, lost,
          faults>>

NoFrame == 0
Frames == 1..MaxFrames

Await == {"stopped",    \* no task: before start, after stop
          "get",        \* await self._queue.get()
          "connect",    \* await asyncio.open_connection(...)
          "drain",      \* await self._writer.drain()
          "renew",      \* await self._close_writer(), reconnect interval
          "discard",    \* await self._close_writer(), after a failed write
          "sleep",      \* await asyncio.sleep(...), backoff
          "stopping"}   \* stop() awaits the cancelled task and the close

TypeOK ==
  /\ queue \in Seq(Frames) /\ Len(queue) <= Capacity
  /\ pending \in Frames \cup {NoFrame}
  /\ pc \in Await
  /\ conn \in {"none", "live", "broken"}
  /\ handed \in 0..MaxFrames
  /\ wire \in Seq(Frames) /\ received \in Seq(Frames)
  /\ overflow \subseteq Frames /\ lost \subseteq Frames
  /\ faults \in 0..MaxFaults

Init ==
  /\ queue = <<>> /\ pending = NoFrame /\ pc = "stopped" /\ conn = "none"
  /\ handed = 0 /\ wire = <<>> /\ received = <<>>
  /\ overflow = {} /\ lost = {} /\ faults = 0

-----------------------------------------------------------------------------
(* What the server and Home Assistant call *)

\* Mutant: a full queue gives up the frame that just arrived.
EnqueueDropsNewest ==
  /\ handed < MaxFrames
  /\ handed' = handed + 1
  /\ IF Len(queue) < Capacity
     THEN queue' = Append(queue, handed') /\ UNCHANGED overflow
     ELSE overflow' = overflow \cup {handed'} /\ UNCHANGED queue
  /\ UNCHANGED <<pending, pc, conn, wire, received, lost, faults>>

\* enqueue: never waits; a full queue loses its oldest frame.
Enqueue ==
  /\ handed < MaxFrames
  /\ handed' = handed + 1
  /\ IF Len(queue) < Capacity
     THEN queue' = Append(queue, handed') /\ UNCHANGED overflow
     ELSE /\ queue' = Append(Tail(queue), handed')
          /\ overflow' = overflow \cup {Head(queue)}
  /\ UNCHANGED <<pending, pc, conn, wire, received, lost, faults>>

\* start: a task that waits for the first frame and opens no connection.
Start ==
  /\ pc = "stopped"
  /\ pc' = "get"
  /\ UNCHANGED <<queue, pending, conn, handed, wire, received, overflow,
                 lost, faults>>

\* stop, up to its awaits: the worker is cancelled wherever it is suspended,
\* and the frame it held is gone with its local variable.
Stop ==
  /\ pc \notin {"stopped", "stopping"}
  /\ pc' = "stopping"
  /\ pending' = NoFrame
  /\ lost' = lost \cup ({pending} \ {NoFrame})
  /\ UNCHANGED <<queue, conn, handed, wire, received, overflow, faults>>

\* Mutant: stop ends the task and leaves the connection.
StoppedLeavesWriter ==
  /\ pc = "stopping"
  /\ pc' = "stopped"
  /\ UNCHANGED <<queue, pending, conn, handed, wire, received, overflow, lost,
                 faults>>

\* stop, the rest: _close_writer.
Stopped ==
  /\ pc = "stopping"
  /\ pc' = "stopped"
  /\ conn' = "none"
  /\ UNCHANGED <<queue, pending, handed, wire, received, overflow, lost,
                 faults>>

-----------------------------------------------------------------------------
(* The worker *)

\* self._writer.write(f), and into drain().
Write(f) ==
  /\ pc' = "drain"
  /\ IF conn' = "live"
     THEN wire' = Append(wire, f) /\ UNCHANGED lost
     ELSE lost' = lost \cup {f} /\ UNCHANGED wire

\* From the top of the loop with a frame in hand to the next await.  Whether
\* the reconnect interval has passed is the clock's choice.
Proceed(f) ==
  \/ /\ conn = "none"
     /\ pc' = "connect"
     /\ UNCHANGED <<conn, wire, lost>>
  \/ /\ conn # "none"
     /\ pc' = "renew"
     /\ UNCHANGED <<conn, wire, lost>>
  \/ /\ conn # "none"
     /\ conn' = conn
     /\ Write(f)

TakeFrame ==
  /\ pc = "get" /\ queue # <<>>
  /\ pending' = Head(queue)
  /\ queue' = Tail(queue)
  /\ Proceed(Head(queue))
  /\ UNCHANGED <<handed, received, overflow, faults>>

\* Mutant: a frame that failed goes behind the ones that are waiting.
RetryRequeues ==
  /\ pc = "sleep"
  /\ LET line == Append(queue, pending) IN
       /\ pending' = Head(line)
       /\ queue' = Tail(line)
       /\ Proceed(Head(line))
  /\ UNCHANGED <<handed, received, overflow, faults>>

\* The backoff is over: round the loop again with the frame still pending.
Retry ==
  /\ pc = "sleep"
  /\ Proceed(pending)
  /\ UNCHANGED <<queue, pending, handed, received, overflow, faults>>

Renewed ==
  /\ pc = "renew"
  /\ conn' = "none"
  /\ pc' = "connect"
  /\ UNCHANGED <<queue, pending, handed, wire, received, overflow, lost,
                 faults>>

Connected ==
  /\ pc = "connect"
  /\ conn' = "live"
  /\ Write(pending)
  /\ UNCHANGED <<queue, pending, handed, received, overflow, faults>>

\* Mutant: the frame is gone when the connect fails.
ConnectFailedDrops ==
  /\ pc = "connect"
  /\ faults < MaxFaults
  /\ faults' = faults + 1
  /\ pc' = "get"
  /\ pending' = NoFrame
  /\ UNCHANGED <<queue, conn, handed, wire, received, overflow, lost>>

ConnectFailed ==
  /\ pc = "connect"
  /\ faults < MaxFaults
  /\ faults' = faults + 1
  /\ pc' = "sleep"
  /\ UNCHANGED <<queue, pending, conn, handed, wire, received, overflow,
                 lost>>

\* The kernel took the bytes, on a live connection or on one whose end the
\* mirror has not noticed.
Drained ==
  /\ pc = "drain"
  /\ pending' = NoFrame
  /\ pc' = "get"
  /\ UNCHANGED <<queue, conn, handed, wire, received, overflow, lost,
                 faults>>

DrainFailed ==
  /\ pc = "drain" /\ conn = "broken"
  /\ pc' = "discard"
  /\ UNCHANGED <<queue, pending, conn, handed, wire, received, overflow,
                 lost, faults>>

\* The last resort of the loop, for what is no OSError: a short pause, with the
\* frame and the writer kept.  A connect that fails like this is a ConnectFailed.
DrainRaises ==
  /\ pc = "drain" /\ conn = "broken"
  /\ faults < MaxFaults
  /\ faults' = faults + 1
  /\ pc' = "sleep"
  /\ UNCHANGED <<queue, pending, conn, handed, wire, received, overflow, lost>>

\* Mutant: the broken writer is kept and written to again.
DiscardedKeepsWriter ==
  /\ pc = "discard"
  /\ pc' = "sleep"
  /\ UNCHANGED <<queue, pending, conn, handed, wire, received, overflow, lost,
                 faults>>

Discarded ==
  /\ pc = "discard"
  /\ conn' = "none"
  /\ pc' = "sleep"
  /\ UNCHANGED <<queue, pending, handed, wire, received, overflow, lost,
                 faults>>

-----------------------------------------------------------------------------
(* The network and the cloud *)

CloudReads ==
  /\ wire # <<>>
  /\ received' = Append(received, Head(wire))
  /\ wire' = Tail(wire)
  /\ UNCHANGED <<queue, pending, pc, conn, handed, overflow, lost, faults>>

Break ==
  /\ conn = "live" \/ wire # <<>>
  /\ faults < MaxFaults
  /\ faults' = faults + 1
  /\ conn' = IF conn = "live" THEN "broken" ELSE conn
  /\ lost' = lost \cup Range(wire)
  /\ wire' = <<>>
  /\ UNCHANGED <<queue, pending, pc, handed, received, overflow>>

Worker == \/ TakeFrame \/ Retry \/ Renewed \/ Connected \/ ConnectFailed
          \/ Drained \/ DrainFailed \/ DrainRaises \/ Discarded

Next == Enqueue \/ Start \/ Stop \/ Stopped \/ Worker \/ CloudReads \/ Break

Spec == Init /\ [][Next]_vars

\* The event loop runs a task whose await is over; stop() is one of them.
\* Connects do not fail for ever: MaxFaults bounds the failures.
FairSpec == Spec /\ WF_vars(Worker) /\ WF_vars(Stopped) /\ WF_vars(CloudReads)

-----------------------------------------------------------------------------
(* Properties *)

\* forwarder.py:78-79, "so the cloud receives them in the order the unit sent
\* them": the mirror is an ordered relay, across retries, forced reconnects,
\* overflow and stops.
Relay == INSTANCE OrderedRelay
InOrder == Relay!RelaySpec

\* No frame disappears without a cause: it is waiting, on its way, read by the
\* cloud, dropped by the full queue, or was lost with a connection or a stop.
NothingVanishes ==
  \A f \in 1..handed :
     \/ f \in Range(queue) \cup Range(wire) \cup Range(received)
     \/ f = pending
     \/ f \in overflow \cup lost

\* Dropping starts at the oldest: whatever is queued is newer than every frame
\* the full queue gave up, and nothing in the queue was already sent.
QueueIsTheNewest ==
  \A i \in DOMAIN queue :
     /\ \A f \in overflow : f < queue[i]
     /\ \A f \in Range(wire) \cup Range(received) : f < queue[i]
     /\ queue[i] = handed - (Len(queue) - i)

\* A stopped mirror holds no connection and no frame in its hand, wherever the
\* cancellation caught the worker.
StoppedIsClosed == pc = "stopped" => conn = "none" /\ pending = NoFrame

\* A frame in the queue does not stay there: it is taken (or overtaken by the
\* overflow) unless the mirror is stopped.
BacklogDrains ==
  \A f \in Frames :
     f \in Range(queue) ~> \/ f \notin Range(queue)
                               \/ pc \in {"stopping", "stopped"}
=============================================================================
