------------------------- MODULE DeviceServerProofs -------------------------
(***************************************************************************)
(* Proofs about DeviceServer, for any number of units, server objects and   *)
(* sockets: whatever way the set-up and unload of the entry and the flows   *)
(* cut into each other and into the network, what a call works on is there  *)
(* (ServerInv); and of calls that come one after the other, that a loaded   *)
(* entry has its server and an unloaded one leaves nothing behind           *)
(* (SerialInv).                                                             *)
(***************************************************************************)
EXTENDS DeviceServer, WellFoundedInduction, TLAPS

-----------------------------------------------------------------------------
\* A set of numbers that is not empty has a first one.
LEMMA FirstIsOne ==
  ASSUME NEW S \in SUBSET Nat, S # {}
  PROVE  First(S) \in S
<1> DEFINE R == OpToRel(<, Nat)
<1>1. IsWellFoundedOn(R, Nat)
  BY NatLessThanWellFounded
<1>2. \A x, y \in Nat : <<y, x>> \in R <=> y < x
  BY DEF OpToRel
<1> HIDE DEF R
<1>3. PICK x \in S : \A y \in S : ~(<<y, x>> \in R)
  BY <1>1, WFMin
<1>4. \A y \in S : ~(y < x)
  BY <1>2, <1>3
<1>5. \A y \in S : x <= y
  BY <1>4
<1>. QED  BY <1>5 DEF First

-----------------------------------------------------------------------------
(* What holds in every state *)

Places == {"idle", "create", "bind", "assign", "made", "remove", "close", "wait", "forget"}
Jobs == {"none", "setup", "unload", "test", "submit"}
SocketStates == [state : {"unused", "open", "closed"}, of : Instances \cup {None}]

Typed ==
  /\ registry \in Instances \cup {None}
  /\ server \in [Instances -> Sockets \cup {None}]
  /\ owner \in [Instances -> Callers \cup {None}]
  /\ clients \in [Instances -> SUBSET Units]
  /\ socket \in [Sockets -> SocketStates]
  /\ conn \in [Units -> Sockets \cup {None}] /\ handled \subseteq Units
  /\ pc \in [Callers -> Places] /\ job \in [Callers -> Jobs]
  /\ obj \in [Callers -> Instances \cup {None}]
  /\ mine \in [Callers -> Sockets \cup {None}]
  /\ left \in [Callers -> SUBSET Units]
  /\ loop \in Callers \cup {None}
  /\ foreign \in BOOLEAN /\ loaded \in BOOLEAN /\ reload \in BOOLEAN
  /\ overlap \in BOOLEAN /\ late \in BOOLEAN

\* Where the caller with the loop stands, and where one without it may.
LoopKept ==
  /\ loop # None => pc[loop] \notin {"idle", "bind", "assign"}
  /\ \A p \in Callers : pc[p] \in {"create", "made", "remove", "forget"} => loop = p
  /\ \A p \in Callers : left[p] # {} => pc[p] = "close"

\* What a call is about has been made.
WorksOnMade ==
  /\ \A p \in Callers : pc[p] = "create" => Unmade # {}
  /\ \A p \in Callers : pc[p] \in {"bind", "assign", "close", "wait", "forget"} =>
       obj[p] # None /\ owner[obj[p]] # None
  /\ \A p \in Callers : pc[p] \in {"assign", "wait"} => mine[p] # None
  /\ \A i \in Instances : owner[i] = None => server[i] = None /\ clients[i] = {}
  /\ registry # None => owner[registry] # None

Connections ==
  /\ \A k \in Sockets : socket[k].state # "unused" =>
       socket[k].of # None /\ owner[socket[k].of] # None
  /\ \A u \in Units : conn[u] # None => socket[conn[u]].state # "unused"
  /\ \A i \in Instances : server[i] # None => socket[server[i]].state # "unused"
  /\ \A p \in Callers : pc[p] = "assign" => socket[mine[p]].state # "unused"
  /\ \A i \in Instances : clients[i] \subseteq handled
  /\ \A u \in handled : conn[u] # None
  /\ \A j, k \in Sockets : Open(j) /\ Open(k) => j = k

ServerInv == Typed /\ LoopKept /\ WorksOnMade /\ Connections

LEMMA NoneIsNothing ==
  /\ None \notin Instances /\ None \notin Sockets /\ None \notin Callers
  /\ Instances \subseteq Nat /\ Sockets \subseteq Nat
BY NoneAssumption, BoundsAssumption DEF NoneAssumption, BoundsAssumption, Instances, Sockets

LEMMA ServerInit == Init => ServerInv
<1> SUFFICES ASSUME Init PROVE ServerInv
  OBVIOUS
<1>1. Typed
  BY DEF Init, Typed, Places, Jobs, SocketStates
<1>2. LoopKept /\ WorksOnMade /\ Connections
  BY DEF Init, LoopKept, WorksOnMade, Connections, Open
<1>. QED  BY <1>1, <1>2 DEF ServerInv

LEMMA ServerStep == ServerInv /\ [Next]_vars => ServerInv'
<1> SUFFICES ASSUME ServerInv, [Next]_vars PROVE ServerInv'
  OBVIOUS
<1> USE NoneIsNothing DEF ServerInv, Goto, Idle, HasLoop, MayRun, registries, network, call, entry, history
<1>1. CASE SetUp
  <2>1. Typed'
    BY <1>1 DEF SetUp, Begin, Typed, Places, Jobs, SocketStates, Callers
  <2>2. LoopKept'
    BY <1>1 DEF SetUp, Begin, Typed, LoopKept, Callers
  <2>3. WorksOnMade'
    BY <1>1 DEF SetUp, Begin, Typed, LoopKept, WorksOnMade, Unmade
  <2>4. Connections'
    BY <1>1 DEF SetUp, Begin, Typed, WorksOnMade, Connections, Open, SocketStates
  <2>. QED  BY <2>1, <2>2, <2>3, <2>4
<1>2. CASE Unload
  <2>1. Typed'
    BY <1>2 DEF Unload, Begin, Typed, Places, Jobs, SocketStates, Callers
  <2>2. LoopKept'
    BY <1>2 DEF Unload, Begin, Typed, LoopKept, Callers
  <2>3. WorksOnMade'
    BY <1>2 DEF Unload, Begin, Typed, LoopKept, WorksOnMade, Unmade
  <2>4. Connections'
    BY <1>2 DEF Unload, Begin, Typed, WorksOnMade, Connections, Open, SocketStates
  <2>. QED  BY <2>1, <2>2, <2>3, <2>4
<1>3. CASE Test
  <2>1. Typed'
    BY <1>3 DEF Test, Begin, Typed, Places, Jobs, SocketStates, Callers
  <2>2. LoopKept'
    BY <1>3 DEF Test, Begin, Typed, LoopKept, Callers
  <2>3. WorksOnMade'
    BY <1>3 DEF Test, Begin, Typed, LoopKept, WorksOnMade, Unmade
  <2>4. Connections'
    BY <1>3 DEF Test, Begin, Typed, WorksOnMade, Connections, Open, SocketStates
  <2>. QED  BY <2>1, <2>2, <2>3, <2>4
<1>4. CASE Submit
  <2>1. Typed'
    BY <1>4 DEF Submit, Begin, Typed, Places, Jobs, SocketStates, Callers
  <2>2. LoopKept'
    BY <1>4 DEF Submit, Begin, Typed, LoopKept, Callers
  <2>3. WorksOnMade'
    BY <1>4 DEF Submit, Begin, Typed, LoopKept, WorksOnMade, Unmade
  <2>4. Connections'
    BY <1>4 DEF Submit, Begin, Typed, WorksOnMade, Connections, Open, SocketStates
  <2>. QED  BY <2>1, <2>2, <2>3, <2>4
<1>5. ASSUME NEW p \in Callers, Create(p) PROVE ServerInv'
  <2>1. CASE registry = None
    <3> DEFINE i == First(Unmade)
    <3>1. i \in Instances /\ owner[i] = None
      <4>1. Unmade \in SUBSET Nat /\ Unmade # {}
        BY <1>5 DEF Create, Typed, WorksOnMade, Unmade
      <4>2. First(Unmade) \in Unmade
        BY <4>1, FirstIsOne
      <4>. QED  BY <4>2 DEF Unmade
    <3>2. /\ registry' = i /\ owner' = [owner EXCEPT ![i] = p]
          /\ obj' = [obj EXCEPT ![p] = i] /\ pc' = [pc EXCEPT ![p] = "bind"] /\ loop' = None
          /\ loop = p /\ pc[p] = "create"
          /\ UNCHANGED <<server, clients, socket, foreign, conn, handled, job, mine, left,
                         loaded, reload, overlap, late>>
      BY <1>5, <2>1 DEF Create
    <3> HIDE DEF i
    <3>3. Typed'
      BY <3>1, <3>2 DEF Typed, Places
    <3>4. LoopKept'
      BY <3>2 DEF Typed, LoopKept
    <3>5. WorksOnMade'
      <4>1. \A q \in Callers : pc[q] # "create" \/ q = p
        BY <3>2 DEF LoopKept, Typed
      <4>2. \A j \in Instances : owner[j] # None => owner'[j] # None
        BY <3>2 DEF Typed
      <4>3. owner'[i] = p /\ obj'[p] = i
        BY <3>1, <3>2 DEF Typed
      <4>. QED  BY <3>1, <3>2, <4>1, <4>2, <4>3 DEF Typed, WorksOnMade
    <3>6. Connections'
      <4>1. \A j \in Instances : owner[j] # None => owner'[j] # None
        BY <3>2 DEF Typed
      <4>. QED  BY <3>2, <4>1 DEF Typed, Connections, Open, SocketStates
    <3>. QED  BY <3>3, <3>4, <3>5, <3>6
  <2>2. CASE registry # None
    <3>1. /\ registry \in Instances
          /\ owner' = [owner EXCEPT ![registry] = IF job[p] = "setup" THEN p ELSE owner[registry]]
          /\ obj' = [obj EXCEPT ![p] = registry] /\ loop = p /\ pc[p] = "create"
          /\ \/ pc' = [pc EXCEPT ![p] = "made"] /\ loop' = p
             \/ pc' = [pc EXCEPT ![p] = "bind"] /\ loop' = None
          /\ UNCHANGED <<registry, server, clients, socket, foreign, conn, handled, job, mine,
                         left, loaded, reload, overlap, late>>
      BY <1>5, <2>2 DEF Create, Typed
    <3>2. owner[registry] # None
      BY <2>2 DEF WorksOnMade
    <3>3. Typed'
      BY <3>1 DEF Typed, Places
    <3>4. LoopKept'
      BY <3>1 DEF Typed, LoopKept
    <3>5. \A j \in Instances : owner[j] # None <=> owner'[j] # None
      BY <3>1, <3>2 DEF Typed
    <3>6. WorksOnMade'
      <4>1. \A q \in Callers : pc[q] # "create" \/ q = p
        BY <3>1 DEF LoopKept, Typed
      <4>2. obj'[p] = registry /\ owner'[registry] # None /\ pc'[p] # "create"
        BY <3>1, <3>2, <3>5 DEF Typed
      <4>3. \A q \in Callers \ {p} : obj'[q] = obj[q] /\ pc'[q] = pc[q]
        BY <3>1 DEF Typed
      <4>4. pc'[p] \notin {"assign", "wait"}
        BY <3>1 DEF Typed
      <4>. QED  BY <2>2, <3>1, <3>5, <4>1, <4>2, <4>3, <4>4 DEF Typed, WorksOnMade
    <3>7. Connections'
      BY <3>1, <3>5 DEF Typed, Connections, Open, SocketStates
    <3>. QED  BY <3>3, <3>4, <3>6, <3>7
  <2>. QED  BY <2>1, <2>2
<1>6. ASSUME NEW p \in Callers, Bind(p) PROVE ServerInv'
  <2>1. CASE foreign \/ \E k \in Sockets : Open(k)
    <3>1. /\ pc[p] = "bind" /\ pc' = [pc EXCEPT ![p] = "remove"] /\ loop' = p
          /\ loop \in {None, p}
          /\ UNCHANGED <<registry, server, owner, clients, socket, foreign, conn, handled, job,
                         obj, mine, left, loaded, reload, overlap, late>>
      BY <1>6, <2>1 DEF Bind
    <3>2. Typed' /\ LoopKept' /\ WorksOnMade'
      BY <3>1 DEF Typed, Places, LoopKept, WorksOnMade, Unmade
    <3>3. Connections'
      BY <3>1 DEF Connections, Open
    <3>. QED  BY <3>2, <3>3
  <2>2. CASE ~(foreign \/ \E k \in Sockets : Open(k))
    <3> DEFINE k == First(Free(socket))
    <3>1. k \in Sockets /\ socket[k].state = "unused"
      <4>1. Free(socket) \in SUBSET Nat /\ Free(socket) # {}
        BY <1>6 DEF Bind, Free, Typed
      <4>2. First(Free(socket)) \in Free(socket)
        BY <4>1, FirstIsOne
      <4>. QED  BY <4>2 DEF Free, Typed
    <3>2. /\ pc[p] = "bind" /\ pc' = [pc EXCEPT ![p] = "assign"] /\ loop' = None
          /\ loop \in {None, p}
          /\ socket' = [socket EXCEPT ![k] = [state |-> "open", of |-> obj[p]]]
          /\ mine' = [mine EXCEPT ![p] = k]
          /\ UNCHANGED <<registry, server, owner, clients, foreign, conn, handled, job,
                         obj, left, loaded, reload, overlap, late>>
      BY <1>6, <2>2 DEF Bind
    <3> HIDE DEF k
    <3>3. obj[p] \in Instances /\ owner[obj[p]] # None
      BY <3>2 DEF WorksOnMade, Typed
    <3>4. Typed'
      BY <3>1, <3>2, <3>3 DEF Typed, Places, SocketStates
    <3>5. LoopKept'
      BY <3>2 DEF Typed, LoopKept
    <3>6. WorksOnMade'
      <4>1. /\ mine'[p] = k /\ pc'[p] = "assign"
            /\ \A q \in Callers \ {p} : mine'[q] = mine[q] /\ pc'[q] = pc[q]
        BY <3>2 DEF Typed
      <4>. QED  BY <3>1, <3>2, <3>3, <4>1 DEF WorksOnMade, Unmade
    <3>7. Connections'
      <4>1. socket'[k] = [state |-> "open", of |-> obj[p]]
        BY <3>1, <3>2 DEF Typed
      <4>2. \A j \in Sockets \ {k} : socket'[j] = socket[j]
        BY <3>2 DEF Typed
      <4>3. \A j \in Sockets : socket[j].state # "open"
        BY <2>2 DEF Open
      <4>4. /\ \A u \in Units : conn'[u] # None => socket'[conn'[u]].state # "unused"
            /\ \A i \in Instances : server'[i] # None => socket'[server'[i]].state # "unused"
        BY <3>1, <3>2, <4>1, <4>2 DEF Typed, Connections
      <4>7. \A q \in Callers : pc'[q] = "assign" => socket'[mine'[q]].state # "unused"
        <5>1. mine'[p] = k
          BY <3>2 DEF Typed
        <5>2. \A q \in Callers \ {p} : pc'[q] = pc[q] /\ mine'[q] = mine[q]
          BY <3>2 DEF Typed
        <5>3. ASSUME NEW q \in Callers \ {p}, pc'[q] = "assign"
              PROVE  socket'[mine'[q]].state # "unused"
          <6>1. mine'[q] = mine[q] /\ mine[q] \in Sockets /\ socket[mine[q]].state # "unused"
            BY <5>2, <5>3 DEF Typed, Connections, WorksOnMade
          <6>. QED  BY <3>1, <4>2, <6>1
        <5>. QED  BY <4>1, <5>1, <5>3
      <4>5. \A j \in Sockets : socket'[j].state # "unused" =>
              socket'[j].of # None /\ owner'[socket'[j].of] # None
        BY <3>2, <3>3, <4>1, <4>2 DEF Connections
      <4>6. \A i, j \in Sockets : socket'[i].state = "open" /\ socket'[j].state = "open" => i = j
        BY <4>1, <4>2, <4>3
      <4>. QED  BY <3>2, <4>4, <4>5, <4>6, <4>7 DEF Connections, Open
    <3>. QED  BY <3>4, <3>5, <3>6, <3>7
  <2>. QED  BY <2>1, <2>2
<1>7. ASSUME NEW p \in Callers, Assign(p) PROVE ServerInv'
  <2>1. Typed'
    BY <1>7 DEF Assign, Typed, Places, Jobs, SocketStates, Callers
  <2>2. LoopKept'
    BY <1>7 DEF Assign, Typed, LoopKept, Callers
  <2>3. WorksOnMade'
    BY <1>7 DEF Assign, Typed, LoopKept, WorksOnMade, Unmade
  <2>4. Connections'
    BY <1>7 DEF Assign, Typed, WorksOnMade, Connections, Open, SocketStates
  <2>. QED  BY <2>1, <2>2, <2>3, <2>4
<1>8. ASSUME NEW p \in Callers, Made(p) PROVE ServerInv'
  <2>1. /\ loop = p /\ pc[p] = "made"
        /\ \/ pc' = [pc EXCEPT ![p] = "remove"] /\ loop' = p
           \/ pc' = [pc EXCEPT ![p] = "idle"] /\ loop' = None
        /\ UNCHANGED <<registry, server, owner, clients, socket, foreign, conn, handled, job,
                       obj, mine, left, reload, overlap, late>>
    BY <1>8 DEF Made
  <2>2. loaded' \in BOOLEAN
    BY <1>8 DEF Made, Typed
  <2>3. Typed'
    BY <2>1, <2>2 DEF Typed, Places
  <2>4. LoopKept' /\ WorksOnMade'
    BY <2>1 DEF Typed, LoopKept, WorksOnMade, Unmade
  <2>5. Connections'
    BY <2>1 DEF Connections, Open, Typed
  <2>. QED  BY <2>3, <2>4, <2>5
<1>9. ASSUME NEW p \in Callers, Remove(p) PROVE ServerInv'
  <2>1. /\ loop = p /\ pc[p] = "remove"
        /\ UNCHANGED <<registry, server, owner, clients, socket, foreign, conn, handled, job,
                       mine, reload, overlap, late>>
    BY <1>9 DEF Remove
  <2>2. loaded' \in BOOLEAN
    BY <1>9 DEF Remove, End, Typed
  <2>3. Connections'
    <3>1. \A q \in Callers : pc'[q] = "assign" => pc[q] = "assign"
      BY <1>9 DEF Remove, End, Typed
    <3>. QED  BY <2>1, <3>1 DEF Connections, Open
  <2>4. CASE registry = None
    <3>1. pc' = [pc EXCEPT ![p] = "idle"] /\ loop' = None /\ UNCHANGED <<obj, left>>
      BY <1>9, <2>4 DEF Remove, End
    <3>2. Typed'
      BY <2>1, <2>2, <3>1 DEF Typed, Places
    <3>3. LoopKept' /\ WorksOnMade'
      BY <2>1, <3>1 DEF Typed, LoopKept, WorksOnMade, Unmade
    <3>. QED  BY <2>3, <3>2, <3>3
  <2>5. CASE registry # None
    <3>1. /\ obj' = [obj EXCEPT ![p] = registry] /\ loop' = p
          /\ left' = [left EXCEPT ![p] = IF server[registry] = None THEN {} ELSE clients[registry]]
          /\ pc' = [pc EXCEPT ![p] = IF server[registry] = None THEN "forget" ELSE "close"]
      BY <1>9, <2>5 DEF Remove
    <3>2. registry \in Instances /\ owner[registry] # None
      BY <2>5 DEF Typed, WorksOnMade
    <3>3. Typed'
      BY <2>1, <2>2, <3>1, <3>2 DEF Typed, Places
    <3>4. LoopKept'
      BY <2>1, <3>1 DEF Typed, LoopKept
    <3>5. WorksOnMade'
      <4>1. /\ obj'[p] = registry /\ pc'[p] \in {"forget", "close"}
            /\ \A q \in Callers \ {p} : obj'[q] = obj[q] /\ pc'[q] = pc[q]
        BY <3>1 DEF Typed
      <4>. QED  BY <2>1, <3>2, <4>1 DEF WorksOnMade, Unmade
    <3>. QED  BY <2>3, <3>3, <3>4, <3>5
  <2>. QED  BY <2>4, <2>5
<1>10. ASSUME NEW p \in Callers, CloseClient(p) PROVE ServerInv'
  <2>1. Typed'
    BY <1>10 DEF CloseClient, Typed, Places, Jobs, SocketStates, Callers
  <2>2. LoopKept'
    BY <1>10 DEF CloseClient, Typed, LoopKept, Callers
  <2>3. WorksOnMade'
    BY <1>10 DEF CloseClient, Typed, LoopKept, WorksOnMade, Unmade
  <2>4. Connections'
    BY <1>10 DEF CloseClient, Typed, WorksOnMade, Connections, Open, SocketStates
  <2>. QED  BY <2>1, <2>2, <2>3, <2>4
<1>11. ASSUME NEW p \in Callers, CloseServer(p) PROVE ServerInv'
  <2> DEFINE k == server[obj[p]]
  <2>1. /\ pc[p] = "close" /\ left[p] = {} /\ loop \in {None, p}
        /\ clients' = [clients EXCEPT ![obj[p]] = {}]
        /\ UNCHANGED <<registry, server, owner, foreign, conn, handled, job, obj, left, reload,
                       overlap, late>>
    BY <1>11 DEF CloseServer
  <2>2. obj[p] \in Instances
    BY <2>1 DEF WorksOnMade, Typed
  <2>3. \A i \in Instances : clients'[i] \subseteq clients[i]
    BY <2>1 DEF Typed
  <2>4. CASE k = None
    <3>1. pc' = [pc EXCEPT ![p] = "idle"] /\ loop' = None /\ UNCHANGED <<socket, mine, loaded>>
      BY <1>11, <2>4 DEF CloseServer, Raise
    <3>2. Typed'
      BY <2>1, <3>1 DEF Typed, Places
    <3>3. LoopKept' /\ WorksOnMade'
      BY <2>1, <2>3, <3>1 DEF Typed, LoopKept, WorksOnMade, Unmade
    <3>4. Connections'
      BY <2>1, <2>3, <3>1 DEF Connections, Open
    <3>. QED  BY <3>2, <3>3, <3>4
  <2>5. CASE k # None
    <3>1. /\ socket' = [socket EXCEPT ![k].state = "closed"] /\ mine' = [mine EXCEPT ![p] = k]
          /\ pc' = [pc EXCEPT ![p] = "wait"] /\ loop' \in {None, p} /\ loaded' = loaded
      BY <1>11, <2>5 DEF CloseServer
    <3>2. k \in Sockets
      BY <2>2, <2>5 DEF Typed
    <3> HIDE DEF k
    <3>3. socket \in [Sockets -> SocketStates]
      BY DEF Typed
    <3>4. /\ socket' \in [Sockets -> SocketStates]
          /\ socket'[k].of = socket[k].of /\ socket'[k].state = "closed"
          /\ \A j \in Sockets \ {k} : socket'[j] = socket[j]
      BY <3>1, <3>2, <3>3 DEF SocketStates
    <3>5. Typed'
      BY <2>1, <3>1, <3>2, <3>4 DEF Typed, Places
    <3>6. LoopKept'
      BY <2>1, <3>1 DEF Typed, LoopKept
    <3>7. WorksOnMade'
      <4>1. /\ mine'[p] = k /\ pc'[p] = "wait"
            /\ \A q \in Callers \ {p} : mine'[q] = mine[q] /\ pc'[q] = pc[q]
        BY <3>1 DEF Typed
      <4>. QED  BY <2>1, <2>3, <3>2, <4>1 DEF WorksOnMade, Unmade
    <3>8. Connections'
      <4>1. owner[socket[k].of] # None /\ socket[k].of # None
        <5>1. socket[k].state # "unused"
          BY <2>2, <2>5 DEF Connections, k
        <5>. QED  BY <3>2, <5>1 DEF Connections
      <4>2. \A j \in Sockets : socket'[j].state = "open" => socket[j].state = "open"
        BY <3>4
      <4>3. \A j \in Sockets : socket[j].state # "unused" => socket'[j].state # "unused"
        BY <3>4
      <4>4. \A j \in Sockets : socket'[j].state # "unused" =>
              socket'[j].of # None /\ owner'[socket'[j].of] # None
        BY <2>1, <3>4, <4>1 DEF Connections
      <4>5. \A q \in Callers : pc'[q] = "assign" => pc[q] = "assign" /\ mine'[q] = mine[q]
        BY <3>1 DEF Typed
      <4>6. \A q \in Callers : pc'[q] = "assign" => socket'[mine'[q]].state # "unused"
        <5> SUFFICES ASSUME NEW q \in Callers, pc'[q] = "assign"
                     PROVE  socket'[mine'[q]].state # "unused"
          OBVIOUS
        <5>1. mine'[q] = mine[q] /\ mine[q] \in Sockets /\ socket[mine[q]].state # "unused"
          BY <4>5 DEF Typed, Connections, WorksOnMade
        <5>. QED  BY <4>3, <5>1
      <4>7. \A u \in Units : conn'[u] # None => socket'[conn'[u]].state # "unused"
        BY <2>1, <4>3 DEF Connections, Typed
      <4>8. \A i \in Instances : server'[i] # None => socket'[server'[i]].state # "unused"
        BY <2>1, <4>3 DEF Connections, Typed
      <4>9. /\ \A i \in Instances : clients'[i] \subseteq handled'
            /\ \A u \in handled' : conn'[u] # None
        BY <2>1, <2>3 DEF Connections
      <4>10. \A i, j \in Sockets : socket'[i].state = "open" /\ socket'[j].state = "open" => i = j
        BY <4>2 DEF Connections, Open
      <4>. QED  BY <4>4, <4>6, <4>7, <4>8, <4>9, <4>10 DEF Connections, Open
    <3>. QED  BY <3>5, <3>6, <3>7, <3>8
  <2>. QED  BY <2>4, <2>5
<1>12. ASSUME NEW p \in Callers, Closed(p) PROVE ServerInv'
  <2>1. Typed'
    BY <1>12 DEF Closed, Typed, Places, Jobs, SocketStates, Callers
  <2>2. LoopKept'
    BY <1>12 DEF Closed, Typed, LoopKept, Callers
  <2>3. WorksOnMade'
    BY <1>12 DEF Closed, Typed, LoopKept, WorksOnMade, Unmade
  <2>4. Connections'
    BY <1>12 DEF Closed, Typed, WorksOnMade, Connections, Open, SocketStates
  <2>. QED  BY <2>1, <2>2, <2>3, <2>4
<1>13. ASSUME NEW p \in Callers, Forget(p) PROVE ServerInv'
  <2>1. /\ loop = p /\ pc[p] = "forget" /\ registry' = None
        /\ pc' = [pc EXCEPT ![p] = "idle"] /\ loop' = None
        /\ UNCHANGED <<server, owner, clients, socket, foreign, conn, handled, job, obj,
                       mine, left, reload, overlap, late>>
    BY <1>13 DEF Forget, End, Raise
  <2>2. loaded' \in BOOLEAN
    BY <1>13 DEF Forget, End, Raise, Typed
  <2>3. Typed'
    BY <2>1, <2>2 DEF Typed, Places
  <2>4. LoopKept' /\ WorksOnMade'
    BY <2>1 DEF Typed, LoopKept, WorksOnMade, Unmade
  <2>5. Connections'
    BY <2>1 DEF Connections, Open
  <2>. QED  BY <2>3, <2>4, <2>5
<1>14. ASSUME NEW u \in Units, Connect(u) PROVE ServerInv'
  <2>1. Typed'
    BY <1>14 DEF Connect, Typed, Places, Jobs, SocketStates, Callers
  <2>2. LoopKept'
    BY <1>14 DEF Connect, Typed, LoopKept, Callers
  <2>3. WorksOnMade'
    BY <1>14 DEF Connect, Typed, LoopKept, WorksOnMade, Unmade
  <2>4. Connections'
    BY <1>14 DEF Connect, Typed, WorksOnMade, Connections, Open, SocketStates
  <2>. QED  BY <2>1, <2>2, <2>3, <2>4
<1>15. ASSUME NEW u \in Units, Handle(u) PROVE ServerInv'
  <2>1. Typed'
    BY <1>15 DEF Handle, Typed, Places, Jobs, SocketStates, Callers
  <2>2. LoopKept'
    BY <1>15 DEF Handle, Typed, LoopKept, Callers
  <2>3. WorksOnMade'
    <3>1. /\ \A i \in Instances : clients'[i] # {} =>
                clients[i] # {} \/ i = socket[conn[u]].of
          /\ UNCHANGED <<registry, server, owner, pc, obj, mine>>
      BY <1>15 DEF Handle, Typed
    <3>2. socket[conn[u]].of # None /\ owner[socket[conn[u]].of] # None
      BY <1>15 DEF Handle, Typed, Connections
    <3>. QED  BY <3>1, <3>2 DEF WorksOnMade, Unmade, Typed
  <2>4. Connections'
    BY <1>15 DEF Handle, Typed, WorksOnMade, Connections, Open, SocketStates
  <2>. QED  BY <2>1, <2>2, <2>3, <2>4
<1>16. ASSUME NEW u \in Units, HangUp(u) PROVE ServerInv'
  <2>1. Typed'
    BY <1>16 DEF HangUp, Typed, Places, Jobs, SocketStates, Callers
  <2>2. LoopKept'
    BY <1>16 DEF HangUp, Typed, LoopKept, Callers
  <2>3. WorksOnMade'
    BY <1>16 DEF HangUp, Typed, LoopKept, WorksOnMade, Unmade
  <2>4. Connections'
    BY <1>16 DEF HangUp, Typed, WorksOnMade, Connections, Open, SocketStates
  <2>. QED  BY <2>1, <2>2, <2>3, <2>4
<1>17. CASE ForeignEnds
  <2>1. Typed'
    BY <1>17 DEF ForeignEnds, Typed, Places, Jobs, SocketStates, Callers
  <2>2. LoopKept'
    BY <1>17 DEF ForeignEnds, Typed, LoopKept, Callers
  <2>3. WorksOnMade'
    BY <1>17 DEF ForeignEnds, Typed, LoopKept, WorksOnMade, Unmade
  <2>4. Connections'
    BY <1>17 DEF ForeignEnds, Typed, WorksOnMade, Connections, Open, SocketStates
  <2>. QED  BY <2>1, <2>2, <2>3, <2>4
<1>18. CASE UNCHANGED vars
  BY <1>18 DEF vars, Typed, LoopKept, WorksOnMade, Connections, Open, Unmade
<1>. QED  BY <1>1, <1>2, <1>3, <1>4, <1>5, <1>6, <1>7, <1>8, <1>9, <1>10, <1>11, <1>12, <1>13, <1>14, <1>15, <1>16, <1>17, <1>18 DEF Next, Step

-----------------------------------------------------------------------------
(* What holds as long as no two calls have been under way at once *)

OneCall ==
  /\ \A p, q \in Callers : ~Idle(p) /\ ~Idle(q) => p = q
  /\ pc["entry"] # "idle" => job["entry"] \in {"setup", "unload"}
  /\ pc["flow"] # "idle" => job["flow"] \in {"test", "submit"}
  /\ \A p \in Callers : pc[p] \in {"create", "bind", "assign", "made"} => job[p] \in {"setup", "test"}

\* The registered server is the one a call works on, and the one that listens.
OneServer ==
  /\ \A p \in Callers : pc[p] \in {"bind", "assign", "made", "close", "wait", "forget"} =>
       registry # None /\ obj[p] = registry
  /\ \A k \in Sockets : Open(k) =>
       /\ registry # None /\ socket[k].of = registry
       /\ server[registry] = k \/ \E p \in Callers : pc[p] = "assign" /\ mine[p] = k
  /\ \A p \in Callers : pc[p] = "assign" => Open(mine[p])
  /\ \A p \in Callers : pc[p] \in {"bind", "wait", "forget"} => \A k \in Sockets : ~Open(k)
  /\ registry # None /\ server[registry] # None =>
       Open(server[registry]) \/ \E p \in Callers : pc[p] = "wait" /\ mine[p] = server[registry]
  /\ \A p \in Callers : pc[p] = "close" => server[registry] # None
  /\ \A p \in Callers : pc[p] = "made" => Running(registry)
  /\ \A u \in Units : conn[u] # None =>
       Open(conn[u]) \/ \E p \in Callers : pc[p] = "wait" /\ mine[p] = conn[u]

LoadedServer ==
  /\ pc["entry"] # "idle" /\ job["entry"] = "setup" => ~loaded
  /\ pc["entry"] \in {"bind", "assign", "made"} => owner[registry] = "entry"
  /\ pc["flow"] # "idle" /\ loaded => reload
  /\ pc["flow"] # "idle" /\ job["flow"] = "submit" => loaded
  /\ AllIdle /\ loaded /\ ~reload => registry # None /\ Running(registry) /\ owner[registry] = "entry"
  /\ AllIdle /\ ~loaded => registry = None

SerialInv == ~overlap => OneCall /\ OneServer /\ LoadedServer

LEMMA SerialInit == Init => SerialInv
<1> SUFFICES ASSUME Init PROVE OneCall /\ OneServer /\ LoadedServer
  BY DEF SerialInv
<1> USE NoneIsNothing
<1>1. OneCall
  BY DEF Init, OneCall, Idle, Callers
<1>2. OneServer
  BY DEF Init, OneServer, Open
<1>3. LoadedServer
  BY DEF Init, LoadedServer, Callers
<1>. QED  BY <1>1, <1>2, <1>3

LEMMA SerialStep == ServerInv /\ SerialInv /\ [Next]_vars => SerialInv'
<1> SUFFICES ASSUME ServerInv, SerialInv, [Next]_vars, ~overlap'
             PROVE  OneCall' /\ OneServer' /\ LoadedServer'
  BY DEF SerialInv
<1> USE NoneIsNothing DEF HasLoop, MayRun, registries, network, call, entry, history
<1>a. Typed /\ LoopKept /\ WorksOnMade /\ Connections
  BY DEF ServerInv
<1>b. ~overlap => OneCall /\ OneServer /\ LoadedServer
  BY DEF SerialInv
<1>c. ASSUME NEW p \in Callers, pc[p] # "idle", ~overlap
      PROVE  \A q \in Callers : q # p => pc[q] = "idle"
  BY <1>b, <1>c DEF OneCall, Idle
<1>1. CASE SetUp
  <2>1. ~overlap /\ OneCall /\ OneServer /\ LoadedServer
    BY <1>b, <1>1 DEF SetUp, Begin
  <2>2. OneCall'
    BY <1>a, <2>1, <1>1 DEF SetUp, Begin, Goto, OneCall, Idle, Callers, Typed
  <2>3. OneServer'
    BY <1>a, <2>1, <1>1 DEF SetUp, Begin, Goto, OneServer, OneCall, Idle, Callers, Typed, Open, Running
  <2>4. LoadedServer'
    BY <1>a, <2>1, <1>1 DEF SetUp, Begin, Goto, LoadedServer, OneCall, Idle, AllIdle, Callers, Typed, Open, Running
  <2>. QED  BY <2>2, <2>3, <2>4
<1>2. CASE Unload
  <2>1. ~overlap /\ OneCall /\ OneServer /\ LoadedServer
    BY <1>b, <1>2 DEF Unload, Begin
  <2>2. OneCall'
    BY <1>a, <2>1, <1>2 DEF Unload, Begin, Goto, OneCall, Idle, Callers, Typed
  <2>3. OneServer'
    BY <1>a, <2>1, <1>2 DEF Unload, Begin, Goto, OneServer, OneCall, Idle, Callers, Typed, Open, Running
  <2>4. LoadedServer'
    BY <1>a, <2>1, <1>2 DEF Unload, Begin, Goto, LoadedServer, OneCall, Idle, AllIdle, Callers, Typed, Open, Running
  <2>. QED  BY <2>2, <2>3, <2>4
<1>3. CASE Test
  <2>1. ~overlap /\ OneCall /\ OneServer /\ LoadedServer
    BY <1>b, <1>3 DEF Test, Begin
  <2>2. OneCall'
    BY <1>a, <2>1, <1>3 DEF Test, Begin, Goto, OneCall, Idle, Callers, Typed
  <2>3. OneServer'
    BY <1>a, <2>1, <1>3 DEF Test, Begin, Goto, OneServer, OneCall, Idle, Callers, Typed, Open, Running
  <2>4. LoadedServer'
    BY <1>a, <2>1, <1>3 DEF Test, Begin, Goto, LoadedServer, OneCall, Idle, AllIdle, Callers, Typed, Open, Running
  <2>. QED  BY <2>2, <2>3, <2>4
<1>4. CASE Submit
  <2>1. ~overlap /\ OneCall /\ OneServer /\ LoadedServer
    BY <1>b, <1>4 DEF Submit, Begin
  <2>2. OneCall'
    BY <1>a, <2>1, <1>4 DEF Submit, Begin, Goto, OneCall, Idle, Callers, Typed
  <2>3. OneServer'
    BY <1>a, <2>1, <1>4 DEF Submit, Begin, Goto, OneServer, OneCall, Idle, Callers, Typed, Open, Running
  <2>4. LoadedServer'
    BY <1>a, <2>1, <1>4 DEF Submit, Begin, Goto, LoadedServer, OneCall, Idle, AllIdle, Callers, Typed, Open, Running
  <2>. QED  BY <2>2, <2>3, <2>4
<1>5. ASSUME NEW p \in Callers, Create(p) PROVE OneCall' /\ OneServer' /\ LoadedServer'
  <2>1. ~overlap /\ OneCall /\ OneServer /\ LoadedServer
    BY <1>b, <1>5 DEF Create
  <2>2. pc[p] = "create" /\ \A q \in Callers : q # p => pc[q] = "idle"
    <3>1. pc[p] = "create"
      BY <1>5 DEF Create
    <3>. QED  BY <1>c, <2>1, <3>1
  <2>3. OneCall'
    BY <1>a, <2>1, <1>5 DEF Create, Goto, OneCall, Idle, Callers, Typed
  <2>4. CASE registry = None
    <3> DEFINE i == First(Unmade)
    <3>1. i \in Instances /\ owner[i] = None
      <4>1. Unmade \in SUBSET Nat /\ Unmade # {}
        BY <1>a, <1>5 DEF Create, Typed, WorksOnMade, Unmade
      <4>2. First(Unmade) \in Unmade
        BY <4>1, FirstIsOne
      <4>. QED  BY <4>2 DEF Unmade
    <3>2. /\ registry' = i /\ owner' = [owner EXCEPT ![i] = p]
          /\ obj' = [obj EXCEPT ![p] = i] /\ pc' = [pc EXCEPT ![p] = "bind"]
          /\ UNCHANGED <<server, socket, conn, job, mine, loaded, reload>>
      BY <2>4, <1>5 DEF Create, Goto
    <3> HIDE DEF i
    <3>3. \A k \in Sockets : socket[k].state # "open"
      BY <2>1, <2>4 DEF OneServer, Open
    <3>4. \A u \in Units : conn[u] = None
      BY <1>a, <2>1, <2>2, <3>3 DEF OneServer, Open, Typed
    <3>5. /\ owner'[i] = p /\ obj'[p] = i /\ pc'[p] = "bind" /\ server[i] = None
          /\ \A q \in Callers : q # p => pc'[q] = "idle"
      BY <1>a, <2>2, <3>1, <3>2 DEF Typed, WorksOnMade
    <3>6. OneServer'
      BY <3>1, <3>2, <3>3, <3>4, <3>5 DEF OneServer, Open, Running
    <3>7. LoadedServer'
      BY <2>1, <2>2, <3>2, <3>5 DEF LoadedServer, AllIdle, Idle, Callers
    <3>. QED  BY <2>3, <3>6, <3>7
  <2>5. CASE registry # None
    <3>1. registry \in Instances
      BY <1>a, <2>5 DEF Typed
    <3>2. /\ obj' = [obj EXCEPT ![p] = registry]
          /\ owner' = [owner EXCEPT ![registry] = IF job[p] = "setup" THEN p ELSE owner[registry]]
          /\ pc' = [pc EXCEPT ![p] = IF Running(registry) THEN "made" ELSE "bind"]
          /\ UNCHANGED <<registry, server, socket, conn, job, mine, loaded, reload>>
      BY <2>5, <1>5 DEF Create, Goto
    <3>3. /\ obj'[p] = registry /\ pc'[p] \in {"made", "bind"}
          /\ \A q \in Callers : q # p => pc'[q] = "idle"
          /\ pc'[p] = "made" => Running(registry)
          /\ pc'[p] = "bind" => ~Running(registry)
      BY <1>a, <2>2, <3>2 DEF Typed
    <3>4. ~Running(registry) => \A k \in Sockets : socket[k].state # "open"
      BY <2>1, <2>2 DEF OneServer, Open, Running
    <3>5. \A u \in Units : conn[u] # None => socket[conn[u]].state = "open"
      BY <2>1, <2>2 DEF OneServer, Open
    <3>6. server[registry] # None => socket[server[registry]].state = "open"
      BY <2>1, <2>2, <2>5 DEF OneServer, Open
    <3>7. \A k \in Sockets : socket[k].state = "open" =>
            socket[k].of = registry /\ server[registry] = k
      BY <2>1, <2>2 DEF OneServer, Open
    <3>8. OneServer'
      BY <2>5, <3>2, <3>3, <3>4, <3>5, <3>6, <3>7 DEF OneServer, Open, Running
    <3>9. p = "entry" => owner'[registry] = "entry"
      <4>1. p = "entry" => job[p] = "setup"
        BY <2>1, <2>2 DEF OneCall
      <4>. QED  BY <1>a, <3>1, <3>2, <4>1 DEF Typed
    <3>10. LoadedServer'
      BY <2>1, <2>2, <3>2, <3>3, <3>9 DEF LoadedServer, AllIdle, Idle, Callers
    <3>. QED  BY <2>3, <3>8, <3>10
  <2>. QED  BY <2>4, <2>5
<1>6. ASSUME NEW p \in Callers, Bind(p) PROVE OneCall' /\ OneServer' /\ LoadedServer'
  <2>1. ~overlap /\ OneCall /\ OneServer /\ LoadedServer
    BY <1>b, <1>6 DEF Bind
  <2>2. pc[p] = "bind" /\ \A q \in Callers : q # p => pc[q] = "idle"
    <3>1. pc[p] = "bind"
      BY <1>6 DEF Bind
    <3>. QED  BY <1>c, <2>1, <3>1
  <2>3. OneCall'
    BY <1>a, <2>1, <1>6 DEF Bind, Goto, OneCall, Idle, Callers, Typed
  <2>4. LoadedServer'
    BY <1>a, <2>1, <1>6 DEF Bind, Goto, LoadedServer, OneCall, Idle, AllIdle, Callers, Typed, Open, Running
  <2>5. /\ registry # None /\ registry \in Instances /\ obj[p] = registry
        /\ \A k \in Sockets : socket[k].state # "open"
    BY <1>a, <2>1, <2>2 DEF OneServer, Open, Typed
  <2>6. server[registry] = None /\ \A u \in Units : conn[u] = None
    <3>1. \A q \in Callers : pc[q] # "wait"
      BY <2>2
    <3>2. /\ server[registry] # None => Open(server[registry])
          /\ \A u \in Units : conn[u] # None => Open(conn[u])
      BY <2>1, <2>5, <3>1 DEF OneServer
    <3>3. /\ server[registry] # None => server[registry] \in Sockets
          /\ \A u \in Units : conn[u] # None => conn[u] \in Sockets
      BY <1>a, <2>5 DEF Typed
    <3>. QED  BY <2>5, <3>2, <3>3 DEF Open
  <2>7. CASE foreign \/ \E k \in Sockets : Open(k)
    <3>1. /\ pc' = [pc EXCEPT ![p] = "remove"]
          /\ UNCHANGED <<registry, server, socket, conn, obj, mine>>
      BY <2>7, <1>6 DEF Bind, Goto
    <3>2. pc'[p] = "remove" /\ \A q \in Callers : q # p => pc'[q] = "idle"
      BY <1>a, <2>2, <3>1 DEF Typed
    <3>3. OneServer'
      BY <2>5, <2>6, <3>1, <3>2 DEF OneServer, Open, Running
    <3>. QED  BY <2>3, <2>4, <3>3
  <2>8. CASE ~(foreign \/ \E k \in Sockets : Open(k))
    <3> DEFINE k == First(Free(socket))
    <3>1. k \in Sockets
      <4>1. Free(socket) \in SUBSET Nat /\ Free(socket) # {}
        BY <1>a, <1>6 DEF Bind, Free, Typed
      <4>2. First(Free(socket)) \in Free(socket)
        BY <4>1, FirstIsOne
      <4>. QED  BY <1>a, <4>2 DEF Free, Typed
    <3>2. /\ pc' = [pc EXCEPT ![p] = "assign"]
          /\ socket' = [socket EXCEPT ![k] = [state |-> "open", of |-> obj[p]]]
          /\ mine' = [mine EXCEPT ![p] = k]
          /\ UNCHANGED <<registry, server, conn, obj>>
      BY <2>8, <1>6 DEF Bind, Goto
    <3> HIDE DEF k
    <3>3. /\ pc'[p] = "assign" /\ mine'[p] = k
          /\ \A q \in Callers : q # p => pc'[q] = "idle"
          /\ socket'[k] = [state |-> "open", of |-> registry]
          /\ \A j \in Sockets : j # k => socket'[j] = socket[j]
      BY <1>a, <2>2, <2>5, <3>1, <3>2 DEF Typed
    <3>4. OneServer'
      BY <2>5, <2>6, <3>1, <3>2, <3>3 DEF OneServer, Open, Running
    <3>. QED  BY <2>3, <2>4, <3>4
  <2>. QED  BY <2>7, <2>8
<1>7. ASSUME NEW p \in Callers, Assign(p) PROVE OneCall' /\ OneServer' /\ LoadedServer'
  <2>1. ~overlap /\ OneCall /\ OneServer /\ LoadedServer
    BY <1>b, <1>7 DEF Assign
  <2>2. pc[p] = "assign" /\ \A q \in Callers : q # p => pc[q] = "idle"
    <3>1. pc[p] = "assign"
      BY <1>7 DEF Assign
    <3>. QED  BY <1>c, <2>1, <3>1
  <2>3. OneCall'
    BY <1>a, <2>1, <1>7 DEF Assign, Goto, OneCall, Idle, Callers, Typed
  <2>4. /\ registry # None /\ registry \in Instances /\ obj[p] = registry
        /\ mine[p] \in Sockets /\ mine[p] # None /\ socket[mine[p]].state = "open"
        /\ \A j \in Sockets : socket[j].state = "open" => j = mine[p] /\ socket[j].of = registry
        /\ \A u \in Units : conn[u] # None => socket[conn[u]].state = "open"
    <3>1. registry # None /\ registry \in Instances /\ obj[p] = registry
      BY <1>a, <2>1, <2>2 DEF OneServer, Typed
    <3>2. mine[p] # None /\ mine[p] \in Sockets
      BY <1>a, <2>2 DEF WorksOnMade, Typed
    <3>3. Open(mine[p])
      BY <2>1, <2>2 DEF OneServer
    <3>4. \A j \in Sockets : Open(j) => j = mine[p] /\ socket[j].of = registry
      <4>1. \A j \in Sockets : Open(j) => j = mine[p]
        BY <1>a, <3>2, <3>3 DEF Connections
      <4>2. \A j \in Sockets : Open(j) => socket[j].of = registry
        BY <2>1 DEF OneServer
      <4>. QED  BY <4>1, <4>2
    <3>5. \A u \in Units : conn[u] # None => Open(conn[u])
      <4>1. \A q \in Callers : pc[q] # "wait"
        BY <2>2
      <4>. QED  BY <2>1, <4>1 DEF OneServer
    <3>. QED  BY <3>1, <3>2, <3>3, <3>4, <3>5 DEF Open
  <2>5. /\ pc' = [pc EXCEPT ![p] = "made"] /\ server' = [server EXCEPT ![registry] = mine[p]]
        /\ UNCHANGED <<registry, owner, socket, conn, obj, mine, job, loaded, reload>>
    BY <2>4, <1>7 DEF Assign, Goto
  <2>6. /\ pc'[p] = "made" /\ server'[registry] = mine[p]
        /\ \A q \in Callers : q # p => pc'[q] = "idle"
    BY <1>a, <2>2, <2>4, <2>5 DEF Typed
  <2>7. OneServer'
    BY <2>4, <2>5, <2>6 DEF OneServer, Open, Running
  <2>8. LoadedServer'
    BY <2>1, <2>2, <2>5, <2>6 DEF LoadedServer, AllIdle, Idle, Callers
  <2>. QED  BY <2>3, <2>7, <2>8
<1>8. ASSUME NEW p \in Callers, Made(p) PROVE OneCall' /\ OneServer' /\ LoadedServer'
  <2>1. ~overlap /\ OneCall /\ OneServer /\ LoadedServer
    BY <1>b, <1>8 DEF Made
  <2>2. pc[p] = "made" /\ \A q \in Callers : q # p => pc[q] = "idle"
    <3>1. pc[p] = "made"
      BY <1>8 DEF Made
    <3>. QED  BY <1>c, <2>1, <3>1
  <2>3. OneCall'
    BY <1>a, <2>1, <1>8 DEF Made, Goto, OneCall, Idle, Callers, Typed
  <2>4. OneServer'
    BY <1>a, <2>1, <1>8 DEF Made, Goto, OneServer, OneCall, Idle, Callers, Typed, Open, Running
  <2>5. registry # None /\ Running(registry)
    BY <2>1, <2>2 DEF OneServer
  <2>6. CASE job[p] = "test"
    <3>1. /\ pc' = [pc EXCEPT ![p] = "remove"]
          /\ UNCHANGED <<registry, server, owner, socket, job, loaded, reload>>
      BY <2>5, <2>6, <1>8 DEF Made, Goto
    <3>2. pc'[p] = "remove" /\ \A q \in Callers : q # p => pc'[q] = "idle"
      BY <1>a, <2>2, <3>1 DEF Typed
    <3>3. LoadedServer'
      BY <2>1, <2>2, <3>1, <3>2 DEF LoadedServer, AllIdle, Idle, Callers
    <3>. QED  BY <2>3, <2>4, <3>3
  <2>7. CASE job[p] # "test"
    <3>1. job[p] = "setup" /\ p = "entry"
      BY <2>1, <2>2, <2>7 DEF OneCall, Callers
    <3>2. /\ pc' = [pc EXCEPT ![p] = "idle"]
          /\ UNCHANGED <<registry, server, owner, socket, job, reload>>
          /\ loaded' = TRUE
      BY <2>5, <3>1, <1>8 DEF Made, Goto
    <3>3. owner[registry] = "entry"
      BY <2>1, <2>2, <3>1 DEF LoadedServer
    <3>4. \A q \in Callers : pc'[q] = "idle"
      BY <1>a, <2>2, <3>2 DEF Typed
    <3>5. LoadedServer'
      BY <2>5, <3>2, <3>3, <3>4 DEF LoadedServer, AllIdle, Idle, Running, Open, Callers
    <3>. QED  BY <2>3, <2>4, <3>5
  <2>. QED  BY <2>6, <2>7
<1>9. ASSUME NEW p \in Callers, Remove(p) PROVE OneCall' /\ OneServer' /\ LoadedServer'
  <2>1. ~overlap /\ OneCall /\ OneServer /\ LoadedServer
    BY <1>b, <1>9 DEF Remove, End
  <2>2. OneCall'
    BY <1>a, <2>1, <1>9 DEF Remove, End, Goto, OneCall, Idle, Callers, Typed
  <2>3. OneServer'
    BY <1>a, <2>1, <1>9 DEF Remove, End, Goto, OneServer, OneCall, Idle, Callers, Typed, Open, Running
  <2>4. LoadedServer'
    BY <1>a, <2>1, <1>9 DEF Remove, End, Goto, LoadedServer, OneCall, Idle, AllIdle, Callers, Typed, Open, Running
  <2>. QED  BY <2>2, <2>3, <2>4
<1>10. ASSUME NEW p \in Callers, CloseClient(p) PROVE OneCall' /\ OneServer' /\ LoadedServer'
  <2>1. ~overlap /\ OneCall /\ OneServer /\ LoadedServer
    BY <1>b, <1>10 DEF CloseClient
  <2>2. OneCall'
    BY <1>a, <2>1, <1>10 DEF CloseClient, Goto, OneCall, Idle, Callers, Typed
  <2>3. OneServer'
    BY <1>a, <2>1, <1>10 DEF CloseClient, Goto, OneServer, OneCall, Idle, Callers, Typed, Open, Running
  <2>4. LoadedServer'
    BY <1>a, <2>1, <1>10 DEF CloseClient, Goto, LoadedServer, OneCall, Idle, AllIdle, Callers, Typed, Open, Running
  <2>. QED  BY <2>2, <2>3, <2>4
<1>11. ASSUME NEW p \in Callers, CloseServer(p) PROVE OneCall' /\ OneServer' /\ LoadedServer'
  <2>1. ~overlap /\ OneCall /\ OneServer /\ LoadedServer
    BY <1>b, <1>11 DEF CloseServer
  <2>2. pc[p] = "close" /\ \A q \in Callers : q # p => pc[q] = "idle"
    <3>1. pc[p] = "close"
      BY <1>11 DEF CloseServer
    <3>. QED  BY <1>c, <2>1, <3>1
  <2> DEFINE k == server[obj[p]]
  <2>3. OneCall'
    BY <1>a, <2>1, <1>11 DEF CloseServer, Raise, Goto, OneCall, Idle, Callers, Typed
  <2>4. /\ registry # None /\ registry \in Instances /\ obj[p] = registry
        /\ k # None /\ k = server[registry] /\ k \in Sockets
    BY <1>a, <2>1, <2>2 DEF OneServer, Typed
  <2>5. /\ pc' = [pc EXCEPT ![p] = "wait"] /\ mine' = [mine EXCEPT ![p] = k]
        /\ socket' = [socket EXCEPT ![k].state = "closed"]
        /\ UNCHANGED <<registry, server, owner, conn, obj, job, loaded, reload>>
    BY <2>4, <1>11 DEF CloseServer, Goto
  <2> HIDE DEF k
  <2>6. /\ \A j \in Sockets : socket[j].state = "open" => j = k
        /\ \A u \in Units : conn[u] # None => conn[u] \in Sockets /\ socket[conn[u]].state = "open"
    BY <1>a, <2>1, <2>2, <2>4 DEF OneServer, Open, Typed
  <2>7. /\ pc'[p] = "wait" /\ mine'[p] = k
        /\ \A q \in Callers : q # p => pc'[q] = "idle"
    BY <1>a, <2>2, <2>5 DEF Typed
  <2>8. \A j \in Sockets : socket'[j].state # "open"
    <3>1. socket'[k].state = "closed" /\ \A j \in Sockets : j # k => socket'[j] = socket[j]
      BY <1>a, <2>4, <2>5 DEF Typed, SocketStates
    <3>. QED  BY <2>6, <3>1
  <2>9. OneServer'
    BY <2>4, <2>5, <2>6, <2>7, <2>8 DEF OneServer, Open, Running
  <2>10. LoadedServer'
    BY <2>1, <2>2, <2>5, <2>7 DEF LoadedServer, AllIdle, Idle, Callers
  <2>. QED  BY <2>3, <2>9, <2>10
<1>12. ASSUME NEW p \in Callers, Closed(p) PROVE OneCall' /\ OneServer' /\ LoadedServer'
  <2>1. ~overlap /\ OneCall /\ OneServer /\ LoadedServer
    BY <1>b, <1>12 DEF Closed
  <2>2. pc[p] = "wait" /\ \A q \in Callers : q # p => pc[q] = "idle"
    <3>1. pc[p] = "wait"
      BY <1>12 DEF Closed
    <3>. QED  BY <1>c, <2>1, <3>1
  <2>3. OneCall'
    BY <1>a, <2>1, <1>12 DEF Closed, Goto, OneCall, Idle, Callers, Typed
  <2>4. LoadedServer'
    BY <1>a, <2>1, <1>12 DEF Closed, Goto, LoadedServer, OneCall, Idle, AllIdle, Callers, Typed, Open, Running
  <2>5. /\ registry # None /\ registry \in Instances /\ obj[p] = registry
        /\ \A k \in Sockets : socket[k].state # "open"
    BY <1>a, <2>1, <2>2 DEF OneServer, Open, Typed
  <2>6. /\ pc' = [pc EXCEPT ![p] = "forget"] /\ server' = [server EXCEPT ![registry] = None]
        /\ UNCHANGED <<registry, socket, conn, obj, mine>>
        /\ \A u \in Units : conn[u] # mine[p]
    BY <2>5, <1>12 DEF Closed, Goto, Connected
  <2>7. \A u \in Units : conn[u] = None
    <3> SUFFICES ASSUME NEW u \in Units, conn[u] # None PROVE FALSE
      OBVIOUS
    <3>1. conn[u] \in Sockets
      BY <1>a DEF Typed
    <3>2. ~Open(conn[u])
      BY <2>5, <3>1 DEF Open
    <3>3. PICK q \in Callers : pc[q] = "wait" /\ mine[q] = conn[u]
      BY <2>1, <3>2 DEF OneServer
    <3>4. q = p
      BY <2>2, <3>3
    <3>. QED  BY <2>6, <3>3, <3>4
  <2>8. /\ pc'[p] = "forget" /\ server'[registry] = None
        /\ \A q \in Callers : q # p => pc'[q] = "idle"
    BY <1>a, <2>2, <2>5, <2>6 DEF Typed
  <2>9. OneServer'
    BY <2>5, <2>6, <2>7, <2>8 DEF OneServer, Open, Running
  <2>. QED  BY <2>3, <2>4, <2>9
<1>13. ASSUME NEW p \in Callers, Forget(p) PROVE OneCall' /\ OneServer' /\ LoadedServer'
  <2>1. ~overlap /\ OneCall /\ OneServer /\ LoadedServer
    BY <1>b, <1>13 DEF Forget
  <2>2. pc[p] = "forget" /\ \A q \in Callers : q # p => pc[q] = "idle"
    <3>1. pc[p] = "forget"
      BY <1>13 DEF Forget
    <3>. QED  BY <1>c, <2>1, <3>1
  <2>3. OneCall'
    BY <1>a, <2>1, <1>13 DEF Forget, End, Raise, Goto, OneCall, Idle, Callers, Typed
  <2>4. OneServer'
    BY <1>a, <2>1, <1>13 DEF Forget, End, Raise, Goto, OneServer, OneCall, Idle, Callers, Typed, Open, Running
  <2>5. registry # None
    BY <2>1, <2>2 DEF OneServer
  <2>6. /\ pc' = [pc EXCEPT ![p] = "idle"] /\ registry' = None
        /\ loaded' = (loaded /\ ~(p = "entry" /\ job[p] = "unload"))
        /\ UNCHANGED <<job, reload>>
    BY <2>5, <1>13 DEF Forget, End, Goto
  <2>7. \A q \in Callers : pc'[q] = "idle"
    BY <1>a, <2>2, <2>6 DEF Typed
  <2>8. loaded' => reload
    <3>1. p = "entry" => ~loaded'
      BY <2>1, <2>2, <2>6 DEF OneCall, LoadedServer
    <3>2. p = "flow" /\ loaded => reload
      BY <2>1, <2>2 DEF LoadedServer
    <3>. QED  BY <2>6, <3>1, <3>2 DEF Callers
  <2>9. LoadedServer'
    BY <2>6, <2>7, <2>8 DEF LoadedServer, AllIdle, Idle, Callers
  <2>. QED  BY <2>3, <2>4, <2>9
<1>14. ASSUME NEW u \in Units, Connect(u) PROVE OneCall' /\ OneServer' /\ LoadedServer'
  <2>1. ~overlap /\ OneCall /\ OneServer /\ LoadedServer
    BY <1>b, <1>14 DEF Connect
  <2>2. OneCall'
    BY <1>a, <2>1, <1>14 DEF Connect, Goto, OneCall, Idle, Callers, Typed
  <2>3. OneServer'
    BY <1>a, <2>1, <1>14 DEF Connect, Goto, OneServer, OneCall, Idle, Callers, Typed, Open, Running
  <2>4. LoadedServer'
    BY <1>a, <2>1, <1>14 DEF Connect, Goto, LoadedServer, OneCall, Idle, AllIdle, Callers, Typed, Open, Running
  <2>. QED  BY <2>2, <2>3, <2>4
<1>15. ASSUME NEW u \in Units, Handle(u) PROVE OneCall' /\ OneServer' /\ LoadedServer'
  <2>1. ~overlap /\ OneCall /\ OneServer /\ LoadedServer
    BY <1>b, <1>15 DEF Handle
  <2>2. OneCall'
    BY <1>a, <2>1, <1>15 DEF Handle, Goto, OneCall, Idle, Callers, Typed
  <2>3. OneServer'
    BY <1>a, <2>1, <1>15 DEF Handle, Goto, OneServer, OneCall, Idle, Callers, Typed, Open, Running
  <2>4. LoadedServer'
    BY <1>a, <2>1, <1>15 DEF Handle, Goto, LoadedServer, OneCall, Idle, AllIdle, Callers, Typed, Open, Running
  <2>. QED  BY <2>2, <2>3, <2>4
<1>16. ASSUME NEW u \in Units, HangUp(u) PROVE OneCall' /\ OneServer' /\ LoadedServer'
  <2>1. ~overlap /\ OneCall /\ OneServer /\ LoadedServer
    BY <1>b, <1>16 DEF HangUp
  <2>2. OneCall'
    BY <1>a, <2>1, <1>16 DEF HangUp, Goto, OneCall, Idle, Callers, Typed
  <2>3. OneServer'
    BY <1>a, <2>1, <1>16 DEF HangUp, Goto, OneServer, OneCall, Idle, Callers, Typed, Open, Running
  <2>4. LoadedServer'
    BY <1>a, <2>1, <1>16 DEF HangUp, Goto, LoadedServer, OneCall, Idle, AllIdle, Callers, Typed, Open, Running
  <2>. QED  BY <2>2, <2>3, <2>4
<1>17. CASE ForeignEnds
  <2>1. ~overlap /\ OneCall /\ OneServer /\ LoadedServer
    BY <1>b, <1>17 DEF ForeignEnds
  <2>2. OneCall'
    BY <1>a, <2>1, <1>17 DEF ForeignEnds, Goto, OneCall, Idle, Callers, Typed
  <2>3. OneServer'
    BY <1>a, <2>1, <1>17 DEF ForeignEnds, Goto, OneServer, OneCall, Idle, Callers, Typed, Open, Running
  <2>4. LoadedServer'
    BY <1>a, <2>1, <1>17 DEF ForeignEnds, Goto, LoadedServer, OneCall, Idle, AllIdle, Callers, Typed, Open, Running
  <2>. QED  BY <2>2, <2>3, <2>4
<1>18. CASE UNCHANGED vars
  BY <1>b, <1>18 DEF vars, OneCall, OneServer, LoadedServer, Idle, AllIdle, Open, Running
<1>. QED  BY <1>1, <1>2, <1>3, <1>4, <1>5, <1>6, <1>7, <1>8, <1>9, <1>10, <1>11, <1>12, <1>13, <1>14, <1>15, <1>16, <1>17, <1>18 DEF Next, Step

-----------------------------------------------------------------------------
(* The theorems *)

LEMMA ServerInvTyped == ServerInv => TypeOK
<1> SUFFICES ASSUME ServerInv PROVE TypeOK
  OBVIOUS
<1> USE NoneIsNothing
<1>1. Typed /\ LoopKept /\ WorksOnMade /\ Connections
  BY DEF ServerInv
<1>2. UNION {clients[i] : i \in Instances} \subseteq handled
  BY <1>1 DEF Connections
<1>. QED  BY <1>1, <1>2 DEF TypeOK, Typed, LoopKept, WorksOnMade, Connections

LEMMA SerialInvListens == ServerInv /\ SerialInv => LoadedIsListening
<1>. QED  BY DEF SerialInv, LoadedServer, LoadedIsListening

LEMMA SerialInvServesNobody == ServerInv /\ SerialInv => NobodyServed
<1> SUFFICES ASSUME ServerInv, SerialInv, AllIdle, ~overlap, ~loaded
             PROVE  /\ registry = None
                    /\ \A k \in Sockets : ~Open(k)
                    /\ \A u \in Units : conn[u] = None
  BY ServerInvTyped DEF NobodyServed
<1>1. OneServer /\ LoadedServer /\ Typed
  BY DEF SerialInv, ServerInv
<1>2. registry = None
  BY <1>1 DEF LoadedServer
<1>3. \A k \in Sockets : ~Open(k)
  BY <1>1, <1>2 DEF OneServer
<1>4. ASSUME NEW u \in Units, conn[u] # None PROVE FALSE
  <2>1. conn[u] \in Sockets
    BY <1>1, <1>4 DEF Typed
  <2>2. ~Open(conn[u])
    BY <1>3, <2>1
  <2>3. PICK p \in Callers : pc[p] = "wait"
    BY <1>1, <1>4, <2>2 DEF OneServer
  <2>. QED  BY <2>3 DEF AllIdle, Idle
<1>. QED  BY <1>2, <1>3, <1>4

\* In every order of calls and network, also where two calls are under way at
\* once: whoever keeps the loop is at a point that does not await, a stop has
\* writers left only while it closes them, a connection is on a socket that was
\* opened and every writer listed has its handler.
THEOREM ServerIsTyped == FairSpec => []TypeOK
<1>1. FairSpec => []ServerInv
  BY ServerInit, ServerStep, PTL DEF FairSpec
<1>. QED  BY <1>1, ServerInvTyped, PTL

\* Set-ups, unloads and flows one after the other, whatever units and other
\* programs do in between: a loaded entry has a registered server of its own
\* that listens, unless a flow has asked for a reload.
THEOREM LoadedEntryListens == FairSpec => []LoadedIsListening
<1>1. FairSpec => [](ServerInv /\ SerialInv)
  BY ServerInit, ServerStep, SerialInit, SerialStep, PTL DEF FairSpec
<1>. QED  BY <1>1, SerialInvListens, PTL

\* Set-ups, unloads and flows one after the other: an entry that is out leaves
\* nothing registered, nothing listening and no unit connected.
THEOREM UnloadedLeavesNothing == FairSpec => []NobodyServed
<1>1. FairSpec => [](ServerInv /\ SerialInv)
  BY ServerInit, ServerStep, SerialInit, SerialStep, PTL DEF FairSpec
<1>. QED  BY <1>1, SerialInvServesNobody, PTL
=============================================================================
