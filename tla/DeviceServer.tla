----------------------------- MODULE DeviceServer -----------------------------
(***************************************************************************)
(* server.py: AsekoDeviceServer as the registry of servers, one per         *)
(* host:port, and their start and stop; with the two that call it: the     *)
(* config entry's set-up and unload (__init__.py) and the config and        *)
(* options flows (config_flow.py), for one address.                         *)
(*                                                                         *)
(* Everything runs on one event loop: a call keeps the loop until it awaits *)
(* something that is not done yet, and there the others may go on.          *)
(* Home Assistant serialises the set-ups and unloads of an entry, but not   *)
(* the flows against them.                                                  *)
(***************************************************************************)
EXTENDS Naturals, FiniteSets

CONSTANTS
  Units,        \* the Aseko units that connect
  None,         \* no instance, socket or caller
  MaxInstances, \* bound: AsekoDeviceServer objects
  MaxSockets    \* bound: asyncio servers

Instances == 1..MaxInstances
Sockets == 1..MaxSockets
Callers == {"entry", "flow"}

ASSUME BoundsAssumption == MaxInstances \in Nat /\ MaxSockets \in Nat
ASSUME NoneAssumption == None \notin Instances \cup Sockets /\ None \notin Callers

VARIABLES
  registry,   \* _instances, at the one address
  server,     \* _server of each instance
  owner,      \* whose on_data and sinks an instance has
  clients,    \* _clients of each instance
  socket,     \* an asyncio server: unused, open or closed, and its instance
  foreign,    \* another program holds the port
  conn,       \* the socket a unit is connected to
  handled,    \* the units whose connection a handler serves
  pc, job, obj, mine, left,  \* the call each caller is in: where, which, on
                             \* what instance and socket, writers left to close
  loop,       \* the caller that keeps the event loop
  loaded,     \* the entry is loaded
  reload,     \* an options or reconfigure flow has asked for its reload
  overlap,    \* history: two calls have been under way at once
  late        \* history: a unit connected while its server was being stopped

registries == <<registry, server, owner, clients>>
network == <<socket, foreign, conn, handled>>
call == <<pc, job, obj, mine, left, loop>>
entry == <<loaded, reload>>
history == <<overlap, late>>
vars == <<registries, network, call, entry, history>>

Open(k) == socket[k].state = "open"
Running(i) == server[i] # None /\ Open(server[i])   \* is_serving
Connected(k) == {u \in Units : conn[u] = k}
Free(states) == {k \in DOMAIN states : states[k].state = "unused"}
Unmade == {i \in Instances : owner[i] = None}
First(S) == CHOOSE x \in S : \A y \in S : x <= y

Idle(p) == pc[p] = "idle"
HasLoop(p) == loop = p
MayRun(p) == loop \in {None, p}

Goto(p, there, keeps) ==
  /\ pc' = [pc EXCEPT ![p] = there]
  /\ loop' = IF keeps THEN p ELSE None

Init ==
  /\ registry = None
  /\ server = [i \in Instances |-> None]
  /\ owner = [i \in Instances |-> None]
  /\ clients = [i \in Instances |-> {}]
  /\ socket = [k \in Sockets |-> [state |-> "unused", of |-> None]]
  /\ foreign \in BOOLEAN
  /\ conn = [u \in Units |-> None] /\ handled = {}
  /\ pc = [p \in Callers |-> "idle"] /\ job = [p \in Callers |-> "none"]
  /\ obj = [p \in Callers |-> None] /\ mine = [p \in Callers |-> None]
  /\ left = [p \in Callers |-> {}]
  /\ loop = None
  /\ loaded = FALSE /\ reload = FALSE /\ overlap = FALSE /\ late = FALSE

-----------------------------------------------------------------------------
(* The calls begin *)

Begin(p, what, there) ==
  /\ loop = None /\ Idle(p)
  /\ job' = [job EXCEPT ![p] = what]
  /\ Goto(p, there, TRUE)
  /\ overlap' = (overlap \/ \E q \in Callers : ~Idle(q))
  /\ UNCHANGED <<registries, network, obj, mine, left, late>>

\* async_setup_entry, first time or again.
SetUp ==
  /\ ~loaded /\ Unmade # {}
  /\ Begin("entry", "setup", "create")
  /\ UNCHANGED entry

\* async_unload_entry: Home Assistant counts the entry out when it has ended.
Unload ==
  /\ loaded
  /\ Begin("entry", "unload", "remove")
  /\ reload' = FALSE
  /\ UNCHANGED loaded

\* Mutant: the test bind is made whether or not the server is running.
TestAlways ==
  /\ Free(socket) # {} /\ Unmade # {}
  /\ Begin("flow", "test", "create")
  /\ UNCHANGED entry

\* validate_input, which binds only where no server is running.
Test ==
  /\ ~(registry # None /\ Running(registry))
  /\ Unmade # {}
  /\ Begin("flow", "test", "create")
  /\ UNCHANGED entry

\* _remove_entry_server of the options and reconfigure flows; a reload follows.
Submit ==
  /\ loaded
  /\ Begin("flow", "submit", "remove")
  /\ reload' = TRUE
  /\ UNCHANGED loaded

End(p) ==
  /\ Goto(p, "idle", FALSE)
  /\ loaded' = (loaded /\ ~(p = "entry" /\ job[p] = "unload"))

\* An exception leaves the caller; a failed unload leaves the entry as it is.
Raise(p) ==
  /\ Goto(p, "idle", FALSE)
  /\ UNCHANGED loaded

-----------------------------------------------------------------------------
(* create and start *)

\* create: a registered server gets the new callbacks, where there are any, and
\* is started unless it runs.
Create(p) ==
  /\ HasLoop(p) /\ pc[p] = "create"
  /\ IF registry = None
     THEN /\ registry' = First(Unmade)
          /\ owner' = [owner EXCEPT ![First(Unmade)] = p]
          /\ obj' = [obj EXCEPT ![p] = First(Unmade)]
          /\ Goto(p, "bind", FALSE)
     ELSE /\ owner' = [owner EXCEPT ![registry] =
                         IF job[p] = "setup" THEN p ELSE @]
          /\ obj' = [obj EXCEPT ![p] = registry]
          /\ Goto(p, IF Running(registry) THEN "made" ELSE "bind",
                  Running(registry))
          /\ UNCHANGED registry
  /\ UNCHANGED <<server, clients, network, job, mine, left, entry, history>>

\* Mutant: a server that could not start stays in the registry.
BindKeepsFailed(p) ==
  /\ MayRun(p) /\ pc[p] = "bind" /\ Free(socket) # {}
  /\ IF foreign \/ \E k \in Sockets : Open(k)
     THEN /\ Goto(p, "idle", FALSE)
          /\ UNCHANGED <<socket, mine>>
     ELSE LET k == First(Free(socket)) IN
          /\ socket' = [socket EXCEPT ![k] = [state |-> "open", of |-> obj[p]]]
          /\ mine' = [mine EXCEPT ![p] = k]
          /\ Goto(p, "assign", FALSE)
  /\ UNCHANGED <<registries, foreign, conn, handled, job, obj, left, entry, history>>

\* start: the address is looked up, then bound.  A port that is taken raises
\* ServerConnectionError, for which both callers remove what is registered.
Bind(p) ==
  /\ MayRun(p) /\ pc[p] = "bind" /\ Free(socket) # {}
  /\ IF foreign \/ \E k \in Sockets : Open(k)
     THEN /\ Goto(p, "remove", TRUE)
          /\ UNCHANGED <<socket, mine>>
     ELSE LET k == First(Free(socket)) IN
          /\ socket' = [socket EXCEPT ![k] = [state |-> "open", of |-> obj[p]]]
          /\ mine' = [mine EXCEPT ![p] = k]
          /\ Goto(p, "assign", FALSE)
  /\ UNCHANGED <<registries, foreign, conn, handled, job, obj, left, entry, history>>

\* start_server returns a turn of the loop after it listens.
Assign(p) ==
  /\ MayRun(p) /\ pc[p] = "assign"
  /\ server' = [server EXCEPT ![obj[p]] = mine[p]]
  /\ Goto(p, "made", TRUE)
  /\ UNCHANGED <<registry, owner, clients, network, job, obj, mine, left, entry,
                 history>>

\* create returns what is registered now: nothing is a KeyError, one that does
\* not run makes the set-up try again later.  The rest of the set-up (the card,
\* the mirrors) is taken not to fail.
Made(p) ==
  /\ HasLoop(p) /\ pc[p] = "made"
  /\ IF job[p] = "test" /\ registry # None
     THEN Goto(p, "remove", TRUE) /\ UNCHANGED loaded
     ELSE /\ Goto(p, "idle", FALSE)
          /\ loaded' = (loaded \/ (job[p] = "setup" /\ registry # None
                                   /\ Running(registry)))
  /\ UNCHANGED <<registries, network, job, obj, mine, left, reload, history>>

-----------------------------------------------------------------------------
(* remove and stop *)

\* Mutant: stop leaves the connected units to the server's own close.
RemoveKeepsClients(p) ==
  /\ HasLoop(p) /\ pc[p] = "remove"
  /\ IF registry = None THEN End(p) /\ UNCHANGED <<obj, left>>
     ELSE /\ obj' = [obj EXCEPT ![p] = registry]
          /\ left' = [left EXCEPT ![p] = {}]
          /\ Goto(p, IF server[registry] = None THEN "forget" ELSE "close", TRUE)
          /\ UNCHANGED loaded
  /\ UNCHANGED <<registries, network, job, mine, reload, history>>

\* remove, and stop up to its copy of the writers.
Remove(p) ==
  /\ HasLoop(p) /\ pc[p] = "remove"
  /\ IF registry = None THEN End(p) /\ UNCHANGED <<obj, left>>
     ELSE /\ obj' = [obj EXCEPT ![p] = registry]
          /\ left' = [left EXCEPT ![p] = IF server[registry] = None THEN {}
                                         ELSE clients[registry]]
          /\ Goto(p, IF server[registry] = None THEN "forget" ELSE "close", TRUE)
          /\ UNCHANGED loaded
  /\ UNCHANGED <<registries, network, job, mine, reload, history>>

\* One writer is closed and waited for, with its handler's own clean-up.
CloseClient(p) ==
  /\ MayRun(p) /\ pc[p] = "close"
  /\ \E u \in left[p] :
       /\ left' = [left EXCEPT ![p] = @ \ {u}]
       /\ conn' = [conn EXCEPT ![u] = None]
       /\ handled' = handled \ {u}
       /\ clients' = [i \in Instances |-> clients[i] \ {u}]
  /\ Goto(p, "close", FALSE)
  /\ UNCHANGED <<registry, server, owner, socket, foreign, job, obj, mine, entry,
                 history>>

\* The set is cleared and the server closed; one that another stop has taken
\* away meanwhile raises.
CloseServer(p) ==
  /\ MayRun(p) /\ pc[p] = "close" /\ left[p] = {}
  /\ clients' = [clients EXCEPT ![obj[p]] = {}]
  /\ LET k == server[obj[p]] IN
     IF k = None THEN Raise(p) /\ UNCHANGED <<socket, mine>>
     ELSE /\ socket' = [socket EXCEPT ![k].state = "closed"]
          /\ mine' = [mine EXCEPT ![p] = k]
          /\ Goto(p, "wait", Connected(k) = {})
          /\ UNCHANGED loaded
  /\ UNCHANGED <<registry, server, owner, foreign, conn, handled, job, obj, left, reload,
                 history>>

\* wait_closed returns when the last connection of the server is gone.
Closed(p) ==
  /\ MayRun(p) /\ pc[p] = "wait" /\ Connected(mine[p]) = {}
  /\ server' = [server EXCEPT ![obj[p]] = None]
  /\ Goto(p, "forget", TRUE)
  /\ UNCHANGED <<registry, owner, clients, network, job, obj, mine, left, entry,
                 history>>

\* The key is deleted, whatever is registered under it by now.
Forget(p) ==
  /\ HasLoop(p) /\ pc[p] = "forget"
  /\ IF registry = None THEN Raise(p) ELSE End(p)
  /\ registry' = None
  /\ UNCHANGED <<server, owner, clients, network, job, obj, mine, left, reload,
                 history>>

-----------------------------------------------------------------------------
(* The network *)

BeingStopped(k) ==
  \E p \in Callers : pc[p] = "close" /\ server[obj[p]] = k

Connect(u) ==
  /\ loop = None /\ conn[u] = None
  /\ \E k \in Sockets :
       /\ Open(k)
       /\ conn' = [conn EXCEPT ![u] = k]
       /\ late' = (late \/ BeingStopped(k))
  /\ UNCHANGED <<registries, socket, foreign, handled, call, entry, overlap>>

\* _handle_client begins: the writer joins the set of the instance whose server
\* accepted it.
Handle(u) ==
  /\ loop = None /\ conn[u] # None
  /\ u \notin handled
  /\ handled' = handled \cup {u}
  /\ clients' = [clients EXCEPT ![socket[conn[u]].of] = @ \cup {u}]
  /\ late' = (late \/ BeingStopped(conn[u]) \/ ~Open(conn[u]))
  /\ UNCHANGED <<registry, server, owner, socket, foreign, conn, call, entry,
                 overlap>>

\* The unit hangs up, or is quiet for READ_TIMEOUT: the handler cleans up.
HangUp(u) ==
  /\ loop = None /\ conn[u] # None
  /\ conn' = [conn EXCEPT ![u] = None]
  /\ handled' = handled \ {u}
  /\ clients' = [i \in Instances |-> clients[i] \ {u}]
  /\ UNCHANGED <<registry, server, owner, socket, foreign, call, entry, history>>

ForeignEnds ==
  /\ loop = None /\ foreign
  /\ foreign' = FALSE
  /\ UNCHANGED <<registries, socket, conn, handled, call, entry, history>>

-----------------------------------------------------------------------------
Step(p) ==
  \/ Create(p) \/ Bind(p) \/ Assign(p) \/ Made(p)
  \/ Remove(p) \/ CloseClient(p) \/ CloseServer(p) \/ Closed(p) \/ Forget(p)

Next ==
  \/ SetUp \/ Unload \/ Test \/ Submit
  \/ \E p \in Callers : Step(p)
  \/ \E u \in Units : Connect(u) \/ Handle(u) \/ HangUp(u)
  \/ ForeignEnds

\* The event loop runs what is ready in turn, however often others ask for a
\* turn of theirs; nothing makes a unit hang up, or anybody submit a form.
FairSpec ==
  /\ Init /\ [][Next]_vars
  /\ \A p \in Callers : SF_vars(Step(p))
  /\ \A u \in Units : SF_vars(Handle(u))

-----------------------------------------------------------------------------
(* Properties *)

AllIdle == \A p \in Callers : Idle(p)

\* One caller has the loop and is at a point where it does not await; writers
\* left to close belong to a stop; a connection is on a socket that was opened.
TypeOK ==
  /\ registry \in Instances \cup {None} /\ loop \in Callers \cup {None}
  /\ loop # None => pc[loop] \notin {"idle", "bind", "assign"}
  /\ \A p \in Callers : left[p] # {} => pc[p] = "close"
  /\ \A u \in Units : conn[u] # None => socket[conn[u]].state # "unused"
  /\ UNION {clients[i] : i \in Instances} \subseteq handled
  /\ \A u \in handled : conn[u] # None
  /\ \A i \in Instances : owner[i] = None => server[i] = None /\ clients[i] = {}

\* A loaded entry has the registered server, and it listens, unless a submitted
\* flow has a reload on its way: flows and set-ups one after the other never
\* take it away.
LoadedIsListening ==
  AllIdle /\ ~overlap /\ loaded /\ ~reload =>
    registry # None /\ Running(registry) /\ owner[registry] = "entry"

\* With the entry out and no flow under way the address is free again: nothing
\* registered, so that the next set-up starts a server of its own, and no unit
\* is still being served, by a server nobody can reach any more.
NobodyServed ==
  /\ TypeOK
  /\ AllIdle /\ ~overlap /\ ~loaded =>
       /\ registry = None
       /\ \A k \in Sockets : ~Open(k)
       /\ \A u \in Units : conn[u] = None

\* A stop comes to its end, as long as no unit connects in the middle of it.
Stopping(p) == pc[p] \in {"close", "wait"}
StopEnds == \A p \in Callers : Stopping(p) ~> (~Stopping(p) \/ late)
=============================================================================
