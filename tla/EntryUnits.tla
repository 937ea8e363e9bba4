----------------------------- MODULE EntryUnits -----------------------------
(***************************************************************************)
(* One config entry and the entities of its units: frames reach the         *)
(* coordinator (devices_update_callback), which keeps what each unit has    *)
(* shown, asks for the platforms' set-up (new_device_callback) and tells    *)
(* the platforms' listeners; the platforms (entity.py, sensor.py and the    *)
(* others) create the entities, disabled until their quantity has arrived.  *)
(*                                                                         *)
(* Home Assistant is external: it sets platforms up one at a time in any    *)
(* order, keeps the entity registry across restarts, serialises the set-up  *)
(* of an entry's platforms with a later unload, reloads the entry some time *)
(* after an entity was enabled, and adds nothing to a platform that is not  *)
(* set up.  Only set-up and unload await; every other action is one turn of *)
(* the event loop.                                                          *)
(***************************************************************************)
EXTENDS Naturals, FiniteSets

CONSTANTS
  Units,        \* serial numbers
  Platforms,    \* PLATFORMS: sensor, binary_sensor, button, datetime
  Features,     \* the quantities with an entity of their own
  PlatformOf,   \* [Features -> Platforms]
  Frames,       \* the sets of features a frame may show
  Renamed,      \* the entities that may be in the registry under a former key
  MaxEvents     \* bound: set-ups of the platforms that fail, entities the user
                \* enables or disables, restarts, and reloads the user asks for

ASSUME PlatformAssumption == PlatformOf \in [Features -> Platforms]
Entities == Units \X Features

ASSUME FrameAssumption == Frames \subseteq SUBSET Features /\ Features \in Frames

ASSUME RenamedAssumption == Renamed \subseteq Entities

ASSUME BoundAssumption == MaxEvents \in Nat

RegistryStates == {"none", "enabled", "integration", "user"}

VARIABLES
  entry,      \* the entry: down, loaded, or saving in the awaits of its unload
  known,      \* the units in coordinator.data
  features,   \* device.features of each
  discovered, \* runtime_data.device_discovered
  ready,      \* coordinator.platforms_ready
  asked,      \* a task of new_device_callback has not started yet
  toDo,       \* the platforms a set-up under way has still to set up
  running,    \* a set-up is under way
  up,         \* the platforms Home Assistant has set up for the entry
  listening,  \* the platforms whose listeners the coordinator calls
  registry,   \* the registry's entry of each entity: absent, enabled, or
              \* disabled by the integration or by the user
  old,        \* the registry's entry under the former key
  added,      \* the entities Home Assistant shows and updates
  reload,     \* Home Assistant will reload the entry
  everShown,  \* history: the entities whose quantity has ever arrived
  events      \* how many of MaxEvents there have been

coordinator == <<known, features, asked>>
setUp == <<discovered, ready, toDo, running, up, listening>>
entities == <<registry, old, added, reload>>
vars == <<entry, coordinator, setUp, entities, everShown, events>>

\* One of the events that are bounded.
Event == events < MaxEvents /\ events' = events + 1

Of(P) == {e \in Entities : PlatformOf[e[2]] \in P}
Shown == {e \in Entities : e[1] \in known /\ e[2] \in features[e[1]]}

\* Mutant: whatever disabled it.
EnabledWhoever(reg, E) ==
  [e \in Entities |->
    IF e \in E /\ reg[e] # "none" THEN "enabled" ELSE reg[e]]

\* async_enable_entities: only what the integration disabled, never the user's.
Enabled(reg, E) ==
  [e \in Entities |->
    IF e \in E /\ reg[e] = "integration" THEN "enabled" ELSE reg[e]]

\* Mutant: every entity starts enabled.
RegisteredEnabled(reg, E, showing) ==
  [e \in Entities |-> IF e \in E /\ reg[e] = "none" THEN "enabled" ELSE reg[e]]

\* async_add_entities makes a registry entry for a new entity, as its
\* _attr_entity_registry_enabled_default says.
Registered(reg, E, showing) ==
  [e \in Entities |->
    IF e \in E /\ reg[e] = "none"
    THEN IF e \in showing THEN "enabled" ELSE "integration"
    ELSE reg[e]]

\* Mutant: nothing is renamed.
MovesNone(p) == {}

\* async_migrate_unique_ids: the old entry takes the new key unless that exists.
Moves(p) ==
  {e \in Of({p}) : old[e] # "none" /\ registry[e] = "none"}

Init ==
  /\ entry = "down"
  /\ known = {} /\ features = [u \in Units |-> {}]
  /\ discovered = FALSE /\ ready = FALSE /\ asked = FALSE
  /\ toDo = {} /\ running = FALSE /\ up = {} /\ listening = {}
  /\ registry = [e \in Entities |-> "none"]
  /\ old \in {o \in [Entities -> {"none", "enabled", "user"}] :
               \A e \in Entities \ Renamed : o[e] = "none"}
  /\ added = {} /\ reload = FALSE
  /\ everShown = {e \in Entities : old[e] = "enabled"}
  /\ events = 0

-----------------------------------------------------------------------------
(* Set-up of the entry *)

\* async_setup_entry: a new coordinator, and the server starts.
SetUpEntry ==
  /\ entry = "down"
  /\ entry' = "loaded"
  /\ discovered' = FALSE /\ ready' = FALSE
  /\ UNCHANGED <<coordinator, toDo, running, up, listening, entities, everShown, events>>

-----------------------------------------------------------------------------
(* Frames *)

\* _store_device: what the unit has shown only grows.
Merged(u, S) == IF u \in known THEN S \cup features[u] ELSE S

\* Mutant: compared after the features have been merged.
GrownNothing(u, S) == {}

\* What the frame adds to a known unit's features.
Grown(u, S) == IF u \in known THEN S \ features[u] ELSE {}

\* Mutant: only a new unit's first frame asks.
AskedOnce(u) == asked \/ u \notin known

\* Asks for the set-up while it is not done, with a task of its own; of several
\* that wait, all but the first find device_discovered set or repeat its try.
Asked(u) == asked \/ u \notin known \/ ~ready

\* Mutant: the entities are added before they are enabled, and not enabled.
AddNewDeviceAsRegistered(u, S) ==
  LET here == {e \in Of(listening \cap up) : e[1] = u}
      showing == {e \in here : e[2] \in S}
  IN  /\ registry' = Registered(registry, here, showing)
      /\ added' = added \cup {e \in here : registry'[e] = "enabled"}
      /\ UNCHANGED reload

\* _add_new_device of every listening platform, for a unit just seen.
AddNewDevice(u, S) ==
  LET E == {e \in Of(listening) : e[1] = u}
      showing == {e \in E : e[2] \in S}
      enabled == Enabled(registry, showing)
      here == E \cap Of(up)
  IN  /\ registry' = Registered(enabled, here, showing)
      /\ added' = added \cup {e \in here : registry'[e] = "enabled"}
      /\ reload' = (reload \/ enabled # registry)

\* _add_new_features of every listening platform: the entities exist already.
AddNewFeatures(u, grown) ==
  /\ registry' =
       Enabled(registry, {e \in Of(listening) : e[1] = u /\ e[2] \in grown})
  /\ reload' = (reload \/ registry' # registry)
  /\ UNCHANGED added

\* devices_update_callback, with a frame that shows the features S.
DevicesUpdate(u, S) ==
  /\ entry \in {"loaded", "saving"}
  /\ known' = known \cup {u}
  /\ features' = [features EXCEPT ![u] = Merged(u, S)]
  /\ asked' = Asked(u)
  /\ everShown' = everShown \cup {<<u, f>> : f \in S}
  /\ \/ u \notin known /\ AddNewDevice(u, S)
     \/ u \in known /\ Grown(u, S) # {} /\ AddNewFeatures(u, Grown(u, S))
     \/ u \in known /\ Grown(u, S) = {} /\ UNCHANGED <<registry, added, reload>>
  /\ UNCHANGED <<entry, setUp, old, events>>

-----------------------------------------------------------------------------
(* Set-up of the platforms *)

\* new_device_callback starts, and sets them up unless that has been done.
NewDeviceCallback ==
  /\ asked /\ asked' = FALSE
  /\ IF discovered
     THEN UNCHANGED <<discovered, toDo, running>>
     ELSE /\ discovered' = TRUE
          /\ running' = TRUE /\ toDo' = Platforms
  /\ UNCHANGED <<entry, known, features, ready, up, listening, entities, everShown, events>>

\* Mutant: only new entities start enabled, those of earlier runs stay as they are.
SetUpPlatformNoEnable(p) ==
  /\ running /\ p \in toDo /\ toDo \cap up = {}
  /\ toDo' = toDo \ {p}
  /\ up' = up \cup {p}
  /\ listening' = listening \cup {p}
  /\ LET E == {e \in Of({p}) : e[1] \in known}
         moved == [e \in Entities |-> IF e \in Moves(p) THEN old[e] ELSE registry[e]]
     IN  /\ old' = [e \in Entities |-> IF e \in Moves(p) THEN "none" ELSE old[e]]
         /\ registry' = Registered(moved, E, Shown)
         /\ added' = added \cup {e \in E : registry'[e] = "enabled"}
  /\ UNCHANGED <<entry, coordinator, discovered, ready, running, reload, everShown, events>>

\* async_setup_entry of one platform: rename and add, then enable what the
\* units have shown (async_setup_platform_entities), and listen.
SetUpPlatform(p) ==
  /\ running /\ p \in toDo /\ toDo \cap up = {}
  /\ toDo' = toDo \ {p}
  /\ up' = up \cup {p}
  /\ listening' = listening \cup {p}
  /\ LET E == {e \in Of({p}) : e[1] \in known}
         moved == [e \in Entities |-> IF e \in Moves(p) THEN old[e] ELSE registry[e]]
         registered == Registered(moved, E, Shown)
     IN  /\ old' = [e \in Entities |-> IF e \in Moves(p) THEN "none" ELSE old[e]]
         /\ registry' = Enabled(registered, E \cap Shown)
         /\ added' = added \cup {e \in E : registered[e] = "enabled"}
         /\ reload' = (reload \/ registry' # registered)
  /\ UNCHANGED <<entry, coordinator, discovered, ready, running, everShown, events>>

\* All platforms are set up: frames stop asking.
SetUpDone ==
  /\ running /\ toDo = {}
  /\ running' = FALSE /\ ready' = TRUE
  /\ UNCHANGED <<entry, coordinator, discovered, toDo, up, listening, entities, everShown, events>>

\* Mutant: a failed set-up leaves device_discovered as it is.
SetUpFailsForGood ==
  /\ running /\ toDo = Platforms
  /\ IF up = {} THEN Event ELSE UNCHANGED events
  /\ running' = FALSE /\ toDo' = {}
  /\ UNCHANGED <<entry, coordinator, discovered, ready, up, listening, entities, everShown>>

\* The set-up raises before a platform is set up, or Home Assistant refuses
\* it because a platform of the entry is set up already.
SetUpFails ==
  /\ running /\ toDo = Platforms
  /\ IF up = {} THEN Event ELSE UNCHANGED events
  /\ running' = FALSE /\ toDo' = {} /\ discovered' = FALSE
  /\ UNCHANGED <<entry, coordinator, ready, up, listening, entities, everShown>>

-----------------------------------------------------------------------------
(* The user and Home Assistant *)

UserDisables(e) ==
  /\ Event /\ registry[e] = "enabled"
  /\ registry' = [registry EXCEPT ![e] = "user"]
  /\ added' = added \ {e}
  /\ UNCHANGED <<entry, coordinator, setUp, old, reload, everShown>>

UserEnables(e) ==
  /\ Event /\ registry[e] \in {"integration", "user"}
  /\ registry' = [registry EXCEPT ![e] = "enabled"]
  /\ reload' = TRUE
  /\ UNCHANGED <<entry, coordinator, setUp, old, added, everShown>>

\* The first half of async_unload_entry.
Unload ==
  /\ entry = "loaded" /\ ~running
  /\ IF reload THEN UNCHANGED events ELSE Event
  /\ entry' = "saving" /\ reload' = FALSE
  /\ IF discovered THEN up' = {} /\ added' = {} ELSE UNCHANGED <<up, added>>
  /\ UNCHANGED <<coordinator, discovered, ready, toDo, running, listening,
                 registry, old, everShown>>

\* The stores are saved and the server removed: tasks of frames have run.  The
\* listeners go with the entry, the coordinator's data with its object.
Unloaded ==
  /\ entry = "saving" /\ ~asked /\ ~running
  /\ entry' = "down"
  /\ known' = {} /\ features' = [u \in Units |-> {}]
  /\ listening' = {} /\ discovered' = FALSE /\ ready' = FALSE
  /\ UNCHANGED <<asked, toDo, running, up, entities, everShown, events>>

\* Home Assistant ends, in order or not; the registry is all that stays.
Restart ==
  /\ Event
  /\ entry' = "down"
  /\ known' = {} /\ features' = [u \in Units |-> {}] /\ asked' = FALSE
  /\ discovered' = FALSE /\ ready' = FALSE /\ toDo' = {} /\ running' = FALSE
  /\ up' = {} /\ listening' = {} /\ added' = {} /\ reload' = FALSE
  /\ UNCHANGED <<registry, old, everShown>>

Next ==
  \/ SetUpEntry \/ NewDeviceCallback \/ SetUpDone \/ SetUpFails
  \/ Unload \/ Unloaded \/ Restart
  \/ \E u \in Units, S \in Frames : DevicesUpdate(u, S)
  \/ \E p \in Platforms : SetUpPlatform(p)
  \/ \E e \in Entities : UserDisables(e) \/ UserEnables(e)

Spec == Init /\ [][Next]_vars

\* The event loop runs its tasks, Home Assistant sets up what it may and
\* reloads what it said it would, and every unit sends all it has to show
\* again and again: an Aseko unit sends its whole state every few seconds.
Fairness ==
  /\ WF_vars(SetUpEntry) /\ WF_vars(NewDeviceCallback) /\ WF_vars(SetUpDone)
  /\ WF_vars(reload /\ Unload) /\ WF_vars(Unloaded)
  /\ \A p \in Platforms : WF_vars(SetUpPlatform(p))
  /\ \A u \in Units : WF_vars(DevicesUpdate(u, Features))

FairSpec == Spec /\ Fairness

-----------------------------------------------------------------------------
(* Properties *)

TypeOK ==
  /\ entry \in {"down", "loaded", "saving"}
  /\ known \subseteq Units
  /\ features \in [Units -> SUBSET Features]
  /\ discovered \in BOOLEAN /\ ready \in BOOLEAN /\ running \in BOOLEAN /\ asked \in BOOLEAN
  /\ toDo \subseteq Platforms /\ up \subseteq Platforms /\ listening \subseteq Platforms
  /\ registry \in [Entities -> RegistryStates]
  /\ old \in [Entities -> {"none", "enabled", "user"}]
  /\ added \subseteq Entities /\ everShown \subseteq Entities
  /\ reload \in BOOLEAN
  /\ events \in 0..MaxEvents

\* A platform that was left set up by an unload that saw no set-up: the first
\* frame came in during the unload's awaits.
Stranded == up \ listening # {}

\* Once a platform listens, the entity of every quantity a unit has shown is
\* enabled or the user's to enable, and an enabled one is on show or a reload
\* that will bring it has been asked for: however frames, set-ups, renames
\* and reloads interleave, none is left out.
NoneLeftOut ==
  \A e \in Of(listening \cap up) :
    e[1] \in known =>
      /\ e \in Shown => registry[e] \in {"enabled", "user"}
      /\ entry = "loaded" /\ registry[e] = "enabled" => e \in added \/ reload

\* A set-up of the platforms is under way or done exactly while
\* device_discovered says so, and never for one that is up: no two set-ups
\* run at once, and none is forgotten after a failure.
OneSetUp ==
  /\ running => discovered /\ ~ready
  /\ ready => discovered /\ toDo = {}
  /\ entry = "loaded" /\ discovered /\ ~running => ready
  /\ entry = "loaded" /\ running /\ up \cap toDo = {} => up \cup toDo = Platforms
  /\ added \subseteq Of(up)

\* The registry's entry of an entity, under its former key if that is all.
Held(e) == IF registry[e] = "none" THEN old[e] ELSE registry[e]

Promise == INSTANCE EntityOffer WITH
             shown <- everShown,
             offered <- {e \in Entities : Held(e) = "enabled"},
             refused <- {e \in Entities : Held(e) = "user"}

\* The entities do what EntityOffer promises: enabled once shown and not
\* before, then for good, and the user's refusal - also one made under a
\* former key - is only the user's to undo.
PromiseKept == Promise!Spec

\* With units that keep sending, every entity is on show in the end, unless
\* the user disabled it, whatever set-ups failed and whatever was restarted;
\* except on platforms stranded by an unload before the first frame.
EverythingAppears ==
  <>[](\/ Stranded
       \/ \A e \in Entities : e \in added \/ registry[e] = "user")
=============================================================================
