-------------------------- MODULE EntryUnitsProofs --------------------------
(***************************************************************************)
(* Proofs about the units of an entry, for every set of units, platforms and *)
(* features and every bound: the state is typed, there is one set-up of the  *)
(* platforms at a time, no entity of a listening platform is left out, and   *)
(* the entry keeps the promise of EntityOffer.                               *)
(*                                                                         *)
(* Three facts make these inductive: an entry that is down has nothing under *)
(* way, a platform that is up has no entity under a former key and all       *)
(* entities of the known units in the registry, and what a known unit shows  *)
(* has been shown.                                                           *)
(*                                                                         *)
(* The second part is about the device of one unit (UnitDevice), for every   *)
(* frame of every kind of unit: each quantity is read from places of its     *)
(* own, nothing of a former set-up is shown, what is shown as running runs,  *)
(* and a feature that was shown stays.  The stored device is what the last   *)
(* frame fills a blank one with; filling goes through the features in the    *)
(* order of their dependencies, and each step leaves every quantity with     *)
(* places that are its own.                                                  *)
(***************************************************************************)
EXTENDS EntryUnits, UnitDevice, FiniteSetTheorems, WellFoundedInduction, TLAPS

-----------------------------------------------------------------------------
(* Operators on the registry *)

LEMMA EntityFacts ==
  ASSUME NEW e \in Entities
  PROVE  e[1] \in Units /\ e[2] \in Features /\ PlatformOf[e[2]] \in Platforms
BY PlatformAssumption DEF PlatformAssumption, Entities

LEMMA EnabledFacts ==
  ASSUME NEW reg \in [Entities -> RegistryStates], NEW E
  PROVE  /\ Enabled(reg, E) \in [Entities -> RegistryStates]
         /\ \A e \in Entities :
              /\ Enabled(reg, E)[e] = reg[e] \/ (e \in E /\ reg[e] = "integration"
                                                 /\ Enabled(reg, E)[e] = "enabled")
              /\ e \in E => Enabled(reg, E)[e] # "integration"
BY DEF Enabled, RegistryStates

LEMMA RegisteredFacts ==
  ASSUME NEW reg \in [Entities -> RegistryStates], NEW E, NEW showing
  PROVE  /\ Registered(reg, E, showing) \in [Entities -> RegistryStates]
         /\ \A e \in Entities :
              /\ reg[e] # "none" => Registered(reg, E, showing)[e] = reg[e]
              /\ e \notin E => Registered(reg, E, showing)[e] = reg[e]
              /\ e \in E /\ reg[e] = "none" =>
                   Registered(reg, E, showing)[e] =
                     IF e \in showing THEN "enabled" ELSE "integration"
BY DEF Registered, RegistryStates

-----------------------------------------------------------------------------
(* Types *)

EntryTyped ==
  /\ entry \in {"down", "loaded", "saving"}
  /\ known \subseteq Units
  /\ features \in [Units -> SUBSET Features]
  /\ events \in 0..MaxEvents

SetUpTyped ==
  /\ discovered \in BOOLEAN /\ ready \in BOOLEAN /\ running \in BOOLEAN /\ asked \in BOOLEAN
  /\ toDo \subseteq Platforms /\ up \subseteq Platforms /\ listening \subseteq Platforms

RegistryTyped ==
  /\ registry \in [Entities -> RegistryStates]
  /\ old \in [Entities -> {"none", "enabled", "user"}]
  /\ added \subseteq Entities /\ everShown \subseteq Entities
  /\ reload \in BOOLEAN

LEMMA TypeParts == TypeOK <=> EntryTyped /\ SetUpTyped /\ RegistryTyped
BY DEF TypeOK, EntryTyped, SetUpTyped, RegistryTyped

LEMMA TypeInit == Init => TypeOK
<1> SUFFICES ASSUME Init PROVE TypeOK
  OBVIOUS
<1>1. EntryTyped
  BY BoundAssumption DEF Init, EntryTyped, BoundAssumption
<1>3. SetUpTyped
  BY DEF Init, SetUpTyped
<1>2. RegistryTyped
  BY DEF Init, RegistryTyped, RegistryStates
<1>. QED  BY <1>1, <1>2, <1>3, TypeParts

LEMMA EventTyped == ASSUME EntryTyped, Event PROVE events' \in 0..MaxEvents
BY BoundAssumption DEF EntryTyped, Event, BoundAssumption

\* What a frame adds to the registry, the entities on show and the reload.
LEMMA AddNewDeviceTyped ==
  ASSUME RegistryTyped, NEW u \in Units, NEW S, AddNewDevice(u, S)
  PROVE  /\ registry' \in [Entities -> RegistryStates]
         /\ added' \subseteq Entities /\ reload' \in BOOLEAN
<1> DEFINE E == {e \in Of(listening) : e[1] = u}
           showing == {e \in E : e[2] \in S}
           enabled == Enabled(registry, showing)
           here == E \cap Of(up)
<1>1. enabled \in [Entities -> RegistryStates]
  BY EnabledFacts DEF RegistryTyped
<1>2. registry' = Registered(enabled, here, showing)
  BY DEF AddNewDevice
<1>3. registry' \in [Entities -> RegistryStates]
  BY <1>1, <1>2, RegisteredFacts
<1>4. added' = added \cup {e \in here : registry'[e] = "enabled"}
      /\ reload' = (reload \/ enabled # registry)
  BY DEF AddNewDevice
<1>5. here \subseteq Entities
  BY DEF Of
<1>. QED  BY <1>3, <1>4, <1>5 DEF RegistryTyped

LEMMA TypeStep == TypeOK /\ [Next]_vars => TypeOK'
<1> SUFFICES ASSUME EntryTyped, SetUpTyped, RegistryTyped, [Next]_vars
             PROVE  EntryTyped' /\ SetUpTyped' /\ RegistryTyped'
  BY DEF TypeOK, EntryTyped, SetUpTyped, RegistryTyped
<1> USE DEF coordinator, setUp, entities
<1>1. CASE SetUpEntry
  BY <1>1 DEF SetUpEntry, EntryTyped, SetUpTyped, RegistryTyped
<1>2. CASE NewDeviceCallback
  BY <1>2 DEF NewDeviceCallback, EntryTyped, SetUpTyped, RegistryTyped
<1>3. CASE SetUpDone
  BY <1>3 DEF SetUpDone, EntryTyped, SetUpTyped, RegistryTyped
<1>4. CASE SetUpFails
  <2>1. events' \in 0..MaxEvents
    BY <1>4, EventTyped DEF SetUpFails, EntryTyped
  <2>. QED  BY <1>4, <2>1 DEF SetUpFails, EntryTyped, SetUpTyped, RegistryTyped
<1>5. CASE Unload
  <2>1. events' \in 0..MaxEvents
    BY <1>5, EventTyped DEF Unload, EntryTyped
  <2>. QED  BY <1>5, <2>1 DEF Unload, EntryTyped, SetUpTyped, RegistryTyped
<1>6. CASE Unloaded
  BY <1>6 DEF Unloaded, EntryTyped, SetUpTyped, RegistryTyped
<1>7. CASE Restart
  <2>1. events' \in 0..MaxEvents
    BY <1>7, EventTyped DEF Restart
  <2>. QED  BY <1>7, <2>1 DEF Restart, EntryTyped, SetUpTyped, RegistryTyped
<1>8. ASSUME NEW u \in Units, NEW S \in Frames, DevicesUpdate(u, S)
      PROVE  EntryTyped' /\ SetUpTyped' /\ RegistryTyped'
  <2>1. S \subseteq Features
    BY FrameAssumption DEF FrameAssumption
  <2>2. Merged(u, S) \subseteq Features
    BY <2>1 DEF Merged, EntryTyped
  <2>3. EntryTyped'
    BY <1>8, <2>2 DEF DevicesUpdate, EntryTyped
  <2>4. SetUpTyped'
    BY <1>8 DEF DevicesUpdate, SetUpTyped, Asked
  <2>5. everShown' \subseteq Entities /\ old' = old
    BY <1>8, <2>1 DEF DevicesUpdate, RegistryTyped, Entities
  <2>6. ASSUME AddNewDevice(u, S) PROVE RegistryTyped'
    BY <2>5, <2>6, AddNewDeviceTyped DEF RegistryTyped
  <2>7. ASSUME AddNewFeatures(u, Grown(u, S)) PROVE RegistryTyped'
    <3>1. registry' \in [Entities -> RegistryStates]
      BY <2>7, EnabledFacts DEF AddNewFeatures, RegistryTyped
    <3>. QED  BY <2>5, <2>7, <3>1 DEF AddNewFeatures, RegistryTyped
  <2>8. ASSUME UNCHANGED <<registry, added, reload>> PROVE RegistryTyped'
    BY <2>5, <2>8 DEF RegistryTyped
  <2>. QED  BY <1>8, <2>3, <2>4, <2>6, <2>7, <2>8 DEF DevicesUpdate
<1>9. ASSUME NEW p \in Platforms, SetUpPlatform(p)
      PROVE  EntryTyped' /\ SetUpTyped' /\ RegistryTyped'
  <2> DEFINE E == {e \in Of({p}) : e[1] \in known}
             moved == [e \in Entities |-> IF e \in Moves(p) THEN old[e] ELSE registry[e]]
             registered == Registered(moved, E, Shown)
  <2>1. moved \in [Entities -> RegistryStates]
    BY DEF RegistryTyped, RegistryStates
  <2>2. registered \in [Entities -> RegistryStates]
    BY <2>1, RegisteredFacts
  <2>3. registry' \in [Entities -> RegistryStates]
    <3>1. registry' = Enabled(registered, E \cap Shown)
      BY <1>9 DEF SetUpPlatform
    <3> HIDE DEF registered
    <3>. QED  BY <2>2, <3>1, EnabledFacts
  <2>4. old' \in [Entities -> {"none", "enabled", "user"}]
    BY <1>9 DEF SetUpPlatform, RegistryTyped
  <2>5. added' \subseteq Entities /\ reload' \in BOOLEAN
    BY <1>9 DEF SetUpPlatform, RegistryTyped, Of
  <2>6. RegistryTyped'
    BY <1>9, <2>3, <2>4, <2>5 DEF SetUpPlatform, RegistryTyped
  <2>. QED  BY <1>9, <2>6 DEF SetUpPlatform, EntryTyped, SetUpTyped
<1>10. ASSUME NEW e \in Entities, UserDisables(e) \/ UserEnables(e)
       PROVE  EntryTyped' /\ SetUpTyped' /\ RegistryTyped'
  <2>1. events' \in 0..MaxEvents
    BY <1>10, EventTyped DEF UserDisables, UserEnables
  <2>2. registry' \in [Entities -> RegistryStates]
    BY <1>10 DEF UserDisables, UserEnables, RegistryTyped, RegistryStates
  <2>. QED  BY <1>10, <2>1, <2>2 DEF UserDisables, UserEnables, EntryTyped, SetUpTyped,
                                     RegistryTyped
<1>11. CASE UNCHANGED vars
  BY <1>11 DEF vars, EntryTyped, SetUpTyped, RegistryTyped
<1>. QED
  BY <1>1, <1>2, <1>3, <1>4, <1>5, <1>6, <1>7, <1>8, <1>9, <1>10, <1>11 DEF Next

\* Every reachable state of the entry is typed: whatever its units send and
\* whenever it is reloaded, the coordinator, the set-up of the platforms and the
\* registry hold what the code expects in them.
THEOREM EntryIsTyped == Spec => []TypeOK
BY TypeInit, TypeStep, PTL DEF Spec

-----------------------------------------------------------------------------
(* One set-up of the platforms *)

\* An entry that is down has no task and no set-up under way, and knows nothing.
DownIsQuiet ==
  entry = "down" =>
    /\ ~running /\ ~asked /\ ~discovered /\ ~ready
    /\ known = {} /\ listening = {}

LEMMA DownStep == TypeOK /\ DownIsQuiet /\ [Next]_vars => DownIsQuiet'
<1> SUFFICES ASSUME TypeOK, DownIsQuiet, [Next]_vars PROVE DownIsQuiet'
  OBVIOUS
<1> USE DEF DownIsQuiet, coordinator, setUp
<1>1. CASE SetUpEntry \/ Unload \/ Unloaded \/ Restart
  BY <1>1 DEF SetUpEntry, Unload, Unloaded, Restart
<1>2. CASE NewDeviceCallback \/ SetUpDone \/ SetUpFails
  BY <1>2 DEF NewDeviceCallback, SetUpDone, SetUpFails
<1>3. ASSUME NEW u \in Units, NEW S \in Frames, DevicesUpdate(u, S)
      PROVE  DownIsQuiet'
  BY <1>3 DEF DevicesUpdate
<1>4. ASSUME NEW p \in Platforms, SetUpPlatform(p) PROVE DownIsQuiet'
  BY <1>4 DEF SetUpPlatform
<1>5. ASSUME NEW e \in Entities, UserDisables(e) \/ UserEnables(e)
      PROVE  DownIsQuiet'
  BY <1>5 DEF UserDisables, UserEnables
<1>6. CASE UNCHANGED vars
  BY <1>6 DEF vars
<1>. QED  BY <1>1, <1>2, <1>3, <1>4, <1>5, <1>6 DEF Next

LEMMA OneSetUpStep ==
  TypeOK /\ DownIsQuiet /\ OneSetUp /\ [Next]_vars => OneSetUp'
<1> SUFFICES ASSUME TypeOK, DownIsQuiet, OneSetUp, [Next]_vars PROVE OneSetUp'
  OBVIOUS
<1> USE DEF OneSetUp, coordinator, setUp, entities
<1>1. CASE SetUpEntry
  BY <1>1 DEF SetUpEntry, DownIsQuiet, Of
<1>2. CASE NewDeviceCallback
  <2>1. up \subseteq Platforms
    BY DEF TypeOK
  <2>. QED  BY <1>2, <2>1 DEF NewDeviceCallback, Of
<1>3. CASE SetUpDone \/ SetUpFails
  BY <1>3 DEF SetUpDone, SetUpFails, Of
<1>4. CASE Unload \/ Unloaded \/ Restart
  BY <1>4 DEF Unload, Unloaded, Restart, Of
<1>5. ASSUME NEW u \in Units, NEW S \in Frames, DevicesUpdate(u, S)
      PROVE  OneSetUp'
  <2>1. added' \subseteq Of(up)
    BY <1>5 DEF DevicesUpdate, AddNewDevice, AddNewFeatures
  <2>. QED  BY <1>5, <2>1 DEF DevicesUpdate, Of
<1>6. ASSUME NEW p \in Platforms, SetUpPlatform(p) PROVE OneSetUp'
  <2>1. added' \subseteq Of(up')
    BY <1>6 DEF SetUpPlatform, Of
  <2>2. up' \cap toDo' = {} => up \cap toDo = {} /\ up' \cup toDo' = up \cup toDo
    BY <1>6 DEF SetUpPlatform
  <2>3. up' = up \cup {p} /\ Of(up)' = Of(up')
    BY <1>6 DEF SetUpPlatform, Of
  <2>. QED  BY <1>6, <2>1, <2>2, <2>3 DEF SetUpPlatform
<1>7. ASSUME NEW e \in Entities, UserDisables(e) \/ UserEnables(e) PROVE OneSetUp'
  BY <1>7 DEF UserDisables, UserEnables, Of
<1>8. CASE UNCHANGED vars
  BY <1>8 DEF vars, Of
<1>. QED  BY <1>1, <1>2, <1>3, <1>4, <1>5, <1>6, <1>7, <1>8 DEF Next

\* The platforms are set up once at a time, a set-up that failed can be tried
\* again, and nothing is on show on a platform that is not set up: whatever
\* frames, tasks and reloads come in between.
THEOREM SetUpIsSingle == Spec => []OneSetUp
<1>1. Init => TypeOK /\ DownIsQuiet /\ OneSetUp
  BY TypeInit DEF Init, DownIsQuiet, OneSetUp
<1>2. TypeOK /\ DownIsQuiet /\ OneSetUp /\ [Next]_vars
        => (TypeOK /\ DownIsQuiet /\ OneSetUp)'
  BY TypeStep, DownStep, OneSetUpStep
<1>. QED  BY <1>1, <1>2, PTL DEF Spec

-----------------------------------------------------------------------------
(* What frames and set-ups do to the registry *)

\* The registry's entry goes by the new key only, and on a platform that is up
\* there is none under the former one.
NoneFormer ==
  \A e \in Entities : old[e] # "none" => registry[e] = "none" /\ e \notin Of(up)

\* A new unit's entities: those on show are enabled where the integration had
\* disabled them, and those of the platforms that are up are registered.
LEMMA NewDeviceEffect ==
  ASSUME TypeOK, NEW u \in Units, NEW S, AddNewDevice(u, S), NEW e \in Entities
  PROVE  /\ \/ registry'[e] = registry[e]
            \/ /\ registry[e] = "integration" /\ registry'[e] = "enabled"
               /\ e[1] = u /\ e[2] \in S
            \/ /\ registry[e] = "none" /\ e \in Of(up) /\ e[1] = u
               /\ registry'[e] = IF e[2] \in S THEN "enabled" ELSE "integration"
         /\ e \in Of(listening \cap up) /\ e[1] = u =>
              /\ registry'[e] # "none"
              /\ e[2] \in S => registry'[e] # "integration"
              /\ registry'[e] = "enabled" => e \in added'
         /\ e \in added => e \in added'
         /\ registry'[e] = "enabled" /\ e[1] # u => registry[e] = "enabled"
         /\ reload => reload'
<1> DEFINE E == {x \in Of(listening) : x[1] = u}
           showing == {x \in E : x[2] \in S}
           enabled == Enabled(registry, showing)
           here == E \cap Of(up)
<1>1. enabled \in [Entities -> RegistryStates]
  BY EnabledFacts DEF TypeOK
<1>2. registry' = Registered(enabled, here, showing)
      /\ added' = added \cup {x \in here : registry'[x] = "enabled"}
      /\ reload' = (reload \/ enabled # registry)
  BY DEF AddNewDevice
<1>3. \/ enabled[e] = registry[e]
      \/ e \in showing /\ registry[e] = "integration" /\ enabled[e] = "enabled"
  BY EnabledFacts DEF TypeOK
<1>4. e \in showing => enabled[e] # "integration"
  BY EnabledFacts DEF TypeOK
<1>5. /\ enabled[e] # "none" => registry'[e] = enabled[e]
      /\ e \notin here => registry'[e] = enabled[e]
      /\ e \in here /\ enabled[e] = "none" =>
           registry'[e] = IF e \in showing THEN "enabled" ELSE "integration"
  <2> HIDE DEF enabled, here, showing
  <2>. QED  BY <1>1, <1>2, RegisteredFacts
<1>6. e \in Of(listening \cap up) /\ e[1] = u => e \in here
  BY DEF Of
<1>7. e \in here /\ e[2] \in S => e \in showing
  OBVIOUS
<1>8. e \in showing => e[1] = u /\ e[2] \in S
  OBVIOUS
<1>9. e \in here => e \in Of(up) /\ e[1] = u
  OBVIOUS
<1> HIDE DEF enabled, here, showing
<1>. QED  BY <1>2, <1>3, <1>4, <1>5, <1>6, <1>7, <1>8, <1>9

\* A platform's set-up: former keys become the new ones, the known units'
\* entities are registered, and what the units have shown is enabled.
LEMMA SetUpEffect ==
  ASSUME TypeOK, NoneFormer, NEW p \in Platforms, SetUpPlatform(p), NEW e \in Entities
  PROVE  /\ e \notin Of({p}) => registry'[e] = registry[e] /\ old'[e] = old[e]
         /\ e \in Of({p}) /\ old[e] # "none" =>
              registry'[e] = old[e] /\ old'[e] = "none"
         /\ e \in Of({p}) /\ old[e] = "none" =>
              /\ old'[e] = "none"
              /\ \/ registry'[e] = registry[e]
                 \/ registry[e] \in {"none", "integration"} /\ registry'[e] = "enabled"
                    /\ e \in Shown
                 \/ registry[e] = "none" /\ registry'[e] = "integration"
         /\ e \in Of({p}) /\ e[1] \in known =>
              /\ registry'[e] # "none"
              /\ e \in Shown => registry'[e] # "integration"
              /\ registry'[e] = "enabled" => e \in added' \/ reload'
         /\ e \in added => e \in added'
         /\ reload => reload'
<1> DEFINE E == {x \in Of({p}) : x[1] \in known}
           moved == [x \in Entities |-> IF x \in Moves(p) THEN old[x] ELSE registry[x]]
           registered == Registered(moved, E, Shown)
<1>1. moved \in [Entities -> RegistryStates]
  BY DEF TypeOK, RegistryStates
<1>2. registered \in [Entities -> RegistryStates]
  BY <1>1, RegisteredFacts
<1>3. /\ old' = [x \in Entities |-> IF x \in Moves(p) THEN "none" ELSE old[x]]
      /\ registry' = Enabled(registered, E \cap Shown)
      /\ added' = added \cup {x \in E : registered[x] = "enabled"}
      /\ reload' = (reload \/ registry' # registered)
  BY DEF SetUpPlatform
<1>4. e \in Moves(p) <=> e \in Of({p}) /\ old[e] # "none"
  BY DEF Moves, NoneFormer
<1>5. old'[e] = IF e \in Of({p}) THEN "none" ELSE old[e]
  BY <1>3, <1>4
<1>6. moved[e] = IF e \in Of({p}) /\ old[e] # "none" THEN old[e] ELSE registry[e]
  BY <1>4
<1>7. /\ moved[e] # "none" => registered[e] = moved[e]
      /\ e \notin E => registered[e] = moved[e]
      /\ e \in E /\ moved[e] = "none" =>
           registered[e] = IF e \in Shown THEN "enabled" ELSE "integration"
  <2>1. registered = Registered(moved, E, Shown)
    OBVIOUS
  <2> HIDE DEF moved, E, registered
  <2>. QED  BY <1>1, <2>1, RegisteredFacts
<1>8. /\ \/ registry'[e] = registered[e]
         \/ /\ e \in E \cap Shown /\ registered[e] = "integration"
            /\ registry'[e] = "enabled"
      /\ e \in E \cap Shown => registry'[e] # "integration"
  <2> DEFINE shown == E \cap Shown
  <2>1. registry' = Enabled(registered, shown)
    BY <1>3
  <2> HIDE DEF registered, shown
  <2>2. /\ \/ registry'[e] = registered[e]
           \/ e \in shown /\ registered[e] = "integration" /\ registry'[e] = "enabled"
        /\ e \in shown => registry'[e] # "integration"
    BY <1>2, <2>1, EnabledFacts
  <2>. QED  BY <2>2 DEF shown
<1>9. e \in E <=> e \in Of({p}) /\ e[1] \in known
  OBVIOUS
<1>10. old[e] \in {"none", "enabled", "user"}
  BY DEF TypeOK
<1>11. registered[e] # registry'[e] => reload'
  BY <1>3
<1>12. registered[e] = "enabled" /\ e \in E => e \in added'
  BY <1>3
<1>13. (e \in added => e \in added') /\ (reload => reload')
  BY <1>3
<1> HIDE DEF E, moved, registered
<1>. QED  BY <1>5, <1>6, <1>7, <1>8, <1>9, <1>10, <1>11, <1>12, <1>13

\* A known unit's growing features: what is disabled by the integration is
\* enabled, and a reload will show it.
LEMMA NewFeaturesEffect ==
  ASSUME TypeOK, NEW u \in Units, NEW grown, AddNewFeatures(u, grown), NEW e \in Entities
  PROVE  /\ \/ registry'[e] = registry[e]
            \/ /\ registry[e] = "integration" /\ registry'[e] = "enabled"
               /\ e[1] = u /\ e[2] \in grown /\ reload'
         /\ e \in Of(listening) /\ e[1] = u /\ e[2] \in grown => registry'[e] # "integration"
         /\ added' = added
         /\ reload => reload'
<1> DEFINE E == {x \in Of(listening) : x[1] = u /\ x[2] \in grown}
<1>1. registry' = Enabled(registry, E) /\ added' = added
      /\ reload' = (reload \/ registry' # registry)
  BY DEF AddNewFeatures
<1>2. e \in E <=> e \in Of(listening) /\ e[1] = u /\ e[2] \in grown
  OBVIOUS
<1> HIDE DEF E
<1>3. /\ registry'[e] = registry[e] \/ (e \in E /\ registry[e] = "integration"
                                        /\ registry'[e] = "enabled")
      /\ e \in E => registry'[e] # "integration"
  BY <1>1, EnabledFacts DEF TypeOK
<1>. QED  BY <1>1, <1>2, <1>3

LEMMA NoneFormerStep == TypeOK /\ NoneFormer /\ [Next]_vars => NoneFormer'
<1> SUFFICES ASSUME TypeOK, NoneFormer, [Next]_vars,
                    NEW e \in Entities, old'[e] # "none"
             PROVE  registry'[e] = "none" /\ e \notin Of(up')
  BY DEF NoneFormer, Of
<1> USE DEF coordinator, setUp, entities
<1>1. CASE SetUpEntry \/ NewDeviceCallback \/ SetUpDone \/ SetUpFails
  BY <1>1 DEF SetUpEntry, NewDeviceCallback, SetUpDone, SetUpFails, NoneFormer, Of
<1>2. CASE Unload \/ Unloaded \/ Restart
  BY <1>2 DEF Unload, Unloaded, Restart, NoneFormer, Of
<1>3. ASSUME NEW u \in Units, NEW S \in Frames, DevicesUpdate(u, S)
      PROVE  registry'[e] = "none" /\ e \notin Of(up')
  <2>1. registry[e] = "none" /\ e \notin Of(up) /\ up' = up
    BY <1>3 DEF DevicesUpdate, NoneFormer
  <2>2. ASSUME AddNewDevice(u, S) PROVE registry'[e] = "none"
    BY <2>1, <2>2, NewDeviceEffect
  <2>3. ASSUME AddNewFeatures(u, Grown(u, S)) PROVE registry'[e] = "none"
    BY <2>1, <2>3, NewFeaturesEffect
  <2>. QED  BY <1>3, <2>1, <2>2, <2>3 DEF DevicesUpdate
<1>4. ASSUME NEW p \in Platforms, SetUpPlatform(p)
      PROVE  registry'[e] = "none" /\ e \notin Of(up')
  <2>1. e \notin Of({p}) /\ registry'[e] = registry[e] /\ old'[e] = old[e]
    BY <1>4, SetUpEffect
  <2>2. up' = up \cup {p}
    BY <1>4 DEF SetUpPlatform
  <2>. QED  BY <2>1, <2>2 DEF NoneFormer, Of
<1>5. ASSUME NEW x \in Entities, UserDisables(x) \/ UserEnables(x)
      PROVE  registry'[e] = "none" /\ e \notin Of(up')
  BY <1>5 DEF UserDisables, UserEnables, NoneFormer, TypeOK, Of
<1>6. CASE UNCHANGED vars
  BY <1>6 DEF vars, NoneFormer, Of
<1>. QED  BY <1>1, <1>2, <1>3, <1>4, <1>5, <1>6 DEF Next

-----------------------------------------------------------------------------
(* No entity is left out *)

\* The entities a listening platform has of the known units are registered.
KnownRegistered ==
  \A e \in Of(listening \cap up) : e[1] \in known => registry[e] # "none"

LEMMA KnownRegisteredStep ==
  TypeOK /\ NoneFormer /\ DownIsQuiet /\ KnownRegistered /\ [Next]_vars => KnownRegistered'
<1> SUFFICES ASSUME TypeOK, NoneFormer, DownIsQuiet, KnownRegistered, [Next]_vars,
                    NEW e \in Entities, e \in Of(listening' \cap up'), e[1] \in known'
             PROVE  registry'[e] # "none"
  BY DEF KnownRegistered, Of
<1> USE DEF coordinator, setUp, entities
<1>1. CASE SetUpEntry \/ NewDeviceCallback \/ SetUpDone \/ SetUpFails
  BY <1>1 DEF SetUpEntry, NewDeviceCallback, SetUpDone, SetUpFails, KnownRegistered
<1>2. CASE Unload \/ Unloaded \/ Restart
  BY <1>2 DEF Unload, Unloaded, Restart, KnownRegistered, Of
<1>3. ASSUME NEW u \in Units, NEW S \in Frames, DevicesUpdate(u, S)
      PROVE  registry'[e] # "none"
  <2>1. up' = up /\ listening' = listening /\ known' = known \cup {u}
    BY <1>3 DEF DevicesUpdate
  <2>2. ASSUME AddNewDevice(u, S) PROVE registry'[e] # "none"
    <3>1. CASE e[1] = u
      BY <2>1, <2>2, <3>1, NewDeviceEffect
    <3>2. CASE e[1] # u
      <4>1. registry[e] # "none"
        BY <2>1, <3>2 DEF KnownRegistered
      <4>. QED  BY <2>2, <4>1, NewDeviceEffect
    <3>. QED  BY <3>1, <3>2
  <2>3. ASSUME u \in known PROVE registry[e] # "none"
    BY <2>1, <2>3 DEF KnownRegistered
  <2>4. ASSUME u \in known, AddNewFeatures(u, Grown(u, S)) PROVE registry'[e] # "none"
    BY <2>3, <2>4, NewFeaturesEffect
  <2>. QED  BY <1>3, <2>2, <2>3, <2>4 DEF DevicesUpdate
<1>4. ASSUME NEW p \in Platforms, SetUpPlatform(p) PROVE registry'[e] # "none"
  <2>1. up' = up \cup {p} /\ listening' = listening \cup {p} /\ known' = known
    BY <1>4 DEF SetUpPlatform
  <2>2. CASE e \in Of({p})
    BY <1>4, <2>1, <2>2, SetUpEffect
  <2>3. CASE e \notin Of({p})
    <3>1. e \in Of(listening \cap up)
      BY <2>1, <2>3 DEF Of
    <3>2. registry'[e] = registry[e]
      BY <1>4, <2>3, SetUpEffect
    <3>. QED  BY <2>1, <3>1, <3>2 DEF KnownRegistered
  <2>. QED  BY <2>2, <2>3
<1>5. ASSUME NEW x \in Entities, UserDisables(x) \/ UserEnables(x)
      PROVE  registry'[e] # "none"
  BY <1>5 DEF UserDisables, UserEnables, KnownRegistered, TypeOK
<1>6. CASE UNCHANGED vars
  BY <1>6 DEF vars, KnownRegistered
<1>. QED  BY <1>1, <1>2, <1>3, <1>4, <1>5, <1>6 DEF Next

LEMMA NoneLeftOutStep ==
  TypeOK /\ TypeOK' /\ NoneFormer /\ DownIsQuiet /\ KnownRegistered /\ KnownRegistered'
    /\ NoneLeftOut /\ [Next]_vars => NoneLeftOut'
<1> DEFINE Goal(e) ==
      /\ e[2] \in features'[e[1]] => registry'[e] \in {"enabled", "user"}
      /\ entry' = "loaded" /\ registry'[e] = "enabled" => e \in added' \/ reload'
<1> SUFFICES ASSUME TypeOK, TypeOK', NoneFormer, DownIsQuiet,
                    KnownRegistered, KnownRegistered', NoneLeftOut, [Next]_vars,
                    NEW e \in Entities, e \in Of(listening' \cap up'), e[1] \in known'
             PROVE  Goal(e)
  BY DEF NoneLeftOut, Of, Shown
<1> USE DEF coordinator, setUp, entities
<1>t. e[1] \in Units
  BY EntityFacts
<1>a. registry'[e] \in {"enabled", "integration", "user"}
  <2>1. registry'[e] \in RegistryStates
    BY DEF TypeOK
  <2>2. registry'[e] # "none"
    BY DEF KnownRegistered, Of
  <2>. QED  BY <2>1, <2>2 DEF RegistryStates
<1>b. ASSUME e \in Of(listening \cap up), e[1] \in known
      PROVE  /\ e[2] \in features[e[1]] => registry[e] \in {"enabled", "user"}
             /\ entry = "loaded" /\ registry[e] = "enabled" => e \in added \/ reload
  BY <1>b DEF NoneLeftOut, Shown
<1>1. CASE SetUpEntry \/ NewDeviceCallback \/ SetUpDone \/ SetUpFails
  <2>1. listening # {}
    BY <1>1 DEF SetUpEntry, NewDeviceCallback, SetUpDone, SetUpFails, Of
  <2>2. entry # "down"
    BY <2>1 DEF DownIsQuiet
  <2>3. UNCHANGED <<entry, known, features, up, listening, registry, added, reload>>
    BY <1>1, <2>2 DEF SetUpEntry, NewDeviceCallback, SetUpDone, SetUpFails
  <2>. QED  BY <1>b, <2>3
<1>2. CASE Unload \/ Unloaded \/ Restart
  BY <1>2, <1>b DEF Unload, Unloaded, Restart, Of
<1>3. ASSUME NEW u \in Units, NEW S \in Frames, DevicesUpdate(u, S) PROVE Goal(e)
  <2>1. /\ up' = up /\ listening' = listening /\ known' = known \cup {u} /\ entry' = entry
        /\ features' = [features EXCEPT ![u] = Merged(u, S)]
    BY <1>3 DEF DevicesUpdate
  <2>2. e[1] # u => e[1] \in known /\ features'[e[1]] = features[e[1]]
    BY <2>1, <1>t DEF TypeOK
  <2>3. e[1] = u => features'[e[1]] = Merged(u, S)
    BY <2>1 DEF TypeOK
  <2>4. ASSUME u \notin known, AddNewDevice(u, S) PROVE Goal(e)
    <3>1. CASE e[1] = u
      <4>1. features'[e[1]] = S
        BY <2>3, <2>4, <3>1 DEF Merged
      <4>2. /\ e[2] \in S => registry'[e] # "integration"
            /\ registry'[e] = "enabled" => e \in added'
        BY <2>1, <2>4, <3>1, NewDeviceEffect
      <4>. QED  BY <1>a, <4>1, <4>2
    <3>2. CASE e[1] # u
      <4>1. /\ registry'[e] = registry[e]
            /\ (e \in added => e \in added') /\ (reload => reload')
        BY <2>4, <3>2, NewDeviceEffect
      <4>. QED  BY <1>b, <2>1, <2>2, <3>2, <4>1
    <3>. QED  BY <3>1, <3>2
  <2>5. ASSUME u \in known, AddNewFeatures(u, Grown(u, S)) PROVE Goal(e)
    <3>1. e[1] = u => features'[e[1]] = features[e[1]] \cup Grown(u, S)
      BY <2>3, <2>5 DEF Merged, Grown
    <3>2. e \in Of(listening)
      BY <2>1 DEF Of
    <3>3. e[1] \in known
      BY <2>1, <2>5
    <3>4. /\ \/ registry'[e] = registry[e]
             \/ registry[e] = "integration" /\ registry'[e] = "enabled" /\ reload'
          /\ e[1] = u /\ e[2] \in Grown(u, S) => registry'[e] # "integration"
          /\ added' = added
          /\ reload => reload'
      <4> DEFINE grown == Grown(u, S)
      <4>1. AddNewFeatures(u, grown)
        BY <2>5
      <4>2. \/ registry'[e] = registry[e]
            \/ registry[e] = "integration" /\ registry'[e] = "enabled" /\ reload'
        BY <4>1, NewFeaturesEffect
      <4>3. /\ e[1] = u /\ e[2] \in grown => registry'[e] # "integration"
            /\ added' = added
            /\ reload => reload'
        BY <4>1, <3>2, NewFeaturesEffect
      <4>. QED  BY <4>2, <4>3
    <3>. QED  BY <1>a, <1>b, <2>1, <2>2, <3>1, <3>3, <3>4
  <2>6. ASSUME u \in known, Grown(u, S) = {}, UNCHANGED <<registry, added, reload>>
        PROVE  Goal(e)
    <3>1. e[1] = u => features'[e[1]] = features[e[1]]
      BY <2>3, <2>6 DEF Merged, Grown
    <3>. QED  BY <1>b, <2>1, <2>2, <2>6, <3>1
  <2>. QED  BY <1>3, <2>4, <2>5, <2>6 DEF DevicesUpdate
<1>4. ASSUME NEW p \in Platforms, SetUpPlatform(p) PROVE Goal(e)
  <2>1. /\ up' = up \cup {p} /\ listening' = listening \cup {p} /\ known' = known
        /\ features' = features /\ entry' = entry
    BY <1>4 DEF SetUpPlatform
  <2>2. CASE e \in Of({p})
    <3>1. /\ e \in Shown => registry'[e] # "integration"
          /\ registry'[e] = "enabled" => e \in added' \/ reload'
      BY <1>4, <2>1, <2>2, SetUpEffect
    <3>. QED  BY <1>a, <2>1, <3>1 DEF Shown
  <2>3. CASE e \notin Of({p})
    <3>1. e \in Of(listening \cap up)
      BY <2>1, <2>3 DEF Of
    <3>2. registry'[e] = registry[e] /\ (e \in added => e \in added') /\ (reload => reload')
      BY <1>4, <2>3, SetUpEffect
    <3>. QED  BY <1>b, <2>1, <3>1, <3>2
  <2>. QED  BY <2>2, <2>3
<1>5. ASSUME NEW x \in Entities, UserDisables(x) \/ UserEnables(x) PROVE Goal(e)
  BY <1>5, <1>b DEF UserDisables, UserEnables, TypeOK
<1>6. CASE UNCHANGED vars
  BY <1>6, <1>b DEF vars
<1>. QED  BY <1>1, <1>2, <1>3, <1>4, <1>5, <1>6 DEF Next

\* The state the proofs reason from: typed, quiet when down, and with one key
\* and one entry for every entity of a unit that is known.
EntryInv == TypeOK /\ DownIsQuiet /\ NoneFormer /\ KnownRegistered

LEMMA EntryInvariant == Spec => []EntryInv
<1>1. Init => EntryInv
  BY TypeInit DEF Init, EntryInv, DownIsQuiet, NoneFormer, KnownRegistered, Of
<1>2. EntryInv /\ [Next]_vars => EntryInv'
  BY TypeStep, DownStep, NoneFormerStep, KnownRegisteredStep DEF EntryInv
<1>. QED  BY <1>1, <1>2, PTL DEF Spec

\* On a platform that listens, whatever a known unit has shown is enabled or
\* refused by its user, and what is enabled is on show or will be by a reload:
\* no interleaving of frames, set-ups, renames and reloads leaves one out.
THEOREM NoEntityLeftOut == Spec => []NoneLeftOut
<1>1. Init => NoneLeftOut
  BY DEF Init, NoneLeftOut, Of
<1>2. EntryInv /\ EntryInv' /\ NoneLeftOut /\ [Next]_vars => NoneLeftOut'
  BY NoneLeftOutStep DEF EntryInv
<1>. QED  BY <1>1, <1>2, EntryInvariant, PTL DEF Spec

-----------------------------------------------------------------------------
(* The promise of EntityOffer *)

\* What a known unit shows has arrived at some time.
ShownHasArrived == \A u \in known, f \in Features : f \in features[u] => <<u, f>> \in everShown

LEMMA ShownStep == TypeOK /\ ShownHasArrived /\ [Next]_vars => ShownHasArrived'
<1> SUFFICES ASSUME TypeOK, ShownHasArrived, [Next]_vars PROVE ShownHasArrived'
  OBVIOUS
<1> USE DEF ShownHasArrived, coordinator, setUp, entities
<1>1. CASE SetUpEntry \/ NewDeviceCallback \/ SetUpDone \/ SetUpFails
  BY <1>1 DEF SetUpEntry, NewDeviceCallback, SetUpDone, SetUpFails
<1>2. CASE Unload \/ Unloaded \/ Restart
  BY <1>2 DEF Unload, Unloaded, Restart
<1>3. ASSUME NEW u \in Units, NEW S \in Frames, DevicesUpdate(u, S)
      PROVE  ShownHasArrived'
  <2>1. /\ known' = known \cup {u} /\ features' = [features EXCEPT ![u] = Merged(u, S)]
        /\ everShown' = everShown \cup {<<u, f>> : f \in S}
    BY <1>3 DEF DevicesUpdate
  <2> SUFFICES ASSUME NEW x \in known', NEW f \in Features, f \in features'[x]
               PROVE  <<x, f>> \in everShown'
    OBVIOUS
  <2>2. CASE x = u
    <3>1. f \in S \/ (u \in known /\ f \in features[u])
      BY <2>1, <2>2 DEF Merged, TypeOK
    <3>. QED  BY <2>1, <2>2, <3>1
  <2>3. CASE x # u
    BY <2>1, <2>3 DEF TypeOK
  <2>. QED  BY <2>2, <2>3
<1>4. ASSUME NEW p \in Platforms, SetUpPlatform(p) PROVE ShownHasArrived'
  BY <1>4 DEF SetUpPlatform
<1>5. ASSUME NEW e \in Entities, UserDisables(e) \/ UserEnables(e) PROVE ShownHasArrived'
  BY <1>5 DEF UserDisables, UserEnables
<1>6. CASE UNCHANGED vars
  BY <1>6 DEF vars
<1>. QED  BY <1>1, <1>2, <1>3, <1>4, <1>5, <1>6 DEF Next

\* How a step that only offers changes the registry's entry of an entity.
OfferedTo(held, heldAfter, e) ==
  \/ heldAfter = held
  \/ held \notin {"enabled", "user"} /\ heldAfter = "integration"
  \/ held \notin {"enabled", "user"} /\ heldAfter = "enabled" /\ e \in everShown'

LEMMA OfferStep ==
  ASSUME everShown \subseteq everShown', everShown' \subseteq Entities,
         \A e \in Entities : OfferedTo(Held(e), Held(e)', e)
  PROVE  Promise!Offer
BY DEF Promise!Offer, OfferedTo

LEMMA HeldSame ==
  ASSUME UNCHANGED <<registry, old, everShown>>
  PROVE  UNCHANGED Promise!vars
BY DEF Promise!vars, Held

LEMMA PromiseStep ==
  EntryInv /\ EntryInv' /\ ShownHasArrived /\ [Next]_vars => [Promise!Next]_Promise!vars
<1> SUFFICES ASSUME EntryInv, EntryInv', ShownHasArrived, [Next]_vars
             PROVE  Promise!Next \/ UNCHANGED Promise!vars
  OBVIOUS
<1> USE DEF EntryInv, coordinator, setUp, entities
<1>t. everShown' \subseteq Entities
  BY DEF TypeOK
<1>1. CASE SetUpEntry \/ NewDeviceCallback \/ SetUpDone \/ SetUpFails
  BY <1>1, HeldSame DEF SetUpEntry, NewDeviceCallback, SetUpDone, SetUpFails
<1>2. CASE Unload \/ Unloaded \/ Restart
  BY <1>2, HeldSame DEF Unload, Unloaded, Restart
<1>3. ASSUME NEW u \in Units, NEW S \in Frames, DevicesUpdate(u, S)
      PROVE  Promise!Next
  <2>1. old' = old /\ everShown' = everShown \cup {<<u, f>> : f \in S}
    BY <1>3 DEF DevicesUpdate
  <2> SUFFICES ASSUME NEW e \in Entities PROVE OfferedTo(Held(e), Held(e)', e)
    BY <1>t, <2>1, OfferStep DEF Promise!Next
  <2>2. e[1] = u /\ e[2] \in S => e \in everShown'
    BY <2>1 DEF Entities
  <2>3. registry[e] = "none" /\ e \in Of(up) => old[e] = "none"
    BY DEF NoneFormer
  <2>4. ASSUME AddNewDevice(u, S) PROVE OfferedTo(Held(e), Held(e)', e)
    <3>1. \/ registry'[e] = registry[e]
          \/ /\ registry[e] = "integration" /\ registry'[e] = "enabled"
             /\ e[1] = u /\ e[2] \in S
          \/ /\ registry[e] = "none" /\ e \in Of(up) /\ e[1] = u
             /\ registry'[e] = IF e[2] \in S THEN "enabled" ELSE "integration"
      BY <2>4, NewDeviceEffect
    <3>. QED  BY <2>1, <2>2, <2>3, <3>1 DEF OfferedTo, Held
  <2>5. ASSUME AddNewFeatures(u, Grown(u, S)) PROVE OfferedTo(Held(e), Held(e)', e)
    <3>1. \/ registry'[e] = registry[e]
          \/ /\ registry[e] = "integration" /\ registry'[e] = "enabled"
             /\ e[1] = u /\ e[2] \in Grown(u, S)
      BY <2>5, NewFeaturesEffect
    <3>2. Grown(u, S) \subseteq S
      BY DEF Grown
    <3>. QED  BY <2>1, <2>2, <3>1, <3>2 DEF OfferedTo, Held
  <2>6. ASSUME UNCHANGED registry PROVE OfferedTo(Held(e), Held(e)', e)
    BY <2>1, <2>6 DEF OfferedTo, Held
  <2>. QED  BY <1>3, <2>4, <2>5, <2>6 DEF DevicesUpdate
<1>4. ASSUME NEW p \in Platforms, SetUpPlatform(p) PROVE Promise!Next
  <2>1. everShown' = everShown
    BY <1>4 DEF SetUpPlatform
  <2> SUFFICES ASSUME NEW e \in Entities PROVE OfferedTo(Held(e), Held(e)', e)
    BY <1>t, <2>1, OfferStep DEF Promise!Next
  <2>2. e \in Shown => e \in everShown
    BY EntityFacts DEF Shown, ShownHasArrived, Entities
  <2>3. CASE e \notin Of({p})
    BY <1>4, <2>3, SetUpEffect DEF OfferedTo, Held
  <2>4. CASE e \in Of({p}) /\ old[e] # "none"
    <3>1. registry[e] = "none"
      BY <2>4 DEF NoneFormer
    <3>2. registry'[e] = old[e]
      BY <1>4, <2>4, SetUpEffect
    <3>. QED  BY <2>4, <3>1, <3>2 DEF OfferedTo, Held
  <2>5. CASE e \in Of({p}) /\ old[e] = "none"
    <3>1. /\ old'[e] = "none"
          /\ \/ registry'[e] = registry[e]
             \/ registry[e] \in {"none", "integration"} /\ registry'[e] = "enabled"
                /\ e \in Shown
             \/ registry[e] = "none" /\ registry'[e] = "integration"
      BY <1>4, <2>5, SetUpEffect
    <3>. QED  BY <2>1, <2>2, <2>5, <3>1 DEF OfferedTo, Held
  <2>. QED  BY <2>3, <2>4, <2>5
<1>5. ASSUME NEW e \in Entities, UserDisables(e) PROVE Promise!Refuse(e)
  <2>1. /\ registry[e] = "enabled" /\ registry' = [registry EXCEPT ![e] = "user"]
        /\ old' = old /\ everShown' = everShown
    BY <1>5 DEF UserDisables
  <2>2. Held(e) = "enabled" /\ Held(e)' = "user"
    BY <2>1 DEF Held, TypeOK
  <2>3. \A x \in Entities : x # e => Held(x)' = Held(x)
    BY <2>1 DEF Held, TypeOK
  <2>. QED  BY <2>1, <2>2, <2>3 DEF Promise!Refuse
<1>6. ASSUME NEW e \in Entities, UserEnables(e) PROVE Promise!Accept(e)
  <2>1. /\ registry[e] # "none" /\ registry' = [registry EXCEPT ![e] = "enabled"]
        /\ old' = old /\ everShown' = everShown
    BY <1>6 DEF UserEnables
  <2>2. Held(e)' = "enabled"
    BY <2>1 DEF Held, TypeOK
  <2>3. \A x \in Entities : x # e => Held(x)' = Held(x)
    BY <2>1 DEF Held, TypeOK
  <2>. QED  BY <2>1, <2>2, <2>3 DEF Promise!Accept
<1>7. CASE UNCHANGED vars
  BY <1>7, HeldSame DEF vars
<1>. QED
  BY <1>1, <1>2, <1>3, <1>4, <1>5, <1>6, <1>7 DEF Next, Promise!Next

\* What an entry does to its entities is what EntityOffer promises: enabled once
\* their quantity has arrived and not before, then for good; and a refusal of
\* the user, also one made under a former key, is only the user's to undo.
THEOREM EntryKeepsPromise == Spec => PromiseKept
<1>1. Init => Promise!Init /\ ShownHasArrived
  BY DEF Init, Promise!Init, Held, ShownHasArrived, Entities
<1>2. EntryInv /\ ShownHasArrived /\ [Next]_vars => ShownHasArrived'
  BY ShownStep DEF EntryInv
<1>3. Spec => []ShownHasArrived
  BY <1>1, <1>2, EntryInvariant, PTL DEF Spec
<1>. QED
  BY <1>1, <1>3, EntryInvariant, PromiseStep, PTL DEF Spec, PromiseKept, Promise!Spec

-----------------------------------------------------------------------------
(* Induction over the places of a sequence *)

\* Places from 0 on, each there because the one before it is.
LEMMA UpTo ==
  ASSUME NEW n \in Nat, NEW B, 0 \in B, \A i \in 1..n : i - 1 \in B => i \in B
  PROVE  0..n \subseteq B
<1> DEFINE R == OpToRel(<, Nat)
           Missing == {i \in 0..n : i \notin B}
<1>1. IsWellFoundedOn(R, Nat)
  BY NatLessThanWellFounded
<1>2. \A x, y \in Nat : <<y, x>> \in R <=> y < x
  BY DEF OpToRel
<1> HIDE DEF R
<1>3. SUFFICES ASSUME Missing # {} PROVE FALSE
  OBVIOUS
<1>4. Missing \subseteq Nat
  OBVIOUS
<1>5. PICK x \in Missing : \A y \in Missing : ~(<<y, x>> \in R)
  BY <1>1, <1>3, <1>4, WFMin
<1>6. x \in 0..n /\ x # 0 /\ x \notin B
  OBVIOUS
<1>7. x \in 1..n /\ x - 1 \in 0..n /\ x - 1 < x
  BY <1>6
<1>8. x - 1 \in B
  BY <1>2, <1>4, <1>5, <1>7
<1>. QED  BY <1>6, <1>7, <1>8

-----------------------------------------------------------------------------
(* What the profiles list *)

Names ==
  {"serial_number", "configuration", "timestamp", "unit_clock", "water_temperature",
   "water_flow_to_probes", "ph", "redox", "free_chlorine", "free_chlorine_mv",
   "ph_target", "water_temperature_target", "pool_volume", "startup_delay",
   "dosing_delay", "ph_minus_flow_rate", "alarm_ph_dosing_ineffective",
   "alarm_max_disinfection_dose", "alarm_no_flow_to_probes",
   "alarm_rapid_ph_change", "filtration_period_1_start", "filtration_period_1_end",
   "filtration_period_2_start", "filtration_period_2_end", "filtration_schedule",
   "filtration_running", "backwash_interval", "backwash_start_time",
   "backwash_duration", "backwash_running", "water_level", "water_level_low_alarm",
   "water_level_refill_start", "water_level_refill_stop", "water_level_high_alarm",
   "refilling", "heating_running", "variable_speed_pump_enabled",
   "ph_minus_concentration", "free_chlorine_target", "redox_target",
   "chlorine_dose_target", "algaecide_dose_target", "flocculant_dose_target",
   "algaecide_flow_rate", "flocculant_flow_rate", "algaecide_pump_running",
   "flocculant_pump_running", "chlorine_pump_running", "ph_minus_pump_running",
   "max_refill_time", "max_ph_doses", "air_temperature", "chlorine_flow_rate",
   "heating_control_enabled", "heating_linked_to_filtration",
   "freeze_protection_enabled", "service_menu_open", "water_level_sensor_enabled",
   "flow_detection_enabled", "backwash_schedule_enabled",
   "variable_speed_pump_type", "salinity", "chlorine_production",
   "electrolysis_running", "electrode_polarity", "heating_condition",
   "heating_allowed", "oxygen_dose_target", "oxygen_flow_rate",
   "oxygen_pump_running"}

Lists(s, X) == s \in Seq(Names) /\ Range(s) = X

\* Two sequences in a row list what both list.
LEMMA Join ==
  ASSUME NEW s, NEW t, NEW X, NEW Y, Lists(s, X), Lists(t, Y)
  PROVE  Lists(s \o t, X \cup Y)
<1>1. s \in Seq(Names) /\ t \in Seq(Names) /\ X = Range(s) /\ Y = Range(t)
  BY DEF Lists
<1>2. s \o t \in Seq(Names) /\ Len(s \o t) = Len(s) + Len(t)
      /\ Len(s) \in Nat /\ Len(t) \in Nat
  BY <1>1
<1>3. \A i \in 1..Len(s) : i \in 1..Len(s \o t) /\ (s \o t)[i] = s[i]
  BY <1>1, <1>2
<1>4. \A i \in 1..Len(t) : Len(s) + i \in 1..Len(s \o t) /\ (s \o t)[Len(s) + i] = t[i]
  BY <1>1, <1>2
<1>5. \A i \in 1..Len(s \o t) : i \in 1..Len(s) \/ i - Len(s) \in 1..Len(t)
  BY <1>2
<1>6. Range(s) \subseteq Range(s \o t)
  BY <1>1, <1>2, <1>3 DEF Range
<1>7. Range(t) \subseteq Range(s \o t)
  <2>1. SUFFICES ASSUME NEW i \in 1..Len(t) PROVE t[i] \in Range(s \o t)
    BY <1>1 DEF Range
  <2>2. Len(s) + i \in DOMAIN (s \o t) /\ t[i] = (s \o t)[Len(s) + i]
    BY <1>2, <1>4
  <2>. QED  BY <2>2 DEF Range
<1>8. ASSUME NEW i \in 1..Len(s \o t) PROVE (s \o t)[i] \in Range(s) \cup Range(t)
  <2>1. CASE i \in 1..Len(s)
    BY <1>1, <1>3, <2>1 DEF Range
  <2>2. CASE i - Len(s) \in 1..Len(t)
    <3>1. (s \o t)[i] = t[i - Len(s)]
      BY <1>2, <1>4, <2>2
    <3>. QED  BY <1>1, <2>2, <3>1 DEF Range
  <2>. QED  BY <1>5, <2>1, <2>2
<1>9. Range(s \o t) \subseteq Range(s) \cup Range(t)
  BY <1>2, <1>8 DEF Range
<1>. QED  BY <1>1, <1>2, <1>6, <1>7, <1>9 DEF Lists

\* The groups that the profiles share.
LEMMA Groups ==
  /\ Lists(IDENTITY,
           {"serial_number", "configuration", "timestamp"})
  /\ Lists(CLOCK,
           {"unit_clock"})
  /\ Lists(MEASUREMENTS,
           {"water_temperature", "water_flow_to_probes"})
  /\ Lists(CHLORINE_PROBES,
           {"ph", "redox", "free_chlorine", "free_chlorine_mv"})
  /\ Lists(SETTINGS,
           {"ph_target", "water_temperature_target", "pool_volume", "startup_delay",
            "dosing_delay", "ph_minus_flow_rate"})
  /\ Lists(ALARMS,
           {"alarm_ph_dosing_ineffective", "alarm_max_disinfection_dose",
            "alarm_no_flow_to_probes", "alarm_rapid_ph_change"})
  /\ Lists(FILTRATION_FEATURES,
           {"filtration_period_1_start", "filtration_period_1_end",
            "filtration_period_2_start", "filtration_period_2_end",
            "filtration_schedule", "filtration_running"})
  /\ Lists(BACKWASH_FEATURES,
           {"backwash_interval", "backwash_start_time", "backwash_duration",
            "backwash_running"})
  /\ Lists(WATER_LEVEL,
           {"water_level", "water_level_low_alarm", "water_level_refill_start",
            "water_level_refill_stop", "water_level_high_alarm", "refilling"})
  /\ Lists(UNIT_STATE,
           {"heating_running", "variable_speed_pump_enabled",
            "ph_minus_concentration"})
  /\ Lists(DISINFECTION_SETPOINTS,
           {"free_chlorine_target", "redox_target", "chlorine_dose_target"})
  /\ Lists(THIRD_DOSES,
           {"algaecide_dose_target", "flocculant_dose_target"})
  /\ Lists(THIRD_RATES,
           {"algaecide_flow_rate", "flocculant_flow_rate"})
  /\ Lists(THIRD_PUMPS,
           {"algaecide_pump_running", "flocculant_pump_running"})
  /\ Lists(CHLORINE_PUMPS,
           {"chlorine_pump_running", "ph_minus_pump_running"})
  /\ Lists(LIMITS,
           {"max_refill_time", "max_ph_doses"})
  /\ Lists(V8_CORE,
           {"serial_number", "configuration", "timestamp", "unit_clock",
            "water_temperature", "water_flow_to_probes", "ph", "redox",
            "filtration_running", "ph_minus_pump_running"})
  /\ Lists(V8_RATE,
           {"ph_minus_flow_rate"})
  /\ Lists(V8_SETTINGS,
           {"ph_target", "redox_target", "pool_volume", "startup_delay",
            "dosing_delay"})
<1>1. Lists(IDENTITY,
           {"serial_number", "configuration", "timestamp"})
  BY DEF Lists, IDENTITY, Names, Range
<1>2. Lists(CLOCK,
           {"unit_clock"})
  BY DEF Lists, CLOCK, Names, Range
<1>3. Lists(MEASUREMENTS,
           {"water_temperature", "water_flow_to_probes"})
  BY DEF Lists, MEASUREMENTS, Names, Range
<1>4. Lists(CHLORINE_PROBES,
           {"ph", "redox", "free_chlorine", "free_chlorine_mv"})
  BY DEF Lists, CHLORINE_PROBES, Names, Range
<1>5. Lists(SETTINGS,
           {"ph_target", "water_temperature_target", "pool_volume", "startup_delay",
            "dosing_delay", "ph_minus_flow_rate"})
  BY DEF Lists, SETTINGS, Names, Range
<1>6. Lists(ALARMS,
           {"alarm_ph_dosing_ineffective", "alarm_max_disinfection_dose",
            "alarm_no_flow_to_probes", "alarm_rapid_ph_change"})
  BY DEF Lists, ALARMS, Names, Range
<1>7. Lists(FILTRATION_FEATURES,
           {"filtration_period_1_start", "filtration_period_1_end",
            "filtration_period_2_start", "filtration_period_2_end",
            "filtration_schedule", "filtration_running"})
  BY DEF Lists, FILTRATION_FEATURES, Names, Range
<1>8. Lists(BACKWASH_FEATURES,
           {"backwash_interval", "backwash_start_time", "backwash_duration",
            "backwash_running"})
  BY DEF Lists, BACKWASH_FEATURES, Names, Range
<1>9. Lists(WATER_LEVEL,
           {"water_level", "water_level_low_alarm", "water_level_refill_start",
            "water_level_refill_stop", "water_level_high_alarm", "refilling"})
  BY DEF Lists, WATER_LEVEL, Names, Range
<1>10. Lists(UNIT_STATE,
           {"heating_running", "variable_speed_pump_enabled",
            "ph_minus_concentration"})
  BY DEF Lists, UNIT_STATE, Names, Range
<1>11. Lists(DISINFECTION_SETPOINTS,
           {"free_chlorine_target", "redox_target", "chlorine_dose_target"})
  BY DEF Lists, DISINFECTION_SETPOINTS, Names, Range
<1>12. Lists(THIRD_DOSES,
           {"algaecide_dose_target", "flocculant_dose_target"})
  BY DEF Lists, THIRD_DOSES, Names, Range
<1>13. Lists(THIRD_RATES,
           {"algaecide_flow_rate", "flocculant_flow_rate"})
  BY DEF Lists, THIRD_RATES, Names, Range
<1>14. Lists(THIRD_PUMPS,
           {"algaecide_pump_running", "flocculant_pump_running"})
  BY DEF Lists, THIRD_PUMPS, Names, Range
<1>15. Lists(CHLORINE_PUMPS,
           {"chlorine_pump_running", "ph_minus_pump_running"})
  BY DEF Lists, CHLORINE_PUMPS, Names, Range
<1>16. Lists(LIMITS,
           {"max_refill_time", "max_ph_doses"})
  BY DEF Lists, LIMITS, Names, Range
<1>17. Lists(V8_CORE,
           {"serial_number", "configuration", "timestamp", "unit_clock",
            "water_temperature", "water_flow_to_probes", "ph", "redox",
            "filtration_running", "ph_minus_pump_running"})
  BY DEF Lists, V8_CORE, Names, Range
<1>18. Lists(V8_RATE,
           {"ph_minus_flow_rate"})
  BY DEF Lists, V8_RATE, Names, Range
<1>19. Lists(V8_SETTINGS,
           {"ph_target", "redox_target", "pool_volume", "startup_delay",
            "dosing_delay"})
  BY DEF Lists, V8_SETTINGS, Names, Range
<1>. QED  BY <1>1, <1>2, <1>3, <1>4, <1>5, <1>6, <1>7, <1>8, <1>9, <1>10, <1>11,
             <1>12, <1>13, <1>14, <1>15, <1>16, <1>17, <1>18, <1>19
\* Each with its set.
LEMMA GroupRanges ==
  /\ Lists(IDENTITY, Range(IDENTITY))
  /\ Lists(CLOCK, Range(CLOCK))
  /\ Lists(MEASUREMENTS, Range(MEASUREMENTS))
  /\ Lists(CHLORINE_PROBES, Range(CHLORINE_PROBES))
  /\ Lists(SETTINGS, Range(SETTINGS))
  /\ Lists(ALARMS, Range(ALARMS))
  /\ Lists(FILTRATION_FEATURES, Range(FILTRATION_FEATURES))
  /\ Lists(BACKWASH_FEATURES, Range(BACKWASH_FEATURES))
  /\ Lists(WATER_LEVEL, Range(WATER_LEVEL))
  /\ Lists(UNIT_STATE, Range(UNIT_STATE))
  /\ Lists(DISINFECTION_SETPOINTS, Range(DISINFECTION_SETPOINTS))
  /\ Lists(THIRD_DOSES, Range(THIRD_DOSES))
  /\ Lists(THIRD_RATES, Range(THIRD_RATES))
  /\ Lists(THIRD_PUMPS, Range(THIRD_PUMPS))
  /\ Lists(CHLORINE_PUMPS, Range(CHLORINE_PUMPS))
  /\ Lists(LIMITS, Range(LIMITS))
  /\ Lists(V8_CORE, Range(V8_CORE))
  /\ Lists(V8_RATE, Range(V8_RATE))
  /\ Lists(V8_SETTINGS, Range(V8_SETTINGS))
BY Groups DEF Lists

\* HOME: what it does not list, and two quantities that it does.
LEMMA HomeLists ==
  /\ HOME.features \in Seq(Names)
  /\ \A f \in Range(HOME.features) :
       f \notin {"salinity", "chlorine_production", "electrolysis_running",
                  "electrode_polarity", "oxygen_dose_target", "oxygen_flow_rate",
                  "oxygen_pump_running"}
  /\ {"service_menu_open", "filtration_running"} \subseteq Range(HOME.features)
<1>1. Lists(<<"air_temperature">>,
           {"air_temperature"})
  BY DEF Lists, Names, Range
<1>2. Lists(<<"chlorine_flow_rate">>,
           {"chlorine_flow_rate"})
  BY DEF Lists, Names, Range
<1>3. Lists(<<"heating_control_enabled", "heating_linked_to_filtration",
              "freeze_protection_enabled", "service_menu_open",
              "water_level_sensor_enabled", "flow_detection_enabled",
              "backwash_schedule_enabled", "variable_speed_pump_type">>,
           {"heating_control_enabled", "heating_linked_to_filtration",
            "freeze_protection_enabled", "service_menu_open",
            "water_level_sensor_enabled", "flow_detection_enabled",
            "backwash_schedule_enabled", "variable_speed_pump_type"})
  BY DEF Lists, Names, Range
<1> DEFINE a == IDENTITY \o CLOCK \o MEASUREMENTS \o <<"air_temperature">>
                \o CHLORINE_PROBES \o SETTINGS \o DISINFECTION_SETPOINTS
           A == Range(IDENTITY) \cup Range(CLOCK) \cup Range(MEASUREMENTS)
                \cup {"air_temperature"} \cup Range(CHLORINE_PROBES)
                \cup Range(SETTINGS) \cup Range(DISINFECTION_SETPOINTS)
           b == a \o THIRD_DOSES \o <<"chlorine_flow_rate">> \o THIRD_RATES
                \o FILTRATION_FEATURES \o CHLORINE_PUMPS \o THIRD_PUMPS \o WATER_LEVEL
           B == A \cup Range(THIRD_DOSES) \cup {"chlorine_flow_rate"}
                \cup Range(THIRD_RATES) \cup Range(FILTRATION_FEATURES)
                \cup Range(CHLORINE_PUMPS) \cup Range(THIRD_PUMPS)
                \cup Range(WATER_LEVEL)
           c == b \o LIMITS \o UNIT_STATE
                \o <<"heating_control_enabled", "heating_linked_to_filtration",
                  "freeze_protection_enabled", "service_menu_open",
                  "water_level_sensor_enabled", "flow_detection_enabled",
                  "backwash_schedule_enabled", "variable_speed_pump_type">>
                \o BACKWASH_FEATURES \o ALARMS
           C == B \cup Range(LIMITS) \cup Range(UNIT_STATE)
                \cup {"heating_control_enabled", "heating_linked_to_filtration",
                 "freeze_protection_enabled", "service_menu_open",
                 "water_level_sensor_enabled", "flow_detection_enabled",
                 "backwash_schedule_enabled", "variable_speed_pump_type"}
                \cup Range(BACKWASH_FEATURES) \cup Range(ALARMS)
<1>4. HOME.features = c
  BY DEF HOME
<1>5. Lists(a, A)
  BY <1>1, <1>2, <1>3, GroupRanges, Join
<1> HIDE DEF a, A
<1>6. Lists(b, B)
  BY <1>5, <1>1, <1>2, <1>3, GroupRanges, Join
<1> HIDE DEF b, B
<1>7. Lists(c, C)
  BY <1>6, <1>1, <1>2, <1>3, GroupRanges, Join
<1> HIDE DEF c, C
<1>8. HOME.features \in Seq(Names) /\ Range(HOME.features) = C
  BY <1>4, <1>7 DEF Lists
<1>9. \A f \in C : f \notin {"salinity", "chlorine_production", "electrolysis_running",
          "electrode_polarity", "oxygen_dose_target", "oxygen_flow_rate",
          "oxygen_pump_running"}
  BY Groups DEF Lists, A, B, C
<1>10. {"service_menu_open", "filtration_running"} \subseteq C
  BY Groups DEF Lists, A, B, C
<1>. QED  BY <1>8, <1>9, <1>10

\* SALT: no chlorine pump, no oxygen; both of the third pump's chemicals.
LEMMA SaltLists ==
  /\ SALT.features \in Seq(Names)
  /\ \A f \in Range(SALT.features) :
       f \notin {"free_chlorine_mv", "chlorine_pump_running", "chlorine_flow_rate",
                  "oxygen_dose_target", "oxygen_flow_rate", "oxygen_pump_running"}
  /\ {"algaecide_dose_target", "algaecide_flow_rate", "algaecide_pump_running",
       "flocculant_dose_target", "flocculant_flow_rate", "flocculant_pump_running"}
    \subseteq Range(SALT.features)
<1>1. Lists(<<"air_temperature", "ph", "redox", "free_chlorine", "salinity",
              "chlorine_production", "electrolysis_running", "electrode_polarity">>,
           {"air_temperature", "ph", "redox", "free_chlorine", "salinity",
            "chlorine_production", "electrolysis_running", "electrode_polarity"})
  BY DEF Lists, Names, Range
<1>2. Lists(<<"service_menu_open", "ph_minus_pump_running">>,
           {"service_menu_open", "ph_minus_pump_running"})
  BY DEF Lists, Names, Range
<1>3. Lists(<<"heating_control_enabled", "heating_linked_to_filtration",
              "freeze_protection_enabled", "water_level_sensor_enabled",
              "flow_detection_enabled", "backwash_schedule_enabled",
              "heating_condition", "heating_allowed", "variable_speed_pump_type">>,
           {"heating_control_enabled", "heating_linked_to_filtration",
            "freeze_protection_enabled", "water_level_sensor_enabled",
            "flow_detection_enabled", "backwash_schedule_enabled",
            "heating_condition", "heating_allowed", "variable_speed_pump_type"})
  BY DEF Lists, Names, Range
<1> DEFINE a == IDENTITY \o CLOCK \o MEASUREMENTS
                \o <<"air_temperature", "ph", "redox", "free_chlorine", "salinity",
                  "chlorine_production", "electrolysis_running", "electrode_polarity">>
                \o SETTINGS \o DISINFECTION_SETPOINTS \o THIRD_DOSES
           A == Range(IDENTITY) \cup Range(CLOCK) \cup Range(MEASUREMENTS)
                \cup {"air_temperature", "ph", "redox", "free_chlorine", "salinity",
                 "chlorine_production", "electrolysis_running", "electrode_polarity"}
                \cup Range(SETTINGS) \cup Range(DISINFECTION_SETPOINTS)
                \cup Range(THIRD_DOSES)
           b == a \o THIRD_RATES \o FILTRATION_FEATURES
                \o <<"service_menu_open", "ph_minus_pump_running">> \o THIRD_PUMPS
                \o WATER_LEVEL \o LIMITS \o UNIT_STATE
           B == A \cup Range(THIRD_RATES) \cup Range(FILTRATION_FEATURES)
                \cup {"service_menu_open", "ph_minus_pump_running"}
                \cup Range(THIRD_PUMPS) \cup Range(WATER_LEVEL) \cup Range(LIMITS)
                \cup Range(UNIT_STATE)
           c == b
                \o <<"heating_control_enabled", "heating_linked_to_filtration",
                  "freeze_protection_enabled", "water_level_sensor_enabled",
                  "flow_detection_enabled", "backwash_schedule_enabled",
                  "heating_condition", "heating_allowed", "variable_speed_pump_type">>
                \o BACKWASH_FEATURES \o ALARMS
           C == B
                \cup {"heating_control_enabled", "heating_linked_to_filtration",
                 "freeze_protection_enabled", "water_level_sensor_enabled",
                 "flow_detection_enabled", "backwash_schedule_enabled",
                 "heating_condition", "heating_allowed", "variable_speed_pump_type"}
                \cup Range(BACKWASH_FEATURES) \cup Range(ALARMS)
<1>4. SALT.features = c
  BY DEF SALT
<1>5. Lists(a, A)
  BY <1>1, <1>2, <1>3, GroupRanges, Join
<1> HIDE DEF a, A
<1>6. Lists(b, B)
  BY <1>5, <1>1, <1>2, <1>3, GroupRanges, Join
<1> HIDE DEF b, B
<1>7. Lists(c, C)
  BY <1>6, <1>1, <1>2, <1>3, GroupRanges, Join
<1> HIDE DEF c, C
<1>8. SALT.features \in Seq(Names) /\ Range(SALT.features) = C
  BY <1>4, <1>7 DEF Lists
<1>9. \A f \in C : f \notin {"free_chlorine_mv", "chlorine_pump_running",
          "chlorine_flow_rate",
          "oxygen_dose_target", "oxygen_flow_rate", "oxygen_pump_running"}
  BY Groups DEF Lists, A, B, C
<1>10. {"algaecide_dose_target", "algaecide_flow_rate", "algaecide_pump_running",
        "flocculant_dose_target", "flocculant_flow_rate", "flocculant_pump_running"} \subseteq C
  BY Groups DEF Lists, A, B, C
<1>. QED  BY <1>8, <1>9, <1>10

\* OXY: no electrolysis, no chlorine; the oxygen.
LEMMA OxyLists ==
  /\ OXY.features \in Seq(Names)
  /\ \A f \in Range(OXY.features) :
       f \notin {"salinity", "chlorine_production", "electrolysis_running",
                  "electrode_polarity", "free_chlorine_target", "redox_target",
                  "chlorine_dose_target", "chlorine_flow_rate",
                  "chlorine_pump_running"}
  /\ {"oxygen_flow_rate", "oxygen_pump_running"} \subseteq Range(OXY.features)
<1>1. Lists(<<"air_temperature", "ph">>,
           {"air_temperature", "ph"})
  BY DEF Lists, Names, Range
<1>2. Lists(<<"oxygen_dose_target", "flocculant_dose_target", "algaecide_dose_target",
              "oxygen_flow_rate", "flocculant_flow_rate", "algaecide_flow_rate">>,
           {"oxygen_dose_target", "flocculant_dose_target", "algaecide_dose_target",
            "oxygen_flow_rate", "flocculant_flow_rate", "algaecide_flow_rate"})
  BY DEF Lists, Names, Range
<1>3. Lists(<<"service_menu_open", "ph_minus_pump_running">>,
           {"service_menu_open", "ph_minus_pump_running"})
  BY DEF Lists, Names, Range
<1>4. Lists(<<"oxygen_pump_running">>,
           {"oxygen_pump_running"})
  BY DEF Lists, Names, Range
<1>5. Lists(<<"heating_control_enabled", "freeze_protection_enabled",
              "water_level_sensor_enabled", "flow_detection_enabled">>,
           {"heating_control_enabled", "freeze_protection_enabled",
            "water_level_sensor_enabled", "flow_detection_enabled"})
  BY DEF Lists, Names, Range
<1> DEFINE a == IDENTITY \o CLOCK \o MEASUREMENTS \o <<"air_temperature", "ph">>
                \o SETTINGS
                \o <<"oxygen_dose_target", "flocculant_dose_target",
                  "algaecide_dose_target", "oxygen_flow_rate", "flocculant_flow_rate",
                  "algaecide_flow_rate">> \o FILTRATION_FEATURES
           A == Range(IDENTITY) \cup Range(CLOCK) \cup Range(MEASUREMENTS)
                \cup {"air_temperature", "ph"} \cup Range(SETTINGS)
                \cup {"oxygen_dose_target", "flocculant_dose_target",
                 "algaecide_dose_target", "oxygen_flow_rate", "flocculant_flow_rate",
                 "algaecide_flow_rate"} \cup Range(FILTRATION_FEATURES)
           b == a \o <<"service_menu_open", "ph_minus_pump_running">> \o THIRD_PUMPS
                \o <<"oxygen_pump_running">> \o WATER_LEVEL \o LIMITS \o UNIT_STATE
                \o <<"heating_control_enabled", "freeze_protection_enabled",
                  "water_level_sensor_enabled", "flow_detection_enabled">>
           B == A \cup {"service_menu_open", "ph_minus_pump_running"}
                \cup Range(THIRD_PUMPS) \cup {"oxygen_pump_running"}
                \cup Range(WATER_LEVEL) \cup Range(LIMITS) \cup Range(UNIT_STATE)
                \cup {"heating_control_enabled", "freeze_protection_enabled",
                 "water_level_sensor_enabled", "flow_detection_enabled"}
           c == b \o BACKWASH_FEATURES \o ALARMS
           C == B \cup Range(BACKWASH_FEATURES) \cup Range(ALARMS)
<1>6. OXY.features = c
  BY DEF OXY
<1>7. Lists(a, A)
  BY <1>1, <1>2, <1>3, <1>4, <1>5, GroupRanges, Join
<1> HIDE DEF a, A
<1>8. Lists(b, B)
  BY <1>7, <1>1, <1>2, <1>3, <1>4, <1>5, GroupRanges, Join
<1> HIDE DEF b, B
<1>9. Lists(c, C)
  BY <1>8, <1>1, <1>2, <1>3, <1>4, <1>5, GroupRanges, Join
<1> HIDE DEF c, C
<1>10. OXY.features \in Seq(Names) /\ Range(OXY.features) = C
  BY <1>6, <1>9 DEF Lists
<1>11. \A f \in C : f \notin {"salinity", "chlorine_production", "electrolysis_running",
          "electrode_polarity", "free_chlorine_target", "redox_target",
          "chlorine_dose_target", "chlorine_flow_rate", "chlorine_pump_running"}
  BY Groups DEF Lists, A, B, C
<1>12. {"oxygen_flow_rate", "oxygen_pump_running"} \subseteq C
  BY Groups DEF Lists, A, B, C
<1>. QED  BY <1>10, <1>11, <1>12

\* NET: nothing but the probes, two pumps and their settings.
LEMMA NetLists ==
  /\ NET.features \in Seq(Names)
  /\ \A f \in Range(NET.features) :
       f \notin {"salinity", "chlorine_production", "electrolysis_running",
                  "electrode_polarity", "oxygen_dose_target", "oxygen_flow_rate",
                  "oxygen_pump_running", "algaecide_dose_target",
                  "algaecide_flow_rate", "algaecide_pump_running",
                  "flocculant_dose_target", "flocculant_flow_rate",
                  "flocculant_pump_running", "backwash_running", "refilling"}
<1>1. Lists(<<"ph_target", "pool_volume", "startup_delay", "dosing_delay",
              "ph_minus_flow_rate">>,
           {"ph_target", "pool_volume", "startup_delay", "dosing_delay",
            "ph_minus_flow_rate"})
  BY DEF Lists, Names, Range
<1>2. Lists(<<"chlorine_flow_rate">>,
           {"chlorine_flow_rate"})
  BY DEF Lists, Names, Range
<1> DEFINE a == IDENTITY \o MEASUREMENTS \o CHLORINE_PROBES
                \o <<"ph_target", "pool_volume", "startup_delay", "dosing_delay",
                  "ph_minus_flow_rate">> \o DISINFECTION_SETPOINTS
                \o <<"chlorine_flow_rate">> \o CHLORINE_PUMPS
           A == Range(IDENTITY) \cup Range(MEASUREMENTS) \cup Range(CHLORINE_PROBES)
                \cup {"ph_target", "pool_volume", "startup_delay", "dosing_delay",
                 "ph_minus_flow_rate"} \cup Range(DISINFECTION_SETPOINTS)
                \cup {"chlorine_flow_rate"} \cup Range(CHLORINE_PUMPS)
           b == a \o ALARMS
           B == A \cup Range(ALARMS)
<1>3. NET.features = b
  BY DEF NET
<1>4. Lists(a, A)
  BY <1>1, <1>2, GroupRanges, Join
<1> HIDE DEF a, A
<1>5. Lists(b, B)
  BY <1>4, <1>1, <1>2, GroupRanges, Join
<1> HIDE DEF b, B
<1>6. NET.features \in Seq(Names) /\ Range(NET.features) = B
  BY <1>3, <1>5 DEF Lists
<1>7. \A f \in B : f \notin {"salinity", "chlorine_production", "electrolysis_running",
          "electrode_polarity", "oxygen_dose_target", "oxygen_flow_rate",
          "oxygen_pump_running", "algaecide_dose_target", "algaecide_flow_rate",
          "algaecide_pump_running", "flocculant_dose_target",
          "flocculant_flow_rate", "flocculant_pump_running", "backwash_running",
          "refilling"}
  BY Groups DEF Lists, A, B
<1>. QED  BY <1>6, <1>7

\* PROFI: no electrolysis, no oxygen, no algicide.
LEMMA ProfiLists ==
  /\ PROFI.features \in Seq(Names)
  /\ \A f \in Range(PROFI.features) :
       f \notin {"salinity", "chlorine_production", "electrolysis_running",
                  "electrode_polarity", "oxygen_dose_target", "oxygen_flow_rate",
                  "oxygen_pump_running", "algaecide_dose_target",
                  "algaecide_flow_rate", "algaecide_pump_running"}
<1>1. Lists(<<"free_chlorine_target", "chlorine_dose_target", "flocculant_dose_target",
              "chlorine_flow_rate", "flocculant_flow_rate">>,
           {"free_chlorine_target", "chlorine_dose_target",
            "flocculant_dose_target", "chlorine_flow_rate", "flocculant_flow_rate"})
  BY DEF Lists, Names, Range
<1>2. Lists(<<"service_menu_open">>,
           {"service_menu_open"})
  BY DEF Lists, Names, Range
<1>3. Lists(<<"flocculant_pump_running">>,
           {"flocculant_pump_running"})
  BY DEF Lists, Names, Range
<1>4. Lists(<<"max_refill_time", "heating_running", "ph_minus_concentration",
              "max_ph_doses">>,
           {"max_refill_time", "heating_running", "ph_minus_concentration",
            "max_ph_doses"})
  BY DEF Lists, Names, Range
<1> DEFINE a == IDENTITY \o CLOCK \o MEASUREMENTS \o CHLORINE_PROBES \o SETTINGS
                \o <<"free_chlorine_target", "chlorine_dose_target",
                  "flocculant_dose_target", "chlorine_flow_rate",
                  "flocculant_flow_rate">> \o FILTRATION_FEATURES
           A == Range(IDENTITY) \cup Range(CLOCK) \cup Range(MEASUREMENTS)
                \cup Range(CHLORINE_PROBES) \cup Range(SETTINGS)
                \cup {"free_chlorine_target", "chlorine_dose_target",
                 "flocculant_dose_target", "chlorine_flow_rate", "flocculant_flow_rate"}
                \cup Range(FILTRATION_FEATURES)
           b == a \o <<"service_menu_open">> \o CHLORINE_PUMPS
                \o <<"flocculant_pump_running">> \o WATER_LEVEL
                \o <<"max_refill_time", "heating_running", "ph_minus_concentration",
                  "max_ph_doses">> \o BACKWASH_FEATURES \o ALARMS
           B == A \cup {"service_menu_open"} \cup Range(CHLORINE_PUMPS)
                \cup {"flocculant_pump_running"} \cup Range(WATER_LEVEL)
                \cup {"max_refill_time", "heating_running", "ph_minus_concentration",
                 "max_ph_doses"} \cup Range(BACKWASH_FEATURES) \cup Range(ALARMS)
<1>5. PROFI.features = b
  BY DEF PROFI
<1>6. Lists(a, A)
  BY <1>1, <1>2, <1>3, <1>4, GroupRanges, Join
<1> HIDE DEF a, A
<1>7. Lists(b, B)
  BY <1>6, <1>1, <1>2, <1>3, <1>4, GroupRanges, Join
<1> HIDE DEF b, B
<1>8. PROFI.features \in Seq(Names) /\ Range(PROFI.features) = B
  BY <1>5, <1>7 DEF Lists
<1>9. \A f \in B : f \notin {"salinity", "chlorine_production", "electrolysis_running",
          "electrode_polarity", "oxygen_dose_target", "oxygen_flow_rate",
          "oxygen_pump_running", "algaecide_dose_target", "algaecide_flow_rate",
          "algaecide_pump_running"}
  BY Groups DEF Lists, A, B
<1>. QED  BY <1>8, <1>9

\* All that a v8 unit sends.
V8Names ==
  {"serial_number", "configuration", "timestamp", "unit_clock", "water_temperature",
   "water_flow_to_probes", "ph", "redox", "filtration_running",
   "ph_minus_pump_running", "ph_minus_flow_rate", "ph_target", "redox_target",
   "pool_volume", "startup_delay", "dosing_delay", "salinity",
   "chlorine_production", "electrolysis_running", "electrode_polarity",
   "algaecide_pump_running", "algaecide_dose_target", "flocculant_pump_running",
   "flocculant_dose_target", "alarm_no_flow_to_probes",
   "alarm_max_disinfection_dose", "filtration_period_1_start",
   "filtration_period_1_end", "filtration_schedule", "chlorine_pump_running",
   "chlorine_flow_rate"}

\* Both v8 profiles list what a v8 unit sends.
LEMMA NetV8Lists ==
  V8_FEATURES \in Seq(Names) /\ Range(V8_FEATURES) \subseteq V8Names
<1>1. Lists(<<"chlorine_pump_running">>,
           {"chlorine_pump_running"})
  BY DEF Lists, Names, Range
<1>2. Lists(<<"chlorine_flow_rate">>,
           {"chlorine_flow_rate"})
  BY DEF Lists, Names, Range
<1>3. Lists(V8_FEATURES,
           Range(V8_CORE) \cup {"chlorine_pump_running"} \cup Range(V8_RATE)
           \cup {"chlorine_flow_rate"} \cup Range(V8_SETTINGS))
  BY <1>1, <1>2, GroupRanges, Join DEF V8_FEATURES
<1>. QED  BY <1>3, Groups DEF Lists, V8Names

\* The same, for SALT.
LEMMA SaltV8Lists ==
  V8_SALT.features \in Seq(Names) /\ Range(V8_SALT.features) \subseteq V8Names
<1>1. Lists(<<"salinity", "chlorine_production", "electrolysis_running",
              "electrode_polarity",
              "algaecide_pump_running", "algaecide_dose_target",
              "flocculant_pump_running", "flocculant_dose_target",
              "alarm_no_flow_to_probes", "alarm_max_disinfection_dose",
              "filtration_period_1_start", "filtration_period_1_end",
              "filtration_schedule">>,
           {"salinity", "chlorine_production", "electrolysis_running",
            "electrode_polarity", "algaecide_pump_running", "algaecide_dose_target",
            "flocculant_pump_running", "flocculant_dose_target",
            "alarm_no_flow_to_probes", "alarm_max_disinfection_dose",
            "filtration_period_1_start", "filtration_period_1_end",
            "filtration_schedule"})
  BY DEF Lists, Names, Range
<1>2. Lists(V8_SALT.features,
           Range(V8_CORE) \cup Range(V8_RATE) \cup Range(V8_SETTINGS)
           \cup {"salinity", "chlorine_production", "electrolysis_running",
            "electrode_polarity", "algaecide_pump_running", "algaecide_dose_target",
            "flocculant_pump_running", "flocculant_dose_target",
            "alarm_no_flow_to_probes", "alarm_max_disinfection_dose",
            "filtration_period_1_start", "filtration_period_1_end",
            "filtration_schedule"})
  BY <1>1, GroupRanges, Join DEF V8_SALT
<1>. QED  BY <1>2, Groups DEF Lists, V8Names


-----------------------------------------------------------------------------
(* The order in which a profile's features are decoded *)

\* Each of d is listed, and what it depends on, if that is listed, is ahead of it.
InOrder(listed, d) ==
  /\ d \in Seq(Names) /\ Range(d) \subseteq listed
  /\ \A i \in 1..Len(d) :
       DependsOn(d[i]) \in listed => \E j \in 1..(i - 1) : d[j] = DependsOn(d[i])

\* What a quantity depends on depends on nothing itself.
LEMMA DependsOnce ==
  ASSUME NEW f, DependsOn(f) \in Names
  PROVE  DependsOn(DependsOn(f)) \notin Names
<1>1. DependsOn(f) \in {"configuration", "service_menu_open", "algaecide_flow_rate",
                        "flocculant_flow_rate", "oxygen_flow_rate", "nothing"}
  BY DEF DependsOn, Nothing
<1>2. "nothing" \notin Names
  BY DEF Names
<1>3. \A g \in {"configuration", "service_menu_open", "algaecide_flow_rate",
                "flocculant_flow_rate", "oxygen_flow_rate", "nothing"} :
         DependsOn(g) = "nothing"
  BY DEF DependsOn, Nothing
<1>. QED  BY <1>1, <1>2, <1>3

\* Listing one more quantity keeps the order.
LEMMA VisitInOrder ==
  ASSUME NEW listed \in SUBSET Names, NEW d, InOrder(listed, d), NEW f \in listed
  PROVE  InOrder(listed, Visit(listed, d, f))
<1> DEFINE g == DependsOn(f)
           n == Len(d)
<1>1. d \in Seq(Names) /\ n \in Nat /\ DOMAIN d = 1..n
  BY DEF InOrder
<1>2. CASE f \in Range(d)
  BY <1>2 DEF Visit
<1>3. CASE f \notin Range(d) /\ g \in listed \ Range(d)
  <2> DEFINE e == d \o <<g, f>>
  <2>1. Visit(listed, d, f) = e
    BY <1>3 DEF Visit
  <2>2. /\ e \in Seq(Names) /\ Len(e) = n + 2 /\ e[n + 1] = g /\ e[n + 2] = f
        /\ \A i \in 1..n : e[i] = d[i]
    BY <1>1, <1>3
  <2>3. DependsOn(g) \notin listed
    BY <1>3, DependsOnce
  <2> HIDE DEF e
  <2>4. ASSUME NEW i \in 1..Len(e)
        PROVE  /\ e[i] \in listed
               /\ DependsOn(e[i]) \in listed => \E j \in 1..(i - 1) : e[j] = DependsOn(e[i])
    <3>1. CASE i \in 1..n
      <4>1. e[i] = d[i] /\ d[i] \in Range(d)
        BY <1>1, <2>2, <3>1 DEF Range
      <4>2. \A j \in 1..(i - 1) : e[j] = d[j]
        BY <1>1, <2>2, <3>1
      <4>. QED  BY <3>1, <4>1, <4>2 DEF InOrder
    <3>2. CASE i = n + 1
      BY <1>3, <2>2, <2>3, <3>2
    <3>3. CASE i = n + 2
      <4>1. n + 1 \in 1..(i - 1)
        BY <1>1, <3>3
      <4>. QED  BY <2>2, <3>3, <4>1
    <3>. QED  BY <1>1, <2>2, <3>1, <3>2, <3>3
  <2>5. Range(e) \subseteq listed
    BY <2>2, <2>4 DEF Range
  <2>. QED  BY <2>1, <2>2, <2>4, <2>5 DEF InOrder
<1>4. CASE f \notin Range(d) /\ g \notin listed \ Range(d)
  <2> DEFINE e == d \o <<f>>
  <2>1. Visit(listed, d, f) = e
    BY <1>4 DEF Visit
  <2>2. /\ e \in Seq(Names) /\ Len(e) = n + 1 /\ e[n + 1] = f
        /\ \A i \in 1..n : e[i] = d[i]
    BY <1>1
  <2>3. g \in listed => \E j \in 1..n : e[j] = g
    BY <1>1, <1>4, <2>2 DEF Range
  <2> HIDE DEF e
  <2>4. ASSUME NEW i \in 1..Len(e)
        PROVE  /\ e[i] \in listed
               /\ DependsOn(e[i]) \in listed => \E j \in 1..(i - 1) : e[j] = DependsOn(e[i])
    <3>1. CASE i \in 1..n
      <4>1. e[i] = d[i] /\ d[i] \in Range(d)
        BY <1>1, <2>2, <3>1 DEF Range
      <4>2. \A j \in 1..(i - 1) : e[j] = d[j]
        BY <1>1, <2>2, <3>1
      <4>. QED  BY <3>1, <4>1, <4>2 DEF InOrder
    <3>2. CASE i = n + 1
      <4>1. 1..(i - 1) = 1..n
        BY <1>1, <3>2
      <4>. QED  BY <2>2, <2>3, <3>2, <4>1
    <3>. QED  BY <1>1, <2>2, <3>1, <3>2
  <2>5. Range(e) \subseteq listed
    BY <2>2, <2>4 DEF Range
  <2>. QED  BY <2>1, <2>2, <2>4, <2>5 DEF InOrder
<1>. QED  BY <1>2, <1>3, <1>4

\* So the order of a profile is one in which dependencies come first.
LEMMA OrderedInOrder ==
  ASSUME NEW s \in Seq(Names)
  PROVE  InOrder(Range(s), Ordered(s))
<1> DEFINE n == Len(s)
           listed == Range(s)
           done[i \in 0..n] ==
             IF i = 0 THEN <<>> ELSE Visit(listed, done[i - 1], s[i])
           Run(i, h) == /\ h = [j \in 0..i |-> h[j]] /\ h[0] = <<>>
                        /\ \A j \in 1..i : h[j] = Visit(listed, h[j - 1], s[j])
<1>1. n \in Nat /\ listed \in SUBSET Names /\ \A i \in 1..n : s[i] \in listed
  BY DEF Range
<1>2. Ordered(s) = done[n]
  BY DEF Ordered
<1> HIDE DEF listed, n
<1>3. PICK h : Run(n, h)
  <2> DEFINE B == {i \in 0..n : \E h : Run(i, h)}
  <2>1. 0 \in B
    <3> DEFINE h == [j \in 0..0 |-> <<>>]
    <3>1. Run(0, h)
      OBVIOUS
    <3> HIDE DEF h
    <3>. QED  BY <1>1, <3>1
  <2>2. ASSUME NEW i \in 1..n, i - 1 \in B PROVE i \in B
    <3>1. PICK h : Run(i - 1, h)
      BY <2>2
    <3> DEFINE v == Visit(listed, h[i - 1], s[i])
               k == [j \in 0..i |-> IF j = i THEN v ELSE h[j]]
    <3>2. i \in Nat /\ \A j \in 0..(i - 1) : j \in 0..i /\ j # i
      OBVIOUS
    <3>3. /\ k = [j \in 0..i |-> k[j]] /\ k[0] = <<>> /\ k[i] = v
          /\ \A j \in 0..(i - 1) : k[j] = h[j]
      BY <3>1, <3>2
    <3> HIDE DEF k
    <3>4. ASSUME NEW j \in 1..i PROVE k[j] = Visit(listed, k[j - 1], s[j])
      <4>1. j - 1 \in 0..(i - 1)
        OBVIOUS
      <4>2. j = i \/ (j \in 1..(i - 1) /\ j \in 0..(i - 1))
        OBVIOUS
      <4>. QED  BY <3>1, <3>3, <4>1, <4>2
    <3>5. Run(i, k)
      BY <3>3, <3>4
    <3>6. i \in 0..n
      BY <1>1
    <3>. QED  BY <3>5, <3>6
  <2> HIDE DEF B
  <2>3. n \in B
    <3>1. 0..n \subseteq B
      BY <1>1, <2>1, <2>2, UpTo
    <3>. QED  BY <1>1, <3>1
  <2>. QED  BY <2>3 DEF B
<1>4. h = [i \in 0..n |-> IF i = 0 THEN <<>> ELSE Visit(listed, h[i - 1], s[i])]
  <2>1. ASSUME NEW i \in 0..n
        PROVE  h[i] = IF i = 0 THEN <<>> ELSE Visit(listed, h[i - 1], s[i])
    <3>1. CASE i = 0
      BY <1>3, <3>1
    <3>2. CASE i # 0
      <4>1. i \in 1..n
        BY <1>1, <3>2
      <4>. QED  BY <1>3, <3>2, <4>1
    <3>. QED  BY <3>1, <3>2
  <2>. QED  BY <1>3, <2>1
<1>5. done = [i \in 0..n |-> IF i = 0 THEN <<>> ELSE Visit(listed, done[i - 1], s[i])]
  BY <1>4
<1> HIDE DEF done
<1> DEFINE B == {i \in 0..n : InOrder(listed, done[i])}
<1>6. 0 \in B
  <2>1. done[0] = <<>> /\ 0 \in 0..n
    BY <1>1, <1>5
  <2>2. /\ <<>> \in Seq(Names) /\ Len(<<>>) = 0 /\ 1..0 = {}
        /\ \A i \in DOMAIN <<>> : FALSE
    OBVIOUS
  <2>3. Range(<<>>) = {}
    BY <2>2 DEF Range
  <2>4. InOrder(listed, <<>>)
    BY <2>2, <2>3 DEF InOrder
  <2>. QED  BY <2>1, <2>4
<1>7. ASSUME NEW i \in 1..n, i - 1 \in B PROVE i \in B
  <2>1. i \in 0..n /\ done[i] = Visit(listed, done[i - 1], s[i])
    BY <1>1, <1>5
  <2>. QED  BY <1>1, <1>7, <2>1, VisitInOrder
<1> HIDE DEF B
<1>8. n \in B
  <2>1. 0..n \subseteq B
    BY <1>1, <1>6, <1>7, UpTo
  <2>. QED  BY <1>1, <2>1
<1>. QED  BY <1>2, <1>8 DEF B, listed

\* Each profile has a name of its own, and is decoded in the order of its features.
LEMMA DecodeOrderIs ==
  ASSUME NEW p \in AllProfiles
  PROVE  DecodeOrder[p.name] = Ordered(p.features)
<1>1. AllProfiles = {HOME, SALT, OXY, NET, PROFI, UNKNOWN, V8_NET, V8_SALT, V8_UNKNOWN}
  BY DEF AllProfiles, ByModelV7, ByModelV8
<1>2. /\ HOME.name = "v7 HOME" /\ SALT.name = "v7 SALT" /\ OXY.name = "v7 OXY"
      /\ NET.name = "v7 NET" /\ PROFI.name = "v7 PROFI"
      /\ UNKNOWN.name = "v7 unknown unit type" /\ V8_NET.name = "v8 NET"
      /\ V8_SALT.name = "v8 SALT" /\ V8_UNKNOWN.name = "v8 unknown header type"
  BY DEF HOME, SALT, OXY, NET, PROFI, UNKNOWN, V8_NET, V8_SALT, V8_UNKNOWN
<1>3. \A q \in AllProfiles : q.name = p.name => q = p
  BY <1>1, <1>2
<1>4. (CHOOSE q \in AllProfiles : q.name = p.name) = p
  BY <1>3
<1>. QED  BY <1>4 DEF DecodeOrder


-----------------------------------------------------------------------------
(* What a frame is decoded into, feature by feature *)

\* Decode fills a blank device with one feature after the other.
LEMMA FillingIs ==
  ASSUME NEW fr, NEW s \in Seq(Names), DecodeOrder[detect_profile(fr).name] = s
  PROVE  \E dev : /\ dev[0] = BlankDevice /\ Filling(fr) = dev[Len(s)]
                  /\ \A i \in 1..Len(s) :
                       dev[i] = Decoded(fr, detect_profile(fr), dev[i - 1], s[i])
<1> DEFINE n == Len(s)
           Step(d, f) == Decoded(fr, detect_profile(fr), d, f)
           dev[i \in 0..n] == IF i = 0 THEN BlankDevice ELSE Step(dev[i - 1], s[i])
           Run(i, h) == /\ h = [j \in 0..i |-> h[j]] /\ h[0] = BlankDevice
                        /\ \A j \in 1..i : h[j] = Step(h[j - 1], s[j])
<1>1. n \in Nat
  OBVIOUS
<1>2. Filling(fr) = dev[n]
  BY DEF Filling
<1> HIDE DEF n, Step
<1>3. PICK h : Run(n, h)
  <2> DEFINE B == {i \in 0..n : \E h : Run(i, h)}
  <2>1. 0 \in B
    <3> DEFINE h == [j \in 0..0 |-> BlankDevice]
    <3>1. Run(0, h)
      OBVIOUS
    <3> HIDE DEF h
    <3>. QED  BY <1>1, <3>1
  <2>2. ASSUME NEW i \in 1..n, i - 1 \in B PROVE i \in B
    <3>1. PICK h : Run(i - 1, h)
      BY <2>2
    <3> DEFINE v == Step(h[i - 1], s[i])
               k == [j \in 0..i |-> IF j = i THEN v ELSE h[j]]
    <3>2. i \in Nat /\ \A j \in 0..(i - 1) : j \in 0..i /\ j # i
      OBVIOUS
    <3>3. /\ k = [j \in 0..i |-> k[j]] /\ k[0] = BlankDevice /\ k[i] = v
          /\ \A j \in 0..(i - 1) : k[j] = h[j]
      BY <3>1, <3>2
    <3> HIDE DEF k
    <3>4. ASSUME NEW j \in 1..i PROVE k[j] = Step(k[j - 1], s[j])
      <4>1. j - 1 \in 0..(i - 1)
        OBVIOUS
      <4>2. j = i \/ (j \in 1..(i - 1) /\ j \in 0..(i - 1))
        OBVIOUS
      <4>. QED  BY <3>1, <3>3, <4>1, <4>2
    <3>5. Run(i, k)
      BY <3>3, <3>4
    <3>6. i \in 0..n
      BY <1>1
    <3>. QED  BY <3>5, <3>6
  <2> HIDE DEF B
  <2>3. n \in B
    <3>1. 0..n \subseteq B
      BY <1>1, <2>1, <2>2, UpTo
    <3>. QED  BY <1>1, <3>1
  <2>. QED  BY <2>3 DEF B
<1>4. h = [i \in 0..n |-> IF i = 0 THEN BlankDevice ELSE Step(h[i - 1], s[i])]
  <2>1. ASSUME NEW i \in 0..n
        PROVE  h[i] = IF i = 0 THEN BlankDevice ELSE Step(h[i - 1], s[i])
    <3>1. CASE i = 0
      BY <1>3, <3>1
    <3>2. CASE i # 0
      <4>1. i \in 1..n
        BY <1>1, <3>2
      <4>. QED  BY <1>3, <3>2, <4>1
    <3>. QED  BY <3>1, <3>2
  <2>. QED  BY <1>3, <2>1
<1>5. dev = [i \in 0..n |-> IF i = 0 THEN BlankDevice ELSE Step(dev[i - 1], s[i])]
  BY <1>4
<1> HIDE DEF dev
<1>6. dev[0] = BlankDevice /\ \A i \in 1..n : dev[i] = Step(dev[i - 1], s[i])
  BY <1>1, <1>5
<1>. QED  BY <1>2, <1>6 DEF n, Step

\* What is decoded of a profile is listed, and comes after what it depends on.
LEMMA DecodeOrderOf ==
  ASSUME NEW p \in AllProfiles, p.features \in Seq(Names)
  PROVE  InOrder(Range(p.features), DecodeOrder[p.name])
BY DecodeOrderIs, OrderedInOrder


-----------------------------------------------------------------------------
(* Who owns what in a frame *)

\* What is on the third port, algicide if that of a salt unit is set to it.
Third(name, fr) ==
  IF \/ name \in {"v8 NET", "v8 SALT"} /\ fr.port = AlgicidePort
     \/ name = "v7 SALT" /\ fr.settings # Unset /\ SHARED_PORT_ROUTING \in fr.settings
  THEN {"algicide"} ELSE {"flocculant"}

\* The one setpoint of a unit with these probes.
TheSetpoint(name, probes) ==
  CASE name = "v7 OXY" -> "oxygen_dose_target"
    [] name \in {"v8 NET", "v8 SALT"} -> "redox_target"
    [] name \notin {"v7 OXY", "v8 NET", "v8 SALT"} ->
         CASE "CLF" \in probes -> "free_chlorine_target"
           [] "CLF" \notin probes /\ "REDOX" \in probes -> "redox_target"
           [] OTHER -> "chlorine_dose_target"

\* What disinfects.
Disinfector(name) ==
  CASE name = "v7 SALT" -> "electrolysis_running"
    [] name = "v7 OXY" -> "oxygen_pump_running"
    [] OTHER -> "chlorine_pump_running"

\* The quantity that row n of a v7 frame belongs to, on a unit that has these
\* probes and "third" on its third port.
RowOwner(name, third, probes, n, bit) ==
  CASE n \in 0..3 -> "serial_number"
    [] n \in 6..11 -> "timestamp"
    [] n \in 12..13 ->
         CASE <<n, bit>> \in {<<13, 1>>, <<12, 32>>} -> "alarm_max_disinfection_dose"
           [] <<n, bit>> \in {<<13, 2>>, <<12, 64>>} -> "alarm_ph_dosing_ineffective"
           [] <<n, bit>> = <<13, 4>> -> "alarm_no_flow_to_probes"
           [] OTHER -> "alarm_rapid_ph_change"
    [] n \in 14..15 -> "ph"
    [] n \in 16..19 -> "free_chlorine"
    [] n = 20 -> IF name = "v7 SALT" THEN "salinity" ELSE "free_chlorine_mv"
    [] n = 21 -> IF name = "v7 SALT" THEN "chlorine_production" ELSE "free_chlorine_mv"
    [] n = 22 ->
         CASE bit = 4 -> "freeze_protection_enabled"
           [] bit = 8 -> "variable_speed_pump_enabled"
           [] bit = 16 -> "backwash_schedule_enabled"
           [] OTHER -> "heating_condition"
    [] n \in 23..24 -> "air_temperature"
    [] n \in 25..26 -> "water_temperature"
    [] n = 27 -> "water_level"
    [] n = 28 -> "water_flow_to_probes"
    [] n = 29 ->
         CASE bit = BACKWASH -> IF name = "v7 NET" THEN "ph_minus_pump_running"
                                ELSE "backwash_running"
           [] bit = FILLING -> IF name = "v7 NET" THEN "chlorine_pump_running"
                               ELSE "refilling"
           [] bit = HEATING -> "heating_running"
           [] bit = FILTRATION -> "filtration_running"
           [] bit = BIT_10 -> IF name = "v7 SALT" THEN "electrolysis_running"
                              ELSE "algaecide_pump_running"
           [] bit = BIT_20 -> IF "algicide" \in third THEN "algaecide_pump_running"
                              ELSE "flocculant_pump_running"
           [] bit = BIT_40 -> Disinfector(name)
           [] OTHER -> "ph_minus_pump_running"
    [] n = 37 ->
         CASE bit = 2 -> "flow_detection_enabled"
           [] bit = MENU_OPEN -> "service_menu_open"
           [] bit = 8 -> "heating_control_enabled"
           [] bit \in {16, 32} -> "filtration_schedule"
           [] bit = 64 -> "water_level_sensor_enabled"
           [] OTHER -> "freeze_protection_enabled"
    [] n = 38 -> "heating_linked_to_filtration"
    [] n = 52 -> "ph_target"
    [] n = 53 -> TheSetpoint(name, probes)
    [] n = 54 -> IF "algicide" \in third THEN "algaecide_dose_target"
                 ELSE "flocculant_dose_target"
    [] n = 55 -> "water_temperature_target"
    [] n \in 56..57 -> "filtration_period_1_start"
    [] n \in 58..59 -> "filtration_period_1_end"
    [] n \in 60..61 -> "filtration_period_2_start"
    [] n \in 62..63 -> "filtration_period_2_end"
    [] n = 68 -> "backwash_interval"
    [] n \in 69..70 -> "backwash_start_time"
    [] n = 71 -> "backwash_duration"
    [] n = 72 -> "algaecide_dose_target"
    [] n \in 74..75 -> "startup_delay"
    [] n \in 76..77 -> "max_refill_time"
    [] n = 78 -> IF bit = 128 THEN "heating_allowed" ELSE "variable_speed_pump_type"
    [] n \in 92..93 -> "pool_volume"
    [] n = 95 -> "ph_minus_flow_rate"
    [] n = 99 -> IF name = "v7 OXY" THEN "oxygen_flow_rate" ELSE "chlorine_flow_rate"
    [] n = 101 -> IF "algicide" \in third THEN "algaecide_flow_rate"
                  ELSE "flocculant_flow_rate"
    [] n = 102 -> "water_level_low_alarm"
    [] n = 103 -> IF name = "v7 OXY" THEN "algaecide_flow_rate"
                  ELSE "water_level_refill_start"
    [] n = 104 -> "water_level_refill_stop"
    [] n = 105 -> "water_level_high_alarm"
    [] n \in 106..107 -> "dosing_delay"
    [] n = 112 -> "ph_minus_concentration"
    [] OTHER -> "max_ph_doses"

\* The quantity that an entry of a v8 frame belongs to.
EntryOwner(third, section, n, bit) ==
  CASE section = "header" -> "serial_number"
    [] section = "ins" ->
         CASE n = 8 -> "water_flow_to_probes"
           [] n = 12 -> IF bit = 128 THEN "alarm_max_disinfection_dose"
                        ELSE "alarm_no_flow_to_probes"
           [] OTHER -> "timestamp"
    [] section = "ains" -> "chlorine_production"
    [] section = "temperature" -> "water_temperature"
    [] section = "areqs" ->
         CASE n = 0 -> "ph_target"
           [] n = 1 -> "redox_target"
           [] n = 3 -> "flocculant_dose_target"
           [] n = 4 -> "algaecide_dose_target"
           [] n = 14 -> "pool_volume"
           [] n = 17 -> "startup_delay"
           [] OTHER -> "dosing_delay"
    [] section = "outs" ->
         CASE n = 2 -> "filtration_running"
           [] n = 8 -> "ph_minus_pump_running"
           [] n = 9 -> "chlorine_pump_running"
           [] n = 11 -> IF "algicide" \in third THEN "algaecide_pump_running"
                        ELSE "flocculant_pump_running"
           [] OTHER -> "electrolysis_running"
    [] section = "reqs" -> IF n = 5 THEN "filtration_period_1_start"
                           ELSE "filtration_period_1_end"
    [] section = "redox" -> "free_chlorine"
    [] section = "ph" -> "ph"
    [] OTHER -> "salinity"

Owner(name, fr, probes, p) ==
  IF p[1] = "v7" THEN RowOwner(name, Third(name, fr), probes, p[2], p[3])
  ELSE EntryOwner(Third(name, fr), p[1], p[2], p[3])

\* Whose places a quantity may be read from: its own, but for those that are one
\* with another by design.
Owners(f) ==
  CASE f = "unit_clock" -> {"timestamp"}
    [] f = "electrode_polarity" -> {"electrolysis_running"}
    [] f = "redox" -> {"free_chlorine"}
    [] f = "filtration_schedule" ->
         {f, "filtration_period_1_start", "filtration_period_1_end"}
    [] OTHER -> {f}

\* Two quantities that may share an owner are one, or one by design.
LEMMA OwnedTogether ==
  ASSUME NEW f, NEW g, Owners(f) \cap Owners(g) # {}
  PROVE  f = g \/ {f, g} \in OneByDesign
<1>1. {f, g} = {g, f}
  OBVIOUS
<1>2. \/ f = g
      \/ \E a, b : /\ {a, b} \in OneByDesign
                   /\ (f = a /\ g = b) \/ (f = b /\ g = a)
  <2>1. PICK c : c \in Owners(f) /\ c \in Owners(g)
    OBVIOUS
  <2>2. CASE c \in {"timestamp"}
    BY <2>1, <2>2 DEF Owners, OneByDesign
  <2>. QED  BY <2>1, <2>2 DEF Owners, OneByDesign
<1>. QED  BY <1>1, <1>2


-----------------------------------------------------------------------------
(* Which reading a profile takes *)

V7Names == {"v7 HOME", "v7 SALT", "v7 OXY", "v7 NET", "v7 PROFI"}
V7Profiles == {HOME, SALT, OXY, NET, PROFI}

\* What the models have is not the same.
Has(name, f) ==
  /\ f \in Names
  /\ f \in {"salinity", "chlorine_production", "electrolysis_running",
            "electrode_polarity"} => name = "v7 SALT"
  /\ f \in {"free_chlorine_mv", "chlorine_pump_running", "chlorine_flow_rate"} =>
       name # "v7 SALT"
  /\ f \in {"chlorine_pump_running", "chlorine_flow_rate", "free_chlorine_target",
            "redox_target", "chlorine_dose_target"} => name # "v7 OXY"
  /\ f \in {"oxygen_dose_target", "oxygen_flow_rate", "oxygen_pump_running"} =>
       name = "v7 OXY"
  /\ f \in Algicide => name \in {"v7 HOME", "v7 SALT", "v7 OXY"}
  /\ f \in Flocculant => name # "v7 NET"
  /\ f \in {"backwash_running", "refilling"} => name # "v7 NET"

\* What a sequence of names lists is a name.
LEMMA ListedNames ==
  ASSUME NEW s \in Seq(Names), NEW f \in Range(s)
  PROVE  f \in Names
<1>1. PICK i \in DOMAIN s : f = s[i]
  BY DEF Range
<1>. QED  BY <1>1

\* What a v7 profile lists, its model has.
LEMMA V7Has ==
  ASSUME NEW P \in V7Profiles, NEW f \in Range(P.features)
  PROVE  P.name \in V7Names /\ Has(P.name, f)
<1>1. CASE P = HOME
  <2>1. P.name = "v7 HOME" /\ f \in Range(HOME.features)
    BY <1>1 DEF HOME
  <2>2. f \in Names
    BY <2>1, HomeLists, ListedNames
  <2>. QED  BY <2>1, <2>2, HomeLists DEF Has, Algicide, Flocculant, V7Names
<1>2. CASE P = SALT
  <2>1. P.name = "v7 SALT" /\ f \in Range(SALT.features)
    BY <1>2 DEF SALT
  <2>2. f \in Names
    BY <2>1, SaltLists, ListedNames
  <2>. QED  BY <2>1, <2>2, SaltLists DEF Has, Algicide, Flocculant, V7Names
<1>3. CASE P = OXY
  <2>1. P.name = "v7 OXY" /\ f \in Range(OXY.features)
    BY <1>3 DEF OXY
  <2>2. f \in Names
    BY <2>1, OxyLists, ListedNames
  <2>. QED  BY <2>1, <2>2, OxyLists DEF Has, Algicide, Flocculant, V7Names
<1>4. CASE P = NET
  <2>1. P.name = "v7 NET" /\ f \in Range(NET.features)
    BY <1>4 DEF NET
  <2>2. f \in Names
    BY <2>1, NetLists, ListedNames
  <2>. QED  BY <2>1, <2>2, NetLists DEF Has, Algicide, Flocculant, V7Names
<1>5. CASE P = PROFI
  <2>1. P.name = "v7 PROFI" /\ f \in Range(PROFI.features)
    BY <1>5 DEF PROFI
  <2>2. f \in Names
    BY <2>1, ProfiLists, ListedNames
  <2>. QED  BY <2>1, <2>2, ProfiLists DEF Has, Algicide, Flocculant, V7Names
<1>. QED  BY <1>1, <1>2, <1>3, <1>4, <1>5 DEF V7Profiles

\* The overrides of the v7 profiles, by name.
WayOf(name, f) ==
  CASE name = "v7 HOME" ->
         CASE f = "configuration" -> "v7_by_unit_type_byte"
           [] f = "filtration_running" -> "v7_menu_override"
           [] f = "algaecide_pump_running" -> "v7_oxy"
           [] f = "algaecide_flow_rate" -> "not_located"
           [] OTHER -> "v7"
    [] name = "v7 SALT" ->
         CASE f \in {"algaecide_dose_target", "flocculant_dose_target",
                     "algaecide_flow_rate", "flocculant_flow_rate"} ->
                "v7_routed_by_byte37"
           [] f = "freeze_protection_enabled" -> "v7_winter_mode"
           [] OTHER -> "v7"
    [] name = "v7 OXY" ->
         CASE f \in {"water_level_refill_start", "heating_control_enabled",
                     "freeze_protection_enabled"} -> "not_located"
           [] f = "configuration" -> "v7_ph_and_oxy"
           [] f = "algaecide_pump_running" -> "v7_oxy"
           [] OTHER -> "v7"
    [] name = "v7 NET" ->
         IF f \in {"chlorine_pump_running", "ph_minus_pump_running"} THEN "v7_net"
         ELSE "v7"
    [] name = "v7 PROFI" ->
         CASE f = "configuration" -> "v7_without_dose"
           [] f \in {"flocculant_dose_target", "flocculant_flow_rate"} ->
                "v7_routed_by_byte37"
           [] OTHER -> "v7"

\* And reads the way the table above says.
LEMMA V7Ways ==
  ASSUME NEW P \in V7Profiles, NEW fr, fr.protocol = "v7", NEW f
  PROVE  reading_for(P, fr, f) = WayOf(P.name, f)
<1>1. CASE P = HOME
  <2> DEFINE r == Reads({"configuration"}, "v7_by_unit_type_byte")
             ++ Reads({"filtration_running"}, "v7_menu_override")
             s == r ++ Reads({"algaecide_pump_running"}, "v7_oxy")
             t == s ++ Reads({"algaecide_flow_rate"}, "not_located")
  <2>1. P.overrides = t /\ P.name = "v7 HOME"
    BY <1>1 DEF HOME
  <2>2. /\ DOMAIN r = {"configuration", "filtration_running"}
        /\ r["configuration"] = "v7_by_unit_type_byte"
        /\ r["filtration_running"] = "v7_menu_override"
    BY DEF ++, Reads
  <2> HIDE DEF r
  <2>3. /\ DOMAIN s = {"configuration", "filtration_running", "algaecide_pump_running"}
        /\ s["configuration"] = r["configuration"]
        /\ s["filtration_running"] = r["filtration_running"]
        /\ s["algaecide_pump_running"] = "v7_oxy"
    BY <2>2 DEF ++, Reads
  <2> HIDE DEF s
  <2>4. /\ DOMAIN t = {"configuration", "filtration_running", "algaecide_pump_running",
                        "algaecide_flow_rate"}
        /\ t["configuration"] = s["configuration"]
        /\ t["filtration_running"] = s["filtration_running"]
        /\ t["algaecide_pump_running"] = s["algaecide_pump_running"]
        /\ t["algaecide_flow_rate"] = "not_located"
    BY <2>3 DEF ++, Reads
  <2> HIDE DEF t
  <2>. QED  BY <2>1, <2>2, <2>3, <2>4 DEF reading_for, WayOf
<1>2. CASE P = SALT
  BY <1>2 DEF SALT, reading_for, WayOf, ++, SHARED_THIRD_PUMP, Reads
<1>3. CASE P = OXY
  BY <1>3 DEF OXY, reading_for, WayOf, ++, Reads
<1>4. CASE P = NET
  BY <1>4 DEF NET, reading_for, WayOf, Reads
<1>5. CASE P = PROFI
  BY <1>5 DEF PROFI, reading_for, WayOf, ++, Reads
<1>. QED  BY <1>1, <1>2, <1>3, <1>4, <1>5 DEF V7Profiles

\* A v8 profile reads everything the v8 way.
LEMMA V8Ways ==
  ASSUME NEW P \in {V8_NET, V8_SALT}, NEW fr, fr.protocol = "v8",
         NEW f \in Range(P.features)
  PROVE  /\ f \in V8Names /\ P.name \in {"v8 NET", "v8 SALT"}
         /\ reading_for(P, fr, f) = "v8"
<1>1. P.overrides = NoOverrides /\ P.name \in {"v8 NET", "v8 SALT"}
  <2>1. CASE P = V8_NET
    BY <2>1 DEF V8_NET
  <2>2. CASE P = V8_SALT
    BY <2>2 DEF V8_SALT
  <2>. QED  BY <2>1, <2>2
<1>2. reading_for(P, fr, f) = "v8"
  BY <1>1 DEF NoOverrides, reading_for
<1>3. f \in V8Names
  <2>1. CASE P = V8_SALT
    BY <2>1, SaltV8Lists
  <2>2. CASE P = V8_NET
    <3>1. f \in Range(V8_FEATURES)
      BY <2>2 DEF V8_NET
    <3>. QED  BY <3>1, NetV8Lists
  <2>. QED  BY <2>1, <2>2
<1>. QED  BY <1>1, <1>2, <1>3


\* The bytes whose owner does not depend on the model.
LEMMA PlainRows ==
  ASSUME NEW name, NEW third, NEW probes, NEW bit
  PROVE
  /\ RowOwner(name, third, probes, 0, bit) = "serial_number"
  /\ RowOwner(name, third, probes, 1, bit) = "serial_number"
  /\ RowOwner(name, third, probes, 2, bit) = "serial_number"
  /\ RowOwner(name, third, probes, 3, bit) = "serial_number"
  /\ RowOwner(name, third, probes, 6, bit) = "timestamp"
  /\ RowOwner(name, third, probes, 7, bit) = "timestamp"
  /\ RowOwner(name, third, probes, 8, bit) = "timestamp"
  /\ RowOwner(name, third, probes, 9, bit) = "timestamp"
  /\ RowOwner(name, third, probes, 10, bit) = "timestamp"
  /\ RowOwner(name, third, probes, 11, bit) = "timestamp"
  /\ RowOwner(name, third, probes, 14, bit) = "ph"
  /\ RowOwner(name, third, probes, 15, bit) = "ph"
  /\ RowOwner(name, third, probes, 16, bit) = "free_chlorine"
  /\ RowOwner(name, third, probes, 17, bit) = "free_chlorine"
  /\ RowOwner(name, third, probes, 18, bit) = "free_chlorine"
  /\ RowOwner(name, third, probes, 19, bit) = "free_chlorine"
  /\ RowOwner(name, third, probes, 23, bit) = "air_temperature"
  /\ RowOwner(name, third, probes, 24, bit) = "air_temperature"
  /\ RowOwner(name, third, probes, 25, bit) = "water_temperature"
  /\ RowOwner(name, third, probes, 26, bit) = "water_temperature"
  /\ RowOwner(name, third, probes, 27, bit) = "water_level"
  /\ RowOwner(name, third, probes, 28, bit) = "water_flow_to_probes"
  /\ RowOwner(name, third, probes, 52, bit) = "ph_target"
  /\ RowOwner(name, third, probes, 55, bit) = "water_temperature_target"
  /\ RowOwner(name, third, probes, 56, bit) = "filtration_period_1_start"
  /\ RowOwner(name, third, probes, 57, bit) = "filtration_period_1_start"
  /\ RowOwner(name, third, probes, 58, bit) = "filtration_period_1_end"
  /\ RowOwner(name, third, probes, 59, bit) = "filtration_period_1_end"
  /\ RowOwner(name, third, probes, 60, bit) = "filtration_period_2_start"
  /\ RowOwner(name, third, probes, 61, bit) = "filtration_period_2_start"
  /\ RowOwner(name, third, probes, 62, bit) = "filtration_period_2_end"
  /\ RowOwner(name, third, probes, 63, bit) = "filtration_period_2_end"
  /\ RowOwner(name, third, probes, 68, bit) = "backwash_interval"
  /\ RowOwner(name, third, probes, 69, bit) = "backwash_start_time"
  /\ RowOwner(name, third, probes, 70, bit) = "backwash_start_time"
  /\ RowOwner(name, third, probes, 71, bit) = "backwash_duration"
  /\ RowOwner(name, third, probes, 72, bit) = "algaecide_dose_target"
  /\ RowOwner(name, third, probes, 74, bit) = "startup_delay"
  /\ RowOwner(name, third, probes, 75, bit) = "startup_delay"
  /\ RowOwner(name, third, probes, 76, bit) = "max_refill_time"
  /\ RowOwner(name, third, probes, 77, bit) = "max_refill_time"
  /\ RowOwner(name, third, probes, 92, bit) = "pool_volume"
  /\ RowOwner(name, third, probes, 93, bit) = "pool_volume"
  /\ RowOwner(name, third, probes, 95, bit) = "ph_minus_flow_rate"
  /\ RowOwner(name, third, probes, 102, bit) = "water_level_low_alarm"
  /\ RowOwner(name, third, probes, 104, bit) = "water_level_refill_stop"
  /\ RowOwner(name, third, probes, 105, bit) = "water_level_high_alarm"
  /\ RowOwner(name, third, probes, 106, bit) = "dosing_delay"
  /\ RowOwner(name, third, probes, 107, bit) = "dosing_delay"
  /\ RowOwner(name, third, probes, 112, bit) = "ph_minus_concentration"
  /\ RowOwner(name, third, probes, 115, bit) = "max_ph_doses"
BY DEF RowOwner


-----------------------------------------------------------------------------
(* Every reading takes what is the quantity's own *)

\* A reading answers, and from places that the quantity owns.
Owned(name, fr, probes, f, v) ==
  /\ v = NOT_PRESENT \/ v.is \in {"none", "value", "on", "off"}
  /\ \A p \in v.at : Owner(name, fr, probes, p) \in Owners(f)

RowOwned(name, fr, probes, f, n, bits) ==
  \A bit \in bits : RowOwner(name, Third(name, fr), probes, n, bit) \in Owners(f)

\* An answer from nowhere is anybody's.
LEMMA NowhereOwned ==
  ASSUME NEW name, NEW fr, NEW probes, NEW f
  PROVE  /\ Owned(name, fr, probes, f, None) /\ Owned(name, fr, probes, f, NOT_PRESENT)
         /\ Owned(name, fr, probes, f, Value(Nowhere))
BY DEF Owned, None, NOT_PRESENT, Value, Nowhere

\* Bits of a row that is the quantity's own, ...
LEMMA BitsOwned ==
  ASSUME NEW name, NEW fr, NEW probes, NEW f, NEW n, NEW bits,
         RowOwned(name, fr, probes, f, n, bits)
  PROVE  /\ \A p \in Bits(n, bits) : Owner(name, fr, probes, p) \in Owners(f)
         /\ Owned(name, fr, probes, f, Value(Bits(n, bits)))
         /\ \A set : Owned(name, fr, probes, f, Flag(Bits(n, bits), set))
<1>1. \A p \in Bits(n, bits) : Owner(name, fr, probes, p) \in Owners(f)
  BY DEF RowOwned, Bits, Owner
<1>. QED  BY <1>1 DEF Owned, Value, Flag

\* ... a byte, ...
LEMMA ByteOwned ==
  ASSUME NEW name, NEW fr, NEW probes, NEW f, NEW n,
         RowOwned(name, fr, probes, f, n, BITS)
  PROVE  /\ Owned(name, fr, probes, f, byte_or_absent(fr, n))
         /\ Owned(name, fr, probes, f, byte_or_none(fr, n))
BY BitsOwned, NowhereOwned DEF Byte, byte_or_absent, byte_or_none

\* ... and a word.
LEMMA WordOwned ==
  ASSUME NEW name, NEW fr, NEW probes, NEW f, NEW n, NEW m, m = n + 1,
         RowOwned(name, fr, probes, f, n, BITS), RowOwned(name, fr, probes, f, m, BITS)
  PROVE  /\ \A p \in Word(n) : Owner(name, fr, probes, p) \in Owners(f)
         /\ Owned(name, fr, probes, f, word_or_absent(fr, n))
         /\ Owned(name, fr, probes, f, word_or_none(fr, n))
         /\ Owned(name, fr, probes, f, time_or_absent(fr, n))
<1>1. \A p \in Word(n) : Owner(name, fr, probes, p) \in Owners(f)
  BY BitsOwned DEF Word, Byte
<1>2. Owned(name, fr, probes, f, Value(Word(n)))
  BY <1>1 DEF Owned, Value
<1>. QED
  BY <1>1, <1>2, NowhereOwned DEF word_or_absent, word_or_none, time_or_absent


\* The quantities that are one byte on every model.
LEMMA BytesOwned ==
  ASSUME NEW name, NEW fr, NEW probes, NEW here
  PROVE
  /\ Owned(name, fr, probes, "water_level", WaterLevel(fr))
  /\ Owned(name, fr, probes, "ph_target", PhTarget("v7", fr, here))
  /\ Owned(name, fr, probes, "water_temperature_target", WaterTemperatureTarget(fr))
  /\ Owned(name, fr, probes, "backwash_interval", BackwashInterval(fr))
  /\ Owned(name, fr, probes, "backwash_duration", BackwashDuration(fr))
  /\ Owned(name, fr, probes, "ph_minus_flow_rate", PhMinusFlowRate("v7", fr))
  /\ Owned(name, fr, probes, "water_level_low_alarm", WaterLevelLowAlarm(fr))
  /\ Owned(name, fr, probes, "water_level_refill_stop", WaterLevelRefillStop(fr))
  /\ Owned(name, fr, probes, "water_level_high_alarm", WaterLevelHighAlarm(fr))
  /\ Owned(name, fr, probes, "ph_minus_concentration", PhMinusConcentration(fr))
  /\ Owned(name, fr, probes, "max_ph_doses", MaxPhDoses(fr))
<1> DEFINE R(f, n) == RowOwned(name, fr, probes, f, n, BITS)
<1>1. /\ R("water_level", 27)
      /\ R("ph_target", 52)
      /\ R("water_temperature_target", 55)
      /\ R("backwash_interval", 68)
      /\ R("backwash_duration", 71)
      /\ R("ph_minus_flow_rate", 95)
      /\ R("water_level_low_alarm", 102)
      /\ R("water_level_refill_stop", 104)
      /\ R("water_level_high_alarm", 105)
      /\ R("ph_minus_concentration", 112)
      /\ R("max_ph_doses", 115)
  BY PlainRows DEF RowOwned, Owners
<1>. QED
  BY <1>1, ByteOwned, NowhereOwned
  DEF WaterLevel, PhTarget, WaterTemperatureTarget, BackwashInterval,
        BackwashDuration, PhMinusFlowRate, WaterLevelLowAlarm, WaterLevelRefillStop,
        WaterLevelHighAlarm, PhMinusConcentration, MaxPhDoses

\* The quantities that are one word.
LEMMA WordsOwned ==
  ASSUME NEW name, NEW fr, NEW probes, NEW here
  PROVE
  /\ Owned(name, fr, probes, "water_temperature", WaterTemperature("v7", fr))
  /\ Owned(name, fr, probes, "air_temperature", AirTemperature(fr))
  /\ Owned(name, fr, probes, "filtration_period_1_start", FiltrationPeriod1Start("v7", fr))
  /\ Owned(name, fr, probes, "filtration_period_1_end", FiltrationPeriod1End("v7", fr))
  /\ Owned(name, fr, probes, "filtration_period_2_start", FiltrationPeriod2Start(fr))
  /\ Owned(name, fr, probes, "filtration_period_2_end", FiltrationPeriod2End(fr))
  /\ Owned(name, fr, probes, "backwash_start_time", BackwashStartTime(fr))
  /\ Owned(name, fr, probes, "startup_delay", StartupDelay("v7", fr))
  /\ Owned(name, fr, probes, "max_refill_time", MaxRefillTime(fr))
  /\ Owned(name, fr, probes, "pool_volume", PoolVolume("v7", fr))
  /\ Owned(name, fr, probes, "dosing_delay", DosingDelay("v7", fr))
  /\ Owned(name, fr, probes, "ph", Ph("v7", fr, here))
  /\ Owned(name, fr, probes, "free_chlorine", FreeChlorine(fr, here))
<1> DEFINE R(f, n) == RowOwned(name, fr, probes, f, n, BITS)
<1>1. /\ R("water_temperature", 25) /\ R("water_temperature", 26)
      /\ R("air_temperature", 23) /\ R("air_temperature", 24)
      /\ R("filtration_period_1_start", 56) /\ R("filtration_period_1_start", 57)
      /\ R("filtration_period_1_end", 58) /\ R("filtration_period_1_end", 59)
      /\ R("filtration_period_2_start", 60) /\ R("filtration_period_2_start", 61)
      /\ R("filtration_period_2_end", 62) /\ R("filtration_period_2_end", 63)
      /\ R("backwash_start_time", 69) /\ R("backwash_start_time", 70)
      /\ R("startup_delay", 74) /\ R("startup_delay", 75)
      /\ R("max_refill_time", 76) /\ R("max_refill_time", 77)
      /\ R("pool_volume", 92) /\ R("pool_volume", 93)
      /\ R("dosing_delay", 106) /\ R("dosing_delay", 107)
      /\ R("ph", 14) /\ R("ph", 15)
      /\ R("free_chlorine", 16) /\ R("free_chlorine", 17)
  BY PlainRows DEF RowOwned, Owners
<1>. QED
  BY <1>1, WordOwned, NowhereOwned
  DEF WaterTemperature, AirTemperature, FiltrationPeriod1Start,
        FiltrationPeriod1End, FiltrationPeriod2Start, FiltrationPeriod2End,
        BackwashStartTime, StartupDelay, MaxRefillTime, PoolVolume, DosingDelay, Ph,
        FreeChlorine


\* Bits that belong to one quantity on every v7 model ...
LEMMA PlainBits ==
  ASSUME NEW name, NEW third, NEW probes
  PROVE
  /\ RowOwner(name, third, probes, 13, 1) = "alarm_max_disinfection_dose"
  /\ RowOwner(name, third, probes, 12, 32) = "alarm_max_disinfection_dose"
  /\ RowOwner(name, third, probes, 13, 2) = "alarm_ph_dosing_ineffective"
  /\ RowOwner(name, third, probes, 12, 64) = "alarm_ph_dosing_ineffective"
  /\ RowOwner(name, third, probes, 13, 4) = "alarm_no_flow_to_probes"
  /\ RowOwner(name, third, probes, 13, 8) = "alarm_rapid_ph_change"
  /\ RowOwner(name, third, probes, 22, 1) = "heating_condition"
  /\ RowOwner(name, third, probes, 22, 2) = "heating_condition"
  /\ RowOwner(name, third, probes, 22, 32) = "heating_condition"
  /\ RowOwner(name, third, probes, 22, 4) = "freeze_protection_enabled"
  /\ RowOwner(name, third, probes, 22, 8) = "variable_speed_pump_enabled"
  /\ RowOwner(name, third, probes, 22, 16) = "backwash_schedule_enabled"
  /\ RowOwner(name, third, probes, 29, HEATING) = "heating_running"
  /\ RowOwner(name, third, probes, 29, FILTRATION) = "filtration_running"
  /\ RowOwner(name, third, probes, 37, 2) = "flow_detection_enabled"
  /\ RowOwner(name, third, probes, 37, MENU_OPEN) = "service_menu_open"
  /\ RowOwner(name, third, probes, 37, 8) = "heating_control_enabled"
  /\ RowOwner(name, third, probes, 37, 16) = "filtration_schedule"
  /\ RowOwner(name, third, probes, 37, 32) = "filtration_schedule"
  /\ RowOwner(name, third, probes, 37, 64) = "water_level_sensor_enabled"
  /\ RowOwner(name, third, probes, 37, SHARED_PORT_ROUTING) = "freeze_protection_enabled"
  /\ RowOwner(name, third, probes, 38, 16) = "heating_linked_to_filtration"
  /\ RowOwner(name, third, probes, 78, 4) = "variable_speed_pump_type"
  /\ RowOwner(name, third, probes, 78, 8) = "variable_speed_pump_type"
  /\ RowOwner(name, third, probes, 78, 128) = "heating_allowed"
BY DEF RowOwner, BACKWASH, FILLING, HEATING, FILTRATION, BIT_10, BIT_20, BIT_40,
       BIT_80, MENU_OPEN, SHARED_PORT_ROUTING


\* A settings flag, ...
LEMMA FlagsOwned ==
  ASSUME NEW name, NEW fr, NEW probes, NEW f, NEW n, NEW bits,
         RowOwned(name, fr, probes, f, n, bits)
  PROVE  Owned(name, fr, probes, f, flag_or_none(fr, n, bits))
BY BitsOwned, NowhereOwned DEF flag_or_none

\* ... a relay bit, while its flow rate is known or not, ...
LEMMA RelayOwned ==
  ASSUME NEW name, NEW fr, NEW probes, NEW f, NEW bit,
         RowOwned(name, fr, probes, f, 29, {bit})
  PROVE  /\ Owned(name, fr, probes, f, RelayBit(fr, bit))
         /\ \A rate : Owned(name, fr, probes, f, flag_when_known(rate, fr, bit))
<1>1. Owned(name, fr, probes, f, RelayBit(fr, bit))
  BY BitsOwned DEF RelayBit
<1>. QED  BY <1>1, NowhereOwned DEF flag_when_known

\* ... and bits of two rows.
LEMMA TwoRowsOwned ==
  ASSUME NEW name, NEW fr, NEW probes, NEW f, NEW n, NEW m, NEW bits, NEW more,
         RowOwned(name, fr, probes, f, n, bits), RowOwned(name, fr, probes, f, m, more)
  PROVE  Owned(name, fr, probes, f, Value(Bits(n, bits) \cup Bits(m, more)))
<1>1. \A p \in Bits(n, bits) \cup Bits(m, more) : Owner(name, fr, probes, p) \in Owners(f)
  BY BitsOwned
<1>. QED  BY <1>1 DEF Owned, Value

\* The quantities that are flags on every model.
LEMMA FlagQuantitiesOwned ==
  ASSUME NEW name, NEW fr, NEW probes
  PROVE
  /\ Owned(name, fr, probes, "backwash_schedule_enabled", BackwashScheduleEnabled(fr))
  /\ Owned(name, fr, probes, "variable_speed_pump_enabled", VariableSpeedPumpEnabled(fr))
  /\ Owned(name, fr, probes, "heating_condition", HeatingCondition(fr))
  /\ Owned(name, fr, probes, "flow_detection_enabled", FlowDetectionEnabled(fr))
  /\ Owned(name, fr, probes, "service_menu_open", ServiceMenuOpen(fr))
  /\ Owned(name, fr, probes, "heating_control_enabled", HeatingControlEnabled(fr))
  /\ Owned(name, fr, probes, "filtration_schedule", FiltrationSchedule("v7", fr))
  /\ Owned(name, fr, probes, "water_level_sensor_enabled", WaterLevelSensorEnabled(fr))
  /\ Owned(name, fr, probes, "heating_linked_to_filtration", HeatingLinkedToFiltration(fr))
  /\ Owned(name, fr, probes, "variable_speed_pump_type", VariableSpeedPumpType(fr))
  /\ Owned(name, fr, probes, "heating_allowed", HeatingAllowed(fr))
  /\ Owned(name, fr, probes, "alarm_no_flow_to_probes", AlarmNoFlowToProbes("v7"))
  /\ Owned(name, fr, probes, "alarm_rapid_ph_change", AlarmRapidPhChange)
<1> DEFINE R(f, n, bits) == RowOwned(name, fr, probes, f, n, bits)
<1>1. /\ R("backwash_schedule_enabled", 22, {16})
      /\ R("variable_speed_pump_enabled", 22, {8})
      /\ R("heating_condition", 22, {1, 2, 32})
      /\ R("flow_detection_enabled", 37, {2})
      /\ R("service_menu_open", 37, {MENU_OPEN})
      /\ R("heating_control_enabled", 37, {8})
      /\ R("filtration_schedule", 37, {16, 32})
      /\ R("water_level_sensor_enabled", 37, {64})
      /\ R("heating_linked_to_filtration", 38, {16})
      /\ R("variable_speed_pump_type", 78, {4, 8})
      /\ R("heating_allowed", 78, {128})
      /\ R("alarm_no_flow_to_probes", 13, {4})
      /\ R("alarm_rapid_ph_change", 13, {8})
  BY PlainBits DEF RowOwned, Owners
<1>. QED
  BY <1>1, BitsOwned, FlagsOwned, NowhereOwned
  DEF BackwashScheduleEnabled, VariableSpeedPumpEnabled, HeatingCondition,
        FlowDetectionEnabled, ServiceMenuOpen, HeatingControlEnabled,
        FiltrationSchedule, WaterLevelSensorEnabled, HeatingLinkedToFiltration,
        VariableSpeedPumpType, HeatingAllowed, AlarmNoFlowToProbes, AlarmRapidPhChange


-----------------------------------------------------------------------------
(* The quantities that the models take from different places *)

\* The reading is one that some frame bore out.
Located(way) == way # "not_located"

\* Each quantity has a reading of its own.
LEMMA ReadIs ==
  ASSUME NEW way, Located(way), NEW fr, NEW dev
  PROVE
  /\ Read("configuration", way, fr, dev) = Value(Nowhere)
  /\ Read("serial_number", way, fr, dev) = SerialNumber(way)
  /\ Read("timestamp", way, fr, dev) = Timestamp(way, fr)
  /\ Read("unit_clock", way, fr, dev) = UnitClock(way, fr)
  /\ Read("air_temperature", way, fr, dev) = AirTemperature(fr)
  /\ Read("water_temperature", way, fr, dev) = WaterTemperature(way, fr)
  /\ Read("water_flow_to_probes", way, fr, dev) = WaterFlowToProbes(way)
  /\ Read("salinity", way, fr, dev) = Salinity(way, fr)
  /\ Read("chlorine_production", way, fr, dev) = ChlorineProduction(way, fr)
  /\ Read("ph", way, fr, dev) = Ph(way, fr, dev.probes)
  /\ Read("redox", way, fr, dev) = Redox(way, fr, dev.probes)
  /\ Read("free_chlorine", way, fr, dev) = FreeChlorine(fr, dev.probes)
  /\ Read("free_chlorine_mv", way, fr, dev) = FreeChlorineMv(fr, dev.probes)
  /\ Read("ph_target", way, fr, dev) = PhTarget(way, fr, dev.probes)
  /\ Read("free_chlorine_target", way, fr, dev) = FreeChlorineTarget(fr, dev.probes)
  /\ Read("redox_target", way, fr, dev) = RedoxTarget(way, fr, dev.probes)
  /\ Read("chlorine_dose_target", way, fr, dev) = ChlorineDoseTarget(fr, dev.probes)
  /\ Read("oxygen_dose_target", way, fr, dev) = OxygenDoseTarget(fr)
  /\ Read("algaecide_dose_target", way, fr, dev) = AlgaecideDoseTarget(way, fr)
  /\ Read("flocculant_dose_target", way, fr, dev) = FlocculantDoseTarget(way, fr)
  /\ Read("water_temperature_target", way, fr, dev) = WaterTemperatureTarget(fr)
  /\ Read("pool_volume", way, fr, dev) = PoolVolume(way, fr)
  /\ Read("startup_delay", way, fr, dev) = StartupDelay(way, fr)
  /\ Read("dosing_delay", way, fr, dev) = DosingDelay(way, fr)
  /\ Read("max_refill_time", way, fr, dev) = MaxRefillTime(fr)
  /\ Read("max_ph_doses", way, fr, dev) = MaxPhDoses(fr)
  /\ Read("ph_minus_concentration", way, fr, dev) = PhMinusConcentration(fr)
  /\ Read("ph_minus_flow_rate", way, fr, dev) = PhMinusFlowRate(way, fr)
  /\ Read("chlorine_flow_rate", way, fr, dev) = ChlorineFlowRate(way, fr)
  /\ Read("oxygen_flow_rate", way, fr, dev) = OxygenFlowRate(fr)
  /\ Read("algaecide_flow_rate", way, fr, dev) = AlgaecideFlowRate(way, fr)
  /\ Read("flocculant_flow_rate", way, fr, dev) = FlocculantFlowRate(way, fr)
  /\ Read("ph_minus_pump_running", way, fr, dev) = PhMinusPumpRunning(way, fr)
  /\ Read("chlorine_pump_running", way, fr, dev) = ChlorinePumpRunning(way, fr)
  /\ Read("oxygen_pump_running", way, fr, dev) =
         OxygenPumpRunning(fr, dev.values["oxygen_flow_rate"])
  /\ Read("algaecide_pump_running", way, fr, dev) =
         AlgaecidePumpRunning(way, fr, dev.values["algaecide_flow_rate"])
  /\ Read("flocculant_pump_running", way, fr, dev) =
         FlocculantPumpRunning(way, fr, dev.values["flocculant_flow_rate"])
  /\ Read("electrolysis_running", way, fr, dev) = ElectrolysisRunning(way, fr)
  /\ Read("electrode_polarity", way, fr, dev) = ElectrodePolarity(way, fr)
  /\ Read("service_menu_open", way, fr, dev) = ServiceMenuOpen(fr)
  /\ Read("filtration_running", way, fr, dev) =
         FiltrationRunning(way, fr, dev.values["service_menu_open"])
  /\ Read("filtration_schedule", way, fr, dev) = FiltrationSchedule(way, fr)
  /\ Read("filtration_period_1_start", way, fr, dev) = FiltrationPeriod1Start(way, fr)
  /\ Read("filtration_period_1_end", way, fr, dev) = FiltrationPeriod1End(way, fr)
  /\ Read("filtration_period_2_start", way, fr, dev) = FiltrationPeriod2Start(fr)
  /\ Read("filtration_period_2_end", way, fr, dev) = FiltrationPeriod2End(fr)
  /\ Read("variable_speed_pump_enabled", way, fr, dev) = VariableSpeedPumpEnabled(fr)
  /\ Read("variable_speed_pump_type", way, fr, dev) = VariableSpeedPumpType(fr)
  /\ Read("flow_detection_enabled", way, fr, dev) = FlowDetectionEnabled(fr)
  /\ Read("backwash_running", way, fr, dev) = BackwashRunning(fr)
  /\ Read("backwash_interval", way, fr, dev) = BackwashInterval(fr)
  /\ Read("backwash_start_time", way, fr, dev) = BackwashStartTime(fr)
  /\ Read("backwash_duration", way, fr, dev) = BackwashDuration(fr)
  /\ Read("backwash_schedule_enabled", way, fr, dev) = BackwashScheduleEnabled(fr)
  /\ Read("heating_running", way, fr, dev) = HeatingRunning(fr)
  /\ Read("heating_allowed", way, fr, dev) = HeatingAllowed(fr)
  /\ Read("heating_condition", way, fr, dev) = HeatingCondition(fr)
  /\ Read("heating_control_enabled", way, fr, dev) = HeatingControlEnabled(fr)
  /\ Read("heating_linked_to_filtration", way, fr, dev) = HeatingLinkedToFiltration(fr)
  /\ Read("freeze_protection_enabled", way, fr, dev) = FreezeProtectionEnabled(way, fr)
  /\ Read("refilling", way, fr, dev) = Refilling(fr)
  /\ Read("water_level", way, fr, dev) = WaterLevel(fr)
  /\ Read("water_level_low_alarm", way, fr, dev) = WaterLevelLowAlarm(fr)
  /\ Read("water_level_refill_start", way, fr, dev) = WaterLevelRefillStart(fr)
  /\ Read("water_level_refill_stop", way, fr, dev) = WaterLevelRefillStop(fr)
  /\ Read("water_level_high_alarm", way, fr, dev) = WaterLevelHighAlarm(fr)
  /\ Read("water_level_sensor_enabled", way, fr, dev) = WaterLevelSensorEnabled(fr)
  /\ Read("alarm_max_disinfection_dose", way, fr, dev) = AlarmMaxDisinfectionDose(way)
  /\ Read("alarm_no_flow_to_probes", way, fr, dev) = AlarmNoFlowToProbes(way)
  /\ Read("alarm_ph_dosing_ineffective", way, fr, dev) = AlarmPhDosingIneffective
  /\ Read("alarm_rapid_ph_change", way, fr, dev) = AlarmRapidPhChange
BY DEF Read, Reading, Located

\* What a reading leaves in the device: nothing, where it is told not to be there.
AsFilled(v) == IF v = NOT_PRESENT THEN None ELSE v

\* A third pump's flow rate, as far as it has been read.
RatesRead(name, fr, dev) ==
  \A f \in {"algaecide_flow_rate", "flocculant_flow_rate", "oxygen_flow_rate"} :
    dev.values[f] \in {None, AsFilled(Read(f, WayOf(name, f), fr, BlankDevice))}

\* The quantities that every v7 model takes from the same place.
LEMMA PlainOwned ==
  ASSUME NEW name \in V7Names, NEW fr, fr.protocol = "v7", NEW probes, NEW dev,
         NEW f \in
           {"water_level", "ph_target", "water_temperature_target",
            "backwash_interval", "backwash_duration", "ph_minus_flow_rate",
            "water_level_low_alarm", "water_level_refill_stop",
            "water_level_high_alarm", "ph_minus_concentration", "max_ph_doses",
            "water_temperature", "air_temperature", "filtration_period_1_start",
            "filtration_period_1_end", "filtration_period_2_start",
            "filtration_period_2_end", "backwash_start_time", "startup_delay",
            "max_refill_time", "pool_volume", "dosing_delay", "ph", "free_chlorine",
            "backwash_schedule_enabled", "variable_speed_pump_enabled",
            "heating_condition", "flow_detection_enabled", "service_menu_open",
            "heating_control_enabled", "filtration_schedule",
            "water_level_sensor_enabled", "heating_linked_to_filtration",
            "variable_speed_pump_type", "heating_allowed",
            "alarm_no_flow_to_probes", "alarm_rapid_ph_change"},
         WayOf(name, f) # "not_located"
  PROVE  Owned(name, fr, probes, f, Read(f, WayOf(name, f), fr, dev))
<1>1. WayOf(name, f) = "v7"
  BY DEF WayOf, V7Names
<1>2. Located("v7")
  BY DEF Located
<1>. QED  BY <1>1, <1>2, ReadIs, BytesOwned, WordsOwned, FlagQuantitiesOwned


\* The quantities that are several bytes, or bits of the alarm bytes.
LEMMA OtherRowsOwned ==
  ASSUME NEW name \in V7Names, NEW fr, fr.protocol = "v7", NEW probes
  PROVE  /\ Owned(name, fr, probes, "serial_number", SerialNumber("v7"))
         /\ Owned(name, fr, probes, "timestamp", Timestamp("v7", fr))
         /\ Owned(name, fr, probes, "unit_clock", UnitClock("v7", fr))
         /\ Owned(name, fr, probes, "water_flow_to_probes", WaterFlowToProbes("v7"))
         /\ Owned(name, fr, probes, "alarm_max_disinfection_dose",
                  AlarmMaxDisinfectionDose("v7"))
         /\ Owned(name, fr, probes, "alarm_ph_dosing_ineffective",
                  AlarmPhDosingIneffective)
<1> DEFINE R(f, n) == RowOwned(name, fr, probes, f, n, BITS)
<1>1. Owned(name, fr, probes, "serial_number", SerialNumber("v7"))
  <2>1. /\ R("serial_number", 0) /\ R("serial_number", 1)
        /\ R("serial_number", 2) /\ R("serial_number", 3)
    BY PlainRows DEF RowOwned, Owners
  <2>2. /\ \A p \in Word(0) : Owner(name, fr, probes, p) \in Owners("serial_number")
        /\ \A p \in Word(2) : Owner(name, fr, probes, p) \in Owners("serial_number")
    BY <2>1, WordOwned
  <2>. QED  BY <2>2 DEF SerialNumber, Owned, Value
<1>2. \A f \in {"timestamp", "unit_clock"} :
        \A p \in CLOCK_BYTES : Owner(name, fr, probes, p) \in Owners(f)
  <2>1. \A f \in {"timestamp", "unit_clock"} :
          R(f, 6) /\ R(f, 7) /\ R(f, 8) /\ R(f, 9) /\ R(f, 10) /\ R(f, 11)
    BY PlainRows DEF RowOwned, Owners
  <2>2. \A f \in {"timestamp", "unit_clock"} :
          /\ \A p \in Word(6) : Owner(name, fr, probes, p) \in Owners(f)
          /\ \A p \in Word(8) : Owner(name, fr, probes, p) \in Owners(f)
          /\ \A p \in Word(10) : Owner(name, fr, probes, p) \in Owners(f)
    BY <2>1, WordOwned
  <2>. QED  BY <2>2 DEF CLOCK_BYTES
<1>3. /\ Owned(name, fr, probes, "timestamp", Timestamp("v7", fr))
      /\ Owned(name, fr, probes, "unit_clock", UnitClock("v7", fr))
  BY <1>2, NowhereOwned DEF Timestamp, UnitClock, Owned, Value
<1>4. Owned(name, fr, probes, "water_flow_to_probes", WaterFlowToProbes("v7"))
  <2>1. R("water_flow_to_probes", 28)
    BY PlainRows DEF RowOwned, Owners
  <2>. QED  BY <2>1, BitsOwned DEF WaterFlowToProbes, Byte
<1>5. /\ Owned(name, fr, probes, "alarm_max_disinfection_dose",
               AlarmMaxDisinfectionDose("v7"))
      /\ Owned(name, fr, probes, "alarm_ph_dosing_ineffective",
               AlarmPhDosingIneffective)
  <2> DEFINE M(f, n, bits) == RowOwned(name, fr, probes, f, n, bits)
  <2>1. /\ M("alarm_max_disinfection_dose", 13, {1})
        /\ M("alarm_max_disinfection_dose", 12, {32})
        /\ M("alarm_ph_dosing_ineffective", 13, {2})
        /\ M("alarm_ph_dosing_ineffective", 12, {64})
    BY PlainBits DEF RowOwned, Owners
  <2>. QED  BY <2>1, TwoRowsOwned DEF AlarmMaxDisinfectionDose, AlarmPhDosingIneffective
<1>. QED  BY <1>1, <1>3, <1>4, <1>5

\* The millivolts, of a unit with the chlorine probe.
LEMMA MillivoltsOwned ==
  ASSUME NEW name, NEW fr, NEW probes, NEW here,
         RowOwned(name, fr, probes, "free_chlorine_mv", 20, BITS),
         RowOwned(name, fr, probes, "free_chlorine_mv", 21, BITS)
  PROVE  Owned(name, fr, probes, "free_chlorine_mv", FreeChlorineMv(fr, here))
BY WordOwned, NowhereOwned DEF FreeChlorineMv

\* Which of the models a name is.
Salt(name) == name = "v7 SALT"
Oxy(name) == name = "v7 OXY"
Net(name) == name = "v7 NET"

\* The probes, as far as they have been read.
ProbesRead(here, probes) == here \in {{}, probes}

\* Bytes that are another quantity's on another model.
LEMMA BytesByModelOwned ==
  ASSUME NEW name \in V7Names, NEW fr, NEW probes, NEW here,
         ProbesRead(here, probes)
  PROVE
  /\ Salt(name) =>
       /\ Owned(name, fr, probes, "salinity", Salinity("v7", fr))
       /\ Owned(name, fr, probes, "chlorine_production", ChlorineProduction("v7", fr))
  /\ ~Salt(name) =>
       Owned(name, fr, probes, "free_chlorine_mv", FreeChlorineMv(fr, here))
  /\ Oxy(name) =>
       /\ Owned(name, fr, probes, "oxygen_flow_rate", OxygenFlowRate(fr))
       /\ Owned(name, fr, probes, "oxygen_dose_target", OxygenDoseTarget(fr))
       /\ Owned(name, fr, probes, "algaecide_flow_rate", AlgaecideFlowRate("v7", fr))
  /\ ~Oxy(name) =>
       /\ Owned(name, fr, probes, "chlorine_flow_rate", ChlorineFlowRate("v7", fr))
       /\ Owned(name, fr, probes, "water_level_refill_start", WaterLevelRefillStart(fr))
       /\ Owned(name, fr, probes, "free_chlorine_target", FreeChlorineTarget(fr, here))
       /\ Owned(name, fr, probes, "redox_target", RedoxTarget("v7", fr, here))
       /\ Owned(name, fr, probes, "chlorine_dose_target", ChlorineDoseTarget(fr, here))
  /\ Owned(name, fr, probes, "redox", Redox("v7", fr, here))
  /\ Owned(name, fr, probes, "algaecide_dose_target", AlgaecideDoseTarget("v7", fr))
<1> DEFINE R(f, n) == RowOwned(name, fr, probes, f, n, BITS)
           Row(n, bit) == RowOwner(name, Third(name, fr), probes, n, bit)
<1>1. /\ Salt(name) => R("salinity", 20) /\ R("chlorine_production", 21)
      /\ ~Salt(name) => R("free_chlorine_mv", 20) /\ R("free_chlorine_mv", 21)
      /\ Oxy(name) => R("oxygen_flow_rate", 99) /\ R("algaecide_flow_rate", 103)
      /\ ~Oxy(name) => R("chlorine_flow_rate", 99) /\ R("water_level_refill_start", 103)
  <2>1. \A bit :
          /\ Row(20, bit) = IF name = "v7 SALT" THEN "salinity" ELSE "free_chlorine_mv"
          /\ Row(21, bit) = IF name = "v7 SALT" THEN "chlorine_production"
                           ELSE "free_chlorine_mv"
    BY DEF RowOwner
  <2>2. \A bit :
          /\ Row(99, bit) = IF name = "v7 OXY" THEN "oxygen_flow_rate"
                           ELSE "chlorine_flow_rate"
          /\ Row(103, bit) = IF name = "v7 OXY" THEN "algaecide_flow_rate"
                            ELSE "water_level_refill_start"
    BY DEF RowOwner
  <2>3. /\ Salt(name) => R("salinity", 20) /\ R("chlorine_production", 21)
        /\ ~Salt(name) => R("free_chlorine_mv", 20) /\ R("free_chlorine_mv", 21)
    BY <2>1 DEF RowOwned, Owners, Salt
  <2>4. Oxy(name) => R("oxygen_flow_rate", 99) /\ R("algaecide_flow_rate", 103)
    BY <2>2 DEF RowOwned, Owners, Oxy
  <2>5. ~Oxy(name) =>
          R("chlorine_flow_rate", 99) /\ R("water_level_refill_start", 103)
    BY <2>2 DEF RowOwned, Owners, Oxy
  <2>. QED  BY <2>3, <2>4, <2>5
<1>2. Salt(name) =>
        /\ Owned(name, fr, probes, "salinity", Salinity("v7", fr))
        /\ Owned(name, fr, probes, "chlorine_production", ChlorineProduction("v7", fr))
  BY <1>1, ByteOwned DEF Salinity, ChlorineProduction
<1>12. ~Salt(name) =>
         Owned(name, fr, probes, "free_chlorine_mv", FreeChlorineMv(fr, here))
  BY <1>1, MillivoltsOwned
<1>13. Oxy(name) =>
         /\ Owned(name, fr, probes, "oxygen_flow_rate", OxygenFlowRate(fr))
         /\ Owned(name, fr, probes, "algaecide_flow_rate", AlgaecideFlowRate("v7", fr))
  BY <1>1, ByteOwned DEF OxygenFlowRate, AlgaecideFlowRate
<1>14. ~Oxy(name) =>
         /\ Owned(name, fr, probes, "chlorine_flow_rate", ChlorineFlowRate("v7", fr))
         /\ Owned(name, fr, probes, "water_level_refill_start",
                  WaterLevelRefillStart(fr))
  BY <1>1, ByteOwned DEF ChlorineFlowRate, WaterLevelRefillStart
<1>3. R(TheSetpoint(name, probes), 53)
  <2>1. TheSetpoint(name, probes) \in Owners(TheSetpoint(name, probes))
    BY DEF TheSetpoint, Owners
  <2>2. \A bit : Row(53, bit) = TheSetpoint(name, probes)
    BY DEF RowOwner
  <2>. QED  BY <2>1, <2>2 DEF RowOwned
<1>4. Oxy(name) => TheSetpoint(name, probes) = "oxygen_dose_target"
  BY DEF TheSetpoint, Oxy
<1>5. ~Oxy(name) =>
        TheSetpoint(name, probes) =
          IF "CLF" \in probes THEN "free_chlorine_target"
          ELSE IF "REDOX" \in probes THEN "redox_target" ELSE "chlorine_dose_target"
  BY DEF TheSetpoint, V7Names, Oxy
<1>6. Oxy(name) =>
        Owned(name, fr, probes, "oxygen_dose_target", OxygenDoseTarget(fr))
  BY <1>3, <1>4, ByteOwned DEF OxygenDoseTarget
<1>7. ~Oxy(name) =>
        Owned(name, fr, probes, "free_chlorine_target", FreeChlorineTarget(fr, here))
  BY <1>3, <1>5, ByteOwned, NowhereOwned DEF FreeChlorineTarget, ProbesRead
<1>8. ~Oxy(name) =>
        Owned(name, fr, probes, "redox_target", RedoxTarget("v7", fr, here))
  BY <1>3, <1>5, ByteOwned, NowhereOwned DEF RedoxTarget, ProbesRead
<1>9. ~Oxy(name) =>
        Owned(name, fr, probes, "chlorine_dose_target", ChlorineDoseTarget(fr, here))
  BY <1>3, <1>5, ByteOwned, NowhereOwned DEF ChlorineDoseTarget, ProbesRead
<1>10. Owned(name, fr, probes, "redox", Redox("v7", fr, here))
  <2>1. R("redox", 16) /\ R("redox", 17) /\ R("redox", 18) /\ R("redox", 19)
    BY PlainRows DEF RowOwned, Owners
  <2>. QED  BY <2>1, WordOwned, NowhereOwned DEF Redox
<1>11. Owned(name, fr, probes, "algaecide_dose_target", AlgaecideDoseTarget("v7", fr))
  <2>1. R("algaecide_dose_target", 72)
    BY PlainRows DEF RowOwned, Owners
  <2>. QED  BY <2>1, ByteOwned DEF AlgaecideDoseTarget
<1>. QED
  BY <1>2, <1>6, <1>7, <1>8, <1>9, <1>10, <1>11, <1>12, <1>13, <1>14

\* The third pump's relay.
LEMMA PortOwner ==
  ASSUME NEW name, NEW third, NEW probes
  PROVE  RowOwner(name, third, probes, 29, BIT_20) =
           IF "algicide" \in third THEN "algaecide_pump_running"
           ELSE "flocculant_pump_running"
BY DEF RowOwner, BACKWASH, FILLING, HEATING, FILTRATION, BIT_10, BIT_20, BIT_40, BIT_80

\* Relays that drive another output on another model.
LEMMA RelaysByModelOwned ==
  ASSUME NEW name \in V7Names, NEW fr, NEW probes, NEW rate, NEW menu
  PROVE
  /\ Salt(name) =>
       /\ Owned(name, fr, probes, "electrolysis_running", ElectrolysisRunning("v7", fr))
       /\ Owned(name, fr, probes, "electrode_polarity", ElectrodePolarity("v7", fr))
       /\ Owned(name, fr, probes, "freeze_protection_enabled",
                FreezeProtectionEnabled("v7_winter_mode", fr))
  /\ ~Salt(name) =>
       Owned(name, fr, probes, "algaecide_pump_running",
             AlgaecidePumpRunning("v7_oxy", fr, rate))
  /\ Oxy(name) =>
       Owned(name, fr, probes, "oxygen_pump_running", OxygenPumpRunning(fr, rate))
  /\ ~Salt(name) /\ ~Oxy(name) =>
       Owned(name, fr, probes, "chlorine_pump_running", ChlorinePumpRunning("v7", fr))
  /\ Net(name) =>
       /\ Owned(name, fr, probes, "chlorine_pump_running", ChlorinePumpRunning("v7_net", fr))
       /\ Owned(name, fr, probes, "ph_minus_pump_running", PhMinusPumpRunning("v7_net", fr))
  /\ ~Net(name) =>
       /\ Owned(name, fr, probes, "backwash_running", BackwashRunning(fr))
       /\ Owned(name, fr, probes, "refilling", Refilling(fr))
  /\ Owned(name, fr, probes, "ph_minus_pump_running", PhMinusPumpRunning("v7", fr))
  /\ Owned(name, fr, probes, "heating_running", HeatingRunning(fr))
  /\ Owned(name, fr, probes, "filtration_running", FiltrationRunning("v7", fr, menu))
  /\ Owned(name, fr, probes, "filtration_running",
           FiltrationRunning("v7_menu_override", fr, menu))
  /\ Owned(name, fr, probes, "freeze_protection_enabled",
           FreezeProtectionEnabled("v7", fr))
<1> DEFINE B(f, bit) == RowOwned(name, fr, probes, f, 29, {bit})
<1>0. /\ RowOwner(name, Third(name, fr), probes, 29, BACKWASH) =
           IF name = "v7 NET" THEN "ph_minus_pump_running" ELSE "backwash_running"
      /\ RowOwner(name, Third(name, fr), probes, 29, FILLING) =
           IF name = "v7 NET" THEN "chlorine_pump_running" ELSE "refilling"
      /\ RowOwner(name, Third(name, fr), probes, 29, BIT_10) =
           IF name = "v7 SALT" THEN "electrolysis_running" ELSE "algaecide_pump_running"
      /\ RowOwner(name, Third(name, fr), probes, 29, BIT_20) =
           IF "algicide" \in Third(name, fr) THEN "algaecide_pump_running"
           ELSE "flocculant_pump_running"
      /\ RowOwner(name, Third(name, fr), probes, 29, BIT_40) = Disinfector(name)
      /\ RowOwner(name, Third(name, fr), probes, 29, BIT_80) = "ph_minus_pump_running"
  BY DEF RowOwner, BACKWASH, FILLING, HEATING, FILTRATION, BIT_10, BIT_20, BIT_40, BIT_80
<1>1. /\ Salt(name) => /\ B("electrolysis_running", BIT_10)
                             /\ RowOwned(name, fr, probes, "electrode_polarity", 29,
                                         {BIT_10, BIT_40})
      /\ ~Salt(name) => B("algaecide_pump_running", BIT_10)
      /\ Oxy(name) => B("oxygen_pump_running", BIT_40)
      /\ ~Salt(name) /\ ~Oxy(name) => B("chlorine_pump_running", BIT_40)
      /\ Net(name) => /\ B("chlorine_pump_running", FILLING)
                            /\ B("ph_minus_pump_running", BACKWASH)
      /\ ~Net(name) => /\ B("backwash_running", BACKWASH)
                            /\ B("refilling", FILLING)
      /\ B("ph_minus_pump_running", BIT_80)
  BY <1>0 DEF Owners, RowOwned, Disinfector, Salt, Oxy, Net
<1>2. /\ B("heating_running", HEATING) /\ B("filtration_running", FILTRATION)
      /\ RowOwned(name, fr, probes, "freeze_protection_enabled", 22, {4})
      /\ RowOwned(name, fr, probes, "freeze_protection_enabled", 37, {SHARED_PORT_ROUTING})
  BY PlainBits DEF RowOwned, Owners
<1>. QED
  BY <1>1, <1>2, RelayOwned, BitsOwned, FlagsOwned
  DEF ElectrolysisRunning, ElectrodePolarity, FreezeProtectionEnabled,
      AlgaecidePumpRunning, OxygenPumpRunning, ChlorinePumpRunning, PhMinusPumpRunning,
      BackwashRunning, Refilling, HeatingRunning, FiltrationRunning

\* Algicide and flocculant, on ports of their own or on the one that is settled.
LEMMA ThirdsOwned ==
  ASSUME NEW name \in V7Names, NEW fr, NEW probes
  PROVE
  /\ Salt(name) =>
       /\ Owned(name, fr, probes, "algaecide_dose_target",
                AlgaecideDoseTarget("v7_routed_by_byte37", fr))
       /\ Owned(name, fr, probes, "algaecide_flow_rate",
                AlgaecideFlowRate("v7_routed_by_byte37", fr))
  /\ Owned(name, fr, probes, "flocculant_dose_target",
           FlocculantDoseTarget("v7_routed_by_byte37", fr))
  /\ Owned(name, fr, probes, "flocculant_flow_rate",
           FlocculantFlowRate("v7_routed_by_byte37", fr))
  /\ ~Salt(name) =>
       /\ Owned(name, fr, probes, "flocculant_dose_target", FlocculantDoseTarget("v7", fr))
       /\ Owned(name, fr, probes, "flocculant_flow_rate", FlocculantFlowRate("v7", fr))
<1> DEFINE R(f, n) == RowOwned(name, fr, probes, f, n, BITS)
           Row(n, bit) == RowOwner(name, Third(name, fr), probes, n, bit)
<1>1. /\ "algicide" \in Third(name, fr) =>
           R("algaecide_dose_target", 54) /\ R("algaecide_flow_rate", 101)
      /\ "algicide" \notin Third(name, fr) =>
           R("flocculant_dose_target", 54) /\ R("flocculant_flow_rate", 101)
  <2>1. \A bit :
          /\ Row(54, bit) = IF "algicide" \in Third(name, fr)
                           THEN "algaecide_dose_target" ELSE "flocculant_dose_target"
          /\ Row(101, bit) = IF "algicide" \in Third(name, fr)
                            THEN "algaecide_flow_rate" ELSE "flocculant_flow_rate"
    BY DEF RowOwner
  <2>. QED  BY <2>1 DEF RowOwned, Owners, Salt
<1>2. /\ Salt(name) /\ fr.settings # Unset =>
           ("algicide" \in Third(name, fr) <=> SHARED_PORT_ROUTING \in fr.settings)
      /\ ~Salt(name) => "algicide" \notin Third(name, fr)
  BY DEF Third, V7Names, Salt
<1>. QED
  BY <1>1, <1>2, ByteOwned, NowhereOwned
  DEF AlgaecideDoseTarget, AlgaecideFlowRate, FlocculantDoseTarget, FlocculantFlowRate,
      byte_when_flags


\* A pump whose flow rate nobody has told, for it is the other chemical's port or
\* no byte is filled in, has no running state either.
LEMMA ThirdPumpsOwned ==
  ASSUME NEW name, Salt(name), NEW fr, NEW probes, NEW dev, RatesRead(name, fr, dev)
  PROVE
  /\ Owned(name, fr, probes, "algaecide_pump_running",
           AlgaecidePumpRunning("v7", fr, dev.values["algaecide_flow_rate"]))
  /\ Owned(name, fr, probes, "flocculant_pump_running",
           FlocculantPumpRunning("v7", fr, dev.values["flocculant_flow_rate"]))
<1> DEFINE B(f) == RowOwned(name, fr, probes, f, 29, {BIT_20})
           port == Third(name, fr)
           alg == dev.values["algaecide_flow_rate"]
           floc == dev.values["flocculant_flow_rate"]
<1>1. /\ "algicide" \in port => B("algaecide_pump_running")
      /\ "algicide" \notin port => B("flocculant_pump_running")
  <2>. QED  BY PortOwner DEF RowOwned, Owners
<1>2. /\ Read("algaecide_flow_rate", WayOf(name, "algaecide_flow_rate"), fr, BlankDevice)
           = byte_when_flags(fr, 101, TRUE)
      /\ Read("flocculant_flow_rate", WayOf(name, "flocculant_flow_rate"), fr, BlankDevice)
           = byte_when_flags(fr, 101, FALSE)
  <2>1. /\ WayOf(name, "algaecide_flow_rate") = "v7_routed_by_byte37"
        /\ WayOf(name, "flocculant_flow_rate") = "v7_routed_by_byte37"
    BY DEF WayOf, Salt
  <2>2. Located("v7_routed_by_byte37")
    BY DEF Located
  <2>3. /\ Read("algaecide_flow_rate", "v7_routed_by_byte37", fr, BlankDevice)
             = AlgaecideFlowRate("v7_routed_by_byte37", fr)
        /\ Read("flocculant_flow_rate", "v7_routed_by_byte37", fr, BlankDevice)
             = FlocculantFlowRate("v7_routed_by_byte37", fr)
    BY <2>2, ReadIs
  <2>. QED  BY <2>1, <2>3 DEF AlgaecideFlowRate, FlocculantFlowRate
<1>3. /\ "algicide" \notin port => byte_when_flags(fr, 101, TRUE) = NOT_PRESENT
      /\ "algicide" \in port => byte_when_flags(fr, 101, FALSE) = NOT_PRESENT
  BY DEF Third, byte_when_flags, Salt
<1>4. /\ "algicide" \notin port => alg = None
      /\ "algicide" \in port => floc = None
  BY <1>2, <1>3 DEF RatesRead, AsFilled
<1>5. None.is = "none"
  BY DEF None
<1>6. /\ "algicide" \notin port => flag_when_known(alg, fr, BIT_20) = NOT_PRESENT
      /\ "algicide" \in port => flag_when_known(floc, fr, BIT_20) = NOT_PRESENT
  BY <1>4, <1>5 DEF flag_when_known
<1>7. /\ "algicide" \in port =>
           Owned(name, fr, probes, "algaecide_pump_running",
                 flag_when_known(alg, fr, BIT_20))
      /\ "algicide" \notin port =>
           Owned(name, fr, probes, "flocculant_pump_running",
                 flag_when_known(floc, fr, BIT_20))
  BY <1>1, RelayOwned
<1>. QED
  BY <1>6, <1>7, NowhereOwned DEF AlgaecidePumpRunning, FlocculantPumpRunning

\* On the other models the third pump doses flocculant.
LEMMA FlocculantPumpOwned ==
  ASSUME NEW name \in V7Names, ~Salt(name), NEW fr, NEW probes, NEW rate
  PROVE  Owned(name, fr, probes, "flocculant_pump_running",
               FlocculantPumpRunning("v7", fr, rate))
<1>1. "algicide" \notin Third(name, fr)
  BY DEF Third, V7Names, Salt
<1>3. RowOwned(name, fr, probes, "flocculant_pump_running", 29, {BIT_20})
  BY <1>1, PortOwner DEF RowOwned, Owners
<1>. QED  BY <1>3, RelayOwned DEF FlocculantPumpRunning

\* Whatever has been read of a v7 frame so far, the next quantity is read from
\* places of its own.
LEMMA V7Owned ==
  ASSUME NEW name \in V7Names, NEW fr, fr.protocol = "v7", NEW probes, NEW dev,
         dev.probes \in {{}, probes}, RatesRead(name, fr, dev), NEW f, Has(name, f)
  PROVE  Owned(name, fr, probes, f, Read(f, WayOf(name, f), fr, dev))
<1> DEFINE way == WayOf(name, f)
           O == Owned(name, fr, probes, f, Read(f, WayOf(name, f), fr, dev))
<1>0. Located("v7") /\ Located("v7_net") /\ Located("v7_oxy")
      /\ Located("v7_menu_override") /\ Located("v7_winter_mode")
      /\ Located("v7_routed_by_byte37") /\ Located("v7_by_unit_type_byte")
      /\ Located("v7_without_dose") /\ Located("v7_ph_and_oxy")
  BY DEF Located
<1>p. ProbesRead(dev.probes, probes)
  BY DEF ProbesRead
<1>1. CASE way = "not_located"
  <2>1. Read(f, "not_located", fr, dev) = None
    BY DEF Read
  <2>. QED  BY <1>1, <2>1, NowhereOwned
<1>2. CASE way # "not_located" /\ f \in
                   {"serial_number", "timestamp", "unit_clock",
                    "water_flow_to_probes", "alarm_max_disinfection_dose",
                    "alarm_ph_dosing_ineffective"}
  <2>1. way = "v7"
    BY <1>2 DEF WayOf, V7Names
  <2>3. CASE f = "serial_number"
    BY <2>3, <1>0, <1>p, <2>1, ReadIs, OtherRowsOwned
  <2>4. CASE f = "timestamp"
    BY <2>4, <1>0, <1>p, <2>1, ReadIs, OtherRowsOwned
  <2>5. CASE f = "unit_clock"
    BY <2>5, <1>0, <1>p, <2>1, ReadIs, OtherRowsOwned
  <2>6. CASE f = "water_flow_to_probes"
    BY <2>6, <1>0, <1>p, <2>1, ReadIs, OtherRowsOwned
  <2>7. CASE f = "alarm_max_disinfection_dose"
    BY <2>7, <1>0, <1>p, <2>1, ReadIs, OtherRowsOwned
  <2>8. CASE f = "alarm_ph_dosing_ineffective"
    BY <2>8, <1>0, <1>p, <2>1, ReadIs, OtherRowsOwned
  <2>. QED  BY <1>2, <2>3, <2>4, <2>5, <2>6, <2>7, <2>8
<1>3. CASE way # "not_located" /\ f \in
                   {"salinity", "chlorine_production"}
  <2>1. way = "v7"
    BY <1>3 DEF WayOf, V7Names
  <2>2. Salt(name)
    BY <1>3 DEF Has, Salt, Oxy, Net, V7Names, Algicide, Flocculant, WayOf
  <2>3. CASE f = "salinity"
    BY <2>3, <1>0, <1>p, <2>1, <2>2, ReadIs, BytesByModelOwned
  <2>4. CASE f = "chlorine_production"
    BY <2>4, <1>0, <1>p, <2>1, <2>2, ReadIs, BytesByModelOwned
  <2>. QED  BY <1>3, <2>3, <2>4
<1>4. CASE way # "not_located" /\ f \in
                   {"free_chlorine_mv"}
  <2>1. way = "v7"
    BY <1>4 DEF WayOf, V7Names
  <2>2. ~Salt(name)
    BY <1>4 DEF Has, Salt, Oxy, Net, V7Names, Algicide, Flocculant, WayOf
  <2>. QED  BY <1>4, <1>0, <1>p, <2>1, <2>2, ReadIs, BytesByModelOwned
<1>5. CASE way # "not_located" /\ f \in
                   {"oxygen_flow_rate", "oxygen_dose_target"}
  <2>1. way = "v7"
    BY <1>5 DEF WayOf, V7Names
  <2>2. Oxy(name)
    BY <1>5 DEF Has, Salt, Oxy, Net, V7Names, Algicide, Flocculant, WayOf
  <2>3. CASE f = "oxygen_flow_rate"
    BY <2>3, <1>0, <1>p, <2>1, <2>2, ReadIs, BytesByModelOwned
  <2>4. CASE f = "oxygen_dose_target"
    BY <2>4, <1>0, <1>p, <2>1, <2>2, ReadIs, BytesByModelOwned
  <2>. QED  BY <1>5, <2>3, <2>4
<1>6. CASE way # "not_located" /\ f \in
                   {"chlorine_flow_rate", "water_level_refill_start",
                    "free_chlorine_target",
                    "redox_target", "chlorine_dose_target"}
  <2>1. way = "v7"
    BY <1>6 DEF WayOf, V7Names
  <2>2. ~Oxy(name)
    BY <1>6 DEF Has, Salt, Oxy, Net, V7Names, Algicide, Flocculant, WayOf
  <2>3. CASE f = "chlorine_flow_rate"
    BY <2>3, <1>0, <1>p, <2>1, <2>2, ReadIs, BytesByModelOwned
  <2>4. CASE f = "water_level_refill_start"
    BY <2>4, <1>0, <1>p, <2>1, <2>2, ReadIs, BytesByModelOwned
  <2>5. CASE f = "free_chlorine_target"
    BY <2>5, <1>0, <1>p, <2>1, <2>2, ReadIs, BytesByModelOwned
  <2>6. CASE f = "redox_target"
    BY <2>6, <1>0, <1>p, <2>1, <2>2, ReadIs, BytesByModelOwned
  <2>7. CASE f = "chlorine_dose_target"
    BY <2>7, <1>0, <1>p, <2>1, <2>2, ReadIs, BytesByModelOwned
  <2>. QED  BY <1>6, <2>3, <2>4, <2>5, <2>6, <2>7
<1>7. CASE way # "not_located" /\ f \in
                   {"redox"}
  <2>1. way = "v7"
    BY <1>7 DEF WayOf, V7Names
  <2>. QED  BY <1>7, <1>0, <1>p, <2>1, ReadIs, BytesByModelOwned
<1>8. CASE way # "not_located" /\ f \in
                   {"electrolysis_running", "electrode_polarity"}
  <2>1. way = "v7"
    BY <1>8 DEF WayOf, V7Names
  <2>2. Salt(name)
    BY <1>8 DEF Has, Salt, Oxy, Net, V7Names, Algicide, Flocculant, WayOf
  <2>3. CASE f = "electrolysis_running"
    BY <2>3, <1>0, <1>p, <2>1, <2>2, ReadIs, RelaysByModelOwned
  <2>4. CASE f = "electrode_polarity"
    BY <2>4, <1>0, <1>p, <2>1, <2>2, ReadIs, RelaysByModelOwned
  <2>. QED  BY <1>8, <2>3, <2>4
<1>9. CASE way # "not_located" /\ f \in
                   {"oxygen_pump_running"}
  <2>1. way = "v7"
    BY <1>9 DEF WayOf, V7Names
  <2>2. Oxy(name)
    BY <1>9 DEF Has, Salt, Oxy, Net, V7Names, Algicide, Flocculant, WayOf
  <2>. QED  BY <1>9, <1>0, <1>p, <2>1, <2>2, ReadIs, RelaysByModelOwned
<1>10. CASE way # "not_located" /\ f \in
                   {"backwash_running", "refilling"}
  <2>1. way = "v7"
    BY <1>10 DEF WayOf, V7Names
  <2>2. ~Net(name)
    BY <1>10 DEF Has, Salt, Oxy, Net, V7Names, Algicide, Flocculant, WayOf
  <2>3. CASE f = "backwash_running"
    BY <2>3, <1>0, <1>p, <2>1, <2>2, ReadIs, RelaysByModelOwned
  <2>4. CASE f = "refilling"
    BY <2>4, <1>0, <1>p, <2>1, <2>2, ReadIs, RelaysByModelOwned
  <2>. QED  BY <1>10, <2>3, <2>4
<1>11. CASE way # "not_located" /\ f \in
                   {"heating_running"}
  <2>1. way = "v7"
    BY <1>11 DEF WayOf, V7Names
  <2>. QED  BY <1>11, <1>0, <1>p, <2>1, ReadIs, RelaysByModelOwned
<1>12. CASE way # "not_located" /\ f = "chlorine_pump_running"
  <2>1. (Net(name) /\ way = "v7_net") \/ (~Salt(name) /\ ~Oxy(name) /\ way = "v7")
    BY <1>12 DEF WayOf, V7Names, Has, Algicide, Salt, Oxy, Net
  <2>2. CASE Net(name) /\ way = "v7_net"
    BY <1>0, <1>p, <1>12, <2>2, ReadIs, RelaysByModelOwned
  <2>3. CASE ~Salt(name) /\ ~Oxy(name) /\ way = "v7"
    BY <1>0, <1>p, <1>12, <2>3, ReadIs, RelaysByModelOwned
  <2>. QED  BY <2>1, <2>2, <2>3
<1>13. CASE way # "not_located" /\ f = "ph_minus_pump_running"
  <2>1. (Net(name) /\ way = "v7_net") \/ way = "v7"
    BY <1>13 DEF WayOf, V7Names, Has, Algicide, Salt, Oxy, Net
  <2>2. CASE Net(name) /\ way = "v7_net"
    BY <1>0, <1>p, <1>13, <2>2, ReadIs, RelaysByModelOwned
  <2>3. CASE way = "v7"
    BY <1>0, <1>p, <1>13, <2>3, ReadIs, RelaysByModelOwned
  <2>. QED  BY <2>1, <2>2, <2>3
<1>14. CASE way # "not_located" /\ f = "filtration_running"
  <2>1. way = "v7_menu_override" \/ way = "v7"
    BY <1>14 DEF WayOf, V7Names, Has, Algicide, Salt, Oxy, Net
  <2>2. CASE way = "v7_menu_override"
    BY <1>0, <1>p, <1>14, <2>2, ReadIs, RelaysByModelOwned
  <2>3. CASE way = "v7"
    BY <1>0, <1>p, <1>14, <2>3, ReadIs, RelaysByModelOwned
  <2>. QED  BY <2>1, <2>2, <2>3
<1>15. CASE way # "not_located" /\ f = "freeze_protection_enabled"
  <2>1. (Salt(name) /\ way = "v7_winter_mode") \/ way = "v7"
    BY <1>15 DEF WayOf, V7Names, Has, Algicide, Salt, Oxy, Net
  <2>2. CASE Salt(name) /\ way = "v7_winter_mode"
    BY <1>0, <1>p, <1>15, <2>2, ReadIs, RelaysByModelOwned
  <2>3. CASE way = "v7"
    BY <1>0, <1>p, <1>15, <2>3, ReadIs, RelaysByModelOwned
  <2>. QED  BY <2>1, <2>2, <2>3
<1>16. CASE way # "not_located" /\ f = "algaecide_dose_target"
  <2>1. (Salt(name) /\ way = "v7_routed_by_byte37") \/ way = "v7"
    BY <1>16 DEF WayOf, V7Names, Has, Algicide, Salt, Oxy, Net
  <2>2. CASE Salt(name) /\ way = "v7_routed_by_byte37"
    BY <1>0, <1>p, <1>16, <2>2, ReadIs, ThirdsOwned
  <2>3. CASE way = "v7"
    BY <1>0, <1>p, <1>16, <2>3, ReadIs, BytesByModelOwned
  <2>. QED  BY <2>1, <2>2, <2>3
<1>17. CASE way # "not_located" /\ f = "algaecide_flow_rate"
  <2>1. (Salt(name) /\ way = "v7_routed_by_byte37") \/ (Oxy(name) /\ way = "v7")
    BY <1>17 DEF WayOf, V7Names, Has, Algicide, Salt, Oxy, Net
  <2>2. CASE Salt(name) /\ way = "v7_routed_by_byte37"
    BY <1>0, <1>p, <1>17, <2>2, ReadIs, ThirdsOwned
  <2>3. CASE Oxy(name) /\ way = "v7"
    BY <1>0, <1>p, <1>17, <2>3, ReadIs, BytesByModelOwned
  <2>. QED  BY <2>1, <2>2, <2>3
<1>18. CASE way # "not_located" /\ f = "flocculant_dose_target"
  <2>1. way = "v7_routed_by_byte37" \/ (~Salt(name) /\ way = "v7")
    BY <1>18 DEF WayOf, V7Names, Has, Algicide, Salt, Oxy, Net
  <2>2. CASE way = "v7_routed_by_byte37"
    BY <1>0, <1>p, <1>18, <2>2, ReadIs, ThirdsOwned
  <2>3. CASE ~Salt(name) /\ way = "v7"
    BY <1>0, <1>p, <1>18, <2>3, ReadIs, ThirdsOwned
  <2>. QED  BY <2>1, <2>2, <2>3
<1>19. CASE way # "not_located" /\ f = "flocculant_flow_rate"
  <2>1. way = "v7_routed_by_byte37" \/ (~Salt(name) /\ way = "v7")
    BY <1>19 DEF WayOf, V7Names, Has, Algicide, Salt, Oxy, Net
  <2>2. CASE way = "v7_routed_by_byte37"
    BY <1>0, <1>p, <1>19, <2>2, ReadIs, ThirdsOwned
  <2>3. CASE ~Salt(name) /\ way = "v7"
    BY <1>0, <1>p, <1>19, <2>3, ReadIs, ThirdsOwned
  <2>. QED  BY <2>1, <2>2, <2>3
<1>20. CASE way # "not_located" /\ f = "algaecide_pump_running"
  <2>1. (Salt(name) /\ way = "v7") \/ (~Salt(name) /\ way = "v7_oxy")
    BY <1>20 DEF WayOf, V7Names, Has, Algicide, Salt, Oxy, Net
  <2>2. CASE Salt(name) /\ way = "v7"
    BY <1>0, <1>p, <1>20, <2>2, ReadIs, ThirdPumpsOwned
  <2>3. CASE ~Salt(name) /\ way = "v7_oxy"
    BY <1>0, <1>p, <1>20, <2>3, ReadIs, RelaysByModelOwned
  <2>. QED  BY <2>1, <2>2, <2>3
<1>21. CASE way # "not_located" /\ f = "flocculant_pump_running"
  <2>1. (Salt(name) /\ way = "v7") \/ (~Salt(name) /\ way = "v7")
    BY <1>21 DEF WayOf, V7Names, Has, Algicide, Salt, Oxy, Net
  <2>2. CASE Salt(name) /\ way = "v7"
    BY <1>0, <1>p, <1>21, <2>2, ReadIs, ThirdPumpsOwned
  <2>3. CASE ~Salt(name) /\ way = "v7"
    BY <1>0, <1>p, <1>21, <2>3, ReadIs, FlocculantPumpOwned
  <2>. QED  BY <2>1, <2>2, <2>3
<1>22. CASE f = "configuration"
  <2>1. Located(way)
    BY <1>22 DEF WayOf, V7Names, Located
  <2>. QED  BY <1>22, <2>1, ReadIs, NowhereOwned
<1>23. CASE way # "not_located" /\ f \in
                  {"water_level", "ph_target", "water_temperature_target",
                   "backwash_interval", "backwash_duration", "ph_minus_flow_rate",
                   "water_level_low_alarm", "water_level_refill_stop",
                   "water_level_high_alarm", "ph_minus_concentration",
                   "max_ph_doses", "water_temperature", "air_temperature",
                   "filtration_period_1_start", "filtration_period_1_end",
                   "filtration_period_2_start", "filtration_period_2_end",
                   "backwash_start_time", "startup_delay", "max_refill_time",
                   "pool_volume", "dosing_delay", "ph", "free_chlorine",
                   "backwash_schedule_enabled", "variable_speed_pump_enabled",
                   "heating_condition", "flow_detection_enabled",
                   "service_menu_open", "heating_control_enabled",
                   "filtration_schedule", "water_level_sensor_enabled",
                   "heating_linked_to_filtration", "variable_speed_pump_type",
                   "heating_allowed", "alarm_no_flow_to_probes",
                   "alarm_rapid_ph_change"}
  BY <1>23, PlainOwned
<1>24. f \in Names
  BY DEF Has
<1>. QED
  BY <1>1, <1>2, <1>3, <1>4, <1>5, <1>6, <1>7, <1>8, <1>9, <1>10, <1>11, <1>12,
     <1>13, <1>14, <1>15, <1>16, <1>17, <1>18, <1>19, <1>20, <1>21, <1>22, <1>23,
     <1>24 DEF Names


-----------------------------------------------------------------------------
(* The quantities of a v8 unit *)

\* No section of a v8 frame is taken for a v7 frame.
Section(s) == s # "v7"

\* A v8 unit that is mapped.
V8Name(name) == name \in {"v8 NET", "v8 SALT"}

\* Whose the entries of a v8 frame are.
LEMMA EntryOwnerIs ==
  ASSUME NEW third
  PROVE
  /\ EntryOwner(third, "header", 2, 0) = "serial_number"
  /\ EntryOwner(third, "ins", 8, 0) = "water_flow_to_probes"
  /\ EntryOwner(third, "ins", 16, 0) = "timestamp"
  /\ EntryOwner(third, "ins", 17, 0) = "timestamp"
  /\ EntryOwner(third, "ains", 9, 0) = "chlorine_production"
  /\ EntryOwner(third, "temperature", 0, 0) = "water_temperature"
  /\ EntryOwner(third, "areqs", 0, 0) = "ph_target"
  /\ EntryOwner(third, "areqs", 1, 0) = "redox_target"
  /\ EntryOwner(third, "areqs", 14, 0) = "pool_volume"
  /\ EntryOwner(third, "areqs", 17, 0) = "startup_delay"
  /\ EntryOwner(third, "areqs", 18, 0) = "dosing_delay"
  /\ EntryOwner(third, "areqs", 3, 0) = "flocculant_dose_target"
  /\ EntryOwner(third, "areqs", 4, 0) = "algaecide_dose_target"
  /\ EntryOwner(third, "outs", 2, 0) = "filtration_running"
  /\ EntryOwner(third, "outs", 8, 0) = "ph_minus_pump_running"
  /\ EntryOwner(third, "outs", 9, 0) = "chlorine_pump_running"
  /\ EntryOwner(third, "outs", 14, 0) = "electrolysis_running"
  /\ EntryOwner(third, "reqs", 5, 0) = "filtration_period_1_start"
  /\ EntryOwner(third, "reqs", 7, 0) = "filtration_period_1_end"
  /\ EntryOwner(third, "redox", 6, 0) = "free_chlorine"
  /\ EntryOwner(third, "ph", 0, 0) = "ph"
  /\ EntryOwner(third, "salinity", 8, 0) = "salinity"
  /\ EntryOwner(third, "outs", 11, 0) =
       IF "algicide" \in third THEN "algaecide_pump_running"
       ELSE "flocculant_pump_running"
  /\ EntryOwner(third, "ins", 12, 128) = "alarm_max_disinfection_dose"
  /\ EntryOwner(third, "ins", 12, 256) = "alarm_no_flow_to_probes"
BY DEF EntryOwner

\* An entry that is the quantity's own, ...
LEMMA EntryOwned ==
  ASSUME NEW name, NEW fr, NEW probes, NEW f, NEW s, Section(s), NEW n,
         EntryOwner(Third(name, fr), s, n, 0) \in Owners(f)
  PROVE  /\ \A p \in Entry(s, n) : Owner(name, fr, probes, p) \in Owners(f)
         /\ Owned(name, fr, probes, f, Value(Entry(s, n)))
         /\ \A set : Owned(name, fr, probes, f, Flag(Entry(s, n), set))
<1>1. \A p \in Entry(s, n) : Owner(name, fr, probes, p) \in Owners(f)
  BY DEF Entry, Owner, Section
<1>. QED  BY <1>1 DEF Owned, Value, Flag

\* ... and two.
LEMMA TwoEntriesOwned ==
  ASSUME NEW name, NEW fr, NEW probes, NEW f, NEW s, Section(s), NEW n, NEW m,
         EntryOwner(Third(name, fr), s, n, 0) \in Owners(f),
         EntryOwner(Third(name, fr), s, m, 0) \in Owners(f)
  PROVE  Owned(name, fr, probes, f, Value(Entry(s, n) \cup Entry(s, m)))
<1>1. \A p \in Entry(s, n) \cup Entry(s, m) : Owner(name, fr, probes, p) \in Owners(f)
  BY EntryOwned
<1>. QED  BY <1>1 DEF Owned, Value

\* What the unit is and is set to.
LEMMA SettingsOwnedV8 ==
  ASSUME NEW name, NEW fr, NEW probes, NEW here, NEW menu
  PROVE
  /\ Owned(name, fr, probes, "serial_number", SerialNumber("v8"))
  /\ Owned(name, fr, probes, "chlorine_production", ChlorineProduction("v8", fr))
  /\ Owned(name, fr, probes, "ph_target", PhTarget("v8", fr, here))
  /\ Owned(name, fr, probes, "redox_target", RedoxTarget("v8", fr, here))
  /\ Owned(name, fr, probes, "pool_volume", PoolVolume("v8", fr))
  /\ Owned(name, fr, probes, "startup_delay", StartupDelay("v8", fr))
  /\ Owned(name, fr, probes, "dosing_delay", DosingDelay("v8", fr))
  /\ Owned(name, fr, probes, "flocculant_dose_target",
           FlocculantDoseTarget("v8", fr))
  /\ Owned(name, fr, probes, "algaecide_dose_target", AlgaecideDoseTarget("v8", fr))
<1> DEFINE R(f, s, n) == EntryOwner(Third(name, fr), s, n, 0) \in Owners(f)
<1>1. /\ R("serial_number", "header", 2)
      /\ R("chlorine_production", "ains", 9)
      /\ R("ph_target", "areqs", 0)
      /\ R("redox_target", "areqs", 1)
      /\ R("pool_volume", "areqs", 14)
      /\ R("startup_delay", "areqs", 17)
      /\ R("dosing_delay", "areqs", 18)
      /\ R("flocculant_dose_target", "areqs", 3)
      /\ R("algaecide_dose_target", "areqs", 4)
  BY EntryOwnerIs DEF Owners
<1>2. Section("ains") /\ Section("areqs") /\ Section("header")
  BY DEF Section
<1>. QED
  BY <1>1, <1>2, EntryOwned, NowhereOwned
  DEF AlgaecideDoseTarget, ChlorineProduction, DosingDelay, FlocculantDoseTarget,
      PhTarget, PoolVolume, RedoxTarget, SerialNumber, StartupDelay,
      measurement, third_pump, OutFlag, PeriodStart, PeriodEnd

\* What it measures and does.
LEMMA StatesOwnedV8 ==
  ASSUME NEW name, NEW fr, NEW probes, NEW here, NEW menu
  PROVE
  /\ Owned(name, fr, probes, "water_flow_to_probes", WaterFlowToProbes("v8"))
  /\ Owned(name, fr, probes, "water_temperature", WaterTemperature("v8", fr))
  /\ Owned(name, fr, probes, "filtration_running", FiltrationRunning("v8", fr, menu))
  /\ Owned(name, fr, probes, "ph_minus_pump_running", PhMinusPumpRunning("v8", fr))
  /\ Owned(name, fr, probes, "chlorine_pump_running", ChlorinePumpRunning("v8", fr))
  /\ Owned(name, fr, probes, "electrolysis_running", ElectrolysisRunning("v8", fr))
  /\ Owned(name, fr, probes, "electrode_polarity", ElectrodePolarity("v8", fr))
  /\ Owned(name, fr, probes, "filtration_period_1_start",
           FiltrationPeriod1Start("v8", fr))
  /\ Owned(name, fr, probes, "filtration_period_1_end",
           FiltrationPeriod1End("v8", fr))
  /\ Owned(name, fr, probes, "redox", Redox("v8", fr, here))
  /\ Owned(name, fr, probes, "ph", Ph("v8", fr, here))
  /\ Owned(name, fr, probes, "salinity", Salinity("v8", fr))
<1> DEFINE R(f, s, n) == EntryOwner(Third(name, fr), s, n, 0) \in Owners(f)
<1>1. /\ R("water_flow_to_probes", "ins", 8)
      /\ R("water_temperature", "temperature", 0)
      /\ R("filtration_running", "outs", 2)
      /\ R("ph_minus_pump_running", "outs", 8)
      /\ R("chlorine_pump_running", "outs", 9)
      /\ R("electrolysis_running", "outs", 14)
      /\ R("electrode_polarity", "outs", 14)
      /\ R("filtration_period_1_start", "reqs", 5)
      /\ R("filtration_period_1_end", "reqs", 7)
      /\ R("redox", "redox", 6)
      /\ R("ph", "ph", 0)
      /\ R("salinity", "salinity", 8)
  BY EntryOwnerIs DEF Owners
<1>2. Section("ins") /\ Section("outs") /\ Section("ph") /\ Section("redox")
      /\ Section("reqs") /\ Section("salinity") /\ Section("temperature")
  BY DEF Section
<1>. QED
  BY <1>1, <1>2, EntryOwned, NowhereOwned
  DEF ChlorinePumpRunning, ElectrodePolarity, ElectrolysisRunning,
      FiltrationPeriod1End, FiltrationPeriod1Start, FiltrationRunning, Ph,
      PhMinusPumpRunning, Redox, Salinity, WaterFlowToProbes,
      WaterTemperature,
      measurement, third_pump, OutFlag, PeriodStart, PeriodEnd

\* What takes two entries, one bit or none, or one of the third port's two chemicals.
LEMMA OthersOwnedV8 ==
  ASSUME NEW name, NEW fr, NEW probes, NEW rate, V8Name(name)
  PROVE
  /\ Owned(name, fr, probes, "timestamp", Timestamp("v8", fr))
  /\ Owned(name, fr, probes, "unit_clock", UnitClock("v8", fr))
  /\ Owned(name, fr, probes, "filtration_schedule", FiltrationSchedule("v8", fr))
  /\ Owned(name, fr, probes, "algaecide_pump_running",
           AlgaecidePumpRunning("v8", fr, rate))
  /\ Owned(name, fr, probes, "flocculant_pump_running",
           FlocculantPumpRunning("v8", fr, rate))
  /\ Owned(name, fr, probes, "ph_minus_flow_rate", PhMinusFlowRate("v8", fr))
  /\ Owned(name, fr, probes, "chlorine_flow_rate", ChlorineFlowRate("v8", fr))
  /\ Owned(name, fr, probes, "alarm_max_disinfection_dose",
           AlarmMaxDisinfectionDose("v8"))
  /\ Owned(name, fr, probes, "alarm_no_flow_to_probes", AlarmNoFlowToProbes("v8"))
<1> DEFINE third == Third(name, fr)
           R(f, s, n) == EntryOwner(third, s, n, 0) \in Owners(f)
<1>0. Section("ins") /\ Section("outs") /\ Section("reqs")
  BY DEF Section
<1>1. /\ R("timestamp", "ins", 16) /\ R("timestamp", "ins", 17)
      /\ R("unit_clock", "ins", 16) /\ R("unit_clock", "ins", 17)
      /\ R("filtration_schedule", "reqs", 5) /\ R("filtration_schedule", "reqs", 7)
  BY EntryOwnerIs DEF Owners
<1>2. Owned(name, fr, probes, "timestamp", Timestamp("v8", fr))
  BY <1>0, <1>1, TwoEntriesOwned DEF Timestamp, ClockEntries, PeriodStart, PeriodEnd
<1>3. Owned(name, fr, probes, "unit_clock", UnitClock("v8", fr))
  BY <1>0, <1>1, TwoEntriesOwned DEF UnitClock, ClockEntries, PeriodStart, PeriodEnd
<1>4. Owned(name, fr, probes, "filtration_schedule", FiltrationSchedule("v8", fr))
  BY <1>0, <1>1, TwoEntriesOwned DEF FiltrationSchedule, ClockEntries, PeriodStart, PeriodEnd
<1>5. /\ "algicide" \in third <=> fr.port = AlgicidePort
  BY DEF Third, V8Name
<1>6. /\ "algicide" \in third => R("algaecide_pump_running", "outs", 11)
      /\ "algicide" \notin third => R("flocculant_pump_running", "outs", 11)
  BY EntryOwnerIs DEF Owners
<1>7. Owned(name, fr, probes, "algaecide_pump_running",
            AlgaecidePumpRunning("v8", fr, rate))
  <2>1. fr.port = AlgicidePort =>
          Owned(name, fr, probes, "algaecide_pump_running", OutFlag(fr, 11))
    BY <1>0, <1>5, <1>6, EntryOwned DEF OutFlag
  <2>. QED  BY <2>1, NowhereOwned DEF AlgaecidePumpRunning, third_pump
<1>8. Owned(name, fr, probes, "flocculant_pump_running",
            FlocculantPumpRunning("v8", fr, rate))
  <2>1. fr.port = FlocculantPort =>
          Owned(name, fr, probes, "flocculant_pump_running", OutFlag(fr, 11))
    <3>1. AlgicidePort # FlocculantPort
      BY DEF AlgicidePort, FlocculantPort
    <3>. QED  BY <1>0, <1>5, <1>6, <3>1, EntryOwned DEF OutFlag
  <2>. QED  BY <2>1, NowhereOwned DEF FlocculantPumpRunning, third_pump
<1>9. /\ Owned(name, fr, probes, "ph_minus_flow_rate", PhMinusFlowRate("v8", fr))
      /\ Owned(name, fr, probes, "chlorine_flow_rate", ChlorineFlowRate("v8", fr))
  BY NowhereOwned DEF PhMinusFlowRate, ChlorineFlowRate, ASSUMED_V8_FLOWRATE
<1>10. Owned(name, fr, probes, "alarm_max_disinfection_dose", AlarmMaxDisinfectionDose("v8"))
  <2>1. \A p \in {<<"ins", 12, 128>>} :
          Owner(name, fr, probes, p) \in Owners("alarm_max_disinfection_dose")
    <3>1. Owner(name, fr, probes, <<"ins", 12, 128>>) = EntryOwner(third, "ins", 12, 128)
      BY DEF Owner
    <3>. QED  BY <3>1, EntryOwnerIs DEF Owners
  <2>2. AlarmMaxDisinfectionDose("v8") = Value({<<"ins", 12, 128>>})
    BY DEF AlarmMaxDisinfectionDose
  <2>. QED  BY <2>1, <2>2 DEF Owned, Value
<1>11. Owned(name, fr, probes, "alarm_no_flow_to_probes", AlarmNoFlowToProbes("v8"))
  <2>1. \A p \in {<<"ins", 12, 256>>} :
          Owner(name, fr, probes, p) \in Owners("alarm_no_flow_to_probes")
    <3>1. Owner(name, fr, probes, <<"ins", 12, 256>>) = EntryOwner(third, "ins", 12, 256)
      BY DEF Owner
    <3>. QED  BY <3>1, EntryOwnerIs DEF Owners
  <2>2. AlarmNoFlowToProbes("v8") = Value({<<"ins", 12, 256>>})
    BY DEF AlarmNoFlowToProbes
  <2>. QED  BY <2>1, <2>2 DEF Owned, Value
<1>. QED  BY <1>2, <1>3, <1>4, <1>7, <1>8, <1>9, <1>10, <1>11

\* Every quantity of a v8 frame is read from entries of its own.
LEMMA V8Owned ==
  ASSUME NEW name, V8Name(name), NEW fr, NEW probes, NEW dev, NEW f \in V8Names
  PROVE  Owned(name, fr, probes, f, Read(f, "v8", fr, dev))
<1>0. Located("v8")
  BY DEF Located
<1>1. CASE f \in
              {"serial_number", "chlorine_production", "ph_target", "redox_target",
               "pool_volume", "startup_delay", "dosing_delay",
               "flocculant_dose_target", "algaecide_dose_target"}
  BY <1>0, <1>1, ReadIs, SettingsOwnedV8
<1>2. CASE f \in
              {"water_flow_to_probes", "water_temperature", "filtration_running",
               "ph_minus_pump_running", "chlorine_pump_running",
               "electrolysis_running", "electrode_polarity",
               "filtration_period_1_start", "filtration_period_1_end", "redox", "ph",
               "salinity"}
  BY <1>0, <1>2, ReadIs, StatesOwnedV8
<1>3. CASE f \in
              {"timestamp", "unit_clock", "filtration_schedule",
               "algaecide_pump_running", "flocculant_pump_running",
               "ph_minus_flow_rate", "chlorine_flow_rate",
               "alarm_max_disinfection_dose", "alarm_no_flow_to_probes"}
  BY <1>0, <1>3, ReadIs, OthersOwnedV8
<1>4. CASE f = "configuration"
  BY <1>0, <1>4, ReadIs, NowhereOwned
<1>. QED  BY <1>1, <1>2, <1>3, <1>4 DEF V8Names


-----------------------------------------------------------------------------
(* What a mapped frame's reading answers *)

\* A frame of a mapped type is decoded with a profile of its protocol.
Mapped(P, fr) ==
  \/ fr.protocol = "v7" /\ P \in V7Profiles
  \/ fr.protocol = "v8" /\ P \in {V8_NET, V8_SALT}

\* A quantity of such a profile, and the way it is read.
Listed(name, fr, f, way) ==
  \/ fr.protocol = "v7" /\ name \in V7Names /\ Has(name, f) /\ way = WayOf(name, f)
  \/ fr.protocol = "v8" /\ V8Name(name) /\ f \in V8Names /\ way = "v8"

\* What the frame's profile lists is listed.
LEMMA ListedIs ==
  ASSUME NEW P, NEW fr, Mapped(P, fr), NEW f \in Range(P.features)
  PROVE  Listed(P.name, fr, f, reading_for(P, fr, f))
<1>1. CASE fr.protocol = "v7" /\ P \in V7Profiles
  BY <1>1, V7Has, V7Ways DEF Listed
<1>2. CASE fr.protocol = "v8" /\ P \in {V8_NET, V8_SALT}
  <2>1. /\ f \in V8Names /\ P.name \in {"v8 NET", "v8 SALT"}
        /\ reading_for(P, fr, f) = "v8"
    BY <1>2, V8Ways
  <2>. QED  BY <1>2, <2>1 DEF Listed, V8Name
<1>. QED  BY <1>1, <1>2 DEF Mapped

\* A mapped frame's readings are from places of their own.
LEMMA ReadOwned ==
  ASSUME NEW name, NEW fr, NEW f, NEW way, Listed(name, fr, f, way), NEW probes, NEW dev,
         ProbesRead(dev.probes, probes), fr.protocol = "v7" => RatesRead(name, fr, dev)
  PROVE  Owned(name, fr, probes, f, Read(f, way, fr, dev))
<1>1. CASE fr.protocol = "v7" /\ name \in V7Names /\ Has(name, f) /\ way = WayOf(name, f)
  BY <1>1, V7Owned DEF ProbesRead
<1>2. CASE fr.protocol = "v8" /\ V8Name(name) /\ f \in V8Names /\ way = "v8"
  BY <1>2, V8Owned
<1>. QED  BY <1>1, <1>2 DEF Listed

\* There is one setpoint: the others are not present.
LEMMA SetpointRead ==
  ASSUME NEW name, NEW fr, NEW f, NEW way, Listed(name, fr, f, way), NEW probes, NEW dev,
         ProbesRead(dev.probes, probes), f \in Setpoints,
         Read(f, way, fr, dev) # NOT_PRESENT
  PROVE  f = TheSetpoint(name, probes)
<1>1. CASE fr.protocol = "v8" /\ V8Name(name) /\ f \in V8Names
  <2>1. f = "redox_target"
    BY <1>1 DEF V8Names, Setpoints
  <2>2. TheSetpoint(name, probes) = "redox_target"
    BY <1>1 DEF TheSetpoint, V8Name
  <2>. QED  BY <2>1, <2>2
<1>2. CASE name \in V7Names /\ Has(name, f) /\ way = WayOf(name, f)
  <2>1. way = "v7" /\ Located("v7")
    BY <1>2 DEF WayOf, V7Names, Setpoints, Located
  <2>2. CASE f = "oxygen_dose_target"
    <3>1. name = "v7 OXY"
      BY <1>2, <2>2 DEF Has
    <3>. QED  BY <2>2, <3>1 DEF TheSetpoint
  <2>3. CASE f # "oxygen_dose_target"
    <3>1. TheSetpoint(name, probes) =
            IF "CLF" \in probes THEN "free_chlorine_target"
            ELSE IF "REDOX" \in probes THEN "redox_target" ELSE "chlorine_dose_target"
      BY <1>2, <2>3 DEF TheSetpoint, V7Names, Has, Setpoints
    <3>2. CASE f = "free_chlorine_target"
      <4>1. FreeChlorineTarget(fr, dev.probes) # NOT_PRESENT
        BY <2>1, <3>2, ReadIs
      <4>. QED  BY <3>1, <3>2, <4>1 DEF FreeChlorineTarget, ProbesRead
    <3>3. CASE f = "redox_target"
      <4>1. RedoxTarget("v7", fr, dev.probes) # NOT_PRESENT
        BY <2>1, <3>3, ReadIs
      <4>. QED  BY <3>1, <3>3, <4>1 DEF RedoxTarget, ProbesRead
    <3>4. CASE f = "chlorine_dose_target"
      <4>1. ChlorineDoseTarget(fr, dev.probes) # NOT_PRESENT
        BY <2>1, <3>4, ReadIs
      <4>. QED  BY <3>1, <3>4, <4>1 DEF ChlorineDoseTarget, ProbesRead
    <3>. QED  BY <2>3, <3>2, <3>3, <3>4 DEF Setpoints
  <2>. QED  BY <2>2, <2>3
<1>. QED  BY <1>1, <1>2 DEF Listed

Rates == {"algaecide_flow_rate", "flocculant_flow_rate", "oxygen_flow_rate"}

\* A third pump's flow rate is read from the frame alone, and is a number or unknown.
LEMMA RateRead ==
  ASSUME NEW f \in Rates, NEW way, NEW fr, NEW dev
  PROVE  /\ Read(f, way, fr, dev) = Read(f, way, fr, BlankDevice)
         /\ \/ AsFilled(Read(f, way, fr, dev)) = None
            \/ AsFilled(Read(f, way, fr, dev)).is = "value"
<1>1. CASE ~Located(way)
  <2>1. Read(f, way, fr, dev) = None /\ Read(f, way, fr, BlankDevice) = None
    BY <1>1 DEF Read, Located
  <2>. QED  BY <2>1 DEF AsFilled
<1>2. CASE Located(way)
  <2>1. \A n : byte_or_absent(fr, n) = NOT_PRESENT \/ byte_or_absent(fr, n).is = "value"
    BY DEF byte_or_absent, Value
  <2>6. byte_or_absent(fr, 103) = NOT_PRESENT \/ byte_or_absent(fr, 103).is = "value"
    BY DEF byte_or_absent, Value
  <2>2. /\ \/ byte_when_flags(fr, 101, TRUE) = NOT_PRESENT
           \/ byte_when_flags(fr, 101, TRUE).is = "value"
        /\ \/ byte_when_flags(fr, 101, FALSE) = NOT_PRESENT
           \/ byte_when_flags(fr, 101, FALSE).is = "value"
    BY <2>1 DEF byte_when_flags
  <2>3. CASE f = "algaecide_flow_rate"
    <3>1. /\ Read(f, way, fr, dev) = AlgaecideFlowRate(way, fr)
          /\ Read(f, way, fr, BlankDevice) = AlgaecideFlowRate(way, fr)
      BY <1>2, <2>3, ReadIs
    <3>2. CASE way = "v7"
      <4>1. AlgaecideFlowRate(way, fr) = byte_or_absent(fr, 103)
        BY <3>2 DEF AlgaecideFlowRate
      <4>. QED  BY <2>6, <3>1, <4>1 DEF AsFilled
    <3>3. CASE way # "v7"
      <4>1. AlgaecideFlowRate(way, fr) = byte_when_flags(fr, 101, TRUE)
        BY <3>3 DEF AlgaecideFlowRate
      <4>. QED  BY <2>2, <3>1, <4>1 DEF AsFilled
    <3>. QED  BY <3>2, <3>3
  <2>4. CASE f = "flocculant_flow_rate"
    <3>1. /\ Read(f, way, fr, dev) = FlocculantFlowRate(way, fr)
          /\ Read(f, way, fr, BlankDevice) = FlocculantFlowRate(way, fr)
      BY <1>2, <2>4, ReadIs
    <3>2. \/ FlocculantFlowRate(way, fr) = byte_or_absent(fr, 101)
          \/ FlocculantFlowRate(way, fr) = byte_when_flags(fr, 101, FALSE)
      BY DEF FlocculantFlowRate
    <3>3. \/ FlocculantFlowRate(way, fr) = NOT_PRESENT
          \/ FlocculantFlowRate(way, fr).is = "value"
      BY <2>1, <2>2, <3>2
    <3>. QED  BY <3>1, <3>3 DEF AsFilled
  <2>5. CASE f = "oxygen_flow_rate"
    <3>1. /\ Read(f, way, fr, dev) = OxygenFlowRate(fr)
          /\ Read(f, way, fr, BlankDevice) = OxygenFlowRate(fr)
      BY <1>2, <2>5, ReadIs
    <3>. QED  BY <2>1, <3>1 DEF OxygenFlowRate, AsFilled
  <2>. QED  BY <2>3, <2>4, <2>5 DEF Rates
<1>. QED  BY <1>1, <1>2

\* The flow rate that a third pump's running state counts with.
RateOf(f) ==
  CASE f = "algaecide_pump_running" -> "algaecide_flow_rate"
    [] f = "flocculant_pump_running" -> "flocculant_flow_rate"
    [] OTHER -> "oxygen_flow_rate"

Pumps == {"algaecide_pump_running", "flocculant_pump_running", "oxygen_pump_running"}

\* A v7 unit's third pump with an unknown flow rate is not present.
LEMMA PumpRead ==
  ASSUME NEW name, NEW fr, fr.protocol = "v7", NEW f \in Pumps, NEW way,
         Listed(name, fr, f, way), NEW dev,
         dev.values[RateOf(f)].is \in {"none", "absent"}
  PROVE  Read(f, way, fr, dev) = NOT_PRESENT
<1>1. way = WayOf(name, f) /\ name \in V7Names /\ Has(name, f)
  BY DEF Listed
<1>2. \A bit : flag_when_known(dev.values[RateOf(f)], fr, bit) = NOT_PRESENT
  BY DEF flag_when_known
<1>3. CASE f = "algaecide_pump_running"
  <2>1. RateOf(f) = "algaecide_flow_rate"
    BY <1>3 DEF RateOf
  <2>2. way \in {"v7", "v7_oxy"}
    BY <1>1, <1>3 DEF WayOf, V7Names, Has, Algicide
  <2>3. Located("v7") /\ Located("v7_oxy")
    BY DEF Located
  <2>4. Read(f, way, fr, dev)
          = AlgaecidePumpRunning(way, fr, dev.values["algaecide_flow_rate"])
    BY <1>3, <2>2, <2>3, ReadIs
  <2>. QED  BY <1>2, <2>1, <2>2, <2>4 DEF AlgaecidePumpRunning
<1>4. CASE f = "flocculant_pump_running"
  <2>1. RateOf(f) = "flocculant_flow_rate"
    BY <1>4 DEF RateOf
  <2>2. way = "v7" /\ Located("v7")
    BY <1>1, <1>4 DEF WayOf, V7Names, Located
  <2>3. Read(f, way, fr, dev)
          = FlocculantPumpRunning("v7", fr, dev.values["flocculant_flow_rate"])
    BY <1>4, <2>2, ReadIs
  <2>. QED  BY <1>2, <2>1, <2>3 DEF FlocculantPumpRunning
<1>5. CASE f = "oxygen_pump_running"
  <2>1. RateOf(f) = "oxygen_flow_rate"
    BY <1>5 DEF RateOf
  <2>2. way = "v7" /\ Located("v7")
    BY <1>1, <1>5 DEF WayOf, V7Names, Located
  <2>3. Read(f, way, fr, dev) = OxygenPumpRunning(fr, dev.values["oxygen_flow_rate"])
    BY <1>5, <2>2, ReadIs
  <2>. QED  BY <1>2, <2>1, <2>3 DEF OxygenPumpRunning
<1>. QED  BY <1>3, <1>4, <1>5 DEF Pumps

\* Of the two chemicals of a shared port, the one that is not on it.
Hidden(name, fr) == IF "algicide" \in Third(name, fr) THEN Flocculant ELSE Algicide

\* It is not shown, for the port is set to the other.
LEMMA HiddenRead ==
  ASSUME NEW name \in OnePort, NEW fr, NEW f \in Hidden(name, fr), NEW way,
         Listed(name, fr, f, way), NEW dev,
         \A g \in Hidden(name, fr) : dev.values[g] = None
  PROVE  AsFilled(Read(f, way, fr, dev)) = None
<1>1. f \in Algicide \/ f \in Flocculant
  BY DEF Hidden
<1>0. /\ Located("v7") /\ Located("v8") /\ Located("v7_routed_by_byte37")
      /\ AsFilled(NOT_PRESENT) = None /\ AsFilled(None) = None
  BY DEF Located, AsFilled
<1>2. CASE name = "v7 PROFI"
  <2>1. fr.protocol = "v7" /\ Has(name, f)
    BY <1>2 DEF Listed, V8Name
  <2>2. "algicide" \notin Third(name, fr)
    BY <1>2 DEF Third
  <2>. QED  BY <1>2, <2>1, <2>2 DEF Has, Hidden
<1>3. CASE name = "v8 SALT"
  <2>1. way = "v8" /\ f \in V8Names
    BY <1>3 DEF Listed, V7Names
  <2>2. "algicide" \in Third(name, fr) <=> fr.port = AlgicidePort
    BY <1>3 DEF Third
  <2>3. AlgicidePort # FlocculantPort
    BY DEF AlgicidePort, FlocculantPort
  <2>4. CASE "algicide" \in Third(name, fr)
    <3>1. f \in {"flocculant_dose_target", "flocculant_pump_running"}
      BY <2>1, <2>4 DEF Hidden, Flocculant, V8Names
    <3>2. \A a : third_pump(fr, FlocculantPort, a) \in {None, NOT_PRESENT}
      BY <2>2, <2>3, <2>4 DEF third_pump
    <3>3. CASE f = "flocculant_dose_target"
      <4>1. Read(f, way, fr, dev) = FlocculantDoseTarget("v8", fr)
        BY <1>0, <2>1, <3>3, ReadIs
      <4>. QED  BY <1>0, <3>2, <4>1 DEF FlocculantDoseTarget
    <3>4. CASE f = "flocculant_pump_running"
      <4>1. Read(f, way, fr, dev)
              = FlocculantPumpRunning("v8", fr, dev.values["flocculant_flow_rate"])
        BY <1>0, <2>1, <3>4, ReadIs
      <4>. QED  BY <1>0, <3>2, <4>1 DEF FlocculantPumpRunning
    <3>. QED  BY <3>1, <3>3, <3>4
  <2>5. CASE "algicide" \notin Third(name, fr)
    <3>1. f \in {"algaecide_dose_target", "algaecide_pump_running"}
      BY <2>1, <2>5 DEF Hidden, Algicide, V8Names
    <3>2. \A a : third_pump(fr, AlgicidePort, a) \in {None, NOT_PRESENT}
      BY <2>2, <2>5 DEF third_pump
    <3>3. CASE f = "algaecide_dose_target"
      <4>1. Read(f, way, fr, dev) = AlgaecideDoseTarget("v8", fr)
        BY <1>0, <2>1, <3>3, ReadIs
      <4>. QED  BY <1>0, <3>2, <4>1 DEF AlgaecideDoseTarget
    <3>4. CASE f = "algaecide_pump_running"
      <4>1. Read(f, way, fr, dev)
              = AlgaecidePumpRunning("v8", fr, dev.values["algaecide_flow_rate"])
        BY <1>0, <2>1, <3>4, ReadIs
      <4>. QED  BY <1>0, <3>2, <4>1 DEF AlgaecidePumpRunning
    <3>. QED  BY <3>1, <3>3, <3>4
  <2>. QED  BY <2>4, <2>5
<1>4. CASE name = "v7 SALT"
  <2>1. way = WayOf(name, f) /\ fr.protocol = "v7"
    BY <1>4 DEF Listed, V8Name
  <2>2. "algicide" \in Third(name, fr) <=>
          fr.settings # Unset /\ SHARED_PORT_ROUTING \in fr.settings
    BY <1>4 DEF Third
  <2>3. CASE f \in {"algaecide_pump_running", "flocculant_pump_running"}
    <3>1. f \in Pumps /\ RateOf(f) \in Hidden(name, fr)
      BY <2>3 DEF Pumps, RateOf, Hidden, Algicide, Flocculant
    <3>2. dev.values[RateOf(f)].is = "none"
      BY <3>1 DEF None
    <3>. QED  BY <1>0, <2>1, <3>1, <3>2, PumpRead
  <2>4. CASE f \notin {"algaecide_pump_running", "flocculant_pump_running"}
    <3>1. way = "v7_routed_by_byte37"
      BY <1>1, <1>4, <2>1, <2>4 DEF WayOf, Algicide, Flocculant
    <3>2. /\ "algicide" \notin Third(name, fr) =>
               \A n : byte_when_flags(fr, n, TRUE) = NOT_PRESENT
          /\ "algicide" \in Third(name, fr) =>
               \A n : byte_when_flags(fr, n, FALSE) = NOT_PRESENT
      BY <2>2 DEF byte_when_flags
    <3>3. CASE "algicide" \in Third(name, fr)
      <4>1. f \in {"flocculant_dose_target", "flocculant_flow_rate"}
        BY <2>4, <3>3 DEF Hidden, Flocculant
      <4>2. /\ f = "flocculant_dose_target" => Read(f, way, fr, dev)
                 = FlocculantDoseTarget("v7_routed_by_byte37", fr)
            /\ f = "flocculant_flow_rate" => Read(f, way, fr, dev)
                 = FlocculantFlowRate("v7_routed_by_byte37", fr)
        BY <1>0, <3>1, ReadIs
      <4>. QED
        BY <1>0, <3>2, <3>3, <4>1, <4>2 DEF FlocculantDoseTarget, FlocculantFlowRate
    <3>4. CASE "algicide" \notin Third(name, fr)
      <4>1. f \in {"algaecide_dose_target", "algaecide_flow_rate"}
        BY <2>4, <3>4 DEF Hidden, Algicide
      <4>2. /\ f = "algaecide_dose_target" => Read(f, way, fr, dev)
                 = AlgaecideDoseTarget("v7_routed_by_byte37", fr)
            /\ f = "algaecide_flow_rate" => Read(f, way, fr, dev)
                 = AlgaecideFlowRate("v7_routed_by_byte37", fr)
        BY <1>0, <3>1, ReadIs
      <4>. QED
        BY <1>0, <3>2, <3>4, <4>1, <4>2 DEF AlgaecideDoseTarget, AlgaecideFlowRate
    <3>. QED  BY <3>3, <3>4
  <2>. QED  BY <2>3, <2>4
<1>. QED  BY <1>2, <1>3, <1>4 DEF OnePort

\* On HOME the filter runs only while the menu is not open.
LEMMA FilterRead ==
  ASSUME NEW fr, fr.settings # Unset, MENU_OPEN \in fr.settings, NEW dev,
         dev.values["service_menu_open"] = AsFilled(ServiceMenuOpen(fr))
  PROVE  AsFilled(Read("filtration_running", "v7_menu_override", fr, dev)).is # "on"
<1>1. ServiceMenuOpen(fr) = Flag(Bits(37, {MENU_OPEN}), TRUE)
  BY DEF ServiceMenuOpen, flag_or_none
<1>2. dev.values["service_menu_open"].is = "on"
  BY <1>1 DEF AsFilled, Flag, NOT_PRESENT
<1>3. Located("v7_menu_override")
  BY DEF Located
<1>4. Read("filtration_running", "v7_menu_override", fr, dev)
        = FiltrationRunning("v7_menu_override", fr, dev.values["service_menu_open"])
  BY <1>3, ReadIs
<1>5. Read("filtration_running", "v7_menu_override", fr, dev)
        = Flag(Bits(29, {FILTRATION}), FALSE)
  BY <1>2, <1>4 DEF FiltrationRunning
<1>. QED  BY <1>5 DEF AsFilled, Flag, NOT_PRESENT, None


-----------------------------------------------------------------------------
(* What holds of a device from the blank one to the last feature *)

\* The attributes of a device have the quantities spoken of here.
LEMMA FieldsHave ==
  /\ \A p \in AllProfiles : Range(p.features) \subseteq Fields
  /\ V7Profiles \subseteq AllProfiles /\ {V8_NET, V8_SALT} \subseteq AllProfiles
  /\ Rates \subseteq Fields /\ Pumps \subseteq Fields
  /\ Algicide \subseteq Fields /\ Flocculant \subseteq Fields
  /\ {"service_menu_open", "filtration_running"} \subseteq Fields
<1>1. \A p \in AllProfiles : Range(p.features) \subseteq Fields
  BY DEF Fields
<1>2. AllProfiles = {HOME, SALT, OXY, NET, PROFI, UNKNOWN, V8_NET, V8_SALT, V8_UNKNOWN}
  BY DEF AllProfiles, ByModelV7, ByModelV8
<1>3. V7Profiles \subseteq AllProfiles /\ {V8_NET, V8_SALT} \subseteq AllProfiles
  BY <1>2 DEF V7Profiles
<1>4. /\ Range(HOME.features) \subseteq Fields /\ Range(SALT.features) \subseteq Fields
      /\ Range(OXY.features) \subseteq Fields
  BY <1>1, <1>2
<1>5. Algicide \subseteq Fields /\ Flocculant \subseteq Fields
  BY <1>4, SaltLists DEF Algicide, Flocculant
<1>6. {"oxygen_flow_rate", "oxygen_pump_running"} \subseteq Fields
  BY <1>4, OxyLists
<1>7. {"service_menu_open", "filtration_running"} \subseteq Fields
  BY <1>4, HomeLists
<1>8. Rates \subseteq Fields /\ Pumps \subseteq Fields
  BY <1>5, <1>6 DEF Rates, Pumps, Algicide, Flocculant
<1>. QED  BY <1>1, <1>3, <1>5, <1>7, <1>8

\* The probes of the unit that sent a frame, and what the frame answers for f.
ProbesOf(P, fr) == Configuration(reading_for(P, fr, "configuration"), fr)
Answer(P, fr, f, d) == Read(f, reading_for(P, fr, f), fr, d)

\* What decoding one more quantity changes.
LEMMA DecodedIs ==
  ASSUME NEW P, NEW fr, NEW d, NEW f \in Fields,
         d.values = [g \in Fields |-> d.values[g]],
         NEW e, e = Decoded(fr, P, d, f), NEW v, v = Answer(P, fr, f, d)
  PROVE  /\ e.values = [g \in Fields |-> e.values[g]]
         /\ e.values[f] = AsFilled(v)
         /\ \A g \in Fields : g # f => e.values[g] = d.values[g]
         /\ e.present = IF v = NOT_PRESENT THEN d.present ELSE d.present \cup {f}
         /\ e.probes \in {d.probes, ProbesOf(P, fr)}
<1>1. /\ e.values = [d.values EXCEPT ![f] = AsFilled(v)]
      /\ e.present = IF v = NOT_PRESENT THEN d.present ELSE d.present \cup {f}
  BY DEF Decoded, Answer, AsFilled
<1>2. e.probes \in {d.probes, ProbesOf(P, fr)}
  <2>1. e.probes = IF f = "configuration"
                   THEN Configuration(reading_for(P, fr, f), fr) ELSE d.probes
    BY DEF Decoded
  <2>. QED  BY <2>1 DEF ProbesOf
<1>3. /\ e.values = [g \in Fields |-> e.values[g]]
      /\ e.values[f] = AsFilled(v)
      /\ \A g \in Fields : g # f => e.values[g] = d.values[g]
  BY <1>1
<1>. QED  BY <1>1, <1>2, <1>3

\* It changes one value.
LEMMA OneValue ==
  ASSUME NEW P, NEW fr, NEW d, NEW f \in Fields,
         d.values = [g \in Fields |-> d.values[g]]
  PROVE  /\ Decoded(fr, P, d, f).values[f] = AsFilled(Answer(P, fr, f, d))
         /\ \A g \in Fields : g # f => Decoded(fr, P, d, f).values[g] = d.values[g]
<1> DEFINE e == Decoded(fr, P, d, f)
           v == Answer(P, fr, f, d)
<1>1. /\ e.values = [g \in Fields |-> e.values[g]]
      /\ e.values[f] = AsFilled(v)
      /\ \A g \in Fields : g # f => e.values[g] = d.values[g]
      /\ e.present = IF v = NOT_PRESENT THEN d.present ELSE d.present \cup {f}
      /\ e.probes \in {d.probes, ProbesOf(P, fr)}
  BY DecodedIs
<1>. QED  BY <1>1

\* Each value is from places of its own ...
OwnValues(P, fr, d) ==
  /\ d.values = [f \in Fields |-> d.values[f]]
  /\ ProbesRead(d.probes, ProbesOf(P, fr))
  /\ \A f \in Fields : /\ Owned(P.name, fr, ProbesOf(P, fr), f, d.values[f])
                       /\ d.values[f] # NOT_PRESENT

\* ... of a quantity that is present, one setpoint among them, ...
PresentValues(P, fr, d) ==
  /\ d.present \subseteq Range(P.features)
  /\ \A f \in Fields : d.values[f] # None => f \in d.present
  /\ d.present \cap Setpoints \subseteq {TheSetpoint(P.name, ProbesOf(P, fr))}

\* ... with nothing of the chemical that a shared port is not set to, ...
OneChemical(P, fr, d) ==
  P.name \in OnePort => \A f \in Hidden(P.name, fr) : d.values[f] = None

\* ... and a third pump runs only with a flow rate.
RatesTold(P, fr, d) ==
  fr.protocol = "v7" =>
    /\ RatesRead(P.name, fr, d)
    /\ \A f \in Pumps : d.values[f].is = "on" => d.values[RateOf(f)].is = "value"

Sound(P, fr, d) ==
  /\ OwnValues(P, fr, d) /\ PresentValues(P, fr, d)
  /\ OneChemical(P, fr, d) /\ RatesTold(P, fr, d)

\* The blank device is sound.
LEMMA BlankSound ==
  ASSUME NEW P, NEW fr
  PROVE  Sound(P, fr, BlankDevice)
<1>1. \A f \in Fields : BlankDevice.values[f] = None
  BY DEF BlankDevice
<1>2. /\ BlankDevice.values = [f \in Fields |-> BlankDevice.values[f]]
      /\ BlankDevice.present = {} /\ BlankDevice.probes = {}
  BY DEF BlankDevice
<1>3. OwnValues(P, fr, BlankDevice)
  <2>1. None # NOT_PRESENT
    BY DEF None, NOT_PRESENT
  <2>. QED  BY <1>1, <1>2, <2>1, NowhereOwned DEF OwnValues, ProbesRead
<1>4. PresentValues(P, fr, BlankDevice)
  BY <1>1, <1>2 DEF PresentValues
<1>5. OneChemical(P, fr, BlankDevice)
  <2>1. Hidden(P.name, fr) \subseteq Fields
    BY FieldsHave DEF Hidden
  <2>. QED  BY <1>1, <2>1 DEF OneChemical
<1>6. RatesTold(P, fr, BlankDevice)
  <2>1. \A f \in Rates : BlankDevice.values[f] = None
    BY <1>1, FieldsHave
  <2>2. \A f \in Pumps : BlankDevice.values[f].is = "none"
    BY <1>1, FieldsHave DEF None
  <2>. QED  BY <2>1, <2>2 DEF RatesTold, RatesRead, Rates
<1>. QED  BY <1>3, <1>4, <1>5, <1>6 DEF Sound

\* The next feature keeps all of it.
LEMMA FillStep ==
  ASSUME NEW P, NEW fr, Mapped(P, fr), NEW f \in Range(P.features), NEW d,
         Sound(P, fr, d)
  PROVE  Sound(P, fr, Decoded(fr, P, d, f))
<1> DEFINE e == Decoded(fr, P, d, f)
           v == Answer(P, fr, f, d)
           way == reading_for(P, fr, f)
           probes == ProbesOf(P, fr)
<1>0. /\ OwnValues(P, fr, d) /\ PresentValues(P, fr, d)
      /\ OneChemical(P, fr, d) /\ RatesTold(P, fr, d)
  BY DEF Sound
<1>1. f \in Fields /\ P \in AllProfiles
  BY FieldsHave DEF Mapped
<1>2. Listed(P.name, fr, f, way)
  BY ListedIs
<1>3. /\ e.values = [g \in Fields |-> e.values[g]]
      /\ e.values[f] = AsFilled(v)
      /\ \A g \in Fields : g # f => e.values[g] = d.values[g]
      /\ e.present = IF v = NOT_PRESENT THEN d.present ELSE d.present \cup {f}
      /\ e.probes \in {d.probes, ProbesOf(P, fr)}
  BY <1>0, <1>1, DecodedIs DEF OwnValues
<1>4. v = Read(f, way, fr, d)
  BY DEF Answer
<1> HIDE DEF e, v, way
<1>5. OwnValues(P, fr, e)
  <2>1. Owned(P.name, fr, probes, f, v)
    BY <1>0, <1>2, <1>4, ReadOwned DEF OwnValues, RatesTold
  <2>2. Owned(P.name, fr, probes, f, AsFilled(v)) /\ AsFilled(v) # NOT_PRESENT
    <3>1. None # NOT_PRESENT
      BY DEF None, NOT_PRESENT
    <3>. QED  BY <2>1, <3>1, NowhereOwned DEF AsFilled
  <2>3. ProbesRead(e.probes, ProbesOf(P, fr))
    BY <1>0, <1>3 DEF OwnValues, ProbesRead
  <2>. QED  BY <1>0, <1>3, <2>2, <2>3 DEF OwnValues
<1>6. PresentValues(P, fr, e)
  <2>1. v # NOT_PRESENT /\ f \in Setpoints => f = TheSetpoint(P.name, probes)
    BY <1>0, <1>2, <1>4, SetpointRead DEF OwnValues
  <2>2. v = NOT_PRESENT => AsFilled(v) = None
    BY DEF AsFilled
  <2>. QED  BY <1>0, <1>3, <2>1, <2>2 DEF PresentValues
<1>7. OneChemical(P, fr, e)
  <2>1. P.name \in OnePort /\ f \in Hidden(P.name, fr) => AsFilled(v) = None
    BY <1>0, <1>2, <1>4, HiddenRead DEF OneChemical
  <2>2. Hidden(P.name, fr) \subseteq Fields
    BY FieldsHave DEF Hidden
  <2>. QED  BY <1>0, <1>3, <2>1, <2>2 DEF OneChemical
<1>8. RatesTold(P, fr, e)
  <2> SUFFICES ASSUME fr.protocol = "v7"
               PROVE  /\ RatesRead(P.name, fr, e)
                      /\ \A g \in Pumps : e.values[g].is = "on" =>
                                            e.values[RateOf(g)].is = "value"
    BY DEF RatesTold
  <2>1. way = WayOf(P.name, f)
    BY <1>2 DEF Listed
  <2>2. \A g \in Rates :
          d.values[g] \in {None, AsFilled(Read(g, WayOf(P.name, g), fr, BlankDevice))}
    BY <1>0 DEF RatesTold, RatesRead, Rates
  <2>3. f \in Rates => /\ AsFilled(v) = AsFilled(Read(f, WayOf(P.name, f), fr, BlankDevice))
                       /\ AsFilled(v) = None \/ AsFilled(v).is = "value"
    BY <1>4, <2>1, RateRead
  <2>4. \A g \in Rates :
          e.values[g] \in {None, AsFilled(Read(g, WayOf(P.name, g), fr, BlankDevice))}
    BY <1>3, <2>2, <2>3, FieldsHave
  <2>5. ASSUME NEW g \in Pumps, e.values[g].is = "on" PROVE e.values[RateOf(g)].is = "value"
    <3>1. RateOf(g) \in Rates /\ RateOf(g) \in Fields /\ g \in Fields /\ RateOf(g) # g
      BY FieldsHave DEF RateOf, Rates, Pumps
    <3>2. \/ d.values[RateOf(g)] = None
          \/ d.values[RateOf(g)].is = "value"
      <4>1. \/ AsFilled(Read(RateOf(g), WayOf(P.name, RateOf(g)), fr, BlankDevice)) = None
            \/ AsFilled(Read(RateOf(g), WayOf(P.name, RateOf(g)), fr, BlankDevice)).is = "value"
        BY <3>1, RateRead
      <4>. QED  BY <2>2, <3>1, <4>1
    <3>3. CASE g = f
      <4>1. AsFilled(v).is = "on" /\ e.values[RateOf(g)] = d.values[RateOf(g)]
        BY <1>3, <2>5, <3>1, <3>3
      <4>2. d.values[RateOf(g)] # None
        <5>1. d.values[RateOf(g)] = None => v = NOT_PRESENT
          BY <1>2, <1>4, <3>3, PumpRead DEF None
        <5>2. v = NOT_PRESENT => AsFilled(v).is = "none"
          BY DEF AsFilled, None
        <5>. QED  BY <4>1, <5>1, <5>2
      <4>. QED  BY <3>2, <4>1, <4>2
    <3>4. CASE g # f
      <4>1. d.values[g].is = "on"
        BY <1>3, <2>5, <3>1, <3>4
      <4>2. d.values[RateOf(g)].is = "value"
        BY <1>0, <4>1 DEF RatesTold
      <4>3. CASE RateOf(g) # f
        BY <1>3, <3>1, <4>2, <4>3
      <4>4. CASE RateOf(g) = f
        <5>1. d.values[f] # None
          BY <4>2, <4>4 DEF None
        <5>2. d.values[f] = AsFilled(v)
          BY <2>2, <2>3, <3>1, <4>4, <5>1
        <5>. QED  BY <1>3, <4>2, <4>4, <5>2
      <4>. QED  BY <4>3, <4>4
    <3>. QED  BY <3>3, <3>4
  <2>. QED  BY <2>4, <2>5 DEF RatesRead, Rates
<1>. QED  BY <1>5, <1>6, <1>7, <1>8 DEF Sound, e


\* The menu of a HOME is read, by then, if it is among the first i features; and
\* the filter is not on while it is open.
MenuTold(fr, s, i, d) ==
  /\ (\E j \in 1..i : s[j] = "service_menu_open") =>
       d.values["service_menu_open"] = AsFilled(ServiceMenuOpen(fr))
  /\ d.values["filtration_running"].is = "on" =>
       fr.settings = Unset \/ MENU_OPEN \notin fr.settings

\* The menu is read before the filter, which depends on it.
LEMMA MenuStep ==
  ASSUME NEW fr, fr.protocol = "v7", NEW s \in Seq(Names), InOrder(Range(HOME.features), s),
         NEW i \in 1..Len(s), NEW f, f = s[i],
         NEW d, d.values = [g \in Fields |-> d.values[g]],
         MenuTold(fr, s, i - 1, d)
  PROVE  MenuTold(fr, s, i, Decoded(fr, HOME, d, f))
<1> DEFINE e == Decoded(fr, HOME, d, f)
           v == Answer(HOME, fr, f, d)
           menu == "service_menu_open"
           filter == "filtration_running"
<1>1. f \in Fields
  <2>1. f \in Range(s)
    BY DEF Range
  <2>2. HOME \in AllProfiles
    BY FieldsHave DEF V7Profiles
  <2>. QED  BY <2>1, <2>2, FieldsHave DEF InOrder
<1>6. menu \in Fields /\ filter \in Fields
  BY FieldsHave
<1>2. /\ e.values[f] = AsFilled(v)
      /\ \A g \in Fields : g # f => e.values[g] = d.values[g]
  BY <1>1, OneValue
<1>3. /\ Answer(HOME, fr, "service_menu_open", d) = ServiceMenuOpen(fr)
      /\ Answer(HOME, fr, "filtration_running", d)
           = Read("filtration_running", "v7_menu_override", fr, d)
  <2>1. HOME.name = "v7 HOME" /\ HOME \in V7Profiles
    BY DEF HOME, V7Profiles
  <2>2. /\ WayOf("v7 HOME", "service_menu_open") = "v7"
        /\ WayOf("v7 HOME", "filtration_running") = "v7_menu_override"
    BY DEF WayOf
  <2>3. /\ reading_for(HOME, fr, "service_menu_open") = "v7"
        /\ reading_for(HOME, fr, "filtration_running") = "v7_menu_override"
    BY <2>1, <2>2, V7Ways
  <2>4. Located("v7")
    BY DEF Located
  <2>. QED  BY <2>3, <2>4, ReadIs DEF Answer
<1>7. v = Answer(HOME, fr, f, d)
  OBVIOUS
<1> HIDE DEF e, v
<1>4. (\E j \in 1..i : s[j] = menu) => e.values[menu] = AsFilled(ServiceMenuOpen(fr))
  <2>1. CASE f = menu
    <3>1. v = ServiceMenuOpen(fr)
      BY <1>3, <1>7, <2>1
    <3>. QED  BY <1>2, <2>1, <3>1
  <2>2. CASE f # menu
    <3>1. (\E j \in 1..i : s[j] = menu) => \E j \in 1..(i - 1) : s[j] = menu
      BY <2>2
    <3>2. e.values[menu] = d.values[menu]
      BY <1>2, <1>6, <2>2
    <3>. QED  BY <3>1, <3>2 DEF MenuTold
  <2>. QED  BY <2>1, <2>2
<1>5. e.values[filter].is = "on" => fr.settings = Unset \/ MENU_OPEN \notin fr.settings
  <2>1. CASE f = filter
    <3>1. DependsOn(f) = menu
      BY <2>1 DEF DependsOn
    <3>2. menu \in Range(HOME.features)
      BY HomeLists
    <3>3. \E j \in 1..(i - 1) : s[j] = menu
      BY <3>1, <3>2 DEF InOrder
    <3>4. d.values[menu] = AsFilled(ServiceMenuOpen(fr))
      BY <3>3 DEF MenuTold
    <3>5. v = Read("filtration_running", "v7_menu_override", fr, d)
      BY <1>3, <1>7, <2>1
    <3>. QED  BY <1>2, <2>1, <3>4, <3>5, FilterRead
  <2>2. CASE f # filter
    <3>1. e.values[filter] = d.values[filter]
      BY <1>2, <1>6, <2>2
    <3>. QED  BY <3>1 DEF MenuTold
  <2>. QED  BY <2>1, <2>2
<1>. QED  BY <1>4, <1>5 DEF MenuTold, e

\* The features of a mapped frame's profile are names.
LEMMA FeaturesAreNames ==
  ASSUME NEW P, NEW fr, Mapped(P, fr)
  PROVE  P \in AllProfiles /\ P.features \in Seq(Names)
<1>1. P \in AllProfiles
  BY FieldsHave DEF Mapped
<1>2. V8_NET.features = V8_FEATURES
  BY DEF V8_NET
<1>3. P.features \in Seq(Names)
  <2>1. P \in {HOME, SALT, OXY, NET, PROFI, V8_NET, V8_SALT}
    BY DEF Mapped, V7Profiles
  <2>. QED
    BY <1>2, <2>1, HomeLists, SaltLists, OxyLists, NetLists, ProfiLists, NetV8Lists,
       SaltV8Lists
<1>. QED  BY <1>1, <1>3

\* What is decoded from a frame of a mapped type.
LEMMA FillingSound ==
  ASSUME NEW fr, NEW P, P = detect_profile(fr), Mapped(P, fr)
  PROVE  /\ Sound(P, fr, Filling(fr))
         /\ fr.protocol = "v7" /\ P = HOME =>
              (Filling(fr).values["filtration_running"].is = "on" =>
                 fr.settings = Unset \/ MENU_OPEN \notin fr.settings)
<1> DEFINE s == DecodeOrder[P.name]
           n == Len(s)
<1>1. InOrder(Range(P.features), s)
  BY FeaturesAreNames, DecodeOrderOf
<1>2. s \in Seq(Names) /\ Range(s) \subseteq Range(P.features) /\ n \in Nat
  BY <1>1 DEF InOrder
<1>3. PICK dev : /\ dev[0] = BlankDevice /\ Filling(fr) = dev[n]
                 /\ \A i \in 1..n : dev[i] = Decoded(fr, P, dev[i - 1], s[i])
  BY <1>2, FillingIs
<1> DEFINE Home == fr.protocol = "v7" /\ P = HOME
           B == {i \in 0..n : /\ Sound(P, fr, dev[i])
                              /\ Home => MenuTold(fr, s, i, dev[i])}
<1> HIDE DEF s, n
<1>4. 0 \in B
  <2>1. MenuTold(fr, s, 0, BlankDevice)
    <3>1. BlankDevice.values["filtration_running"] = None
      BY FieldsHave DEF BlankDevice
    <3>. QED  BY <3>1 DEF MenuTold, None
  <2>. QED  BY <1>2, <1>3, <2>1, BlankSound
<1>5. ASSUME NEW i \in 1..n, i - 1 \in B PROVE i \in B
  <2>1. Sound(P, fr, dev[i - 1]) /\ (Home => MenuTold(fr, s, i - 1, dev[i - 1]))
    BY <1>5
  <2>2. dev[i] = Decoded(fr, P, dev[i - 1], s[i])
    BY <1>3
  <2>3. s[i] \in Range(P.features) /\ i \in 1..Len(s)
    <3>1. i \in 1..Len(s) /\ i \in DOMAIN s
      BY <1>2 DEF n
    <3>. QED  BY <1>2, <3>1 DEF Range
  <2>4. Sound(P, fr, dev[i])
    BY <2>1, <2>2, <2>3, FillStep
  <2>5. Home => MenuTold(fr, s, i, dev[i])
    <3>1. dev[i - 1].values = [g \in Fields |-> dev[i - 1].values[g]]
      BY <2>1 DEF Sound, OwnValues
    <3>. QED  BY <1>1, <1>2, <2>1, <2>2, <2>3, <3>1, MenuStep
  <2>6. i \in 0..n
    BY <1>2
  <2>. QED  BY <2>4, <2>5, <2>6
<1> HIDE DEF B
<1>6. n \in B
  <2>1. 0..n \subseteq B
    BY <1>2, <1>4, <1>5, UpTo
  <2>. QED  BY <1>2, <2>1
<1>. QED  BY <1>3, <1>6 DEF B, MenuTold


-----------------------------------------------------------------------------
(* The device in coordinator.data *)

\* A frame of a mapped type has a profile of its protocol.
LEMMA MappedFrame ==
  ASSUME NEW u, NEW fr \in FramesOf(u), model_of(fr) # "none"
  PROVE  Mapped(detect_profile(fr), fr)
<1>1. CASE u.protocol = "v8"
  <2>1. fr.protocol = "v8"
    BY <1>1 DEF FramesOf, V8Frames
  <2>2. model_of(fr) = model_from_header_type(fr.unit)
    BY <2>1 DEF model_of
  <2>3. model_of(fr) \in {"NET", "SALT"}
    BY <2>2 DEF model_from_header_type
  <2>4. detect_profile(fr) = ByModelV8[model_of(fr)]
    BY <2>1 DEF detect_profile
  <2>. QED  BY <2>1, <2>3, <2>4 DEF ByModelV8, Mapped
<1>2. CASE u.protocol # "v8"
  <2>1. fr.protocol = "v7"
    BY <1>2 DEF FramesOf, V7Frames
  <2>2. model_of(fr) = unit_type_from_byte(fr.unit)
    BY <2>1 DEF model_of
  <2>3. model_of(fr) \in {"HOME", "SALT", "OXY", "NET", "PROFI"}
    BY <2>2 DEF unit_type_from_byte
  <2>4. detect_profile(fr) = ByModelV7[model_of(fr)]
    BY <2>1 DEF detect_profile
  <2>. QED  BY <2>1, <2>3, <2>4 DEF ByModelV7, Mapped, V7Profiles
<1>. QED  BY <1>1, <1>2

\* Each frame of a unit is decoded by itself.
LEMMA DeviceOfIs ==
  ASSUME NEW u \in Kinds, NEW fr \in FramesOf(u)
  PROVE  DeviceOf[fr] = Decode(fr)
<1>1. fr \in UNION {FramesOf(k) : k \in Kinds}
  OBVIOUS
<1>2. DeviceOf = [r \in UNION {FramesOf(k) : k \in Kinds} |-> Decode(r)]
  BY DEF DeviceOf
<1>. QED  BY <1>1, <1>2

\* What a device has from its filling, whatever its features are set to.
LEMMA DecodeIs ==
  ASSUME NEW fr
  PROVE  /\ Decode(fr) = [Decode(fr) EXCEPT !.features = Decode(fr).present]
         /\ Decode(fr).profile = detect_profile(fr).name
         /\ Decode(fr).model = model_of(fr)
         /\ Decode(fr).values = Filling(fr).values
         /\ Decode(fr).present = Filling(fr).present
         /\ Decode(fr).features = Filling(fr).present
         /\ \A S : LET dev == [Decode(fr) EXCEPT !.features = S]
                   IN  /\ dev.features = S
                       /\ dev.profile = Decode(fr).profile
                       /\ dev.model = Decode(fr).model
                       /\ dev.values = Decode(fr).values
                       /\ dev.present = Decode(fr).present
BY DEF Decode

\* The stored device is what the last frame of a mapped type was decoded into,
\* with all that such frames have shown.
DeviceInv ==
  /\ unit \in Kinds /\ unrecognised \in BOOLEAN
  /\ \/ stored = NoDevice /\ everPresent = {}
     \/ /\ lastFrame \in FramesOf(unit) /\ model_of(lastFrame) # "none"
        /\ stored = [Decode(lastFrame) EXCEPT !.features = everPresent]
        /\ Filling(lastFrame).present \subseteq everPresent
        /\ everPresent \subseteq Fields

\* A frame of a mapped type shows only what the profile lists.
LEMMA PresentIsListed ==
  ASSUME NEW u, NEW fr \in FramesOf(u), model_of(fr) # "none"
  PROVE  Filling(fr).present \subseteq Fields
<1>1. Mapped(detect_profile(fr), fr)
  BY MappedFrame
<1>2. Filling(fr).present \subseteq Range(detect_profile(fr).features)
  BY <1>1, FillingSound DEF Sound, PresentValues
<1>3. detect_profile(fr) \in AllProfiles
  BY <1>1, FeaturesAreNames
<1>. QED  BY <1>2, <1>3, FieldsHave

\* The stored features are what the unit has ever shown.
LEMMA StoredFeatures ==
  ASSUME DeviceInv
  PROVE  stored.features = everPresent
<1>1. NoDevice.features = {}
  BY DEF NoDevice
<1>2. CASE stored = NoDevice /\ everPresent = {}
  BY <1>1, <1>2
<1>3. CASE stored = [Decode(lastFrame) EXCEPT !.features = everPresent]
  BY <1>3, DecodeIs
<1>. QED  BY <1>2, <1>3 DEF DeviceInv

\* What storing a frame of a mapped type leaves.
LEMMA StoredStep ==
  ASSUME DeviceInv, NEW fr \in FramesOf(unit), StoreDevice(fr)
  PROVE  /\ stored' = [Decode(fr) EXCEPT !.features = everPresent']
         /\ everPresent' = everPresent \cup Filling(fr).present
<1>1. DeviceOf[fr] = Decode(fr)
  BY DeviceOfIs DEF DeviceInv
<1>2. stored' = [Decode(fr) EXCEPT !.features = Decode(fr).features \cup stored.features]
  BY <1>1 DEF StoreDevice, MergedFeatures
<1>3. everPresent' = everPresent \cup Filling(fr).present
  BY <1>1, DecodeIs DEF StoreDevice
<1>4. Decode(fr).features \cup stored.features = everPresent'
  BY <1>3, DecodeIs, StoredFeatures
<1>. QED  BY <1>2, <1>3, <1>4

\* The invariant of the coordinator's device.
LEMMA DeviceInvHolds == DeviceSpec => []DeviceInv
<1>1. DeviceInit => DeviceInv
  BY DEF DeviceInit, DeviceInv
<1>2. DeviceInv /\ [DeviceNext]_deviceVars => DeviceInv'
  <2> SUFFICES ASSUME DeviceInv, [DeviceNext]_deviceVars PROVE DeviceInv'
    OBVIOUS
  <2>1. CASE UNCHANGED deviceVars
    BY <2>1 DEF DeviceInv, deviceVars
  <2>2. ASSUME NEW fr \in FramesOf(unit), KeepUnrecognised(fr) PROVE DeviceInv'
    BY <2>2 DEF DeviceInv, KeepUnrecognised
  <2>3. ASSUME NEW fr \in FramesOf(unit), StoreDevice(fr) PROVE DeviceInv'
    <3>1. /\ stored' = [Decode(fr) EXCEPT !.features = everPresent']
          /\ everPresent' = everPresent \cup Filling(fr).present
      BY <2>3, StoredStep
    <3>2. /\ model_of(fr) # "none" /\ lastFrame' = fr
          /\ unit' = unit /\ unrecognised' = unrecognised
      BY <2>3 DEF StoreDevice
    <3>3. Filling(fr).present \subseteq Fields
      BY <3>2, PresentIsListed
    <3>4. everPresent \subseteq Fields
      BY DEF DeviceInv
    <3>. QED  BY <3>1, <3>2, <3>3, <3>4 DEF DeviceInv
  <2>. QED  BY <2>1, <2>2, <2>3 DEF DeviceNext
<1>. QED  BY <1>1, <1>2, PTL DEF DeviceSpec

\* What a unit has shown it has for good, and nothing is added that no frame of a
\* mapped type has shown: one of a garbled type is not stored.
THEOREM ShownStays == DeviceSpec => ShownForGood
<1>1. DeviceInv /\ [DeviceNext]_deviceVars =>
        [/\ stored.features \subseteq stored'.features
         /\ stored'.features = everPresent'
         /\ stored'.model # "none"]_stored
  <2> SUFFICES ASSUME DeviceInv, DeviceNext, stored' # stored
               PROVE  /\ stored.features \subseteq stored'.features
                      /\ stored'.features = everPresent'
                      /\ stored'.model # "none"
    BY DEF deviceVars
  <2>1. PICK fr \in FramesOf(unit) : StoreDevice(fr)
    BY DEF DeviceNext, KeepUnrecognised
  <2>2. /\ stored' = [Decode(fr) EXCEPT !.features = everPresent']
        /\ everPresent' = everPresent \cup Filling(fr).present
    BY <2>1, StoredStep
  <2>3. stored'.features = everPresent' /\ stored'.model = model_of(fr)
    BY <2>2, DecodeIs
  <2>4. stored.features = everPresent /\ model_of(fr) # "none"
    BY <2>1, StoredFeatures DEF StoreDevice
  <2>. QED  BY <2>2, <2>3, <2>4
<1>. QED  BY <1>1, DeviceInvHolds, PTL DEF DeviceSpec, ShownForGood

\* What is shown is sound, by the last frame's profile; a device that has never
\* been stored shows nothing.
LEMMA StoredSound ==
  ASSUME DeviceInv
  PROVE  \/ stored = NoDevice
         \/ \E P : /\ Mapped(P, lastFrame) /\ stored.profile = P.name
                   /\ stored.values = Filling(lastFrame).values
                   /\ stored.present = Filling(lastFrame).present
                   /\ Sound(P, lastFrame, Filling(lastFrame))
                   /\ lastFrame.protocol = "v7" /\ P = HOME =>
                        (stored.values["filtration_running"].is = "on" =>
                           lastFrame.settings = Unset \/ MENU_OPEN \notin lastFrame.settings)
<1> SUFFICES ASSUME stored # NoDevice
             PROVE  \E P : /\ Mapped(P, lastFrame) /\ stored.profile = P.name
                           /\ stored.values = Filling(lastFrame).values
                           /\ stored.present = Filling(lastFrame).present
                           /\ Sound(P, lastFrame, Filling(lastFrame))
                           /\ lastFrame.protocol = "v7" /\ P = HOME =>
                                (stored.values["filtration_running"].is = "on" =>
                                  lastFrame.settings = Unset
                                    \/ MENU_OPEN \notin lastFrame.settings)
  OBVIOUS
<1> DEFINE P == detect_profile(lastFrame)
<1>1. /\ lastFrame \in FramesOf(unit) /\ model_of(lastFrame) # "none"
      /\ stored = [Decode(lastFrame) EXCEPT !.features = everPresent]
  BY DEF DeviceInv
<1>2. Mapped(P, lastFrame)
  BY <1>1, MappedFrame
<1>3. /\ stored.profile = P.name /\ stored.values = Filling(lastFrame).values
      /\ stored.present = Filling(lastFrame).present
  BY <1>1, DecodeIs
<1>4. /\ Sound(P, lastFrame, Filling(lastFrame))
      /\ lastFrame.protocol = "v7" /\ P = HOME =>
           (Filling(lastFrame).values["filtration_running"].is = "on" =>
              lastFrame.settings = Unset \/ MENU_OPEN \notin lastFrame.settings)
  BY <1>2, FillingSound
<1>. QED  BY <1>2, <1>3, <1>4

\* No bit, byte or entry of a frame is shown as two quantities, on any model,
\* whatever is filled in and however the shared port is routed.
THEOREM PlacesOfTheirOwn == DeviceSpec => []PlacesReadOnce
<1>1. DeviceInv => PlacesReadOnce
  <2> SUFFICES ASSUME DeviceInv, NEW f \in stored.present, NEW g \in stored.present,
                      stored.values[f].at \cap stored.values[g].at # {}
               PROVE  f = g \/ {f, g} \in OneByDesign
    BY DEF PlacesReadOnce
  <2>1. stored # NoDevice
    BY DEF NoDevice
  <2>2. PICK P : /\ Mapped(P, lastFrame) /\ Sound(P, lastFrame, Filling(lastFrame))
                 /\ stored.values = Filling(lastFrame).values
                 /\ stored.present = Filling(lastFrame).present
    BY <2>1, StoredSound
  <2>3. f \in Fields /\ g \in Fields
    <3>1. P \in AllProfiles
      BY <2>2, FeaturesAreNames
    <3>2. stored.present \subseteq Range(P.features)
      BY <2>2 DEF Sound, PresentValues
    <3>. QED  BY <3>1, <3>2, FieldsHave
  <2>4. PICK p : p \in stored.values[f].at /\ p \in stored.values[g].at
    OBVIOUS
  <2>5. /\ Owned(P.name, lastFrame, ProbesOf(P, lastFrame), f, stored.values[f])
        /\ Owned(P.name, lastFrame, ProbesOf(P, lastFrame), g, stored.values[g])
    BY <2>2, <2>3 DEF Sound, OwnValues
  <2>6. Owners(f) \cap Owners(g) # {}
    BY <2>4, <2>5 DEF Owned
  <2>. QED  BY <2>6, OwnedTogether
<1>. QED  BY <1>1, DeviceInvHolds, PTL

\* Of one thing there is at most one.
LEMMA AtMostOne ==
  ASSUME NEW S, NEW x, S \subseteq {x}
  PROVE  Cardinality(S) <= 1
<1>1. IsFiniteSet({x}) /\ Cardinality({x}) = 1
  BY FS_Singleton
<1>2. Cardinality(S) <= Cardinality({x})
  BY <1>1, FS_Subset
<1>. QED  BY <1>1, <1>2

\* What a device shows is of the quantities that the last frame has, of which
\* there is one setpoint and, on a shared port, one chemical.
THEOREM NothingFormerShown == DeviceSpec => []NothingOfTheFormerSetUp
<1>1. DeviceInv => NothingOfTheFormerSetUp
  <2> SUFFICES ASSUME DeviceInv PROVE NothingOfTheFormerSetUp
    OBVIOUS
  <2>0. unit \in Kinds /\ unrecognised \in BOOLEAN
    BY DEF DeviceInv
  <2>1. CASE stored = NoDevice
    <3>1. /\ stored.present = {} /\ stored.features = {} /\ stored.profile = "none"
          /\ \A f \in Fields : stored.values[f] = None
      BY <2>1 DEF NoDevice
    <3>2. DeviceTypeOK
      BY <2>0, <3>1 DEF DeviceTypeOK, None
    <3>3. Cardinality(stored.present \cap Setpoints) <= 1
      BY <3>1, AtMostOne
    <3>. QED  BY <3>1, <3>2, <3>3 DEF NothingOfTheFormerSetUp, OnePort
  <2>2. CASE stored # NoDevice
    <3>1. PICK P : /\ Mapped(P, lastFrame) /\ Sound(P, lastFrame, Filling(lastFrame))
                   /\ stored.profile = P.name
                   /\ stored.values = Filling(lastFrame).values
                   /\ stored.present = Filling(lastFrame).present
      BY <2>2, StoredSound
    <3>2. /\ OwnValues(P, lastFrame, Filling(lastFrame))
          /\ PresentValues(P, lastFrame, Filling(lastFrame))
          /\ OneChemical(P, lastFrame, Filling(lastFrame))
      BY <3>1 DEF Sound
    <3>3. DeviceTypeOK
      <4>1. \A f \in Fields : stored.values[f].is \in {"none", "value", "on", "off"}
        BY <3>1, <3>2 DEF OwnValues, Owned
      <4>2. stored.features = everPresent /\ everPresent \subseteq Fields
        BY <2>2, StoredFeatures DEF DeviceInv
      <4>3. stored.present \subseteq stored.features
        BY <2>2, <3>1, <4>2 DEF DeviceInv
      <4>. QED  BY <2>0, <4>1, <4>2, <4>3 DEF DeviceTypeOK
    <3>4. \A f \in Fields : stored.values[f] # None => f \in stored.present
      BY <3>1, <3>2 DEF PresentValues
    <3>5. Cardinality(stored.present \cap Setpoints) <= 1
      BY <3>1, <3>2, AtMostOne DEF PresentValues
    <3>6. stored.profile \in OnePort =>
            \/ \A f \in Algicide : stored.values[f] = None
            \/ \A f \in Flocculant : stored.values[f] = None
      BY <3>1, <3>2 DEF OneChemical, Hidden
    <3>. QED  BY <3>3, <3>4, <3>5, <3>6 DEF NothingOfTheFormerSetUp
  <2>. QED  BY <2>1, <2>2
<1>. QED  BY <1>1, DeviceInvHolds, PTL

\* What is shown as running runs: the filter of a HOME only while the menu is
\* shut, a third pump of a v7 unit only with a flow rate to count its dose with.
THEOREM ShownRuns == DeviceSpec => []RunningIsTrue
<1>1. DeviceInv => RunningIsTrue
  <2> SUFFICES ASSUME DeviceInv PROVE RunningIsTrue
    OBVIOUS
  <2> DEFINE On(f) == f \in Fields /\ stored.values[f].is = "on"
             on == {f \in Fields : stored.values[f].is = "on"}
  <2>1. CASE stored = NoDevice
    <3>1. \A f \in Fields : stored.values[f] = None
      BY <2>1 DEF NoDevice
    <3>2. on = {}
      BY <3>1 DEF None
    <3>. QED  BY <3>2 DEF RunningIsTrue
  <2>2. CASE stored # NoDevice
    <3>1. PICK P : /\ Mapped(P, lastFrame) /\ Sound(P, lastFrame, Filling(lastFrame))
                   /\ stored.profile = P.name
                   /\ stored.values = Filling(lastFrame).values
                   /\ lastFrame.protocol = "v7" /\ P = HOME =>
                        (stored.values["filtration_running"].is = "on" =>
                          lastFrame.settings = Unset
                            \/ MENU_OPEN \notin lastFrame.settings)
      BY <2>2, StoredSound
    <3>2. stored.profile \in {"v7 SALT", "v7 OXY", "v7 HOME", "v7 PROFI"} =>
            lastFrame.protocol = "v7"
      <4>1. V8_NET.name = "v8 NET" /\ V8_SALT.name = "v8 SALT"
        BY DEF V8_NET, V8_SALT
      <4>2. CASE lastFrame.protocol = "v7"
        BY <4>2
      <4>3. CASE P \in {V8_NET, V8_SALT}
        <5>1. P.name \in {"v8 NET", "v8 SALT"}
          BY <4>1, <4>3
        <5>. QED  BY <3>1, <5>1
      <4>. QED  BY <3>1, <4>2, <4>3 DEF Mapped
    <3>3. stored.profile = "v7 HOME" => P = HOME
      <4>1. /\ HOME.name = "v7 HOME" /\ SALT.name = "v7 SALT" /\ OXY.name = "v7 OXY"
            /\ NET.name = "v7 NET" /\ PROFI.name = "v7 PROFI"
            /\ V8_NET.name = "v8 NET" /\ V8_SALT.name = "v8 SALT"
        BY DEF HOME, SALT, OXY, NET, PROFI, V8_NET, V8_SALT
      <4>. QED  BY <3>1, <4>1 DEF Mapped, V7Profiles
    <3>4. lastFrame.protocol = "v7" =>
            \A f \in Pumps : stored.values[f].is = "on" =>
                               stored.values[RateOf(f)].is = "value"
      BY <3>1 DEF Sound, RatesTold
    <3>5. /\ RateOf("algaecide_pump_running") = "algaecide_flow_rate"
          /\ RateOf("flocculant_pump_running") = "flocculant_flow_rate"
          /\ RateOf("oxygen_pump_running") = "oxygen_flow_rate"
          /\ "algaecide_pump_running" \in Pumps /\ "flocculant_pump_running" \in Pumps
          /\ "oxygen_pump_running" \in Pumps
      BY DEF RateOf, Pumps
    <3>6. "filtration_running" \in on /\ stored.profile = "v7 HOME" =>
            lastFrame.settings = Unset \/ MENU_OPEN \notin lastFrame.settings
      BY <3>1, <3>2, <3>3
    <3>7. stored.profile \in {"v7 SALT", "v7 OXY", "v7 HOME", "v7 PROFI"} =>
            /\ "algaecide_pump_running" \in on =>
                 stored.values["algaecide_flow_rate"].is = "value"
            /\ "flocculant_pump_running" \in on =>
                 stored.values["flocculant_flow_rate"].is = "value"
            /\ "oxygen_pump_running" \in on =>
                 stored.values["oxygen_flow_rate"].is = "value"
      BY <3>2, <3>4, <3>5
    <3>. QED  BY <3>6, <3>7 DEF RunningIsTrue
  <2>. QED  BY <2>1, <2>2
<1>. QED  BY <1>1, DeviceInvHolds, PTL

=============================================================================
