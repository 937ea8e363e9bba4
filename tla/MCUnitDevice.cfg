SPECIFICATION DeviceSpec
CONSTANTS
  Kinds <- MCKinds
  UnmappedV7 = 6
  UnmappedV8 = 300
  Filled <- MCFilled
  Relays <- MCRelays
  Settings <- MCSettings
  Ports <- MCPorts
  Outs <- MCOuts
  Probes <- MCProbes
INVARIANTS PlacesReadOnce NothingOfTheFormerSetUp RunningIsTrue
PROPERTY ShownForGood
