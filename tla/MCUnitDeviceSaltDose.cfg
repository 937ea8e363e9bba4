SPECIFICATION DeviceSpec
CONSTANTS
  Kinds <- SaltKinds
  UnmappedV7 = 6
  UnmappedV8 = 300
  Filled <- MCFilled
  Relays <- MCRelays
  Settings <- MCSettings
  Ports <- MCPorts
  Outs <- MCOuts
  Probes <- MCProbes
INVARIANT SetpointOfTheProbes
