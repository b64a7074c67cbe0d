SPECIFICATION Spec
CONSTANTS
  a1 = a1
  s1 = s1
  s2 = s2
  None = None
  Agents <- OneAgent
  Streams = {s1, s2}
  AgentOf <- TwoStreamsOfOne
  Ops = {o1, o2}
  Sites = {x, y}
  Names = {n}
  PushCap = 1
  MaxRequests = 2
CHECK_DEADLOCK FALSE
SYMMETRY Symmetry
VIEW Readable
INVARIANTS RegistryAgrees NoDoubleClose SettledConfigCurrent
PROPERTY EntryHandedOver
