SPECIFICATION FairSpec
CONSTANTS
  a1 = a1
  s1 = s1
  s2 = s2
  None = None
  Agents <- OneAgent
  Streams = {s1, s2}
  AgentOf <- TwoStreamsOfOne
  Ops = {o1}
  Sites = {x}
  Names = {n}
  PushCap = 1
  MaxRequests = 2
CHECK_DEADLOCK FALSE
PROPERTIES ReplacedHandlerEnds RequestAnswered
