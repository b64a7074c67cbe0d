SPECIFICATION Spec
CONSTANTS
  BufCap = 2
  SinkCap = 1
  History = 2
  Window = 2
  StaleAfter <- MCStaleAfter
  FlapsFor <- MCFlapsFor
  ErrorsFor <- MCErrorsFor
  MaxStreams = 2
  Budgets <- MCBudgets
  NoStats = NoStats
  Peers = {p1}
  Ports = {1, 2}
  TargetPort = 1
  Settings <- MCSettings
  Durations = {0, 31}
  MaxDuration = 30
  MaxListeners = 3
  MaxFaults = 2
  Invalid = Invalid
  Blank = Blank
  p1 = p1
  Routes <- MCRoutes
  MaxHops = 4
  Probes = 2
  Targets = {t1, t2}
  Configs <- MCConfigs
  MaxEvents = 1
  MaxEdits = 4
  MaxIds = 2
  ra = ra
  rb = rb
  rc = rc
  ta = ta
  tb = tb
  Silent = Silent
  Absent = Absent
  Hosts <- Addresses
  Runs <- MCRuns
  AsnOf <- Networks
  Handlers = {h1}
  BaselineRuns = 2
  PathChangesPerTest = 1
  MaxUnpruned = 1
INVARIANTS
  ShippedOnce HealthTrue ReflectorKnown SuccessEarned PathOnRecord NotifiedWhole
  RepeatIsQuiet NoFalseAlarm FirstNewHopReported
CHECK_DEADLOCK FALSE
