SPECIFICATION Spec
CONSTANTS
  Tests = {t}
  MaxStreams = 2
  MaxMessages = 3
  CfgCap = 1
  CmdCap = 1
  None = None
INVARIANTS ScheduleCurrent
PROPERTIES NewestStreamMovesOn SchedulerGoes
CHECK_DEADLOCK FALSE
