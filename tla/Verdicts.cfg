SPECIFICATION Spec
CONSTANTS
  Devices = {d1, d2}
  Hosts <- MCHosts
  Saves <- MCSaves
  Services = {"plain", "later"}
  Text <- MCText
  Absent = Absent
  Garbage = Garbage
  Error = Error
  Sites = {s1, s2}
  Drafts <- MCDrafts
  Outcomes <- MCOutcomes
  ResultsPerTest = 1
  WindowMin = 1
  WindowMax = 2
  Width = 16
  MaxDelay = 1
  Behind = 1
  Ahead = 1
  MaxRows = 2
  Tenant = Tenant
INVARIANTS StoredStaysGood CapableAgentsRun NoMasking SiteVerdictSettles AlertsAgree
CHECK_DEADLOCK FALSE
SYMMETRY Symmetry
