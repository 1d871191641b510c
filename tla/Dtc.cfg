SPECIFICATION DtcSpec
CONSTANTS
  g1 = g1
  g2 = g2
  failed = failed
  confirmed = confirmed
  Routines = {r1}
  Groups = {g1, g2}
  None = None
  NVS_DTC_MAX_ENTRIES = 2
  Bits = {failed, confirmed}
  Statuses <- MCStatuses
  Masks <- MCMasks
  Affected <- MCAffected
INVARIANTS
  DtcTypeOK
  ReportComplete
  ClearedStaysCleared
PROPERTIES
  RunOnceAcrossReboots
