\* Nothing fails, but the cache lags when the status is written.
SPECIFICATION FairSpec
CONSTANTS
  www = www
  mail = mail
  other = other
  bad = bad
  local = local
  zoneA = zoneA
  zoneB = zoneB
  None = None
  Absent = Absent
  NoZone = NoZone
  Coredns = coredns
  Zones = {zoneA, zoneB}
  ZoneOf <- MCZoneOf
  Rdata = {www}
  Unparsable = {}
  Ttls = {1, 2}
  DefaultTtl = 2
  Providers = {p}
  Deployments = {p}
  Objects = {o1}
  Specs <- TtlSpecs
  Unmanaged = {}
  AppendRejectsDuplicates = FALSE
  MaxConcurrentReconciles = 2
  MaxLag = 2
  MaxEdits = 2
  MaxFaults = 0
PROPERTIES StateEnsured
CHECK_DEADLOCK FALSE
