\* No call fails; the record moves to a name in another zone.
SPECIFICATION Spec
CONSTANTS
  www = www
  mail = mail
  other = other
  bad = bad
  local = local
  zoneA = zoneA
  zoneB = zoneB
  None = None
  Absent = Absent
  NoZone = NoZone
  Coredns = coredns
  Zones = {zoneA, zoneB}
  ZoneOf <- MCZoneOf
  Rdata = {www, other}
  Unparsable = {}
  Ttls = {1, 2}
  DefaultTtl = 2
  Providers = {p}
  Deployments = {p}
  Objects = {o1}
  Specs <- PlainSpecs
  Unmanaged = {}
  AppendRejectsDuplicates = FALSE
  MaxConcurrentReconciles = 2
  MaxLag = 2
  MaxEdits = 2
  MaxFaults = 0
PROPERTY RecordsUpdated
CHECK_DEADLOCK FALSE
