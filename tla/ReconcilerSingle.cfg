\* One object that moves between two zones and changes its TTL, with two
\* failed calls or crashes.
SPECIFICATION Spec
CONSTANTS
  www = www
  mail = mail
  other = other
  bad = bad
  local = local
  zoneA = zoneA
  zoneB = zoneB
  None = None
  Absent = Absent
  NoZone = NoZone
  Coredns = coredns
  Zones = {zoneA, zoneB}
  ZoneOf <- MCZoneOf
  Rdata = {www, other}
  Unparsable = {}
  Ttls = {1, 2}
  DefaultTtl = 2
  Providers = {p}
  Deployments = {p}
  Objects = {o1}
  Specs <- TtlSpecs
  Unmanaged = {}
  AppendRejectsDuplicates = FALSE
  MaxConcurrentReconciles = 2
  MaxLag = 2
  MaxEdits = 3
  MaxFaults = 2
INVARIANTS TypeOK Accounted Guarded
CHECK_DEADLOCK FALSE
