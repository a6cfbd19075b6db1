\* Two objects that ask for the same record, reconciled side by side.
SPECIFICATION Spec
CONSTANTS
  www = www
  mail = mail
  other = other
  bad = bad
  local = local
  zoneA = zoneA
  zoneB = zoneB
  None = None
  Absent = Absent
  NoZone = NoZone
  Coredns = coredns
  Zones = {zoneA, zoneB}
  ZoneOf <- MCZoneOf
  Rdata = {www}
  Unparsable = {}
  Ttls = {1, 2}
  DefaultTtl = 2
  Providers = {p}
  Deployments = {p}
  Objects = {o1, o2}
  Specs <- PlainSpecs
  Unmanaged = {}
  AppendRejectsDuplicates = FALSE
  MaxConcurrentReconciles = 2
  MaxLag = 1
  MaxEdits = 3
  MaxFaults = 1
INVARIANT Accounted
PROPERTY OwnRecordsOnly
CHECK_DEADLOCK FALSE
SYMMETRY Symmetry
