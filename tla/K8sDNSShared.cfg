\* Two DNSRecords ask for the same record.
SPECIFICATION Spec
CONSTANTS
  Absent = Absent
  Tombstone = Tombstone
  None = None
  NoZone = NoZone
  o1 = o1
  o2 = o2
  o3 = o3
  www = www
  apex = apex
  other = other
  bad = bad
  local = local
  zoneA = zoneA
  zoneB = zoneB
  Objects = {o1, o2}
  Rdata = {www}
  Unparsable = {}
  Zones = {zoneA, zoneB}
  Ttls = {1}
  DefaultTtl = 1
  Providers = {}
  SoaData = {}
  NsData = {}
  ExternalAddress = None
  MaxEdits = 3
  MaxBreaks = 1
  ZoneOf <- MCZoneOf
  SpecsOf <- SharedSpecs
INVARIANT Current
CHECK_DEADLOCK FALSE
