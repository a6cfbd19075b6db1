\* Three DNSRecords that never ask for the same record; TTLs, apex and
\* names without a zone; resyncs, a restart or a lost watch.
SPECIFICATION FairSpec
CONSTANTS
  Absent = Absent
  Tombstone = Tombstone
  None = None
  NoZone = NoZone
  o1 = o1
  o2 = o2
  o3 = o3
  www = www
  apex = apex
  other = other
  bad = bad
  local = local
  zoneA = zoneA
  zoneB = zoneB
  Objects = {o1, o2, o3}
  Rdata = {www, apex, other, local, bad}
  Unparsable = {bad}
  Zones = {zoneA, zoneB}
  Ttls = {1}
  DefaultTtl = 1
  Providers = {}
  SoaData = {}
  NsData = {apex}
  ExternalAddress = None
  MaxEdits = 3
  MaxBreaks = 2
  ZoneOf <- MCZoneOf
  SpecsOf <- SeparateSpecs
INVARIANTS TypeOK Current Uninterrupted
PROPERTY CatchesUp
CHECK_DEADLOCK FALSE
