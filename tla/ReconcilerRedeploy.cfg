\* The operator is started again with other providers; the specification may
\* become invalid; a record that somebody else made stands in the way, and the
\* provider refuses duplicates: what must happen in the end nevertheless.
SPECIFICATION FairSpec
CONSTANTS
  www = www
  mail = mail
  other = other
  bad = bad
  local = local
  zoneA = zoneA
  zoneB = zoneB
  None = None
  Absent = Absent
  NoZone = NoZone
  Coredns = coredns
  Zones = {zoneA, zoneB}
  ZoneOf <- MCZoneOf
  Rdata = {www, other, local, bad}
  Unparsable = {bad}
  Ttls = {1, 2}
  DefaultTtl = 2
  Providers = {p, q}
  Deployments = {p, q, coredns}
  Objects = {o1}
  Specs <- PlainSpecs
  Unmanaged = {www}
  AppendRejectsDuplicates = TRUE
  MaxConcurrentReconciles = 2
  MaxLag = 2
  MaxEdits = 2
  MaxFaults = 2
PROPERTIES Owns Converges DeletionCompletes
CHECK_DEADLOCK FALSE
