\* Children are restored from a backup.
SPECIFICATION FairSpec
CONSTANTS
  web = web
  host = host
  slug = slug
  ip1 = ip1
  ip2 = ip2
  Absent = Absent
  Owners = {web}
  Hosts = {host}
  Unregistered = {}
  Slugs = {slug}
  Ips = {ip1, ip2}
  MaxIps = 1
  MaxEdits = 3
  MaxFaults = 0
  MaxRestarts = 0
  MayRestore = TRUE
  MayTamper = FALSE
  Kind <- Services
  Slug <- MCSlug
  SpecsOf <- SmallSpecs
PROPERTY Adopted
CHECK_DEADLOCK FALSE
