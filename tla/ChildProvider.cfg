\* A Service with one or two addresses that is changed, deleted and created
\* anew, down to the records at the provider.
SPECIFICATION CompositionFairSpec
CONSTANTS
  web = web
  host = host
  slug = slug
  ip1 = ip1
  ip2 = ip2
  Absent = Absent
  Owners = {web}
  Hosts = {host}
  Unregistered = {}
  Slugs = {slug}
  Ips = {ip1, ip2}
  Ids = {1, 2, 3, 4}
  MaxIps = 2
  MaxEdits = 3
  MaxFaults = 0
  MaxRestarts = 0
  MayRestore = FALSE
  MayTamper = FALSE
  Kind <- Services
  Slug <- MCSlug
  SpecsOf <- ServiceSpecs
INVARIANT CompositionTypeOK
PROPERTIES LeaksAccounted Converges EndToEnd
CHECK_DEADLOCK FALSE
