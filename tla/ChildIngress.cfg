\* An Ingress changes, is deleted and created anew; its children are
\* deactivated, deleted and created by hand; a call fails; a restart.
SPECIFICATION FairSpec
CONSTANTS
  web = web
  host = host
  slug = slug
  ip1 = ip1
  ip2 = ip2
  Absent = Absent
  Owners = {web}
  Hosts = {host}
  Unregistered = {}
  Slugs = {slug}
  Ips = {ip1, ip2}
  MaxIps = 1
  MaxEdits = 4
  MaxFaults = 1
  MaxRestarts = 1
  MayRestore = FALSE
  MayTamper = TRUE
  Kind <- Ingresses
  Slug <- MCSlug
  SpecsOf <- IngressSpecs
INVARIANT TypeOK
PROPERTIES ForeignKept Converges
CHECK_DEADLOCK FALSE
