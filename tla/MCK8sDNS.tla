------------------------------ MODULE MCK8sDNS ------------------------------
(* Instances of K8sDNS for TLC. *)
EXTENDS K8sDNS, TLC

CONSTANTS
  o1, o2, o3,  \* DNSRecords
  www,         \* Rdata of a record of the zone
  apex,        \* Rdata of an NS record of that zone
  other,       \* Rdata of a record of another zone
  bad,         \* Rdata of a spec that does not parse
  local,       \* Rdata of a record without registrable domain
  zoneA, zoneB

MCZoneOf ==
  [d \in Rdata |-> CASE d = other -> zoneB [] d = local -> NoZone
                     [] OTHER -> zoneA]

\* One object moves between records of two zones and changes TTL, the other
\* is the zone's NS record or a record that no zone can hold, the third one
\* never parses.
SeparateSpecs ==
  (o1 :> [data : {www, other}, ttl : {0, 1}, active : BOOLEAN]) @@
  (o2 :> [data : {apex, local}, ttl : {0}, active : {TRUE}]) @@
  (o3 :> [data : {bad}, ttl : {0, 1}, active : {TRUE}])

\* Both objects may ask for the same record.
SharedSpecs == [o \in Objects |-> [data : {www}, ttl : {0}, active : {TRUE}]]
=============================================================================
