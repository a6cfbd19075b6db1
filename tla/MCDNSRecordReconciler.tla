----------------------- MODULE MCDNSRecordReconciler -----------------------
(* Instances of DNSRecordReconciler for TLC. *)
EXTENDS DNSRecordReconciler, TLC

CONSTANTS
  www, mail,   \* Rdata of two records of the same zone
  other,       \* Rdata of a record of another zone
  bad,         \* Rdata of a spec that does not parse
  local,       \* Rdata of a record without registrable domain
  zoneA, zoneB

MCZoneOf ==
  [d \in Rdata |-> CASE d = other -> zoneB [] d = local -> NoZone
                     [] OTHER -> zoneA]

\* Active specifications that leave the TTL to Default.
PlainSpecs == [data : Rdata, ttl : {0}, active : {TRUE}]

\* The same, and specifications with a TTL of their own.
TtlSpecs == [data : Rdata, ttl : {0, 1}, active : {TRUE}]

Symmetry == Permutations(Objects)
=============================================================================
