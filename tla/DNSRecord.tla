------------------------------ MODULE DNSRecord ------------------------------
(***************************************************************************)
(* The DNSRecord resource: what its specification and status carry, how an *)
(* unset TTL is defaulted and how a specification becomes a DNS resource   *)
(* record.                                                                 *)
(*                                                                         *)
(* The name, type and value of a record are one value of Rdata: the code   *)
(* always compares the three together.  An Rdata stands for all spellings  *)
(* that Default makes one (lower case, final dot, class, weight).  The TTL *)
(* is kept apart: the provider compares it in one place and ignores it in  *)
(* another, and the CoreDNS plugin sees it without Default.                *)
(***************************************************************************)
EXTENDS Naturals

CONSTANTS
  Rdata,        \* <name, type, value> triples a user may write in a spec
  Unparsable,   \* those that ToRR rejects
  Zones,        \* registrable domains
  NoZone,       \* "the name has no registrable domain"
  ZoneOf,       \* the registrable domain of the name of each Rdata
  Ttls,         \* TTLs a spec may carry once defaulted
  DefaultTtl,   \* the TTL of a spec that sets none
  Providers,    \* names of the DNS providers reached through libdns
  None          \* the empty string of the status fields

ASSUME RdataAssumption ==
  /\ Unparsable \subseteq Rdata
  /\ NoZone \notin Zones
  /\ ZoneOf \in [Rdata -> Zones \cup {NoZone}]

ASSUME TtlAssumption ==
  /\ Ttls \subseteq Nat \ {0}
  /\ DefaultTtl \in Ttls

ASSUME NoneAssumption ==
  /\ None \notin Providers
  /\ None \notin [data : Rdata, ttl : Ttls]

\* dns.RR: header and value.
RR == [data : Rdata, ttl : Ttls]

\* DNSRecordSpec as a user submits it; a TTL of 0 is an unset one.  A nil
\* Active means true wherever the code reads it, so it is modelled as TRUE.
DNSRecordSpec == [data : Rdata, ttl : Ttls \cup {0}, active : BOOLEAN]

\* DNSRecordSpec after Default.
DefaultedSpec == [data : Rdata, ttl : Ttls, active : BOOLEAN]

\* DNSRecordStatus.  ID 0 is the empty ID; a nil Active reads as false.
DNSRecordStatus ==
  [record : RR \cup {None}, active : BOOLEAN,
   provider : Providers \cup {None}, id : Nat]

EmptyStatus == [record |-> None, active |-> FALSE, provider |-> None, id |-> 0]

\* A stored DNSRecord: its spec, whether it has a deletion timestamp, whether
\* it carries RecordFinalizer, and its status.
DNSRecordObject ==
  [spec : DNSRecordSpec, deleting : BOOLEAN, fin : BOOLEAN,
   status : DNSRecordStatus]

\* The same object in the reconciler's hands, after Default.
DefaultedObject ==
  [spec : DefaultedSpec, deleting : BOOLEAN, fin : BOOLEAN,
   status : DNSRecordStatus]

\* Mutant: the TTL is left unset.
DefaultKeepsTtl(spec) == spec

Default(spec) ==
  [spec EXCEPT !.ttl = IF spec.ttl = 0 THEN DefaultTtl ELSE spec.ttl]

\* record.ToRR fails on an unparsable spec ...
ToRRFails(spec) == spec.data \in Unparsable

\* ... and yields name, type, value and TTL of any other.
ToRR(spec) == [data |-> spec.data, ttl |-> spec.ttl]
=============================================================================
