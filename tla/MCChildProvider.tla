--------------------------- MODULE MCChildProvider ---------------------------
(* Instances of ChildProvider for TLC. *)
EXTENDS ChildProvider, TLC

CONSTANTS
  web,       \* name of a Service
  host,      \* its hostname
  slug,
  ip1, ip2

MCSlug == [h \in Hosts |-> slug]

Services == [n \in Owners |-> "svc"]

State(ips) ==
  [rules |-> <<host>>, ips |-> ips, ignored |-> FALSE, loadBalancer |-> TRUE]

\* A LoadBalancer Service that has two addresses or loses the first one.
ServiceSpecs == [n \in Owners |-> {State(<<ip1, ip2>>), State(<<ip2>>)}]
=============================================================================
