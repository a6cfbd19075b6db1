--------------------------- MODULE MCChildRecords ---------------------------
(* Instances of ChildRecords for TLC. *)
EXTENDS ChildRecords, TLC

CONSTANTS
  web,   \* name of an owner
  host,  \* a host
  slug,
  ip1, ip2

MCSlug == [h \in Hosts |-> slug]

Ingresses == [n \in Owners |-> "ing"]
Services == [n \in Owners |-> "svc"]

State(rules, ips) ==
  [rules |-> rules, ips |-> ips, ignored |-> FALSE, loadBalancer |-> TRUE]

\* An Ingress with one host, whose address changes, and without hosts.
IngressSpecs ==
  [n \in Owners |->
     {State(<<host>>, <<ip1>>), State(<<host>>, <<ip2>>), State(<<>>, <<ip1>>)}]

\* One host, one address at a time.
SmallSpecs == [n \in Owners |-> {State(<<host>>, <<ip1>>), State(<<host>>, <<ip2>>)}]
=============================================================================
