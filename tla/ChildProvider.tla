---------------------------- MODULE ChildProvider ----------------------------
(***************************************************************************)
(* The Service and Ingress controllers and the DNSRecord controller        *)
(* together: from the addresses of an owner, through the DNSRecords that   *)
(* are its children, to the records at the DNS provider.                   *)
(*                                                                         *)
(* The owners' side is ChildRecords, without its failed calls, restarts    *)
(* and users that edit children.  The DNSRecord controller, there one      *)
(* action, reads the cached child, calls the provider and writes the ID    *)
(* into the status in a call of its own, which is refused if anybody       *)
(* changed the child in between.                                           *)
(*                                                                         *)
(* Left to DNSRecordReconciler: the calls to the provider one by one and   *)
(* their failures, several zones, and the writes of the status that do not *)
(* change the ID.                                                          *)
(***************************************************************************)
EXTENDS ChildRecords

CONSTANT
  Ids        \* IDs that the provider gives to the records of one child: those of
             \* different children differ anyway

ASSUME IdsAssumption == 0 \notin Ids

VARIABLES
  zone,      \* the records at the provider
  status,    \* status[c]: the ID in the status of c, 0 if it is empty
  seen,      \* the same in the informer's cache
  running,   \* children whose reconcile has called the provider and has yet to
             \* write the status
  got,       \* got[c]: the ID it is going to write
  stale,     \* those whose version is not the latest: the write will be refused
  stripped   \* ghost: children that lost the DNSRecord controller's finalizer to
             \* a step that is not its own

reconciles == <<running, got, stale>>
allVars == <<vars, zone, status, seen, reconciles, stripped>>

\* A record at the provider and the child it was made for.
Held == [id : Ids, host : Hosts, ip : Ips, by : Children]

CompositionTypeOK ==
  /\ TypeOK
  /\ zone \subseteq Held
  /\ status \in [Children -> Ids \cup {0}]
  /\ seen \in [Children -> Ids \cup {0}]
  /\ running \subseteq Children
  /\ got \in [Children -> Ids \cup {0}]
  /\ stale \subseteq running
  /\ stripped \subseteq Children

CompositionInit ==
  /\ Init
  /\ zone = {}
  /\ status = [c \in Children |-> 0]
  /\ seen = status
  /\ running = {}
  /\ got = [c \in Children |-> 0]
  /\ stale = {}
  /\ stripped = {}

(***************************************************************************)
(* Steps of the owners' side.  The status lives and dies with its child,   *)
(* and a delivery brings its latest version into the cache.                *)
(***************************************************************************)
Gone(c) == child[c] # Absent /\ child'[c] = Absent

Carry ==
  /\ status' = [c \in Children |-> IF Gone(c) THEN 0 ELSE status[c]]
  /\ seen' = [c \in Children |-> IF c \in lagging \ lagging' THEN status[c] ELSE seen[c]]
  /\ stale' = stale \cup {c \in running : child'[c] # child[c]}
  /\ stripped' = {c \in stripped : child[c] # Absent} \cup
       {c \in Children : /\ child[c] # Absent /\ child[c].fin
                         /\ Gone(c) \/ ~child'[c].fin}
  /\ UNCHANGED <<zone, running, got>>

OwnerSide ==
  /\ \/ \E n \in Owners :
          \/ WriteOwner(n) \/ DeleteOwner(n) \/ DeliverOwner(n) \/ Resync(n)
          \/ Reconcile(n)
     \/ \E c \in Children : Collect(c) \/ DeliverChild(c)
  /\ Carry

(***************************************************************************)
(* Steps of the DNSRecord controller.  It reads the cached child, one      *)
(* reconcile of a child at a time.                                         *)
(***************************************************************************)
elsewhere == <<cluster, caches, queue, work, failures>>

\* The finalizer is set, in a write that is refused if the cached child is
\* not the latest version; the reconcile ends there.
Enrol(c) ==
  /\ c \notin running \cup lagging
  /\ child[c] # Absent /\ ~child[c].deleting /\ ~child[c].fin
  /\ Write(c, [child[c] EXCEPT !.fin = TRUE])
  /\ stripped' = stripped \ {c}
  /\ UNCHANGED <<elsewhere, zone, status, seen, reconciles>>

\* Mutant: a child whose status names no provider yet is skipped as foreign.
HandledOwned(c) ==
  /\ c \notin running
  /\ childCache[c] # Absent
  /\ childCache[c].host \notin Unregistered
  /\ seen[c] # 0

\* The cached child gets as far as the provider.
Handled(c) ==
  /\ c \notin running
  /\ childCache[c] # Absent
  /\ childCache[c].host \notin Unregistered

\* The record that the cached status names.
Own(c) == {e \in zone : e.by = c /\ e.id = seen[c]}

Data(records) == {[host |-> e.host, ip |-> e.ip] : e \in records}

\* What the cached specification of c asks the provider to hold.
Asked(c) == [host |-> childCache[c].host, ip |-> childCache[c].ip]

Used(c) == {e.id : e \in {f \in zone : f.by = c}} \cup {status[c], seen[c], got[c]}

\* Mutant: the ID of the provider's answer is not taken.
NewIdUnset(c) == 0

\* The ID that the provider gives to a new record.
NewId(c) == CHOOSE i \in Ids : i \notin Used(c)

\* The status is to be written with ID i.  The write will be refused if the
\* cached child was not the latest version.
Answered(c, i) ==
  /\ running' = running \cup {c}
  /\ got' = [got EXCEPT ![c] = i]
  /\ stale' = stale \cup (lagging \cap {c})

\* Mutant: the record is made before the finalizer is set.
DueUnguarded(c) ==
  /\ Handled(c)
  /\ ~childCache[c].deleting /\ childCache[c].active
  /\ IF Own(c) = {} THEN Asked(c) \notin Data(zone) ELSE Asked(c) \notin Data(Own(c))

\* The record of c is to be appended, if it does not exist already, or replaced.
Due(c) ==
  /\ Handled(c)
  /\ ~childCache[c].deleting /\ childCache[c].fin /\ childCache[c].active
  /\ IF Own(c) = {} THEN Asked(c) \notin Data(zone) ELSE Asked(c) \notin Data(Own(c))

Publish(c) ==
  /\ Due(c)
  /\ Ids \ Used(c) # {}
  /\ zone' = (zone \ Own(c)) \cup
               {[id |-> NewId(c), host |-> Asked(c).host, ip |-> Asked(c).ip, by |-> c]}
  /\ Answered(c, NewId(c))
  /\ UNCHANGED <<vars, status, seen, stripped>>

\* The record of an inactive or deleted child is removed, and its ID from the
\* status.
Withdraw(c) ==
  /\ Handled(c)
  /\ childCache[c].deleting \/ (childCache[c].fin /\ ~childCache[c].active)
  /\ seen[c] # 0
  /\ zone' = zone \ Own(c)
  /\ Answered(c, 0)
  /\ UNCHANGED <<vars, status, seen, stripped>>

\* The status is written, or refused and the ID lost.
StoreStatus(c) ==
  /\ c \in running
  /\ IF c \in stale
     THEN UNCHANGED <<child, lagging, outdated, status>>
     ELSE /\ Write(c, child[c])
          /\ status' = [status EXCEPT ![c] = got[c]]
  /\ running' = running \ {c}
  /\ got' = [got EXCEPT ![c] = 0]
  /\ stale' = stale \ {c}
  /\ UNCHANGED <<elsewhere, zone, seen, stripped>>

\* When a deleted child names no record, the finalizer and with it the object
\* go, in a write that is refused if the cached child is not the latest version.
Finish(c) ==
  /\ Handled(c) /\ c \notin lagging
  /\ childCache[c].deleting
  /\ seen[c] = 0
  /\ Write(c, Absent)
  /\ UNCHANGED <<elsewhere, zone, status, seen, reconciles, stripped>>

RecordSide(c) == Enrol(c) \/ Publish(c) \/ Withdraw(c) \/ StoreStatus(c) \/ Finish(c)

CompositionNext == OwnerSide \/ \E c \in Children : RecordSide(c)

CompositionSpec == CompositionInit /\ [][CompositionNext]_allVars

\* As in ChildRecords, and the DNSRecord controller reconciles every child
\* until there is nothing left to do.
CompositionFairSpec ==
  /\ CompositionSpec
  /\ \A n \in Owners : /\ WF_allVars(DeliverOwner(n) /\ Carry)
                       /\ WF_allVars(Resync(n) /\ Carry)
                       /\ WF_allVars(Reconcile(n) /\ Carry)
                       /\ SF_allVars(Take(n) /\ Carry)
  /\ \A c \in Children : /\ WF_allVars(DeliverChild(c) /\ Carry)
                         /\ WF_allVars(Collect(c) /\ Carry)
                         /\ WF_allVars(RecordSide(c))

-----------------------------------------------------------------------------
(***************************************************************************)
(* Properties.                                                             *)
(***************************************************************************)

\* Records at the provider that no status names and none is going to.
Leaked ==
  {e \in zone : /\ status[e.by] # e.id
                /\ ~(e.by \in running /\ got[e.by] = e.id)}

\* The records that the owners' addresses stand for.
Announced ==
  UNION {{[host |-> i.host, ip |-> i.ip] : i \in Wanted(n)} : n \in Owners}

\* From end to end: when users stop changing the owners, the provider serves
\* the records of all their hosts and addresses, for good, although the two
\* controllers share each child and move it under each other's hands.  What it
\* serves beside them was leaked (see LeaksAccounted) and stays; a leaked
\* record that is announced again is served in the place of the child's own,
\* which finds it in its way (libdns.go:110).
EndToEnd ==
  <>[](Announced \subseteq Data(zone) /\ Data(zone) \subseteq Announced \cup Data(Leaked))

\* A record is left behind at the provider in two ways only.  Its child lost
\* the finalizer to an Update of the owner's controller, which submits a child
\* built afresh (child_records.go:78), and was deleted before the DNSRecord
\* controller could set the finalizer again.  Or the child was changed between
\* the append and the status write that would have named the record
\* (dnsrecord_controller.go:140).  No step of either controller forgets one
\* that a status names.
LeaksAccounted ==
  [][\A e \in Leaked' \ Leaked :
       e.by \in stripped' \/ (e.by \in stale /\ got[e.by] = e.id)]_allVars
=============================================================================
