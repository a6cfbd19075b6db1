---------------------------- MODULE ChildRecords ----------------------------
(***************************************************************************)
(* The Service and Ingress controllers, which generate DNSRecords (the     *)
(* children) from LoadBalancer Services and from Ingresses (the owners).   *)
(*                                                                         *)
(* A reconcile reads the owner and lists the DNSRecords from the           *)
(* informers' caches, works out which children to delete, create and       *)
(* update, and makes the calls one by one.  Meanwhile users, the garbage   *)
(* collector and the DNSRecord controller change the same objects.         *)
(*                                                                         *)
(* resourceVersions are not counted: outdated[n] holds the children that   *)
(* were written after the version that the reconcile of n has listed, as   *)
(* long as it still has updates to make.                                   *)
(***************************************************************************)
EXTENDS Naturals, Sequences

CONSTANTS
  Owners,        \* names of the Services and Ingresses of one namespace
  Kind,          \* Kind[n] is "svc" or "ing"
  Hosts,         \* host names
  Unregistered,  \* hosts without a registrable domain
  Slugs,         \* parts of child names that stand for a host
  Slug,          \* Slug[h]: "." replaced by "-" and "*" by "wildcard"
  Ips,           \* addresses of load balancers
  SpecsOf,       \* SpecsOf[n]: states users give to the owner n
  Absent,        \* "no such object"
  MaxIps,        \* bound: addresses of one load balancer
  MaxEdits,      \* bound: writes by users
  MaxFaults,     \* bound: failed calls
  MaxRestarts,   \* bound: restarts of the operator
  MayRestore,    \* are children restored from a backup?
  MayTamper      \* do users edit, delete and create children by hand?

\* The state of an owner that a reconcile depends on: the hosts of its rules
\* (of a Service, of its hostname annotation), the addresses of its status,
\* whether it has the ignore annotation, and for a Service whether it is a
\* LoadBalancer.  An element of Ips stands for an address with its TTL.
OwnerSpec ==
  [rules : Seq(Hosts), ips : {s \in Seq(Ips) : Len(s) <= MaxIps},
   ignored : BOOLEAN, loadBalancer : BOOLEAN]

ASSUME ChildAssumption ==
  /\ Kind \in [Owners -> {"svc", "ing"}]
  /\ Slug \in [Hosts -> Slugs]
  /\ SpecsOf \in [Owners -> SUBSET OwnerSpec]
  /\ \A n \in Owners : Kind[n] = "svc" => \A s \in SpecsOf[n] : Len(s.rules) <= 1
  /\ {MaxEdits, MaxFaults, MaxRestarts, MaxIps} \subseteq Nat
  /\ MayRestore \in BOOLEAN /\ MayTamper \in BOOLEAN

VARIABLES
  owner,       \* the owners in the API server
  child,       \* the DNSRecords in the API server
  ownerCache,  \* the same in the informers' caches
  childCache,
  lagging,     \* children whose cached version is not the latest
  queue,       \* keys in the controllers' work queues
  work,        \* work[n]: what the running reconcile of n still has to do
  outdated,    \* children written since the reconcile of n listed them
  uids,        \* UIDs given out
  edits,       \* number of writes by users so far
  faults,      \* number of failed calls so far
  restarts     \* number of restarts so far

vars == <<owner, child, ownerCache, childCache, lagging, queue, work, outdated,
          uids, edits, faults, restarts>>

cluster == <<owner, uids, edits>>
caches == <<ownerCache, childCache>>
failures == <<faults, restarts>>

\* recordName: owner, host and index of the address.
Children == Owners \X Slugs \X (1..MaxIps)

recordName(n, host, i) == <<n, Slug[host], i>>

Uids == 1..MaxEdits

Owner == [uid : Uids, spec : OwnerSpec]

\* An A record, whether it is active, whether it is annotated with the name of
\* its owner, the UID in its controller reference (0 if it has none), its
\* deletion timestamp and its finalizer.
Record ==
  [host : Hosts, ip : Ips, active : BOOLEAN, annotated : BOOLEAN,
   ref : Uids \cup {0}, deleting : BOOLEAN, fin : BOOLEAN]

ASSUME AbsentAssumption == Absent \notin Record

Idle == [uid |-> 0, del |-> {}, add |-> {}, update |-> {}]

\* An element of the list "want", with its place in the list.
Item == [rule : Nat, index : 1..MaxIps, name : Children, host : Hosts, ip : Ips]

\* What a reconcile still has to do, and the UID of the owner it works for.
Work ==
  [uid : Uids \cup {0}, del : SUBSET Children, add : SUBSET Item, update : SUBSET Item]

TypeOK ==
  /\ owner \in [Owners -> Owner \cup {Absent}]
  /\ ownerCache \in [Owners -> Owner \cup {Absent}]
  /\ child \in [Children -> Record \cup {Absent}]
  /\ childCache \in [Children -> Record \cup {Absent}]
  /\ lagging \subseteq Children
  /\ queue \subseteq Owners
  /\ work \in [Owners -> Work]
  /\ outdated \in [Owners -> SUBSET Children]
  /\ edits \in 0..MaxEdits
  /\ uids \in 0..edits
  /\ faults \in 0..MaxFaults
  /\ restarts \in 0..MaxRestarts

Init ==
  /\ owner = [n \in Owners |-> Absent]
  /\ ownerCache = owner
  /\ child = [c \in Children |-> Absent]
  /\ childCache = child
  /\ lagging = {}
  /\ queue = {}
  /\ work = [n \in Owners |-> Idle]
  /\ outdated = [n \in Owners |-> {}]
  /\ uids = 0
  /\ edits = 0
  /\ faults = 0
  /\ restarts = 0

(***************************************************************************)
(* The API server, users and the other controllers of the cluster.         *)
(***************************************************************************)

\* A write to a child.
Write(c, r) ==
  /\ child' = [child EXCEPT ![c] = r]
  /\ lagging' = lagging \cup {c}
  /\ outdated' = [n \in Owners |-> IF work[n].update = {} THEN {} ELSE outdated[n] \cup {c}]

\* A deleted object stays until its finalizer is gone.
Deleted(c) == IF child[c].fin THEN [child[c] EXCEPT !.deleting = TRUE] ELSE Absent

Edit == edits < MaxEdits /\ edits' = edits + 1

WriteOwner(n) ==
  /\ Edit
  /\ \E s \in SpecsOf[n] :
       IF owner[n] = Absent
       THEN /\ owner' = [owner EXCEPT ![n] = [uid |-> uids + 1, spec |-> s]]
            /\ uids' = uids + 1
       ELSE /\ owner' = [owner EXCEPT ![n].spec = s]
            /\ UNCHANGED uids
  /\ UNCHANGED <<child, caches, lagging, queue, work, outdated, failures>>

DeleteOwner(n) ==
  /\ Edit
  /\ owner[n] # Absent
  /\ owner' = [owner EXCEPT ![n] = Absent]
  /\ UNCHANGED <<child, caches, lagging, queue, work, outdated, uids, failures>>

\* Deletion of a child by a user, and "kubectl dns deactivate".
TamperWith(c) ==
  /\ MayTamper
  /\ Edit
  /\ child[c] # Absent
  /\ \/ ~child[c].deleting /\ Write(c, Deleted(c))
     \/ child[c].active /\ Write(c, [child[c] EXCEPT !.active = FALSE])
  /\ UNCHANGED <<owner, uids, caches, queue, work, failures>>

\* A record of the user's own that happens to have the name of a child, and a
\* child restored from a backup, which has lost its controller reference.
CreateByHand(c) ==
  /\ Edit
  /\ child[c] = Absent
  /\ \E host \in Hosts, ip \in Ips, restored \in BOOLEAN :
       /\ IF restored THEN MayRestore ELSE MayTamper
       /\ Slug[host] = c[2]
       /\ Write(c, [host |-> host, ip |-> ip, active |-> TRUE, annotated |-> restored,
                    ref |-> 0, deleting |-> FALSE, fin |-> FALSE])
  /\ UNCHANGED <<owner, uids, caches, queue, work, failures>>

\* The UID of n, 0 if there is no such owner.
Uid(n) == IF owner[n] = Absent THEN 0 ELSE owner[n].uid

\* The garbage collector deletes a child whose owner is gone.
Collect(c) ==
  /\ child[c] # Absent
  /\ child[c].ref # 0
  /\ ~child[c].deleting
  /\ child[c].ref # Uid(c[1])
  /\ Write(c, Deleted(c))
  /\ UNCHANGED <<cluster, caches, queue, work, failures>>

\* The DNSRecord controller sets its finalizer, and removes it in the end.
Finalizer(c) ==
  /\ child[c] # Absent
  /\ IF child[c].deleting THEN Write(c, Absent)
                          ELSE /\ ~child[c].fin
                               /\ Write(c, [child[c] EXCEPT !.fin = TRUE])
  /\ UNCHANGED <<cluster, caches, queue, work, failures>>

(***************************************************************************)
(* Events.  The Service controller's event filter lets only Services pass  *)
(* that are LoadBalancers with a hostname: events of DNSRecords never do.  *)
(***************************************************************************)
filter(o) == o # Absent /\ o.spec.loadBalancer /\ o.spec.rules # <<>>

Passes(n, prev, new) == Kind[n] = "ing" \/ filter(prev) \/ filter(new)

DeliverOwner(n) ==
  /\ ownerCache[n] # owner[n]
  /\ ownerCache' = [ownerCache EXCEPT ![n] = owner[n]]
  /\ queue' = queue \cup {m \in {n} : Passes(n, ownerCache[n], owner[n])}
  /\ UNCHANGED <<cluster, child, childCache, lagging, work, outdated, failures>>

\* Owns: an event of a child is one of its controller.
Controlled(r) == r # Absent /\ r.ref # 0

DeliverChild(c) ==
  /\ c \in lagging
  /\ childCache' = [childCache EXCEPT ![c] = child[c]]
  /\ lagging' = lagging \ {c}
  /\ queue' = queue \cup
       {n \in {c[1]} : /\ Kind[n] = "ing"
                       /\ Controlled(childCache[c]) \/ Controlled(child[c])}
  /\ UNCHANGED <<cluster, child, ownerCache, work, outdated, failures>>

\* The informers' periodic resync.
Resync(n) ==
  /\ ownerCache[n] # Absent
  /\ Passes(n, ownerCache[n], ownerCache[n])
  /\ queue' = queue \cup {n}
  /\ UNCHANGED <<cluster, child, caches, lagging, work, outdated, failures>>

(***************************************************************************)
(* Reconcile.                                                              *)
(***************************************************************************)

\* childRecords: controlled by the owner, or annotated with its name.
\* SetControllerReference changes the listed copy only.
childRecords(n, uid) ==
  {c \in Children : /\ c[1] = n
                    /\ childCache[c] # Absent
                    /\ childCache[c].ref = uid \/ childCache[c].annotated}

\* A Service needs a hostname under a registrable domain and to be a
\* LoadBalancer; either kind is skipped with the ignore annotation.
Ignored(n, s) ==
  \/ s.ignored
  \/ Kind[n] = "svc" /\ (\/ ~s.loadBalancer
                         \/ s.rules = <<>>
                         \/ s.rules[1] \in Unregistered)

\* Mutant: addresses are numbered from zero.
WantFromZero(n, s) ==
  {[rule |-> r, index |-> i - 1, name |-> recordName(n, s.rules[r], i),
    host |-> s.rules[r], ip |-> s.ips[i]] : r \in DOMAIN s.rules, i \in DOMAIN s.ips}

\* The records of every host and address.
Want(n, s) ==
  {[rule |-> r, index |-> i, name |-> recordName(n, s.rules[r], i),
    host |-> s.rules[r], ip |-> s.ips[i]] : r \in DOMAIN s.rules, i \in DOMAIN s.ips}

\* Mutant: annotations and owner references are compared, the spec is not.
DiffersIgnoringSpec(i, r) == ~r.annotated

\* The listed copy differs from the wanted one.  An annotated child has the
\* wanted controller reference, childRecords has seen to that.
Differs(i, r) ==
  \/ r.host # i.host \/ r.ip # i.ip \/ ~r.active
  \/ ~r.annotated

diffRecords(n, uid, got, want) ==
  LET names == {i.name : i \in want}
  IN  [uid |-> uid,
       del |-> got \ names,
       add |-> {i \in want : i.name \notin got},
       update |-> {i \in want : i.name \in got /\ Differs(i, childCache[i.name])}]

\* A reconcile ends with its last call.
Left(w) == IF w.del = {} /\ w.add = {} /\ w.update = {} THEN Idle ELSE w

\* Each of the two controllers runs one reconcile at a time.
Take(n) ==
  /\ n \in queue
  /\ \A m \in Owners : Kind[m] = Kind[n] => work[m] = Idle
  /\ queue' = queue \ {n}
  /\ LET o == ownerCache[n]
         got == childRecords(n, o.uid)
     IN  work' = [work EXCEPT ![n] =
           IF o = Absent THEN Idle
           ELSE Left(diffRecords(n, o.uid, got,
                                 IF Ignored(n, o.spec) THEN {} ELSE Want(n, o.spec)))]
  /\ outdated' = [outdated EXCEPT ![n] = IF work'[n].update = {} THEN {} ELSE lagging]
  /\ UNCHANGED <<cluster, child, caches, lagging, failures>>

\* The item that comes first in the list.
First(items) ==
  {i \in items : \A j \in items :
     i.rule < j.rule \/ (i.rule = j.rule /\ i.index <= j.index)}

\* Calls are made in the order deletions, creations, updates.
NextDelete(n) == work[n].del

NextCreate(n) == IF work[n].del = {} THEN First(work[n].add) ELSE {}

NextUpdate(n) ==
  IF work[n].del = {} /\ work[n].add = {} THEN First(work[n].update) ELSE {}

\* The child as it is submitted: no finalizer, and active.
Submitted(n, i) ==
  [host |-> i.host, ip |-> i.ip, active |-> TRUE, annotated |-> TRUE,
   ref |-> work[n].uid, deleting |-> FALSE, fin |-> FALSE]

\* A child that is gone already is not an error; Delete has no precondition.
DeleteCall(c) ==
  IF child[c] # Absent /\ ~child[c].deleting
  THEN Write(c, Deleted(c))
  ELSE UNCHANGED <<child, lagging, outdated>>

CreateCall(n, i) ==
  /\ child[i.name] = Absent
  /\ Write(i.name, Submitted(n, i))

\* Mutant: updates are submitted without a resourceVersion.
UpdateCallUnversioned(n, i) ==
  /\ child[i.name] # Absent
  /\ Write(i.name, IF child[i.name].deleting THEN Absent ELSE Submitted(n, i))

\* The resourceVersion must be the current one.  An object that is being
\* deleted goes with its last finalizer.
UpdateCall(n, i) ==
  /\ child[i.name] # Absent
  /\ i.name \notin outdated[n]
  /\ Write(i.name, IF child[i.name].deleting THEN Absent ELSE Submitted(n, i))

DeleteRecord(n) ==
  /\ \E c \in NextDelete(n) :
       /\ DeleteCall(c)
       /\ work' = [work EXCEPT ![n] = Left([work[n] EXCEPT !.del = @ \ {c}])]
  /\ UNCHANGED <<cluster, caches, queue, failures>>

CreateRecord(n) ==
  /\ \E i \in NextCreate(n) :
       /\ CreateCall(n, i)
       /\ work' = [work EXCEPT ![n] = Left([work[n] EXCEPT !.add = @ \ {i}])]
  /\ UNCHANGED <<cluster, caches, queue, failures>>

UpdateRecord(n) ==
  /\ \E i \in NextUpdate(n) :
       /\ UpdateCall(n, i)
       /\ work' = [work EXCEPT ![n] = Left([work[n] EXCEPT !.update = @ \ {i}])]
  /\ UNCHANGED <<cluster, caches, queue, failures>>

\* An error ends the reconcile and the owner is tried again.
Retry(n) ==
  /\ work' = [work EXCEPT ![n] = Idle]
  /\ queue' = queue \cup {n}

\* AlreadyExists, NotFound or Conflict.
CallRefused(n) ==
  /\ \/ \E i \in NextCreate(n) : child[i.name] # Absent
     \/ \E i \in NextUpdate(n) : child[i.name] = Absent \/ i.name \in outdated[n]
  /\ Retry(n)
  /\ UNCHANGED <<cluster, child, caches, lagging, outdated, failures>>

\* A call fails, with or without having taken effect.
CallFails(n) ==
  /\ faults < MaxFaults
  /\ faults' = faults + 1
  /\ \/ \E c \in NextDelete(n) : DeleteCall(c)
     \/ \E i \in NextCreate(n) : CreateCall(n, i)
     \/ \E i \in NextUpdate(n) : UpdateCall(n, i)
     \/ /\ NextDelete(n) \cup NextCreate(n) \cup NextUpdate(n) # {}
        /\ UNCHANGED <<child, lagging, outdated>>
  /\ Retry(n)
  /\ UNCHANGED <<cluster, caches, restarts>>

\* The operator starts again: every object is new to the informers.
Restart ==
  /\ restarts < MaxRestarts
  /\ restarts' = restarts + 1
  /\ ownerCache' = owner
  /\ childCache' = child
  /\ lagging' = {}
  /\ queue' = {n \in Owners :
                 \/ owner[n] # Absent /\ Passes(n, owner[n], owner[n])
                 \/ /\ Kind[n] = "ing"
                    /\ \E c \in Children : c[1] = n /\ Controlled(child[c])}
  /\ work' = [n \in Owners |-> Idle]
  /\ outdated' = [n \in Owners |-> {}]
  /\ UNCHANGED <<cluster, child, faults>>

Reconcile(n) ==
  Take(n) \/ DeleteRecord(n) \/ CreateRecord(n) \/ UpdateRecord(n) \/ CallRefused(n)

Next ==
  \/ \E n \in Owners :
       \/ WriteOwner(n) \/ DeleteOwner(n) \/ DeliverOwner(n) \/ Resync(n)
       \/ Reconcile(n) \/ CallFails(n)
  \/ \E c \in Children :
       TamperWith(c) \/ CreateByHand(c) \/ Collect(c) \/ Finalizer(c) \/ DeliverChild(c)
  \/ Restart

Spec == Init /\ [][Next]_vars

\* The informers deliver and resync, work queues are served in order, and the
\* garbage collector and the DNSRecord controller do their part.
Fairness ==
  /\ \A n \in Owners : /\ WF_vars(DeliverOwner(n))
                       /\ WF_vars(Resync(n))
                       /\ WF_vars(Reconcile(n))
                       /\ SF_vars(Take(n))
  /\ \A c \in Children : /\ WF_vars(DeliverChild(c))
                         /\ WF_vars(Collect(c))
                         /\ WF_vars(Finalizer(c))

FairSpec == Spec /\ Fairness
-----------------------------------------------------------------------------
(***************************************************************************)
(* Properties.                                                             *)
(***************************************************************************)

\* A record that a user made and no controller has claimed.
Foreign(r) == ~r.annotated /\ r.ref = 0

\* The children that the stored owner asks for.
Wanted(n) ==
  IF owner[n] = Absent \/ Ignored(n, owner[n].spec) THEN {} ELSE Want(n, owner[n].spec)

\* A record of a user has the name of a child that n asks for.
Obstructed(n) == \E i \in Wanted(n) : child[i.name] # Absent /\ Foreign(child[i.name])

\* The generated children of n are those that its owner asks for; if one of
\* them is obstructed, others may be missing or out of date, but none is left
\* that the owner does not ask for.
Settled(n) ==
  LET mine == {c \in Children : c[1] = n /\ child[c] # Absent /\ ~Foreign(child[c])}
  IN  /\ \A c \in mine : ~child[c].deleting /\ \E i \in Wanted(n) : i.name = c
      /\ \/ Obstructed(n)
         \/ /\ \A i \in Wanted(n) : child[i.name] # Absent
            /\ \A c \in mine :
                 /\ child[c].active
                 /\ \E i \in Wanted(n) :
                      i.name = c /\ i.host = child[c].host /\ i.ip = child[c].ip

\* "Reconcile ... aims to move the current state of the cluster closer to the
\* desired state" (controllers/ingress_controller.go:43): when users stop
\* changing things, each owner ends up with exactly the children it asks for,
\* in spite of stale caches, lost calls, restarts, deletions by hand and the
\* deletion and creation anew of the owner itself.
Converges == \A n \in Owners : <>[]Settled(n)

\* A record that a user made under the name of a child is never overwritten:
\* Create finds it in the way, and an Update based on a version of the child
\* that it replaced is refused.
ForeignKept ==
  [][\A c \in Children :
       child[c] # Absent /\ child'[c] # Absent /\ Foreign(child[c]) =>
         /\ Foreign(child'[c])
         /\ child'[c].host = child[c].host
         /\ child'[c].ip = child[c].ip]_vars

\* "found record without owner reference" (controllers/child_records.go:47-50)
\* and "garbage collection should delete the DNSRecord"
\* (controllers/service_controller.go:55): restored children end up with the
\* controller reference that the garbage collector goes by.
Adopted ==
  <>[](\A c \in Children :
         child[c] # Absent /\ child[c].annotated /\ owner[c[1]] # Absent =>
           child[c].ref = owner[c[1]].uid)
=============================================================================
