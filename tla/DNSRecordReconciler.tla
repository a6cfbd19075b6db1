------------------------ MODULE DNSRecordReconciler ------------------------
(***************************************************************************)
(* The DNSRecord controller with everything it works between: the API      *)
(* server that stores the DNSRecords, the informer cache the controller    *)
(* reads them from, the work queue, the DNS provider whose zones it edits  *)
(* through libdns, and the resolver it checks the result with.             *)
(*                                                                         *)
(* Every call that leaves the process is one action: a read of the cache,  *)
(* a write to the API server, each libdns call, the DNS lookup.  What      *)
(* happens between two calls is local and belongs to the action before.    *)
(* Reconciles of one object are serialised (the work queue and the mutex   *)
(* in "locks" both see to it), so the state of a reconcile is indexed by   *)
(* its object; reconciles of different objects interleave freely.          *)
(*                                                                         *)
(* Simplifications:                                                        *)
(*  - the only finalizer of an object is RecordFinalizer;                  *)
(*  - a resourceVersion is only ever compared for equality with the stored *)
(*    one, so "cur" records the outcome of that comparison;                *)
(*  - provider records hold what was appended (no rewriting of values).    *)
(***************************************************************************)
EXTENDS DNSRecord, Sequences, FiniteSets

CONSTANTS
  Objects,      \* keys (namespace/name) of the DNSRecords
  Absent,       \* "no such object"
  Coredns,      \* name of the provider that does nothing
  Deployments,  \* values of --provider the operator may be started with
  Specs,        \* specifications that users write
  Unmanaged,    \* Rdata of a record in a zone that nobody made through us
  AppendRejectsDuplicates, \* does AppendRecords refuse an existing record?
  MaxConcurrentReconciles,
  MaxLag,       \* bound: versions of one object the cache may be behind
  MaxEdits,     \* bound: writes by users
  MaxFaults     \* bound: failed calls and crashes

ASSUME ObjectsAssumption ==
  /\ None \notin Objects
  /\ Absent \notin DNSRecordObject
  /\ Absent \notin DefaultedObject

ASSUME DeploymentAssumption ==
  /\ Coredns \notin Providers
  /\ Deployments # {}
  /\ Deployments \subseteq Providers \cup {Coredns}
  /\ Specs \subseteq DNSRecordSpec
  /\ Unmanaged \subseteq Rdata
  /\ \A d, e \in Unmanaged : d = e

ASSUME BoundAssumption ==
  /\ MaxConcurrentReconciles \in Nat \ {0}
  /\ MaxLag \in Nat \ {0}
  /\ MaxEdits \in Nat
  /\ MaxFaults \in Nat
  /\ AppendRejectsDuplicates \in BOOLEAN

VARIABLES
  store,      \* store[o]: the object in the API server
  watch,      \* watch[o]: versions of o the informer has not seen yet
  cache,      \* cache[o]: the version of o in the informer cache
  queue,      \* keys waiting for a worker
  delayed,    \* keys that will be queued again after a delay
  pc,         \* pc[o]: the call the reconcile of o makes next
  rec,        \* rec[o]: its working copy
  old,        \* old[o]: the status of that copy before Provider.Reconcile
  cur,        \* cur[o]: does rec[o] have the stored resourceVersion?
  provider,   \* the provider the running operator was started with
  zone,       \* the records of all zones at all providers
  nextId,     \* the ID a provider gives to its next record
  resolved,   \* Rdata the verification server answers with
  edits,      \* number of writes by users so far
  faults,     \* number of faults so far
  abandoned   \* ghost: IDs the operator lost track of (see Abandon below)

apiVars == <<store, watch>>
runVars == <<pc, rec, old, cur>>
providerVars == <<zone, nextId>>
vars == <<store, watch, cache, queue, delayed, pc, rec, old, cur, provider,
          zone, nextId, resolved, edits, faults, abandoned>>

(***************************************************************************)
(* A record at a provider.  "by" is a ghost: the object it was appended    *)
(* for, None for a record that was not appended by the operator.           *)
(***************************************************************************)
ProviderRecord ==
  [id : Nat \ {0}, data : Rdata, ttl : Ttls, prov : Providers,
   by : Objects \cup {None}]

Steps == {"idle", "setFinalizer", "provider", "deleteRecord", "replaceRecord",
          "appendRecord", "updateStatus", "removeFinalizer", "lookup"}

TypeOK ==
  /\ store \in [Objects -> DNSRecordObject \cup {Absent}]
  /\ watch \in [Objects -> Seq(DNSRecordObject \cup {Absent})]
  /\ cache \in [Objects -> DNSRecordObject \cup {Absent}]
  /\ queue \subseteq Objects
  /\ delayed \subseteq Objects
  /\ pc \in [Objects -> Steps]
  /\ rec \in [Objects -> DefaultedObject \cup {Absent}]
  /\ old \in [Objects -> DNSRecordStatus]
  /\ cur \in [Objects -> BOOLEAN]
  /\ provider \in Deployments
  /\ zone \subseteq ProviderRecord
  /\ nextId \in Nat \ {0}
  /\ resolved \subseteq Rdata
  /\ edits \in 0..MaxEdits
  /\ faults \in 0..MaxFaults
  /\ abandoned \subseteq Nat

(***************************************************************************)
(* An unmanaged record has the ID 1 at each provider; no object exists.    *)
(***************************************************************************)
Init ==
  /\ store = [o \in Objects |-> Absent]
  /\ watch = [o \in Objects |-> <<>>]
  /\ cache = [o \in Objects |-> Absent]
  /\ queue = {}
  /\ delayed = {}
  /\ pc = [o \in Objects |-> "idle"]
  /\ rec = [o \in Objects |-> Absent]
  /\ old = [o \in Objects |-> EmptyStatus]
  /\ cur = [o \in Objects |-> FALSE]
  /\ provider \in Deployments
  /\ nextId = 2
  /\ \E p \in Providers :
       zone = {[id |-> 1, data |-> d, ttl |-> DefaultTtl, prov |-> p, by |-> None]
                 : d \in Unmanaged}
  /\ resolved = Unmanaged
  /\ edits = 0
  /\ faults = 0
  /\ abandoned = {}

(***************************************************************************)
(* The API server.  A write is a new version that the informer will see    *)
(* later; versions of one object arrive in order.                          *)
(***************************************************************************)
Write(o, v) ==
  /\ Len(watch[o]) < MaxLag
  /\ store' = [store EXCEPT ![o] = v]
  /\ watch' = [watch EXCEPT ![o] = Append(@, v)]

\* A write by a user outdates the copy a reconcile of the object works on.
UserWrite(o, v) ==
  /\ edits < MaxEdits
  /\ edits' = edits + 1
  /\ Write(o, v)
  /\ cur' = [cur EXCEPT ![o] = FALSE]
  /\ UNCHANGED <<cache, queue, delayed, pc, rec, old, provider, zone, nextId,
                 resolved, faults, abandoned>>

Create(o, spec) ==
  /\ store[o] = Absent
  /\ UserWrite(o, [spec |-> spec, deleting |-> FALSE, fin |-> FALSE,
                   status |-> EmptyStatus])

EditSpec(o, spec) ==
  /\ store[o] # Absent
  /\ store[o].spec # spec
  /\ UserWrite(o, [store[o] EXCEPT !.spec = spec])

\* kubectl dns activate
Activate(o) ==
  /\ store[o] # Absent
  /\ ~store[o].spec.active
  /\ UserWrite(o, [store[o] EXCEPT !.spec.active = TRUE])

\* kubectl dns deactivate
Deactivate(o) ==
  /\ store[o] # Absent
  /\ store[o].spec.active
  /\ UserWrite(o, [store[o] EXCEPT !.spec.active = FALSE])

\* An object with a finalizer is only marked; one without is gone at once.
DeleteObject(o) ==
  /\ store[o] # Absent
  /\ ~store[o].deleting
  /\ UserWrite(o, IF store[o].fin THEN [store[o] EXCEPT !.deleting = TRUE]
                                  ELSE Absent)

(***************************************************************************)
(* The informer and the work queue.                                        *)
(***************************************************************************)
Deliver(o) ==
  /\ watch[o] # <<>>
  /\ cache' = [cache EXCEPT ![o] = Head(watch[o])]
  /\ watch' = [watch EXCEPT ![o] = Tail(@)]
  /\ queue' = queue \cup {o}
  /\ UNCHANGED <<store, delayed, runVars, provider, providerVars, resolved,
                 edits, faults, abandoned>>

\* The periodic resync of the informer queues what the cache holds.
Resync(o) ==
  /\ cache[o] # Absent
  /\ o \notin queue
  /\ queue' = queue \cup {o}
  /\ UNCHANGED <<store, watch, cache, delayed, runVars, provider,
                 providerVars, resolved, edits, faults, abandoned>>

\* The back-off of a failed reconcile, or RequeueAfter, has passed.
Requeue(o) ==
  /\ o \in delayed
  /\ delayed' = delayed \ {o}
  /\ queue' = queue \cup {o}
  /\ UNCHANGED <<store, watch, cache, runVars, provider, providerVars,
                 resolved, edits, faults, abandoned>>

(***************************************************************************)
(* Building blocks of Reconcile.                                           *)
(***************************************************************************)
Fault ==
  /\ faults < MaxFaults
  /\ faults' = faults + 1

\* Reconcile returns; "again" if with an error or with RequeueAfter.
Return(o, again) ==
  /\ pc' = [pc EXCEPT ![o] = "idle"]
  /\ rec' = [rec EXCEPT ![o] = Absent]
  /\ old' = [old EXCEPT ![o] = EmptyStatus]
  /\ cur' = [cur EXCEPT ![o] = FALSE]
  /\ delayed' = IF again THEN delayed \cup {o} ELSE delayed

\* Reconcile goes on to the call "step" with the working copy r.
Goto(o, r, step) ==
  /\ pc' = [pc EXCEPT ![o] = step]
  /\ rec' = [rec EXCEPT ![o] = r]
  /\ UNCHANGED <<old, cur, delayed>>

\* Mutant: the deletion branch also insists on a current Status.Record.
ProceedChecksRecord(o, r) ==
  LET moved == \/ r.status.provider # old[o].provider
               \/ r.status.id # old[o].id
               \/ r.status.record # ToRR(r.spec)
  IN  IF r.deleting
      THEN Goto(o, r, IF moved THEN "updateStatus" ELSE "removeFinalizer")
      ELSE IF moved
           THEN Goto(o, [r EXCEPT !.status.record = ToRR(r.spec)], "updateStatus")
           ELSE Goto(o, r, "lookup")

\* Provider.Reconcile returned ok and left r.
Proceed(o, r) ==
  LET moved == \/ r.status.provider # old[o].provider
               \/ r.status.id # old[o].id
      raw == ToRR(r.spec)
  IN  IF r.deleting
      THEN Goto(o, r, IF moved THEN "updateStatus" ELSE "removeFinalizer")
      ELSE IF moved \/ r.status.record # raw
           THEN Goto(o, [r EXCEPT !.status.record = raw], "updateStatus")
           ELSE Goto(o, r, "lookup")

\* The working copy without a provider record.
Forget(r) == [r EXCEPT !.status.id = 0, !.status.provider = None]

\* The ID that only this reconcile knows of, if there is one.
InFlight(o) ==
  IF pc[o] = "updateStatus" /\ rec[o].status.id # old[o].id
  THEN {rec[o].status.id} \ {0} ELSE {}

(***************************************************************************)
(* Reconcile, up to the first call that leaves the process.                *)
(***************************************************************************)
Take(o) ==
  /\ o \in queue
  /\ pc[o] = "idle"
  /\ Cardinality({p \in Objects : pc[p] # "idle"}) < MaxConcurrentReconciles
  /\ queue' = queue \ {o}
  /\ UNCHANGED <<store, watch, cache, provider, providerVars, resolved,
                 edits, faults, abandoned>>

NotFound(o) ==
  /\ Take(o)
  /\ cache[o] = Absent
  /\ UNCHANGED <<delayed, runVars>>

ParseError(o) ==
  /\ Take(o)
  /\ cache[o] # Absent
  /\ ToRRFails(cache[o].spec)
  /\ delayed' = delayed \cup {o}
  /\ UNCHANGED runVars

\* Mutant: the provider is called before the finalizer is stored.
BeginUnguarded(o) ==
  /\ Take(o)
  /\ cache[o] # Absent
  /\ ~ToRRFails(cache[o].spec)
  /\ pc' = [pc EXCEPT ![o] = "provider"]
  /\ rec' = [rec EXCEPT ![o] = [cache[o] EXCEPT !.spec = Default(cache[o].spec)]]
  /\ old' = [old EXCEPT ![o] = cache[o].status]
  /\ cur' = [cur EXCEPT ![o] = (watch[o] = <<>>)]
  /\ UNCHANGED delayed

Begin(o) ==
  /\ Take(o)
  /\ cache[o] # Absent
  /\ ~ToRRFails(cache[o].spec)
  /\ pc' = [pc EXCEPT ![o] = IF ~cache[o].deleting /\ ~cache[o].fin
                             THEN "setFinalizer" ELSE "provider"]
  /\ rec' = [rec EXCEPT ![o] = [cache[o] EXCEPT !.spec = Default(cache[o].spec)]]
  /\ old' = [old EXCEPT ![o] = cache[o].status]
  /\ cur' = [cur EXCEPT ![o] = (watch[o] = <<>>)]
  /\ UNCHANGED delayed

(***************************************************************************)
(* Provider.Reconcile: the no-op provider of a coredns deployment, and the *)
(* libdns provider of the others.                                          *)
(***************************************************************************)
NoopReconcile(o) ==
  /\ pc[o] = "provider"
  /\ provider = Coredns
  /\ Proceed(o, rec[o])
  /\ UNCHANGED <<store, watch, cache, queue, provider, providerVars, resolved,
                 edits, faults, abandoned>>

Skipped(o) == rec[o].status.provider \notin {None, provider}

SkipForeign(o) ==
  /\ pc[o] = "provider"
  /\ provider # Coredns
  /\ Skipped(o)
  /\ Return(o, FALSE)
  /\ UNCHANGED <<store, watch, cache, queue, provider, providerVars, resolved,
                 edits, faults, abandoned>>

NoDomain(o) ==
  /\ pc[o] = "provider"
  /\ provider # Coredns
  /\ ~Skipped(o)
  /\ ZoneOf[rec[o].spec.data] = NoZone
  /\ Return(o, TRUE)
  /\ UNCHANGED <<store, watch, cache, queue, provider, providerVars, resolved,
                 edits, faults, abandoned>>

\* What GetRecords answers for the zone of the working copy.
Listed(o) ==
  {e \in zone : e.prov = provider /\ ZoneOf[e.data] = ZoneOf[rec[o].spec.data]}

\* The entry of a listing that carries the ID of the working copy.
Mine(o, recs) == {e \in recs : e.id = rec[o].status.id}

\* IDs of live records that the working copy holds and the listing lacks:
\* the operator is about to forget them.
Unlisted(o, recs) ==
  {e.id : e \in {f \in zone \ recs : f.id = rec[o].status.id}}

UpToDate(o, e) == e.data = rec[o].spec.data /\ e.ttl = rec[o].spec.ttl

\* Everything between GetRecords and the next call.
Compare(o, recs) ==
  LET r == rec[o]
  IN  IF Mine(o, recs) = {}
      THEN IF r.deleting \/ ~r.spec.active
           THEN /\ Proceed(o, Forget(r))
                /\ abandoned' = abandoned \cup Unlisted(o, recs)
           ELSE IF \E e \in recs : e.data = r.spec.data
                THEN Return(o, TRUE) /\ UNCHANGED abandoned
                ELSE /\ Goto(o, r, "appendRecord")
                     /\ abandoned' = abandoned \cup Unlisted(o, recs)
      ELSE /\ UNCHANGED abandoned
           /\ IF r.deleting \/ ~r.spec.active
              THEN Goto(o, r, "deleteRecord")
              ELSE IF \E e \in Mine(o, recs) : UpToDate(o, e)
                   THEN Proceed(o, r)
                   ELSE Goto(o, r, "replaceRecord")

AtGetRecords(o) ==
  /\ pc[o] = "provider"
  /\ provider # Coredns
  /\ ~Skipped(o)
  /\ ZoneOf[rec[o].spec.data] # NoZone
  /\ UNCHANGED <<store, watch, cache, queue, provider, providerVars, resolved,
                 edits>>

GetRecords(o) ==
  /\ AtGetRecords(o)
  /\ Compare(o, Listed(o))
  /\ UNCHANGED faults

\* An error that says "not found", or any error while the status has no ID,
\* counts as an empty listing.
GetRecordsEmpty(o) ==
  /\ AtGetRecords(o)
  /\ Fault
  /\ Compare(o, {})

GetRecordsError(o) ==
  /\ AtGetRecords(o)
  /\ rec[o].status.id # 0
  /\ Fault
  /\ Return(o, TRUE)
  /\ UNCHANGED abandoned

\* Mutant: DeleteRecords is called without the ID.
RemoveByData(o) ==
  zone' = {e \in zone : ~(e.prov = provider /\ e.data = rec[o].spec.data)}

\* DeleteRecords took effect; what follows depends on which of the two calls
\* it was.
Remove(o) ==
  zone' = {e \in zone : ~(e.prov = provider /\ e.id = rec[o].status.id)}

AtDeleteRecords(o) ==
  /\ pc[o] \in {"deleteRecord", "replaceRecord"}
  /\ UNCHANGED <<store, watch, cache, queue, provider, nextId, resolved,
                 edits, abandoned>>

DeleteRecords(o) ==
  /\ AtDeleteRecords(o)
  /\ Remove(o)
  /\ IF pc[o] = "deleteRecord" THEN Proceed(o, Forget(rec[o]))
                               ELSE Goto(o, rec[o], "appendRecord")
  /\ UNCHANGED faults

\* Mutant: a failed DeleteRecords is taken for a success.
DeleteRecordsIgnoresError(o) ==
  /\ AtDeleteRecords(o)
  /\ UNCHANGED zone
  /\ IF pc[o] = "deleteRecord" THEN Proceed(o, Forget(rec[o]))
                               ELSE Goto(o, rec[o], "appendRecord")
  /\ Fault

\* The call fails, with or without having taken effect.
DeleteRecordsError(o) ==
  /\ AtDeleteRecords(o)
  /\ Remove(o) \/ UNCHANGED zone
  /\ Return(o, TRUE)
  /\ Fault

\* AppendRecords took effect.
Add(o) ==
  /\ zone' = zone \cup {[id |-> nextId, data |-> rec[o].spec.data,
                         ttl |-> rec[o].spec.ttl, prov |-> provider, by |-> o]}
  /\ nextId' = nextId + 1

Duplicate(o) ==
  AppendRejectsDuplicates /\ \E e \in Listed(o) : e.data = rec[o].spec.data

AtAppendRecords(o) ==
  /\ pc[o] = "appendRecord"
  /\ UNCHANGED <<store, watch, cache, queue, provider, resolved, edits>>

AppendRecords(o) ==
  /\ AtAppendRecords(o)
  /\ ~Duplicate(o)
  /\ Add(o)
  /\ Proceed(o, [rec[o] EXCEPT !.status.provider = provider,
                               !.status.id = nextId])
  /\ UNCHANGED <<faults, abandoned>>

AppendRejected(o) ==
  /\ AtAppendRecords(o)
  /\ Duplicate(o)
  /\ Return(o, TRUE)
  /\ UNCHANGED <<providerVars, faults, abandoned>>

\* The call fails, or answers with other than one record; it may have taken
\* effect, and then the new ID is lost.
AppendRecordsError(o) ==
  /\ AtAppendRecords(o)
  /\ ~Duplicate(o)
  /\ \/ Add(o) /\ abandoned' = abandoned \cup {nextId}
     \/ UNCHANGED <<providerVars, abandoned>>
  /\ Return(o, TRUE)
  /\ Fault

(***************************************************************************)
(* Writes of Reconcile to the API server, which refuses all but the        *)
(* current version.  An error may also hide a write that took effect.      *)
(***************************************************************************)
Written(o, v) ==
  /\ cur[o]
  /\ Write(o, v)
  /\ \/ Return(o, FALSE) /\ UNCHANGED faults
     \/ Return(o, TRUE) /\ Fault

Refused(o) ==
  /\ \/ ~cur[o] /\ UNCHANGED faults
     \/ Fault
  /\ Return(o, TRUE)
  /\ UNCHANGED apiVars

SetFinalizer(o) ==
  /\ pc[o] = "setFinalizer"
  /\ \/ Written(o, [store[o] EXCEPT !.fin = TRUE, !.spec = rec[o].spec])
     \/ Refused(o)
  /\ UNCHANGED <<cache, queue, provider, providerVars, resolved, edits,
                 abandoned>>

UpdateStatus(o) ==
  /\ pc[o] = "updateStatus"
  /\ \/ /\ Written(o, [store[o] EXCEPT !.status = rec[o].status])
        /\ UNCHANGED abandoned
     \/ /\ Refused(o)
        /\ abandoned' = abandoned \cup InFlight(o)
  /\ UNCHANGED <<cache, queue, provider, providerVars, resolved, edits>>

\* RecordFinalizer was the last finalizer: the object is gone.  A record of
\* another deployment's provider is left behind.
RemoveFinalizer(o) ==
  /\ pc[o] = "removeFinalizer"
  /\ \/ /\ Written(o, Absent)
        /\ abandoned' = IF provider = Coredns
                        THEN abandoned \cup ({store[o].status.id} \ {0})
                        ELSE abandoned
     \/ Refused(o) /\ UNCHANGED abandoned
  /\ UNCHANGED <<cache, queue, provider, providerVars, resolved, edits>>

(***************************************************************************)
(* The lookup at the verification server and what follows from it.         *)
(***************************************************************************)
AtLookup(o) ==
  /\ pc[o] = "lookup"
  /\ UNCHANGED <<store, watch, cache, queue, provider, providerVars, resolved,
                 edits, abandoned>>

\* Mutant: no RequeueAfter while state and desired state differ.
LookupOnce(o) ==
  LET r == rec[o]
      ok == r.spec.data \in resolved
  IN  /\ AtLookup(o)
      /\ IF r.status.active # ok
         THEN Goto(o, [r EXCEPT !.status.active = ok], "updateStatus")
         ELSE Return(o, FALSE)
      /\ UNCHANGED faults

Lookup(o) ==
  LET r == rec[o]
      ok == r.spec.data \in resolved
  IN  /\ AtLookup(o)
      /\ IF r.status.active # ok
         THEN Goto(o, [r EXCEPT !.status.active = ok], "updateStatus")
         ELSE Return(o, r.spec.active # ok)
      /\ UNCHANGED faults

LookupError(o) ==
  /\ AtLookup(o)
  /\ Return(o, TRUE)
  /\ Fault

\* What the verification server will answer once it has caught up: what the
\* providers serve and, in a coredns deployment, what the plugin serves.
Published ==
  {e.data : e \in zone} \cup
  IF provider # Coredns THEN {}
  ELSE {store[o].spec.data : o \in
         {p \in Objects : /\ store[p] # Absent
                          /\ store[p].spec.active
                          /\ ~ToRRFails(store[p].spec)}}

Propagate(d) ==
  /\ (d \in resolved) # (d \in Published)
  /\ resolved' = IF d \in resolved THEN resolved \ {d} ELSE resolved \cup {d}
  /\ UNCHANGED <<store, watch, cache, queue, delayed, runVars, provider,
                 providerVars, edits, faults, abandoned>>

\* The operator dies at any point and starts again, perhaps with another
\* --provider: its cache is filled and every object is queued.
Restart ==
  /\ Fault
  /\ abandoned' = abandoned \cup UNION {InFlight(o) : o \in Objects}
  /\ cache' = store
  /\ watch' = [o \in Objects |-> <<>>]
  /\ queue' = {o \in Objects : store[o] # Absent}
  /\ delayed' = {}
  /\ pc' = [o \in Objects |-> "idle"]
  /\ rec' = [o \in Objects |-> Absent]
  /\ old' = [o \in Objects |-> EmptyStatus]
  /\ cur' = [o \in Objects |-> FALSE]
  /\ provider' \in Deployments
  /\ UNCHANGED <<store, providerVars, resolved, edits>>

Start(o) == NotFound(o) \/ ParseError(o) \/ Begin(o)

Reconcile(o) ==
  \/ NoopReconcile(o)
  \/ SkipForeign(o)
  \/ NoDomain(o)
  \/ GetRecords(o)
  \/ GetRecordsEmpty(o)
  \/ GetRecordsError(o)
  \/ DeleteRecords(o)
  \/ DeleteRecordsError(o)
  \/ AppendRecords(o)
  \/ AppendRejected(o)
  \/ AppendRecordsError(o)
  \/ SetFinalizer(o)
  \/ UpdateStatus(o)
  \/ RemoveFinalizer(o)
  \/ Lookup(o)
  \/ LookupError(o)

User(o) ==
  \/ \E spec \in Specs : Create(o, spec) \/ EditSpec(o, spec)
  \/ Activate(o)
  \/ Deactivate(o)
  \/ DeleteObject(o)

Next ==
  \/ \E o \in Objects :
       User(o) \/ Deliver(o) \/ Resync(o) \/ Requeue(o) \/ Start(o) \/ Reconcile(o)
  \/ \E d \in Rdata : Propagate(d)
  \/ Restart

(***************************************************************************)
(* The informer delivers, workers serve the queue in order (so no key      *)
(* waits for ever while others are served), delays pass, calls return, and *)
(* the resolver catches up.  Users, resyncs and faults need not happen.    *)
(***************************************************************************)
Fairness ==
  /\ \A o \in Objects : /\ WF_vars(Deliver(o))
                        /\ WF_vars(Requeue(o))
                        /\ SF_vars(Start(o))
                        /\ WF_vars(Reconcile(o))
  /\ \A d \in Rdata : WF_vars(Propagate(d))

Spec == Init /\ [][Next]_vars

FairSpec == Spec /\ Fairness

(***************************************************************************)
(* Properties.                                                             *)
(***************************************************************************)

\* The records at the providers that this operator made.
Ours == {e \in zone : e.by # None}

Tracked(e) == store[e.by] # Absent /\ store[e.by].status.id = e.id

\* Every record the operator made at a provider is either the one named by
\* the stored status of its object, or one that the running reconcile is
\* about to store, or was lost at one of the marked places: a listing that
\* lacks the record (Compare), an append whose answer is lost, a status write
\* that is refused after an append, a crash before that write, or a coredns
\* deployment that releases another provider's object.  No other path of
\* Reconcile and libdns.Reconcile loses a record.
Accounted ==
  \A e \in Ours :
    Tracked(e) \/ e.id \in InFlight(e.by) \/ e.id \in abandoned

\* As long as a record the operator made and did not lose exists, its object
\* exists and carries RecordFinalizer, so deleting the object cannot leave
\* the record behind: the finalizer is stored before the first call to the
\* provider and removed after the last.
Guarded ==
  \A e \in Ours :
    e.id \notin abandoned => store[e.by] # Absent /\ store[e.by].fin

\* A record disappears from a provider only in the reconcile of the object it
\* was made for, and only when that object is being deleted, is inactive, or
\* wants a different record.  Records of other objects, and records nobody
\* made through the operator, are never deleted.
OwnRecordsOnly ==
  [][\A e \in zone \ zone' :
       /\ e.by # None
       /\ pc[e.by] \in {"deleteRecord", "replaceRecord"}
       /\ rec[e.by].status.id = e.id
       /\ \/ rec[e.by].deleting
          \/ ~rec[e.by].spec.active
          \/ ~UpToDate(e.by, e)]_vars

\* The state of RecordOwnership in terms of this module: an object is enrolled
\* by its finalizer, and the status that counts is the stored one.
Enrolled == {o \in Objects : store[o] # Absent /\ store[o].fin}

Kept(o, ids) == {id \in ids \ abandoned : \E e \in zone : e.by = o /\ e.id = id}

Named(o) == IF store[o] = Absent THEN {} ELSE Kept(o, {store[o].status.id})

Pending(o) == Kept(o, InFlight(o))

Lost == {id \in abandoned : \E e \in Ours : e.id = id}

RO == INSTANCE RecordOwnership WITH
  Surrenders <- Coredns \in Deployments,
  enrolled <- Enrolled,
  named <- [o \in Objects |-> Named(o)],
  pending <- [o \in Objects |-> Pending(o)],
  lost <- Lost,
  next <- nextId

\* Whatever the cache, the other workers, failing calls and crashes do, each
\* step of the controller is a step that RecordOwnership allows: no record is
\* made for an object without finalizer, no second record is named by a status
\* while the first one lives, no finalizer is removed while a record is held,
\* and a record goes out of sight in the ways listed there only.
Owns == RO!Spec

\* The specification of a stored object can be acted upon: it parses, its
\* name lies in a zone and no other provider holds the object.
Actionable(o) ==
  /\ ~ToRRFails(store[o].spec)
  /\ provider # Coredns =>
       /\ ZoneOf[store[o].spec.data] # NoZone
       /\ store[o].status.provider \in {None, provider}

\* An active object whose record the zone already has from somebody else.
Blocked(o) ==
  /\ provider # Coredns
  /\ store[o].spec.active
  /\ \E e \in zone : /\ e.prov = provider
                     /\ e.data = store[o].spec.data
                     /\ e.id # store[o].status.id

\* The provider, the status and the resolver agree with the specification.
Agrees(o) ==
  LET s == store[o]
      spec == Default(s.spec)
  IN  /\ s.status.record = ToRR(spec)
      /\ spec.active => s.status.active
      /\ s.status.active => spec.data \in resolved
      /\ provider # Coredns =>
           IF spec.active
           THEN \E e \in zone : /\ e.id = s.status.id
                                /\ e.prov = provider
                                /\ e.data = spec.data
                                /\ e.ttl = spec.ttl
           ELSE s.status.id = 0

Settled(o) ==
  \/ store[o] = Absent
  \/ ~Actionable(o)
  \/ ~store[o].deleting /\ (Blocked(o) \/ Agrees(o))

\* Whatever users edit, however calls fail or the operator restarts: in the
\* end each object is gone, or cannot be acted upon, or is blocked by a record
\* that exists already, or specification, provider, status and resolver
\* agree, for good.
Converges == \A o \in Objects : <>[]Settled(o)

\* An object being deleted that can be acted upon goes away.
DeletionCompletes ==
  \A o \in Objects :
    (store[o] # Absent /\ store[o].deleting) ~>
      (store[o] = Absent \/ ~Actionable(o))

(***************************************************************************)
(* Statements of the documentation that the code does not live up to.      *)
(***************************************************************************)

\* "The operator ensure the dns records' validity and state": with nobody
\* else writing to the zone, an object ends up with its record in place and
\* its state reported.
StateEnsured ==
  \A o \in Objects :
    <>[](store[o] = Absent \/ store[o].deleting \/ ~Actionable(o) \/ Agrees(o))

\* "The operator creates and updates the records": a record that the stored
\* status of its object names is not given up while it exists, whatever the
\* object is changed to.
RecordsUpdated ==
  [][\A e \in Ours : Tracked(e) /\ e \in zone' => Tracked(e)']_vars
=============================================================================
