--------------------- MODULE DNSRecordReconcilerProofs ---------------------
(***************************************************************************)
(* Proofs about DNSRecordReconciler: type correctness, that no path loses  *)
(* a provider record unnoticed (Accounted), that the finalizer outlives    *)
(* the record (Guarded), and that only an object's own record is deleted   *)
(* for it (OwnRecordsOnly).                                                *)
(***************************************************************************)
EXTENDS DNSRecordReconciler, SequenceTheorems, TLAPS

(***************************************************************************)
(* The inductive invariant.                                                *)
(***************************************************************************)

\* IDs at the providers are distinct and none is handed out yet.
ZoneInv ==
  /\ \A e \in zone : e.id < nextId
  /\ \A e, f \in zone : e.id = f.id => e = f

\* A provider record with the given ID can only belong to o.
OwnId(o, id) == id < nextId /\ \A e \in zone : e.id = id => e.by = o

\* Any version of o, stored, cached or on its way to the cache.
Sound(o, v) ==
  v # Absent =>
    /\ v.deleting => v.fin
    /\ v.status.id # 0 => v.fin
    /\ OwnId(o, v.status.id)

\* A version that is guarded by the finalizer and not yet being deleted says
\* that the stored object still is guarded.
Live(o, v) ==
  v # Absent /\ v.fin /\ ~v.deleting => store[o] # Absent /\ store[o].fin

VersionInv ==
  \A o \in Objects :
    /\ Sound(o, store[o])
    /\ Sound(o, cache[o]) /\ Live(o, cache[o])
    /\ \A i \in 1..Len(watch[o]) : Sound(o, watch[o][i]) /\ Live(o, watch[o][i])

\* The informer is behind by exactly the versions in watch.
CacheInv ==
  \A o \in Objects :
    IF watch[o] = <<>> THEN cache[o] = store[o]
                       ELSE watch[o][Len(watch[o])] = store[o]

\* The copy is the stored version, and the informer has caught up with it.
Current(o) ==
  /\ store[o] # Absent
  /\ store[o].status = old[o]
  /\ store[o].deleting = rec[o].deleting
  /\ store[o].fin = rec[o].fin
  /\ watch[o] = <<>>

\* The live record with the given ID, if any, has been given up.
Gone(id) == \A e \in zone : e.id = id => e.id \in abandoned

\* What holds at each call of a reconcile.
WorkInv(o) ==
  /\ rec[o] # Absent
  /\ OwnId(o, rec[o].status.id)
  /\ OwnId(o, old[o].id)
  /\ cur[o] => Current(o)
  /\ Live(o, rec[o])
  /\ IF pc[o] = "setFinalizer" THEN ~rec[o].deleting ELSE rec[o].fin
  /\ pc[o] # "updateStatus" => rec[o].status.id = old[o].id
  /\ pc[o] \in {"deleteRecord", "replaceRecord", "appendRecord"} =>
       provider # Coredns
  /\ pc[o] \in {"deleteRecord", "replaceRecord"} =>
       \A e \in zone : e.id = rec[o].status.id => e.prov = provider
  /\ pc[o] = "deleteRecord" => rec[o].deleting \/ ~rec[o].spec.active
  /\ pc[o] = "replaceRecord" =>
       /\ ~rec[o].deleting
       /\ \A e \in zone : e.id = rec[o].status.id => ~UpToDate(o, e)
  /\ pc[o] = "appendRecord" => ~rec[o].deleting /\ Gone(rec[o].status.id)
  /\ pc[o] = "updateStatus" /\ rec[o].status.id # old[o].id =>
       /\ rec[o].status.id # 0 => ~rec[o].deleting
       /\ Gone(old[o].id)
  /\ pc[o] = "removeFinalizer" =>
       rec[o].deleting /\ (provider # Coredns => old[o].id = 0)

RunInv ==
  \A o \in Objects : IF pc[o] = "idle" THEN ~cur[o] ELSE WorkInv(o)

IInv == TypeOK /\ ZoneInv /\ VersionInv /\ CacheInv /\ RunInv /\ Accounted

(***************************************************************************)
(* Lemmas about the building blocks of Reconcile.                          *)
(***************************************************************************)

\* Default yields a specification with a TTL.
LEMMA DefaultType ==
  ASSUME NEW spec \in DNSRecordSpec
  PROVE  Default(spec) \in DefaultedSpec
BY TtlAssumption DEF Default, DNSRecordSpec, DefaultedSpec

\* A defaulted object is an object.
LEMMA DefaultedIsObject ==
  ASSUME NEW r \in DefaultedObject
  PROVE  r \in DNSRecordObject /\ r # Absent
BY ObjectsAssumption
   DEF DefaultedObject, DNSRecordObject, DefaultedSpec, DNSRecordSpec

\* The part of TypeOK that a reconcile works with.
RunType ==
  /\ delayed \subseteq Objects
  /\ pc \in [Objects -> Steps]
  /\ rec \in [Objects -> DefaultedObject \cup {Absent}]
  /\ old \in [Objects -> DNSRecordStatus]
  /\ cur \in [Objects -> BOOLEAN]

\* A fresh object's status is a status.
LEMMA EmptyStatusType == EmptyStatus \in DNSRecordStatus
BY DEF EmptyStatus, DNSRecordStatus

\* A reconcile that returns leaves its variables well-typed.
LEMMA ReturnType ==
  ASSUME RunType, NEW o \in Objects, NEW again \in BOOLEAN, Return(o, again)
  PROVE  RunType'
BY EmptyStatusType DEF RunType, Return, Steps

\* So does one that goes on to another call.
LEMMA GotoType ==
  ASSUME RunType, NEW o \in Objects, NEW r \in DefaultedObject,
         NEW step \in Steps, Goto(o, r, step)
  PROVE  RunType'
BY DEF RunType, Goto

\* A defaulted specification makes a resource record.
LEMMA ToRRType ==
  ASSUME NEW spec \in DefaultedSpec
  PROVE  ToRR(spec) \in RR
BY DEF ToRR, RR, DefaultedSpec

\* Updates of the status keep the working copy well-typed.
LEMMA StatusType ==
  ASSUME NEW r \in DefaultedObject
  PROVE  /\ [r EXCEPT !.status.record = ToRR(r.spec)] \in DefaultedObject
         /\ \A a \in BOOLEAN : [r EXCEPT !.status.active = a] \in DefaultedObject
         /\ \A p \in Providers, i \in Nat :
              [r EXCEPT !.status.provider = p, !.status.id = i] \in DefaultedObject
         /\ Forget(r) \in DefaultedObject
<1>1. r.spec \in DefaultedSpec /\ r.status \in DNSRecordStatus
  BY DEF DefaultedObject
<1>2. ToRR(r.spec) \in RR
  BY <1>1, ToRRType
<1>3. [r EXCEPT !.status.record = ToRR(r.spec)] \in DefaultedObject
  BY <1>2 DEF DefaultedObject, DNSRecordStatus
<1>4. \A a \in BOOLEAN : [r EXCEPT !.status.active = a] \in DefaultedObject
  BY DEF DefaultedObject, DNSRecordStatus
<1>5. \A p \in Providers, i \in Nat :
        [r EXCEPT !.status.provider = p, !.status.id = i] \in DefaultedObject
  BY DEF DefaultedObject, DNSRecordStatus
<1>6. Forget(r) \in DefaultedObject
  BY DEF Forget, DefaultedObject, DNSRecordStatus
<1> QED BY <1>3, <1>4, <1>5, <1>6

\* What follows Provider.Reconcile keeps the reconcile well-typed.
LEMMA ProceedType ==
  ASSUME RunType, NEW o \in Objects, NEW r \in DefaultedObject, Proceed(o, r)
  PROVE  RunType'
<1> DEFINE moved == \/ r.status.provider # old[o].provider
                    \/ r.status.id # old[o].id
           raw == ToRR(r.spec)
           r2 == [r EXCEPT !.status.record = raw]
<1>1. r2 \in DefaultedObject
  BY StatusType
<1>2. PICK s \in DefaultedObject, step \in Steps : Goto(o, s, step)
  BY <1>1 DEF Proceed, Steps
<1> QED BY <1>2, GotoType

(***************************************************************************)
(* Type correctness.                                                       *)
(***************************************************************************)

\* A write of a well-typed version keeps the API server and the informer's
\* backlog well-typed.
LEMMA WriteType ==
  ASSUME store \in [Objects -> DNSRecordObject \cup {Absent}],
         watch \in [Objects -> Seq(DNSRecordObject \cup {Absent})],
         NEW o \in Objects, NEW v \in DNSRecordObject \cup {Absent},
         Write(o, v)
  PROVE  /\ store' \in [Objects -> DNSRecordObject \cup {Absent}]
         /\ watch' \in [Objects -> Seq(DNSRecordObject \cup {Absent})]
BY DEF Write

\* The initial state is well-typed.
LEMMA InitType == Init => TypeOK
<1> SUFFICES ASSUME Init PROVE TypeOK
  OBVIOUS
<1>1. zone \subseteq ProviderRecord
  BY RdataAssumption, TtlAssumption, DeploymentAssumption
     DEF Init, ProviderRecord
<1> QED
  BY <1>1, EmptyStatusType, DeploymentAssumption, BoundAssumption
     DEF Init, TypeOK, Steps

\* Writes by users keep the state well-typed.
LEMMA UserType ==
  ASSUME TypeOK, NEW o \in Objects, User(o)
  PROVE  TypeOK'
<1>1. PICK v \in DNSRecordObject \cup {Absent} : UserWrite(o, v)
  <2>1. CASE \E spec \in Specs : Create(o, spec) \/ EditSpec(o, spec)
    BY <2>1, DeploymentAssumption, EmptyStatusType
       DEF Create, EditSpec, TypeOK, DNSRecordObject
  <2>2. CASE Activate(o)
    <3>1. [store[o] EXCEPT !.spec.active = TRUE] \in DNSRecordObject
      BY <2>2 DEF Activate, TypeOK, DNSRecordObject, DNSRecordSpec
    <3> QED BY <2>2, <3>1 DEF Activate
  <2>3. CASE Deactivate(o)
    <3>1. [store[o] EXCEPT !.spec.active = FALSE] \in DNSRecordObject
      BY <2>3 DEF Deactivate, TypeOK, DNSRecordObject, DNSRecordSpec
    <3> QED BY <2>3, <3>1 DEF Deactivate
  <2>4. CASE DeleteObject(o)
    BY <2>4 DEF DeleteObject, TypeOK, DNSRecordObject
  <2> QED BY <2>1, <2>2, <2>3, <2>4 DEF User
<1>2. /\ store' \in [Objects -> DNSRecordObject \cup {Absent}]
      /\ watch' \in [Objects -> Seq(DNSRecordObject \cup {Absent})]
  BY <1>1, WriteType DEF UserWrite, TypeOK
<1>3. edits' \in 0..MaxEdits /\ cur' \in [Objects -> BOOLEAN]
  BY <1>1, BoundAssumption DEF UserWrite, TypeOK
<1> QED BY <1>1, <1>2, <1>3 DEF UserWrite, TypeOK

\* So do the informer and the work queue.
LEMMA QueueType ==
  ASSUME TypeOK, NEW o \in Objects, Deliver(o) \/ Resync(o) \/ Requeue(o)
  PROVE  TypeOK'
<1>1. CASE Deliver(o)
  <2>1. /\ Head(watch[o]) \in DNSRecordObject \cup {Absent}
        /\ Tail(watch[o]) \in Seq(DNSRecordObject \cup {Absent})
    BY <1>1 DEF Deliver, TypeOK
  <2> QED BY <1>1, <2>1 DEF Deliver, TypeOK, runVars, providerVars
<1>2. CASE Resync(o)
  BY <1>2 DEF Resync, TypeOK, runVars, providerVars
<1>3. CASE Requeue(o)
  BY <1>3 DEF Requeue, TypeOK, runVars, providerVars
<1> QED BY <1>1, <1>2, <1>3

\* So does the start of a reconcile.
LEMMA StartType ==
  ASSUME TypeOK, NEW o \in Objects, Start(o)
  PROVE  TypeOK'
<1>1. CASE NotFound(o)
  BY <1>1 DEF NotFound, Take, TypeOK, runVars, providerVars
<1>2. CASE ParseError(o)
  BY <1>2 DEF ParseError, Take, TypeOK, runVars, providerVars
<1>3. CASE Begin(o)
  <2>1. cache[o] \in DNSRecordObject
    BY <1>3 DEF Begin, TypeOK
  <2>2. Default(cache[o].spec) \in DefaultedSpec /\ cache[o].status \in DNSRecordStatus
    BY <2>1, DefaultType DEF DNSRecordObject
  <2>3. [cache[o] EXCEPT !.spec = Default(cache[o].spec)] \in DefaultedObject
    BY <2>1, <2>2 DEF DNSRecordObject, DefaultedObject
  <2>4. RunType'
    BY <1>3, <2>2, <2>3 DEF Begin, TypeOK, RunType, Steps
  <2> QED BY <1>3, <2>4 DEF Begin, Take, TypeOK, RunType, providerVars
<1> QED BY <1>1, <1>2, <1>3 DEF Start

\* TypeOK without the variables a reconcile step handles through Goto and
\* Return.
EnvType ==
  /\ store \in [Objects -> DNSRecordObject \cup {Absent}]
  /\ watch \in [Objects -> Seq(DNSRecordObject \cup {Absent})]
  /\ cache \in [Objects -> DNSRecordObject \cup {Absent}]
  /\ queue \subseteq Objects
  /\ provider \in Deployments
  /\ zone \subseteq ProviderRecord
  /\ nextId \in Nat \ {0}
  /\ resolved \subseteq Rdata
  /\ edits \in 0..MaxEdits
  /\ faults \in 0..MaxFaults
  /\ abandoned \subseteq Nat

\* TypeOK in two parts, now and after a step.
LEMMA TypeSplit ==
  /\ TypeOK <=> EnvType /\ RunType
  /\ TypeOK' <=> EnvType' /\ RunType'
BY DEF TypeOK, EnvType, RunType

\* The count of faults keeps its bound.
LEMMA FaultType ==
  ASSUME faults \in 0..MaxFaults, Fault \/ UNCHANGED faults
  PROVE  faults' \in 0..MaxFaults
BY BoundAssumption DEF Fault

\* The step after a listing keeps the reconcile well-typed.
LEMMA CompareType ==
  ASSUME EnvType, RunType, NEW o \in Objects, rec[o] \in DefaultedObject,
         NEW recs, recs \subseteq zone, Compare(o, recs)
  PROVE  RunType' /\ abandoned' \subseteq Nat
<1>1. Unlisted(o, recs) \subseteq Nat
  BY DEF Unlisted, EnvType, ProviderRecord
<1>2. abandoned' \subseteq Nat
  BY <1>1 DEF Compare, EnvType
<1>3. RunType'
  <2>1. CASE Proceed(o, Forget(rec[o]))
    BY <2>1, StatusType, ProceedType
  <2>2. CASE Return(o, TRUE)
    BY <2>2, ReturnType
  <2>3. CASE Proceed(o, rec[o])
    BY <2>3, ProceedType
  <2>4. CASE \E step \in Steps : Goto(o, rec[o], step)
    BY <2>4, GotoType
  <2> QED BY <2>1, <2>2, <2>3, <2>4 DEF Compare, Steps
<1> QED BY <1>2, <1>3

\* What a reconcile in progress knows of its working copy.
LEMMA WorkingCopy ==
  ASSUME IInv, NEW o \in Objects, pc[o] # "idle"
  PROVE  WorkInv(o) /\ rec[o] \in DefaultedObject
BY DEF IInv, RunInv, WorkInv, TypeOK

\* The calls of Provider.Reconcile before any write keep the state well-typed.
LEMMA ProviderType ==
  ASSUME IInv, NEW o \in Objects,
         \/ NoopReconcile(o) \/ SkipForeign(o) \/ NoDomain(o)
         \/ GetRecords(o) \/ GetRecordsEmpty(o) \/ GetRecordsError(o)
  PROVE  TypeOK'
<1>1. EnvType /\ RunType /\ rec[o] \in DefaultedObject
  BY WorkingCopy, TypeSplit
     DEF IInv, NoopReconcile, SkipForeign, NoDomain, GetRecords,
         GetRecordsEmpty, GetRecordsError, AtGetRecords
<1>2. CASE NoopReconcile(o)
  BY <1>1, <1>2, ProceedType, TypeSplit DEF NoopReconcile, EnvType, providerVars
<1>3. CASE SkipForeign(o) \/ NoDomain(o)
  BY <1>1, <1>3, ReturnType, TypeSplit
     DEF SkipForeign, NoDomain, EnvType, providerVars
<1>4. CASE GetRecords(o)
  <2>1. Listed(o) \subseteq zone
    BY DEF Listed
  <2>2. RunType' /\ abandoned' \subseteq Nat
    BY <1>1, <1>4, <2>1, CompareType DEF GetRecords
  <2> QED BY <1>1, <1>4, <2>2, TypeSplit
             DEF GetRecords, AtGetRecords, EnvType, providerVars
<1>5. CASE GetRecordsEmpty(o)
  <2>1. RunType' /\ abandoned' \subseteq Nat
    BY <1>1, <1>5, CompareType DEF GetRecordsEmpty
  <2>2. faults' \in 0..MaxFaults
    BY <1>1, <1>5, FaultType DEF GetRecordsEmpty, EnvType
  <2> QED BY <1>1, <1>5, <2>1, <2>2, TypeSplit
             DEF GetRecordsEmpty, AtGetRecords, EnvType, providerVars
<1>6. CASE GetRecordsError(o)
  <2>1. faults' \in 0..MaxFaults
    BY <1>1, <1>6, FaultType DEF GetRecordsError, EnvType
  <2> QED BY <1>1, <1>6, <2>1, ReturnType, TypeSplit
             DEF GetRecordsError, AtGetRecords, EnvType, providerVars
<1> QED BY <1>2, <1>3, <1>4, <1>5, <1>6

\* So do DeleteRecords and AppendRecords, which edit the zone.
LEMMA EditZoneType ==
  ASSUME IInv, NEW o \in Objects,
         \/ DeleteRecords(o) \/ DeleteRecordsError(o)
         \/ AppendRecords(o) \/ AppendRejected(o) \/ AppendRecordsError(o)
  PROVE  TypeOK'
<1>1. EnvType /\ RunType /\ rec[o] \in DefaultedObject /\ WorkInv(o)
  BY WorkingCopy, TypeSplit
     DEF IInv, DeleteRecords, DeleteRecordsError, AtDeleteRecords,
         AppendRecords, AppendRejected, AppendRecordsError, AtAppendRecords
<1>2. CASE DeleteRecords(o)
  <2>1. RunType'
    <3>1. CASE Proceed(o, Forget(rec[o]))
      BY <1>1, <3>1, StatusType, ProceedType
    <3>2. CASE Goto(o, rec[o], "appendRecord")
      BY <1>1, <3>2, GotoType DEF Steps
    <3> QED BY <1>2, <3>1, <3>2 DEF DeleteRecords
  <2> QED BY <1>1, <1>2, <2>1, TypeSplit
             DEF DeleteRecords, AtDeleteRecords, Remove, EnvType
<1>3. CASE DeleteRecordsError(o)
  <2>1. faults' \in 0..MaxFaults
    BY <1>1, <1>3, FaultType DEF DeleteRecordsError, EnvType
  <2>2. RunType'
    BY <1>1, <1>3, ReturnType DEF DeleteRecordsError
  <2> QED BY <1>1, <1>3, <2>1, <2>2, TypeSplit
             DEF DeleteRecordsError, AtDeleteRecords, Remove, EnvType
<1>4. ASSUME Add(o), pc[o] = "appendRecord"
      PROVE  /\ zone' \subseteq ProviderRecord
             /\ nextId' \in Nat \ {0}
             /\ provider \in Providers
  <2>1. provider \in Providers
    BY <1>1, <1>4, DeploymentAssumption DEF EnvType, WorkInv
  <2>2. rec[o].spec.data \in Rdata /\ rec[o].spec.ttl \in Ttls
    BY <1>1 DEF DefaultedObject, DefaultedSpec
  <2> QED BY <1>1, <1>4, <2>1, <2>2 DEF Add, EnvType, ProviderRecord
<1>5. CASE AppendRecords(o)
  <2>1. RunType'
    BY <1>1, <1>4, <1>5, StatusType, ProceedType
       DEF AppendRecords, AtAppendRecords, EnvType
  <2> QED BY <1>1, <1>4, <1>5, <2>1, TypeSplit
             DEF AppendRecords, AtAppendRecords, EnvType
<1>6. CASE AppendRejected(o)
  BY <1>1, <1>6, ReturnType, TypeSplit
     DEF AppendRejected, AtAppendRecords, EnvType, providerVars
<1>7. CASE AppendRecordsError(o)
  <2>1. faults' \in 0..MaxFaults
    BY <1>1, <1>7, FaultType DEF AppendRecordsError, EnvType
  <2>2. RunType'
    BY <1>1, <1>7, ReturnType DEF AppendRecordsError
  <2> QED BY <1>1, <1>4, <1>7, <2>1, <2>2, TypeSplit
             DEF AppendRecordsError, AtAppendRecords, EnvType, providerVars
<1> QED BY <1>2, <1>3, <1>5, <1>6, <1>7

\* So do the reconcile's writes to the API server.
LEMMA ApiType ==
  ASSUME IInv, NEW o \in Objects,
         SetFinalizer(o) \/ UpdateStatus(o) \/ RemoveFinalizer(o)
  PROVE  TypeOK'
<1>1. EnvType /\ RunType /\ rec[o] \in DefaultedObject /\ WorkInv(o)
  BY WorkingCopy, TypeSplit
     DEF IInv, SetFinalizer, UpdateStatus, RemoveFinalizer
<1>2. cur[o] => store[o] \in DNSRecordObject
  BY <1>1 DEF WorkInv, Current, EnvType
<1>3. ASSUME NEW v, v \in DNSRecordObject \cup {Absent}, Written(o, v)
      PROVE  /\ RunType'
             /\ store' \in [Objects -> DNSRecordObject \cup {Absent}]
             /\ watch' \in [Objects -> Seq(DNSRecordObject \cup {Absent})]
             /\ faults' \in 0..MaxFaults
  BY <1>1, <1>3, ReturnType, WriteType, FaultType DEF Written, EnvType
<1>4. ASSUME Refused(o)
      PROVE  /\ RunType'
             /\ UNCHANGED <<store, watch>>
             /\ faults' \in 0..MaxFaults
  BY <1>1, <1>4, ReturnType, FaultType DEF Refused, EnvType, apiVars
<1>5. CASE SetFinalizer(o)
  <2>1. cur[o] => [store[o] EXCEPT !.fin = TRUE, !.spec = rec[o].spec]
                    \in DNSRecordObject
    BY <1>1, <1>2, DefaultedIsObject DEF DNSRecordObject
  <2> QED BY <1>1, <1>3, <1>4, <1>5, <2>1, TypeSplit
             DEF SetFinalizer, Written, EnvType, providerVars
<1>6. CASE UpdateStatus(o)
  <2>1. cur[o] => [store[o] EXCEPT !.status = rec[o].status] \in DNSRecordObject
    BY <1>1, <1>2, DefaultedIsObject DEF DNSRecordObject
  <2>2. InFlight(o) \subseteq Nat
    BY <1>1 DEF InFlight, DefaultedObject, DNSRecordStatus
  <2>3. abandoned' \subseteq Nat
    BY <1>1, <1>6, <2>2 DEF UpdateStatus, EnvType
  <2> QED BY <1>1, <1>3, <1>4, <1>6, <2>1, <2>3, TypeSplit
             DEF UpdateStatus, Written, EnvType, providerVars
<1>7. CASE RemoveFinalizer(o)
  <2>1. abandoned' \subseteq Nat
    BY <1>1, <1>2, <1>7
       DEF RemoveFinalizer, Written, EnvType, DNSRecordObject, DNSRecordStatus
  <2> QED BY <1>1, <1>3, <1>4, <1>7, <2>1, TypeSplit
             DEF RemoveFinalizer, EnvType, providerVars
<1> QED BY <1>5, <1>6, <1>7

\* So does the lookup at the verification server.
LEMMA LookupType ==
  ASSUME IInv, NEW o \in Objects, Lookup(o) \/ LookupError(o)
  PROVE  TypeOK'
<1>1. EnvType /\ RunType /\ rec[o] \in DefaultedObject
  BY WorkingCopy, TypeSplit DEF IInv, Lookup, LookupError, AtLookup
<1>2. RunType'
  <2>1. CASE Lookup(o)
    <3> DEFINE ok == rec[o].spec.data \in resolved
    <3>1. ok \in BOOLEAN /\ (rec[o].spec.active # ok) \in BOOLEAN
      OBVIOUS
    <3>2. [rec[o] EXCEPT !.status.active = ok] \in DefaultedObject
      BY <1>1, <3>1, StatusType
    <3>3. CASE Goto(o, [rec[o] EXCEPT !.status.active = ok], "updateStatus")
      BY <1>1, <3>2, <3>3, GotoType DEF Steps
    <3>4. CASE Return(o, rec[o].spec.active # ok)
      BY <1>1, <3>1, <3>4, ReturnType
    <3> QED BY <2>1, <3>3, <3>4 DEF Lookup
  <2>2. CASE LookupError(o)
    BY <1>1, <2>2, ReturnType DEF LookupError
  <2> QED BY <2>1, <2>2
<1>3. faults' \in 0..MaxFaults
  BY <1>1, FaultType DEF Lookup, LookupError, EnvType
<1> QED BY <1>1, <1>2, <1>3, TypeSplit
           DEF Lookup, LookupError, AtLookup, EnvType, providerVars

\* So do propagation and restarts.
LEMMA WorldType ==
  ASSUME IInv, Restart \/ \E d \in Rdata : Propagate(d)
  PROVE  TypeOK'
<1>1. EnvType /\ RunType
  BY TypeSplit DEF IInv
<1>2. CASE Restart
  <2>1. faults' \in 0..MaxFaults
    BY <1>1, <1>2, FaultType DEF Restart, EnvType
  <2>2. abandoned' \subseteq Nat
    <3>1. ASSUME NEW o \in Objects PROVE InFlight(o) \subseteq Nat
      <4>1. CASE pc[o] = "idle"
        BY <4>1 DEF InFlight
      <4>2. CASE pc[o] # "idle"
        BY <4>2, WorkingCopy DEF InFlight, DefaultedObject, DNSRecordStatus
      <4> QED BY <4>1, <4>2
    <3> QED BY <1>1, <1>2, <3>1 DEF Restart, EnvType
  <2>3. watch' \in [Objects -> Seq(DNSRecordObject \cup {Absent})]
    BY <1>2 DEF Restart
  <2> QED BY <1>1, <1>2, <2>1, <2>2, <2>3, EmptyStatusType, TypeSplit
             DEF Restart, EnvType, RunType, Steps, providerVars
<1>3. CASE \E d \in Rdata : Propagate(d)
  BY <1>1, <1>3, TypeSplit DEF Propagate, EnvType, RunType, runVars, providerVars
<1> QED BY <1>2, <1>3

\* Every step keeps the state well-typed.
LEMMA NextType == IInv /\ [Next]_vars => TypeOK'
<1> SUFFICES ASSUME IInv, [Next]_vars PROVE TypeOK'
  OBVIOUS
<1>1. CASE UNCHANGED vars
  BY <1>1 DEF IInv, TypeOK, vars
<1>2. CASE Restart \/ \E d \in Rdata : Propagate(d)
  BY <1>2, WorldType
<1>3. ASSUME NEW o \in Objects,
             \/ User(o) \/ Deliver(o) \/ Resync(o) \/ Requeue(o) \/ Start(o)
             \/ Reconcile(o)
      PROVE  TypeOK'
  BY <1>3, UserType, QueueType, StartType, ProviderType, EditZoneType,
     ApiType, LookupType DEF IInv, Reconcile
<1> QED BY <1>1, <1>2, <1>3 DEF Next

(***************************************************************************)
(* The inductive invariant holds initially.                                *)
(***************************************************************************)
\* The initial state satisfies the invariant.
LEMMA InitInv == Init => IInv
<1> SUFFICES ASSUME Init PROVE IInv
  OBVIOUS
<1>1. TypeOK
  BY InitType
<1>2. ZoneInv
  BY DeploymentAssumption DEF Init, ZoneInv
<1>3. VersionInv /\ CacheInv /\ RunInv
  BY DEF Init, VersionInv, Sound, Live, CacheInv, RunInv
<1>4. Accounted
  BY DEF Init, Accounted, Ours
<1> QED BY <1>1, <1>2, <1>3, <1>4 DEF IInv

(***************************************************************************)
(* What every step leaves true.                                            *)
(***************************************************************************)

\* IDs are only handed out, in order, and what was given up stays given up.
Evolves ==
  /\ nextId' \in Nat /\ nextId <= nextId'
  /\ \A e \in zone' : e \in zone \/ e.id = nextId
  /\ abandoned \subseteq abandoned'

\* The stored object is guarded by the finalizer.
Held(o) == store[o] # Absent /\ store[o].fin

\* Nothing happens to a reconcile of p, except that its copy may be outdated.
RunKept(p) ==
  /\ pc'[p] = pc[p] /\ rec'[p] = rec[p] /\ old'[p] = old[p]
  /\ cur'[p] => cur[p] /\ store'[p] = store[p] /\ watch'[p] = watch[p]
  /\ provider' = provider

\* Facts about an ID survive a step.
LEMMA IdStable ==
  ASSUME TypeOK, Evolves, NEW o, NEW id \in Nat,
         id < nextId, \A e \in zone : e.id = id => e.by = o
  PROVE  id < nextId' /\ \A e \in zone' : e.id = id => e.by = o
BY DEF Evolves, TypeOK

\* A record that was given up stays given up.
LEMMA GoneStable ==
  ASSUME TypeOK, Evolves, NEW id \in Nat, id < nextId,
         \A e \in zone : e.id = id => e.id \in abandoned
  PROVE  \A e \in zone' : e.id = id => e.id \in abandoned'
BY DEF Evolves, TypeOK

\* The reconcile of an object that a step leaves alone.
LEMMA RunStable ==
  ASSUME IInv, Evolves, NEW p \in Objects, RunKept(p), Held(p) => Held(p)'
  PROVE  (IF pc[p] = "idle" THEN ~cur[p] ELSE WorkInv(p))'
<1>1. CASE pc[p] = "idle"
  BY <1>1 DEF RunKept, IInv, RunInv, TypeOK
<1>2. CASE pc[p] # "idle"
  <2>1. WorkInv(p) /\ rec[p] \in DefaultedObject
    BY <1>2, WorkingCopy
  <2>2. TypeOK /\ old[p] \in DNSRecordStatus
    BY DEF IInv, TypeOK
  <2>3. rec[p].status.id \in Nat /\ old[p].id \in Nat
    BY <2>1, <2>2 DEF DefaultedObject, DNSRecordStatus
  <2>4. /\ OwnId(p, rec[p].status.id)'
        /\ OwnId(p, old[p].id)'
    <3>1. /\ OwnId(p, rec[p].status.id) /\ OwnId(p, old[p].id)
          /\ rec'[p] = rec[p] /\ old'[p] = old[p]
      BY <2>1 DEF WorkInv, RunKept
    <3>2. /\ rec[p].status.id < nextId'
          /\ \A e \in zone' : e.id = rec[p].status.id => e.by = p
      BY <2>2, <2>3, <3>1, IdStable DEF OwnId
    <3>3. old[p].id < nextId' /\ \A e \in zone' : e.id = old[p].id => e.by = p
      BY <2>2, <2>3, <3>1, IdStable DEF OwnId
    <3> QED BY <3>1, <3>2, <3>3 DEF OwnId
  <2>5. /\ Gone(rec[p].status.id) => Gone(rec[p].status.id)'
        /\ Gone(old[p].id) => Gone(old[p].id)'
    BY <2>1, <2>2, <2>3, GoneStable DEF WorkInv, OwnId, Gone, RunKept
  <2>6. (cur[p] => Current(p))' /\ Live(p, rec[p])'
    BY <2>1 DEF WorkInv, Current, Live, RunKept, Held
  <2>7. \A e \in zone' : e.id = rec[p].status.id => e \in zone
    BY <2>1, <2>2, <2>3 DEF Evolves, WorkInv, OwnId, TypeOK
  <2> QED BY <1>2, <2>1, <2>4, <2>5, <2>6, <2>7 DEF WorkInv, RunKept, UpToDate
<1> QED BY <1>1, <1>2

\* A version of o that a step does not touch.
LEMMA SoundStable ==
  ASSUME TypeOK, Evolves, NEW o \in Objects,
         NEW v \in DNSRecordObject \cup {Absent}, Sound(o, v)
  PROVE  /\ v # Absent =>
              /\ v.deleting => v.fin
              /\ v.status.id # 0 => v.fin
              /\ v.status.id < nextId'
              /\ \A e \in zone' : e.id = v.status.id => e.by = o
<1>1. v # Absent => v.status.id \in Nat
  BY DEF DNSRecordObject, DNSRecordStatus
<1> QED BY <1>1, IdStable DEF Sound, OwnId

\* Versions stay sound when no version changes.
LEMMA VersionsKept ==
  ASSUME IInv, Evolves, UNCHANGED <<store, watch, cache>>
  PROVE  VersionInv' /\ CacheInv'
<1>1. CacheInv'
  BY DEF IInv, CacheInv
<1>2. ASSUME NEW o \in Objects
      PROVE  /\ Sound(o, store[o])'
             /\ Sound(o, cache[o])' /\ Live(o, cache[o])'
             /\ \A i \in 1..Len(watch[o]) :
                  (Sound(o, watch[o][i]) /\ Live(o, watch[o][i]))'
  <2>1. Sound(o, store[o])'
    BY SoundStable DEF IInv, TypeOK, VersionInv, Sound, OwnId
  <2>2. Sound(o, cache[o])' /\ Live(o, cache[o])'
    BY SoundStable DEF IInv, TypeOK, VersionInv, Sound, OwnId, Live
  <2>3. ASSUME NEW i \in 1..Len(watch[o])
        PROVE  (Sound(o, watch[o][i]) /\ Live(o, watch[o][i]))'
    <3>1. watch[o][i] \in DNSRecordObject \cup {Absent}
      BY DEF IInv, TypeOK
    <3>2. Sound(o, watch[o][i]) /\ Live(o, watch[o][i])
      BY DEF IInv, VersionInv
    <3> QED BY <3>1, <3>2, SoundStable DEF IInv, Sound, OwnId, Live
  <2> QED BY <2>1, <2>2, <2>3
<1> QED BY <1>1, <1>2 DEF VersionInv

\* A write of a sound version that keeps the finalizer, or that removes a
\* guarded object of which only the deleted version is around.
LEMMA WriteVersions ==
  ASSUME IInv, Evolves, NEW o \in Objects,
         NEW v \in DNSRecordObject \cup {Absent}, Write(o, v), UNCHANGED cache,
         v # Absent =>
           /\ v.deleting => v.fin
           /\ v.status.id # 0 => v.fin
           /\ v.status.id < nextId'
           /\ \A e \in zone' : e.id = v.status.id => e.by = o,
         Held(o) => \/ v # Absent /\ v.fin
                    \/ watch[o] = <<>> /\ store[o].deleting
  PROVE  VersionInv' /\ CacheInv'
<1>1. TypeOK /\ VersionInv /\ CacheInv
  BY DEF IInv
<1>2. /\ store'[o] = v
      /\ watch'[o] = Append(watch[o], v)
      /\ \A p \in Objects \ {o} : store'[p] = store[p] /\ watch'[p] = watch[p]
  BY <1>1 DEF Write, TypeOK
<1>3. watch[o] \in Seq(DNSRecordObject \cup {Absent})
  BY <1>1 DEF TypeOK
<1>4. /\ Len(watch'[o]) = Len(watch[o]) + 1 /\ Len(watch[o]) \in Nat
      /\ watch'[o][Len(watch[o]) + 1] = v
      /\ \A i \in 1..Len(watch[o]) : watch'[o][i] = watch[o][i]
      /\ watch'[o] # <<>>
  BY <1>2, <1>3
<1>5. CacheInv'
  BY <1>1, <1>2, <1>4 DEF CacheInv
<1>6. Sound(o, v)' /\ Live(o, v)'
  BY <1>2 DEF Sound, OwnId, Live
<1>7. ASSUME NEW w \in DNSRecordObject \cup {Absent}, Sound(o, w), Live(o, w),
             w = cache[o] \/ \E i \in 1..Len(watch[o]) : w = watch[o][i]
      PROVE  Sound(o, w)' /\ Live(o, w)'
  <2>1. Sound(o, w)'
    BY <1>1, <1>7, SoundStable DEF Sound, OwnId
  <2>2. CASE Held(o) => v # Absent /\ v.fin
    BY <1>2, <1>7, <2>1, <2>2 DEF Live, Held
  <2>3. CASE watch[o] = <<>> /\ store[o].deleting
    <3>1. w = cache[o] /\ cache[o] = store[o]
      BY <1>1, <1>7, <2>3 DEF CacheInv
    <3> QED BY <2>1, <2>3, <3>1 DEF Live
  <2> QED BY <2>1, <2>2, <2>3
<1>8. ASSUME NEW p \in Objects
      PROVE  /\ Sound(p, store[p])'
             /\ Sound(p, cache[p])' /\ Live(p, cache[p])'
             /\ \A i \in 1..Len(watch'[p]) :
                  Sound(p, watch[p][i])' /\ Live(p, watch[p][i])'
  <2>1. CASE p = o
    <3>1. cache[o] \in DNSRecordObject \cup {Absent}
      BY <1>1 DEF TypeOK
    <3>2. Sound(o, cache[o])' /\ Live(o, cache[o])'
      BY <1>1, <1>7, <3>1 DEF VersionInv, Sound, Live, OwnId
    <3>3. Sound(o, store[o])'
      BY <1>2, <1>6 DEF Sound, OwnId
    <3>4. ASSUME NEW i \in 1..Len(watch'[o])
          PROVE  Sound(o, watch[o][i])' /\ Live(o, watch[o][i])'
      <4>1. CASE i = Len(watch[o]) + 1
        BY <1>4, <1>6, <4>1 DEF Sound, Live, OwnId
      <4>2. CASE i \in 1..Len(watch[o])
        <5>1. watch[o][i] \in DNSRecordObject \cup {Absent}
          BY <1>3, <4>2
        <5>2. Sound(o, watch[o][i]) /\ Live(o, watch[o][i])
          BY <1>1, <4>2 DEF VersionInv
        <5>3. watch'[o][i] = watch[o][i]
          BY <1>4, <4>2
        <5> QED BY <1>7, <4>2, <5>1, <5>2, <5>3 DEF Sound, Live, OwnId
      <4> QED BY <1>4, <4>1, <4>2
    <3> QED BY <2>1, <3>2, <3>3, <3>4
  <2>2. CASE p # o
    <3>1. store'[p] = store[p] /\ watch'[p] = watch[p]
      BY <1>2, <2>2
    <3>a. Sound(p, store[p])'
      BY <1>1, <3>1, SoundStable DEF TypeOK, VersionInv, Sound, OwnId
    <3>b. Sound(p, cache[p])'
      BY <1>1, <3>1, SoundStable DEF TypeOK, VersionInv, Sound, OwnId
    <3>2. Sound(p, store[p])' /\ Sound(p, cache[p])' /\ Live(p, cache[p])'
      BY <1>1, <3>1, <3>a, <3>b DEF VersionInv, Live
    <3>3. ASSUME NEW i \in 1..Len(watch'[p])
          PROVE  Sound(p, watch[p][i])' /\ Live(p, watch[p][i])'
      <4>1. watch[p][i] \in DNSRecordObject \cup {Absent}
        BY <1>1, <3>1 DEF TypeOK
      <4>2. Sound(p, watch[p][i]) /\ Live(p, watch[p][i])
        BY <1>1, <3>1 DEF VersionInv
      <4> QED BY <1>1, <3>1, <4>1, <4>2, SoundStable DEF Sound, OwnId, Live
    <3> QED BY <3>2, <3>3
  <2> QED BY <2>1, <2>2
<1> QED BY <1>5, <1>8 DEF VersionInv

(***************************************************************************)
(* Steps of users, informer and queue.                                     *)
(***************************************************************************)

\* A step that leaves the providers alone.
LEMMA Quiet ==
  ASSUME IInv, UNCHANGED <<zone, nextId>>, abandoned \subseteq abandoned'
  PROVE  Evolves /\ ZoneInv'
BY DEF IInv, TypeOK, Evolves, ZoneInv

\* Records stay accounted for when no reconcile moves and no status changes.
LEMMA AccountedKept ==
  ASSUME IInv, UNCHANGED <<zone, pc, rec, old>>, abandoned \subseteq abandoned',
         \A o \in Objects, e \in zone :
           store[o] # Absent /\ store[o].status.id = e.id =>
             store'[o] # Absent /\ store'[o].status.id = e.id
  PROVE  Accounted'
BY NoneAssumption DEF IInv, TypeOK, Accounted, Ours, Tracked, InFlight, ProviderRecord

\* Writes by users preserve the invariant.
LEMMA UserInv ==
  ASSUME IInv, TypeOK', NEW o \in Objects, User(o)
  PROVE  IInv'
<1>1. TypeOK /\ VersionInv
  BY DEF IInv
<1>a. store[o] \in DNSRecordObject \cup {Absent}
  BY <1>1 DEF TypeOK
<1>2. PICK v \in DNSRecordObject \cup {Absent} :
        /\ UserWrite(o, v)
        /\ Held(o) => v # Absent /\ v.fin
        /\ v # Absent =>
             IF store[o] = Absent
             THEN ~v.deleting /\ v.status.id = 0
             ELSE /\ v.status.id = store[o].status.id
                  /\ v.fin = store[o].fin
                  /\ v.deleting => store[o].deleting \/ store[o].fin
        /\ v = Absent => store[o] # Absent /\ ~store[o].fin
  <2>1. CASE \E spec \in Specs : Create(o, spec)
    <3>1. PICK spec \in Specs : Create(o, spec)
      BY <2>1
    <3> DEFINE v == [spec |-> spec, deleting |-> FALSE, fin |-> FALSE,
                     status |-> EmptyStatus]
    <3>2. v \in DNSRecordObject /\ v # Absent
      <4>1. spec \in DNSRecordSpec
        BY DeploymentAssumption
      <4>2. v \in DNSRecordObject
        BY <4>1, EmptyStatusType DEF DNSRecordObject
      <4> QED BY <4>2, ObjectsAssumption
    <3> QED BY <3>1, <3>2 DEF Create, Held, EmptyStatus
  <2>2. CASE \E spec \in Specs : EditSpec(o, spec)
    <3>1. PICK spec \in Specs : EditSpec(o, spec)
      BY <2>2
    <3>2. [store[o] EXCEPT !.spec = spec] \in DNSRecordObject
      BY <1>a, <3>1, DeploymentAssumption DEF EditSpec, DNSRecordObject
    <3> QED BY <1>a, <3>1, <3>2, ObjectsAssumption
               DEF EditSpec, DNSRecordObject, Held
  <2>3. CASE Activate(o)
    <3>1. [store[o] EXCEPT !.spec.active = TRUE] \in DNSRecordObject
      BY <1>a, <2>3 DEF Activate, DNSRecordObject, DNSRecordSpec
    <3> QED BY <1>a, <2>3, <3>1, ObjectsAssumption
               DEF Activate, DNSRecordObject, Held
  <2>4. CASE Deactivate(o)
    <3>1. [store[o] EXCEPT !.spec.active = FALSE] \in DNSRecordObject
      BY <1>a, <2>4 DEF Deactivate, DNSRecordObject, DNSRecordSpec
    <3> QED BY <1>a, <2>4, <3>1, ObjectsAssumption
               DEF Deactivate, DNSRecordObject, Held
  <2>5. CASE DeleteObject(o)
    <3>1. CASE store[o].fin
      <4>1. [store[o] EXCEPT !.deleting = TRUE] \in DNSRecordObject
        BY <1>a, <2>5 DEF DeleteObject, DNSRecordObject
      <4> QED BY <1>a, <2>5, <3>1, <4>1, ObjectsAssumption
                 DEF DeleteObject, DNSRecordObject, Held
    <3>2. CASE ~store[o].fin
      BY <1>a, <2>5, <3>2 DEF DeleteObject, Held
    <3> QED BY <3>1, <3>2
  <2> QED BY <2>1, <2>2, <2>3, <2>4, <2>5 DEF User
<1>3. /\ Write(o, v)
      /\ UNCHANGED <<cache, pc, rec, old, provider, zone, nextId, abandoned>>
      /\ cur' = [cur EXCEPT ![o] = FALSE]
  BY <1>2 DEF UserWrite
<1>4. Evolves /\ ZoneInv'
  BY <1>3, Quiet
<1>5. VersionInv' /\ CacheInv'
  <2>1. Sound(o, store[o])
    BY <1>1 DEF VersionInv
  <2>2. v # Absent =>
          /\ v.deleting => v.fin
          /\ v.status.id # 0 => v.fin
          /\ v.status.id < nextId'
          /\ \A e \in zone' : e.id = v.status.id => e.by = o
    <3>1. 0 < nextId /\ \A e \in zone : e.id # 0
      BY <1>1 DEF TypeOK, ProviderRecord
    <3> QED BY <1>2, <1>3, <2>1, <3>1 DEF Sound, OwnId
  <2> QED BY <1>2, <1>3, <1>4, <2>2, WriteVersions
<1>6. /\ store'[o] = v
      /\ \A p \in Objects \ {o} : store'[p] = store[p] /\ watch'[p] = watch[p]
  BY <1>1, <1>3 DEF Write, TypeOK
<1>7. RunInv'
  <2>1. ASSUME NEW p \in Objects PROVE (IF pc[p] = "idle" THEN ~cur[p] ELSE WorkInv(p))'
    <3>1. RunKept(p) /\ (Held(p) => Held(p)')
      BY <1>1, <1>2, <1>3, <1>6 DEF RunKept, Held, TypeOK
    <3> QED BY <1>4, <3>1, RunStable
  <2> QED BY <2>1 DEF RunInv
<1>8. Accounted'
  <2>1. ASSUME NEW p \in Objects, NEW e \in zone,
               store[p] # Absent, store[p].status.id = e.id
        PROVE  store'[p] # Absent /\ store'[p].status.id = e.id
    <3>1. e.id # 0
      BY <1>1 DEF TypeOK, ProviderRecord
    <3>2. store[p].fin
      BY <1>1, <2>1, <3>1 DEF VersionInv, Sound
    <3> QED BY <1>2, <1>6, <2>1, <3>2 DEF Held
  <2> QED BY <1>3, <2>1, AccountedKept
<1> QED BY <1>4, <1>5, <1>7, <1>8 DEF IInv

\* Delivery of a version to the cache preserves the invariant.
LEMMA DeliverInv ==
  ASSUME IInv, TypeOK', NEW o \in Objects, Deliver(o)
  PROVE  IInv'
<1>1. TypeOK /\ VersionInv /\ CacheInv
  BY DEF IInv
<1>2. Evolves /\ ZoneInv'
  BY Quiet DEF Deliver, providerVars
<1>3. watch[o] \in Seq(DNSRecordObject \cup {Absent}) /\ watch[o] # <<>>
  BY <1>1 DEF Deliver, TypeOK
<1>4. /\ cache'[o] = watch[o][1]
      /\ watch'[o] = Tail(watch[o])
      /\ \A p \in Objects \ {o} : cache'[p] = cache[p] /\ watch'[p] = watch[p]
      /\ UNCHANGED store
  BY <1>1, <1>3 DEF Deliver, TypeOK
<1>5. /\ Len(watch[o]) \in Nat \ {0}
      /\ Len(watch'[o]) = Len(watch[o]) - 1
      /\ \A i \in 1..Len(watch'[o]) : watch'[o][i] = watch[o][i + 1]
      /\ watch'[o] = <<>> <=> Len(watch[o]) = 1
  <2> DEFINE S == DNSRecordObject \cup {Absent}
  <2> HIDE DEF S
  <2>1. watch[o] \in Seq(S)
    BY <1>3 DEF S
  <2>2. /\ Tail(watch[o]) \in Seq(S)
        /\ Len(Tail(watch[o])) = Len(watch[o]) - 1
        /\ \A i \in 1..Len(Tail(watch[o])) : Tail(watch[o])[i] = watch[o][i + 1]
    BY <1>3, <2>1, HeadTailProperties
  <2>3. /\ Len(watch[o]) \in Nat \ {0}
        /\ Tail(watch[o]) = <<>> <=> Len(Tail(watch[o])) = 0
    BY <1>3, <2>1, <2>2, EmptySeq
  <2> QED BY <1>4, <2>2, <2>3
<1>6. CacheInv'
  <2>1. watch[o][Len(watch[o])] = store[o]
    BY <1>1, <1>3 DEF CacheInv
  <2>2. IF watch'[o] = <<>> THEN cache'[o] = store'[o]
                            ELSE watch'[o][Len(watch'[o])] = store'[o]
    BY <1>4, <1>5, <2>1
  <2> QED BY <1>1, <1>4, <2>2 DEF CacheInv
<1>7. ASSUME NEW p \in Objects, NEW w \in DNSRecordObject \cup {Absent},
             Sound(p, w)
      PROVE  Sound(p, w)' /\ (Live(p, w) => Live(p, w)')
  BY <1>1, <1>2, <1>4, <1>7, SoundStable DEF Sound, OwnId, Live
<1>8. ASSUME NEW p \in Objects
      PROVE  /\ Sound(p, store[p])'
             /\ Sound(p, cache[p])' /\ Live(p, cache[p])'
             /\ \A i \in 1..Len(watch'[p]) :
                  Sound(p, watch[p][i])' /\ Live(p, watch[p][i])'
  <2>1. Sound(p, store[p])'
    BY <1>1, <1>4, <1>7 DEF TypeOK, VersionInv, Sound, OwnId
  <2>2. ASSUME NEW i \in 1..Len(watch[p])
        PROVE  (Sound(p, watch[p][i]) /\ Live(p, watch[p][i]))
                 /\ watch[p][i] \in DNSRecordObject \cup {Absent}
    BY <1>1 DEF TypeOK, VersionInv
  <2>3. CASE p = o
    <3>1. Sound(o, cache[o])' /\ Live(o, cache[o])'
      BY <1>4, <1>5, <1>7, <2>2, <2>3 DEF Sound, Live, OwnId
    <3>2. ASSUME NEW i \in 1..Len(watch'[o])
          PROVE  Sound(o, watch[o][i])' /\ Live(o, watch[o][i])'
      <4>1. i + 1 \in 1..Len(watch[o]) /\ watch'[o][i] = watch[o][i + 1]
        BY <1>5
      <4> QED BY <1>7, <2>2, <2>3, <4>1 DEF Sound, Live, OwnId
    <3> QED BY <2>1, <2>3, <3>1, <3>2
  <2>4. CASE p # o
    <3>1. cache[p] \in DNSRecordObject \cup {Absent} /\ Sound(p, cache[p]) /\ Live(p, cache[p])
      BY <1>1 DEF TypeOK, VersionInv
    <3>2. Sound(p, cache[p])' /\ Live(p, cache[p])'
      BY <1>4, <1>7, <2>4, <3>1 DEF Sound, Live, OwnId
    <3>3. ASSUME NEW i \in 1..Len(watch'[p])
          PROVE  Sound(p, watch[p][i])' /\ Live(p, watch[p][i])'
      <4>1. i \in 1..Len(watch[p]) /\ watch'[p][i] = watch[p][i]
        BY <1>4, <2>4
      <4> QED BY <1>7, <2>2, <4>1 DEF Sound, Live, OwnId
    <3> QED BY <2>1, <3>2, <3>3
  <2> QED BY <2>3, <2>4
<1>9. RunInv'
  <2>1. ASSUME NEW p \in Objects PROVE (IF pc[p] = "idle" THEN ~cur[p] ELSE WorkInv(p))'
    <3>1. cur[p] => watch[p] = <<>>
      BY DEF IInv, RunInv, WorkInv, Current
    <3>2. RunKept(p) /\ (Held(p) => Held(p)')
      BY <1>3, <1>4, <3>1 DEF Deliver, RunKept, Held, runVars
    <3> QED BY <1>2, <3>2, RunStable
  <2> QED BY <2>1 DEF RunInv
<1>10. Accounted'
  BY AccountedKept DEF Deliver, runVars, providerVars
<1> QED BY <1>2, <1>6, <1>8, <1>9, <1>10 DEF IInv, VersionInv

\* Steps that touch neither API server, informer, provider nor reconciles.
LEMMA IdleInv ==
  ASSUME IInv, TypeOK',
         UNCHANGED <<store, watch, cache, pc, rec, old, cur, provider, zone,
                     nextId, abandoned>>
  PROVE  IInv'
<1>1. Evolves /\ ZoneInv'
  BY Quiet
<1>2. VersionInv' /\ CacheInv'
  BY <1>1, VersionsKept
<1>3. RunInv'
  BY <1>1, RunStable DEF RunInv, RunKept, Held
<1>4. Accounted'
  BY AccountedKept
<1> QED BY <1>1, <1>2, <1>3, <1>4 DEF IInv

(***************************************************************************)
(* Steps of a reconcile.                                                   *)
(***************************************************************************)

\* A step of the reconcile of o leaves the other reconciles alone.
OnlyRun(o) ==
  /\ provider' = provider
  /\ \A p \in Objects \ {o} :
       /\ pc'[p] = pc[p] /\ rec'[p] = rec[p] /\ old'[p] = old[p]
       /\ cur'[p] = cur[p] /\ store'[p] = store[p] /\ watch'[p] = watch[p]

\* A step of one reconcile leaves the others as they were.
LEMMA OnlyRunInv ==
  ASSUME IInv, Evolves, NEW o \in Objects, OnlyRun(o),
         (IF pc[o] = "idle" THEN ~cur[o] ELSE WorkInv(o))'
  PROVE  RunInv'
<1>1. ASSUME NEW p \in Objects \ {o}
      PROVE  (IF pc[p] = "idle" THEN ~cur[p] ELSE WorkInv(p))'
  <2>1. RunKept(p) /\ (Held(p) => Held(p)')
    BY DEF OnlyRun, RunKept, Held
  <2> QED BY <2>1, RunStable
<1> QED BY <1>1 DEF RunInv

\* A reconcile that returns leaves the run invariant intact.
LEMMA ReturnRun ==
  ASSUME IInv, Evolves, NEW o \in Objects, NEW again \in BOOLEAN,
         Return(o, again), provider' = provider,
         \A p \in Objects \ {o} : store'[p] = store[p] /\ watch'[p] = watch[p]
  PROVE  RunInv'
<1>1. OnlyRun(o) /\ pc'[o] = "idle" /\ ~cur'[o]
  BY DEF Return, OnlyRun, IInv, TypeOK
<1> QED BY <1>1, OnlyRunInv

\* A reconcile goes on, given what has to hold at the next call.
LEMMA GotoRun ==
  ASSUME IInv, Evolves, NEW o \in Objects, NEW r \in DefaultedObject,
         NEW step \in Steps \ {"idle", "setFinalizer"}, Goto(o, r, step),
         UNCHANGED <<provider, store, watch>>, pc[o] # "idle", rec[o].fin,
         r.deleting = rec[o].deleting, r.fin = rec[o].fin,
         r.status.id < nextId',
         \A e \in zone' : e.id = r.status.id => e.by = o,
         step # "updateStatus" => r.status.id = old[o].id,
         step \in {"deleteRecord", "replaceRecord", "appendRecord"} =>
           provider # Coredns,
         step \in {"deleteRecord", "replaceRecord"} =>
           \A e \in zone' : e.id = r.status.id => e.prov = provider,
         step = "deleteRecord" => r.deleting \/ ~r.spec.active,
         step = "replaceRecord" =>
           /\ ~r.deleting
           /\ \A e \in zone' : e.id = r.status.id =>
                ~(e.data = r.spec.data /\ e.ttl = r.spec.ttl),
         step = "appendRecord" =>
           /\ ~r.deleting
           /\ \A e \in zone' : e.id = r.status.id => e.id \in abandoned',
         step = "updateStatus" /\ r.status.id # old[o].id =>
           /\ r.status.id # 0 => ~r.deleting
           /\ \A e \in zone' : e.id = old[o].id => e.id \in abandoned',
         step = "removeFinalizer" =>
           r.deleting /\ (provider # Coredns => old[o].id = 0)
  PROVE  RunInv'
<1>1. WorkInv(o) /\ TypeOK
  BY WorkingCopy DEF IInv
<1>2. /\ pc'[o] = step /\ rec'[o] = r /\ old'[o] = old[o] /\ cur'[o] = cur[o]
      /\ OnlyRun(o)
  BY <1>1 DEF Goto, OnlyRun, TypeOK
<1>3. old[o].id \in Nat
  BY <1>1 DEF TypeOK, DNSRecordStatus
<1>4. OwnId(o, old[o].id)'
  BY <1>1, <1>2, <1>3, IdStable DEF WorkInv, OwnId
<1>5. (cur[o] => Current(o))' /\ Live(o, rec[o])' /\ rec'[o] # Absent
  BY <1>1, <1>2, DefaultedIsObject DEF WorkInv, Current, Live
<1>6. WorkInv(o)'
  BY <1>1, <1>2, <1>4, <1>5 DEF WorkInv, OwnId, Gone, UpToDate
<1> QED BY <1>2, <1>6, OnlyRunInv

\* What follows Provider.Reconcile satisfies the run invariant.
LEMMA ProceedRun ==
  ASSUME IInv, Evolves, NEW o \in Objects, NEW r \in DefaultedObject,
         Proceed(o, r), UNCHANGED <<provider, store, watch>>,
         pc[o] # "idle", rec[o].fin,
         r.deleting = rec[o].deleting, r.fin = rec[o].fin,
         r.status.id < nextId',
         \A e \in zone' : e.id = r.status.id => e.by = o,
         r.status.id # old[o].id =>
           /\ r.status.id # 0 => ~r.deleting
           /\ \A e \in zone' : e.id = old[o].id => e.id \in abandoned',
         r.deleting /\ r.status.id = old[o].id /\ provider # Coredns =>
           old[o].id = 0
  PROVE  RunInv'
<1> DEFINE moved == \/ r.status.provider # old[o].provider
                    \/ r.status.id # old[o].id
           r2 == [r EXCEPT !.status.record = ToRR(r.spec)]
<1>1. /\ r2 \in DefaultedObject
      /\ r2.status.id = r.status.id /\ r2.deleting = r.deleting /\ r2.fin = r.fin
  BY StatusType DEF DefaultedObject, DNSRecordStatus
<1>2. CASE r.deleting /\ Goto(o, r, "updateStatus")
  BY <1>2, GotoRun DEF Steps
<1>3. CASE r.deleting /\ ~moved /\ Goto(o, r, "removeFinalizer")
  BY <1>3, GotoRun DEF Steps
<1>4. CASE Goto(o, r2, "updateStatus")
  <2> HIDE DEF r2
  <2>1. /\ r2 \in DefaultedObject
        /\ r2.deleting = rec[o].deleting /\ r2.fin = rec[o].fin
        /\ r2.status.id < nextId'
        /\ \A e \in zone' : e.id = r2.status.id => e.by = o
        /\ r2.status.id # old[o].id =>
             /\ r2.status.id # 0 => ~r2.deleting
             /\ \A e \in zone' : e.id = old[o].id => e.id \in abandoned'
    BY <1>1
  <2> QED BY <1>4, <2>1, GotoRun DEF Steps
<1>5. CASE ~moved /\ Goto(o, r, "lookup")
  BY <1>5, GotoRun DEF Steps
<1> QED BY <1>2, <1>3, <1>4, <1>5 DEF Proceed

\* Records stay accounted for while a reconcile that has nothing in flight
\* calls the provider.
LEMMA AccountedWork ==
  ASSUME IInv, NEW o \in Objects, OnlyRun(o), UNCHANGED store,
         pc[o] # "updateStatus", abandoned \subseteq abandoned',
         \A e \in zone' :
           \/ e \in zone
           \/ e.by = o /\ (e.id \in InFlight(o)' \/ e.id \in abandoned')
  PROVE  Accounted'
<1> SUFFICES ASSUME NEW e \in zone', e.by # None
             PROVE  \/ Tracked(e)' \/ e.id \in InFlight(e.by)'
                    \/ e.id \in abandoned'
  BY DEF Accounted, Ours
<1>1. CASE e \in zone
  <2>1. e.by \in Objects
    BY <1>1 DEF IInv, TypeOK, ProviderRecord
  <2>2. Tracked(e) \/ e.id \in InFlight(e.by) \/ e.id \in abandoned
    BY <1>1 DEF IInv, Accounted, Ours
  <2>3. CASE e.by = o
    BY <2>2, <2>3 DEF InFlight, Tracked
  <2>4. CASE e.by # o
    BY <2>1, <2>2, <2>4 DEF InFlight, Tracked, OnlyRun
  <2> QED BY <2>3, <2>4
<1>2. CASE e \notin zone
  BY <1>2
<1> QED BY <1>1, <1>2

\* The start of a reconcile preserves the invariant.
LEMMA StartInv ==
  ASSUME IInv, TypeOK', NEW o \in Objects, Start(o)
  PROVE  IInv'
<1>1. CASE NotFound(o) \/ ParseError(o)
  BY <1>1, IdleInv DEF NotFound, ParseError, Take, runVars, providerVars
<1>2. CASE Begin(o)
  <2>1. /\ UNCHANGED <<store, watch, cache, provider, zone, nextId, abandoned>>
        /\ TypeOK /\ VersionInv /\ CacheInv
    BY <1>2 DEF Begin, Take, providerVars, IInv
  <2>2. Evolves /\ ZoneInv'
    BY <2>1, Quiet
  <2>3. VersionInv' /\ CacheInv'
    BY <2>1, <2>2, VersionsKept
  <2>4. OnlyRun(o)
    BY <1>2, <2>1 DEF Begin, OnlyRun, TypeOK
  <2>5. WorkInv(o)'
    <3>1. cache[o] \in DNSRecordObject /\ cache[o] # Absent
      BY <1>2, <2>1 DEF Begin, TypeOK
    <3> DEFINE r == [cache[o] EXCEPT !.spec = Default(cache[o].spec)]
    <3>2. /\ rec'[o] = r /\ old'[o] = cache[o].status
          /\ cur'[o] = (watch[o] = <<>>)
          /\ pc'[o] = IF ~cache[o].deleting /\ ~cache[o].fin
                      THEN "setFinalizer" ELSE "provider"
      BY <1>2, <2>1 DEF Begin, TypeOK
    <3>3. /\ r.status = cache[o].status
          /\ r.deleting = cache[o].deleting /\ r.fin = cache[o].fin
          /\ r.deleting \in BOOLEAN /\ r.fin \in BOOLEAN
      BY <3>1 DEF DNSRecordObject
    <3>4. rec'[o] # Absent
      <4>1. rec'[o] \in DefaultedObject
        BY <3>1, <3>2, DefaultType DEF DNSRecordObject, DefaultedObject
      <4> QED BY <4>1, DefaultedIsObject
    <3> HIDE DEF r
    <3>5. Sound(o, cache[o]) /\ Live(o, cache[o])
      BY <2>1 DEF VersionInv
    <3>6. OwnId(o, rec[o].status.id)' /\ OwnId(o, old[o].id)'
      BY <2>1, <3>1, <3>2, <3>3, <3>5 DEF Sound, OwnId
    <3>7. (cur[o] => Current(o))'
      BY <2>1, <3>1, <3>2, <3>3 DEF CacheInv, Current
    <3>8. Live(o, rec[o])'
      BY <2>1, <3>1, <3>2, <3>3, <3>5 DEF Live
    <3>9. (IF pc[o] = "setFinalizer" THEN ~rec[o].deleting ELSE rec[o].fin)'
      BY <3>1, <3>2, <3>3, <3>5 DEF Sound
    <3> QED BY <3>2, <3>3, <3>4, <3>6, <3>7, <3>8, <3>9 DEF WorkInv
  <2>6. pc'[o] # "idle" /\ pc[o] = "idle"
    BY <1>2, <2>1 DEF Begin, Take, TypeOK
  <2>7. RunInv'
    BY <2>2, <2>4, <2>5, <2>6, OnlyRunInv
  <2>8. Accounted'
    BY <2>1, <2>4, <2>6, AccountedWork
  <2> QED BY <2>2, <2>3, <2>7, <2>8 DEF IInv
<1> QED BY <1>1, <1>2 DEF Start

\* A reconcile ends without having touched API server or provider, and with
\* nothing in flight.
LEMMA ReturnInv ==
  ASSUME IInv, TypeOK', NEW o \in Objects, NEW again \in BOOLEAN,
         Return(o, again), pc[o] # "updateStatus",
         UNCHANGED <<store, watch, cache, provider, zone, nextId, abandoned>>
  PROVE  IInv'
<1>1. Evolves /\ ZoneInv'
  BY Quiet
<1>2. VersionInv' /\ CacheInv'
  BY <1>1, VersionsKept
<1>3. RunInv'
  BY <1>1, ReturnRun
<1>4. OnlyRun(o)
  BY DEF Return, OnlyRun, IInv, TypeOK
<1>5. Accounted'
  BY <1>4, AccountedWork
<1> QED BY <1>1, <1>2, <1>3, <1>5 DEF IInv

\* Goto and Proceed leave the other reconciles alone.
LEMMA GotoOnly ==
  ASSUME TypeOK, NEW o \in Objects, NEW r, NEW step,
         Goto(o, r, step) \/ Proceed(o, r),
         UNCHANGED <<store, watch, provider>>
  PROVE  OnlyRun(o)
BY DEF Goto, Proceed, OnlyRun, TypeOK

\* Forget drops ID and provider and nothing else.
LEMMA ForgetFacts ==
  ASSUME NEW r \in DefaultedObject
  PROVE  /\ Forget(r) \in DefaultedObject
         /\ Forget(r).status.id = 0
         /\ Forget(r).deleting = r.deleting /\ Forget(r).fin = r.fin
         /\ Forget(r).spec = r.spec
BY StatusType DEF Forget, DefaultedObject, DNSRecordStatus

\* The comparison of a working copy with a listing.
LEMMA CompareInv ==
  ASSUME IInv, TypeOK', NEW o \in Objects, NEW recs \in SUBSET zone,
         pc[o] = "provider", provider # Coredns,
         \A e \in recs : e.prov = provider,
         Compare(o, recs),
         UNCHANGED <<store, watch, cache, provider, zone, nextId>>
  PROVE  IInv'
<1> DEFINE r == rec[o]
<1>1. WorkInv(o) /\ r \in DefaultedObject /\ TypeOK /\ ZoneInv
  BY WorkingCopy DEF IInv
<1>2. abandoned \subseteq abandoned'
  BY DEF Compare
<1>3. Evolves /\ ZoneInv'
  BY <1>2, Quiet
<1>4. VersionInv' /\ CacheInv'
  BY <1>3, VersionsKept
<1>5. /\ r.fin /\ r.status.id = old[o].id /\ r.status.id \in Nat
      /\ r.status.id < nextId' /\ \A e \in zone' : e.id = r.status.id => e.by = o
      /\ 0 < nextId' /\ \A e \in zone' : e.id # 0
  BY <1>1 DEF WorkInv, OwnId, DefaultedObject, DNSRecordStatus, TypeOK, ProviderRecord
<1>6. Mine(o, recs) = {} =>
        \A e \in zone : e.id = r.status.id => e.id \in Unlisted(o, recs)
  BY DEF Mine, Unlisted
<1>7. Mine(o, recs) # {} =>
        \A e \in zone : e.id = r.status.id => e \in Mine(o, recs) /\ e.prov = provider
  BY <1>1 DEF Mine, ZoneInv
<1>8. CASE Return(o, TRUE) /\ UNCHANGED abandoned
  BY <1>8, ReturnInv
<1>9. CASE ~(Return(o, TRUE) /\ UNCHANGED abandoned)
  <2>1. CASE Mine(o, recs) = {} /\ (r.deleting \/ ~r.spec.active)
    <3>1. /\ Proceed(o, Forget(r))
          /\ abandoned' = abandoned \cup Unlisted(o, recs)
      BY <2>1 DEF Compare
    <3>2. RunInv'
      BY <1>1, <1>3, <1>5, <1>6, <2>1, <3>1, ForgetFacts, ProceedRun
    <3>3. OnlyRun(o)
      BY <1>1, <3>1, GotoOnly
    <3>4. Accounted'
      BY <1>2, <3>3, AccountedWork
    <3> QED BY <1>3, <1>4, <3>2, <3>4 DEF IInv
  <2>2. CASE Mine(o, recs) = {} /\ ~(r.deleting \/ ~r.spec.active)
    <3>1. /\ Goto(o, r, "appendRecord")
          /\ abandoned' = abandoned \cup Unlisted(o, recs)
      BY <1>9, <2>2 DEF Compare
    <3>2. RunInv'
      BY <1>1, <1>3, <1>5, <1>6, <2>2, <3>1, GotoRun DEF Steps
    <3>3. OnlyRun(o)
      BY <1>1, <3>1, GotoOnly
    <3>4. Accounted'
      BY <1>2, <3>3, AccountedWork
    <3> QED BY <1>3, <1>4, <3>2, <3>4 DEF IInv
  <2>3. CASE Mine(o, recs) # {} /\ (r.deleting \/ ~r.spec.active)
    <3>1. Goto(o, r, "deleteRecord")
      BY <2>3 DEF Compare
    <3>2. RunInv'
      BY <1>1, <1>3, <1>5, <1>7, <2>3, <3>1, GotoRun DEF Steps
    <3>3. OnlyRun(o)
      BY <1>1, <3>1, GotoOnly
    <3>4. Accounted'
      BY <1>2, <3>3, AccountedWork
    <3> QED BY <1>3, <1>4, <3>2, <3>4 DEF IInv
  <2>4. CASE /\ Mine(o, recs) # {} /\ ~(r.deleting \/ ~r.spec.active)
             /\ \E e \in Mine(o, recs) : UpToDate(o, e)
    <3>1. Proceed(o, r)
      BY <2>4 DEF Compare
    <3>2. RunInv'
      BY <1>1, <1>3, <1>5, <2>4, <3>1, ProceedRun
    <3>3. OnlyRun(o)
      BY <1>1, <3>1, GotoOnly
    <3>4. Accounted'
      BY <1>2, <3>3, AccountedWork
    <3> QED BY <1>3, <1>4, <3>2, <3>4 DEF IInv
  <2>5. CASE /\ Mine(o, recs) # {} /\ ~(r.deleting \/ ~r.spec.active)
             /\ ~\E e \in Mine(o, recs) : UpToDate(o, e)
    <3>1. Goto(o, r, "replaceRecord")
      BY <2>5 DEF Compare
    <3>2. \A e \in zone' : e.id = r.status.id =>
            ~(e.data = r.spec.data /\ e.ttl = r.spec.ttl)
      BY <1>7, <2>5 DEF UpToDate
    <3>3. RunInv'
      BY <1>1, <1>3, <1>5, <1>7, <2>5, <3>1, <3>2, GotoRun DEF Steps
    <3>4. OnlyRun(o)
      BY <1>1, <3>1, GotoOnly
    <3>5. Accounted'
      BY <1>2, <3>4, AccountedWork
    <3> QED BY <1>3, <1>4, <3>3, <3>5 DEF IInv
  <2> QED BY <2>1, <2>2, <2>3, <2>4, <2>5
<1> QED BY <1>8, <1>9

\* Provider.Reconcile up to its first write preserves the invariant.
LEMMA ProviderInv ==
  ASSUME IInv, TypeOK', NEW o \in Objects,
         \/ NoopReconcile(o) \/ SkipForeign(o) \/ NoDomain(o)
         \/ GetRecords(o) \/ GetRecordsEmpty(o) \/ GetRecordsError(o)
  PROVE  IInv'
<1>1. pc[o] = "provider"
  BY DEF NoopReconcile, SkipForeign, NoDomain, GetRecords, GetRecordsEmpty,
         GetRecordsError, AtGetRecords
<1>2. CASE NoopReconcile(o)
  <2>1. /\ Proceed(o, rec[o]) /\ provider = Coredns
        /\ UNCHANGED <<store, watch, cache, provider, zone, nextId, abandoned>>
    BY <1>2 DEF NoopReconcile, providerVars
  <2>2. WorkInv(o) /\ rec[o] \in DefaultedObject /\ TypeOK
    BY <1>1, WorkingCopy DEF IInv
  <2>3. Evolves /\ ZoneInv'
    BY <2>1, Quiet
  <2>4. VersionInv' /\ CacheInv'
    BY <2>1, <2>3, VersionsKept
  <2>5. RunInv'
    BY <1>1, <2>1, <2>2, <2>3, ProceedRun DEF WorkInv, OwnId
  <2>6. OnlyRun(o)
    BY <2>1, <2>2, GotoOnly
  <2>7. Accounted'
    BY <1>1, <2>1, <2>6, AccountedWork
  <2> QED BY <2>3, <2>4, <2>5, <2>7 DEF IInv
<1>3. CASE SkipForeign(o) \/ NoDomain(o)
  BY <1>1, <1>3, ReturnInv DEF SkipForeign, NoDomain, providerVars
<1>4. CASE GetRecords(o)
  <2>1. Listed(o) \in SUBSET zone /\ \A e \in Listed(o) : e.prov = provider
    BY DEF Listed
  <2> QED BY <1>1, <1>4, <2>1, CompareInv DEF GetRecords, AtGetRecords, providerVars
<1>5. CASE GetRecordsEmpty(o)
  <2>1. {} \in SUBSET zone /\ \A e \in {} : e.prov = provider
    OBVIOUS
  <2> QED BY <1>1, <1>5, <2>1, CompareInv
             DEF GetRecordsEmpty, AtGetRecords, providerVars
<1>6. CASE GetRecordsError(o)
  BY <1>1, <1>6, ReturnInv DEF GetRecordsError, AtGetRecords, providerVars
<1> QED BY <1>2, <1>3, <1>4, <1>5, <1>6

\* DeleteRecords, successful or not, preserves the invariant.
LEMMA DeleteRecordsInv ==
  ASSUME IInv, TypeOK', NEW o \in Objects,
         DeleteRecords(o) \/ DeleteRecordsError(o)
  PROVE  IInv'
<1> DEFINE r == rec[o]
<1>1. /\ pc[o] \in {"deleteRecord", "replaceRecord"}
      /\ UNCHANGED <<store, watch, cache, provider, nextId, abandoned>>
      /\ zone' \subseteq zone
  BY DEF DeleteRecords, DeleteRecordsError, AtDeleteRecords, Remove
<1>2. WorkInv(o) /\ r \in DefaultedObject /\ TypeOK /\ ZoneInv
  BY <1>1, WorkingCopy DEF IInv
<1>3. Evolves /\ ZoneInv'
  BY <1>1, <1>2 DEF Evolves, ZoneInv, TypeOK
<1>4. VersionInv' /\ CacheInv'
  BY <1>1, <1>3, VersionsKept
<1>5. RunInv' /\ OnlyRun(o)
  <2>1. CASE DeleteRecordsError(o)
    BY <1>1, <1>2, <1>3, <2>1, ReturnRun
       DEF DeleteRecordsError, Return, OnlyRun, TypeOK
  <2>2. CASE DeleteRecords(o)
    <3>1. \A e \in zone' : e.id # r.status.id
      BY <1>1, <1>2, <2>2 DEF DeleteRecords, Remove, WorkInv
    <3>2. /\ r.fin /\ r.status.id = old[o].id /\ r.status.id < nextId'
          /\ provider # Coredns
          /\ 0 < nextId' /\ \A e \in zone' : e.id # 0
      BY <1>1, <1>2 DEF WorkInv, OwnId, TypeOK, ProviderRecord
    <3>3. CASE pc[o] = "deleteRecord"
      <4>1. Proceed(o, Forget(r))
        BY <2>2, <3>3 DEF DeleteRecords
      <4>2. RunInv'
        BY <1>1, <1>2, <1>3, <3>1, <3>2, <4>1, ForgetFacts, ProceedRun
      <4> QED BY <1>1, <1>2, <4>1, <4>2, GotoOnly
    <3>4. CASE pc[o] = "replaceRecord"
      <4>1. Goto(o, r, "appendRecord") /\ ~r.deleting
        BY <1>2, <2>2, <3>4 DEF DeleteRecords, WorkInv
      <4>2. RunInv'
        BY <1>1, <1>2, <1>3, <3>1, <3>2, <4>1, GotoRun DEF Steps
      <4> QED BY <1>1, <1>2, <4>1, <4>2, GotoOnly
    <3> QED BY <1>1, <3>3, <3>4
  <2> QED BY <2>1, <2>2
<1>6. Accounted'
  BY <1>1, <1>5, AccountedWork
<1> QED BY <1>3, <1>4, <1>5, <1>6 DEF IInv

\* AppendRecords, successful or not, preserves the invariant.
LEMMA AppendRecordsInv ==
  ASSUME IInv, TypeOK', NEW o \in Objects,
         AppendRecords(o) \/ AppendRejected(o) \/ AppendRecordsError(o)
  PROVE  IInv'
<1> DEFINE r == rec[o]
<1>1. /\ pc[o] = "appendRecord"
      /\ UNCHANGED <<store, watch, cache, provider>>
  BY DEF AppendRecords, AppendRejected, AppendRecordsError, AtAppendRecords
<1>2. WorkInv(o) /\ r \in DefaultedObject /\ TypeOK /\ ZoneInv
  BY <1>1, WorkingCopy DEF IInv
<1>3. CASE /\ UNCHANGED <<zone, nextId, abandoned>>
           /\ Return(o, TRUE)
  BY <1>1, <1>3, ReturnInv
<1>4. CASE Add(o) /\ AppendRecords(o)
  <2>1. /\ nextId' = nextId + 1 /\ nextId \in Nat \ {0}
        /\ \A e \in zone' : e \in zone \/ (e.id = nextId /\ e.by = o)
        /\ UNCHANGED abandoned
    BY <1>2, <1>4 DEF Add, AppendRecords, TypeOK
  <2>2. Evolves /\ ZoneInv'
    <3>1. zone' = zone \cup {[id |-> nextId, data |-> r.spec.data, ttl |-> r.spec.ttl,
                              prov |-> provider, by |-> o]}
      BY <1>4 DEF Add
    <3>2. \A e \in zone : e.id \in Nat
      BY <1>2 DEF TypeOK, ProviderRecord
    <3> QED BY <1>2, <2>1, <3>1, <3>2 DEF Evolves, ZoneInv
  <2>3. VersionInv' /\ CacheInv'
    BY <1>1, <2>2, VersionsKept
  <2> DEFINE n == [r EXCEPT !.status.provider = provider, !.status.id = nextId]
  <2>4. /\ n \in DefaultedObject /\ n.status.id = nextId
        /\ n.deleting = r.deleting /\ n.fin = r.fin
    <3>1. provider \in Providers
      BY <1>1, <1>2, DeploymentAssumption DEF WorkInv, TypeOK
    <3>2. n \in DefaultedObject
      BY <1>2, <2>1, <3>1, StatusType
    <3> QED BY <1>2, <3>2 DEF DefaultedObject, DNSRecordStatus
  <2>5. Proceed(o, n)
    BY <1>4 DEF AppendRecords
  <2>6. /\ r.fin /\ ~r.deleting /\ r.status.id = old[o].id
        /\ old[o].id \in Nat /\ old[o].id < nextId
        /\ \A e \in zone' : e.id = old[o].id => e.id \in abandoned'
        /\ \A e \in zone' : e.id = nextId => e.by = o
        /\ nextId < nextId'
    <3>1. old[o].id \in Nat
      BY <1>2 DEF TypeOK, DNSRecordStatus
    <3>2. \A e \in zone : e.id < nextId
      BY <1>2 DEF ZoneInv
    <3> QED BY <1>1, <1>2, <2>1, <3>1, <3>2 DEF WorkInv, OwnId, Gone
  <2>7. RunInv' /\ OnlyRun(o)
    <3> HIDE DEF n
    <3>1. RunInv'
      BY <1>1, <2>2, <2>4, <2>5, <2>6, ProceedRun
    <3> QED BY <1>1, <1>2, <2>5, <3>1, GotoOnly
  <2>8. InFlight(o)' = {nextId}
    <3>1. pc'[o] = "updateStatus" /\ rec'[o].status.id = nextId /\ old'[o] = old[o]
      <4>1. n.status.id # old[o].id /\ ~n.deleting
        BY <2>1, <2>4, <2>6
      <4>2. [n EXCEPT !.status.record = ToRR(n.spec)].status.id = nextId
        BY <2>4 DEF DefaultedObject, DNSRecordStatus
      <4> HIDE DEF n
      <4> QED BY <1>2, <2>4, <2>5, <4>1, <4>2 DEF Proceed, Goto, TypeOK
    <3> QED BY <2>1, <2>6, <3>1 DEF InFlight
  <2>9. Accounted'
    BY <1>1, <2>1, <2>7, <2>8, AccountedWork
  <2> QED BY <2>2, <2>3, <2>7, <2>9 DEF IInv
<1>5. CASE Add(o) /\ abandoned' = abandoned \cup {nextId} /\ Return(o, TRUE)
  <2>1. /\ nextId' = nextId + 1 /\ nextId \in Nat \ {0}
        /\ \A e \in zone' : e \in zone \/ (e.id = nextId /\ e.by = o)
    BY <1>2, <1>5 DEF Add, TypeOK
  <2>2. Evolves /\ ZoneInv'
    <3>1. zone' = zone \cup {[id |-> nextId, data |-> r.spec.data, ttl |-> r.spec.ttl,
                              prov |-> provider, by |-> o]}
      BY <1>5 DEF Add
    <3>2. \A e \in zone : e.id \in Nat
      BY <1>2 DEF TypeOK, ProviderRecord
    <3> QED BY <1>2, <1>5, <2>1, <3>1, <3>2 DEF Evolves, ZoneInv
  <2>3. VersionInv' /\ CacheInv'
    BY <1>1, <2>2, VersionsKept
  <2>4. RunInv' /\ OnlyRun(o)
    BY <1>1, <1>2, <1>5, <2>2, ReturnRun DEF Return, OnlyRun, TypeOK
  <2>5. Accounted'
    BY <1>1, <1>5, <2>1, <2>4, AccountedWork
  <2> QED BY <2>2, <2>3, <2>4, <2>5 DEF IInv
<1> QED BY <1>3, <1>4, <1>5
           DEF AppendRecords, AppendRejected, AppendRecordsError, providerVars

(***************************************************************************)
(* Writes of a reconcile to the API server.                                *)
(***************************************************************************)

\* Another object's records are not affected by the end of a reconcile of o;
\* those of o have to be accounted for.
LEMMA AccountedReturn ==
  ASSUME IInv, NEW o \in Objects, OnlyRun(o), UNCHANGED zone,
         abandoned \subseteq abandoned',
         \A e \in zone : e.by = o => Tracked(e)' \/ e.id \in abandoned'
  PROVE  Accounted'
<1> SUFFICES ASSUME NEW e \in zone, e.by # None
             PROVE  \/ Tracked(e)' \/ e.id \in InFlight(e.by)'
                    \/ e.id \in abandoned'
  BY DEF Accounted, Ours
<1>1. e.by \in Objects
  BY DEF IInv, TypeOK, ProviderRecord
<1>2. Tracked(e) \/ e.id \in InFlight(e.by) \/ e.id \in abandoned
  BY DEF IInv, Accounted, Ours
<1>3. CASE e.by = o
  BY <1>3
<1>4. CASE e.by # o
  BY <1>1, <1>2, <1>4 DEF InFlight, Tracked, OnlyRun
<1> QED BY <1>3, <1>4

\* A refused write ends the reconcile; an ID in flight is given up.
LEMMA RefusedInv ==
  ASSUME IInv, TypeOK', NEW o \in Objects, pc[o] # "idle", Refused(o),
         UNCHANGED <<cache, provider, zone, nextId>>,
         abandoned' = abandoned \cup InFlight(o)
  PROVE  IInv'
<1>1. Return(o, TRUE) /\ UNCHANGED <<store, watch>> /\ TypeOK
  BY DEF Refused, apiVars, IInv
<1>2. Evolves /\ ZoneInv'
  BY Quiet
<1>3. VersionInv' /\ CacheInv'
  BY <1>1, <1>2, VersionsKept
<1>4. RunInv' /\ OnlyRun(o)
  BY <1>1, <1>2, ReturnRun DEF Return, OnlyRun, TypeOK
<1>5. \A e \in zone : e.by = o => Tracked(e)' \/ e.id \in abandoned'
  <2> SUFFICES ASSUME NEW e \in zone, e.by = o
               PROVE  Tracked(e)' \/ e.id \in abandoned'
    OBVIOUS
  <2>1. Tracked(e) \/ e.id \in InFlight(o) \/ e.id \in abandoned
    BY ObjectsAssumption DEF IInv, Accounted, Ours
  <2> QED BY <1>1, <2>1 DEF Tracked
<1>6. Accounted'
  BY <1>4, <1>5, AccountedReturn
<1> QED BY <1>2, <1>3, <1>4, <1>6 DEF IInv

\* An accepted write: what it does to versions and reconciles.
LEMMA WrittenInv ==
  ASSUME IInv, TypeOK', NEW o \in Objects, pc[o] # "idle",
         NEW v \in DNSRecordObject \cup {Absent}, Written(o, v),
         UNCHANGED <<cache, provider, zone, nextId>>,
         abandoned \subseteq abandoned',
         v # Absent =>
           /\ v.deleting => v.fin
           /\ v.status.id # 0 => v.fin
           /\ OwnId(o, v.status.id),
         (v # Absent /\ v.fin) \/ store[o].deleting,
         \A e \in zone : e.by = o =>
           (v # Absent /\ v.status.id = e.id) \/ e.id \in abandoned'
  PROVE  IInv'
<1>1. Write(o, v) /\ cur[o] /\ TypeOK /\ WorkInv(o)
  BY WorkingCopy DEF Written, IInv
<1>2. \E again \in BOOLEAN : Return(o, again)
  BY DEF Written
<1>3. Evolves /\ ZoneInv'
  BY Quiet
<1>4. watch[o] = <<>>
  BY <1>1 DEF WorkInv, Current
<1>5. VersionInv' /\ CacheInv'
  BY <1>1, <1>3, <1>4, WriteVersions DEF OwnId
<1>6. /\ store'[o] = v
      /\ \A p \in Objects \ {o} : store'[p] = store[p] /\ watch'[p] = watch[p]
  BY <1>1 DEF Write, TypeOK
<1>7. RunInv' /\ OnlyRun(o)
  BY <1>1, <1>2, <1>3, <1>6, ReturnRun DEF Return, OnlyRun, TypeOK
<1>8. Accounted'
  BY <1>6, <1>7, AccountedReturn DEF Tracked
<1> QED BY <1>3, <1>5, <1>7, <1>8 DEF IInv

\* The reconcile's writes to the API server preserve the invariant.
LEMMA ApiInv ==
  ASSUME IInv, TypeOK', NEW o \in Objects,
         SetFinalizer(o) \/ UpdateStatus(o) \/ RemoveFinalizer(o)
  PROVE  IInv'
<1> DEFINE r == rec[o]
<1>1. /\ pc[o] \in {"setFinalizer", "updateStatus", "removeFinalizer"}
      /\ UNCHANGED <<cache, provider, zone, nextId>>
  BY DEF SetFinalizer, UpdateStatus, RemoveFinalizer, providerVars
<1>2. WorkInv(o) /\ r \in DefaultedObject /\ TypeOK
  BY <1>1, WorkingCopy DEF IInv
<1>3. cur[o] =>
        /\ store[o] \in DNSRecordObject /\ store[o] # Absent
        /\ store[o].status = old[o] /\ store[o].deleting = r.deleting
        /\ store[o].fin = r.fin /\ Sound(o, store[o])
        /\ store[o].fin \in BOOLEAN /\ store[o].deleting \in BOOLEAN
  BY <1>2 DEF WorkInv, Current, IInv, VersionInv, TypeOK, DNSRecordObject
<1>4. \A e \in zone : e.by = o =>
        \/ store[o] # Absent /\ store[o].status.id = e.id
        \/ e.id \in InFlight(o) \/ e.id \in abandoned
  BY ObjectsAssumption DEF IInv, Accounted, Ours, Tracked
<1>5. \A e \in zone : e.id # 0
  BY <1>2 DEF TypeOK, ProviderRecord
<1>6. CASE Refused(o) /\ abandoned' = abandoned \cup InFlight(o)
  BY <1>1, <1>6, RefusedInv
<1>7. CASE SetFinalizer(o)
  <2>1. InFlight(o) = {} /\ UNCHANGED abandoned
    BY <1>7 DEF SetFinalizer, InFlight
  <2>2. CASE Refused(o)
    BY <1>6, <2>1, <2>2
  <2> DEFINE v == [store[o] EXCEPT !.fin = TRUE, !.spec = r.spec]
  <2>3. CASE Written(o, v)
    <3>1. cur[o]
      BY <2>3 DEF Written
    <3>2. /\ v \in DNSRecordObject /\ v # Absent /\ v.fin
          /\ v.status = store[o].status
      <4>1. r.spec \in DNSRecordSpec
        BY <1>2, DefaultedIsObject DEF DNSRecordObject
      <4>2. v \in DNSRecordObject /\ v.fin /\ v.status = store[o].status
        BY <1>3, <3>1, <4>1 DEF DNSRecordObject
      <4> QED BY <4>2, ObjectsAssumption
    <3> HIDE DEF v
    <3> QED BY <1>1, <1>3, <1>4, <2>1, <2>3, <3>1, <3>2, WrittenInv DEF Sound
  <2> QED BY <1>7, <2>2, <2>3 DEF SetFinalizer
<1>8. CASE UpdateStatus(o)
  <2> DEFINE v == [store[o] EXCEPT !.status = r.status]
  <2>1. CASE Written(o, v) /\ UNCHANGED abandoned
    <3>1. cur[o] /\ pc[o] = "updateStatus"
      BY <1>8, <2>1 DEF Written, UpdateStatus
    <3>2. /\ v \in DNSRecordObject /\ v # Absent
          /\ v.status = r.status /\ v.fin = r.fin /\ v.deleting = r.deleting
      <4>1. r.status \in DNSRecordStatus
        BY <1>2 DEF DefaultedObject
      <4>2. /\ v \in DNSRecordObject
            /\ v.status = r.status /\ v.fin = r.fin /\ v.deleting = r.deleting
        BY <1>3, <3>1, <4>1 DEF DNSRecordObject
      <4> QED BY <4>2, ObjectsAssumption
    <3>3. r.fin /\ OwnId(o, r.status.id)
      BY <1>2, <3>1 DEF WorkInv
    <3>4. \A e \in zone : e.by = o => r.status.id = e.id \/ e.id \in abandoned
      BY <1>2, <1>3, <1>4, <1>5, <3>1 DEF WorkInv, InFlight, Gone
    <3>5. /\ v.fin /\ OwnId(o, v.status.id)
          /\ \A e \in zone : e.by = o => v.status.id = e.id \/ e.id \in abandoned'
      BY <2>1, <3>2, <3>3, <3>4
    <3> HIDE DEF v
    <3> QED BY <1>1, <2>1, <3>1, <3>2, <3>5, WrittenInv
  <2> QED BY <1>6, <1>8, <2>1 DEF UpdateStatus
<1>9. CASE RemoveFinalizer(o)
  <2>1. InFlight(o) = {} /\ pc[o] = "removeFinalizer"
    BY <1>9 DEF RemoveFinalizer, InFlight
  <2>2. CASE Refused(o) /\ UNCHANGED abandoned
    BY <1>6, <2>1, <2>2
  <2>3. CASE /\ Written(o, Absent)
             /\ abandoned' = IF provider = Coredns
                             THEN abandoned \cup ({store[o].status.id} \ {0})
                             ELSE abandoned
    <3>1. cur[o]
      BY <2>3 DEF Written
    <3>2. store[o].deleting
      BY <1>2, <1>3, <2>1, <3>1 DEF WorkInv
    <3>3. \A e \in zone : e.by = o => e.id \in abandoned'
      BY <1>2, <1>3, <1>4, <1>5, <2>1, <2>3, <3>1 DEF WorkInv
    <3> QED BY <1>1, <2>3, <3>2, <3>3, WrittenInv
  <2> QED BY <1>9, <2>2, <2>3 DEF RemoveFinalizer
<1> QED BY <1>7, <1>8, <1>9

\* The lookup preserves the invariant.
LEMMA LookupInv ==
  ASSUME IInv, TypeOK', NEW o \in Objects, Lookup(o) \/ LookupError(o)
  PROVE  IInv'
<1> DEFINE ok == rec[o].spec.data \in resolved
           r == [rec[o] EXCEPT !.status.active = ok]
<1>1. /\ pc[o] = "lookup"
      /\ UNCHANGED <<store, watch, cache, provider, zone, nextId, abandoned>>
  BY DEF Lookup, LookupError, AtLookup, providerVars
<1>2. WorkInv(o) /\ rec[o] \in DefaultedObject /\ TypeOK
  BY <1>1, WorkingCopy DEF IInv
<1>3. CASE \E again \in BOOLEAN : Return(o, again)
  BY <1>1, <1>3, ReturnInv
<1>4. CASE Goto(o, r, "updateStatus")
  <2>1. Evolves /\ ZoneInv'
    BY <1>1, Quiet
  <2>2. VersionInv' /\ CacheInv'
    BY <1>1, <2>1, VersionsKept
  <2>a. ok \in BOOLEAN
    OBVIOUS
  <2>3. r \in DefaultedObject
    BY <1>2, <2>a, StatusType
  <2>4. r.status.id = rec[o].status.id /\ r.deleting = rec[o].deleting /\ r.fin = rec[o].fin
    BY <1>2 DEF DefaultedObject, DNSRecordStatus
  <2>5. /\ rec[o].fin /\ rec[o].status.id = old[o].id
        /\ rec[o].status.id < nextId'
        /\ \A e \in zone' : e.id = rec[o].status.id => e.by = o
    BY <1>1, <1>2 DEF WorkInv, OwnId
  <2>6. RunInv' /\ OnlyRun(o)
    <3> HIDE DEF r
    <3>a. /\ r.status.id = old[o].id /\ r.status.id < nextId'
          /\ \A e \in zone' : e.id = r.status.id => e.by = o
      BY <2>4, <2>5
    <3>1. RunInv'
      BY <1>1, <1>4, <2>1, <2>3, <2>4, <2>5, <3>a, GotoRun DEF Steps
    <3> QED BY <1>1, <1>2, <1>4, <3>1, GotoOnly
  <2>7. Accounted'
    BY <1>1, <2>6, AccountedWork
  <2> QED BY <2>1, <2>2, <2>6, <2>7 DEF IInv
<1> QED BY <1>3, <1>4 DEF Lookup, LookupError

\* A crash and restart preserves the invariant.
LEMMA RestartInv ==
  ASSUME IInv, TypeOK', Restart
  PROVE  IInv'
<1>1. TypeOK /\ VersionInv
  BY DEF IInv
<1>2. /\ UNCHANGED <<store, zone, nextId>> /\ abandoned \subseteq abandoned'
      /\ cache' = store
      /\ \A o \in Objects : watch'[o] = <<>> /\ pc'[o] = "idle" /\ ~cur'[o]
  BY DEF Restart, providerVars
<1>3. Evolves /\ ZoneInv'
  BY <1>2, Quiet
<1>4. ASSUME NEW o \in Objects
      PROVE  Sound(o, store[o])' /\ Sound(o, cache[o])' /\ Live(o, cache[o])'
  <2>1. store[o] \in DNSRecordObject \cup {Absent} /\ Sound(o, store[o])
    BY <1>1 DEF TypeOK, VersionInv
  <2> QED BY <1>1, <1>2, <1>3, <2>1, SoundStable DEF Sound, OwnId, Live
<1>5. VersionInv' /\ CacheInv'
  BY <1>2, <1>4 DEF VersionInv, CacheInv
<1>6. RunInv'
  BY <1>2 DEF RunInv
<1>7. Accounted'
  <2> SUFFICES ASSUME NEW e \in zone, e.by # None
               PROVE  Tracked(e)' \/ e.id \in abandoned'
    BY <1>2 DEF Accounted, Ours
  <2>1. e.by \in Objects
    BY <1>1 DEF TypeOK, ProviderRecord
  <2>2. Tracked(e) \/ e.id \in InFlight(e.by) \/ e.id \in abandoned
    BY DEF IInv, Accounted, Ours
  <2> QED BY <1>2, <2>1, <2>2 DEF Restart, Tracked
<1> QED BY <1>3, <1>5, <1>6, <1>7 DEF IInv

\* Every step preserves the invariant.
LEMMA NextInv == IInv /\ [Next]_vars => IInv'
<1> SUFFICES ASSUME IInv, [Next]_vars PROVE IInv'
  OBVIOUS
<1>1. TypeOK'
  BY NextType
<1>2. CASE UNCHANGED vars
  BY <1>1, <1>2, IdleInv DEF vars
<1>3. CASE Restart
  BY <1>1, <1>3, RestartInv
<1>4. CASE \E d \in Rdata : Propagate(d)
  BY <1>1, <1>4, IdleInv DEF Propagate, runVars, providerVars
<1>5. ASSUME NEW o \in Objects, User(o) PROVE IInv'
  BY <1>1, <1>5, UserInv
<1>6. ASSUME NEW o \in Objects, Deliver(o) PROVE IInv'
  BY <1>1, <1>6, DeliverInv
<1>7. ASSUME NEW o \in Objects, Resync(o) \/ Requeue(o) PROVE IInv'
  BY <1>1, <1>7, IdleInv DEF Resync, Requeue, runVars, providerVars
<1>8. ASSUME NEW o \in Objects, Start(o) PROVE IInv'
  BY <1>1, <1>8, StartInv
<1>9. ASSUME NEW o \in Objects, Reconcile(o) PROVE IInv'
  BY <1>1, <1>9, ProviderInv, DeleteRecordsInv, AppendRecordsInv, ApiInv,
     LookupInv DEF Reconcile
<1> QED BY <1>2, <1>3, <1>4, <1>5, <1>6, <1>7, <1>8, <1>9 DEF Next

(***************************************************************************)
(* Theorems.                                                               *)
(***************************************************************************)

\* The inductive invariant holds throughout, whatever the number of objects,
\* providers, edits, faults and restarts.
THEOREM Invariance == Spec => []IInv
BY InitInv, NextInv, PTL DEF Spec

\* Every variable keeps its type: in particular Default has given a TTL to
\* every working copy, and no record reaches a provider without one.
THEOREM TypeCorrect == Spec => []TypeOK
<1>1. IInv => TypeOK
  BY DEF IInv
<1> QED BY <1>1, Invariance, PTL

\* No path of Reconcile and libdns.Reconcile loses track of a record it made,
\* except the marked ones.
THEOREM AllAccounted == Spec => []Accounted
<1>1. IInv => Accounted
  BY DEF IInv
<1> QED BY <1>1, Invariance, PTL

\* RecordFinalizer is stored before the first record of an object is made and
\* outlives the last.
THEOREM AllGuarded == Spec => []Guarded
<1>1. IInv => Guarded
  <2> SUFFICES ASSUME IInv, NEW e \in zone, e.by # None, e.id \notin abandoned
               PROVE  store[e.by] # Absent /\ store[e.by].fin
    BY DEF Guarded, Ours
  <2>1. e.by \in Objects /\ e.id # 0
    BY DEF IInv, TypeOK, ProviderRecord
  <2>2. Tracked(e) \/ e.id \in InFlight(e.by)
    BY DEF IInv, Accounted, Ours
  <2>3. CASE Tracked(e)
    BY <2>1, <2>3 DEF Tracked, IInv, VersionInv, Sound
  <2>4. CASE e.id \in InFlight(e.by)
    <3>1. /\ pc[e.by] = "updateStatus" /\ rec[e.by].status.id # old[e.by].id
          /\ rec[e.by].status.id # 0
      BY <2>4 DEF InFlight
    <3>2. WorkInv(e.by)
      BY <2>1, <3>1, WorkingCopy
    <3> QED BY <3>1, <3>2 DEF WorkInv, Live
  <2> QED BY <2>2, <2>3, <2>4
<1> QED BY <1>1, Invariance, PTL

\* DeleteRecords removes at most the record of the object it is called for,
\* and only one that the object no longer wants.
THEOREM DeletesOwnOnly == Spec => OwnRecordsOnly
<1> DEFINE Justified(e) ==
      /\ e.by # None
      /\ pc[e.by] \in {"deleteRecord", "replaceRecord"}
      /\ rec[e.by].status.id = e.id
      /\ \/ rec[e.by].deleting
         \/ ~rec[e.by].spec.active
         \/ ~UpToDate(e.by, e)
<1>1. IInv /\ [Next]_vars => [\A e \in zone \ zone' : Justified(e)]_vars
  <2> SUFFICES ASSUME IInv, Next, NEW e \in zone, e \notin zone'
               PROVE  Justified(e)
    OBVIOUS
  <2>1. PICK o \in Objects : DeleteRecords(o) \/ DeleteRecordsError(o)
    <3>1. zone' # zone
      OBVIOUS
    <3>2. ~Restart /\ ~\E d \in Rdata : Propagate(d)
      BY <3>1 DEF Restart, Propagate, providerVars
    <3>3. PICK o \in Objects : Start(o) \/ Reconcile(o)
      BY <3>1, <3>2
         DEF Next, User, Create, EditSpec, Activate, Deactivate, DeleteObject,
             UserWrite, Deliver, Resync, Requeue, providerVars
    <3>4. ~Start(o)
      BY <3>1 DEF Start, NotFound, ParseError, Begin, Take, providerVars
    <3>5. \/ DeleteRecords(o) \/ DeleteRecordsError(o)
          \/ AppendRecords(o) \/ AppendRecordsError(o)
      BY <3>1, <3>3, <3>4
         DEF Reconcile, NoopReconcile, SkipForeign, NoDomain, GetRecords,
             GetRecordsEmpty, GetRecordsError, AtGetRecords, AppendRejected,
             SetFinalizer, UpdateStatus, RemoveFinalizer, Lookup, LookupError,
             AtLookup, providerVars
    <3>6. ~AppendRecords(o) /\ ~AppendRecordsError(o)
      BY DEF AppendRecords, AppendRecordsError, Add, providerVars
    <3> QED BY <3>5, <3>6
  <2>2. e.id = rec[o].status.id /\ pc[o] \in {"deleteRecord", "replaceRecord"}
    BY <2>1 DEF DeleteRecords, DeleteRecordsError, AtDeleteRecords, Remove
  <2>3. WorkInv(o)
    BY <2>2, WorkingCopy
  <2>4. e.by = o
    BY <2>2, <2>3 DEF WorkInv, OwnId
  <2> QED BY <2>2, <2>3, <2>4, ObjectsAssumption DEF WorkInv
<1> QED BY <1>1, Invariance, PTL DEF Spec, OwnRecordsOnly
=============================================================================
