----------------------- MODULE RecordOwnershipProofs -----------------------
(***************************************************************************)
(* DNSRecordReconciler implements RecordOwnership.  The refinement mapping *)
(* is the one of RO; the argument rests on the inductive invariant IInv of *)
(* DNSRecordReconcilerProofs and goes action by action.                    *)
(***************************************************************************)
EXTENDS DNSRecordReconcilerProofs

\* The state of RecordOwnership does not change.
Still ==
  /\ Enrolled' = Enrolled
  /\ \A p \in Objects : Named(p)' = Named(p) /\ Pending(p)' = Pending(p)
  /\ Lost' = Lost
  /\ nextId' = nextId

\* A step that is no step of RecordOwnership.
LEMMA StillStutters == Still => UNCHANGED RO!vars
BY DEF Still, RO!vars

\* No record, no status and no record in flight changes.
LEMMA Untouched ==
  ASSUME UNCHANGED <<zone, nextId, abandoned>>,
         \A p \in Objects :
           /\ Held(p)' = Held(p)
           /\ Named(p)' = Named(p)
           /\ InFlight(p)' = InFlight(p)
  PROVE  Still
<1>1. Enrolled' = Enrolled
  BY DEF Enrolled, Held
<1>2. Lost' = Lost
  BY DEF Lost, Ours
<1>3. \A p \in Objects : Pending(p)' = Pending(p)
  BY DEF Pending, Kept
<1> QED BY <1>1, <1>2, <1>3 DEF Still

\* The initial states map to initial states.
LEMMA InitOwns == Init => RO!Init
<1> SUFFICES ASSUME Init PROVE RO!Init
  OBVIOUS
<1>1. Enrolled = {} /\ Lost = {}
  BY DEF Init, Enrolled, Lost
<1>2. \A o \in Objects : Named(o) = {} /\ Pending(o) = {}
  BY DEF Init, Named, Pending, InFlight, Kept
<1>3. nextId \in Nat
  BY DEF Init
<1> QED BY <1>1, <1>2, <1>3 DEF RO!Init

(***************************************************************************)
(* Steps that leave the zones, the statuses and the finalizers alone.      *)
(***************************************************************************)

\* The reconciles of other objects do not move.
OthersStay(o) ==
  \A p \in Objects \ {o} : pc'[p] = pc[p] /\ rec'[p] = rec[p] /\ old'[p] = old[p]

\* A reconcile moves, and nothing is in flight before or after.
LEMMA RunStill ==
  ASSUME TypeOK, UNCHANGED <<store, zone, nextId, abandoned>>, NEW o \in Objects,
         OthersStay(o), InFlight(o) = {}, InFlight(o)' = {}
  PROVE  Still
<1>1. \A p \in Objects : InFlight(p)' = InFlight(p)
  BY DEF InFlight, OthersStay
<1>2. \A p \in Objects : Held(p)' = Held(p) /\ Named(p)' = Named(p)
  BY DEF Held, Named, Kept
<1> QED BY <1>1, <1>2, Untouched

\* IDs that were given up were handed out, and an ID in flight is not yet in
\* the stored status.
FreshInv ==
  /\ \A id \in abandoned : id < nextId
  /\ \A o \in Objects : store[o] # Absent => store[o].status.id \notin InFlight(o)

\* IDs are natural numbers.
LEMMA NextIdType == TypeOK => nextId \in Nat /\ nextId <= nextId
BY DEF TypeOK

\* A step of one reconcile that leaves nothing in flight.
LEMMA RunFresh ==
  ASSUME TypeOK, FreshInv, NEW o \in Objects, OthersStay(o), InFlight(o)' = {},
         \A p \in Objects \ {o} : store'[p] = store[p],
         nextId' \in Nat, nextId <= nextId',
         \A id \in abandoned' : id \in abandoned \/ id < nextId'
  PROVE  FreshInv'
<1>1. \A id \in abandoned' : id < nextId'
  <2>1. abandoned \subseteq Nat /\ nextId \in Nat
    BY DEF TypeOK
  <2>2. \A id \in abandoned : id < nextId
    BY DEF FreshInv
  <2>3. \A i, m, n \in Nat : i < m /\ m <= n => i < n
    OBVIOUS
  <2> QED BY <2>1, <2>2, <2>3
<1>2. \A p \in Objects \ {o} : InFlight(p)' = InFlight(p)
  BY DEF InFlight, OthersStay
<1> QED BY <1>1, <1>2 DEF FreshInv

\* An ID in flight was handed out.
LEMMA FlightHandedOut ==
  ASSUME IInv, NEW o \in Objects, NEW id \in InFlight(o)
  PROVE  id < nextId
<1>1. pc[o] = "updateStatus" /\ id = rec[o].status.id
  BY DEF InFlight
<1> QED BY <1>1, WorkingCopy DEF WorkInv, OwnId

\* Nothing is in flight once a reconcile has returned.
LEMMA ReturnFlight ==
  ASSUME TypeOK, NEW o \in Objects, NEW again \in BOOLEAN, Return(o, again)
  PROVE  InFlight(o)' = {} /\ OthersStay(o)
<1>1. pc'[o] = "idle"
  BY DEF Return, TypeOK
<1>2. OthersStay(o)
  BY DEF Return, OthersStay, TypeOK
<1> QED BY <1>1, <1>2 DEF InFlight

\* What is in flight once a reconcile has gone on.
LEMMA GotoFlight ==
  ASSUME TypeOK, NEW o \in Objects, NEW r, NEW step, Goto(o, r, step)
  PROVE  /\ InFlight(o)' = IF step = "updateStatus" /\ r.status.id # old[o].id
                            THEN {r.status.id} \ {0} ELSE {}
         /\ OthersStay(o)
<1>1. pc'[o] = step /\ rec'[o] = r /\ old'[o] = old[o]
  BY DEF Goto, TypeOK
<1>2. OthersStay(o)
  BY DEF Goto, OthersStay, TypeOK
<1> QED BY <1>1, <1>2 DEF InFlight

\* A new ID goes on to the status write, and no other ID does.
LEMMA ProceedFlight ==
  ASSUME TypeOK, NEW o \in Objects, NEW r \in DefaultedObject, Proceed(o, r)
  PROVE  /\ InFlight(o)' = IF r.status.id # old[o].id
                            THEN {r.status.id} \ {0} ELSE {}
         /\ OthersStay(o)
<1> DEFINE moved == \/ r.status.provider # old[o].provider
                    \/ r.status.id # old[o].id
           r2 == [r EXCEPT !.status.record = ToRR(r.spec)]
<1>1. r2.status.id = r.status.id
  BY DEF DefaultedObject, DNSRecordStatus
<1>2. CASE Goto(o, r, "updateStatus")
  BY <1>2, GotoFlight
<1>3. CASE ~moved /\ Goto(o, r, "removeFinalizer")
  BY <1>3, GotoFlight
<1>4. CASE Goto(o, r2, "updateStatus")
  <2> HIDE DEF r2
  <2> QED BY <1>1, <1>4, GotoFlight
<1>5. CASE ~moved /\ Goto(o, r, "lookup")
  BY <1>5, GotoFlight
<1> QED BY <1>2, <1>3, <1>4, <1>5 DEF Proceed

\* Informer, queue, resolver and the start of a reconcile.
LEMMA QueueOwns ==
  ASSUME TypeOK, FreshInv, NEW o \in Objects,
         \/ Deliver(o) \/ Resync(o) \/ Requeue(o) \/ Start(o)
         \/ \E d \in Rdata : Propagate(d)
         \/ UNCHANGED vars
  PROVE  Still /\ FreshInv'
<1>1. UNCHANGED <<store, zone, nextId, abandoned>>
  BY DEF Deliver, Resync, Requeue, Start, NotFound, ParseError, Begin, Take,
         Propagate, providerVars, vars
<1>2. CASE UNCHANGED <<pc, rec, old>>
  <2>1. FreshInv'
    BY <1>1, <1>2 DEF FreshInv, InFlight
  <2> QED BY <1>1, <1>2, <2>1, Untouched DEF Held, Named, Kept, InFlight
<1>3. CASE Begin(o)
  <2>1. InFlight(o) = {}
    BY <1>3 DEF Begin, Take, InFlight
  <2>2. pc'[o] \in {"setFinalizer", "provider"}
    BY <1>3 DEF Begin, TypeOK
  <2>3. OthersStay(o)
    BY <1>3 DEF Begin, Take, OthersStay, TypeOK
  <2>4. InFlight(o)' = {}
    BY <2>2 DEF InFlight
  <2>5. FreshInv'
    BY <1>1, <2>3, <2>4, RunFresh, NextIdType
  <2> QED BY <1>1, <2>1, <2>3, <2>4, <2>5, RunStill
<1> QED BY <1>2, <1>3
        DEF Deliver, Resync, Requeue, Start, NotFound, ParseError, Propagate,
            runVars, vars

\* Writes by users: only an object without finalizer, which holds no record,
\* goes away.
LEMMA UserOwns ==
  ASSUME IInv, FreshInv, NEW o \in Objects, User(o)
  PROVE  Still /\ FreshInv'
<1>1. TypeOK /\ Sound(o, store[o]) /\ store[o] \in DNSRecordObject \cup {Absent}
  BY DEF IInv, VersionInv, TypeOK
<1>2. PICK v :
        /\ UserWrite(o, v)
        /\ \/ store[o] = Absent /\ v # Absent /\ ~v.fin /\ v.status.id = 0
           \/ /\ store[o] # Absent /\ v # Absent
              /\ v.fin = store[o].fin /\ v.status = store[o].status
           \/ store[o] # Absent /\ ~store[o].fin /\ v = Absent
  <2>1. CASE \E spec \in Specs : Create(o, spec)
    <3>1. PICK spec \in Specs : Create(o, spec)
      BY <2>1
    <3> DEFINE v == [spec |-> spec, deleting |-> FALSE, fin |-> FALSE,
                     status |-> EmptyStatus]
    <3>2. v \in DNSRecordObject
      BY EmptyStatusType, DeploymentAssumption DEF DNSRecordObject
    <3>3. v # Absent /\ ~v.fin /\ v.status.id = 0
      BY <3>2, ObjectsAssumption DEF EmptyStatus
    <3> HIDE DEF v
    <3>4. store[o] = Absent /\ UserWrite(o, v)
      BY <3>1 DEF Create, v
    <3> QED BY <3>3, <3>4
  <2>2. CASE \E spec \in Specs : EditSpec(o, spec)
    <3>1. PICK spec \in Specs : EditSpec(o, spec)
      BY <2>2
    <3>2. [store[o] EXCEPT !.spec = spec] \in DNSRecordObject
      BY <1>1, <3>1, DeploymentAssumption DEF EditSpec, DNSRecordObject
    <3> QED BY <1>1, <3>1, <3>2, ObjectsAssumption DEF EditSpec, DNSRecordObject
  <2>3. CASE Activate(o) \/ Deactivate(o)
    <3>1. \A b \in BOOLEAN : store[o] # Absent =>
            [store[o] EXCEPT !.spec.active = b] \in DNSRecordObject
      BY <1>1 DEF DNSRecordObject, DNSRecordSpec
    <3>2. PICK b \in BOOLEAN :
            /\ store[o] # Absent
            /\ UserWrite(o, [store[o] EXCEPT !.spec.active = b])
      BY <2>3 DEF Activate, Deactivate
    <3> DEFINE v == [store[o] EXCEPT !.spec.active = b]
    <3>3. v # Absent /\ v.fin = store[o].fin /\ v.status = store[o].status
      BY <1>1, <3>1, <3>2, ObjectsAssumption DEF DNSRecordObject
    <3> HIDE DEF v
    <3> QED BY <3>2, <3>3 DEF v
  <2>4. CASE DeleteObject(o)
    <3>1. store[o] # Absent => [store[o] EXCEPT !.deleting = TRUE] \in DNSRecordObject
      BY <1>1 DEF DNSRecordObject
    <3>2. CASE store[o].fin
      BY <1>1, <2>4, <3>1, <3>2, ObjectsAssumption DEF DeleteObject, DNSRecordObject
    <3>3. CASE ~store[o].fin
      BY <2>4, <3>3 DEF DeleteObject
    <3> QED BY <3>2, <3>3
  <2> QED BY <2>1, <2>2, <2>3, <2>4 DEF User
<1>3. /\ UNCHANGED <<zone, nextId, abandoned, pc, rec, old>>
      /\ store'[o] = v /\ \A p \in Objects \ {o} : store'[p] = store[p]
  BY <1>1, <1>2 DEF UserWrite, Write, TypeOK
<1>4. \A e \in zone : e.id # 0
  BY <1>1 DEF TypeOK, ProviderRecord
<1>5. Held(o)' = Held(o)
  BY <1>2, <1>3 DEF Held
<1>6. Named(o)' = Named(o)
  <2>1. CASE store[o] # Absent /\ v # Absent
    BY <1>2, <1>3, <2>1 DEF Named, Kept
  <2>2. CASE store[o] = Absent \/ v = Absent
    <3>1. Named(o) = {}
      BY <1>1, <1>2, <1>4, <2>2 DEF Named, Kept, Sound
    <3>2. Named(o)' = {}
      BY <1>2, <1>3, <1>4, <2>2 DEF Named, Kept
    <3> QED BY <3>1, <3>2
  <2> QED BY <2>1, <2>2
<1>7. \A p \in Objects \ {o} : Held(p)' = Held(p) /\ Named(p)' = Named(p)
  BY <1>3 DEF Held, Named, Kept
<1>8. \A p \in Objects : InFlight(p)' = InFlight(p)
  BY <1>3 DEF InFlight
<1>9. FreshInv'
  <2>1. 0 \notin InFlight(o)
    BY DEF InFlight
  <2> QED BY <1>2, <1>3, <1>8, <2>1 DEF FreshInv
<1> QED BY <1>3, <1>5, <1>6, <1>7, <1>8, <1>9, Untouched

(***************************************************************************)
(* Steps of a reconcile.                                                   *)
(***************************************************************************)

\* The record of the working copy is given up, if it lives at all.
LEMMA ForgetOwns ==
  ASSUME IInv, UNCHANGED <<store, zone, nextId>>, NEW o \in Objects, pc[o] # "idle",
         OthersStay(o), InFlight(o) = {}, InFlight(o)' = {}, NEW U,
         abandoned' = abandoned \cup U,
         \A id \in U : id = rec[o].status.id /\ \E e \in zone : e.id = id
  PROVE  Still \/ RO!Forget(o)
<1>1. TypeOK /\ ZoneInv /\ WorkInv(o)
  BY WorkingCopy DEF IInv
<1>2. CASE U \subseteq abandoned
  <2>1. abandoned' = abandoned
    BY <1>2
  <2> QED BY <1>1, <2>1, RunStill
<1>3. CASE ~(U \subseteq abandoned)
  <2> DEFINE id == rec[o].status.id
  <2>1. U = {id} /\ id \notin abandoned
    BY <1>3
  <2>2. PICK e \in zone : e.id = id
    BY <2>1
  <2>3. e.by = o /\ o # None
    BY <1>1, <2>2, ObjectsAssumption DEF WorkInv, OwnId
  <2>4. store[o] # Absent /\ store[o].status.id = id
    BY <2>1, <2>2, <2>3 DEF IInv, Accounted, Ours, Tracked
  <2>5. \A f \in zone : f.id = id => f.by = o
    BY <1>1, <2>2, <2>3 DEF ZoneInv
  <2> HIDE DEF id
  <2>6. Named(o) = {id} /\ Named(o)' = {}
    BY <2>1, <2>2, <2>3, <2>4 DEF Named, Kept
  <2>7. \A p \in Objects \ {o} : Named(p)' = Named(p) /\ Pending(p)' = Pending(p)
    <3> SUFFICES ASSUME NEW p \in Objects \ {o}
                 PROVE  Named(p)' = Named(p) /\ Pending(p)' = Pending(p)
      OBVIOUS
    <3>1. InFlight(p)' = InFlight(p)
      BY DEF InFlight, OthersStay
    <3>2. \A x : (x \notin abandoned /\ \E f \in zone : f.by = p /\ f.id = x) <=>
                 (x \notin abandoned' /\ \E f \in zone' : f.by = p /\ f.id = x)
      BY <2>1, <2>5
    <3> QED BY <3>1, <3>2 DEF Named, Pending, Kept
  <2>8. Pending(o)' = Pending(o)
    BY DEF Pending, Kept
  <2>9. Lost' = Lost \cup {id}
    BY <2>1, <2>2, <2>3 DEF Lost, Ours
  <2>10. Enrolled' = Enrolled
    BY DEF Enrolled
  <2> QED BY <2>6, <2>7, <2>8, <2>9, <2>10 DEF RO!Forget
<1> QED BY <1>2, <1>3

\* Everything between GetRecords and the next call.
LEMMA CompareOwns ==
  ASSUME IInv, FreshInv, NEW o \in Objects, GetRecords(o) \/ GetRecordsEmpty(o)
  PROVE  (Still \/ RO!Forget(o)) /\ FreshInv'
<1>1. PICK recs \in SUBSET zone : Compare(o, recs)
  BY DEF GetRecords, GetRecordsEmpty, Listed
<1>2. /\ pc[o] = "provider" /\ InFlight(o) = {}
      /\ UNCHANGED <<store, zone, nextId, provider>>
  BY DEF GetRecords, GetRecordsEmpty, AtGetRecords, InFlight, providerVars
<1>3. TypeOK /\ WorkInv(o) /\ rec[o] \in DefaultedObject
  BY <1>2, WorkingCopy DEF IInv
<1>4. /\ Forget(rec[o]) \in DefaultedObject
      /\ Forget(rec[o]).status.id = 0
  BY <1>3, ForgetFacts
<1>5. InFlight(o)' = {} /\ OthersStay(o)
  <2>1. CASE \E again \in BOOLEAN : Return(o, again)
    BY <1>3, <2>1, ReturnFlight
  <2>2. CASE \E step \in {"appendRecord", "deleteRecord", "replaceRecord"} :
               Goto(o, rec[o], step)
    BY <1>3, <2>2, GotoFlight
  <2>3. CASE Proceed(o, Forget(rec[o]))
    BY <1>3, <1>4, <2>3, ProceedFlight
  <2>4. CASE Proceed(o, rec[o])
    BY <1>2, <1>3, <2>4, ProceedFlight DEF WorkInv
  <2> QED BY <1>1, <2>1, <2>2, <2>3, <2>4 DEF Compare
<1>6. \E U \in {{}, Unlisted(o, recs)} : abandoned' = abandoned \cup U
  BY <1>1 DEF Compare
<1>7. \A id \in Unlisted(o, recs) : id = rec[o].status.id /\ \E e \in zone : e.id = id
  BY DEF Unlisted
<1>8. FreshInv'
  <2>1. \A id \in abandoned' : id \in abandoned \/ id < nextId'
    BY <1>2, <1>3, <1>6, <1>7 DEF WorkInv, OwnId
  <2> QED BY <1>2, <1>3, <1>5, <2>1, RunFresh, NextIdType
<1> QED BY <1>2, <1>5, <1>6, <1>7, <1>8, ForgetOwns

\* Steps of a reconcile that change nothing RecordOwnership speaks of.
LEMMA CallOwns ==
  ASSUME IInv, FreshInv, NEW o \in Objects,
         \/ NoopReconcile(o) \/ SkipForeign(o) \/ NoDomain(o) \/ GetRecordsError(o)
         \/ AppendRejected(o) \/ Lookup(o) \/ LookupError(o)
  PROVE  Still /\ FreshInv'
<1>1. /\ pc[o] \in {"provider", "appendRecord", "lookup"} /\ InFlight(o) = {}
      /\ UNCHANGED <<store, zone, nextId, abandoned>>
  BY DEF NoopReconcile, SkipForeign, NoDomain, GetRecordsError, AtGetRecords,
         AppendRejected, AtAppendRecords, Lookup, LookupError, AtLookup,
         InFlight, providerVars
<1>2. TypeOK /\ WorkInv(o) /\ rec[o] \in DefaultedObject
  BY <1>1, WorkingCopy DEF IInv
<1>3. InFlight(o)' = {} /\ OthersStay(o)
  <2>1. CASE \E again \in BOOLEAN : Return(o, again)
    BY <1>2, <2>1, ReturnFlight
  <2>2. CASE Proceed(o, rec[o])
    BY <1>1, <1>2, <2>2, ProceedFlight DEF WorkInv
  <2>3. CASE \E ok \in BOOLEAN :
               Goto(o, [rec[o] EXCEPT !.status.active = ok], "updateStatus")
             /\ Lookup(o)
    <3>1. PICK ok \in BOOLEAN :
            Goto(o, [rec[o] EXCEPT !.status.active = ok], "updateStatus")
      BY <2>3
    <3>2. [rec[o] EXCEPT !.status.active = ok].status.id = rec[o].status.id
      BY <1>2 DEF DefaultedObject, DNSRecordStatus
    <3>3. rec[o].status.id = old[o].id
      BY <1>1, <1>2 DEF WorkInv
    <3> QED BY <1>2, <3>1, <3>2, <3>3, GotoFlight
  <2>4. (rec[o].spec.data \in resolved) \in BOOLEAN
    OBVIOUS
  <2>5. CASE Lookup(o)
    BY <1>2, <2>1, <2>3, <2>4, <2>5 DEF Lookup, DefaultedObject, DefaultedSpec
  <2> QED BY <2>1, <2>2, <2>5
          DEF NoopReconcile, SkipForeign, NoDomain, GetRecordsError,
              AppendRejected, LookupError
<1>4. FreshInv'
  BY <1>1, <1>2, <1>3, RunFresh, NextIdType
<1> QED BY <1>1, <1>2, <1>3, <1>4, RunStill

\* DeleteRecords takes away the named record, a lost one, or none.
LEMMA RemoveOwns ==
  ASSUME IInv, NEW o \in Objects, pc[o] \in {"deleteRecord", "replaceRecord"},
         Remove(o), UNCHANGED <<store, nextId, abandoned>>,
         OthersStay(o), InFlight(o)' = {}
  PROVE  Still \/ RO!Delete(o) \/ \E id \in Lost : RO!Recover(id)
<1> DEFINE id == rec[o].status.id
<1>1. TypeOK /\ ZoneInv /\ WorkInv(o) /\ InFlight(o) = {}
  BY WorkingCopy DEF IInv, InFlight
<1>2. zone' = {e \in zone : e.id # id} /\ \A e \in zone : e.id = id => e.by = o
  BY <1>1 DEF Remove, WorkInv, OwnId
<1> HIDE DEF id
<1>3. Enrolled' = Enrolled
  BY DEF Enrolled
<1>4. \A p \in Objects : Pending(p)' = Pending(p)
  <2>1. Pending(o)' = {} /\ Pending(o) = {}
    BY <1>1 DEF Pending, Kept
  <2>2. ASSUME NEW p \in Objects \ {o} PROVE Pending(p)' = Pending(p)
    <3>1. InFlight(p)' = InFlight(p)
      BY DEF InFlight, OthersStay
    <3> QED BY <1>2, <3>1 DEF Pending, Kept
  <2> QED BY <2>1, <2>2
<1>5. \A p \in Objects \ {o} : Named(p)' = Named(p)
  BY <1>2 DEF Named, Kept
<1>6. Named(o)' = Named(o) \ {id}
  BY <1>2 DEF Named, Kept
<1>7. Lost' = Lost \ {id}
  BY <1>2 DEF Lost, Ours
<1>8. CASE id \in Named(o)
  <2>1. Named(o) = {id} /\ id \notin Lost
    BY <1>8 DEF Named, Kept, Lost
  <2>2. Named(o)' = {} /\ Lost' = Lost
    BY <1>6, <1>7, <2>1
  <2> QED BY <1>3, <1>4, <1>5, <2>2 DEF RO!Delete
<1>9. CASE id \notin Named(o) /\ id \in Lost
  <2>1. Named(o)' = Named(o)
    BY <1>6, <1>9
  <2> QED BY <1>3, <1>4, <1>5, <1>7, <1>9, <2>1 DEF RO!Recover
<1>10. CASE id \notin Named(o) /\ id \notin Lost
  <2>1. Named(o)' = Named(o) /\ Lost' = Lost
    BY <1>6, <1>7, <1>10
  <2> QED BY <1>3, <1>4, <1>5, <2>1 DEF Still
<1> QED BY <1>8, <1>9, <1>10

\* Both calls of DeleteRecords, successful or not.
LEMMA DeleteOwns ==
  ASSUME IInv, FreshInv, NEW o \in Objects, DeleteRecords(o) \/ DeleteRecordsError(o)
  PROVE  /\ Still \/ RO!Delete(o) \/ \E id \in Lost : RO!Recover(id)
         /\ FreshInv'
<1>1. /\ pc[o] \in {"deleteRecord", "replaceRecord"}
      /\ UNCHANGED <<store, nextId, abandoned>>
      /\ Remove(o) \/ UNCHANGED zone
  BY DEF DeleteRecords, DeleteRecordsError, AtDeleteRecords
<1>2. TypeOK /\ WorkInv(o) /\ rec[o] \in DefaultedObject /\ InFlight(o) = {}
  BY <1>1, WorkingCopy DEF IInv, InFlight
<1>3. InFlight(o)' = {} /\ OthersStay(o)
  <2>1. CASE Return(o, TRUE)
    BY <1>2, <2>1, ReturnFlight
  <2>2. CASE Goto(o, rec[o], "appendRecord")
    BY <1>2, <2>2, GotoFlight
  <2>3. CASE Proceed(o, Forget(rec[o]))
    BY <1>2, <2>3, ForgetFacts, ProceedFlight
  <2> QED BY <2>1, <2>2, <2>3 DEF DeleteRecords, DeleteRecordsError
<1>4. FreshInv'
  BY <1>1, <1>2, <1>3, RunFresh, NextIdType
<1>5. CASE Remove(o)
  BY <1>1, <1>3, <1>4, <1>5, RemoveOwns
<1>6. CASE UNCHANGED zone
  BY <1>1, <1>2, <1>3, <1>4, <1>6, RunStill
<1> QED BY <1>1, <1>5, <1>6

\* AppendRecords makes a record for an enrolled object.
LEMMA AppendOwns ==
  ASSUME IInv, FreshInv, NEW o \in Objects, AppendRecords(o) \/ AppendRecordsError(o)
  PROVE  (Still \/ \E known \in BOOLEAN : RO!Make(o, known)) /\ FreshInv'
<1>1. pc[o] = "appendRecord" /\ UNCHANGED <<store, provider>>
  BY DEF AppendRecords, AppendRecordsError, AtAppendRecords
<1>2. TypeOK /\ ZoneInv /\ WorkInv(o) /\ rec[o] \in DefaultedObject /\ InFlight(o) = {}
  BY <1>1, WorkingCopy DEF IInv, InFlight
<1>3. provider \in Providers /\ nextId \in Nat \ {0}
  BY <1>1, <1>2, DeploymentAssumption DEF WorkInv, TypeOK
<1>4. /\ o \in Enrolled /\ Enrolled' = Enrolled /\ Pending(o) = {}
      /\ \A p \in Objects : store[p] # Absent => store[p].status.id # nextId
  <2>1. Live(o, rec[o]) /\ rec[o].fin /\ ~rec[o].deleting
    BY <1>1, <1>2 DEF WorkInv
  <2>2. \A p \in Objects : store[p] # Absent => store[p].status.id < nextId
    BY DEF IInv, VersionInv, Sound, OwnId
  <2> QED BY <1>1, <1>2, <1>3, <2>1, <2>2, DefaultedIsObject
          DEF Live, Enrolled, Pending, Kept
<1>5. CASE Add(o)
  <2>1. PICK e : e.id = nextId /\ e.by = o /\ zone' = zone \cup {e} /\ nextId' = nextId + 1
    BY <1>5 DEF Add
  <2>2. nextId \notin abandoned /\ o # None
    BY <1>3, ObjectsAssumption DEF FreshInv
  <2>3. CASE AppendRecords(o)
    <3> DEFINE r == [rec[o] EXCEPT !.status.provider = provider, !.status.id = nextId]
    <3>1. r \in DefaultedObject /\ r.status.id = nextId
      BY <1>2, <1>3 DEF DefaultedObject, DNSRecordStatus
    <3>2. nextId # old[o].id /\ nextId # 0
      BY <1>2, <1>3 DEF WorkInv, OwnId
    <3>3. Proceed(o, r) /\ abandoned' = abandoned
      BY <2>3 DEF AppendRecords
    <3> HIDE DEF r
    <3>4. InFlight(o)' = {nextId} /\ OthersStay(o)
      BY <1>2, <3>1, <3>2, <3>3, ProceedFlight
    <3>5. Pending(o)' = {nextId}
      BY <2>1, <2>2, <3>3, <3>4 DEF Pending, Kept
    <3>6. \A p \in Objects \ {o} : Pending(p)' = Pending(p)
      <4>1. \A p \in Objects \ {o} : InFlight(p)' = InFlight(p)
        BY <3>4 DEF InFlight, OthersStay
      <4> QED BY <2>1, <3>3, <4>1 DEF Pending, Kept
    <3>7. \A p \in Objects : Named(p)' = Named(p)
      BY <1>1, <1>4, <2>1, <3>3 DEF Named, Kept
    <3>8. Lost' = Lost
      BY <2>1, <2>2, <3>3 DEF Lost, Ours
    <3>9. RO!Make(o, TRUE)
      BY <1>4, <2>1, <3>5, <3>6, <3>7, <3>8 DEF RO!Make
    <3>10. FreshInv'
      <4>1. \A p \in Objects \ {o} : InFlight(p)' = InFlight(p)
        BY <3>4 DEF InFlight, OthersStay
      <4>2. \A id \in abandoned' : id < nextId'
        BY <1>2, <1>3, <2>1, <3>3 DEF FreshInv, TypeOK
      <4> QED BY <1>1, <1>4, <3>4, <4>1, <4>2 DEF FreshInv
    <3> QED BY <3>9, <3>10
  <2>4. CASE AppendRecordsError(o)
    <3>1. abandoned' = abandoned \cup {nextId} /\ Return(o, TRUE)
      <4>1. nextId' # nextId
        BY <1>3, <2>1
      <4> QED BY <2>4, <4>1 DEF AppendRecordsError, providerVars
    <3>2. InFlight(o)' = {} /\ OthersStay(o)
      BY <1>2, <3>1, ReturnFlight
    <3>3. \A p \in Objects : nextId \notin InFlight(p)
      <4> SUFFICES ASSUME NEW p \in Objects, nextId \in InFlight(p) PROVE FALSE
        OBVIOUS
      <4>1. pc[p] = "updateStatus" /\ rec[p].status.id = nextId
        BY DEF InFlight
      <4> QED BY <1>3, <4>1, WorkingCopy DEF WorkInv, OwnId
    <3>4. \A p \in Objects : Pending(p)' = Pending(p)
      <4>1. \A p \in Objects : InFlight(p)' = InFlight(p)
        BY <1>2, <3>2 DEF InFlight, OthersStay
      <4> QED BY <2>1, <3>1, <3>3, <4>1 DEF Pending, Kept
    <3>5. \A p \in Objects : Named(p)' = Named(p)
      BY <1>1, <1>4, <2>1, <3>1 DEF Named, Kept
    <3>6. Lost' = Lost \cup {nextId}
      BY <2>1, <2>2, <3>1 DEF Lost, Ours
    <3>7. RO!Make(o, FALSE)
      BY <1>4, <2>1, <3>4, <3>5, <3>6 DEF RO!Make
    <3>8. FreshInv'
      BY <1>1, <1>2, <1>3, <2>1, <3>1, <3>2, RunFresh
    <3> QED BY <3>7, <3>8
  <2> QED BY <2>3, <2>4
<1>6. CASE ~Add(o)
  <2>1. UNCHANGED <<zone, nextId, abandoned>> /\ Return(o, TRUE)
    BY <1>6 DEF AppendRecords, AppendRecordsError, providerVars
  <2>2. InFlight(o)' = {} /\ OthersStay(o)
    BY <1>2, <2>1, ReturnFlight
  <2>3. FreshInv'
    BY <1>1, <1>2, <1>3, <2>1, <2>2, RunFresh
  <2> QED BY <1>1, <1>2, <2>1, <2>2, <2>3, RunStill
<1> QED BY <1>5, <1>6

\* Reconciles of the objects in O end before their status is written.
LEMMA MislayOwns ==
  ASSUME IInv, FreshInv, UNCHANGED <<store, zone, nextId>>, NEW O \in SUBSET Objects,
         abandoned' = abandoned \cup UNION {InFlight(o) : o \in O},
         \A p \in Objects : InFlight(p)' = IF p \in O THEN {} ELSE InFlight(p)
  PROVE  RO!Mislay(O) /\ FreshInv'
<1>1. ASSUME NEW o \in Objects, NEW id \in InFlight(o), NEW e \in zone, e.id = id
      PROVE  e.by = o
  <2>1. pc[o] = "updateStatus" /\ id = rec[o].status.id
    BY DEF InFlight
  <2> QED BY <1>1, <2>1, WorkingCopy DEF WorkInv, OwnId
<1>2. Enrolled' = Enrolled
  BY DEF Enrolled
<1>3. ASSUME NEW p \in Objects PROVE Named(p)' = Named(p)
  <2>1. CASE store[p] = Absent
    BY <2>1 DEF Named
  <2>2. CASE store[p] # Absent
    <3> DEFINE id == store[p].status.id
    <3>1. ASSUME NEW o \in O, id \in InFlight(o), NEW e \in zone, e.id = id, e.by = p
          PROVE  FALSE
      BY <1>1, <2>2, <3>1 DEF FreshInv
    <3> QED BY <2>2, <3>1 DEF Named, Kept
  <2> QED BY <2>1, <2>2
<1>4. ASSUME NEW p \in Objects
      PROVE  Pending(p)' = IF p \in O THEN {} ELSE Pending(p)
  <2>1. CASE p \in O
    BY <2>1 DEF Pending, Kept
  <2>2. CASE p \notin O
    <3>1. ASSUME NEW o \in O, NEW id \in InFlight(o), NEW e \in zone, e.id = id, e.by = p
          PROVE  FALSE
      BY <1>1, <2>2, <3>1
    <3> QED BY <2>2, <3>1 DEF Pending, Kept
  <2> QED BY <2>1, <2>2
<1>5. Lost' = Lost \cup UNION {Pending(o) : o \in O}
  <2>1. ASSUME NEW id \in Lost' PROVE id \in Lost \cup UNION {Pending(o) : o \in O}
    <3>1. PICK e \in zone : e.by # None /\ e.id = id
      BY DEF Lost, Ours
    <3>2. CASE id \in abandoned
      BY <3>1, <3>2 DEF Lost, Ours
    <3>3. CASE id \notin abandoned
      <4>1. PICK o \in O : id \in InFlight(o)
        BY <3>3 DEF Lost
      <4>2. e.by = o
        BY <1>1, <3>1, <4>1
      <4>3. id \in Pending(o)
        BY <3>1, <3>3, <4>1, <4>2 DEF Pending, Kept
      <4> QED BY <4>3
    <3> QED BY <3>2, <3>3
  <2>2. Lost \subseteq Lost'
    BY DEF Lost, Ours
  <2>3. ASSUME NEW o \in O, NEW id \in Pending(o) PROVE id \in Lost'
    BY ObjectsAssumption DEF Pending, Kept, Lost, Ours
  <2> QED BY <2>1, <2>2, <2>3
<1>6. [o \in Objects |-> Pending(o)]' =
        [o \in Objects |-> IF o \in O THEN {} ELSE [p \in Objects |-> Pending(p)][o]]
  BY <1>4
<1>7. UNION {[p \in Objects |-> Pending(p)][o] : o \in O} = UNION {Pending(o) : o \in O}
  OBVIOUS
<1>8. FreshInv'
  <2>1. \A id \in abandoned' : id < nextId'
    BY FlightHandedOut DEF FreshInv
  <2> QED BY <2>1 DEF FreshInv
<1> QED BY <1>2, <1>3, <1>5, <1>6, <1>7, <1>8 DEF RO!Mislay

\* A restart loses what is in flight.
LEMMA RestartOwns ==
  ASSUME IInv, FreshInv, Restart
  PROVE  RO!Mislay(Objects) /\ FreshInv'
<1>1. UNCHANGED <<store, zone, nextId>>
  BY DEF Restart, providerVars
<1>2. \A p \in Objects : InFlight(p)' = {}
  BY DEF Restart, InFlight
<1>3. abandoned' = abandoned \cup UNION {InFlight(o) : o \in Objects}
  BY DEF Restart
<1> QED BY <1>1, <1>2, <1>3, MislayOwns

\* A write that takes effect: what it says of the stored object.
LEMMA WrittenFacts ==
  ASSUME IInv, NEW o \in Objects, pc[o] # "idle", NEW v, Written(o, v)
  PROVE  /\ Current(o)
         /\ store'[o] = v /\ \A p \in Objects \ {o} : store'[p] = store[p]
         /\ InFlight(o)' = {} /\ OthersStay(o)
<1>1. TypeOK /\ WorkInv(o)
  BY WorkingCopy DEF IInv
<1>2. PICK again \in BOOLEAN : Return(o, again)
  BY DEF Written
<1> QED BY <1>1, <1>2, ReturnFlight DEF Written, Write, WorkInv, TypeOK

\* Only the status of o changes hands.
LEMMA OthersNamed ==
  ASSUME NEW o \in Objects, UNCHANGED <<zone, abandoned>>, OthersStay(o),
         \A p \in Objects \ {o} : store'[p] = store[p]
  PROVE  \A p \in Objects \ {o} : /\ Held(p)' = Held(p)
                                  /\ Named(p)' = Named(p)
                                  /\ InFlight(p)' = InFlight(p)
                                  /\ Pending(p)' = Pending(p)
<1>1. \A p \in Objects \ {o} : InFlight(p)' = InFlight(p)
  BY DEF InFlight, OthersStay
<1> QED BY <1>1 DEF Held, Named, Pending, Kept

\* The status of an appended record is stored, or the record is lost.
LEMMA UpdateStatusOwns ==
  ASSUME IInv, FreshInv, NEW o \in Objects, UpdateStatus(o)
  PROVE  (Still \/ RO!Commit(o) \/ RO!Mislay({o})) /\ FreshInv'
<1>1. pc[o] = "updateStatus" /\ UNCHANGED <<zone, nextId>>
  BY DEF UpdateStatus, providerVars
<1>2. TypeOK /\ WorkInv(o) /\ rec[o] \in DefaultedObject
  BY <1>1, WorkingCopy DEF IInv
<1>3. CASE Refused(o) /\ abandoned' = abandoned \cup InFlight(o)
  <2>1. UNCHANGED store /\ Return(o, TRUE)
    BY <1>3 DEF Refused, apiVars
  <2>2. InFlight(o)' = {} /\ OthersStay(o)
    BY <1>2, <2>1, ReturnFlight
  <2>3. \A p \in Objects : InFlight(p)' = IF p \in {o} THEN {} ELSE InFlight(p)
    BY <2>2 DEF InFlight, OthersStay
  <2>4. UNION {InFlight(p) : p \in {o}} = InFlight(o)
    OBVIOUS
  <2> QED BY <1>1, <1>3, <2>1, <2>3, <2>4, MislayOwns
<1>4. CASE /\ Written(o, [store[o] EXCEPT !.status = rec[o].status])
           /\ UNCHANGED abandoned
  <2> DEFINE v == [store[o] EXCEPT !.status = rec[o].status]
             id == rec[o].status.id
  <2>1. /\ Current(o)
        /\ store'[o] = v /\ \A p \in Objects \ {o} : store'[p] = store[p]
        /\ InFlight(o)' = {} /\ OthersStay(o)
    BY <1>1, <1>4, WrittenFacts
  <2>2. store[o] \in DNSRecordObject /\ store[o].status = old[o]
    BY <1>2, <2>1 DEF Current, TypeOK
  <2>3. v \in DNSRecordObject /\ v.status = rec[o].status /\ v.fin = store[o].fin
    BY <1>2, <2>2 DEF DNSRecordObject, DefaultedObject
  <2>4. store'[o] # Absent /\ Held(o)' = Held(o)
    BY <2>1, <2>2, <2>3, ObjectsAssumption DEF Held
  <2>5. \A e \in zone : e.id # 0
    BY <1>2 DEF TypeOK, ProviderRecord
  <2>6. Named(o)' = Kept(o, {id}) /\ Named(o) = Kept(o, {old[o].id}) /\ Pending(o)' = {}
    <3>1. store'[o].status.id = id
      BY <2>1, <2>3
    <3>2. store[o] # Absent /\ store[o].status.id = old[o].id
      BY <2>1, <2>2 DEF Current
    <3> QED BY <1>1, <1>4, <2>1, <2>4, <3>1, <3>2 DEF Named, Pending, Kept
  <2>7. \A p \in Objects \ {o} : /\ Held(p)' = Held(p)
                                 /\ Named(p)' = Named(p)
                                 /\ InFlight(p)' = InFlight(p)
                                 /\ Pending(p)' = Pending(p)
    BY <1>1, <1>4, <2>1, OthersNamed
  <2>8. Enrolled' = Enrolled /\ Lost' = Lost
    BY <1>1, <1>4, <2>4, <2>7 DEF Enrolled, Held, Lost, Ours
  <2>a. FreshInv'
    BY <1>1, <1>2, <1>4, <2>1, RunFresh, NextIdType
  <2>9. CASE id = old[o].id
    <3>1. Named(o)' = Named(o) /\ Pending(o) = {}
      BY <2>6, <2>9 DEF Pending, Kept, InFlight
    <3> QED BY <1>1, <2>6, <2>7, <2>8, <2>a, <3>1 DEF Still
  <2>10. CASE id # old[o].id
    <3>1. Named(o) = {}
      BY <1>1, <1>2, <2>6, <2>10 DEF WorkInv, Gone, Kept
    <3>2. Named(o)' = Pending(o)
      <4>1. InFlight(o) = {id} \ {0}
        BY <1>1, <2>10 DEF InFlight
      <4> QED BY <2>5, <2>6, <4>1 DEF Pending, Kept
    <3>3. CASE Pending(o) = {}
      BY <1>1, <2>6, <2>7, <2>8, <2>a, <3>1, <3>2, <3>3 DEF Still
    <3>4. CASE Pending(o) # {}
      BY <1>1, <2>6, <2>7, <2>8, <2>a, <3>1, <3>2, <3>4 DEF RO!Commit
    <3> QED BY <3>3, <3>4
  <2> QED BY <2>9, <2>10
<1> QED BY <1>3, <1>4 DEF UpdateStatus

\* A reconcile whose write is refused while nothing is in flight.
LEMMA RefusedStill ==
  ASSUME TypeOK, FreshInv, NEW o \in Objects, Refused(o), InFlight(o) = {},
         UNCHANGED <<zone, nextId, abandoned>>
  PROVE  Still /\ FreshInv'
<1>1. UNCHANGED store /\ Return(o, TRUE)
  BY DEF Refused, apiVars
<1>2. InFlight(o)' = {} /\ OthersStay(o)
  BY <1>1, ReturnFlight
<1>3. FreshInv'
  BY <1>1, <1>2, RunFresh, NextIdType
<1> QED BY <1>1, <1>2, <1>3, RunStill

\* The finalizer enrols an object.
LEMMA SetFinalizerOwns ==
  ASSUME IInv, FreshInv, NEW o \in Objects, SetFinalizer(o)
  PROVE  (Still \/ RO!Enroll(o)) /\ FreshInv'
<1>1. /\ pc[o] = "setFinalizer" /\ UNCHANGED <<zone, nextId, abandoned>>
      /\ InFlight(o) = {} /\ Pending(o) = {}
  BY DEF SetFinalizer, providerVars, InFlight, Pending, Kept
<1>2. TypeOK /\ WorkInv(o) /\ rec[o] \in DefaultedObject
  BY <1>1, WorkingCopy DEF IInv
<1>3. CASE Refused(o)
  BY <1>1, <1>2, <1>3, RefusedStill
<1>4. CASE Written(o, [store[o] EXCEPT !.fin = TRUE, !.spec = rec[o].spec])
  <2> DEFINE v == [store[o] EXCEPT !.fin = TRUE, !.spec = rec[o].spec]
  <2>1. /\ Current(o)
        /\ store'[o] = v /\ \A p \in Objects \ {o} : store'[p] = store[p]
        /\ InFlight(o)' = {} /\ OthersStay(o)
    BY <1>1, <1>4, WrittenFacts
  <2>2. store[o] \in DNSRecordObject /\ store[o] # Absent
    BY <1>2, <2>1 DEF Current, TypeOK
  <2>3. v \in DNSRecordObject /\ v.status = store[o].status /\ v.fin
    <3>1. rec[o].spec \in DNSRecordSpec
      BY <1>2 DEF DefaultedObject, DefaultedSpec, DNSRecordSpec
    <3> QED BY <2>2, <3>1 DEF DNSRecordObject
  <2>4. store'[o] # Absent /\ Held(o)'
    BY <2>1, <2>2, <2>3, ObjectsAssumption DEF Held
  <2>5. Named(o)' = Named(o) /\ Pending(o)' = Pending(o)
    BY <1>1, <2>1, <2>2, <2>3, <2>4 DEF Named, Pending, Kept
  <2>6. \A p \in Objects \ {o} : /\ Held(p)' = Held(p)
                                 /\ Named(p)' = Named(p)
                                 /\ InFlight(p)' = InFlight(p)
                                 /\ Pending(p)' = Pending(p)
    BY <1>1, <2>1, OthersNamed
  <2>7. Enrolled' = Enrolled \cup {o} /\ Lost' = Lost
    BY <1>1, <2>4, <2>6 DEF Enrolled, Held, Lost, Ours
  <2>a. FreshInv'
    BY <1>1, <1>2, <2>1, RunFresh, NextIdType
  <2>8. CASE o \in Enrolled
    <3>1. Enrolled' = Enrolled
      BY <2>7, <2>8
    <3> QED BY <1>1, <2>5, <2>6, <2>7, <2>a, <3>1 DEF Still
  <2>9. CASE o \notin Enrolled
    BY <1>1, <2>5, <2>6, <2>7, <2>9, <2>a DEF RO!Enroll
  <2> QED BY <2>8, <2>9
<1> QED BY <1>3, <1>4 DEF SetFinalizer

\* An object withdraws when it holds no record; a coredns deployment lets it
\* go with one.
LEMMA RemoveFinalizerOwns ==
  ASSUME IInv, FreshInv, NEW o \in Objects, RemoveFinalizer(o)
  PROVE  (Still \/ RO!Withdraw(o)) /\ FreshInv'
<1>1. /\ pc[o] = "removeFinalizer" /\ UNCHANGED <<zone, nextId>>
      /\ InFlight(o) = {} /\ Pending(o) = {}
  BY DEF RemoveFinalizer, providerVars, InFlight, Pending, Kept
<1>2. TypeOK /\ WorkInv(o) /\ ZoneInv
  BY <1>1, WorkingCopy DEF IInv
<1>3. CASE Refused(o) /\ UNCHANGED abandoned
  BY <1>1, <1>2, <1>3, RefusedStill
<1>4. CASE /\ Written(o, Absent)
           /\ abandoned' = IF provider = Coredns
                           THEN abandoned \cup ({store[o].status.id} \ {0})
                           ELSE abandoned
  <2> DEFINE id == store[o].status.id
  <2>1. /\ Current(o)
        /\ store'[o] = Absent /\ \A p \in Objects \ {o} : store'[p] = store[p]
        /\ InFlight(o)' = {} /\ OthersStay(o)
    BY <1>1, <1>4, WrittenFacts
  <2>2. /\ store[o] # Absent /\ id = old[o].id
        /\ \A e \in zone : e.id = id => e.by = o
        /\ \A e \in zone : e.id # 0
    BY <1>2, <2>1 DEF Current, WorkInv, OwnId, TypeOK, ProviderRecord
  <2>a. FreshInv'
    <3>1. id < nextId
      BY <2>2 DEF IInv, VersionInv, Sound, OwnId
    <3>2. \A x \in abandoned' : x \in abandoned \/ x < nextId'
      BY <1>1, <1>4, <3>1
    <3> QED BY <1>1, <1>2, <2>1, <3>2, RunFresh, NextIdType
  <2>3. CASE provider # Coredns
    <3>1. Named(o) = {} /\ abandoned' = abandoned
      BY <1>1, <1>2, <1>4, <2>2, <2>3 DEF WorkInv, Named, Kept
    <3>2. Named(o)' = {} /\ Pending(o)' = {}
      BY <2>1 DEF Named, Pending, Kept
    <3>3. \A p \in Objects \ {o} : /\ Held(p)' = Held(p)
                                   /\ Named(p)' = Named(p)
                                   /\ InFlight(p)' = InFlight(p)
                                   /\ Pending(p)' = Pending(p)
      BY <1>1, <2>1, <3>1, OthersNamed
    <3>4. Enrolled' = Enrolled \ {o} /\ Lost' = Lost \cup Named(o)
      BY <1>1, <2>1, <3>1, <3>3 DEF Enrolled, Held, Lost, Ours
    <3> QED BY <1>1, <2>a, <3>1, <3>2, <3>3, <3>4 DEF RO!Withdraw
  <2>4. CASE provider = Coredns
    <3>1. Coredns \in Deployments /\ abandoned' = abandoned \cup ({id} \ {0})
      BY <1>2, <1>4, <2>4 DEF TypeOK
    <3>2. Named(o)' = {} /\ Pending(o)' = {}
      BY <2>1 DEF Named, Pending, Kept
    <3>3. \A p \in Objects \ {o} : Named(p)' = Named(p) /\ Pending(p)' = Pending(p)
      <4>1. \A p \in Objects \ {o} : InFlight(p)' = InFlight(p)
        BY <2>1 DEF InFlight, OthersStay
      <4>2. \A p \in Objects \ {o} : \A e \in zone : e.by = p => e.id # id
        BY <2>2
      <4> HIDE DEF id
      <4> QED BY <1>1, <2>1, <3>1, <4>1, <4>2 DEF Named, Pending, Kept
    <3>4. Enrolled' = Enrolled \ {o}
      BY <2>1 DEF Enrolled
    <3>5. Lost' = Lost \cup Named(o)
      <4>1. Named(o) = {x \in {id} \ abandoned : \E e \in zone : e.by = o /\ e.id = x}
        BY <2>2 DEF Named, Kept
      <4>2. o # None
        BY ObjectsAssumption
      <4> HIDE DEF id
      <4> QED BY <1>1, <2>2, <3>1, <4>1, <4>2 DEF Lost, Ours
    <3> QED BY <1>1, <2>a, <3>1, <3>2, <3>3, <3>4, <3>5 DEF RO!Withdraw
  <2> QED BY <2>3, <2>4
<1> QED BY <1>3, <1>4 DEF RemoveFinalizer

(***************************************************************************)
(* The refinement.                                                         *)
(***************************************************************************)

\* Every step maps to a step of RecordOwnership or to a stutter.
LEMMA NextOwns ==
  IInv /\ FreshInv /\ [Next]_vars => [RO!Next]_(RO!vars) /\ FreshInv'
<1> SUFFICES ASSUME IInv, FreshInv, [Next]_vars
             PROVE  [RO!Next]_(RO!vars) /\ FreshInv'
  OBVIOUS
<1>1. CASE Objects = {} \/ UNCHANGED vars \/ \E d \in Rdata : Propagate(d)
  <2>1. CASE Restart
    BY <2>1, RestartOwns DEF RO!Next
  <2>2. CASE ~Restart
    <3>1. UNCHANGED <<store, zone, nextId, abandoned, pc, rec, old>>
      BY <1>1, <2>2 DEF Next, Propagate, vars, runVars, providerVars
    <3>2. Still
      BY <3>1, Untouched DEF Held, Named, Kept, InFlight
    <3>3. FreshInv'
      BY <3>1 DEF FreshInv, InFlight
    <3> QED BY <3>2, <3>3, StillStutters
  <2> QED BY <2>1, <2>2
<1>2. CASE Restart
  BY <1>2, RestartOwns DEF RO!Next
<1>3. ASSUME NEW o \in Objects,
             User(o) \/ Deliver(o) \/ Resync(o) \/ Requeue(o) \/ Start(o)
      PROVE  [RO!Next]_(RO!vars) /\ FreshInv'
  <2>1. Still /\ FreshInv'
    BY <1>3, UserOwns, QueueOwns DEF IInv
  <2> QED BY <2>1, StillStutters
<1>4. ASSUME NEW o \in Objects, Reconcile(o)
      PROVE  [RO!Next]_(RO!vars) /\ FreshInv'
  <2>1. /\ \/ Still
           \/ RO!Forget(o) \/ RO!Delete(o) \/ RO!Commit(o) \/ RO!Enroll(o)
           \/ RO!Withdraw(o) \/ RO!Mislay({o})
           \/ \E known \in BOOLEAN : RO!Make(o, known)
           \/ \E id \in Lost : RO!Recover(id)
        /\ FreshInv'
    BY <1>4, CallOwns, CompareOwns, DeleteOwns, AppendOwns, SetFinalizerOwns,
       UpdateStatusOwns, RemoveFinalizerOwns DEF Reconcile
  <2>2. {o} \in SUBSET Objects
    OBVIOUS
  <2> QED BY <2>1, <2>2, StillStutters DEF RO!Next
<1> QED BY <1>1, <1>2, <1>3, <1>4 DEF Next

\* The DNSRecord controller implements RecordOwnership, for any number of
\* objects, workers, providers, edits, faults and restarts: it makes records
\* only for objects that carry the finalizer, names one at a time, lets an
\* object go only without one, and loses records in the listed ways only.
THEOREM Ownership == Spec => Owns
<1>1. Init => FreshInv
  BY DEF Init, FreshInv
<1> QED BY <1>1, InitOwns, NextOwns, Invariance, PTL DEF Spec, Owns, RO!Spec
=============================================================================
