------------------------ MODULE ChildProviderProofs ------------------------
(***************************************************************************)
(* Proofs about ChildProvider: type correctness of the composition, and    *)
(* that a record is leaked only by a child that lost the finalizer of the  *)
(* DNSRecord controller or by a status write that is refused               *)
(* (LeaksAccounted).                                                       *)
(***************************************************************************)
EXTENDS ChildProvider, ChildRecordsProofs

(***************************************************************************)
(* Type correctness.                                                       *)
(***************************************************************************)

\* A write of the DNSRecord controller keeps the owners' side well-typed.
LEMMA RecordWriteType ==
  ASSUME TypeOK, NEW c \in Children, NEW r \in Record \cup {Absent}, Write(c, r),
         UNCHANGED elsewhere
  PROVE  TypeOK'
<1>1. ChildType'
  BY WriteType DEF TypeOK, ChildType
<1> QED
  BY <1>1 DEF TypeOK, ChildType, elsewhere, cluster, caches, failures

\* A step of the owners' side is a step of ChildRecords.
LEMMA OwnerSideType ==
  ASSUME CompositionTypeOK, OwnerSide
  PROVE  CompositionTypeOK'
<1>1. TypeOK'
  BY OwnerType, EventType, ReconcileType, ClusterType DEF OwnerSide, CompositionTypeOK
<1>2. Carry
  BY DEF OwnerSide
<1>3. status' \in [Children -> Ids \cup {0}] /\ seen' \in [Children -> Ids \cup {0}]
  BY <1>2 DEF Carry, CompositionTypeOK
<1>4. /\ zone' = zone /\ running' = running /\ got' = got
      /\ stale' \subseteq running /\ stripped' \subseteq Children
  BY <1>2 DEF Carry, CompositionTypeOK
<1> QED
  BY <1>1, <1>3, <1>4 DEF CompositionTypeOK

\* The ID of a new record is one that nothing about the child has.
LEMMA NewIdType ==
  ASSUME NEW c \in Children, Ids \ Used(c) # {}
  PROVE  NewId(c) \in Ids /\ NewId(c) \notin Used(c)
BY DEF NewId

\* A cached child and the record that it asks for.
LEMMA AskedType ==
  ASSUME CompositionTypeOK, NEW c \in Children, Handled(c)
  PROVE  /\ childCache[c] \in Record
         /\ Asked(c).host \in Hosts /\ Asked(c).ip \in Ips
BY DEF CompositionTypeOK, TypeOK, Handled, Record, Asked

\* What an answer of the provider does to the reconcile of c.
LEMMA AnsweredType ==
  ASSUME CompositionTypeOK, NEW c \in Children, NEW i \in Ids \cup {0}, Answered(c, i)
  PROVE  /\ running' \subseteq Children /\ stale' \subseteq running'
         /\ got' \in [Children -> Ids \cup {0}]
BY DEF CompositionTypeOK, Answered

LEMMA RecordSideType ==
  ASSUME CompositionTypeOK, NEW c \in Children, RecordSide(c)
  PROVE  CompositionTypeOK'
<1>1. TypeOK /\ child[c] \in Record \cup {Absent}
  BY DEF CompositionTypeOK, TypeOK
<1>2. child[c] # Absent => [child[c] EXCEPT !.fin = TRUE] \in Record
  BY <1>1 DEF Record
<1>3. CASE Enrol(c)
  <2>1. child[c] # Absent /\ Write(c, [child[c] EXCEPT !.fin = TRUE]) /\ UNCHANGED elsewhere
    BY <1>3 DEF Enrol
  <2>2. TypeOK'
    BY <1>1, <1>2, <2>1, RecordWriteType
  <2> QED
    BY <1>3, <2>2 DEF Enrol, reconciles, CompositionTypeOK
<1>4. CASE Publish(c)
  <2>1. TypeOK'
    BY <1>1, <1>4 DEF Publish, vars, TypeOK
  <2>2. Handled(c) /\ NewId(c) \in Ids
    BY <1>4, NewIdType DEF Publish, Due
  <2>3. [id |-> NewId(c), host |-> Asked(c).host, ip |-> Asked(c).ip, by |-> c] \in Held
    BY <2>2, AskedType DEF Held
  <2>4. zone' \subseteq Held
    BY <1>4, <2>3 DEF Publish, CompositionTypeOK
  <2>5. /\ running' \subseteq Children /\ stale' \subseteq running'
        /\ got' \in [Children -> Ids \cup {0}]
    BY <1>4, <2>2, AnsweredType DEF Publish
  <2> QED
    BY <1>4, <2>1, <2>4, <2>5 DEF Publish, CompositionTypeOK
<1>5. CASE Withdraw(c)
  <2>1. TypeOK'
    BY <1>1, <1>5 DEF Withdraw, vars, TypeOK
  <2>2. /\ running' \subseteq Children /\ stale' \subseteq running'
        /\ got' \in [Children -> Ids \cup {0}]
    BY <1>5, AnsweredType DEF Withdraw
  <2> QED
    BY <1>5, <2>1, <2>2 DEF Withdraw, CompositionTypeOK
<1>6. CASE StoreStatus(c)
  <2>1. UNCHANGED elsewhere
    BY <1>6 DEF StoreStatus
  <2>2. TypeOK'
    <3>1. CASE c \in stale
      BY <1>1, <1>6, <2>1, <3>1
      DEF StoreStatus, TypeOK, elsewhere, cluster, caches, failures
    <3>2. CASE c \notin stale
      BY <1>1, <1>6, <2>1, <3>2, RecordWriteType DEF StoreStatus
    <3> QED
      BY <3>1, <3>2
  <2> QED
    BY <1>6, <2>2 DEF StoreStatus, CompositionTypeOK
<1>7. CASE Finish(c)
  <2>1. Write(c, Absent) /\ UNCHANGED elsewhere
    BY <1>7 DEF Finish
  <2>2. TypeOK'
    BY <1>1, <2>1, RecordWriteType
  <2> QED
    BY <1>7, <2>2 DEF Finish, reconciles, CompositionTypeOK
<1> QED
  BY <1>3, <1>4, <1>5, <1>6, <1>7 DEF RecordSide

LEMMA CompositionNextType ==
  CompositionTypeOK /\ [CompositionNext]_allVars => CompositionTypeOK'
<1> SUFFICES ASSUME CompositionTypeOK, [CompositionNext]_allVars
             PROVE  CompositionTypeOK'
  OBVIOUS
<1>1. CASE UNCHANGED allVars
  BY <1>1 DEF allVars, vars, reconciles, CompositionTypeOK, TypeOK
<1>2. CASE CompositionNext
  BY <1>2, OwnerSideType, RecordSideType DEF CompositionNext
<1> QED
  BY <1>1, <1>2

\* The composition is well-typed: the two controllers, which write the same
\* children, leave each other with records they can deal with, and what a
\* status holds is an ID of the provider or nothing.
THEOREM CompositionTypeCorrect == CompositionSpec => []CompositionTypeOK
<1>1. CompositionInit => CompositionTypeOK
  BY InitType DEF CompositionInit, CompositionTypeOK
<1> QED
  BY <1>1, CompositionNextType, PTL DEF CompositionSpec

(***************************************************************************)
(* Leaks.  LeakInv is the strengthening that LeaksAccounted needs.         *)
(***************************************************************************)

\* A child whose status names a record that exists is there, and has the
\* finalizer unless it was stripped of it.
Guarded ==
  \A e \in zone :
    status[e.by] = e.id =>
      child[e.by] # Absent /\ (child[e.by].fin \/ e.by \in stripped)

\* What is cached of a child that is not lagging is what is stored.
Cached ==
  \A c \in Children :
    c \notin lagging => childCache[c] = child[c] /\ seen[c] = status[c]

\* A status write that will not be refused gives up no record, and the one it
\* names is guarded by the finalizer.
Pending ==
  \A c \in running \ stale :
    /\ got[c] # 0 => child[c] # Absent /\ child[c].fin
    /\ \A e \in zone : e.by = c => status[c] # e.id

LeakInv == CompositionTypeOK /\ Guarded /\ Cached /\ Pending

\* A step of the owners' side delivers a child, writes one, which then lags, or
\* does neither.
OwnerShape ==
  \/ \E c \in Children : DeliverChild(c)
  \/ \E c \in Children : \E r : Write(c, r) /\ UNCHANGED childCache
  \/ UNCHANGED <<child, childCache, lagging>>

LEMMA OwnerSideShape ==
  ASSUME TypeOK, OwnerSide
  PROVE  OwnerShape
<1>1. work \in [Owners -> Work]
  BY DEF TypeOK
<1>2. ASSUME NEW n \in Owners, WriteOwner(n) \/ DeleteOwner(n) \/ DeliverOwner(n) \/ Resync(n)
      PROVE  OwnerShape
  BY <1>2 DEF WriteOwner, DeleteOwner, DeliverOwner, Resync, caches, OwnerShape
<1>3. ASSUME NEW n \in Owners, Take(n) \/ CallRefused(n)
      PROVE  OwnerShape
  BY <1>3 DEF Take, CallRefused, caches, OwnerShape
<1>4. ASSUME NEW n \in Owners, DeleteRecord(n) PROVE OwnerShape
  <2>1. PICK c \in NextDelete(n) : DeleteCall(c)
    BY <1>4 DEF DeleteRecord
  <2>2. c \in Children /\ UNCHANGED childCache
    BY <1>1, <1>4, NextCallType DEF DeleteRecord, caches
  <2> QED
    BY <2>1, <2>2 DEF DeleteCall, OwnerShape
<1>5. ASSUME NEW n \in Owners, CreateRecord(n) PROVE OwnerShape
  <2>1. PICK i \in NextCreate(n) : CreateCall(n, i)
    BY <1>5 DEF CreateRecord
  <2>2. i.name \in Children /\ UNCHANGED childCache
    BY <1>1, <1>5, NextCallType DEF CreateRecord, caches, Item
  <2> QED
    BY <2>1, <2>2 DEF CreateCall, OwnerShape
<1>6. ASSUME NEW n \in Owners, UpdateRecord(n) PROVE OwnerShape
  <2>1. PICK i \in NextUpdate(n) : UpdateCall(n, i)
    BY <1>6 DEF UpdateRecord
  <2>2. i.name \in Children /\ UNCHANGED childCache
    BY <1>1, <1>6, NextCallType DEF UpdateRecord, caches, Item
  <2> QED
    BY <2>1, <2>2 DEF UpdateCall, OwnerShape
<1>7. ASSUME NEW c \in Children, Collect(c) PROVE OwnerShape
  BY <1>7 DEF Collect, caches, OwnerShape
<1>8. ASSUME NEW c \in Children, DeliverChild(c) PROVE OwnerShape
  BY <1>8 DEF OwnerShape
<1> QED
  BY <1>2, <1>3, <1>4, <1>5, <1>6, <1>7, <1>8 DEF OwnerSide, Reconcile

\* What is not lagging after such a step was delivered or left alone by it.
LEMMA NotLagging ==
  ASSUME TypeOK, OwnerShape, NEW c \in Children, c \notin lagging'
  PROVE  /\ child'[c] = child[c]
         /\ childCache'[c] = IF c \in lagging THEN child[c] ELSE childCache[c]
<1>1. ASSUME NEW d \in Children, DeliverChild(d)
      PROVE  /\ child'[c] = child[c]
             /\ childCache'[c] = IF c \in lagging THEN child[c] ELSE childCache[c]
  BY <1>1 DEF DeliverChild, TypeOK
<1>2. ASSUME NEW d \in Children, NEW r, Write(d, r), UNCHANGED childCache
      PROVE  /\ child'[c] = child[c]
             /\ childCache'[c] = IF c \in lagging THEN child[c] ELSE childCache[c]
  BY <1>2 DEF Write, TypeOK
<1> QED
  BY <1>1, <1>2 DEF OwnerShape

\* The owners' side keeps the invariant: a status goes with its child, a
\* delivery brings its latest version, and a reconcile under way is stale once
\* its child has changed.
LEMMA OwnerSideKeeps ==
  ASSUME LeakInv, OwnerSide
  PROVE  Guarded' /\ Cached' /\ Pending'
<1>1. CompositionTypeOK /\ TypeOK /\ Carry /\ OwnerShape
  BY OwnerSideShape DEF LeakInv, CompositionTypeOK, OwnerSide
<1>2. zone' = zone /\ running' = running /\ got' = got /\ zone \subseteq Held
  BY <1>1 DEF Carry, CompositionTypeOK
<1>3. Guarded'
  <2> SUFFICES ASSUME NEW e \in zone, status'[e.by] = e.id
               PROVE  child'[e.by] # Absent /\ (child'[e.by].fin \/ e.by \in stripped')
    BY <1>2 DEF Guarded
  <2>1. e.by \in Children /\ e.id # 0
    BY <1>2, IdsAssumption DEF Held
  <2>2. status'[e.by] = IF Gone(e.by) THEN 0 ELSE status[e.by]
    BY <1>1, <2>1 DEF Carry
  <2>3. ~Gone(e.by) /\ status[e.by] = e.id
    BY <2>1, <2>2
  <2>4. child[e.by] # Absent /\ (child[e.by].fin \/ e.by \in stripped)
    BY <2>3 DEF LeakInv, Guarded
  <2>5. child'[e.by] # Absent
    BY <2>3, <2>4 DEF Gone
  <2>6. /\ e.by \in stripped => e.by \in stripped'
        /\ child[e.by].fin /\ ~child'[e.by].fin => e.by \in stripped'
    BY <1>1, <2>1, <2>4 DEF Carry
  <2> QED
    BY <2>4, <2>5, <2>6
<1>4. Cached'
  <2> SUFFICES ASSUME NEW c \in Children, c \notin lagging'
               PROVE  childCache'[c] = child'[c] /\ seen'[c] = status'[c]
    BY DEF Cached
  <2>1. /\ child'[c] = child[c]
        /\ childCache'[c] = IF c \in lagging THEN child[c] ELSE childCache[c]
    BY <1>1, NotLagging
  <2>2. status'[c] = status[c]
    BY <1>1, <2>1 DEF Carry, Gone
  <2>3. seen'[c] = IF c \in lagging THEN status[c] ELSE seen[c]
    BY <1>1 DEF Carry
  <2> QED
    BY <2>1, <2>2, <2>3 DEF LeakInv, Cached
<1>5. Pending'
  <2> SUFFICES ASSUME NEW c \in running \ stale'
               PROVE  /\ got[c] # 0 => child'[c] # Absent /\ child'[c].fin
                      /\ \A e \in zone : e.by = c => status'[c] # e.id
    BY <1>2 DEF Pending
  <2>1. c \in Children /\ c \notin stale /\ child'[c] = child[c]
    BY <1>1 DEF Carry, CompositionTypeOK
  <2>2. status'[c] = status[c]
    BY <1>1, <2>1 DEF Carry, Gone
  <2> QED
    BY <2>1, <2>2 DEF LeakInv, Pending
<1> QED
  BY <1>3, <1>4, <1>5

\* Setting the finalizer of a child that is not under reconcile.
LEMMA EnrolKeeps ==
  ASSUME LeakInv, NEW c \in Children, Enrol(c)
  PROVE  Guarded' /\ Cached' /\ Pending'
<1>1. /\ child \in [Children -> Record \cup {Absent}] /\ zone \subseteq Held
      /\ running \subseteq Children
  BY DEF LeakInv, CompositionTypeOK, TypeOK
<1>2. /\ child[c] \in Record /\ c \notin running
      /\ child' = [child EXCEPT ![c] = [child[c] EXCEPT !.fin = TRUE]]
      /\ lagging' = lagging \cup {c} /\ stripped' = stripped \ {c}
      /\ UNCHANGED <<childCache, zone, status, seen, running, got, stale>>
  BY <1>1 DEF Enrol, Write, reconciles, elsewhere, caches
<1>3. child'[c] # Absent /\ child'[c].fin /\ \A d \in Children : d # c => child'[d] = child[d]
  BY <1>1, <1>2, AbsentAssumption DEF Record
<1>4. Guarded'
  BY <1>1, <1>2, <1>3 DEF LeakInv, Guarded, Held
<1>5. Cached'
  BY <1>2, <1>3 DEF LeakInv, Cached
<1>6. Pending'
  BY <1>1, <1>2, <1>3 DEF LeakInv, Pending
<1> QED
  BY <1>4, <1>5, <1>6

\* A step that calls the provider for c: the records of other children stay, of
\* those of c the one that the cached status names goes, and a new one has an
\* ID of its own.  If the cached child is the latest version, the status names
\* none of the records that are left.
LEMMA AnswerKeeps ==
  ASSUME LeakInv, NEW c \in Children, NEW i, Answered(c, i), c \notin running,
         UNCHANGED <<vars, status, seen, stripped>>,
         \A e \in zone' : \/ e \in zone /\ e \notin Own(c)
                          \/ e.by = c /\ e.id # status[c],
         i # 0 => childCache[c] # Absent /\ childCache[c].fin
  PROVE  Guarded' /\ Cached' /\ Pending'
<1>1. /\ zone \subseteq Held /\ running \subseteq Children
      /\ got \in [Children -> Ids \cup {0}]
  BY DEF LeakInv, CompositionTypeOK
<1>2. UNCHANGED <<child, childCache, lagging, status, seen, stripped>>
  BY DEF vars
<1>3. Guarded'
  BY <1>2 DEF LeakInv, Guarded
<1>4. Cached'
  BY <1>2 DEF LeakInv, Cached
<1>5. Pending'
  <2> SUFFICES ASSUME NEW d \in running' \ stale'
               PROVE  /\ got'[d] # 0 => child[d] # Absent /\ child[d].fin
                      /\ \A e \in zone' : e.by = d => status[d] # e.id
    BY <1>2 DEF Pending
  <2>1. CASE d = c
    <3>1. c \notin lagging /\ got'[c] = i
      BY <1>1, <2>1 DEF Answered
    <3>2. childCache[c] = child[c] /\ seen[c] = status[c]
      BY <3>1 DEF LeakInv, Cached
    <3>3. \A e \in zone' : e.by = c => status[c] # e.id
      BY <3>2 DEF Own
    <3> QED
      BY <2>1, <3>1, <3>2, <3>3
  <2>2. CASE d # c
    <3>1. d \in running \ stale /\ got'[d] = got[d]
      BY <1>1, <2>2 DEF Answered
    <3> QED
      BY <2>2, <3>1 DEF LeakInv, Pending
  <2> QED
    BY <2>1, <2>2
<1> QED
  BY <1>3, <1>4, <1>5

LEMMA PublishKeeps ==
  ASSUME LeakInv, NEW c \in Children, Publish(c)
  PROVE  Guarded' /\ Cached' /\ Pending'
<1> DEFINE new == [id |-> NewId(c), host |-> Asked(c).host, ip |-> Asked(c).ip, by |-> c]
<1>1. NewId(c) \in Ids /\ NewId(c) # status[c]
  BY NewIdType DEF Publish, Used
<1>2. new.by = c /\ new.id # status[c]
  BY <1>1
<1>3. \A e \in zone' : \/ e \in zone /\ e \notin Own(c)
                       \/ e.by = c /\ e.id # status[c]
  BY <1>2 DEF Publish
<1> HIDE DEF new
<1> QED
  BY <1>1, <1>3, AnswerKeeps DEF Publish, Due, Handled

LEMMA WithdrawKeeps ==
  ASSUME LeakInv, NEW c \in Children, Withdraw(c)
  PROVE  Guarded' /\ Cached' /\ Pending'
BY AnswerKeeps DEF Withdraw, Handled

\* The status write: refused, it changes nothing that is stored.
LEMMA StoreStatusKeeps ==
  ASSUME LeakInv, NEW c \in Children, StoreStatus(c)
  PROVE  Guarded' /\ Cached' /\ Pending'
<1>1. /\ child \in [Children -> Record \cup {Absent}] /\ zone \subseteq Held
      /\ running \subseteq Children /\ got \in [Children -> Ids \cup {0}]
      /\ status \in [Children -> Ids \cup {0}]
  BY DEF LeakInv, CompositionTypeOK, TypeOK
<1>2. /\ running' = running \ {c} /\ stale' = stale \ {c} /\ c \in running
      /\ \A d \in Children : d # c => got'[d] = got[d]
      /\ UNCHANGED <<childCache, zone, seen, stripped>>
  BY <1>1 DEF StoreStatus, elsewhere, caches
<1>3. CASE c \in stale
  <2>1. UNCHANGED <<child, lagging, status>>
    BY <1>3 DEF StoreStatus
  <2> QED
    BY <1>1, <1>2, <2>1 DEF LeakInv, Guarded, Cached, Pending
<1>4. CASE c \notin stale
  <2>1. /\ child' = child /\ lagging' = lagging \cup {c}
        /\ status' = [status EXCEPT ![c] = got[c]]
    BY <1>1, <1>4 DEF StoreStatus, Write
  <2>2. got[c] # 0 => child[c] # Absent /\ child[c].fin
    BY <1>2, <1>4 DEF LeakInv, Pending
  <2>3. \A e \in zone : e.id # 0 /\ e.by \in Children
    BY <1>1, IdsAssumption DEF Held
  <2>4. Guarded'
    BY <1>1, <1>2, <2>1, <2>2, <2>3 DEF LeakInv, Guarded
  <2>5. Cached'
    BY <1>1, <1>2, <2>1 DEF LeakInv, Cached
  <2>6. Pending'
    BY <1>1, <1>2, <2>1 DEF LeakInv, Pending
  <2> QED
    BY <2>4, <2>5, <2>6
<1> QED
  BY <1>3, <1>4

\* A child whose finalizer is removed names no record.
LEMMA FinishKeeps ==
  ASSUME LeakInv, NEW c \in Children, Finish(c)
  PROVE  Guarded' /\ Cached' /\ Pending'
<1>1. /\ child \in [Children -> Record \cup {Absent}] /\ zone \subseteq Held
      /\ running \subseteq Children
  BY DEF LeakInv, CompositionTypeOK, TypeOK
<1>2. /\ c \notin running /\ c \notin lagging /\ seen[c] = 0
      /\ child' = [child EXCEPT ![c] = Absent] /\ lagging' = lagging \cup {c}
      /\ UNCHANGED <<childCache, zone, status, seen, running, got, stale, stripped>>
  BY DEF Finish, Handled, Write, reconciles, elsewhere, caches
<1>3. status[c] = 0
  BY <1>2 DEF LeakInv, Cached
<1>4. \A e \in zone : e.id # 0 /\ e.by \in Children
  BY <1>1, IdsAssumption DEF Held
<1>5. Guarded'
  BY <1>1, <1>2, <1>3, <1>4 DEF LeakInv, Guarded
<1>6. Cached'
  BY <1>1, <1>2 DEF LeakInv, Cached
<1>7. Pending'
  BY <1>1, <1>2 DEF LeakInv, Pending
<1> QED
  BY <1>5, <1>6, <1>7

LEMMA LeakInvKept == LeakInv /\ [CompositionNext]_allVars => LeakInv'
<1> SUFFICES ASSUME LeakInv, [CompositionNext]_allVars PROVE Guarded' /\ Cached' /\ Pending'
  BY CompositionNextType DEF LeakInv
<1>1. CASE UNCHANGED allVars
  BY <1>1 DEF allVars, vars, reconciles, LeakInv, Guarded, Cached, Pending
<1>2. ASSUME NEW c \in Children, RecordSide(c) PROVE Guarded' /\ Cached' /\ Pending'
  BY <1>2, EnrolKeeps, PublishKeeps, WithdrawKeeps, StoreStatusKeeps, FinishKeeps
  DEF RecordSide
<1> QED
  BY <1>1, <1>2, OwnerSideKeeps DEF CompositionNext

\* The record e is named by a status or about to be.
Known(e) ==
  \/ status[e.by] = e.id
  \/ e.by \in running /\ got[e.by] = e.id

\* A record that is new among the leaked ones was named by a stripped child, or
\* was about to be named in a write that is refused.
LEMMA LeakStep ==
  ASSUME LeakInv, [CompositionNext]_allVars, NEW e \in Leaked' \ Leaked
  PROVE  e.by \in stripped' \/ (e.by \in stale /\ got[e.by] = e.id)
<1>1. e \in zone' /\ ~Known(e)' /\ (e \in zone => Known(e))
  BY DEF Leaked, Known
<1>2. /\ zone \subseteq Held /\ running \subseteq Children
      /\ got \in [Children -> Ids \cup {0}] /\ status \in [Children -> Ids \cup {0}]
  BY DEF LeakInv, CompositionTypeOK
<1>3. ASSUME UNCHANGED <<zone, status, running, got>> PROVE FALSE
  BY <1>1, <1>3 DEF Known
<1>4. CASE UNCHANGED allVars
  BY <1>3, <1>4 DEF allVars, reconciles
<1>5. CASE OwnerSide
  <2>1. Carry /\ UNCHANGED <<zone, running, got>>
    BY <1>5 DEF OwnerSide, Carry
  <2>2. e \in zone /\ e.by \in Children
    BY <1>1, <1>2, <2>1 DEF Held
  <2>3. status[e.by] = e.id /\ status'[e.by] # e.id
    BY <1>1, <2>1, <2>2 DEF Known
  <2>4. Gone(e.by)
    BY <2>1, <2>2, <2>3 DEF Carry
  <2>5. child[e.by] # Absent /\ (child[e.by].fin \/ e.by \in stripped)
    BY <2>2, <2>3 DEF LeakInv, Guarded
  <2> QED
    BY <2>1, <2>2, <2>4, <2>5 DEF Carry
<1>6. ASSUME NEW c \in Children, Enrol(c) \/ Finish(c) PROVE FALSE
  BY <1>3, <1>6 DEF Enrol, Finish, reconciles
<1>7. ASSUME NEW c \in Children, Publish(c) \/ Withdraw(c) PROVE FALSE
  <2>1. /\ c \notin running /\ running' = running \cup {c} /\ status' = status
        /\ \A d \in Children : d # c => got'[d] = got[d]
    BY <1>2, <1>7 DEF Publish, Withdraw, Due, Handled, Answered
  <2>2. CASE e \in zone
    BY <1>1, <1>2, <2>1, <2>2 DEF Known, Held
  <2>3. CASE e \notin zone
    <3>1. Publish(c) /\ e.by = c /\ e.id = NewId(c)
      BY <1>1, <1>7, <2>3 DEF Publish, Withdraw
    <3>2. got'[c] = NewId(c) /\ c \in running'
      BY <1>2, <3>1 DEF Publish, Answered
    <3> QED
      BY <1>1, <3>1, <3>2 DEF Known
  <2> QED
    BY <2>2, <2>3
<1>8. ASSUME NEW c \in Children, StoreStatus(c)
      PROVE  e.by \in stale /\ got[e.by] = e.id
  <2>1. /\ zone' = zone /\ running' = running \ {c} /\ c \in running
        /\ \A d \in Children : d # c => got'[d] = got[d] /\ status'[d] = status[d]
        /\ IF c \in stale THEN status' = status ELSE status'[c] = got[c]
    BY <1>2, <1>8 DEF StoreStatus
  <2>2. e \in zone /\ e.by \in Children /\ Known(e)
    BY <1>1, <1>2, <2>1 DEF Held
  <2>3. e.by = c
    BY <1>1, <2>1, <2>2 DEF Known
  <2>4. c \in stale
    <3> SUFFICES ASSUME c \notin stale PROVE FALSE
      OBVIOUS
    <3>1. status[c] # e.id
      BY <2>1, <2>2, <2>3 DEF LeakInv, Pending
    <3> QED
      BY <1>1, <2>1, <2>2, <2>3, <3>1 DEF Known
  <2> QED
    BY <1>1, <2>1, <2>2, <2>3, <2>4 DEF Known
<1> QED
  BY <1>4, <1>5, <1>6, <1>7, <1>8 DEF CompositionNext, RecordSide

\* A child whose status names a record guards it with its finalizer, or lost
\* that to an Update of the owner's controller; and a status write that is not
\* refused gives up no record, although owner, cache and provider move between
\* the reading of the child and the write.
THEOREM NamedRecordsGuarded == CompositionSpec => []LeakInv
<1>1. CompositionInit => LeakInv
  BY InitType DEF CompositionInit, Init, CompositionTypeOK, LeakInv, Guarded, Cached, Pending
<1> QED
  BY <1>1, LeakInvKept, PTL DEF CompositionSpec

\* A record is left behind at the provider only by a child that an Update of
\* the owner's controller stripped of its finalizer (child_records.go:78), or
\* because its child was changed before the status write that would have named
\* it (dnsrecord_controller.go:140).
THEOREM LeaksExplained == CompositionSpec => LeaksAccounted
<1>1. LeakInv /\ [CompositionNext]_allVars =>
        [\A e \in Leaked' \ Leaked :
           e.by \in stripped' \/ (e.by \in stale /\ got[e.by] = e.id)]_allVars
  BY LeakStep
<1> QED
  BY <1>1, NamedRecordsGuarded, PTL DEF CompositionSpec, LeaksAccounted
=============================================================================
