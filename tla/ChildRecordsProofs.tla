------------------------- MODULE ChildRecordsProofs -------------------------
(***************************************************************************)
(* Proofs about ChildRecords: type correctness, and that a reconcile never *)
(* overwrites a record that a user made (ForeignKept).                     *)
(***************************************************************************)
EXTENDS ChildRecords, TLAPS

(***************************************************************************)
(* Type correctness.                                                       *)
(***************************************************************************)

\* The types of the variables that hold the children.
ChildType ==
  /\ child \in [Children -> Record \cup {Absent}]
  /\ lagging \subseteq Children
  /\ outdated \in [Owners -> SUBSET Children]

\* A write keeps them.
LEMMA WriteType ==
  ASSUME ChildType, NEW c \in Children, NEW r \in Record \cup {Absent}, Write(c, r)
  PROVE  ChildType'
BY DEF ChildType, Write

\* A deleted child is a child with a deletion timestamp, or gone.
LEMMA DeletedType ==
  ASSUME ChildType, NEW c \in Children, child[c] # Absent
  PROVE  Deleted(c) \in Record \cup {Absent}
BY DEF ChildType, Deleted, Record

\* A reconcile with nothing to do is well-typed.
LEMMA IdleType == Idle \in Work
BY DEF Idle, Work

\* So is what is left of one.
LEMMA LeftType ==
  ASSUME NEW w \in Work
  PROVE  Left(w) \in Work /\ Left(w).update \subseteq w.update
BY IdleType DEF Left, Idle

\* What a reconcile submits is a record.
LEMMA SubmittedType ==
  ASSUME NEW n \in Owners, work \in [Owners -> Work], NEW i \in Item
  PROVE  Submitted(n, i) \in Record
BY DEF Work, Item, Submitted, Record

\* The calls that come next concern children and items.
LEMMA NextCallType ==
  ASSUME NEW n \in Owners, work \in [Owners -> Work]
  PROVE  /\ NextDelete(n) \subseteq Children
         /\ NextCreate(n) \subseteq work[n].add /\ NextCreate(n) \subseteq Item
         /\ NextUpdate(n) \subseteq work[n].update /\ NextUpdate(n) \subseteq Item
BY DEF Work, NextDelete, NextCreate, NextUpdate, First

\* The wanted records of an owner are items.
LEMMA WantType ==
  ASSUME NEW n \in Owners, NEW s \in OwnerSpec
  PROVE  Want(n, s) \subseteq Item
<1> SUFFICES ASSUME NEW r \in DOMAIN s.rules, NEW i \in DOMAIN s.ips
             PROVE  [rule |-> r, index |-> i, name |-> recordName(n, s.rules[r], i),
                     host |-> s.rules[r], ip |-> s.ips[i]] \in Item
  BY DEF Want
<1>1. /\ s.rules \in Seq(Hosts) /\ s.ips \in Seq(Ips) /\ Len(s.ips) <= MaxIps
      /\ MaxIps \in Nat
  BY ChildAssumption DEF OwnerSpec
<1>2. r \in Nat /\ s.rules[r] \in Hosts
  BY <1>1
<1>3. i \in 1..MaxIps /\ s.ips[i] \in Ips
  BY <1>1
<1>4. recordName(n, s.rules[r], i) \in Children
  BY <1>2, <1>3, ChildAssumption DEF recordName, Children
<1> QED
  BY <1>2, <1>3, <1>4 DEF Item

\* A plan made from the listed children and the wanted items is well-typed.
LEMMA DiffType ==
  ASSUME NEW n \in Owners, NEW uid \in Uids, NEW got \in SUBSET Children,
         NEW want \in SUBSET Item
  PROVE  diffRecords(n, uid, got, want) \in Work
BY DEF diffRecords, Work

\* Writes by users, the garbage collector and the DNSRecord controller.
LEMMA ClusterType ==
  ASSUME TypeOK, NEW c \in Children,
         TamperWith(c) \/ CreateByHand(c) \/ Collect(c) \/ Finalizer(c)
  PROVE  TypeOK'
<1>1. ChildType
  BY DEF TypeOK, ChildType
<1>2. PICK r \in Record \cup {Absent} : Write(c, r)
  <2>1. CASE TamperWith(c)
    <3>1. /\ Deleted(c) \in Record \cup {Absent}
          /\ [child[c] EXCEPT !.active = FALSE] \in Record
      BY <1>1, <2>1, DeletedType DEF TamperWith, ChildType, Record
    <3> QED
      BY <2>1, <3>1 DEF TamperWith
  <2>2. CASE CreateByHand(c)
    <3>1. PICK host \in Hosts, ip \in Ips, restored \in BOOLEAN :
            Write(c, [host |-> host, ip |-> ip, active |-> TRUE, annotated |-> restored,
                      ref |-> 0, deleting |-> FALSE, fin |-> FALSE])
      BY <2>2 DEF CreateByHand
    <3> QED
      BY <3>1 DEF Record
  <2>3. CASE Collect(c)
    BY <1>1, <2>3, DeletedType DEF Collect
  <2>4. CASE Finalizer(c)
    <3>1. child[c] # Absent => [child[c] EXCEPT !.fin = TRUE] \in Record
      BY <1>1 DEF ChildType, Record
    <3> QED
      BY <2>4, <3>1 DEF Finalizer
  <2> QED
    BY <2>1, <2>2, <2>3, <2>4
<1>3. ChildType'
  BY <1>1, <1>2, WriteType
<1>4. /\ edits' \in 0..MaxEdits /\ uids' \in 0..edits'
      /\ UNCHANGED <<owner, caches, queue, work, failures>>
  BY ChildAssumption DEF TypeOK, TamperWith, CreateByHand, Collect, Finalizer, Edit, cluster
<1> QED
  BY <1>3, <1>4 DEF TypeOK, ChildType, caches, failures

\* Writes to an owner.
LEMMA OwnerType ==
  ASSUME TypeOK, NEW n \in Owners, WriteOwner(n) \/ DeleteOwner(n)
  PROVE  TypeOK'
<1>1. /\ edits' \in 0..MaxEdits /\ edits' = edits + 1 /\ edits < MaxEdits
      /\ UNCHANGED <<child, caches, lagging, queue, work, outdated, failures>>
  BY ChildAssumption DEF WriteOwner, DeleteOwner, Edit, TypeOK
<1>2. CASE DeleteOwner(n)
  BY <1>1, <1>2 DEF DeleteOwner, TypeOK, caches, failures
<1>3. CASE WriteOwner(n)
  <2>1. PICK s \in SpecsOf[n] :
          IF owner[n] = Absent
          THEN /\ owner' = [owner EXCEPT ![n] = [uid |-> uids + 1, spec |-> s]]
               /\ uids' = uids + 1
          ELSE owner' = [owner EXCEPT ![n].spec = s] /\ UNCHANGED uids
    BY <1>3 DEF WriteOwner
  <2>2. s \in OwnerSpec
    BY ChildAssumption
  <2>3. uids' \in 0..edits'
    BY <1>1, <2>1 DEF TypeOK
  <2>4. CASE owner[n] = Absent
    <3>1. [uid |-> uids + 1, spec |-> s] \in Owner
      BY <1>1, <2>2, ChildAssumption DEF Owner, Uids, TypeOK
    <3> QED
      BY <1>1, <2>1, <2>3, <2>4, <3>1 DEF TypeOK, caches, failures
  <2>5. CASE owner[n] # Absent
    <3>1. [owner[n] EXCEPT !.spec = s] \in Owner
      BY <2>2, <2>5 DEF Owner, TypeOK
    <3>2. owner' = [owner EXCEPT ![n] = [owner[n] EXCEPT !.spec = s]]
      BY <2>1, <2>5
    <3> QED
      BY <1>1, <2>3, <3>1, <3>2 DEF TypeOK, caches, failures
  <2> QED
    BY <2>4, <2>5
<1> QED
  BY <1>2, <1>3

\* Events and restarts.
LEMMA EventType ==
  ASSUME TypeOK,
         \/ \E n \in Owners : DeliverOwner(n) \/ Resync(n)
         \/ \E c \in Children : DeliverChild(c)
         \/ Restart
  PROVE  TypeOK'
<1>1. ASSUME NEW n \in Owners, DeliverOwner(n) PROVE TypeOK'
  BY <1>1 DEF DeliverOwner, TypeOK, cluster, failures
<1>2. ASSUME NEW n \in Owners, Resync(n) PROVE TypeOK'
  BY <1>2 DEF Resync, TypeOK, cluster, caches, failures
<1>3. ASSUME NEW c \in Children, DeliverChild(c) PROVE TypeOK'
  <2>1. c[1] \in Owners
    BY DEF Children
  <2> QED
    BY <1>3, <2>1 DEF DeliverChild, TypeOK, cluster, failures
<1>4. CASE Restart
  <2>1. restarts' \in 0..MaxRestarts
    BY <1>4, ChildAssumption DEF Restart, TypeOK
  <2>2. /\ work' \in [Owners -> Work]
        /\ queue' \subseteq Owners
        /\ outdated' \in [Owners -> SUBSET Children]
    BY <1>4, IdleType DEF Restart
  <2> QED
    BY <1>4, <2>1, <2>2 DEF Restart, TypeOK, cluster
<1> QED
  BY <1>1, <1>2, <1>3, <1>4

\* The steps of a reconcile.
LEMMA ReconcileType ==
  ASSUME TypeOK, NEW n \in Owners, Reconcile(n) \/ CallFails(n)
  PROVE  TypeOK'
<1>1. ChildType /\ work \in [Owners -> Work] /\ work[n] \in Work
  BY DEF TypeOK, ChildType
<1>2. CASE Take(n)
  <2>1. work' \in [Owners -> Work]
    <3>1. CASE ownerCache[n] = Absent
      BY <1>1, <1>2, <3>1, IdleType DEF Take
    <3>2. CASE ownerCache[n] # Absent
      <4> DEFINE o == ownerCache[n]
                 got == childRecords(n, o.uid)
                 want == IF Ignored(n, o.spec) THEN {} ELSE Want(n, o.spec)
      <4>1. o.uid \in Uids /\ o.spec \in OwnerSpec
        BY <3>2 DEF TypeOK, Owner
      <4>2. got \in SUBSET Children
        BY DEF childRecords
      <4>3. want \in SUBSET Item
        BY <4>1, WantType
      <4>4. work' = [work EXCEPT ![n] = Left(diffRecords(n, o.uid, got, want))]
        BY <1>2, <3>2 DEF Take
      <4> HIDE DEF o, got, want
      <4>5. Left(diffRecords(n, o.uid, got, want)) \in Work
        BY <4>1, <4>2, <4>3, DiffType, LeftType
      <4> QED
        BY <1>1, <4>4, <4>5
    <3> QED
      BY <3>1, <3>2
  <2> QED
    BY <1>2, <2>1 DEF Take, TypeOK, cluster, caches, failures
<1>3. CASE DeleteRecord(n)
  <2>1. PICK c \in NextDelete(n) :
          DeleteCall(c) /\ work' = [work EXCEPT ![n] = Left([work[n] EXCEPT !.del = @ \ {c}])]
    BY <1>3 DEF DeleteRecord
  <2>2. c \in Children
    BY <1>1, NextCallType
  <2>3. ChildType'
    BY <1>1, <2>1, <2>2, DeletedType, WriteType DEF DeleteCall, ChildType
  <2>4. [work[n] EXCEPT !.del = @ \ {c}] \in Work
    BY <1>1 DEF Work
  <2>5. work' \in [Owners -> Work]
    BY <1>1, <2>1, <2>4, LeftType
  <2> QED
    BY <1>3, <2>3, <2>5 DEF DeleteRecord, TypeOK, ChildType, cluster, caches, failures
<1>4. CASE CreateRecord(n)
  <2>1. PICK i \in NextCreate(n) :
          CreateCall(n, i) /\ work' = [work EXCEPT ![n] = Left([work[n] EXCEPT !.add = @ \ {i}])]
    BY <1>4 DEF CreateRecord
  <2>2. i \in Item /\ i.name \in Children
    BY <1>1, NextCallType DEF Item
  <2>3. ChildType'
    BY <1>1, <2>1, <2>2, SubmittedType, WriteType DEF CreateCall
  <2>4. [work[n] EXCEPT !.add = @ \ {i}] \in Work
    BY <1>1 DEF Work
  <2>5. work' \in [Owners -> Work]
    BY <1>1, <2>1, <2>4, LeftType
  <2> QED
    BY <1>4, <2>3, <2>5 DEF CreateRecord, TypeOK, ChildType, cluster, caches, failures
<1>5. CASE UpdateRecord(n)
  <2>1. PICK i \in NextUpdate(n) :
          UpdateCall(n, i) /\ work' = [work EXCEPT ![n] = Left([work[n] EXCEPT !.update = @ \ {i}])]
    BY <1>5 DEF UpdateRecord
  <2>2. i \in Item /\ i.name \in Children
    BY <1>1, NextCallType DEF Item
  <2>3. ChildType'
    BY <1>1, <2>1, <2>2, SubmittedType, WriteType DEF UpdateCall
  <2>4. [work[n] EXCEPT !.update = @ \ {i}] \in Work
    BY <1>1 DEF Work
  <2>5. work' \in [Owners -> Work]
    BY <1>1, <2>1, <2>4, LeftType
  <2> QED
    BY <1>5, <2>3, <2>5 DEF UpdateRecord, TypeOK, ChildType, cluster, caches, failures
<1>6. CASE CallRefused(n)
  BY <1>1, <1>6, IdleType DEF CallRefused, Retry, TypeOK, cluster, caches, failures
<1>7. CASE CallFails(n)
  <2>1. ChildType'
    <3>1. ASSUME NEW c \in NextDelete(n), DeleteCall(c) PROVE ChildType'
      BY <1>1, <3>1, NextCallType, DeletedType, WriteType DEF DeleteCall, ChildType
    <3>2. ASSUME NEW i \in NextCreate(n), CreateCall(n, i) PROVE ChildType'
      BY <1>1, <3>2, NextCallType, SubmittedType, WriteType DEF CreateCall, Item
    <3>3. ASSUME NEW i \in NextUpdate(n), UpdateCall(n, i) PROVE ChildType'
      BY <1>1, <3>3, NextCallType, SubmittedType, WriteType DEF UpdateCall, Item
    <3>4. ASSUME UNCHANGED <<child, lagging, outdated>> PROVE ChildType'
      BY <1>1, <3>4 DEF ChildType
    <3> QED
      BY <1>7, <3>1, <3>2, <3>3, <3>4 DEF CallFails
  <2>2. work' \in [Owners -> Work] /\ queue' \subseteq Owners /\ faults' \in 0..MaxFaults
    BY <1>1, <1>7, IdleType, ChildAssumption DEF CallFails, Retry, TypeOK
  <2> QED
    BY <1>7, <2>1, <2>2 DEF CallFails, TypeOK, ChildType, cluster, caches
<1> QED
  BY <1>2, <1>3, <1>4, <1>5, <1>6, <1>7 DEF Reconcile

\* The initial state is well-typed.
LEMMA InitType == Init => TypeOK
BY IdleType, ChildAssumption DEF Init, TypeOK

\* Every step keeps the state well-typed.
LEMMA NextType == TypeOK /\ [Next]_vars => TypeOK'
<1> SUFFICES ASSUME TypeOK, [Next]_vars PROVE TypeOK'
  OBVIOUS
<1>1. CASE UNCHANGED vars
  BY <1>1 DEF vars, TypeOK
<1>2. CASE Next
  BY <1>2, ClusterType, OwnerType, EventType, ReconcileType DEF Next
<1> QED
  BY <1>1, <1>2

\* The state is well-typed: in particular a reconcile only ever deals with
\* children that carry the name of its owner and the index of an address.
THEOREM ChildTypeCorrect == Spec => []TypeOK
BY InitType, NextType, PTL DEF Spec

(***************************************************************************)
(* Records that users made.  UpdInv is the strengthening that ForeignKept  *)
(* needs: what a reconcile is about to update is a generated child, unless *)
(* the child was written since it was listed, and then the resourceVersion *)
(* of the update is not the current one.                                   *)
(***************************************************************************)

\* A cached child that is not lagging is the stored one.
CacheInv == \A c \in Children : c \notin lagging => childCache[c] = child[c]

\* A pending update with a current resourceVersion is one of a generated child.
UpdInv ==
  \A n \in Owners : \A i \in work[n].update :
    i.name \notin outdated[n] => child[i.name] # Absent /\ ~Foreign(child[i.name])

ForeignInv == TypeOK /\ CacheInv /\ UpdInv

\* Replacing the child c by r does not overwrite a record of a user.
Mild(c, r) ==
  child[c] # Absent /\ r # Absent /\ Foreign(child[c]) =>
    Foreign(r) /\ r.host = child[c].host /\ r.ip = child[c].ip

\* The step changes no child, or writes one without overwriting a user's.
MildStep ==
  \/ UNCHANGED child
  \/ \E c \in Children : \E r \in Record \cup {Absent} : Write(c, r) /\ Mild(c, r)

\* Updates that are pending stay pending or are dropped, and what the step
\* writes counts as written for every reconcile that still has updates.
UpdStep ==
  \A n \in Owners :
    /\ work'[n].update \subseteq work[n].update
    /\ work'[n].update # {} =>
         /\ outdated[n] \subseteq outdated'[n]
         /\ \A c \in Children : child'[c] # child[c] => c \in outdated'[n]

\* Such a step keeps UpdInv.
LEMMA UpdKept ==
  ASSUME TypeOK, UpdInv, UpdStep
  PROVE  UpdInv'
<1> SUFFICES ASSUME NEW n \in Owners, NEW i \in work'[n].update, i.name \notin outdated'[n]
             PROVE  child'[i.name] # Absent /\ ~Foreign(child'[i.name])
  BY DEF UpdInv, Foreign
<1>1. i \in work[n].update /\ i.name \notin outdated[n]
  BY DEF UpdStep
<1>2. i.name \in Children
  BY <1>1 DEF TypeOK, Work, Item
<1>3. child'[i.name] = child[i.name]
  BY <1>2 DEF UpdStep
<1> QED
  BY <1>1, <1>3 DEF UpdInv

\* A write is recorded for every reconcile that has updates to make.
LEMMA WriteOutdates ==
  ASSUME TypeOK, NEW c \in Children, NEW r, Write(c, r)
  PROVE  /\ \A n \in Owners :
              work[n].update # {} =>
                /\ outdated[n] \subseteq outdated'[n]
                /\ \A d \in Children : child'[d] # child[d] => d \in outdated'[n]
         /\ CacheInv /\ UNCHANGED childCache => CacheInv'
BY DEF TypeOK, Write, CacheInv

\* The deletion of a child overwrites nothing.
LEMMA DeletedMild ==
  ASSUME TypeOK, NEW c \in Children, child[c] # Absent
  PROVE  Deleted(c) \in Record \cup {Absent} /\ Mild(c, Deleted(c))
<1>1. child[c] \in Record
  BY DEF TypeOK
<1>2. CASE child[c].fin
  <2>1. Deleted(c) = [child[c] EXCEPT !.deleting = TRUE]
    BY <1>2 DEF Deleted
  <2> QED
    BY <1>1, <2>1 DEF Record, Mild, Foreign
<1>3. CASE ~child[c].fin
  BY <1>3 DEF Deleted, Mild
<1> QED
  BY <1>2, <1>3

\* A call of a reconcile is a mild write or leaves the children alone.
LEMMA CallMild ==
  ASSUME ForeignInv, NEW n \in Owners,
         \/ \E c \in NextDelete(n) : DeleteCall(c)
         \/ \E i \in NextCreate(n) : CreateCall(n, i)
         \/ \E i \in NextUpdate(n) : UpdateCall(n, i)
  PROVE  \/ UNCHANGED <<child, lagging, outdated>>
         \/ \E c \in Children : \E r \in Record \cup {Absent} : Write(c, r) /\ Mild(c, r)
<1>1. TypeOK /\ UpdInv /\ work \in [Owners -> Work]
  BY DEF ForeignInv, TypeOK
<1>2. ASSUME NEW c \in NextDelete(n), DeleteCall(c)
      PROVE  \/ UNCHANGED <<child, lagging, outdated>>
             \/ \E d \in Children : \E r \in Record \cup {Absent} : Write(d, r) /\ Mild(d, r)
  <2>1. c \in Children
    BY <1>1, NextCallType
  <2> QED
    BY <1>1, <1>2, <2>1, DeletedMild DEF DeleteCall
<1>3. ASSUME NEW i \in NextCreate(n), CreateCall(n, i)
      PROVE  \E d \in Children : \E r \in Record \cup {Absent} : Write(d, r) /\ Mild(d, r)
  <2>1. i \in Item /\ i.name \in Children
    BY <1>1, NextCallType DEF Item
  <2>2. Submitted(n, i) \in Record
    BY <1>1, <2>1, SubmittedType
  <2> QED
    BY <1>3, <2>1, <2>2 DEF CreateCall, Mild
<1>4. ASSUME NEW i \in NextUpdate(n), UpdateCall(n, i)
      PROVE  \E d \in Children : \E r \in Record \cup {Absent} : Write(d, r) /\ Mild(d, r)
  <2>1. i \in Item /\ i.name \in Children /\ i \in work[n].update
    BY <1>1, NextCallType DEF Item
  <2>2. Submitted(n, i) \in Record
    BY <1>1, <2>1, SubmittedType
  <2>3. ~Foreign(child[i.name])
    BY <1>1, <1>4, <2>1 DEF UpdInv, UpdateCall
  <2> QED
    BY <1>4, <2>1, <2>2, <2>3 DEF UpdateCall, Mild
<1> QED
  BY <1>2, <1>3, <1>4

\* Users, the garbage collector and the DNSRecord controller write mildly.
LEMMA ClusterMild ==
  ASSUME TypeOK, NEW c \in Children,
         TamperWith(c) \/ CreateByHand(c) \/ Collect(c) \/ Finalizer(c)
  PROVE  \E r \in Record \cup {Absent} : Write(c, r) /\ Mild(c, r)
<1>1. child[c] # Absent => child[c] \in Record
  BY DEF TypeOK
<1>2. CASE TamperWith(c)
  <2>1. child[c] # Absent
    BY <1>2 DEF TamperWith
  <2>2. LET r == [child[c] EXCEPT !.active = FALSE] IN r \in Record /\ Mild(c, r)
    BY <1>1, <2>1 DEF Record, Mild, Foreign
  <2> QED
    BY <1>2, <2>1, <2>2, DeletedMild DEF TamperWith
<1>3. CASE CreateByHand(c)
  <2>1. PICK host \in Hosts, ip \in Ips, restored \in BOOLEAN :
          Write(c, [host |-> host, ip |-> ip, active |-> TRUE, annotated |-> restored,
                    ref |-> 0, deleting |-> FALSE, fin |-> FALSE])
    BY <1>3 DEF CreateByHand
  <2>2. [host |-> host, ip |-> ip, active |-> TRUE, annotated |-> restored,
         ref |-> 0, deleting |-> FALSE, fin |-> FALSE] \in Record
    BY DEF Record
  <2> QED
    BY <1>3, <2>1, <2>2 DEF CreateByHand, Mild
<1>4. CASE Collect(c)
  BY <1>4, DeletedMild DEF Collect
<1>5. CASE Finalizer(c)
  <2>1. child[c] # Absent
    BY <1>5 DEF Finalizer
  <2>2. LET r == [child[c] EXCEPT !.fin = TRUE] IN r \in Record /\ Mild(c, r)
    BY <1>1, <2>1 DEF Record, Mild, Foreign
  <2> QED
    BY <1>5, <2>1, <2>2 DEF Finalizer, Mild
<1> QED
  BY <1>2, <1>3, <1>4, <1>5

\* A reconcile that starts plans updates of listed children only, and a listed
\* child is controlled by the owner or annotated with its name.
LEMMA TakeUpd ==
  ASSUME ForeignInv, NEW n \in Owners, Take(n)
  PROVE  UpdInv'
<1>1. TypeOK /\ CacheInv /\ UpdInv
  BY DEF ForeignInv
<1>2. /\ UNCHANGED child
      /\ \A m \in Owners : m # n => work'[m] = work[m] /\ outdated'[m] = outdated[m]
      /\ work'[n].update # {} => outdated'[n] = lagging
  BY <1>1 DEF Take, TypeOK
<1> SUFFICES ASSUME NEW i \in work'[n].update, i.name \notin lagging
             PROVE  child[i.name] # Absent /\ ~Foreign(child[i.name])
  BY <1>1, <1>2 DEF UpdInv, Foreign
<1>3. ownerCache[n] # Absent
  BY <1>1 DEF Take, TypeOK, Idle
<1> DEFINE o == ownerCache[n]
           got == childRecords(n, o.uid)
           want == IF Ignored(n, o.spec) THEN {} ELSE Want(n, o.spec)
<1>4. work'[n] = Left(diffRecords(n, o.uid, got, want))
  BY <1>1, <1>3 DEF Take, TypeOK
<1>5. i.name \in got
  <2> HIDE DEF o, got, want
  <2> QED
    BY <1>4 DEF diffRecords, Left, Idle
<1>6. /\ i.name \in Children /\ childCache[i.name] # Absent
      /\ childCache[i.name].ref = o.uid \/ childCache[i.name].annotated
  BY <1>5 DEF childRecords
<1>7. o.uid # 0
  BY <1>1, <1>3, ChildAssumption DEF TypeOK, Owner, Uids
<1>8. child[i.name] = childCache[i.name]
  BY <1>1, <1>6 DEF CacheInv
<1> QED
  BY <1>6, <1>7, <1>8 DEF Foreign

\* Every step keeps the strengthened invariant and is mild.
LEMMA ForeignStep ==
  ASSUME ForeignInv, [Next]_vars
  PROVE  CacheInv' /\ UpdInv' /\ MildStep
<1>1. TypeOK /\ CacheInv /\ UpdInv /\ work \in [Owners -> Work]
  BY DEF ForeignInv, TypeOK
<1>2. ASSUME UNCHANGED <<child, lagging, outdated, work, childCache>>
      PROVE  CacheInv' /\ UpdInv' /\ MildStep
  BY <1>1, <1>2 DEF CacheInv, UpdInv, Foreign, MildStep
<1>3. ASSUME NEW n \in Owners, UNCHANGED childCache,
             work'[n].update \subseteq work[n].update,
             \A m \in Owners : m # n => work'[m] = work[m],
             \/ UNCHANGED <<child, lagging, outdated>>
             \/ \E c \in Children : \E r \in Record \cup {Absent} : Write(c, r) /\ Mild(c, r)
      PROVE  CacheInv' /\ UpdInv' /\ MildStep
  <2>1. \A m \in Owners : work'[m].update \subseteq work[m].update
    BY <1>3
  <2>2. CASE UNCHANGED <<child, lagging, outdated>>
    <3>1. UpdStep
      BY <2>1, <2>2 DEF UpdStep
    <3> QED
      BY <1>1, <1>3, <2>2, <3>1, UpdKept DEF CacheInv, MildStep
  <2>3. ASSUME NEW c \in Children, NEW r \in Record \cup {Absent}, Write(c, r), Mild(c, r)
        PROVE  CacheInv' /\ UpdInv' /\ MildStep
    <3>1. UpdStep
      BY <1>1, <2>1, <2>3, WriteOutdates DEF UpdStep
    <3> QED
      BY <1>1, <1>3, <2>3, <3>1, UpdKept, WriteOutdates DEF MildStep
  <2> QED
    BY <1>3, <2>2, <2>3
<1>4. ASSUME UNCHANGED vars PROVE CacheInv' /\ UpdInv' /\ MildStep
  BY <1>2, <1>4 DEF vars, caches
<1>5. ASSUME NEW n \in Owners, WriteOwner(n) \/ DeleteOwner(n) \/ DeliverOwner(n) \/ Resync(n)
      PROVE  CacheInv' /\ UpdInv' /\ MildStep
  BY <1>2, <1>5 DEF WriteOwner, DeleteOwner, DeliverOwner, Resync, caches
<1>6. ASSUME NEW n \in Owners, Take(n) PROVE CacheInv' /\ UpdInv' /\ MildStep
  BY <1>1, <1>6, TakeUpd DEF Take, CacheInv, MildStep, caches
<1>7. ASSUME NEW n \in Owners, DeleteRecord(n) \/ CreateRecord(n) \/ UpdateRecord(n)
      PROVE  CacheInv' /\ UpdInv' /\ MildStep
  <2>1. /\ work'[n].update \subseteq work[n].update
        /\ \A m \in Owners : m # n => work'[m] = work[m]
    <3>1. ASSUME NEW w \in Work, w.update \subseteq work[n].update,
                 work' = [work EXCEPT ![n] = Left(w)]
          PROVE  /\ work'[n].update \subseteq work[n].update
                 /\ \A m \in Owners : m # n => work'[m] = work[m]
      BY <1>1, <3>1, LeftType
    <3>2. work[n] \in Work
      BY <1>1
    <3>3. CASE DeleteRecord(n)
      <4>1. PICK c : work' = [work EXCEPT ![n] = Left([work[n] EXCEPT !.del = @ \ {c}])]
        BY <3>3 DEF DeleteRecord
      <4>2. LET w == [work[n] EXCEPT !.del = @ \ {c}]
            IN  w \in Work /\ w.update = work[n].update
        BY <3>2 DEF Work
      <4> QED
        BY <3>1, <4>1, <4>2
    <3>4. CASE CreateRecord(n)
      <4>1. PICK i : work' = [work EXCEPT ![n] = Left([work[n] EXCEPT !.add = @ \ {i}])]
        BY <3>4 DEF CreateRecord
      <4>2. LET w == [work[n] EXCEPT !.add = @ \ {i}]
            IN  w \in Work /\ w.update = work[n].update
        BY <3>2 DEF Work
      <4> QED
        BY <3>1, <4>1, <4>2
    <3>5. CASE UpdateRecord(n)
      <4>1. PICK i : work' = [work EXCEPT ![n] = Left([work[n] EXCEPT !.update = @ \ {i}])]
        BY <3>5 DEF UpdateRecord
      <4>2. LET w == [work[n] EXCEPT !.update = @ \ {i}]
            IN  w \in Work /\ w.update = work[n].update \ {i}
        BY <3>2 DEF Work
      <4> QED
        BY <3>1, <4>1, <4>2
    <3> QED
      BY <1>7, <3>3, <3>4, <3>5
  <2>2. UNCHANGED childCache
    BY <1>7 DEF DeleteRecord, CreateRecord, UpdateRecord, caches
  <2>3. \/ \E c \in NextDelete(n) : DeleteCall(c)
        \/ \E i \in NextCreate(n) : CreateCall(n, i)
        \/ \E i \in NextUpdate(n) : UpdateCall(n, i)
    BY <1>7 DEF DeleteRecord, CreateRecord, UpdateRecord
  <2> QED
    BY <1>3, <2>1, <2>2, <2>3, CallMild
<1>8. ASSUME NEW n \in Owners, CallRefused(n) \/ CallFails(n)
      PROVE  CacheInv' /\ UpdInv' /\ MildStep
  <2>1. work' = [work EXCEPT ![n] = Idle] /\ UNCHANGED childCache
    BY <1>8 DEF CallRefused, CallFails, Retry, caches
  <2>2. /\ work'[n].update \subseteq work[n].update
        /\ \A m \in Owners : m # n => work'[m] = work[m]
    BY <1>1, <2>1 DEF Idle
  <2>3. \/ UNCHANGED <<child, lagging, outdated>>
        \/ \E c \in Children : \E r \in Record \cup {Absent} : Write(c, r) /\ Mild(c, r)
    BY <1>8, CallMild DEF CallRefused, CallFails
  <2> QED
    BY <1>3, <2>1, <2>2, <2>3
<1>9. ASSUME NEW c \in Children, TamperWith(c) \/ CreateByHand(c) \/ Collect(c) \/ Finalizer(c)
      PROVE  CacheInv' /\ UpdInv' /\ MildStep
  <2>1. UNCHANGED <<work, childCache>>
    BY <1>9 DEF TamperWith, CreateByHand, Collect, Finalizer, caches
  <2>2. PICK r \in Record \cup {Absent} : Write(c, r) /\ Mild(c, r)
    BY <1>1, <1>9, ClusterMild
  <2>3. UpdStep
    BY <1>1, <2>1, <2>2, WriteOutdates DEF UpdStep
  <2> QED
    BY <1>1, <2>1, <2>2, <2>3, UpdKept, WriteOutdates DEF MildStep
<1>10. ASSUME NEW c \in Children, DeliverChild(c) PROVE CacheInv' /\ UpdInv' /\ MildStep
  <2>1. UNCHANGED <<child, outdated, work>>
    BY <1>10 DEF DeliverChild
  <2>2. CacheInv'
    BY <1>1, <1>10 DEF DeliverChild, CacheInv, TypeOK
  <2> QED
    BY <1>1, <2>1, <2>2 DEF UpdInv, Foreign, MildStep
<1>11. ASSUME Restart PROVE CacheInv' /\ UpdInv' /\ MildStep
  BY <1>11 DEF Restart, CacheInv, UpdInv, Idle, MildStep
<1> QED
  BY <1>4, <1>5, <1>6, <1>7, <1>8, <1>9, <1>10, <1>11 DEF Next, Reconcile

\* A mild step keeps every record that a user made.
LEMMA MildKeeps ==
  ASSUME TypeOK, MildStep, NEW c \in Children,
         child[c] # Absent, child'[c] # Absent, Foreign(child[c])
  PROVE  /\ Foreign(child'[c])
         /\ child'[c].host = child[c].host
         /\ child'[c].ip = child[c].ip
<1>1. CASE UNCHANGED child
  BY <1>1
<1>2. ASSUME NEW d \in Children, NEW r \in Record \cup {Absent}, Write(d, r), Mild(d, r)
      PROVE  /\ Foreign(child'[c])
             /\ child'[c].host = child[c].host
             /\ child'[c].ip = child[c].ip
  <2>1. CASE c = d
    <3>1. child'[c] = r
      BY <1>2, <2>1 DEF Write, TypeOK
    <3> QED
      BY <1>2, <2>1, <3>1 DEF Mild
  <2>2. CASE c # d
    <3>1. child'[c] = child[c]
      BY <1>2, <2>2 DEF Write, TypeOK
    <3> QED
      BY <3>1
  <2> QED
    BY <2>1, <2>2
<1> QED
  BY <1>1, <1>2 DEF MildStep

\* The strengthened invariant holds in every state.
THEOREM UpdatesAreOwn == Spec => []ForeignInv
<1>1. Init => ForeignInv
  BY InitType DEF Init, ForeignInv, CacheInv, UpdInv, Idle
<1>2. ForeignInv /\ [Next]_vars => ForeignInv'
  BY NextType, ForeignStep DEF ForeignInv
<1> QED
  BY <1>1, <1>2, PTL DEF Spec

\* A reconcile never overwrites a record that a user made under the name of a
\* child: Create finds it in the way, and Update (controllers/
\* child_records.go:78) is refused because the version it replaces is not the
\* one that was listed.
THEOREM UserRecordsKept == Spec => ForeignKept
<1>1. ForeignInv /\ [Next]_vars =>
        [\A c \in Children :
           child[c] # Absent /\ child'[c] # Absent /\ Foreign(child[c]) =>
             /\ Foreign(child'[c])
             /\ child'[c].host = child[c].host
             /\ child'[c].ip = child[c].ip]_vars
  BY ForeignStep, MildKeeps DEF ForeignInv
<1> QED
  BY <1>1, UpdatesAreOwn, PTL DEF Spec, ForeignKept
=============================================================================
