---------------------------- MODULE K8sDNSProofs ----------------------------
(***************************************************************************)
(* Proofs about K8sDNS: type correctness, that queries are not disturbed   *)
(* by handlers (Uninterrupted), and that the plugin serves exactly the     *)
(* DNSRecords (Current) as long as no two of them ask for the same record  *)
(* and all of them parse, even if watches are lost.                        *)
(***************************************************************************)
EXTENDS K8sDNS, SequenceTheorems, TLAPS

\* A version of an object that an informer holds or is told of.
Version == DNSRecordSpec \cup {Absent}

\* makeRecord yields one of PluginRR.
LEMMA MakeRecordType ==
  ASSUME NEW spec \in DNSRecordSpec
  PROVE  makeRecord(spec) \in PluginRR
BY DEF makeRecord, PluginRR, DNSRecordSpec

\* The zones that sync builds hold the records of their own names.
LEMMA BuiltType ==
  ASSUME NEW recs \in SUBSET PluginRR
  PROVE  /\ DOMAIN Built(recs) = {ZoneOf[r.data] : r \in recs} \ {NoZone}
         /\ DOMAIN Built(recs) \subseteq Zones
         /\ Built(recs) \in [DOMAIN Built(recs) -> ZoneContents]
         /\ \A z \in DOMAIN Built(recs) :
              Built(recs)[z].rrs = {r \in recs : ZoneOf[r.data] = z}
<1> DEFINE D == {ZoneOf[r.data] : r \in recs} \ {NoZone}
           rrs(z) == {r \in recs : ZoneOf[r.data] = z}
           ownNs(z) == \E r \in rrs(z) : r.data \in NsData
           C(z) == [rrs |-> rrs(z),
                    soa |-> IF \E r \in rrs(z) : r.data \in SoaData
                            THEN "record" ELSE "generated",
                    ns |-> IF ownNs(z) THEN "record" ELSE "generated",
                    glue |-> ~ownNs(z) /\ setup(ExternalAddress) # None]
<1>1. Built(recs) = [z \in D |-> C(z)]
  BY DEF Built
<1>2. D \subseteq Zones
  BY RdataAssumption DEF PluginRR
<1>3. \A z : C(z) \in ZoneContents
  <2> SUFFICES ASSUME NEW z PROVE C(z) \in ZoneContents
    OBVIOUS
  <2>1. rrs(z) \in SUBSET PluginRR
    OBVIOUS
  <2>2. (~ownNs(z) /\ setup(ExternalAddress) # None) \in BOOLEAN
    OBVIOUS
  <2> HIDE DEF rrs, ownNs
  <2> QED
    BY <2>1, <2>2 DEF ZoneContents
<1>4. \A z : C(z).rrs = rrs(z)
  OBVIOUS
<1> HIDE DEF C
<1> QED
  BY <1>1, <1>2, <1>3, <1>4

\* What sync serves is what the map holds, apart from names without a zone.
LEMMA BuiltServes ==
  ASSUME NEW recs \in SUBSET PluginRR
  PROVE  UNION {Built(recs)[z].rrs : z \in DOMAIN Built(recs)}
           = {r \in recs : ZoneOf[r.data] # NoZone}
<1> DEFINE B == Built(recs)
<1>1. /\ DOMAIN B = {ZoneOf[r.data] : r \in recs} \ {NoZone}
      /\ \A z \in DOMAIN B : B[z].rrs = {r \in recs : ZoneOf[r.data] = z}
  BY BuiltType
<1> HIDE DEF B
<1>2. ASSUME NEW r \in recs, ZoneOf[r.data] # NoZone
      PROVE  r \in UNION {B[z].rrs : z \in DOMAIN B}
  <2>1. ZoneOf[r.data] \in DOMAIN B
    BY <1>1, <1>2
  <2>2. r \in B[ZoneOf[r.data]].rrs
    BY <1>1, <2>1
  <2> QED
    BY <2>1, <2>2
<1>3. ASSUME NEW z \in DOMAIN B, NEW r \in B[z].rrs
      PROVE  r \in recs /\ ZoneOf[r.data] # NoZone
  BY <1>1, <1>3
<1> QED
  BY <1>2, <1>3 DEF B

(***************************************************************************)
(* Type correctness.                                                       *)
(***************************************************************************)

\* An event handler keeps the map well-typed.
LEMMA HandlerType ==
  ASSUME TypeOK, NEW prev \in DNSRecordSpec, NEW new \in DNSRecordSpec,
         AddFunc(new) \/ UpdateFunc(prev, new) \/ DeleteFunc(prev)
  PROVE  records' \subseteq PluginRR /\ dirty' \in BOOLEAN
<1>1. /\ makeRecord(prev) \in PluginRR /\ makeRecord(new) \in PluginRR
      /\ records \subseteq PluginRR /\ dirty \in BOOLEAN
  BY MakeRecordType DEF TypeOK
<1>2. CASE AddFunc(new)
  BY <1>1, <1>2 DEF AddFunc
<1>3. CASE UpdateFunc(prev, new)
  BY <1>1, <1>3 DEF UpdateFunc
<1>4. CASE DeleteFunc(prev)
  BY <1>1, <1>4 DEF DeleteFunc
<1> QED
  BY <1>2, <1>3, <1>4

\* The empty set of zones is well-typed.
LEMMA NoZonesType == /\ NoZones \in [{} -> ZoneContents]
                     /\ \E Z \in SUBSET Zones : NoZones \in [Z -> ZoneContents]
<1>1. NoZones \in [{} -> ZoneContents]
  BY DEF NoZones
<1> QED
  BY <1>1

\* The initial state is well-typed.
LEMMA InitType == Init => TypeOK
<1> SUFFICES ASSUME Init PROVE TypeOK
  OBVIOUS
<1>1. watch \in [Objects -> Seq(DNSRecordSpec \cup {Absent, Tombstone})]
  BY DEF Init
<1>2. query \in Queries
  BY DEF Init, Queries
<1>3. \E Z \in SUBSET Zones : zones \in [Z -> ZoneContents]
  BY NoZonesType DEF Init
<1>4. edits \in 0..MaxEdits /\ breaks \in 0..MaxBreaks
  BY PluginAssumption DEF Init
<1> QED
  BY <1>1, <1>2, <1>3, <1>4 DEF Init, TypeOK

\* Writes by users keep the state well-typed.
LEMMA UserType ==
  ASSUME TypeOK, NEW o \in Objects, Put(o) \/ Delete(o)
  PROVE  TypeOK'
<1>1. PICK v \in Version : UserWrite(o, v)
  BY PluginAssumption DEF Put, Delete, Version
<1>2. watch' \in [Objects -> Seq(DNSRecordSpec \cup {Absent, Tombstone})]
  BY <1>1 DEF UserWrite, TypeOK, Version
<1> QED
  BY <1>1, <1>2, PluginAssumption DEF UserWrite, TypeOK, Version

\* What a notification is about.
LEMMA NotifyFacts ==
  ASSUME TypeOK, NEW o \in Objects, Notify(o)
  PROVE  /\ watch[o] # <<>>
         /\ Head(watch[o]) \in DNSRecordSpec \cup {Absent, Tombstone}
         /\ Tail(watch[o]) \in Seq(DNSRecordSpec \cup {Absent, Tombstone})
BY DEF TypeOK, Notify

\* The informer and its handlers keep the state well-typed.
LEMMA InformerType ==
  ASSUME TypeOK, NEW o \in Objects, Notify(o) \/ Resync(o)
  PROVE  TypeOK'
<1>1. CASE Resync(o)
  <2>1. seen[o] \in DNSRecordSpec
    BY <1>1 DEF Resync, TypeOK
  <2>2. records' \subseteq PluginRR /\ dirty' \in BOOLEAN
    BY <1>1, <2>1, HandlerType DEF Resync
  <2> QED
    BY <1>1, <2>2 DEF Resync, TypeOK
<1>2. CASE Notify(o)
  <2> DEFINE new == Head(watch[o])
  <2>1. /\ new \in DNSRecordSpec \cup {Absent, Tombstone}
        /\ Tail(watch[o]) \in Seq(DNSRecordSpec \cup {Absent, Tombstone})
    BY <1>2, NotifyFacts
  <2>2. watch' \in [Objects -> Seq(DNSRecordSpec \cup {Absent, Tombstone})]
    BY <1>2, <2>1 DEF Notify, TypeOK
  <2>3. seen' \in [Objects -> DNSRecordSpec \cup {Absent}]
    BY <1>2, <2>1 DEF Notify, TypeOK
  <2>4. seen[o] # Absent => seen[o] \in DNSRecordSpec
    BY DEF TypeOK
  <2>5. records' \subseteq PluginRR /\ dirty' \in BOOLEAN
    <3>1. CASE seen[o] = Absent /\ new \notin {Absent, Tombstone} /\ AddFunc(new)
      BY <2>1, <3>1, HandlerType
    <3>2. CASE seen[o] # Absent /\ new \notin {Absent, Tombstone} /\ UpdateFunc(seen[o], new)
      BY <2>1, <2>4, <3>2, HandlerType
    <3>3. CASE seen[o] # Absent /\ new = Absent /\ DeleteFunc(seen[o])
      BY <2>4, <3>3, HandlerType
    <3>4. CASE new = Tombstone /\ UNCHANGED <<records, dirty>>
      BY <3>4 DEF TypeOK
    <3> QED
      BY <1>2, <3>1, <3>2, <3>3, <3>4 DEF Notify
  <2> QED
    BY <1>2, <2>2, <2>3, <2>5 DEF Notify, TypeOK
<1> QED
  BY <1>1, <1>2

\* So do relisting and restarts, which fill the notifications anew.
LEMMA BreakType ==
  ASSUME TypeOK, Relist \/ Restart
  PROVE  TypeOK'
<1>1. CASE Relist
  <2>1. watch' \in [Objects -> Seq(DNSRecordSpec \cup {Absent, Tombstone})]
    <3>1. \A o \in Objects : store[o] # Absent => <<store[o]>> \in Seq(DNSRecordSpec \cup {Absent, Tombstone})
      BY DEF TypeOK
    <3>2. /\ <<>> \in Seq(DNSRecordSpec \cup {Absent, Tombstone})
          /\ <<Tombstone>> \in Seq(DNSRecordSpec \cup {Absent, Tombstone})
      OBVIOUS
    <3> QED
      BY <1>1, <3>1, <3>2 DEF Relist
  <2>2. breaks' \in 0..MaxBreaks
    BY <1>1, PluginAssumption DEF Relist, TypeOK
  <2>3. UNCHANGED <<store, seen, records, dirty, zones, query, held, missed, edits>>
    BY <1>1 DEF Relist
  <2> QED
    BY <2>1, <2>2, <2>3 DEF TypeOK
<1>2. CASE Restart
  <2>1. watch' \in [Objects -> Seq(DNSRecordSpec \cup {Absent, Tombstone})]
    <3>1. \A o \in Objects : store[o] # Absent => <<store[o]>> \in Seq(DNSRecordSpec \cup {Absent, Tombstone})
      BY DEF TypeOK
    <3>2. <<>> \in Seq(DNSRecordSpec \cup {Absent, Tombstone})
      OBVIOUS
    <3> QED
      BY <1>2, <3>1, <3>2 DEF Restart
  <2>2. query' \in Queries
    BY <1>2 DEF Restart, Queries
  <2>3. \E Z \in SUBSET Zones : zones' \in [Z -> ZoneContents]
    BY <1>2, NoZonesType DEF Restart
  <2>4. breaks' \in 0..MaxBreaks
    BY <1>2, PluginAssumption DEF Restart, TypeOK
  <2> QED
    BY <1>2, <2>1, <2>2, <2>3, <2>4 DEF Restart, TypeOK
<1> QED
  BY <1>1, <1>2

\* So do sync and the steps of a query.
LEMMA ServeType ==
  ASSUME TypeOK, Sync \/ (\E rr \in PluginRR : MatchZone(rr)) \/ Answer \/ Reply
  PROVE  TypeOK'
<1>1. CASE Sync
  BY <1>1, BuiltType DEF Sync, TypeOK
<1>2. CASE \E rr \in PluginRR : MatchZone(rr)
  BY <1>2 DEF MatchZone, TypeOK, Queries, Results
<1>3. CASE Answer
  <2>1. PICK rr \in PluginRR : query = Matched(rr)
    BY <1>3 DEF Answer, TypeOK, Queries, Idle, Matched, Answered
  <2> QED
    BY <1>3, <2>1 DEF Answer, TypeOK, Queries, Results, Matched
<1>4. CASE Reply
  BY <1>4 DEF Reply, TypeOK, Queries
<1> QED
  BY <1>1, <1>2, <1>3, <1>4

\* Every step keeps the state well-typed.
LEMMA NextType == TypeOK /\ [Next]_vars => TypeOK'
<1> SUFFICES ASSUME TypeOK, [Next]_vars PROVE TypeOK'
  OBVIOUS
<1>1. CASE UNCHANGED vars
  BY <1>1 DEF vars, TypeOK
<1>2. CASE Next
  BY <1>2, UserType, InformerType, BreakType, ServeType DEF Next
<1> QED
  BY <1>1, <1>2

\* The state of the plugin is well-typed; in particular everything it serves
\* comes from makeRecord.
THEOREM PluginTypeCorrect == Spec => []TypeOK
BY InitType, NextType, PTL DEF Spec

(***************************************************************************)
(* Queries beside handlers.  What makes Uninterrupted inductive: a zone    *)
(* holds the records of its own names only, and the records that the query *)
(* may count on are in the map and, sync or no sync, in the zones.         *)
(***************************************************************************)
OwnNames == \A z \in DOMAIN zones : \A r \in zones[z].rrs : ZoneOf[r.data] = z

HeldServed == held \subseteq records /\ held \subseteq Served

QueryInv == TypeOK /\ OwnNames /\ HeldServed /\ Uninterrupted

\* A served record is found in the zone of its name.
LEMMA FoundInZone ==
  ASSUME OwnNames, NEW r \in Served
  PROVE  ZoneOf[r.data] \in DOMAIN zones /\ r \in zones[ZoneOf[r.data]].rrs
BY DEF OwnNames, Served

\* A held record stays served when sync replaces the zones.
LEMMA SyncKeepsHeld ==
  ASSUME QueryInv, Sync
  PROVE  OwnNames' /\ HeldServed'
<1>1. records \in SUBSET PluginRR /\ zones' = Built(records)
  BY DEF QueryInv, TypeOK, Sync
<1>2. OwnNames'
  <2>1. \A z \in DOMAIN zones' : zones'[z].rrs = {r \in records : ZoneOf[r.data] = z}
    BY <1>1, BuiltType
  <2> QED
    BY <2>1 DEF OwnNames
<1>3. Served' = {r \in records : ZoneOf[r.data] # NoZone}
  BY <1>1, BuiltServes DEF Served
<1>4. ASSUME NEW r \in held PROVE ZoneOf[r.data] # NoZone
  <2>1. DOMAIN zones \subseteq Zones
    BY DEF QueryInv, TypeOK
  <2> QED
    BY <1>4, <2>1, FoundInZone, RdataAssumption DEF QueryInv, HeldServed
<1> QED
  BY <1>2, <1>3, <1>4 DEF QueryInv, HeldServed, Sync

\* Every step preserves QueryInv.
LEMMA QueryStep == QueryInv /\ [Next]_vars => QueryInv'
<1> SUFFICES ASSUME QueryInv, [Next]_vars PROVE QueryInv'
  OBVIOUS
<1>1. TypeOK'
  BY NextType DEF QueryInv
<1>2. CASE UNCHANGED vars
  BY <1>1, <1>2 DEF vars, QueryInv, OwnNames, HeldServed, Served, Uninterrupted
<1>3. ASSUME NEW o \in Objects, Put(o) \/ Delete(o) PROVE QueryInv'
  BY <1>1, <1>3 DEF Put, Delete, UserWrite, QueryInv, OwnNames, HeldServed, Served,
                    Uninterrupted
<1>4. ASSUME NEW o \in Objects, Notify(o) \/ Resync(o) PROVE QueryInv'
  <2>1. held' = held \cap records' /\ UNCHANGED <<zones, query>>
    BY <1>4 DEF Notify, Resync
  <2> QED
    BY <1>1, <2>1 DEF QueryInv, OwnNames, HeldServed, Served, Uninterrupted
<1>5. CASE Relist
  BY <1>1, <1>5 DEF Relist, QueryInv, OwnNames, HeldServed, Served, Uninterrupted
<1>6. CASE Sync
  <2>1. Uninterrupted'
    BY <1>6 DEF Sync, QueryInv, Uninterrupted
  <2> QED
    BY <1>1, <1>6, <2>1, SyncKeepsHeld DEF QueryInv
<1>7. ASSUME NEW rr \in PluginRR, MatchZone(rr) PROVE QueryInv'
  <2>1. OwnNames' /\ HeldServed'
    BY <1>7 DEF MatchZone, QueryInv, OwnNames, HeldServed, Served
  <2>2. CASE ZoneOf[rr.data] \in DOMAIN zones
    BY <1>1, <1>7, <2>1, <2>2 DEF MatchZone, QueryInv, Uninterrupted, Matched
  <2>3. CASE ZoneOf[rr.data] \notin DOMAIN zones
    <3>1. rr \notin Served
      BY <2>3, FoundInZone DEF QueryInv
    <3>2. rr \notin held' /\ query'.rr = rr
      BY <1>7, <2>3, <3>1 DEF MatchZone, Answered
    <3> QED
      BY <1>1, <2>1, <3>2 DEF QueryInv, Uninterrupted
  <2> QED
    BY <2>2, <2>3
<1>8. CASE Answer
  <2>1. OwnNames' /\ HeldServed'
    BY <1>8 DEF Answer, QueryInv, OwnNames, HeldServed, Served
  <2>2. Uninterrupted'
    <3> SUFFICES ASSUME query'.rr \in held' PROVE query'.result = "answer"
      BY DEF Uninterrupted
    <3>1. held' = held /\ query'.rr = query.rr
      BY <1>8 DEF Answer, Answered
    <3>2. query.rr \in Served
      BY <3>1 DEF QueryInv, HeldServed
    <3> QED
      BY <1>8, <3>2, FoundInZone DEF Answer, Answered, QueryInv
  <2> QED
    BY <1>1, <2>1, <2>2 DEF QueryInv
<1>9. CASE Reply
  BY <1>1, <1>9 DEF Reply, QueryInv, OwnNames, HeldServed, Served, Uninterrupted, Idle
<1>10. CASE Restart
  BY <1>1, <1>10 DEF Restart, QueryInv, OwnNames, HeldServed, Served, Uninterrupted,
                     Idle, NoZones
<1> QED
  BY <1>2, <1>3, <1>4, <1>5, <1>6, <1>7, <1>8, <1>9, <1>10 DEF Next

\* ServeDNS reads the zones twice without holding the lock in between, and
\* handlers replace them at any time; for every set of DNSRecords, a record
\* that was served when the query began and stayed in the map is answered.
THEOREM QueriesUninterrupted == Spec => []Uninterrupted
<1>1. Init => QueryInv
  BY InitType DEF Init, QueryInv, OwnNames, HeldServed, Served, Uninterrupted, NoZones, Idle
<1>2. QueryInv => Uninterrupted
  BY DEF QueryInv
<1> QED
  BY <1>1, <1>2, QueryStep, PTL DEF Spec

(***************************************************************************)
(* What is served.  The map mirrors the informer's store as long as no     *)
(* handler removes the record of another object (Separate).                *)
(***************************************************************************)

\* Users never write the same record into two objects, and all they write
\* parses.
Separate ==
  \A o \in Objects : \A s \in SpecsOf[o] :
    /\ ~makeRecordFails(s)
    /\ \A p \in Objects \ {o} : \A t \in SpecsOf[p] : makeRecord(s) # makeRecord(t)

\* Everything the informer sees was written by a user.
Genuine ==
  \A o \in Objects :
    /\ store[o] \in SpecsOf[o] \cup {Absent}
    /\ seen[o] \in SpecsOf[o] \cup {Absent}
    /\ watch[o] \in Seq(SpecsOf[o] \cup {Absent, Tombstone})

\* What the informer will hold once it has handled a notification.
After(note) == IF note = Tombstone THEN Absent ELSE note

\* The informer lags by exactly the notifications under way.
Lag ==
  \A o \in Objects :
    IF watch[o] = <<>> THEN seen[o] = store[o]
                       ELSE After(watch[o][Len(watch[o])]) = store[o]

\* The map holds the active objects of the informer's store and what
\* tombstones left behind.
Mirrors ==
  records = missed \cup
              {makeRecord(seen[o]) :
                 o \in {p \in Objects : seen[p] # Absent /\ seen[p].active}}

Rebuilt == ~dirty => Served = {r \in records : ZoneOf[r.data] # NoZone}

ServeInv == TypeOK /\ Genuine /\ Lag /\ Mirrors /\ Rebuilt

\* The initial state satisfies the invariant.
LEMMA ServeInit == Init => ServeInv
<1> SUFFICES ASSUME Init PROVE ServeInv
  OBVIOUS
<1>1. Genuine /\ Lag
  BY DEF Init, Genuine, Lag
<1>2. Mirrors /\ Rebuilt
  BY DEF Init, Mirrors, Rebuilt, Served, NoZones
<1> QED
  BY <1>1, <1>2, InitType DEF ServeInv

\* A write by a user is one more notification.
LEMMA ServeUser ==
  ASSUME ServeInv, TypeOK', NEW o \in Objects, Put(o) \/ Delete(o)
  PROVE  ServeInv'
<1>1. PICK v \in SpecsOf[o] \cup {Absent} : UserWrite(o, v)
  BY DEF Put, Delete
<1>2. watch[o] \in Seq(SpecsOf[o] \cup {Absent, Tombstone})
  BY DEF ServeInv, Genuine
<1>3. /\ store' = [store EXCEPT ![o] = v]
      /\ watch' = [watch EXCEPT ![o] = Append(watch[o], v)]
      /\ UNCHANGED <<seen, records, dirty, zones, missed>>
  BY <1>1 DEF UserWrite
<1>4. /\ Append(watch[o], v) \in Seq(SpecsOf[o] \cup {Absent, Tombstone})
      /\ Append(watch[o], v) # <<>>
      /\ Append(watch[o], v)[Len(Append(watch[o], v))] = v
  BY <1>2
<1>5. store \in [Objects -> DNSRecordSpec \cup {Absent}] /\ DOMAIN watch = Objects
  BY DEF ServeInv, TypeOK
<1>6. Genuine'
  BY <1>3, <1>4, <1>5 DEF ServeInv, Genuine
<1>7. Lag'
  <2>1. After(v) = v
    BY <1>1, PluginAssumption DEF After
  <2> QED
    BY <1>3, <1>4, <1>5, <2>1 DEF ServeInv, Lag
<1>8. Mirrors' /\ Rebuilt'
  BY <1>3 DEF ServeInv, Mirrors, Rebuilt, Served
<1> QED
  BY <1>6, <1>7, <1>8 DEF ServeInv

\* The map after o has moved from one version to another, for each handler.
LEMMA MirrorsMove ==
  ASSUME Separate, Genuine, Mirrors, NEW o \in Objects,
         DOMAIN seen = Objects,
         NEW new \in SpecsOf[o] \cup {Absent}, seen' = [seen EXCEPT ![o] = new],
         \/ seen[o] = Absent /\ new # Absent /\ AddFunc(new)
         \/ seen[o] # Absent /\ new # Absent /\ UpdateFunc(seen[o], new)
         \/ seen[o] # Absent /\ new = Absent /\ DeleteFunc(seen[o]),
         missed' = missed \cap records'
  PROVE  Mirrors' /\ (dirty' \/ UNCHANGED <<records, dirty>>)
<1> DEFINE Rest == {makeRecord(seen[p]) :
                      p \in {q \in Objects \ {o} : seen[q] # Absent /\ seen[q].active}}
           Own(v) == IF v # Absent /\ v.active THEN {makeRecord(v)} ELSE {}
<1>1. records = missed \cup Rest \cup Own(seen[o])
  BY DEF Mirrors
<1>2. \A p \in Objects \ {o} : seen'[p] = seen[p]
  OBVIOUS
<1>3. seen'[o] = new
  OBVIOUS
<1>4. Mirrors' <=> records' = missed' \cup Rest \cup Own(new)
  BY <1>2, <1>3 DEF Mirrors
<1>5. seen[o] # Absent => makeRecord(seen[o]) \notin Rest
  BY DEF Separate, Genuine
<1>6. /\ new # Absent => ~makeRecordFails(new)
      /\ seen[o] # Absent => ~makeRecordFails(seen[o])
  BY DEF Separate, Genuine
<1> HIDE DEF Rest
<1>7. CASE seen[o] = Absent /\ new # Absent /\ AddFunc(new)
  BY <1>1, <1>4, <1>6, <1>7 DEF AddFunc
<1>8. CASE seen[o] # Absent /\ new # Absent /\ UpdateFunc(seen[o], new)
  BY <1>1, <1>4, <1>5, <1>6, <1>8 DEF UpdateFunc
<1>9. CASE seen[o] # Absent /\ new = Absent /\ DeleteFunc(seen[o])
  BY <1>1, <1>4, <1>5, <1>6, <1>9 DEF DeleteFunc
<1> QED
  BY <1>7, <1>8, <1>9

\* The map after a tombstone: what it should have removed is missed.
LEMMA MirrorsTombstone ==
  ASSUME Separate, Genuine, Mirrors, NEW o \in Objects,
         DOMAIN seen = Objects,
         seen' = [seen EXCEPT ![o] = Absent], UNCHANGED records,
         missed' = records' \cap (missed \cup {makeRecord(seen[o])})
  PROVE  Mirrors'
<1> DEFINE Rest == {makeRecord(seen[p]) :
                      p \in {q \in Objects \ {o} : seen[q] # Absent /\ seen[q].active}}
           Own(v) == IF v # Absent /\ v.active THEN {makeRecord(v)} ELSE {}
<1>1. records = missed \cup Rest \cup Own(seen[o])
  BY DEF Mirrors
<1>2. Mirrors' <=> records' = missed' \cup Rest
  BY DEF Mirrors
<1> HIDE DEF Rest
<1> QED
  BY <1>1, <1>2

\* The first notification of several is taken.
LEMMA TakeOne ==
  ASSUME NEW S, NEW w \in Seq(S), w # <<>>
  PROVE  /\ Head(w) \in S
         /\ Tail(w) \in Seq(S)
         /\ Tail(w) = <<>> => Head(w) = w[Len(w)]
         /\ Tail(w) # <<>> => Tail(w)[Len(Tail(w))] = w[Len(w)]
<1>1. Head(w) \in S /\ Tail(w) \in Seq(S) /\ Len(Tail(w)) = Len(w) - 1
  OBVIOUS
<1>2. Tail(w) = <<>> => Head(w) = w[Len(w)]
  <2> SUFFICES ASSUME Tail(w) = <<>> PROVE Head(w) = w[Len(w)]
    OBVIOUS
  <2>1. Len(Tail(w)) = 0
    BY EmptySeq, Zenon
  <2>2. Len(w) = 1
    BY <1>1, <2>1, LenProperties
  <2> QED
    BY <2>2
<1>3. Tail(w) # <<>> => Tail(w)[Len(Tail(w))] = w[Len(w)]
  <2> SUFFICES ASSUME Tail(w) # <<>> PROVE Tail(w)[Len(Tail(w))] = w[Len(w)]
    OBVIOUS
  <2>1. Len(Tail(w)) \in 1..(Len(w) - 1) /\ Len(Tail(w)) + 1 = Len(w)
    BY <1>1
  <2> QED
    BY <2>1
<1> QED
  BY <1>1, <1>2, <1>3

\* A notification or a resync keeps the map a mirror.
LEMMA ServeInformer ==
  ASSUME Separate, ServeInv, TypeOK', NEW o \in Objects, Notify(o) \/ Resync(o)
  PROVE  ServeInv'
<1>1. DOMAIN seen = Objects /\ DOMAIN watch = Objects
  BY DEF ServeInv, TypeOK
<1>2. Served' = Served
  BY DEF Notify, Resync, Served
<1>3. CASE Resync(o)
  <2>1. seen' = [seen EXCEPT ![o] = seen[o]] /\ seen[o] \in SpecsOf[o] \cup {Absent}
    BY <1>1, <1>3 DEF Resync, ServeInv, Genuine, TypeOK
  <2>2. Mirrors' /\ (dirty' \/ UNCHANGED <<records, dirty>>)
    BY <1>1, <1>3, <2>1, MirrorsMove DEF Resync, ServeInv
  <2> QED
    BY <1>2, <1>3, <2>2 DEF Resync, ServeInv, Genuine, Lag, Rebuilt
<1>4. CASE Notify(o)
  <2> DEFINE new == Head(watch[o])
             w == watch[o]
  <2>1. /\ w # <<>>
        /\ watch' = [watch EXCEPT ![o] = Tail(w)]
        /\ seen' = [seen EXCEPT ![o] = After(new)]
        /\ missed' = records' \cap
             IF new = Tombstone THEN missed \cup {makeRecord(seen[o])} ELSE missed
        /\ UNCHANGED store
    BY <1>4 DEF Notify, After
  <2>2. w \in Seq(SpecsOf[o] \cup {Absent, Tombstone})
    BY DEF ServeInv, Genuine
  <2>3. /\ new \in SpecsOf[o] \cup {Absent, Tombstone}
        /\ Tail(w) \in Seq(SpecsOf[o] \cup {Absent, Tombstone})
        /\ Tail(w) = <<>> => new = w[Len(w)]
        /\ Tail(w) # <<>> => Tail(w)[Len(Tail(w))] = w[Len(w)]
    BY <2>1, <2>2, TakeOne
  <2>4. After(new) \in SpecsOf[o] \cup {Absent}
    BY <2>3 DEF After
  <2>5. Mirrors' /\ (dirty' \/ UNCHANGED <<records, dirty>>)
    <3> HIDE DEF new
    <3>1. CASE new = Tombstone
      <4>1. UNCHANGED <<records, dirty>>
        BY <1>4, <3>1, PluginAssumption DEF Notify, new
      <4> QED
        BY <1>1, <2>1, <3>1, <4>1, MirrorsTombstone DEF ServeInv, After
    <3>2. CASE new # Tombstone
      <4>1. /\ \/ seen[o] = Absent /\ new # Absent /\ AddFunc(new)
               \/ seen[o] # Absent /\ new # Absent /\ UpdateFunc(seen[o], new)
               \/ seen[o] # Absent /\ new = Absent /\ DeleteFunc(seen[o])
            /\ After(new) = new
            /\ missed' = missed \cap records'
        BY <1>4, <2>1, <3>2 DEF Notify, new, After
      <4> QED
        BY <1>1, <2>1, <2>4, <4>1, MirrorsMove DEF ServeInv
    <3> QED
      BY <3>1, <3>2
  <2>6. Genuine'
    BY <1>1, <2>1, <2>3, <2>4 DEF ServeInv, Genuine
  <2>7. Lag'
    <3> HIDE DEF new
    <3> QED
      BY <1>1, <2>1, <2>3 DEF ServeInv, Lag
  <2> QED
    BY <1>2, <2>5, <2>6, <2>7 DEF ServeInv, Rebuilt
<1> QED
  BY <1>3, <1>4

\* sync makes the zones agree with the map again.
LEMMA ServeSync ==
  ASSUME ServeInv, TypeOK', Sync
  PROVE  ServeInv'
<1>1. Rebuilt'
  <2>1. records \in SUBSET PluginRR /\ zones' = Built(records) /\ records' = records
    BY DEF Sync, ServeInv, TypeOK
  <2>2. Served' = {r \in records : ZoneOf[r.data] # NoZone}
    BY <2>1, BuiltServes DEF Served
  <2> QED
    BY <2>1, <2>2 DEF Rebuilt
<1> QED
  BY <1>1 DEF Sync, ServeInv, Genuine, Lag, Mirrors

\* A list of the stored objects brings the informer's notifications up to
\* date, both for an object it holds and for one it has never seen.
LEMMA Listed ==
  ASSUME ServeInv, NEW o \in Objects, store' = store,
         \/ store[o] # Absent /\ watch'[o] = <<store[o]>>
         \/ store[o] = Absent /\ watch'[o] = <<Tombstone>>
         \/ store[o] = Absent /\ seen'[o] = Absent /\ watch'[o] = <<>>
  PROVE  /\ watch'[o] \in Seq(SpecsOf[o] \cup {Absent, Tombstone})
         /\ IF watch'[o] = <<>> THEN seen'[o] = store'[o]
                                ELSE After(watch'[o][Len(watch'[o])]) = store'[o]
<1>1. store[o] \in SpecsOf[o] \cup {Absent} /\ store[o] # Tombstone
  BY PluginAssumption DEF ServeInv, Genuine, TypeOK
<1>2. ASSUME NEW v \in SpecsOf[o] \cup {Absent, Tombstone}
      PROVE  /\ <<v>> \in Seq(SpecsOf[o] \cup {Absent, Tombstone})
             /\ <<v>> # <<>> /\ <<v>>[Len(<<v>>)] = v
  OBVIOUS
<1>3. CASE store[o] # Absent /\ watch'[o] = <<store[o]>>
  BY <1>1, <1>2, <1>3 DEF After
<1>4. CASE store[o] = Absent /\ watch'[o] = <<Tombstone>>
  BY <1>2, <1>4 DEF After
<1>5. CASE store[o] = Absent /\ seen'[o] = Absent /\ watch'[o] = <<>>
  BY <1>5
<1> QED
  BY <1>3, <1>4, <1>5

\* A restart forgets everything and lists the stored objects.
LEMMA ServeRestart ==
  ASSUME ServeInv, TypeOK', Restart
  PROVE  ServeInv'
<1>1. /\ \A o \in Objects : watch'[o] = IF store[o] = Absent THEN <<>> ELSE <<store[o]>>
      /\ \A o \in Objects : seen'[o] = Absent
      /\ records' = {} /\ zones' = NoZones /\ store' = store /\ missed' = {}
  BY DEF Restart
<1>2. Genuine' /\ Lag'
  <2>1. \A o \in Objects :
          /\ watch'[o] \in Seq(SpecsOf[o] \cup {Absent, Tombstone})
          /\ IF watch'[o] = <<>> THEN seen'[o] = store'[o]
                                 ELSE After(watch'[o][Len(watch'[o])]) = store'[o]
    BY <1>1, Listed
  <2> QED
    BY <1>1, <2>1 DEF ServeInv, Genuine, Lag
<1>3. Mirrors' /\ Rebuilt'
  BY <1>1 DEF Mirrors, Rebuilt, Served, NoZones
<1> QED
  BY <1>2, <1>3 DEF ServeInv

\* After a lost watch the objects are listed again; deletions that were missed
\* become tombstones.
LEMMA ServeRelist ==
  ASSUME ServeInv, TypeOK', Relist
  PROVE  ServeInv'
<1>1. /\ \A o \in Objects :
           \/ store[o] # Absent /\ watch'[o] = <<store[o]>>
           \/ store[o] = Absent /\ watch'[o] = <<Tombstone>>
           \/ store[o] = Absent /\ seen[o] = Absent /\ watch'[o] = <<>>
      /\ UNCHANGED <<store, seen, records, dirty, zones, missed>>
  BY DEF Relist
<1>2. Genuine' /\ Lag'
  <2>1. \A o \in Objects :
          /\ watch'[o] \in Seq(SpecsOf[o] \cup {Absent, Tombstone})
          /\ IF watch'[o] = <<>> THEN seen'[o] = store'[o]
                                 ELSE After(watch'[o][Len(watch'[o])]) = store'[o]
    BY <1>1, Listed
  <2> QED
    BY <1>1, <2>1 DEF ServeInv, Genuine, Lag
<1>3. Mirrors' /\ Rebuilt'
  BY <1>1 DEF ServeInv, Mirrors, Rebuilt, Served
<1> QED
  BY <1>2, <1>3 DEF ServeInv

\* Every step preserves the invariant.
LEMMA ServeStep ==
  ASSUME Separate
  PROVE  ServeInv /\ [Next]_vars => ServeInv'
<1> SUFFICES ASSUME ServeInv, [Next]_vars PROVE ServeInv'
  OBVIOUS
<1>1. TypeOK'
  BY NextType DEF ServeInv
<1>2. ASSUME \/ \E rr \in PluginRR : MatchZone(rr)
             \/ Answer
             \/ Reply
             \/ UNCHANGED vars
      PROVE  ServeInv'
  <2>1. UNCHANGED <<store, watch, seen, records, dirty, zones, missed>>
    BY <1>2 DEF MatchZone, Answer, Reply, vars
  <2>2. Genuine' /\ Lag'
    BY <2>1 DEF ServeInv, Genuine, Lag
  <2>3. Mirrors' /\ Rebuilt'
    BY <2>1 DEF ServeInv, Mirrors, Rebuilt, Served
  <2> QED
    BY <1>1, <2>2, <2>3 DEF ServeInv
<1> QED
  BY <1>1, <1>2, ServeUser, ServeInformer, ServeSync, ServeRestart, ServeRelist DEF Next

\* Once the handlers have caught up, what the zones hold is what the DNSRecords
\* ask for, for any number of them and any history of edits and restarts.
LEMMA ServeCurrent ==
  ASSUME Separate
  PROVE  ServeInv => Current
<1> SUFFICES ASSUME ServeInv, Quiet
             PROVE  Served = Wanted \cup {r \in missed : ZoneOf[r.data] # NoZone}
  BY DEF Current
<1>1. \A o \in Objects : seen[o] = store[o]
  BY DEF ServeInv, Lag, Quiet
<1>2. Served = {r \in records : ZoneOf[r.data] # NoZone}
  BY DEF ServeInv, Rebuilt, Quiet
<1>3. records = missed \cup
                  {makeRecord(store[o]) :
                     o \in {p \in Objects : store[p] # Absent /\ store[p].active}}
  BY <1>1 DEF ServeInv, Mirrors
<1>4. \A o \in Objects : store[o] # Absent => ~makeRecordFails(store[o])
  BY DEF ServeInv, Genuine, Separate
<1>5. \A o \in Objects : makeRecord(store[o]).data = store[o].data
  BY DEF makeRecord
<1> QED
  BY <1>2, <1>3, <1>4, <1>5 DEF Wanted

\* The plugin serves exactly the active DNSRecords, and what tombstones left
\* behind, whenever its handlers have caught up, for any number of DNSRecords,
\* restarts and lost watches, if no two of them ask for the same record and
\* all of them parse.  Both conditions are needed: records is keyed by the
\* record's text, and UpdateFunc returns early on a specification that does
\* not convert.
THEOREM ServesExactly ==
  ASSUME Separate
  PROVE  Spec => []Current
<1>1. Init => ServeInv
  BY ServeInit
<1>2. ServeInv /\ [Next]_vars => ServeInv'
  BY ServeStep
<1>3. ServeInv => Current
  BY ServeCurrent
<1> QED
  BY <1>1, <1>2, <1>3, PTL DEF Spec
=============================================================================
