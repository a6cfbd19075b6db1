------------------------------- MODULE K8sDNS -------------------------------
(***************************************************************************)
(* The k8s_dns CoreDNS plugin: an informer feeds the DNSRecords of the     *)
(* cluster to event handlers, which keep the map "records" and rebuild the *)
(* zones from it; queries are answered from the zones.                     *)
(*                                                                         *)
(* The informer runs the handlers one after the other.  A handler changes  *)
(* "records" in one critical section and rebuilds the zones in another     *)
(* (sync), and a query reads the zones twice, once for their names and     *)
(* once for the contents, so queries see the handler at work.              *)
(***************************************************************************)
EXTENDS DNSRecord, Sequences, FiniteSets

CONSTANTS
  Objects,         \* keys of the DNSRecords
  Absent,          \* "no such object"
  Tombstone,       \* cache.DeletedFinalStateUnknown
  SpecsOf,         \* SpecsOf[o]: specifications users write for o
  SoaData, NsData, \* Rdata of SOA and NS records of a zone's apex
  ExternalAddress, \* the --external-address flag; None if not given
  MaxEdits,        \* bound: writes by users
  MaxBreaks        \* bound: lost watches and restarts

ASSUME PluginAssumption ==
  /\ SpecsOf \in [Objects -> SUBSET DNSRecordSpec]
  /\ Absent \notin DNSRecordSpec
  /\ Tombstone \notin DNSRecordSpec
  /\ Tombstone # Absent
  /\ MaxEdits \in Nat
  /\ MaxBreaks \in Nat

VARIABLES
  store,     \* store[o]: the specification of o in the API server
  watch,     \* watch[o]: notifications for o that are under way
  seen,      \* seen[o]: the version of o in the informer's own store
  records,   \* the values of the map "records", whose keys are their text
  dirty,     \* has a handler changed records and not yet called sync?
  zones,     \* the zones built by the last sync
  query,     \* the query being served
  held,      \* ghost: records that were served when the query began and have
             \* been in the map ever since
  missed,    \* ghost: records in the map whose deletion came as a tombstone
  edits,     \* number of writes by users so far
  breaks     \* number of lost watches and restarts so far

vars == <<store, watch, seen, records, dirty, zones, query, held, missed, edits, breaks>>

\* The resource records of makeRecord; Default is not called here, so an unset
\* TTL stays 0.
PluginRR == [data : Rdata, ttl : Ttls \cup {0}]

\* Mutant: the record is looked up without its TTL.
makeRecordNoTtl(spec) == [data |-> spec.data, ttl |-> None]

makeRecord(spec) == [data |-> spec.data, ttl |-> spec.ttl]

makeRecordFails(spec) == spec.data \in Unparsable

\* A zone: its records, where its SOA and NS records come from, and whether
\* the generated NS name gets an address.
ZoneContents ==
  [rrs : SUBSET PluginRR, soa : {"record", "generated"},
   ns : {"record", "generated"}, glue : BOOLEAN]

NoZones == [z \in {} |-> {}]

Idle == [phase |-> "idle"]
Matched(rr) == [phase |-> "matched", rr |-> rr]
Answered(rr, result) == [phase |-> "answered", rr |-> rr, result |-> result]

Results == {"answer", "nodata", "next", "servfail"}

Queries ==
  {Idle} \cup {Matched(rr) : rr \in PluginRR}
         \cup {Answered(rr, res) : rr \in PluginRR, res \in Results}

TypeOK ==
  /\ store \in [Objects -> DNSRecordSpec \cup {Absent}]
  /\ watch \in [Objects -> Seq(DNSRecordSpec \cup {Absent, Tombstone})]
  /\ seen \in [Objects -> DNSRecordSpec \cup {Absent}]
  /\ records \subseteq PluginRR
  /\ dirty \in BOOLEAN
  /\ \E Z \in SUBSET Zones : zones \in [Z -> ZoneContents]
  /\ query \in Queries
  /\ held \subseteq PluginRR
  /\ missed \subseteq PluginRR
  /\ edits \in 0..MaxEdits
  /\ breaks \in 0..MaxBreaks

Init ==
  /\ store = [o \in Objects |-> Absent]
  /\ watch = [o \in Objects |-> <<>>]
  /\ seen = [o \in Objects |-> Absent]
  /\ records = {}
  /\ dirty = FALSE
  /\ zones = NoZones
  /\ query = Idle
  /\ held = {}
  /\ missed = {}
  /\ edits = 0
  /\ breaks = 0

(***************************************************************************)
(* Users change DNSRecords; the informer will be notified.                 *)
(***************************************************************************)
UserWrite(o, v) ==
  /\ edits < MaxEdits
  /\ edits' = edits + 1
  /\ store[o] # v
  /\ store' = [store EXCEPT ![o] = v]
  /\ watch' = [watch EXCEPT ![o] = Append(@, v)]
  /\ UNCHANGED <<seen, records, dirty, zones, query, held, missed, breaks>>

Put(o) == \E spec \in SpecsOf[o] : UserWrite(o, spec)

Delete(o) == UserWrite(o, Absent)

(***************************************************************************)
(* The event handlers.                                                     *)
(***************************************************************************)
AddFunc(new) ==
  IF makeRecordFails(new) \/ ~new.active
  THEN UNCHANGED <<records, dirty>>
  ELSE /\ records' = records \cup {makeRecord(new)}
       /\ dirty' = TRUE

\* Mutant: the new record is added before the old one is removed.
UpdateFuncDeletesLast(prev, new) ==
  IF makeRecordFails(prev) \/ makeRecordFails(new)
  THEN UNCHANGED <<records, dirty>>
  ELSE /\ records' = (records \cup IF new.active THEN {makeRecord(new)} ELSE {})
                       \ {makeRecord(prev)}
       /\ dirty' = TRUE

UpdateFunc(prev, new) ==
  IF makeRecordFails(prev) \/ makeRecordFails(new)
  THEN UNCHANGED <<records, dirty>>
  ELSE /\ records' = (records \ {makeRecord(prev)}) \cup
                       IF new.active THEN {makeRecord(new)} ELSE {}
       /\ dirty' = TRUE

DeleteFunc(prev) ==
  IF makeRecordFails(prev)
  THEN UNCHANGED <<records, dirty>>
  ELSE /\ records' = records \ {makeRecord(prev)}
       /\ dirty' = TRUE

\* The informer updates its own store and runs the handler of the event.  A
\* tombstone is not a DNSRecord, so DeleteFunc only logs an error.
Notify(o) ==
  LET new == Head(watch[o])
  IN  /\ ~dirty
      /\ watch[o] # <<>>
      /\ watch' = [watch EXCEPT ![o] = Tail(@)]
      /\ seen' = [seen EXCEPT ![o] = IF new = Tombstone THEN Absent ELSE new]
      /\ \/ /\ seen[o] = Absent /\ new \notin {Absent, Tombstone}
            /\ AddFunc(new)
         \/ /\ seen[o] # Absent /\ new \notin {Absent, Tombstone}
            /\ UpdateFunc(seen[o], new)
         \/ /\ seen[o] # Absent /\ new = Absent
            /\ DeleteFunc(seen[o])
         \/ /\ new = Tombstone
            /\ UNCHANGED <<records, dirty>>
      /\ held' = held \cap records'
      /\ missed' = records' \cap
           IF new = Tombstone THEN missed \cup {makeRecord(seen[o])} ELSE missed
      /\ UNCHANGED <<store, zones, query, edits, breaks>>

\* An update that leaves the specification alone: the informer's periodic
\* resync, or a write of the object's status or metadata.
Resync(o) ==
  /\ ~dirty
  /\ seen[o] # Absent
  /\ UpdateFunc(seen[o], seen[o])
  /\ held' = held \cap records'
  /\ missed' = missed \cap records'
  /\ UNCHANGED <<store, watch, seen, zones, query, edits, breaks>>

\* The watch is lost and the objects are listed again: only their last
\* versions arrive, and a deletion that was missed becomes a tombstone.
Relist ==
  /\ breaks < MaxBreaks
  /\ breaks' = breaks + 1
  /\ watch' = [o \in Objects |->
                 CASE store[o] # Absent -> <<store[o]>>
                   [] store[o] = Absent /\ seen[o] # Absent -> <<Tombstone>>
                   [] OTHER -> <<>>]
  /\ UNCHANGED <<store, seen, records, dirty, zones, query, held, missed, edits>>

(***************************************************************************)
(* sync: the zones of the records, each with an apex.  A record whose name *)
(* has no registrable domain is left out.                                  *)
(***************************************************************************)

\* setup reads the address from a block that the rendered Corefile does not
\* have, so the plugin never learns it.
setup(flag) == None

Built(recs) ==
  [z \in {ZoneOf[r.data] : r \in recs} \ {NoZone} |->
     LET rrs == {r \in recs : ZoneOf[r.data] = z}
         ownNs == \E r \in rrs : r.data \in NsData
     IN  [rrs |-> rrs,
          soa |-> IF \E r \in rrs : r.data \in SoaData THEN "record" ELSE "generated",
          ns |-> IF ownNs THEN "record" ELSE "generated",
          glue |-> ~ownNs /\ setup(ExternalAddress) # None]]

\* The records that the zones answer with.
Served == UNION {zones[z].rrs : z \in DOMAIN zones}

\* Mutant: the early return at a name without a zone leaves the lock held.
SyncKeepsLock ==
  /\ dirty
  /\ dirty' = (\E r \in records : ZoneOf[r.data] = NoZone)
  /\ zones' = Built(records)
  /\ UNCHANGED <<store, watch, seen, records, query, held, missed, edits, breaks>>

Sync ==
  /\ dirty
  /\ dirty' = FALSE
  /\ zones' = Built(records)
  /\ UNCHANGED <<store, watch, seen, records, query, held, missed, edits, breaks>>

(***************************************************************************)
(* ServeDNS, for a query that asks for one record: match the name with the *)
(* zones' names, then look the zone up and answer from it.                 *)
(***************************************************************************)
MatchZone(rr) ==
  /\ query = Idle
  /\ query' = IF ZoneOf[rr.data] \in DOMAIN zones THEN Matched(rr)
                                                 ELSE Answered(rr, "next")
  /\ held' = Served \cap records
  /\ UNCHANGED <<store, watch, seen, records, dirty, zones, missed, edits, breaks>>

\* Mutant: a query that finds a handler at work is refused.
AnswerUnlessDirty ==
  /\ query.phase = "matched"
  /\ LET z == ZoneOf[query.rr.data]
     IN  query' = Answered(query.rr,
                    IF dirty \/ z \notin DOMAIN zones THEN "servfail"
                    ELSE IF query.rr \in zones[z].rrs THEN "answer"
                    ELSE "nodata")
  /\ UNCHANGED <<store, watch, seen, records, dirty, zones, held, missed, edits, breaks>>

Answer ==
  /\ query.phase = "matched"
  /\ LET z == ZoneOf[query.rr.data]
     IN  query' = Answered(query.rr,
                    IF z \notin DOMAIN zones THEN "servfail"
                    ELSE IF query.rr \in zones[z].rrs THEN "answer"
                    ELSE "nodata")
  /\ UNCHANGED <<store, watch, seen, records, dirty, zones, held, missed, edits, breaks>>

Reply ==
  /\ query.phase = "answered"
  /\ query' = Idle
  /\ held' = {}
  /\ UNCHANGED <<store, watch, seen, records, dirty, zones, missed, edits, breaks>>

\* CoreDNS starts again: records and zones are empty and every object is new.
Restart ==
  /\ breaks < MaxBreaks
  /\ breaks' = breaks + 1
  /\ watch' = [o \in Objects |-> IF store[o] = Absent THEN <<>> ELSE <<store[o]>>]
  /\ seen' = [o \in Objects |-> Absent]
  /\ records' = {}
  /\ dirty' = FALSE
  /\ zones' = NoZones
  /\ query' = Idle
  /\ held' = {}
  /\ missed' = {}
  /\ UNCHANGED <<store, edits>>

Next ==
  \/ \E o \in Objects : Put(o) \/ Delete(o) \/ Notify(o) \/ Resync(o)
  \/ Relist
  \/ Sync
  \/ \E rr \in PluginRR : MatchZone(rr)
  \/ Answer
  \/ Reply
  \/ Restart

Spec == Init /\ [][Next]_vars

\* Handlers run to their end, and notifications are handled in the order of
\* their arrival: resyncs cannot keep one waiting for ever.
FairSpec ==
  Spec /\ WF_vars(Sync) /\ \A o \in Objects : SF_vars(Notify(o))

-----------------------------------------------------------------------------
(***************************************************************************)
(* Properties.                                                             *)
(***************************************************************************)

\* The records that the stored DNSRecords ask the plugin to serve.
Wanted ==
  {makeRecord(store[o]) : o \in
     {p \in Objects : /\ store[p] # Absent
                      /\ store[p].active
                      /\ ~makeRecordFails(store[p])
                      /\ ZoneOf[store[p].data] # NoZone}}

\* Every notification has been handled and the zones are rebuilt.
Quiet == ~dirty /\ \A o \in Objects : watch[o] = <<>>

\* "The k8s_dns plugin serve the DNSRecord" (README.md:234): once the
\* handlers have caught up with the API server, the zones hold the records of
\* the active DNSRecords, whatever the order of the creations, edits,
\* deletions, restarts, resyncs and lost watches that led there.  The only
\* records beyond those are the ones whose deletion came as a tombstone: they
\* stay until their object is made again or CoreDNS restarts.
Current == Quiet => Served = Wanted \cup {r \in missed : ZoneOf[r.data] # NoZone}

\* ServeDNS reads the zones twice while handlers replace them.  A record that
\* was served when the query came in, and that no handler removed since, is
\* nevertheless answered: never SERVFAIL, NODATA or the next plugin.
Uninterrupted ==
  query.phase = "answered" /\ query.rr \in held => query.result = "answer"

\* An edit is picked up: the zones end up, for good, with the records that
\* the DNSRecords ask for once users stop changing them (and, until a restart,
\* with those whose deletion came as a tombstone).
CatchesUp == <>[](Served = Wanted \cup {r \in missed : ZoneOf[r.data] # NoZone})
=============================================================================
