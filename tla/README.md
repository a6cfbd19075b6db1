# Verification of k8s-dns-manager

TLA+ models of the DNS operator in this repository, the TLC runs that check
them on small instances, and TLAPS proofs of their main safety properties for
every instance. `PROJECT.json` maps each definition to the lines it models and
lists runs, mutants, findings, hazards and theorems.

## The system

The operator keeps DNS records in step with `DNSRecord` objects of a Kubernetes
cluster. Its parts, the state each keeps and how they interact:

| part | source | state | operations | talks to |
|---|---|---|---|---|
| DNSRecord resource | `api/v1alpha1`, `pkg/record` | spec (record, TTL, active), status (record, active, provider, ID) | `Default`, `validate`, `ToRR`, `FromRR` | stored in the API server |
| DNSRecord controller | `controllers/dnsrecord_controller.go` | finalizer and status of each object; a lock per object | `Reconcile`, `lookup` | API server (through a cache), provider, DNS resolver |
| libdns provider | `pkg/provider/libdns` | none; the zones live at the provider | `Reconcile` by `GetRecords`, `DeleteRecords`, `AppendRecords` | DNS provider |
| coredns provider | `pkg/provider/coredns` | none | `Reconcile` does nothing | – |
| `k8s_dns` plugin | `pkg/coredns/k8s_dns` | map of records, zones | event handlers, `sync`, `ServeDNS` | informer, DNS clients |
| Service and Ingress controllers | `controllers/child_records.go`, `service_controller.go`, `ingress_controller.go` | the generated DNSRecords (children) | `Reconcile`, `diffRecords` | API server |
| kubectl-dns | `pkg/kubect-dns` | none | activate, deactivate, new, import, list | API server |
| main, Corefile, adapters, helpers | `cmd`, `pkg/coredns`, … | none | wiring | – |

What is hard about it:

* **Stale reads.** All controllers read through informer caches that lag behind
  the API server; writes carry a resourceVersion and are refused if it is old.
* **Several steps, no transaction.** A reconcile changes the provider, then the
  status; either call may fail, succeed without an answer, or never be made
  because the operator crashed.
* **Concurrency.** Eight workers edit the same zones through separate calls; the
  plugin's handlers run beside queries; users, the garbage collector and two
  controllers write the same children.
* **Unreliable events.** Watches break, deletions arrive as tombstones, event
  filters drop events, the resolver lags behind the provider.
* **Things that must happen in the end**: records served, statuses correct,
  deletions completed, children cleaned up.

`hazards` in `PROJECT.json` lists these at the lines where they bite, with the
properties that catch them.

## Modules

| module | content |
|---|---|
| `DNSRecord` | the resource: spec, status, `Default`, `ToRR` |
| `DNSRecordReconciler` | the DNSRecord controller with API server, cache, queue, provider and resolver |
| `DNSRecordReconcilerProofs` | its theorems |
| `RecordOwnership` | what the DNSRecord controller promises about the records it makes |
| `RecordOwnershipProofs` | that `DNSRecordReconciler` implements it |
| `Finalizers` | the list of finalizers of a DNSRecord, with those of other controllers |
| `FinalizersProofs` | its theorems |
| `RecordForms` | the forms of a record: webhook, conversions, import, spelling at the provider |
| `RecordFormsProofs` | its theorems |
| `K8sDNS` | the CoreDNS plugin |
| `K8sDNSProofs` | its theorems |
| `ChildRecords` | the Service and Ingress controllers |
| `ChildRecordsProofs` | its theorems |
| `ChildProvider` | `ChildRecords` composed with the DNSRecord controller and the provider |
| `ChildProviderProofs` | its theorems |
| `MCDNSRecordReconciler`, `MCRecordForms`, `MCK8sDNS`, `MCChildRecords`, `MCChildProvider` | constants for TLC |

Definitions whose comment begins with `Mutant:` are plausible bugs; each is
substituted for the definition after it to show that a property notices.

### DNSRecord

Name, type, class and value of a record are one value of `Rdata`, taken up to
the spelling that `Default` makes uniform: the code compares them together
everywhere. `ZoneOf` gives the registrable domain of the name. The TTL is
separate, because `prov.Reconcile` compares it in one place (libdns.go:132) and
not in another (109), and because the plugin does not call `Default`. `active`
left out means true. IDs are numbers, 0 being the empty one; providers give
every record a non-empty ID and never use one twice.

### DNSRecordReconciler

State: `store` is the API server, `watch` and `cache` the informer, `queue` and
`delayed` the work queue, `pc`, `rec`, `old`, `cur` the running reconcile of each
object (its next call, its working copy, that copy's status before the provider
was called, and whether its resourceVersion is still the stored one), `zone` and
`nextId` the provider, `resolved` the verification server. `abandoned` is a
ghost: the IDs that the operator loses at places that are known and marked.

Every call that leaves the process is an action of its own; what happens between
two calls belongs to the action before:

| code | actions |
|---|---|
| locks, `Get`, `Default`, `ToRR` (dnsrecord_controller.go:65-92) | `NotFound`, `ParseError`, `Begin` |
| `Update` with the finalizer (118-126) | `SetFinalizer` |
| `prov.Reconcile` up to the first call (libdns.go:54-75) | `SkipForeign`, `NoDomain`; `NoopReconcile` for coredns |
| `GetRecords` and the comparison (76-137) | `GetRecords`, `GetRecordsEmpty`, `GetRecordsError` |
| `DeleteRecords` (97, 138) | `DeleteRecords`, `DeleteRecordsError` |
| `AppendRecords` (115, 143) | `AppendRecords`, `AppendRejected`, `AppendRecordsError` |
| status writes (102, 140, 158) | `UpdateStatus` |
| removal of the finalizer (109-115) | `RemoveFinalizer` |
| `lookup` (147-169, 181-219) | `Lookup`, `LookupError` |

Around them: users (`Create`, `EditSpec`, `Activate`, `Deactivate`,
`DeleteObject`), the informer and queue (`Deliver`, `Resync`, `Requeue`), DNS
(`Propagate`) and `Restart`, which may change the provider. Calls may fail before
or after taking effect. Reconciles of one object exclude each other, those of
different objects interleave.

Left out here and modelled apart: finalizers of other controllers (`Finalizers`),
spelling and rewriting of names and values (`RecordForms`). Left out: records
without ID.

### RecordOwnership

The controller as a reader of its users' manual would have it: an object enrols
(gets the finalizer) before its first record is made and withdraws when it holds
none; a record is first known to the running reconcile only (`pending`), then to
the stored status (`named`); it is deleted, or it is lost and then never comes
back into sight except to be deleted. `Owns` in `DNSRecordReconciler` is this
specification under the mapping defined just before it: enrolled is having the
finalizer, named is being named by the *stored* status, pending is being named by
the working copy of a reconcile, lost is being in `abandoned` and still at the
provider. Caches, queue, versions, zones, calls and resolver disappear. With a
coredns deployment in play an object may withdraw with a record
(`Surrenders`), as `NoopReconcile` does.

### Finalizers

`removeFinalizer` (dnsrecord_controller.go:239) is translated with its slices: what
stands ahead of the controller's own finalizer is cut off, its own is kept, what
stands behind is there twice. It is therefore run again, on a list that grows until
the other controllers have taken theirs off, or until a request is refused for its
size (`MaxLength`). Other controllers take off all occurrences of theirs, as the
garbage collector does (`Without`). Reading and writing the list is one step, because a stale
write is refused.

### RecordForms

A name or value is its labels, and whether it has a final dot, capitals and quotes;
`IsSuffix` on labels stands for `strings.HasSuffix`. `Put`, `Import`, `New` and
`Apply` bring specifications into the API server, through the webhook if it is
deployed; `Create`, `CreateBlind` and `Replace` are the reconciles that change the
provider (the other ones change nothing here), with the ID written to the status or
lost. `CreateBlind` is a reconcile whose listing fails and counts as empty
(libdns.go:77); `misses` counts them. `Present` is how a provider may spell its
listing: names relative to the zone, targets without final dot, texts in quotes
(external: the adapters' libraries differ in this). `AbsoluteName` is libdns's (external):
it appends the zone to whatever it is given, also to a name that ends in a dot, so
that `Fqdn` leaves alone only what ends in the zone. `Parsed` is what `dns.NewRR` and
the zone parser yield: absolute names and targets, real addresses, and no data at all
where a line ends early. `Schema` is what the resource's schema lets users write.
`num` is the weight of an SRV or the preference of an MX, which the code formats into
the value. `Apply` leaves out what the API server refuses: a specification that the
webhook does not admit, and an object name with capitals (record.go:44 does not lower
them).

### K8sDNS

`seen` is the informer's own store, `records` the plugin's map (its key is the
text of the record, so the map is the set of its values), `dirty` says that a
handler is between its critical section and `sync`. `ServeDNS` is three steps
(`MatchZone`, `Answer`, `Reply`) because it reads the zones twice. `held` is a
ghost: what was served when the query began and no handler has removed. `Relist`
models a lost watch: last versions only, and tombstones for missed deletions;
`missed` is a ghost, the records that stay in the map because of the latter.
`Notify` keeps the order of the events of each object but not that of different
objects, which one informer would keep too: the model has more behaviours than the
code, which is sound for what passes. In `K8sDNSShared` TLC may therefore show a
deletion delivered after a later creation; with the creation first, the same handlers
run in the same order.

### ChildRecords

`owner` and `child` are the objects in the API server, `ownerCache`, `childCache`
and `lagging` the caches, `work[n]` the calls that the reconcile of `n` still has
to make. resourceVersions are not counted: `outdated[n]` holds the children that
were written after the version that was listed,
for a reconcile that has updates to make. The name of a child is the triple
owner, slug of the host, index of the address. `Collect` is the garbage
collector, `Finalizer` stands for the DNSRecord controller, which puts a finalizer
on children and removes it when they are deleted. The two controllers differ in
which owners they ignore (`Ignored`), in which events reach them (`Passes`,
`DeliverChild`) and in how many hosts an owner has.

### ChildProvider

`ChildRecords` with the DNSRecord controller's side spelled out. A reconcile of a
child reads the cache (`childCache` and, for the ID, `seen`) and is two steps, with
anything in between: the calls to the provider (`Publish` appends or replaces the
record unless one like it exists already, `Withdraw` deletes it), and the write of the
status (`StoreStatus`), which is refused and the ID lost if the child was not the
latest version when it was read or has been changed since (`stale`). `got` is the ID
that is about to be written, `running` the children in between. `Enrol` sets the
finalizer and `Finish` removes it, and with it the object; either is a reconcile of
its own. Each write makes the owners' controller find its copy outdated, and each of
its updates makes a status write stale. `Carry` is what a step of the owners' side
does to all this: the status goes with its child, a delivery refreshes `seen`, a write
makes a running reconcile stale. `stripped` is a ghost: children that lost the
finalizer to a step that is not the DNSRecord controller's.

Simplified against `DNSRecordReconciler`: the calls to the provider are one step and
do not fail, there is one zone, and the writes of the status that leave the ID as it
is (the text of the record, the verdict of the lookup) are left out.

## Runs

All runs set `CHECK_DEADLOCK FALSE`: users stop editing after a bounded number of
writes, and then the system may come to rest.

| run | properties | what it shows |
|---|---|---|
| `ReconcilerSingle` | `TypeOK`, `Accounted`, `Guarded` | one object, two zones, two TTLs, three edits, two faults (3 million states) |
| `ReconcilerPair` | `Accounted`, `OwnRecordsOnly` | two objects want one record, two workers (symmetric in the objects) |
| `ReconcilerRedeploy` | `Owns`, `Converges`, `DeletionCompletes` | two libdns providers and coredns, invalid specifications, somebody else's record in the way |
| `RecordForms` | `AdmittedConverts`, `Imported`, `Recognised`, `NoChurn`, `NeverTwice` | specifications of every type and spelling, two zone files, two spellings of listings, a lost ID, a failed listing, with and without webhook (170,000 states) |
| `Finalizers` | `OthersWaitedFor`, `DoublingEnds`, `Completes` | three other finalizers before and behind the controller's own |
| `K8sDNSServe` | `TypeOK`, `Current`, `Uninterrupted`, `CatchesUp` | three objects that share no record: edits, own apex, names without zone, resyncs, restart, two broken watches, queries beside the handlers |
| `ChildIngress` | `TypeOK`, `ForeignKept`, `Converges` | an Ingress changes and is made anew, its children are changed, deleted and made by hand, a call fails, a restart |
| `ChildProvider` | `CompositionTypeOK`, `LeaksAccounted`, `Converges`, `EndToEnd` | a Service with one or two addresses changes and is made anew, down to the records at the provider, with the status written apart (340,000 states) |

Runs that show where the code departs from what a text of the repository says
(`findings`):

| run | property | text |
|---|---|---|
| `ReconcilerLostId` | `StateEnsured` | README.md:226 |
| `ReconcilerRename` | `RecordsUpdated` | README.md:228 |
| `K8sDNSShared` | `Current` | README.md:234 |
| `ChildRestored` | `Adopted` | child_records.go:47, service_controller.go:55 |

### What the main properties say

* `RecordsUpdated` (violated): a record that the stored status names is not given up
  while it exists. It is, when the name moves to another zone: the record is created,
  named by the status, the specification edited, and the reconcile that follows lists
  the new zone, appends and overwrites the ID. The run has no faults, and a refused
  status write does not violate the property, so that it shows the rename and nothing
  else.
* `Accounted`: each record the operator made at a provider is named by the status
  of its object, or is about to be, or was lost at one of five places: a listing
  that lacks the record, an append whose answer is lost, a refused status write
  after an append, a crash before that write, and a coredns deployment releasing
  another provider's object. No other path loses one.
* `Guarded`: as long as such a record exists and is not lost, its object exists and
  carries the finalizer.
* `OwnRecordsOnly`: a record disappears from a provider only in the reconcile of
  the object it was made for, and only if that object does not want it as it is.
* `Converges` (reconciler): in the end each object is gone, cannot be acted upon
  (it does not parse, has no zone, or belongs to another provider), is blocked by
  a record that exists already, or specification, provider, status and resolver
  agree for good.
* `DeletionCompletes`: an object being deleted that can be acted upon goes away.
* `Owns`: the controller implements `RecordOwnership`. It says of every step what
  `Accounted` and `Guarded` say of every state: which record comes into being, is
  committed, deleted or lost, and for whom.
* `AdmittedConverts`: what the webhook admits, `ToRR` converts, except a
  specification with a CNAME and a TXT, SRV or MX (`Ambiguous`), where the webhook
  looks at one type and `ToRR` at the other. The record has an absolute name, and
  data and an absolute target unless its data are left out of a Raw text. The
  conversion is all it is about: `localhost.` or `co.uk.` is admitted and converted and
  then fails in every reconcile, for want of a registrable domain (libdns.go:67-74).
* `Imported`: each record of an imported zone file comes back out of the object made
  for it, unless another one has the same object name, or its class, TTL, weight or
  preference is zero, it has capitals or no data (`Plain`).
* `NoChurn`, `NeverTwice`, `Recognised`: a record is not replaced while the object
  asks for it, not made again after its ID was lost, and not taken for up to date or
  for an obstacle when it is something else, for every spelling of the listing except
  those in `Unstable` and `Disguised`, which name what the code gets wrong: for
  `NoChurn` and `Recognised` above all targets outside the zone. `NeverTwice` is about
  reconciles that see a listing: one whose listing fails makes the record again
  (`CreateBlind`).
* `OthersWaitedFor`, `DoublingEnds`, `Completes`: finalizers of others behind the
  controller's own are respected, the list stops growing, the object goes.
* `Current`: once the plugin has caught up, its zones are the stored active records
  and those whose deletion came as a tombstone.
* `Uninterrupted`: a record that stays in the map is answered at every moment.
* `CatchesUp`: once users stop, the zones are the wanted ones for good.
* `Converges` (children): each owner ends up with exactly the children it asks for.
  If a user's record has the name of one of them, the others may be missing or out
  of date (the failing `Create` ends every reconcile), but no unwanted child stays.
* `ForeignKept`: a record that a user made under a child's name is not overwritten.
* `EndToEnd`: in the end the provider serves the records of the owners' hosts and
  addresses for good, and nothing else save what was leaked. A record that was leaked
  and is wanted again is served as it is: it stands in the way of the child's own.
* `LeaksAccounted`: a record is leaked in two ways only. An `Update` of the owners'
  controller took the finalizer off its child, which was deleted before it could be
  set again; or the child was changed between the append and the status write, which
  was refused. TLC reaches both.

### Bounds

Edits, faults, restarts and broken watches are bounded by the constants `Max...`;
the proofs hold for every value of them. Three edits suffice for create,
change, delete and for create, delete, create, and a fourth for a record made by
hand in between; two faults for a failure during
the recovery from a failure; `MaxLag` of 2 lets a reconcile work on a version two
behind. Two objects are enough for the races, which are between two workers on
one record, and two addresses for children that change places. The liveness
instances are smaller than the safety ones because TLC checks them without
symmetry. In `RecordForms` two writes give a record and its change, or an import over
it, one lost ID the retry, and one failed listing a retry that does not see it; the two styles of listing change nothing or all they
can, and each change concerns a field of its own. In `Finalizers` the list holds up
to nine entries, enough for two doublings of three others before a request is
refused. `ChildProvider` has no failed calls, restarts or users that edit children
(`ChildIngress` and the reconciler's runs have them): it is about the two
controllers between themselves. Its four `Ids` per child are never used up in the run
(`Publish` would wait), so that the bound hides nothing.

### Fairness

Informers deliver, timers fire, calls return or fail (weak fairness); `Start` in
the reconciler, `Take` in the controllers and `Notify` in the plugin have strong
fairness because work queues and the informer's buffer are first in first out, so
a key cannot be overtaken for ever although resyncs and busy workers disable the
step now and then. Faults are finite. The DNSRecord controller's liveness does
not rely on resyncs, which come every ten hours; that of the children does
(`WF(Resync)`), since the code has no other trigger for the Service controller.
The garbage collector and the resolver are assumed to do their part. In `Finalizers`
the controller's removal and those of the other controllers have weak fairness: a
deletion waits for them by design. In `ChildProvider` the DNSRecord controller takes
each step that is possible (it is reconciled after every write of a child). Nothing
is assumed of users.

## Proofs

`tlapm` checks all of them; the assumptions are the `ASSUME`s of the modules: kinds
of constants, `Absent`, `None`, `Error` and `Garbage` distinct from ordinary values,
one unmanaged record at most, finitely many objects and other finalizers, users'
specifications that fit the schema, and zone files whose lines are as the parser
yields them. Every invariant and every action property of the passing runs is the
statement of a theorem.

**DNSRecordReconcilerProofs.** `Invariance` proves the inductive invariant `IInv`,
from which follow `TypeCorrect`, `AllAccounted`, `AllGuarded` and `DeletesOwnOnly`.
`Accounted` is not inductive: a refused write loses an ID only if the working copy
is not the stored version, so `IInv` also says

* IDs at the providers are distinct and below `nextId` (`ZoneInv`), and any
  version of an object that names an ID names one of its own records, carries the
  finalizer if it names one, and has it if it is being deleted (`Sound`);
* a guarded version that is not being deleted means the stored object is still
  guarded (`Live`): only a reconcile of a version being deleted removes the
  finalizer. This is what makes a stale cache harmless for `Guarded`;
* the last undelivered version is the stored one (`CacheInv`), and a working copy
  with the current resourceVersion equals the stored object in status, deletion
  and finalizer (`Current`);
* what each call of a reconcile knows (`WorkInv`): for instance that the record
  with the copy's ID has been deleted or given up when a new one is appended.

The step is one lemma per action.

**RecordOwnershipProofs.** `Ownership` proves `Spec => Owns` from `IInv` and
`FreshInv`, which adds that an ID still to be given is not abandoned, or a new
record could already count as lost, and that the ID a reconcile holds is not yet the
one of the stored status, or a record would be pending and named. `Init` maps to
`Init`, and `NextOwns` takes one lemma per action to a step of `RecordOwnership` or a
stutter: `SetFinalizer` enrols, `AppendRecords` makes, `UpdateStatus` commits or,
refused, mislays, a listing without the record forgets, `DeleteRecords` deletes or
recovers, `RemoveFinalizer` withdraws, `Restart` mislays for all objects at once, and
the rest stutters.

**K8sDNSProofs.** `QueriesUninterrupted` rests on `QueryInv`: what is in `held` is
in the map and in the zones, because `sync` replaces the zones in one critical
section. `ServesExactly` is proved under the hypothesis `Separate` (no two
DNSRecords ask for the same record and all of them parse), for watches that break as
often as they like, from `ServeInv`: the map mirrors what the informer has seen and
what was missed, what it has seen lags behind the store by the pending
notifications, and the zones are those of the map when no handler is at work. The
hypothesis is needed: `K8sDNSShared` drops its first half, and what happens without
the second is among the further observations below.

**ChildRecordsProofs.** `UserRecordsKept` needs `UpdInv`: a pending update whose
child was not written since the list is one of a generated child. It holds at the
start of a reconcile because the list contains only controlled or annotated
children (`CacheInv` relates list and store), and each write adds its child to
the `outdated` of every reconcile with updates to make.

**ChildProviderProofs.** `CompositionTypeCorrect` uses that each step on the
DNSRecord controller's side is a write of one child, so that `ChildRecordsProofs`
gives the type of the rest. `LeaksExplained` needs `LeakInv`: a child whose stored status
names a record is there, and carries the finalizer or was stripped of it (`Guarded`);
what is cached of a child that is not lagging is what is stored (`Cached`); and a
status write that will not be refused gives up no record, and the one it names is
behind the finalizer (`Pending`). The last two are what the status write as a call of
its own asks for: a reconcile that read an old version is stale from the start, one
that read the latest has deleted the record that the status names, and any change of
the child in between makes it stale. `Publish` makes a record only behind the
finalizer, and of all the steps that let a child stay only an `Update` takes it off;
hence a record that a step leaves behind belongs to a stripped child or to a stale
reconcile. `NamedRecordsGuarded` states the invariant itself, the composition's
counterpart of `Guarded`.

**FinalizersProofs.** `ListInv` (`ListsWellFormed`) says of the list that before the
deletion nothing is there twice; that the controller's own finalizer is there once at
most and, as soon as anything is repeated, in the first place (`OwnFirst`: the first
`removeFinalizer` cuts off what stood ahead of it, so the following ones find it at
the head and never double it); and that what the deletion found behind it is still
there or was taken off by its controller, on the same side of it as then (`Pending`,
`Waiting`). `DeletionWaits` and `DoublingIsBounded` follow for lists of any length
and any `MaxLength`. `WithoutFilters` says what `Without` returns, by the ranks of
the places that are kept, `Rewritten` what `removeFinalizer` returns.

**RecordFormsProofs.** Three groups of lemmas, about all names, values and
specifications rather than those of the run:

* `Default` keeps the schema and what `validate` has accepted (`DefaultValid`), and
  does so although every reconcile applies it again to what the webhook stored;
  `ToRR` converts what is valid and not `Ambiguous`, because the two orders of types
  then choose the same one (`SameChoice`, `ValidConverts`);
* `Default` does not touch what `FromRR` makes of a plain record, and `ToRR` gives
  the record back (`PlainStays`);
* what `Present` does to a stable record, one with its target in the zone,
  `FqdnRec` undoes (`RoundTrip`, from
  `NameSurvives` and `ValueSurvives`, which are about suffixes of sequences), and the
  check for existing records then compares all but the TTL (`ExistsCompares`).

`FormsInv` (`FormsInvariant`) adds what the states contribute: behind the webhook the
stored specifications are valid (`Judged`), no two objects name the same record
(`OwnIds`, which needs that a new ID is neither at the provider nor in a status), and
the part of the file that is applied is in the store (`Applied`, which survives
writes to objects of the same names because `Unique` excludes them). From it follow
`AdmissionIsEnough`, `ImportIsFaithful`, `RecognitionIsRight`, `RecordsAreNotChurned`
and `RecordsAreMadeOnce`. The proofs have settled which exceptions `Plain`,
`Unstable` and `AdmittedConverts` need: a class of zero, capitals, a value with
quotes of any type, a target outside the zone, and Raw lines without data came up as cases that the lemmas do
not hold for, and all of them are cases in which the code does lose or rewrite
something.

Only model-checked: `Converges` (reconciler and children), `DeletionCompletes`,
`Completes`, `CatchesUp` and `EndToEnd`, which are liveness properties (fairness and
`ENABLED` are out of the prover's reach), and everything about particular constants.
No definition is recursive: what one computes for all inputs would need an induction
that the prover cannot do. `Without` is therefore defined by ranks, and minima by
`Min`.

## Further observations

Met while modelling; they follow from a definition at sight, so that no run is
spent on them.

* `Reconcile` parses the specification and works out its zone before it looks at
  the deletion timestamp (dnsrecord_controller.go:88, libdns.go:65-75): an object
  whose name has no registrable domain, or that no longer parses, keeps its
  finalizer until it is edited. `DeletionCompletes` excludes it (`Actionable`).
* `removeFinalizer` cuts the wrong end (dnsrecord_controller.go:239): another
  controller's finalizer ahead of ours is dropped, those behind it are doubled at
  each reconcile and ours stays until it is the only one. `OthersWaitedFor` and
  `DoublingEnds` state what is left.
* An update of a child is built without its finalizers (child_records.go:78, 96); if the
  child is deleted before the DNSRecord controller has put its own back, the record
  stays at the provider; and if it is updated between the append and the status write,
  the ID of the new record is lost (`LeaksAccounted`).
* A target outside the zone (`CNAME`, `MX`, `NS`, `SRV`) gets the zone appended before
  the comparison, with or without final dot (libdns.go:189, 197-198), and a value with
  quotes of its own loses them (207): such a record is deleted and made again at every
  reconcile, however it is listed (`Unstable`). The other way round, a record with the
  target `mail.other.net.` is up to date for an object in `example.org` that asks for
  `mail.other.net.example.org.`.
* Any error of `GetRecords` counts as an empty zone while the status names no record
  (libdns.go:77), and that is the state after an ID was lost: the retry appends the
  record a second time (`CreateBlind`).
* A Raw text or a line of a zone file may leave out its data (`TXT` with nothing
  behind it): the parser accepts it and `validate` looks no further
  (dnsrecord_webhook.go:159), so that a record without value is sent to the provider.
* The existence check compares values as listed (libdns.go:109): with a provider that
  drops final dots or adds quotes, a record whose ID was lost is made a second time
  (`Disguised`). A replacement makes no such check at all.
* With a CNAME and a TXT, SRV or MX in one specification the webhook judges the CNAME
  and `ToRR` takes the other (`Ambiguous`).
* The value of a type outside the seven of `makeRecord` (libdns.go:164) is sent empty;
  `FromRR` makes such records of a zone file Raw without a warning.
* `kubectl dns import` gives records of one name and type one object name
  (record.go:39-46), and stops silently at the first line that does not parse
  (import.go:84).
* A deletion missed by a broken watch reaches the plugin as a tombstone, which
  `makeRecord` rejects (provider.go:230, 248): the record is served until CoreDNS
  restarts, or until an object asks for it and lets it go again (`missed`).
* `UpdateFunc` returns before it removes the old record if either version does not
  convert (provider.go:206-213): the last valid record stays, and the next valid one
  is not served until a resync.
* The rendered Corefile passes the external address as an argument (config.go:44),
  `setup` reads it from a block (crds.go:122): it never reaches the plugin, and no
  generated name server has an address (`setup` in `K8sDNS`).
* Hosts that differ in a dot and a dash only have the same child name
  (child_records.go:29); the second is refused for ever.
* A Service that loses its hostname just after a child was created may keep the
  child: the last event that passes the filter (service_controller.go:141-178) is
  reconciled from a list that does not show the child yet. `ChildProvider` keeps to
  Services that have a hostname.
* README.md:60 documents the annotation `dns.linka.cloud/disabled`; the code reads
  `dns.linka.cloud/ignore` (child_records.go:20).

## Not modelled

* The provider adapters (they read credentials and hand a third-party client on), the
  CoreDNS server and its list of plugins, the Corefile beyond the external address,
  flag parsing, event recording, pointer helpers, `kubectl dns list` (it prints),
  generated code, manifests: none keeps state that the modelled parts read.
* The TTL annotation of Services and Ingresses is part of the address (`Ips`).
* `RecordForms` has no deletion of objects and takes a reconcile as one step; a name
  is a sequence of labels, so that a name that ends in the letters of the zone but not
  in its labels (`notexample.org`) is not told from any other; a text is one string,
  not several that a provider splits.
* The map of per-object locks never shrinks (dnsrecord_controller.go:72); nothing that
  is modelled depends on it.
* `Delete` of a child carries no precondition (child_records.go:64): a record that a
  user made under the name after the list goes with it. `ForeignKept` is about
  overwriting only.

## Plan

Done: the three controllers and the plugin with their runs and theorems; the
finalizer list; the forms of a record; the composition of the controllers down to the
provider; the abstract specification `RecordOwnership`, checked and proved; theorems
for all invariants and action properties of the runs. Left, in this order:

1. The safety half of `Converges` for the Service and Ingress controllers: when no
   reconcile is running, no event is on its way and the last reconcile saw the current
   caches, the children are those wanted. It needs no fairness and can be proved.
2. That the DNSRecord side of `ChildProvider` is `RecordOwnership` for the children.
3. Failing calls and restarts in `ChildProvider`, if a smaller instance can be found.
