----------------------------- MODULE RecordForms -----------------------------
(***************************************************************************)
(* The forms of a record on its way from a user to a DNS provider and back *)
(* into the comparison: the specification a user or "kubectl dns import"   *)
(* submits, the one the webhook defaults and admits, the dns.RR, the       *)
(* libdns.Record sent to the provider, and the one its listing shows.      *)
(*                                                                         *)
(* DNSRecordReconciler has the interleavings of a reconcile and takes name *)
(* and value as one token; here a reconcile is one step (or two, when the  *)
(* operator dies before the ID is written) and names and values are        *)
(* spelled as the code compares them: label by label, with or without      *)
(* final dot, capitals and quotes.                                         *)
(***************************************************************************)
EXTENDS Naturals, Sequences, FiniteSets, FiniteSetsExt, SequencesExt

CONSTANTS
  Objects,      \* DNSRecords: names as FromRR gives them
  Written,      \* those that users write by hand as well
  ObjectName,   \* ObjectName[l]: the part of that name that comes from labels l
  Addresses,    \* values that net.ParseIP parses
  Submissions,  \* specifications users write
  ZoneFiles,    \* zone files users import: sequences of dns.RR and Garbage
  Styles,       \* how providers may list records
  Garbage,      \* text that dns.NewRR or the zone parser does not parse
  Absent,       \* "no such object"
  Error,        \* "no resource record"
  MaxEdits,     \* bound: writes by users
  MaxFaults     \* bound: IDs lost by a crash or a refused status write, and
                \* failed listings

VARIABLES
  webhook,   \* is the admission webhook deployed?
  style,     \* how the provider lists records
  store,     \* store[o]: the specification of o in the API server
  file,      \* the records of the zone file imported last, as far as parsed
  applying,  \* the items of its list that kubectl has yet to apply
  ids,       \* ids[o]: the ID in the status of o, 0 if empty
  provider,  \* the records at the provider, by ID
  edits,     \* number of writes by users so far
  faults,    \* number of lost IDs so far
  misses     \* number of failed listings so far that counted as empty

vars == <<webhook, style, store, file, applying, ids, provider, edits, faults, misses>>

(***************************************************************************)
(* Names and values.  An address or a text is one label; capitals, where   *)
(* there are any, are in the part that names the zone too.                 *)
(***************************************************************************)
Name == [labels : Seq(STRING), dot : BOOLEAN, caps : BOOLEAN, quoted : BOOLEAN]
Text(labels, dot) == [labels |-> labels, dot |-> dot, caps |-> FALSE, quoted |-> FALSE]
Empty == Text(<<>>, FALSE)

\* publicsuffix.Domain: the last two labels, of a name without final dot.
HasDomain(n) == ~n.dot /\ Len(n.labels) >= 2
Zone(n) == SubSeq(n.labels, Len(n.labels) - 1, Len(n.labels))

enforceFqdn(n) == [n EXCEPT !.caps = FALSE, !.dot = @ \/ HasDomain(n)]

(***************************************************************************)
(* The DNSRecord: which of its types counts, Default, validate, ToRR.      *)
(***************************************************************************)
TargetTypes == {"CNAME", "SRV", "MX"}

\* Default and validate ask for the types in one order ...
WebhookOrder == <<"A", "CNAME", "TXT", "SRV", "MX", "Raw">>

\* ... and ToRR and Name in another.
ToRROrder == <<"A", "TXT", "SRV", "MX", "CNAME", "Raw">>

Type(order, spec) ==
  order[Min({i \in DOMAIN order : order[i] \in DOMAIN spec})]

OrDefault(value, default) == IF value = 0 THEN default ELSE value

DefaultFields(t, fields) ==
  [fields EXCEPT
     !.class = OrDefault(@, 1),
     !.ttl = OrDefault(@, 3600),
     !.num = IF t = "SRV" THEN OrDefault(@, 1) ELSE IF t = "MX" THEN OrDefault(@, 10) ELSE @,
     !.name = enforceFqdn(@),
     !.value = IF t \in TargetTypes THEN enforceFqdn(@) ELSE @]

Default(spec) ==
  LET t == Type(WebhookOrder, spec)
  IN  IF DOMAIN spec = {} \/ t = "Raw" THEN spec
      ELSE [spec EXCEPT ![t] = DefaultFields(t, @)]

IsIP(v) == v \in Addresses

\* Mutant: a text record may be empty.
validFieldsAnyText(t, fields) ==
  /\ fields.name.dot
  /\ t = "A" => IsIP(fields.value)
  /\ t \in TargetTypes => fields.value # Empty /\ fields.value.dot

\* validate of each record type.
validFields(t, fields) ==
  /\ fields.name.dot
  /\ t = "A" => IsIP(fields.value)
  /\ t = "TXT" => fields.value # Empty
  /\ t \in TargetTypes => fields.value # Empty /\ fields.value.dot

validate(spec) ==
  /\ DOMAIN spec # {}
  /\ LET t == Type(WebhookOrder, spec)
     IN  IF t = "Raw" THEN spec[t] # Garbage ELSE validFields(t, spec[t])

\* dns.RR: what a type's fields, or the text of Raw, say.
RR(t, fields) ==
  [type |-> t, name |-> fields.name, class |-> fields.class, ttl |-> fields.ttl,
   num |-> fields.num, value |-> fields.value]

ToRR(spec) ==
  IF DOMAIN spec = {} THEN Error
  ELSE LET t == Type(ToRROrder, spec)
       IN  CASE t = "Raw" -> IF spec[t] = Garbage THEN Error ELSE spec[t]
             [] t = "A" -> IF IsIP(spec[t].value) THEN RR(t, spec[t]) ELSE Error
             [] t \in {"TXT", "SRV", "CNAME"} ->
                  IF spec[t].value = Empty THEN Error ELSE RR(t, spec[t])
             [] t = "MX" -> RR(t, spec[t])

\* Mutant: the weight or preference is forgotten.
FieldsOfNoNum(rr) ==
  [name |-> rr.name, class |-> rr.class, ttl |-> rr.ttl, num |-> 0, value |-> rr.value]

FieldsOf(rr) ==
  [name |-> rr.name, class |-> rr.class, ttl |-> rr.ttl, num |-> rr.num, value |-> rr.value]

\* The specification and the object name that FromRR makes of a record: other
\* types than the five become Raw, and the type is left out of the name of an A.
FromRR(rr) ==
  IF rr.type \in {"A", "CNAME", "TXT", "SRV", "MX"}
  THEN [t \in {rr.type} |-> FieldsOf(rr)] ELSE [t \in {"Raw"} |-> rr]

NameFor(rr) ==
  IF rr.type = "A" THEN <<ObjectName[rr.name.labels]>>
                   ELSE <<ObjectName[rr.name.labels], rr.type>>

(***************************************************************************)
(* What users write and what a parser makes of it.                         *)
(***************************************************************************)
Fields == [name : Name, class : Nat, ttl : Nat, num : Nat, value : Name]

\* Types that some code treats in a way of its own, and one for all others.
RRTypes == TargetTypes \cup {"A", "AAAA", "NS", "TXT", "CAA"}

ResourceRecord ==
  [type : RRTypes, name : Name, class : Nat, ttl : Nat, num : Nat, value : Name]

\* dns.NewRR and the zone parser complete names and targets and parse
\* addresses; a line may end before its data.
Parsed(rr) ==
  /\ rr \in ResourceRecord
  /\ rr.name.dot
  /\ rr.value = Empty
     \/ /\ rr.type = "A" => IsIP(rr.value)
        /\ rr.type \in TargetTypes => rr.value.dot

\* A specification that fits the schema of the resource.
Schema(spec) ==
  /\ DOMAIN spec \subseteq ToSet(WebhookOrder)
  /\ \A t \in DOMAIN spec :
       IF t = "Raw" THEN spec[t] = Garbage \/ Parsed(spec[t]) ELSE spec[t] \in Fields

ASSUME FormsAssumption ==
  /\ Written \subseteq Objects /\ IsFiniteSet(Objects)
  /\ Addresses \subseteq Name \ {Empty}
  /\ \A s \in Submissions : Schema(s)
  /\ \A f \in ZoneFiles :
       /\ f \in Seq(ResourceRecord \cup {Garbage})
       /\ \A rr \in ToSet(f) \ {Garbage} :
            Parsed(rr) /\ NameFor(rr) \in Objects /\ FromRR(rr) # Absent
  /\ Styles \subseteq [relative : BOOLEAN, dotless : BOOLEAN, quotes : BOOLEAN]
  /\ Garbage \notin ResourceRecord /\ Error \notin ResourceRecord
  /\ MaxEdits \in Nat
  /\ MaxFaults \in Nat

(***************************************************************************)
(* The libdns.Record, as it is sent and as the listing shows it.           *)
(***************************************************************************)

\* The value of a type that makeRecord does not know stays empty.
makeRecord(rr) ==
  [type |-> rr.type, name |-> rr.name, ttl |-> rr.ttl,
   num |-> IF rr.type \in {"MX", "SRV"} THEN rr.num ELSE 0,
   value |-> IF rr.type \in {"A", "AAAA", "CNAME", "MX", "NS", "SRV", "TXT"}
             THEN rr.value ELSE Empty]

\* What the provider lists: names relative to the zone, targets without
\* final dot, texts in quotes, or none of these.
PresentName(n, z) ==
  IF style.relative /\ IsSuffix(z, n.labels)
  THEN [n EXCEPT !.labels = SubSeq(n.labels, 1, Len(n.labels) - Len(z)), !.dot = FALSE] ELSE n

PresentValue(t, v) ==
  IF t \in TargetTypes \cup {"NS"} THEN [v EXCEPT !.dot = v.dot /\ ~style.dotless]
  ELSE IF t = "TXT" THEN [v EXCEPT !.quoted = v.quoted \/ style.quotes] ELSE v

Present(rec, z) ==
  [rec EXCEPT !.name = PresentName(@, z), !.value = PresentValue(rec.type, @)]

\* libdns.AbsoluteName adds a missing dot and appends the zone to any name.
AbsoluteName(n, z) == [n EXCEPT !.labels = @ \o z, !.dot = TRUE]

\* Mutant: a name that ends with the zone but no dot is taken for a relative one.
FqdnAppends(n, z) ==
  IF n.dot /\ IsSuffix(z, n.labels) /\ ~n.caps THEN n ELSE AbsoluteName(n, z)

\* The zone is in lower case, and the suffixes are compared as they are.
Fqdn(n, z) ==
  IF IsSuffix(z, n.labels) /\ ~n.caps THEN [n EXCEPT !.dot = TRUE]
                                        ELSE AbsoluteName(n, z)

Unquote(v) == [v EXCEPT !.quoted = FALSE]

FqdnRec(rec, z) ==
  [rec EXCEPT !.name = Fqdn(@, z),
              !.value = IF rec.type \in {"A", "AAAA", "TXT"} THEN Unquote(@)
                        ELSE IF rec.type \in TargetTypes \cup {"NS"}
                        THEN Unquote(Fqdn(@, z)) ELSE @]

-----------------------------------------------------------------------------
NoRecords == [i \in {} |-> Empty]

Init ==
  /\ webhook \in BOOLEAN
  /\ style \in Styles
  /\ store = [o \in Objects |-> Absent]
  /\ file = <<>>
  /\ applying = <<>>
  /\ ids = [o \in Objects |-> 0]
  /\ provider = NoRecords
  /\ edits = 0
  /\ faults = 0
  /\ misses = 0

(***************************************************************************)
(* Users write specifications and import zone files.                       *)
(***************************************************************************)

\* What the API server stores of a specification, and whether it does.
Stored(spec) == IF webhook THEN Default(spec) ELSE spec
Admitted(spec) == webhook => validate(Default(spec))

Put(o) ==
  /\ edits < MaxEdits
  /\ edits' = edits + 1
  /\ \E spec \in Submissions :
       /\ Admitted(spec)
       /\ store[o] # Stored(spec)
       /\ store' = [store EXCEPT ![o] = Stored(spec)]
  /\ file' = <<>>
  /\ UNCHANGED <<webhook, style, applying, ids, provider, faults, misses>>

\* The zone parser stops at the first line that it cannot parse; parse does
\* not ask it for the error.
parse(f) ==
  LET bad == {i \in DOMAIN f : f[i] = Garbage}
  IN  IF bad = {} THEN f ELSE SubSeq(f, 1, Min(bad) - 1)

\* "kubectl dns import" prints the list of DNSRecords ...
Import ==
  /\ edits < MaxEdits
  /\ edits' = edits + 1
  /\ applying = <<>>
  /\ \E f \in ZoneFiles : file' = parse(f) /\ applying' = parse(f)
  /\ UNCHANGED <<webhook, style, store, ids, provider, faults, misses>>

\* ... "kubectl dns create" the DNSRecord of one line, which must parse ...
New ==
  /\ edits < MaxEdits
  /\ edits' = edits + 1
  /\ applying = <<>>
  /\ \E f \in ZoneFiles : \E rr \in ToSet(f) \ {Garbage} :
       file' = <<rr>> /\ applying' = <<rr>>
  /\ UNCHANGED <<webhook, style, store, ids, provider, faults, misses>>

\* ... and "kubectl apply" submits them one by one.  The API server refuses an
\* object name with capitals, which FromRR takes over from the record.
Apply ==
  /\ applying # <<>>
  /\ applying' = Tail(applying)
  /\ LET rr == Head(applying)
     IN  store' = IF ~rr.name.caps /\ Admitted(FromRR(rr))
                  THEN [store EXCEPT ![NameFor(rr)] = Stored(FromRR(rr))] ELSE store
  /\ UNCHANGED <<webhook, style, file, ids, provider, edits, faults, misses>>

(***************************************************************************)
(* Reconcile of the operator, with a provider that stores what it is sent. *)
(***************************************************************************)
Wanted(o) == IF store[o] = Absent THEN Error ELSE ToRR(Default(store[o]))

\* The name is not malformed and lies in a zone.
Reconcilable(o) == Wanted(o) # Error /\ Len(Wanted(o).name.labels) >= 2

Want(o) == makeRecord(Wanted(o))

Listed(z) == {i \in DOMAIN provider : Zone(provider[i].name) = z}

\* Mutant: the name of the listed record is compared as it is.
ExistsVerbatim(i, want, z) == [Present(provider[i], z) EXCEPT !.ttl = want.ttl] = want

\* The listed record is the one to be made: its value is spelled as in want.
Exists(i, want, z) ==
  [Present(provider[i], z) EXCEPT !.name = Fqdn(@, z), !.ttl = want.ttl] = want

\* Mutant: the TTL is not compared.
UpToDateAnyTtl(i, want, z) ==
  [FqdnRec(Present(provider[i], z), z) EXCEPT !.ttl = want.ttl] = want

UpToDate(i, want, z) == FqdnRec(Present(provider[i], z), z) = want

\* An ID that is not in use.
Fresh ==
  CHOOSE i \in 1..(1 + Cardinality(DOMAIN provider) + Cardinality(Objects)) :
    i \notin DOMAIN provider \cup {ids[o] : o \in Objects}

\* The record of ID old is deleted if there is one, and a new one appended.
Append1(o, want, old) ==
  /\ provider' = [i \in (DOMAIN provider \ {old}) \cup {Fresh} |->
                    IF i = Fresh THEN want ELSE provider[i]]
  /\ \/ ids' = [ids EXCEPT ![o] = Fresh] /\ UNCHANGED faults
     \/ faults < MaxFaults /\ faults' = faults + 1 /\ UNCHANGED ids
  /\ UNCHANGED <<webhook, style, store, file, applying, edits>>

\* The zone is listed and has neither the record of the status nor one like it.
Create(o) ==
  /\ Reconcilable(o)
  /\ LET z == Zone(Wanted(o).name)
     IN  /\ ids[o] \notin Listed(z)
         /\ \A i \in Listed(z) : ~Exists(i, Want(o), z)
         /\ Append1(o, Want(o), 0)
  /\ UNCHANGED misses

\* The listing fails, with any error if the status names no record and with a
\* "not found" if it does, and counts as that of an empty zone.  Any other
\* error ends the reconcile.
CreateBlind(o) ==
  /\ Reconcilable(o)
  /\ misses < MaxFaults
  /\ misses' = misses + 1
  /\ Append1(o, Want(o), 0)

Replace(o) ==
  /\ Reconcilable(o)
  /\ LET z == Zone(Wanted(o).name)
     IN  /\ ids[o] \in Listed(z)
         /\ ~UpToDate(ids[o], Want(o), z)
         /\ Append1(o, Want(o), ids[o])
  /\ UNCHANGED misses

Next ==
  \/ \E o \in Written : Put(o)
  \/ \E o \in Objects : Create(o) \/ CreateBlind(o) \/ Replace(o)
  \/ Import \/ New
  \/ Apply

Spec == Init /\ [][Next]_vars

-----------------------------------------------------------------------------
(***************************************************************************)
(* Properties.                                                             *)
(***************************************************************************)

\* The webhook judges the CNAME, and ToRR takes another type.
Ambiguous(spec) ==
  /\ "CNAME" \in DOMAIN spec /\ "A" \notin DOMAIN spec
  /\ DOMAIN spec \cap {"TXT", "SRV", "MX"} # {}

\* What the webhook admits, ToRR converts, into a record with an absolute
\* name and target, and with data unless Raw leaves it out.  The exception is a
\* specification with a CNAME and another type, where the two look at
\* different types (dnsrecord_webhook.go:146, record.go:117).  It says nothing
\* of what follows the conversion: a name of one label, or one that is itself
\* a public suffix, is admitted, converted and refused at libdns.go:67-74 in
\* every reconcile.
AdmittedConverts ==
  webhook =>
    \A o \in Objects :
      store[o] # Absent /\ ~Ambiguous(store[o]) =>
        /\ Wanted(o) # Error
        /\ Wanted(o).name.dot
        /\ IF Wanted(o).value = Empty THEN Type(ToRROrder, store[o]) = "Raw"
           ELSE Wanted(o).type \in TargetTypes => Wanted(o).value.dot

\* A zone file that was imported and applied is what the operator will
\* reconcile: every record before the first bad line has a DNSRecord that
\* converts back into it, if no other record of the file has the same object
\* name and it is Plain: no zero class, TTL, weight or preference, which
\* Default replaces, no capitals, which it lowers, and not without data.
Plain(rr) ==
  /\ rr.class # 0 /\ rr.ttl # 0
  /\ rr.type \in {"SRV", "MX"} => rr.num # 0
  /\ ~rr.name.caps /\ ~rr.value.caps
  /\ rr.value # Empty

Unique(i) == \A j \in DOMAIN file \ {i} : NameFor(file[j]) # NameFor(file[i])

Imported ==
  applying = <<>> =>
    \A i \in DOMAIN file :
      Plain(file[i]) /\ Unique(i) => Wanted(NameFor(file[i])) = file[i]

\* Names that are not listed and completed to what they were: relative ones,
\* those with capitals and those that repeat their zone.
UnstableName(rec) ==
  LET z == Zone(rec.name)
      prefix == SubSeq(rec.name.labels, 1, Len(rec.name.labels) - 2)
  IN  \/ ~rec.name.dot \/ rec.name.caps
      \/ style.relative /\ IsSuffix(z, prefix)

\* A target that FqdnRec does not give back: one without its dot, or one
\* outside the zone, to which Fqdn appends the zone (libdns.go:189), dot or no
\* dot and however it is listed.
UnstableTarget(rec) ==
  /\ rec.type \in TargetTypes \cup {"NS"}
  /\ ~rec.value.dot \/ ~IsSuffix(Zone(rec.name), rec.value.labels)

\* Spellings that do not survive listing and comparison.
Unstable(rec) ==
  UnstableName(rec) \/ UnstableTarget(rec) \/ rec.value.quoted \/ rec.value.caps

\* However the provider spells its listing, a record is not deleted and made
\* again as long as its object asks for it: each such round would change the
\* status and start the next one.  Spellings in Unstable do that: above all a
\* record with a target outside its zone is replaced in every reconcile.
NoChurn ==
  [][\A i \in DOMAIN provider \ DOMAIN provider' : \A o \in Objects :
       ids[o] = i => Want(o) # provider[i] \/ Unstable(provider[i])]_vars

\* Records that the check for existing ones does not recognise: their name is
\* unstable, or the listing changes their value, which the check compares as
\* listed (libdns.go:109).
Disguised(rec) ==
  \/ UnstableName(rec)
  \/ style.dotless /\ rec.value.dot /\ rec.type \in TargetTypes \cup {"NS"}
  \/ style.quotes /\ ~rec.value.quoted /\ rec.type = "TXT"

SameButTtl(r, w) == [r EXCEPT !.ttl = 0] = [w EXCEPT !.ttl = 0]

\* A record whose ID was lost is not made a second time: an object without
\* record gets one only if the zone does not have it yet, for every spelling
\* that is not Disguised.  The one exception is a reconcile whose listing
\* fails: libdns.go:77 goes on as if the zone were empty (CreateBlind).
NeverTwice ==
  [][DOMAIN provider \subseteq DOMAIN provider' /\ misses' = misses =>
       \A i \in DOMAIN provider' \ DOMAIN provider : \A j \in DOMAIN provider :
         SameButTtl(provider[j], provider'[i]) => Disguised(provider[j])]_vars

\* A reconcile with nothing to do is right to do nothing: the record it takes
\* for its own is the one the object asks for, TTL included, and the one it
\* takes for an obstacle has the same name, type and value, whatever the
\* spelling of the listing (but for those in Unstable and Disguised).
Recognised ==
  \A o \in Objects :
    Reconcilable(o) =>
      \A i \in Listed(Zone(Wanted(o).name)) :
        LET z == Zone(Wanted(o).name)
        IN  /\ ids[o] = i /\ UpToDate(i, Want(o), z) =>
                 provider[i] = Want(o) \/ Unstable(provider[i])
            /\ Exists(i, Want(o), z) =>
                 SameButTtl(provider[i], Want(o)) \/ Disguised(provider[i])
=============================================================================
