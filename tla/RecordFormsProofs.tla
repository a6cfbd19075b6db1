-------------------------- MODULE RecordFormsProofs --------------------------
(***************************************************************************)
(* Proofs about RecordForms: what the webhook admits converts              *)
(* (AdmittedConverts), an imported zone file is what is reconciled         *)
(* (Imported), and what a reconcile makes of a provider's listing          *)
(* (Recognised, NoChurn, NeverTwice), for every set of specifications,     *)
(* zone files and names.                                                   *)
(***************************************************************************)
EXTENDS RecordForms, FiniteSetTheorems, SequenceTheorems, WellFoundedInduction, TLAPS

(***************************************************************************)
(* Which of its types counts in a specification.                           *)
(***************************************************************************)

Types == {"A", "CNAME", "TXT", "SRV", "MX", "Raw"}

\* It depends on the types that are there only.
LEMMA SameType ==
  ASSUME NEW order, NEW s, NEW t, DOMAIN s = DOMAIN t
  PROVE  Type(order, s) = Type(order, t)
BY DEF Type

\* The first one in the order that is there.
LEMMA FirstType ==
  ASSUME NEW order \in Seq(Types), NEW s, NEW k \in DOMAIN order, order[k] \in DOMAIN s,
         \A j \in DOMAIN order : j < k => order[j] \notin DOMAIN s
  PROVE  Type(order, s) = order[k]
<1> DEFINE S == {i \in DOMAIN order : order[i] \in DOMAIN s}
<1>1. k \in S /\ S \subseteq Nat /\ \A j \in S : k <= j
  OBVIOUS
<1> HIDE DEF S
<1>2. \A x \in S : (\A y \in S : x <= y) => x = k
  BY <1>1
<1>3. Min(S) = k
  BY <1>1, <1>2 DEF Min
<1> QED
  BY <1>3 DEF Type, S

\* Of six types, one after the other.
LEMMA FirstOfSix ==
  ASSUME NEW order \in Seq(Types), DOMAIN order = 1..6, NEW s, DOMAIN s # {},
         \A t \in DOMAIN s : \E k \in 1..6 : order[k] = t
  PROVE  /\ Type(order, s) \in DOMAIN s
         /\ Type(order, s) = IF order[1] \in DOMAIN s THEN order[1]
                             ELSE IF order[2] \in DOMAIN s THEN order[2]
                             ELSE IF order[3] \in DOMAIN s THEN order[3]
                             ELSE IF order[4] \in DOMAIN s THEN order[4]
                             ELSE IF order[5] \in DOMAIN s THEN order[5] ELSE order[6]
<1> DEFINE In(k) == order[k] \in DOMAIN s
<1>1. ASSUME NEW k \in 1..6, In(k), \A j \in 1..6 : j < k => ~In(j)
      PROVE  Type(order, s) = order[k]
  BY <1>1, FirstType
<1>2. CASE In(1)
  <2>1. \A j \in 1..6 : ~(j < 1)
    OBVIOUS
  <2> QED
    BY <1>1, <1>2, <2>1
<1>3. CASE ~In(1) /\ In(2)
  <2>1. \A j \in 1..6 : j < 2 => j = 1
    OBVIOUS
  <2> QED
    BY <1>1, <1>3, <2>1
<1>4. CASE ~In(1) /\ ~In(2) /\ In(3)
  <2>1. \A j \in 1..6 : j < 3 => j \in {1, 2}
    OBVIOUS
  <2> QED
    BY <1>1, <1>4, <2>1
<1>5. CASE ~In(1) /\ ~In(2) /\ ~In(3) /\ In(4)
  <2>1. \A j \in 1..6 : j < 4 => j \in {1, 2, 3}
    OBVIOUS
  <2> QED
    BY <1>1, <1>5, <2>1
<1>6. CASE ~In(1) /\ ~In(2) /\ ~In(3) /\ ~In(4) /\ In(5)
  <2>1. \A j \in 1..6 : j < 5 => j \in {1, 2, 3, 4}
    OBVIOUS
  <2> QED
    BY <1>1, <1>6, <2>1
<1>7. CASE ~In(1) /\ ~In(2) /\ ~In(3) /\ ~In(4) /\ ~In(5)
  <2>1. \A j \in 1..6 : j < 6 => j \in {1, 2, 3, 4, 5}
    OBVIOUS
  <2>2. \A k \in 1..6 : k \in {1, 2, 3, 4, 5, 6}
    OBVIOUS
  <2>3. In(6)
    BY <1>7, <2>2
  <2> QED
    BY <1>1, <1>7, <2>1, <2>3
<1> QED
  BY <1>2, <1>3, <1>4, <1>5, <1>6, <1>7

LEMMA OrderTypes ==
  /\ WebhookOrder \in Seq(Types) /\ DOMAIN WebhookOrder = 1..6
  /\ ToRROrder \in Seq(Types) /\ DOMAIN ToRROrder = 1..6
  /\ WebhookOrder[1] = "A" /\ WebhookOrder[2] = "CNAME" /\ WebhookOrder[3] = "TXT"
  /\ WebhookOrder[4] = "SRV" /\ WebhookOrder[5] = "MX" /\ WebhookOrder[6] = "Raw"
  /\ ToRROrder[1] = "A" /\ ToRROrder[2] = "TXT" /\ ToRROrder[3] = "SRV"
  /\ ToRROrder[4] = "MX" /\ ToRROrder[5] = "CNAME" /\ ToRROrder[6] = "Raw"
<1>1. WebhookOrder \in Seq(Types) /\ ToRROrder \in Seq(Types)
  BY DEF WebhookOrder, ToRROrder, Types
<1>2. Len(WebhookOrder) = 6 /\ Len(ToRROrder) = 6
  BY DEF WebhookOrder, ToRROrder
<1>3. /\ WebhookOrder[1] = "A" /\ WebhookOrder[2] = "CNAME" /\ WebhookOrder[3] = "TXT"
      /\ WebhookOrder[4] = "SRV" /\ WebhookOrder[5] = "MX" /\ WebhookOrder[6] = "Raw"
  BY DEF WebhookOrder
<1>4. /\ ToRROrder[1] = "A" /\ ToRROrder[2] = "TXT" /\ ToRROrder[3] = "SRV"
      /\ ToRROrder[4] = "MX" /\ ToRROrder[5] = "CNAME" /\ ToRROrder[6] = "Raw"
  BY DEF ToRROrder
<1> QED
  BY <1>1, <1>2, <1>3, <1>4

LEMMA OrderSet == ToSet(WebhookOrder) = Types
<1>1. \A k \in 1..6 : k \in {1, 2, 3, 4, 5, 6}
  OBVIOUS
<1> QED
  BY <1>1, OrderTypes DEF ToSet, Types

\* The type that the webhook looks at.
LEMMA WebhookType ==
  ASSUME NEW s, DOMAIN s \subseteq Types, DOMAIN s # {}
  PROVE  LET t == Type(WebhookOrder, s)
         IN  /\ t \in DOMAIN s
             /\ t = IF "A" \in DOMAIN s THEN "A"
                    ELSE IF "CNAME" \in DOMAIN s THEN "CNAME"
                    ELSE IF "TXT" \in DOMAIN s THEN "TXT"
                    ELSE IF "SRV" \in DOMAIN s THEN "SRV"
                    ELSE IF "MX" \in DOMAIN s THEN "MX" ELSE "Raw"
<1>1. \A t \in DOMAIN s : \E k \in 1..6 : WebhookOrder[k] = t
  BY OrderTypes DEF Types
<1> QED
  BY <1>1, OrderTypes, FirstOfSix

\* The type that ToRR takes.
LEMMA ToRRType ==
  ASSUME NEW s, DOMAIN s \subseteq Types, DOMAIN s # {}
  PROVE  LET t == Type(ToRROrder, s)
         IN  /\ t \in DOMAIN s
             /\ t = IF "A" \in DOMAIN s THEN "A"
                    ELSE IF "TXT" \in DOMAIN s THEN "TXT"
                    ELSE IF "SRV" \in DOMAIN s THEN "SRV"
                    ELSE IF "MX" \in DOMAIN s THEN "MX"
                    ELSE IF "CNAME" \in DOMAIN s THEN "CNAME" ELSE "Raw"
<1>1. \A t \in DOMAIN s : \E k \in 1..6 : ToRROrder[k] = t
  BY OrderTypes DEF Types
<1> QED
  BY <1>1, OrderTypes, FirstOfSix

\* The two agree if the specification is not Ambiguous.
LEMMA SameChoice ==
  ASSUME NEW s, DOMAIN s \subseteq Types, DOMAIN s # {}, ~Ambiguous(s)
  PROVE  Type(ToRROrder, s) = Type(WebhookOrder, s)
BY WebhookType, ToRRType DEF Ambiguous

(***************************************************************************)
(* Default, validate and ToRR.                                             *)
(***************************************************************************)
LEMMA EmptyName == Empty \in Name /\ ~Empty.dot
BY DEF Empty, Text, Name

LEMMA EnforceType ==
  ASSUME NEW n \in Name
  PROVE  /\ enforceFqdn(n) \in Name
         /\ n.dot => enforceFqdn(n).dot
         /\ n.dot /\ ~n.caps => enforceFqdn(n) = n
BY DEF enforceFqdn, HasDomain, Name

LEMMA DefaultFieldsType ==
  ASSUME NEW t, NEW f \in Fields
  PROVE  /\ DefaultFields(t, f) \in Fields
         /\ DefaultFields(t, f).class = OrDefault(f.class, 1)
         /\ DefaultFields(t, f).ttl = OrDefault(f.ttl, 3600)
         /\ DefaultFields(t, f).num =
              IF t = "SRV" THEN OrDefault(f.num, 1)
              ELSE IF t = "MX" THEN OrDefault(f.num, 10) ELSE f.num
         /\ DefaultFields(t, f).name = enforceFqdn(f.name)
         /\ DefaultFields(t, f).value =
              IF t \in TargetTypes THEN enforceFqdn(f.value) ELSE f.value
<1> DEFINE class == OrDefault(f.class, 1)
           ttl == OrDefault(f.ttl, 3600)
           num == IF t = "SRV" THEN OrDefault(f.num, 1)
                  ELSE IF t = "MX" THEN OrDefault(f.num, 10) ELSE f.num
           name == enforceFqdn(f.name)
           value == IF t \in TargetTypes THEN enforceFqdn(f.value) ELSE f.value
<1>1. name \in Name /\ value \in Name
  BY EnforceType DEF Fields
<1>2. class \in Nat /\ ttl \in Nat /\ num \in Nat
  BY DEF OrDefault, Fields
<1>3. DefaultFields(t, f) =
        [f EXCEPT !.class = class, !.ttl = ttl, !.num = num, !.name = name, !.value = value]
  BY DEF DefaultFields
<1> HIDE DEF class, ttl, num, name, value
<1>4. /\ DefaultFields(t, f) \in Fields
      /\ DefaultFields(t, f).class = class /\ DefaultFields(t, f).ttl = ttl
      /\ DefaultFields(t, f).num = num /\ DefaultFields(t, f).name = name
      /\ DefaultFields(t, f).value = value
  BY <1>1, <1>2, <1>3 DEF Fields
<1> QED
  BY <1>4 DEF class, ttl, num, name, value

LEMMA SchemaTypes ==
  ASSUME NEW s, Schema(s)
  PROVE  DOMAIN s \subseteq Types
BY OrderSet DEF Schema

LEMMA DefaultSchema ==
  ASSUME NEW s, Schema(s)
  PROVE  Schema(Default(s)) /\ DOMAIN Default(s) = DOMAIN s
<1> DEFINE t == Type(WebhookOrder, s)
<1>1. CASE DOMAIN s = {} \/ t = "Raw"
  BY <1>1 DEF Default
<1>2. CASE DOMAIN s # {} /\ t # "Raw"
  <2>1. t \in DOMAIN s
    BY <1>2, SchemaTypes, WebhookType
  <2>2. s[t] \in Fields
    BY <1>2, <2>1 DEF Schema
  <2>3. DefaultFields(t, s[t]) \in Fields
    BY <2>2, DefaultFieldsType
  <2>4. Default(s) = [s EXCEPT ![t] = DefaultFields(t, s[t])]
    BY <1>2 DEF Default
  <2> HIDE DEF t
  <2> QED
    BY <1>2, <2>1, <2>3, <2>4 DEF Schema
<1> QED
  BY <1>1, <1>2

\* Default leaves a valid specification valid.
LEMMA DefaultValid ==
  ASSUME NEW s, Schema(s), validate(s)
  PROVE  validate(Default(s))
<1> DEFINE t == Type(WebhookOrder, s)
<1>1. DOMAIN Default(s) = DOMAIN s /\ DOMAIN s # {}
  BY DefaultSchema DEF validate
<1>2. Type(WebhookOrder, Default(s)) = t /\ t \in DOMAIN s
  BY <1>1, SameType, SchemaTypes, WebhookType
<1>3. CASE t = "Raw"
  BY <1>3 DEF Default
<1>4. CASE t # "Raw"
  <2>1. s[t] \in Fields
    BY <1>2, <1>4 DEF Schema
  <2>2. Default(s)[t] = DefaultFields(t, s[t])
    BY <1>1, <1>2, <1>4 DEF Default
  <2>3. validFields(t, s[t])
    BY <1>4 DEF validate
  <2>4. s[t].name \in Name /\ s[t].value \in Name
    BY <2>1 DEF Fields
  <2>5. /\ Default(s)[t].name.dot
        /\ t \notin TargetTypes => Default(s)[t].value = s[t].value
        /\ t \in TargetTypes => Default(s)[t].value.dot
    BY <2>1, <2>2, <2>3, <2>4, DefaultFieldsType, EnforceType DEF validFields
  <2>6. validFields(t, Default(s)[t])
    BY <2>3, <2>5, EmptyName DEF validFields, TargetTypes
  <2> QED
    BY <1>1, <1>2, <1>4, <2>6 DEF validate
<1> QED
  BY <1>3, <1>4

LEMMA RRType ==
  ASSUME NEW t \in RRTypes, NEW f \in Fields
  PROVE  /\ RR(t, f) \in ResourceRecord
         /\ RR(t, f).type = t /\ RR(t, f).name = f.name /\ RR(t, f).value = f.value
BY DEF RR, Fields, ResourceRecord

\* ToRR makes a resource record or fails.
LEMMA ToRRIsRecord ==
  ASSUME NEW s, Schema(s)
  PROVE  ToRR(s) \in ResourceRecord \cup {Error}
<1> DEFINE t == Type(ToRROrder, s)
<1>1. CASE DOMAIN s = {}
  BY <1>1 DEF ToRR
<1>2. CASE DOMAIN s # {}
  <2>1. t \in DOMAIN s /\ t \in Types
    BY <1>2, SchemaTypes, ToRRType
  <2>2. CASE t = "Raw"
    BY <1>2, <2>1, <2>2 DEF ToRR, Schema, Parsed
  <2>3. CASE t # "Raw"
    <3>0. s[t] \in Fields
      BY <2>1, <2>3 DEF Schema
    <3> HIDE DEF t
    <3>1. RR(t, s[t]) \in ResourceRecord
      BY <2>1, <2>3, <3>0, RRType DEF Types, RRTypes, TargetTypes
    <3>2. ToRR(s) \in {RR(t, s[t]), Error}
      BY <1>2, <2>1, <2>3 DEF ToRR, Types, t
    <3> QED
      BY <3>1, <3>2
  <2> QED
    BY <2>2, <2>3
<1> QED
  BY <1>1, <1>2

\* What is valid and not Ambiguous converts.
LEMMA ValidConverts ==
  ASSUME NEW s, Schema(s), validate(s), ~Ambiguous(s)
  PROVE  /\ ToRR(s) # Error
         /\ ToRR(s).name.dot
         /\ IF ToRR(s).value = Empty THEN Type(ToRROrder, s) = "Raw"
            ELSE ToRR(s).type \in TargetTypes => ToRR(s).value.dot
<1> DEFINE t == Type(ToRROrder, s)
<1>1. DOMAIN s # {} /\ DOMAIN s \subseteq Types
  BY SchemaTypes DEF validate
<1>2. t = Type(WebhookOrder, s) /\ t \in DOMAIN s /\ t \in Types
  BY <1>1, SameChoice, ToRRType
<1>3. CASE t = "Raw"
  <2>1. s[t] # Garbage /\ Parsed(s[t])
    BY <1>2, <1>3 DEF validate, Schema
  <2>2. ToRR(s) = s[t]
    BY <1>1, <1>3, <2>1 DEF ToRR
  <2> QED
    BY <1>3, <2>1, <2>2, FormsAssumption DEF Parsed
<1>4. CASE t # "Raw"
  <2>1. s[t] \in Fields /\ validFields(t, s[t])
    BY <1>2, <1>4 DEF Schema, validate
  <2>2. s[t].value # Empty
    BY <1>2, <1>4, <2>1, FormsAssumption DEF validFields, IsIP, Types, TargetTypes
  <2>3. ToRR(s) = RR(t, s[t])
    <3> HIDE DEF t
    <3>1. t \in {"A", "TXT", "SRV", "CNAME", "MX"} /\ (t = "A" => IsIP(s[t].value))
      BY <1>2, <1>4, <2>1 DEF Types, validFields
    <3> QED
      BY <1>1, <2>2, <3>1 DEF ToRR, t
  <2> HIDE DEF t
  <2>4. /\ ToRR(s) # Error /\ ToRR(s).type = t
        /\ ToRR(s).name = s[t].name /\ ToRR(s).value = s[t].value
    BY <1>2, <1>4, <2>1, <2>3, RRType, FormsAssumption DEF Types, RRTypes, TargetTypes
  <2> QED
    BY <2>1, <2>2, <2>4 DEF validFields
<1> QED
  BY <1>3, <1>4

(***************************************************************************)
(* Records of a zone file.                                                 *)
(***************************************************************************)
LEMMA SameFields ==
  ASSUME NEW f \in Fields, NEW g \in Fields, f.name = g.name, f.class = g.class,
         f.ttl = g.ttl, f.num = g.num, f.value = g.value
  PROVE  f = g
BY DEF Fields

LEMMA SameRecord ==
  ASSUME NEW r \in ResourceRecord, NEW q \in ResourceRecord, r.type = q.type,
         r.name = q.name, r.class = q.class, r.ttl = q.ttl, r.num = q.num, r.value = q.value
  PROVE  r = q
BY DEF ResourceRecord

LEMMA FieldsOfType ==
  ASSUME NEW rr \in ResourceRecord
  PROVE  FieldsOf(rr) \in Fields /\ RR(rr.type, FieldsOf(rr)) = rr
<1>1. FieldsOf(rr) \in Fields
  BY DEF FieldsOf, Fields, ResourceRecord
<1>2. rr.type \in RRTypes
  BY DEF ResourceRecord
<1>3. /\ RR(rr.type, FieldsOf(rr)) \in ResourceRecord
      /\ RR(rr.type, FieldsOf(rr)).type = rr.type
      /\ RR(rr.type, FieldsOf(rr)).name = rr.name
      /\ RR(rr.type, FieldsOf(rr)).class = rr.class
      /\ RR(rr.type, FieldsOf(rr)).ttl = rr.ttl
      /\ RR(rr.type, FieldsOf(rr)).num = rr.num
      /\ RR(rr.type, FieldsOf(rr)).value = rr.value
  BY <1>1, <1>2, RRType DEF RR, FieldsOf
<1> QED
  BY <1>1, <1>3, SameRecord

\* FromRR makes a specification with one type.
LEMMA FromRRType ==
  ASSUME NEW rr, Parsed(rr)
  PROVE  LET s == FromRR(rr)
         IN  /\ Schema(s)
             /\ \/ /\ rr.type \in Types \ {"Raw"} /\ DOMAIN s = {rr.type}
                   /\ s = [t \in {rr.type} |-> FieldsOf(rr)]
                   /\ Type(WebhookOrder, s) = rr.type /\ Type(ToRROrder, s) = rr.type
                \/ /\ DOMAIN s = {"Raw"} /\ s["Raw"] = rr
                   /\ Type(WebhookOrder, s) = "Raw" /\ Type(ToRROrder, s) = "Raw"
<1> DEFINE s == FromRR(rr)
<1>1. rr \in ResourceRecord /\ FieldsOf(rr) \in Fields
  BY FieldsOfType DEF Parsed
<1>2. CASE rr.type \in {"A", "CNAME", "TXT", "SRV", "MX"}
  <2>1. s = [t \in {rr.type} |-> FieldsOf(rr)] /\ rr.type \in Types \ {"Raw"}
    BY <1>2 DEF FromRR, Types
  <2> HIDE DEF s
  <2>2. DOMAIN s = {rr.type} /\ DOMAIN s # {} /\ DOMAIN s \subseteq Types
    BY <2>1
  <2>3. Type(WebhookOrder, s) = rr.type /\ Type(ToRROrder, s) = rr.type
    BY <2>2, WebhookType, ToRRType
  <2>4. Schema(s)
    BY <1>1, <2>1, <2>2, OrderSet DEF Schema
  <2> QED
    BY <2>1, <2>2, <2>3, <2>4 DEF s
<1>3. CASE rr.type \notin {"A", "CNAME", "TXT", "SRV", "MX"}
  <2>1. s = [t \in {"Raw"} |-> rr]
    BY <1>3 DEF FromRR
  <2> HIDE DEF s
  <2>2. DOMAIN s = {"Raw"} /\ DOMAIN s # {} /\ DOMAIN s \subseteq Types /\ s["Raw"] = rr
    BY <2>1 DEF Types
  <2>3. Type(WebhookOrder, s) = "Raw" /\ Type(ToRROrder, s) = "Raw"
    BY <2>2, WebhookType, ToRRType
  <2>4. Schema(s)
    BY <2>2, OrderSet DEF Schema
  <2> QED
    BY <2>2, <2>3, <2>4 DEF s
<1> QED
  BY <1>2, <1>3

\* A Plain record is valid, has nothing to default and converts back.
LEMMA PlainStays ==
  ASSUME NEW rr, Parsed(rr), Plain(rr)
  PROVE  LET s == FromRR(rr)
         IN  validate(s) /\ Default(s) = s /\ ToRR(s) = rr
<1> DEFINE s == FromRR(rr)
<1>1. rr \in ResourceRecord /\ FieldsOf(rr) \in Fields
  BY FieldsOfType DEF Parsed
<1>2. /\ FieldsOf(rr).name = rr.name /\ FieldsOf(rr).class = rr.class
      /\ FieldsOf(rr).ttl = rr.ttl /\ FieldsOf(rr).num = rr.num
      /\ FieldsOf(rr).value = rr.value
  BY DEF FieldsOf
<1>3. CASE /\ rr.type \in Types \ {"Raw"} /\ DOMAIN s = {rr.type}
           /\ s = [t \in {rr.type} |-> FieldsOf(rr)]
           /\ Type(WebhookOrder, s) = rr.type /\ Type(ToRROrder, s) = rr.type
  <2> HIDE DEF s
  <2>1. rr.name \in Name /\ rr.value \in Name /\ rr.name.dot
    BY <1>1 DEF ResourceRecord, Parsed
  <2>2. /\ rr.type \in TargetTypes => rr.value.dot
        /\ rr.type = "A" => IsIP(rr.value)
    BY DEF Parsed, Plain
  <2>3. enforceFqdn(rr.name) = rr.name
    BY <2>1, EnforceType DEF Plain
  <2>4. rr.type \in TargetTypes => enforceFqdn(rr.value) = rr.value
    BY <2>1, <2>2, EnforceType DEF Plain
  <2>5. /\ OrDefault(rr.class, 1) = rr.class /\ OrDefault(rr.ttl, 3600) = rr.ttl
        /\ rr.type = "SRV" => OrDefault(rr.num, 1) = rr.num
        /\ rr.type = "MX" => OrDefault(rr.num, 10) = rr.num
    BY DEF OrDefault, Plain
  <2>6. DefaultFields(rr.type, FieldsOf(rr)) = FieldsOf(rr)
    <3> DEFINE f == FieldsOf(rr)
               g == DefaultFields(rr.type, f)
    <3>1. /\ g \in Fields /\ f \in Fields
          /\ g.name = f.name /\ g.class = f.class /\ g.ttl = f.ttl
          /\ g.num = f.num /\ g.value = f.value
      BY <1>1, <1>2, <2>3, <2>4, <2>5, DefaultFieldsType
    <3> HIDE DEF f, g
    <3>2. g = f
      BY <3>1, SameFields
    <3> QED
      BY <3>2 DEF f, g
  <2>7. s[rr.type] = FieldsOf(rr) /\ DOMAIN s # {} /\ rr.type # "Raw"
    BY <1>3
  <2>8. Default(s) = s
    <3>1. Default(s) = [s EXCEPT ![rr.type] = FieldsOf(rr)]
      BY <1>3, <2>6, <2>7 DEF Default
    <3> QED
      BY <1>3, <3>1
  <2>9. validate(s)
    BY <1>2, <1>3, <2>1, <2>2, <2>7 DEF validate, validFields, Plain
  <2>10. ToRR(s) = rr
    <3>1. ToRR(s) = RR(rr.type, FieldsOf(rr))
      BY <1>2, <1>3, <2>2, <2>7 DEF ToRR, Plain, Types
    <3> QED
      BY <1>1, <3>1, FieldsOfType
  <2> QED
    BY <2>8, <2>9, <2>10 DEF s
<1>4. CASE /\ DOMAIN s = {"Raw"} /\ s["Raw"] = rr
           /\ Type(WebhookOrder, s) = "Raw" /\ Type(ToRROrder, s) = "Raw"
  <2> HIDE DEF s
  <2>1. rr # Garbage /\ DOMAIN s # {}
    BY <1>1, <1>4, FormsAssumption
  <2> QED
    BY <1>4, <2>1 DEF validate, Default, ToRR, s
<1> QED
  BY <1>3, <1>4, FromRRType

(***************************************************************************)
(* The listing of the provider.                                            *)
(***************************************************************************)
ProviderRecord ==
  [type : RRTypes, name : Name, ttl : Nat, num : Nat, value : Name]

LEMMA SameName ==
  ASSUME NEW n \in Name, NEW m \in Name, n.labels = m.labels, n.dot = m.dot,
         n.caps = m.caps, n.quoted = m.quoted
  PROVE  n = m
BY DEF Name

LEMMA SameProviderRecord ==
  ASSUME NEW r \in ProviderRecord, NEW q \in ProviderRecord, r.type = q.type,
         r.name = q.name, r.ttl = q.ttl, r.num = q.num, r.value = q.value
  PROVE  r = q
BY DEF ProviderRecord

LEMMA MakeRecordType ==
  ASSUME NEW rr \in ResourceRecord
  PROVE  makeRecord(rr) \in ProviderRecord /\ makeRecord(rr).name = rr.name
BY EmptyName DEF makeRecord, ResourceRecord, ProviderRecord

\* A name is the rest before its zone and the zone.
LEMMA ZoneSplits ==
  ASSUME NEW n \in Name, Len(n.labels) >= 2
  PROVE  LET z == Zone(n)
             k == Len(n.labels) - Len(z)
         IN  /\ Len(z) = 2
             /\ SubSeq(n.labels, 1, k) \in Seq(STRING)
             /\ SubSeq(n.labels, 1, k) \o z = n.labels
<1> DEFINE l == n.labels
           z == Zone(n)
<1>1. l \in Seq(STRING) /\ Len(l) \in Nat /\ DOMAIN l = 1..Len(l)
  BY DEF Name
<1>2. z = SubSeq(l, Len(l) - 1, Len(l))
  BY DEF Zone
<1> HIDE DEF l, z
<1>3. /\ Len(l) - 1 \in Int /\ Len(l) \in Int /\ Len(l) >= 2
      /\ \A i \in (Len(l) - 1)..Len(l) : l[i] \in STRING
  BY <1>1 DEF l
<1>4. Len(z) = IF Len(l) - 1 <= Len(l) THEN Len(l) - (Len(l) - 1) + 1 ELSE 0
  BY <1>2, <1>3, SubSeqProperties
<1>5. Len(z) = 2
  BY <1>1, <1>4
<1>6. Len(l) - 2 \in (1 - 1)..Len(l) /\ Len(l) \in (Len(l) - 2)..Len(l) /\ 1 \in 1..(Len(l) + 1)
  BY <1>1, <1>3
<1>7. SubSeq(l, 1, Len(l) - 2) \o SubSeq(l, (Len(l) - 2) + 1, Len(l)) = SubSeq(l, 1, Len(l))
  BY <1>1, <1>6, ConcatAdjacentSubSeq
<1>8. (Len(l) - 2) + 1 = Len(l) - 1 /\ SubSeq(l, 1, Len(l)) = l
  BY <1>1, SubSeqFull
<1>9. SubSeq(l, 1, Len(l) - 2) \in Seq(STRING)
  <2>1. 1 \in Int /\ Len(l) - 2 \in Int /\ \A i \in 1..(Len(l) - 2) : l[i] \in STRING
    BY <1>1
  <2> QED
    BY <2>1, SubSeqProperties
<1> QED
  BY <1>2, <1>5, <1>7, <1>8, <1>9 DEF l, z

\* A name of two labels or more ends with its zone.
LEMMA ZoneIsSuffix ==
  ASSUME NEW n \in Name, Len(n.labels) >= 2
  PROVE  IsSuffix(Zone(n), n.labels)
<1> DEFINE l == n.labels
           z == Zone(n)
           rl == Reverse(l)
           rz == Reverse(z)
<1>1. l \in Seq(STRING) /\ Len(l) \in Nat /\ Len(l) >= 2
  BY DEF Name
<1>2. z = SubSeq(l, Len(l) - 1, Len(l))
  BY DEF Zone
<1> HIDE DEF l, z
<1>3. /\ z \in Seq(STRING) /\ Len(z) = 2
      /\ z[1] = l[Len(l) - 1] /\ z[2] = l[Len(l)]
  BY <1>1, <1>2
<1>4. /\ rz \in Seq(STRING) /\ Len(rz) = 2 /\ rz[1] = z[2] /\ rz[2] = z[1]
  <2>1. rz = [i \in 1..2 |-> z[(2 - i) + 1]]
    BY <1>3 DEF Reverse
  <2>2. z[1] \in STRING /\ z[2] \in STRING
    <3>1. 1 \in 1..Len(z) /\ 2 \in 1..Len(z)
      BY <1>3
    <3> QED
      BY <1>3, <3>1, ElementOfSeq
  <2> HIDE DEF rz
  <2>3. \A i \in 1..2 : rz[i] \in STRING
    BY <2>1, <2>2
  <2> QED
    BY <2>1, <2>3
<1>5. /\ rl \in Seq(STRING) /\ Len(rl) = Len(l)
      /\ rl[1] = l[Len(l)] /\ rl[2] = l[Len(l) - 1]
  BY <1>1 DEF Reverse
<1> HIDE DEF rl, rz
<1>6. SubSeq(rz, 1, 2) = SubSeq(rl, 1, 2)
  BY <1>1, <1>3, <1>4, <1>5
<1> QED
  BY <1>1, <1>4, <1>5, <1>6 DEF IsSuffix, IsPrefix, rl, rz, l, z

StyleType == style \in [relative : BOOLEAN, dotless : BOOLEAN, quotes : BOOLEAN]

\* The fields of what the provider lists and of what is compared.
LEMMA PresentFields ==
  ASSUME NEW r \in ProviderRecord, NEW z
  PROVE  LET p == Present(r, z)
         IN  /\ p.type = r.type /\ p.ttl = r.ttl /\ p.num = r.num
             /\ p.name = PresentName(r.name, z) /\ p.value = PresentValue(r.type, r.value)
             /\ DOMAIN p = DOMAIN r
BY DEF Present, ProviderRecord

\* A stable name survives the listing.
LEMMA NameSurvives ==
  ASSUME StyleType, NEW r \in ProviderRecord, Len(r.name.labels) >= 2, ~UnstableName(r)
  PROVE  Fqdn(Present(r, Zone(r.name)).name, Zone(r.name)) = r.name
<1> DEFINE n == r.name
           z == Zone(n)
           k == Len(n.labels) - Len(z)
           m == [n EXCEPT !.labels = SubSeq(n.labels, 1, k), !.dot = FALSE]
<1>1. n \in Name /\ n.dot = TRUE /\ n.caps = FALSE
  BY DEF ProviderRecord, UnstableName, Name
<1>2. /\ Len(z) = 2 /\ SubSeq(n.labels, 1, k) \in Seq(STRING)
      /\ SubSeq(n.labels, 1, k) \o z = n.labels
  BY <1>1, ZoneSplits
<1>3. Present(r, z).name = IF style.relative /\ IsSuffix(z, n.labels) THEN m ELSE n
  BY PresentFields DEF PresentName
<1>4. Fqdn(n, z) = n
  <2>1. [n EXCEPT !.dot = TRUE] = n
    BY <1>1 DEF Name
  <2> QED
    BY <1>1, <2>1, ZoneIsSuffix DEF Fqdn
<1>5. CASE style.relative /\ IsSuffix(z, n.labels)
  <2>1. m \in Name /\ m.labels = SubSeq(n.labels, 1, k) /\ m.dot = FALSE
        /\ m.caps = n.caps /\ m.quoted = n.quoted
    BY <1>1, <1>2 DEF Name
  <2>2. ~IsSuffix(z, m.labels)
    BY <1>2, <1>5, <2>1 DEF UnstableName
  <2>3. Fqdn(m, z) = [m EXCEPT !.labels = @ \o z, !.dot = TRUE]
    BY <2>1, <2>2 DEF Fqdn, AbsoluteName
  <2>4. m.labels \o z = n.labels
    BY <1>2, <2>1
  <2> HIDE DEF m, z
  <2>5. n.labels \in Seq(STRING)
    BY <1>1 DEF Name
  <2>6. /\ Fqdn(m, z) \in Name /\ Fqdn(m, z).labels = n.labels /\ Fqdn(m, z).dot = TRUE
        /\ Fqdn(m, z).caps = n.caps /\ Fqdn(m, z).quoted = n.quoted
    BY <2>1, <2>3, <2>4, <2>5 DEF Name
  <2>7. Fqdn(m, z) = n
    BY <1>1, <2>6, SameName
  <2> QED
    BY <1>3, <1>5, <2>7 DEF z
<1>6. CASE ~(style.relative /\ IsSuffix(z, n.labels))
  BY <1>3, <1>4, <1>6
<1> QED
  BY <1>5, <1>6

\* So does its value, if quotes and final dots are put right.
LEMMA ValueSurvives ==
  ASSUME StyleType, NEW r \in ProviderRecord, ~Unstable(r)
  PROVE  LET z == Zone(r.name)
             v == Present(r, z).value
         IN  r.value = IF r.type \in {"A", "AAAA", "TXT"} THEN Unquote(v)
                       ELSE IF r.type \in TargetTypes \cup {"NS"}
                       THEN Unquote(Fqdn(v, z)) ELSE v
<1> DEFINE z == Zone(r.name)
           w == r.value
           v == Present(r, z).value
<1>1. w \in Name /\ w.quoted = FALSE /\ w.caps = FALSE
  BY DEF ProviderRecord, Name, Unstable
<1>2. v = IF r.type \in TargetTypes \cup {"NS"} THEN [w EXCEPT !.dot = w.dot /\ ~style.dotless]
          ELSE IF r.type = "TXT" THEN [w EXCEPT !.quoted = w.quoted \/ style.quotes] ELSE w
  BY PresentFields DEF PresentValue
<1>3. style.dotless \in BOOLEAN /\ style.quotes \in BOOLEAN
  BY DEF StyleType
<1>4. Unquote(w) = w
  BY <1>1 DEF Unquote, Name
<1>5. CASE r.type \in TargetTypes \cup {"NS"}
  <2>1. w.dot = TRUE /\ IsSuffix(z, w.labels)
    BY <1>1, <1>5 DEF Unstable, UnstableTarget, Name
  <2>2. CASE style.dotless
    <3>1. v = [w EXCEPT !.dot = FALSE]
      BY <1>1, <1>2, <1>5, <2>1, <2>2 DEF Name
    <3> HIDE DEF v, w, z
    <3>2. v \in Name /\ v.labels = w.labels /\ v.caps = w.caps /\ v.quoted = w.quoted
      BY <1>1, <3>1 DEF Name
    <3>3. Fqdn(v, z) = [v EXCEPT !.dot = TRUE]
      BY <1>1, <2>1, <3>2 DEF Fqdn
    <3>4. /\ Fqdn(v, z) \in Name /\ Fqdn(v, z).labels = w.labels /\ Fqdn(v, z).dot = w.dot
          /\ Fqdn(v, z).caps = w.caps /\ Fqdn(v, z).quoted = w.quoted
      BY <2>1, <3>2, <3>3 DEF Name
    <3>5. Fqdn(v, z) = w
      BY <1>1, <3>4, SameName
    <3> QED
      BY <1>4, <1>5, <3>5 DEF TargetTypes, v, w, z
  <2>3. CASE ~style.dotless
    <3>1. v = w
      BY <1>1, <1>2, <1>3, <1>5, <2>1, <2>3 DEF Name
    <3> HIDE DEF v, w, z
    <3>2. [w EXCEPT !.dot = TRUE] = w
      BY <1>1, <2>1 DEF Name
    <3>3. Fqdn(w, z) = w
      BY <1>1, <2>1, <3>2 DEF Fqdn
    <3> QED
      BY <1>4, <1>5, <3>1, <3>3 DEF TargetTypes, v, w, z
  <2> QED
    BY <2>2, <2>3
<1>6. CASE r.type = "TXT"
  <2>1. v = [w EXCEPT !.quoted = w.quoted \/ style.quotes]
    BY <1>2, <1>6 DEF TargetTypes
  <2> HIDE DEF v, w
  <2>2. Unquote(v) \in Name /\ Unquote(v).labels = w.labels /\ Unquote(v).dot = w.dot
        /\ Unquote(v).caps = w.caps /\ Unquote(v).quoted = FALSE
    BY <1>1, <1>3, <2>1 DEF Unquote, Name
  <2>3. Unquote(v) = w
    BY <1>1, <2>2, SameName
  <2> QED
    BY <1>6, <2>3 DEF v, w
<1>7. CASE r.type \notin TargetTypes \cup {"NS", "TXT"}
  BY <1>2, <1>4, <1>7
<1> QED
  BY <1>5, <1>6, <1>7

\* What is listed of a stable record is, put right, that record.
LEMMA RoundTrip ==
  ASSUME StyleType, NEW r \in ProviderRecord, Len(r.name.labels) >= 2, ~Unstable(r)
  PROVE  FqdnRec(Present(r, Zone(r.name)), Zone(r.name)) = r
<1> DEFINE z == Zone(r.name)
           p == Present(r, z)
           q == FqdnRec(p, z)
<1>1. /\ p.type = r.type /\ p.ttl = r.ttl /\ p.num = r.num /\ DOMAIN p = DOMAIN r
      /\ Fqdn(p.name, z) = r.name
      /\ r.value = IF r.type \in {"A", "AAAA", "TXT"} THEN Unquote(p.value)
                   ELSE IF r.type \in TargetTypes \cup {"NS"}
                   THEN Unquote(Fqdn(p.value, z)) ELSE p.value
  BY PresentFields, NameSurvives, ValueSurvives DEF Unstable
<1>2. q = [p EXCEPT !.name = r.name, !.value = r.value]
  BY <1>1 DEF FqdnRec
<1> HIDE DEF p, q, z
<1>3. /\ q.type = r.type /\ q.ttl = r.ttl /\ q.num = r.num
      /\ q.name = r.name /\ q.value = r.value
  BY <1>1, <1>2 DEF ProviderRecord
<1>4. q \in ProviderRecord
  BY <1>1, <1>2, <1>3 DEF ProviderRecord
<1>5. q = r
  BY <1>3, <1>4, SameProviderRecord
<1> QED
  BY <1>5 DEF p, q, z

\* Exists, for a record r.
Seen(r, w, z) == [Present(r, z) EXCEPT !.name = Fqdn(@, z), !.ttl = w.ttl] = w

\* The check for an existing record compares all but the TTL, if the record is
\* not Disguised.
LEMMA ExistsCompares ==
  ASSUME StyleType, NEW r \in ProviderRecord, Len(r.name.labels) >= 2, ~Disguised(r),
         NEW w \in ProviderRecord
  PROVE  Seen(r, w, Zone(r.name)) <=> SameButTtl(r, w)
<1> DEFINE z == Zone(r.name)
           p == Present(r, z)
           q == [p EXCEPT !.name = r.name, !.ttl = w.ttl]
<1>1. ~UnstableName(r) /\ r.value \in Name /\ style.dotless \in BOOLEAN /\ style.quotes \in BOOLEAN
  BY DEF Disguised, StyleType, ProviderRecord
<1>2. Fqdn(p.name, z) = r.name
  BY <1>1, NameSurvives
<1>3. PresentValue(r.type, r.value) = r.value
  BY <1>1 DEF PresentValue, Disguised, Name
<1>4. /\ p.type = r.type /\ p.num = r.num /\ p.value = r.value /\ DOMAIN p = DOMAIN r
  BY <1>3, PresentFields
<1>5. [p EXCEPT !.name = Fqdn(@, z), !.ttl = w.ttl] = q
  BY <1>2
<1> HIDE DEF p, z
<1>6. q.type = r.type /\ q.name = r.name /\ q.ttl = w.ttl /\ q.num = r.num /\ q.value = r.value
  BY <1>4 DEF ProviderRecord
<1>7. q \in ProviderRecord
  BY <1>4, <1>6 DEF ProviderRecord
<1> HIDE DEF q
<1>8. q = w <=> r.type = w.type /\ r.name = w.name /\ r.num = w.num /\ r.value = w.value
  BY <1>6, <1>7, SameProviderRecord
<1> DEFINE r0 == [r EXCEPT !.ttl = 0]
           w0 == [w EXCEPT !.ttl = 0]
<1>9. /\ r0 \in ProviderRecord /\ r0.ttl = 0 /\ r0.type = r.type /\ r0.name = r.name
      /\ r0.num = r.num /\ r0.value = r.value
  BY DEF ProviderRecord
<1>10. /\ w0 \in ProviderRecord /\ w0.ttl = 0 /\ w0.type = w.type /\ w0.name = w.name
       /\ w0.num = w.num /\ w0.value = w.value
  BY DEF ProviderRecord
<1> HIDE DEF r0, w0
<1>11. r0 = w0 <=> r.type = w.type /\ r.name = w.name /\ r.num = w.num /\ r.value = w.value
  BY <1>9, <1>10, SameProviderRecord
<1> QED
  BY <1>5, <1>8, <1>11 DEF Seen, SameButTtl, p, z, r0, w0

(***************************************************************************)
(* The invariant.                                                          *)
(***************************************************************************)
ZoneLine == {rr \in ResourceRecord : Parsed(rr) /\ NameFor(rr) \in Objects /\ FromRR(rr) # Absent}

FormsTypeOK ==
  /\ StyleType
  /\ DOMAIN store = Objects /\ \A o \in Objects : store[o] = Absent \/ Schema(store[o])
  /\ file \in Seq(ZoneLine) /\ applying \in Seq(ZoneLine)
  /\ ids \in [Objects -> Nat]
  /\ misses \in Nat
  /\ IsFiniteSet(DOMAIN provider) /\ DOMAIN provider \subseteq Nat \ {0}
  /\ \A i \in DOMAIN provider :
       provider[i] \in ProviderRecord /\ Len(provider[i].name.labels) >= 2

\* With the webhook, what is stored is valid.
Judged == webhook => \A o \in Objects : store[o] # Absent => validate(store[o])

\* No two objects name the same record.
OwnIds == \A o, p \in Objects : ids[o] # 0 /\ ids[o] = ids[p] => o = p

\* How much of the file has been applied, and what it left in the store.
Done == Len(file) - Len(applying)

Applied ==
  file # <<>> =>
    /\ Len(applying) <= Len(file)
    /\ \A k \in DOMAIN applying : applying[k] = file[Done + k]
    /\ \A i \in DOMAIN file : i <= Done /\ Plain(file[i]) /\ Unique(i) =>
         store[NameFor(file[i])] = FromRR(file[i])

FormsInv == FormsTypeOK /\ Judged /\ OwnIds /\ Applied

\* The state of an object, for the lemmas about its reconcile.
LEMMA WantedType ==
  ASSUME FormsTypeOK, NEW o \in Objects, Wanted(o) # Error
  PROVE  /\ Wanted(o) \in ResourceRecord
         /\ Want(o) \in ProviderRecord /\ Want(o).name = Wanted(o).name
<1>1. store[o] # Absent /\ Wanted(o) = ToRR(Default(store[o]))
  BY DEF Wanted
<1>2. Schema(Default(store[o]))
  BY <1>1, DefaultSchema DEF FormsTypeOK
<1>3. Wanted(o) \in ResourceRecord
  BY <1>1, <1>2, ToRRIsRecord
<1> QED
  BY <1>3, MakeRecordType DEF Want

LEMMA FreshIsNew ==
  ASSUME FormsTypeOK
  PROVE  /\ Fresh \in Nat \ {0} /\ Fresh \notin DOMAIN provider
         /\ \A o \in Objects : ids[o] # Fresh
<1> DEFINE D == DOMAIN provider
           R == {ids[o] : o \in Objects}
           n == 1 + Cardinality(D) + Cardinality(Objects)
<1>1. IsFiniteSet(D) /\ IsFiniteSet(Objects) /\ ids \in [Objects -> Nat]
  BY FormsAssumption DEF FormsTypeOK
<1>2. Cardinality(D) \in Nat /\ Cardinality(Objects) \in Nat
  BY <1>1, FS_CardinalityType
<1>3. ids \in Surjection(Objects, R)
  BY <1>1 DEF Surjection
<1>4. IsFiniteSet(R) /\ Cardinality(R) <= Cardinality(Objects) /\ Cardinality(R) \in Nat
  BY <1>1, <1>3, FS_Surjection, FS_CardinalityType
<1>5. /\ IsFiniteSet(D \cup R)
      /\ Cardinality(D \cup R) = Cardinality(D) + Cardinality(R) - Cardinality(D \cap R)
  BY <1>1, <1>4, FS_Union
<1>6. Cardinality(D \cap R) \in Nat
  BY <1>1, FS_Intersection, FS_CardinalityType
<1>7. IsFiniteSet(1..n) /\ Cardinality(1..n) = n
  <2>1. n \in Nat /\ 1 \in Int /\ n \in Int /\ ~(1 > n) /\ n - 1 + 1 = n
    BY <1>2
  <2> HIDE DEF n
  <2> QED
    BY <2>1, FS_Interval
<1>8. \E i \in 1..n : i \notin D \cup R
  <2> SUFFICES ASSUME 1..n \subseteq D \cup R PROVE FALSE
    OBVIOUS
  <2>1. Cardinality(1..n) <= Cardinality(D \cup R)
    BY <1>5, FS_Subset
  <2> HIDE DEF D, R
  <2> QED
    BY <1>2, <1>4, <1>5, <1>6, <1>7, <2>1
<1>9. Fresh \in 1..n /\ Fresh \notin D \cup R
  BY <1>8 DEF Fresh
<1> QED
  BY <1>2, <1>9

LEMMA FormsInvInit == Init => FormsInv
<1> SUFFICES ASSUME Init PROVE FormsInv
  OBVIOUS
<1>1. DOMAIN provider = {}
  BY DEF Init, NoRecords
<1>2. FormsTypeOK
  BY <1>1, FormsAssumption, FS_EmptySet DEF Init, FormsTypeOK, StyleType
<1> QED
  BY <1>2 DEF Init, FormsInv, Judged, OwnIds, Applied

LEMMA PutKeeps ==
  ASSUME FormsInv, NEW o \in Written, Put(o)
  PROVE  FormsInv'
<1>1. PICK spec \in Submissions : Admitted(spec) /\ store' = [store EXCEPT ![o] = Stored(spec)]
  BY DEF Put
<1>2. o \in Objects /\ Schema(spec) /\ file' = <<>> /\ webhook' = webhook
  BY FormsAssumption DEF Put
<1>3. Schema(Stored(spec)) /\ (webhook => validate(Stored(spec)))
  BY <1>1, <1>2, DefaultSchema DEF Stored, Admitted
<1>4. FormsTypeOK'
  <2>1. <<>> \in Seq(ZoneLine)
    OBVIOUS
  <2> QED
    BY <1>1, <1>2, <1>3, <2>1 DEF Put, FormsInv, FormsTypeOK, StyleType
<1>5. Judged'
  BY <1>1, <1>2, <1>3 DEF FormsInv, FormsTypeOK, Judged
<1>6. OwnIds' /\ Applied'
  BY <1>2 DEF Put, FormsInv, OwnIds, Applied
<1> QED
  BY <1>4, <1>5, <1>6 DEF FormsInv

\* A set of naturals has a least element.
LEMMA Least ==
  ASSUME NEW T \in SUBSET Nat, T # {}
  PROVE  Min(T) \in T /\ \A y \in T : Min(T) <= y
<1>1. IsWellFoundedOn(OpToRel(<, Nat), Nat)
  BY NatLessThanWellFounded
<1>2. PICK x \in T : \A y \in T : ~(<<y, x>> \in OpToRel(<, Nat))
  BY <1>1, WFMin
<1>3. \A y \in T : ~(y < x)
  BY <1>2 DEF OpToRel
<1>4. \A y \in T : x <= y
  BY <1>3
<1> QED
  BY <1>2, <1>4 DEF Min

LEMMA ParseType ==
  ASSUME NEW f \in ZoneFiles
  PROVE  parse(f) \in Seq(ZoneLine)
<1> DEFINE bad == {i \in DOMAIN f : f[i] = Garbage}
<1>1. f \in Seq(ResourceRecord \cup {Garbage})
  BY FormsAssumption
<1>2. ASSUME NEW i \in DOMAIN f, f[i] # Garbage PROVE f[i] \in ZoneLine
  BY <1>2, FormsAssumption DEF ToSet, ZoneLine, Parsed
<1>3. Len(f) \in Nat /\ DOMAIN f = 1..Len(f)
  BY <1>1
<1>4. CASE bad = {}
  <2>1. \A i \in 1..Len(f) : f[i] \in ZoneLine
    BY <1>2, <1>3, <1>4
  <2>2. f \in Seq(ZoneLine)
    BY <1>1, <1>3, <2>1
  <2> QED
    BY <1>4, <2>2 DEF parse
<1>5. CASE bad # {}
  <2>1. bad \in SUBSET Nat
    BY <1>3
  <2>2. Min(bad) \in bad /\ \A i \in bad : Min(bad) <= i
    BY <1>5, <2>1, Least
  <2> DEFINE m == Min(bad)
  <2>0. m \in 1..Len(f)
    BY <1>3, <2>2
  <2> HIDE DEF m
  <2>3. /\ 1 \in Int /\ m - 1 \in Int
        /\ \A i \in 1..(m - 1) : i \in DOMAIN f /\ ~(m <= i)
    BY <1>3, <2>0
  <2>4. \A i \in 1..(m - 1) : f[i] \in ZoneLine
    BY <1>2, <2>2, <2>3 DEF m
  <2> HIDE DEF bad
  <2>5. SubSeq(f, 1, m - 1) \in Seq(ZoneLine)
    BY <2>3, <2>4, SubSeqProperties
  <2> QED
    BY <1>5, <2>5 DEF parse, bad, m
<1> QED
  BY <1>4, <1>5

\* Import and New start with nothing applied.
LEMMA StartKeeps ==
  ASSUME FormsInv, NEW list \in Seq(ZoneLine), file' = list, applying' = list,
         UNCHANGED <<webhook, style, store, ids, provider, misses>>
  PROVE  FormsInv'
<1>1. FormsTypeOK' /\ Judged' /\ OwnIds'
  BY DEF FormsInv, FormsTypeOK, StyleType, Judged, OwnIds
<1>2. Len(list) \in Nat /\ DOMAIN list = 1..Len(list)
  OBVIOUS
<1>3. Done' = 0
  BY <1>2 DEF Done
<1>4. Applied'
  BY <1>2, <1>3 DEF Applied
<1> QED
  BY <1>1, <1>4 DEF FormsInv

LEMMA ApplyKeeps ==
  ASSUME FormsInv, Apply
  PROVE  FormsInv'
<1> DEFINE rr == Head(applying)
           s == FromRR(rr)
<1>1. /\ applying \in Seq(ZoneLine) /\ applying # <<>> /\ applying' = Tail(applying)
      /\ file \in Seq(ZoneLine) /\ file' = file /\ webhook' = webhook
      /\ store' = IF ~rr.name.caps /\ Admitted(s) THEN [store EXCEPT ![NameFor(rr)] = Stored(s)] ELSE store
      /\ DOMAIN store = Objects
  BY DEF FormsInv, FormsTypeOK, Apply
<1>2. /\ rr = applying[1] /\ rr \in ZoneLine /\ Len(applying) \in Nat \ {0}
      /\ Tail(applying) \in Seq(ZoneLine) /\ Len(Tail(applying)) = Len(applying) - 1
      /\ \A k \in 1..(Len(applying) - 1) : Tail(applying)[k] = applying[k + 1]
  BY <1>1, HeadTailProperties
<1>3. Parsed(rr) /\ NameFor(rr) \in Objects /\ Schema(s)
  BY <1>2, FromRRType DEF ZoneLine
<1>4. Schema(Stored(s)) /\ (webhook /\ Admitted(s) => validate(Stored(s)))
  BY <1>3, DefaultSchema DEF Stored, Admitted
<1>5. Plain(rr) => ~rr.name.caps /\ Admitted(s) /\ Stored(s) = s
  BY <1>3, PlainStays DEF Admitted, Stored, Plain
<1> HIDE DEF rr, s
<1>6. FormsTypeOK'
  BY <1>1, <1>2, <1>3, <1>4 DEF Apply, FormsInv, FormsTypeOK, StyleType
<1>7. Judged'
  BY <1>1, <1>3, <1>4 DEF FormsInv, FormsTypeOK, Judged
<1>8. OwnIds'
  BY DEF Apply, FormsInv, OwnIds
<1>9. Applied'
  <2> SUFFICES ASSUME file # <<>> PROVE Applied'
    BY <1>1 DEF Applied
  <2>1. /\ Len(applying) <= Len(file)
        /\ \A k \in DOMAIN applying : applying[k] = file[Done + k]
        /\ \A i \in DOMAIN file : i <= Done /\ Plain(file[i]) /\ Unique(i) =>
             store[NameFor(file[i])] = FromRR(file[i])
    BY DEF FormsInv, Applied
  <2>2. /\ Len(file) \in Nat /\ DOMAIN file = 1..Len(file)
        /\ DOMAIN applying = 1..Len(applying)
        /\ DOMAIN Tail(applying) = 1..(Len(applying) - 1)
    BY <1>1, <1>2
  <2>3. Done \in Nat /\ Done + 1 \in DOMAIN file /\ Done' = Done + 1
    BY <1>1, <1>2, <2>1, <2>2 DEF Done
  <2>4. rr = file[Done + 1]
    BY <1>2, <2>1, <2>2
  <2>5. Len(applying') <= Len(file')
    BY <1>1, <1>2, <2>1, <2>2
  <2>6. ASSUME NEW k \in DOMAIN applying' PROVE applying'[k] = file'[Done' + k]
    <3>1. k \in 1..(Len(applying) - 1) /\ k + 1 \in DOMAIN applying
      BY <1>1, <1>2, <2>2
    <3>2. applying'[k] = file[Done + (k + 1)]
      BY <1>1, <1>2, <2>1, <3>1
    <3>3. Done + (k + 1) = (Done + 1) + k
      BY <2>3, <3>1
    <3> QED
      BY <1>1, <2>3, <3>2, <3>3
  <2>7. ASSUME NEW i \in DOMAIN file, i <= Done + 1, Plain(file[i]), Unique(i)
        PROVE  store'[NameFor(file[i])] = FromRR(file[i])
    <3>1. CASE i = Done + 1
      BY <1>1, <1>3, <1>5, <2>4, <2>7, <3>1 DEF s
    <3>2. CASE i # Done + 1
      <4>1. i <= Done
        BY <2>2, <2>3, <2>7, <3>2
      <4>2. NameFor(rr) # NameFor(file[i])
        BY <2>3, <2>4, <2>7, <3>2 DEF Unique
      <4>3. NameFor(file[i]) \in Objects
        BY <1>1 DEF ZoneLine
      <4> QED
        BY <1>1, <2>1, <2>7, <4>1, <4>2, <4>3
    <3> QED
      BY <3>1, <3>2
  <2>8. ASSUME NEW i \in DOMAIN file, Unique(i)' PROVE Unique(i)
    BY <1>1, <2>8 DEF Unique
  <2> QED
    BY <1>1, <2>3, <2>5, <2>6, <2>7, <2>8 DEF Applied
<1> QED
  BY <1>6, <1>7, <1>8, <1>9 DEF FormsInv

\* A record that a reconcile makes has an ID that no object and no record has.
LEMMA AppendStep ==
  ASSUME FormsInv, NEW o \in Objects, NEW old, Reconcilable(o), Append1(o, Want(o), old),
         misses' \in {misses, misses + 1}
  PROVE  FormsInv'
<1>1. FormsTypeOK
  BY DEF FormsInv
<1>2. /\ Want(o) \in ProviderRecord /\ Len(Want(o).name.labels) >= 2
  BY <1>1, WantedType DEF Reconcilable
<1>3. /\ Fresh \in Nat \ {0} /\ Fresh \notin DOMAIN provider
      /\ \A p \in Objects : ids[p] # Fresh
  BY <1>1, FreshIsNew
<1> DEFINE new == Fresh
<1> HIDE DEF new
<1>4. /\ provider' = [i \in (DOMAIN provider \ {old}) \cup {new} |->
                        IF i = new THEN Want(o) ELSE provider[i]]
      /\ ids' = [ids EXCEPT ![o] = new] \/ ids' = ids
      /\ UNCHANGED <<webhook, style, store, file, applying>>
  BY DEF Append1, new
<1>5. IsFiniteSet((DOMAIN provider \ {old}) \cup {new})
  <2>1. IsFiniteSet(DOMAIN provider \ {old})
    BY <1>1, FS_RemoveElement DEF FormsTypeOK
  <2> QED
    BY <2>1, FS_AddElement
<1>6. /\ IsFiniteSet(DOMAIN provider') /\ DOMAIN provider' \subseteq Nat \ {0}
      /\ \A i \in DOMAIN provider' :
           provider'[i] \in ProviderRecord /\ Len(provider'[i].name.labels) >= 2
  BY <1>1, <1>2, <1>3, <1>4, <1>5 DEF FormsTypeOK, new
<1>7. ids' \in [Objects -> Nat]
  BY <1>1, <1>3, <1>4 DEF FormsTypeOK, new
<1>8. FormsTypeOK'
  <2>1. misses' \in Nat
    BY <1>1 DEF FormsTypeOK
  <2> QED
    BY <1>1, <1>4, <1>6, <1>7, <2>1 DEF FormsTypeOK, StyleType
<1>9. OwnIds'
  BY <1>1, <1>3, <1>4 DEF FormsInv, FormsTypeOK, OwnIds, new
<1>10. Judged' /\ Applied'
  BY <1>4 DEF FormsInv, Judged, Applied, Done, Unique
<1> QED
  BY <1>8, <1>9, <1>10 DEF FormsInv

LEMMA FormsInvKept == FormsInv /\ [Next]_vars => FormsInv'
<1> SUFFICES ASSUME FormsInv, [Next]_vars PROVE FormsInv'
  OBVIOUS
<1>1. CASE UNCHANGED vars
  BY <1>1 DEF vars, FormsInv, FormsTypeOK, StyleType, Judged, OwnIds, Applied, Done, Unique
<1>2. ASSUME NEW o \in Written, Put(o) PROVE FormsInv'
  BY <1>2, PutKeeps
<1>3. ASSUME NEW o \in Objects, Create(o) \/ CreateBlind(o) \/ Replace(o) PROVE FormsInv'
  BY <1>3, AppendStep DEF Create, CreateBlind, Replace
<1>4. CASE Import
  BY <1>4, ParseType, StartKeeps DEF Import
<1>5. CASE New
  <2>0. PICK f \in ZoneFiles : \E rr \in ToSet(f) \ {Garbage} :
          file' = <<rr>> /\ applying' = <<rr>>
    BY <1>5 DEF New
  <2>1. PICK rr \in ToSet(f) \ {Garbage} : file' = <<rr>> /\ applying' = <<rr>>
    BY <2>0
  <2>2. rr \in ZoneLine
    BY <2>1, FormsAssumption DEF ZoneLine, Parsed
  <2>3. <<rr>> \in Seq(ZoneLine)
    BY <2>2
  <2> QED
    BY <1>5, <2>1, <2>3, StartKeeps DEF New
<1>6. CASE Apply
  BY <1>6, ApplyKeeps
<1> QED
  BY <1>1, <1>2, <1>3, <1>4, <1>5, <1>6 DEF Next

\* Behind the webhook only valid specifications are stored; two objects never
\* name the same record, however many IDs were lost; and an import leaves in
\* the store what the part of the file that is applied says.
THEOREM FormsInvariant == Spec => []FormsInv
BY FormsInvInit, FormsInvKept, PTL DEF Spec

(***************************************************************************)
(* The properties.                                                         *)
(***************************************************************************)

\* What the webhook admits, ToRR converts into a record with an absolute name
\* and target, but for a CNAME beside another type.
THEOREM AdmissionIsEnough == Spec => []AdmittedConverts
<1>1. ASSUME FormsInv, webhook, NEW o \in Objects, store[o] # Absent, ~Ambiguous(store[o])
      PROVE  /\ Wanted(o) # Error
             /\ Wanted(o).name.dot
             /\ IF Wanted(o).value = Empty THEN Type(ToRROrder, store[o]) = "Raw"
                ELSE Wanted(o).type \in TargetTypes => Wanted(o).value.dot
  <2> DEFINE s == Default(store[o])
  <2>1. Schema(store[o]) /\ validate(store[o])
    BY <1>1 DEF FormsInv, FormsTypeOK, Judged
  <2>2. Schema(s) /\ DOMAIN s = DOMAIN store[o] /\ validate(s)
    BY <2>1, DefaultSchema, DefaultValid
  <2>3. Wanted(o) = ToRR(s)
    BY <1>1 DEF Wanted
  <2> HIDE DEF s
  <2>4. ~Ambiguous(s) /\ Type(ToRROrder, s) = Type(ToRROrder, store[o])
    BY <1>1, <2>2, SameType DEF Ambiguous
  <2> QED
    BY <2>2, <2>3, <2>4, ValidConverts
<1>2. FormsInv => AdmittedConverts
  BY <1>1 DEF AdmittedConverts
<1> QED
  BY <1>2, FormsInvariant, PTL

\* What "kubectl dns import" reads of a zone file and "kubectl apply" submits
\* is what the operator reconciles, with or without the webhook.
THEOREM ImportIsFaithful == Spec => []Imported
<1>1. ASSUME FormsInv, applying = <<>>, NEW i \in DOMAIN file, Plain(file[i]), Unique(i)
      PROVE  Wanted(NameFor(file[i])) = file[i]
  <2>1. /\ file \in Seq(ZoneLine) /\ file # <<>> /\ file[i] \in ZoneLine
    BY <1>1 DEF FormsInv, FormsTypeOK
  <2>2. i <= Done
    BY <1>1, <2>1 DEF Done
  <2>3. store[NameFor(file[i])] = FromRR(file[i])
    BY <1>1, <2>1, <2>2 DEF FormsInv, Applied
  <2>4. Parsed(file[i]) /\ FromRR(file[i]) # Absent
    BY <2>1 DEF ZoneLine
  <2> QED
    BY <1>1, <2>3, <2>4, PlainStays DEF Wanted
<1>2. FormsInv => Imported
  BY <1>1 DEF Imported
<1> QED
  BY <1>2, FormsInvariant, PTL

\* The records of a listing are those that Listed names, in their own zone.
LEMMA ListedType ==
  ASSUME FormsInv, NEW z, NEW i \in Listed(z)
  PROVE  /\ i \in DOMAIN provider /\ provider[i] \in ProviderRecord
         /\ Len(provider[i].name.labels) >= 2 /\ Zone(provider[i].name) = z
         /\ StyleType
BY DEF FormsInv, FormsTypeOK, Listed

\* A reconcile that leaves a record alone, or takes it for the one it is about
\* to make, is right to do so.
THEOREM RecognitionIsRight == Spec => []Recognised
<1>1. ASSUME FormsInv, NEW o \in Objects, Reconcilable(o),
             NEW i \in Listed(Zone(Wanted(o).name))
      PROVE  LET z == Zone(Wanted(o).name)
             IN  /\ UpToDate(i, Want(o), z) => provider[i] = Want(o) \/ Unstable(provider[i])
                 /\ Exists(i, Want(o), z) =>
                      SameButTtl(provider[i], Want(o)) \/ Disguised(provider[i])
  <2> DEFINE z == Zone(Wanted(o).name)
  <2>1. /\ provider[i] \in ProviderRecord /\ Len(provider[i].name.labels) >= 2
        /\ Zone(provider[i].name) = z /\ StyleType
    BY <1>1, ListedType
  <2>2. Want(o) \in ProviderRecord
    BY <1>1, WantedType DEF Reconcilable, FormsInv
  <2>3. UpToDate(i, Want(o), z) => provider[i] = Want(o) \/ Unstable(provider[i])
    BY <2>1, RoundTrip DEF UpToDate
  <2>4. Exists(i, Want(o), z) <=> Seen(provider[i], Want(o), z)
    BY DEF Exists, Seen
  <2>5. Exists(i, Want(o), z) => SameButTtl(provider[i], Want(o)) \/ Disguised(provider[i])
    BY <2>1, <2>2, <2>4, ExistsCompares
  <2> QED
    BY <2>3, <2>5
<1>2. FormsInv => Recognised
  BY <1>1 DEF Recognised
<1> QED
  BY <1>2, FormsInvariant, PTL

\* A record goes only in a Replace of the object that names it, which finds
\* it different from what it asks for.
LEMMA NoChurnStep ==
  ASSUME FormsInv, [Next]_vars, NEW i \in DOMAIN provider \ DOMAIN provider',
         NEW o \in Objects, ids[o] = i, Want(o) = provider[i]
  PROVE  Unstable(provider[i])
<1>1. provider' # provider
  OBVIOUS
<1>2. PICK p \in Objects : Create(p) \/ CreateBlind(p) \/ Replace(p)
  BY <1>1 DEF Next, vars, Put, Import, New, Apply
<1>3. 0 \notin DOMAIN provider /\ i # 0
  BY DEF FormsInv, FormsTypeOK
<1>4. ~Create(p) /\ ~CreateBlind(p)
  <2> SUFFICES ASSUME Create(p) \/ CreateBlind(p) PROVE FALSE
    OBVIOUS
  <2>1. DOMAIN provider' = (DOMAIN provider \ {0}) \cup {Fresh}
    BY DEF Create, CreateBlind, Append1
  <2> QED
    BY <1>3, <2>1
<1>5. Replace(p)
  BY <1>2, <1>4
<1>6. DOMAIN provider' = (DOMAIN provider \ {ids[p]}) \cup {Fresh}
  BY <1>5 DEF Replace, Append1
<1>7. p = o
  BY <1>3, <1>6 DEF FormsInv, OwnIds
<1> DEFINE z == Zone(Wanted(o).name)
<1>8. i \in Listed(z) /\ ~UpToDate(i, Want(o), z)
  BY <1>5, <1>7 DEF Replace
<1>9. /\ provider[i] \in ProviderRecord /\ Len(provider[i].name.labels) >= 2
      /\ Zone(provider[i].name) = z /\ StyleType
  BY <1>8, ListedType
<1> QED
  BY <1>8, <1>9, RoundTrip DEF UpToDate

\* However the provider spells its listing, no reconcile deletes and makes
\* again a stable record that is as its object asks for.
THEOREM RecordsAreNotChurned == Spec => NoChurn
<1>1. FormsInv /\ [Next]_vars =>
        [\A i \in DOMAIN provider \ DOMAIN provider' : \A o \in Objects :
           ids[o] = i => Want(o) # provider[i] \/ Unstable(provider[i])]_vars
  BY NoChurnStep
<1> QED
  BY <1>1, FormsInvariant, PTL DEF Spec, NoChurn

\* A record that is added without another one going is one that the check
\* for existing records did not find.
LEMMA NeverTwiceStep ==
  ASSUME FormsInv, [Next]_vars, DOMAIN provider \subseteq DOMAIN provider', misses' = misses,
         NEW i \in DOMAIN provider' \ DOMAIN provider, NEW j \in DOMAIN provider,
         SameButTtl(provider[j], provider'[i])
  PROVE  Disguised(provider[j])
<1>1. provider' # provider
  OBVIOUS
<1>2. PICK o \in Objects : Create(o) \/ Replace(o)
  <2>1. PICK o \in Objects : Create(o) \/ CreateBlind(o) \/ Replace(o)
    BY <1>1 DEF Next, vars, Put, Import, New, Apply
  <2>2. ~CreateBlind(o)
    BY DEF CreateBlind, FormsInv, FormsTypeOK
  <2> QED
    BY <2>1, <2>2
<1>3. Fresh \notin DOMAIN provider
  BY FreshIsNew DEF FormsInv
<1>4. ~Replace(o)
  <2> SUFFICES ASSUME Replace(o) PROVE FALSE
    OBVIOUS
  <2>1. ids[o] \in DOMAIN provider
    BY DEF Replace, Listed
  <2>2. DOMAIN provider' = (DOMAIN provider \ {ids[o]}) \cup {Fresh}
    BY DEF Replace, Append1
  <2> QED
    BY <1>3, <2>1, <2>2
<1> DEFINE z == Zone(Wanted(o).name)
           w == Want(o)
<1>5. /\ Reconcilable(o) /\ \A k \in Listed(z) : ~Exists(k, w, z)
      /\ provider' = [k \in (DOMAIN provider \ {0}) \cup {Fresh} |->
                        IF k = Fresh THEN w ELSE provider[k]]
  BY <1>2, <1>4 DEF Create, Append1
<1>6. provider'[i] = w
  BY <1>5
<1>7. w \in ProviderRecord /\ w.name = Wanted(o).name
  BY <1>5, WantedType DEF Reconcilable, FormsInv
<1>8. provider[j] \in ProviderRecord /\ Len(provider[j].name.labels) >= 2 /\ StyleType
  BY DEF FormsInv, FormsTypeOK
<1>9. provider[j].name = w.name
  <2>1. /\ [provider[j] EXCEPT !.ttl = 0].name = provider[j].name
        /\ [w EXCEPT !.ttl = 0].name = w.name
    BY <1>7, <1>8 DEF ProviderRecord
  <2> QED
    BY <1>6, <2>1 DEF SameButTtl
<1>10. j \in Listed(z) /\ Zone(provider[j].name) = z
  BY <1>7, <1>9 DEF Listed
<1>11. ~Seen(provider[j], w, z)
  BY <1>5, <1>10 DEF Exists, Seen
<1> HIDE DEF w, z
<1> QED
  BY <1>6, <1>7, <1>8, <1>10, <1>11, ExistsCompares

\* A record whose ID was lost is not made a second time, unless the listing
\* disguises it or fails.
THEOREM RecordsAreMadeOnce == Spec => NeverTwice
<1>1. FormsInv /\ [Next]_vars =>
        [DOMAIN provider \subseteq DOMAIN provider' /\ misses' = misses =>
           \A i \in DOMAIN provider' \ DOMAIN provider : \A j \in DOMAIN provider :
             SameButTtl(provider[j], provider'[i]) => Disguised(provider[j])]_vars
  BY NeverTwiceStep
<1> QED
  BY <1>1, FormsInvariant, PTL DEF Spec, NeverTwice
=============================================================================
