---------------------------- MODULE MCRecordForms ----------------------------
(* Instances of RecordForms for TLC. *)
EXTENDS RecordForms, TLC

www == <<"www", "example", "org">>
srv == <<"_sip", "example", "org">>
sip == <<"sip", "example", "org">>
twice == <<"www", "example", "org", "example", "org">>
apex == <<"example", "org">>
ext == <<"mail", "other", "net">>
bare == <<"localhost">>

MCObjectName == (www :> "www") @@ (srv :> "sip") @@ (sip :> "sip") @@ (apex :> "apex")

MCWritten == {<<"www">>}

MCObjects == MCWritten \cup {<<"apex", "MX">>, <<"sip", "NS">>}

MCAddresses == {Text(<<"192.0.2.1">>, FALSE)}

FieldsFor(name, ttl, num, value) ==
  [name |-> name, class |-> 0, ttl |-> ttl, num |-> num, value |-> value]

Capitals(labels) == [Text(labels, FALSE) EXCEPT !.caps = TRUE]
Quoted(text) == [Text(<<text>>, FALSE) EXCEPT !.quoted = TRUE]

One(t, fields) == t :> fields

\* Specifications of every type: absolute, relative and capital spellings,
\* targets inside and outside the zone, invalid and unset values, several
\* types at once.
MCSubmissions ==
  {One("A", FieldsFor(n, 0, 0, Text(<<"192.0.2.1">>, FALSE))) :
     n \in {Capitals(www), Text(bare, FALSE), Text(twice, TRUE)}}
  \cup {One("A", FieldsFor(Text(www, FALSE), 60, 0, Text(<<a>>, FALSE))) :
          a \in {"192.0.2.1", "300.0.2.1"}}
  \cup {One("CNAME", FieldsFor(Text(www, FALSE), 0, 0, v)) :
          v \in {Text(ext, TRUE), Capitals(sip), Empty}}
  \cup {One("MX", FieldsFor(Text(apex, FALSE), 60, 5, Text(ext, FALSE))),
        One("MX", FieldsFor(Text(apex, FALSE), 60, 0, Text(sip, FALSE)))}
  \cup {One("SRV", FieldsFor(Text(srv, TRUE), 60, 0, Text(sip, FALSE)))}
  \cup {One("TXT", FieldsFor(Text(www, FALSE), 60, 0, v)) :
          v \in {Text(<<"hello">>, FALSE), Quoted("hello"), Empty}}
  \cup {One("Raw", Garbage),
        One("Raw", RR("MX", [FieldsFor(Text(apex, TRUE), 60, 0, Empty) EXCEPT !.class = 1])),
        One("Raw", RR("NS", [FieldsFor(Text(apex, TRUE), 60, 0, Text(sip, TRUE))
                               EXCEPT !.class = 1])),
        One("Raw", RR("CAA", [FieldsFor(Text(apex, TRUE), 60, 0, Text(<<"issue">>, FALSE))
                                EXCEPT !.class = 1]))}
  \cup {One("CNAME", FieldsFor(Text(www, FALSE), 60, 0, Text(sip, TRUE))) @@
        One(t, FieldsFor(Text(www, FALSE), 60, 0, Empty)) : t \in {"A", "TXT"}}
  \cup {<<>>}

Line(t, labels, num, value) ==
  RR(t, [FieldsFor(Text(labels, TRUE), 60, num, value) EXCEPT !.class = 1])

\* A zone file with two NS records that share an object name, and one with a
\* line that does not parse.
MCZoneFiles ==
  {<<Line("NS", srv, 0, Text(www, TRUE)),
     Line("NS", sip, 0, Text(ext, TRUE))>>,
   <<Line("MX", apex, 5, Text(ext, TRUE)),
     Garbage,
     Line("A", www, 0, Text(<<"192.0.2.1">>, FALSE))>>}

\* The listing shows records as they were sent, or changes all it can: each
\* change is about a field of its own.
MCStyles == {[relative |-> b, dotless |-> b, quotes |-> b] : b \in BOOLEAN}
=============================================================================
