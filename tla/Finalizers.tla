----------------------------- MODULE Finalizers -----------------------------
(***************************************************************************)
(* The list of finalizers of one DNSRecord.  The DNSRecord controller puts *)
(* its own there and takes it off once the record is gone from the         *)
(* provider; other controllers (the garbage collector with its finalizer   *)
(* for foreground deletion is one of them) do the same with theirs.        *)
(*                                                                         *)
(* DNSRecordReconciler has one flag for the controller's own finalizer;    *)
(* here the list is spelled out, because removeFinalizer rebuilds it from  *)
(* slices.  A write of a stale copy is refused, so reading and writing the *)
(* list is one step.                                                       *)
(***************************************************************************)
EXTENDS Naturals, Sequences, FiniteSets, SequencesExt

CONSTANTS
  RecordFinalizer,  \* the controller's own finalizer
  Others,           \* finalizers of other controllers
  MaxLength         \* bound: longest list that a request may carry

ASSUME FinalizersAssumption ==
  /\ RecordFinalizer \notin Others
  /\ IsFiniteSet(Others)
  /\ MaxLength \in Nat \ {0}

VARIABLES
  exists,      \* is the DNSRecord in the API server?
  deleting,    \* does it have a deletion timestamp?
  finalizers,  \* its list of finalizers
  carried,     \* ghost: that list when the deletion was requested
  released     \* ghost: finalizers that their own controllers took off since

vars == <<exists, deleting, finalizers, carried, released>>

\* An object as a user creates it, with any finalizers of others.
Init ==
  /\ exists = TRUE
  /\ deleting = FALSE
  /\ finalizers \in SetToAllKPermutations(Others)
  /\ carried = <<>>
  /\ released = {}

Has(f) == f \in ToSet(finalizers)

\* The API server stores the list; a deleted object goes with its last one.
Store(list) ==
  /\ finalizers' = list
  /\ exists' = ~(deleting /\ list = <<>>)
  /\ UNCHANGED deleting

SetFinalizer ==
  /\ exists /\ ~deleting
  /\ ~Has(RecordFinalizer)
  /\ Store(Append(finalizers, RecordFinalizer))
  /\ UNCHANGED <<carried, released>>

\* The list without f: the k-th element stands at the k-th place that is kept.
Without(list, f) ==
  LET keep == {i \in DOMAIN list : list[i] # f}
  IN  [k \in 1..Cardinality(keep) |->
         list[CHOOSE i \in keep : Cardinality({j \in keep : j <= i}) = k]]

\* Another controller sets its finalizer ...
Protect(f) ==
  /\ exists /\ ~deleting
  /\ ~Has(f)
  /\ Store(Append(finalizers, f))
  /\ UNCHANGED <<carried, released>>

\* ... and takes it off, all of its occurrences, when it has cleaned up.
Release(f) ==
  /\ exists /\ deleting
  /\ Has(f)
  /\ Store(Without(finalizers, f))
  /\ released' = released \cup {f}
  /\ UNCHANGED carried

\* A user deletes the object; foreground deletion adds a finalizer.
Delete ==
  /\ exists /\ ~deleting
  /\ \E added \in {<<>>} \cup {<<f>> : f \in Others \ ToSet(finalizers)} :
       LET list == finalizers \o added
       IN  /\ finalizers' = list
           /\ carried' = list
           /\ deleting' = TRUE
           /\ exists' = (list # <<>>)
  /\ UNCHANGED released

\* The place of the controller's own finalizer, the first if there are several.
Place(list) == Min({i \in DOMAIN list : list[i] = RecordFinalizer})

\* Mutant: the only finalizer is not a case of its own.
removeFinalizerSlices(list) ==
  LET i == Place(list)
  IN  SubSeq(list, i, Len(list)) \o SubSeq(list, i + 1, Len(list))

\* Mutant: everything goes.
removeFinalizerNil(list) == <<>>

\* Mutant: the second slice starts one place too early.
removeFinalizerTwice(list) ==
  LET i == Place(list)
  IN  IF Len(list) = 1 THEN <<>>
      ELSE SubSeq(list, i, Len(list)) \o SubSeq(list, i, Len(list))

\* removeFinalizer: from the controller's finalizer on, and then once more
\* what follows it.  The head of the list is lost, the rest is doubled.
removeFinalizer(list) ==
  LET i == Place(list)
  IN  IF Len(list) = 1 THEN <<>>
      ELSE SubSeq(list, i, Len(list)) \o SubSeq(list, i + 1, Len(list))

\* The record is gone from the provider and the status says so: the list is
\* rewritten.  The API server refuses a request that is too large.
RemoveFinalizer ==
  /\ exists /\ deleting
  /\ Has(RecordFinalizer)
  /\ Len(removeFinalizer(finalizers)) <= MaxLength
  /\ Store(removeFinalizer(finalizers))
  /\ UNCHANGED <<carried, released>>

Next ==
  \/ SetFinalizer
  \/ RemoveFinalizer
  \/ Delete
  \/ \E f \in Others : Protect(f) \/ Release(f)

Spec == Init /\ [][Next]_vars

\* The DNSRecord is reconciled after every change of it and retried after
\* every error; each of the other controllers takes its finalizer off in the
\* end.
FairSpec ==
  /\ Spec
  /\ WF_vars(RemoveFinalizer)
  /\ \A f \in Others : WF_vars(Release(f))

-----------------------------------------------------------------------------
(***************************************************************************)
(* Properties.                                                             *)
(***************************************************************************)

\* f stood before the controller's own finalizer when the deletion came.
Ahead(f) ==
  \E i, j \in DOMAIN carried : i < j /\ carried[i] = f /\ carried[j] = RecordFinalizer

\* A finalizer of another controller keeps the object until that controller
\* takes it off, although removeFinalizer rewrites the whole list, time and
\* again.  The exception are the ones ahead of the controller's own, which
\* the slice expression cuts off (dnsrecord_controller.go:239).
OthersWaitedFor ==
  ~exists => \A f \in ToSet(carried) \ {RecordFinalizer} : f \in released \/ Ahead(f)

\* The list holds something twice only while another controller has yet to
\* take off a finalizer behind the controller's own: the doubling, up to the
\* size of a request, ends with it.
DoublingEnds ==
  (\E i, j \in DOMAIN finalizers : i # j /\ finalizers[i] = finalizers[j]) =>
    \E f \in ToSet(carried) \ (released \cup {RecordFinalizer}) : Has(f) /\ ~Ahead(f)

\* "so that the controller can remove the finializers from the resources"
\* (README.md:210): a deleted DNSRecord is gone in the end, whatever other
\* finalizers it carries, however often the list was doubled and even if a
\* doubled list no longer fits into a request.
Completes == deleting ~> ~exists
=============================================================================
