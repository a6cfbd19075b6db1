--------------------------- MODULE RecordOwnership ---------------------------
(***************************************************************************)
(* What the DNSRecord controller promises about the records it makes at    *)
(* DNS providers, without saying how: caches, queues, versions, zones and  *)
(* the calls of a reconcile are left out.  DNSRecordReconciler implements  *)
(* this specification.                                                     *)
(*                                                                         *)
(* An object enrols before its first record is made and withdraws when it  *)
(* holds none.  A record is first known to the running reconcile only      *)
(* (pending), then to the stored status (named).  A record leaves either   *)
(* state by being deleted or by being lost, and a lost record is never     *)
(* found again except to be deleted.                                       *)
(***************************************************************************)
EXTENDS Naturals

CONSTANTS
  Objects,    \* keys of the DNSRecords
  Surrenders  \* may an object withdraw and leave its record behind?

VARIABLES
  enrolled,  \* objects that cannot disappear without the controller
  named,     \* named[o]: the record that the status of o names, if any
  pending,   \* pending[o]: the record that a reconcile of o has made
  lost,      \* records that nobody knows of any more
  next       \* the ID of the next record

vars == <<enrolled, named, pending, lost, next>>

Init ==
  /\ enrolled = {}
  /\ named = [o \in Objects |-> {}]
  /\ pending = [o \in Objects |-> {}]
  /\ lost = {}
  /\ next \in Nat

Enroll(o) ==
  /\ o \notin enrolled
  /\ enrolled' = enrolled \cup {o}
  /\ UNCHANGED <<named, pending, lost, next>>

\* A record is made; "known" if the ID gets back to the controller.
Make(o, known) ==
  /\ o \in enrolled
  /\ pending[o] = {}
  /\ next' = next + 1
  /\ IF known
     THEN pending' = [pending EXCEPT ![o] = {next}] /\ UNCHANGED lost
     ELSE lost' = lost \cup {next} /\ UNCHANGED pending
  /\ UNCHANGED <<enrolled, named>>

Commit(o) ==
  /\ named[o] = {}
  /\ pending[o] # {}
  /\ named' = [named EXCEPT ![o] = pending[o]]
  /\ pending' = [pending EXCEPT ![o] = {}]
  /\ UNCHANGED <<enrolled, lost, next>>

\* Refused writes lose what the reconcile of one object has made, a crash what
\* all of them have.
Mislay(O) ==
  /\ lost' = lost \cup UNION {pending[o] : o \in O}
  /\ pending' = [o \in Objects |-> IF o \in O THEN {} ELSE pending[o]]
  /\ UNCHANGED <<enrolled, named, next>>

\* The named record is missing from a listing.
Forget(o) ==
  /\ lost' = lost \cup named[o]
  /\ named' = [named EXCEPT ![o] = {}]
  /\ UNCHANGED <<enrolled, pending, next>>

Delete(o) ==
  /\ named' = [named EXCEPT ![o] = {}]
  /\ UNCHANGED <<enrolled, pending, lost, next>>

Recover(id) ==
  /\ lost' = lost \ {id}
  /\ UNCHANGED <<enrolled, named, pending, next>>

Withdraw(o) ==
  /\ pending[o] = {}
  /\ named[o] = {} \/ Surrenders
  /\ enrolled' = enrolled \ {o}
  /\ lost' = lost \cup named[o]
  /\ named' = [named EXCEPT ![o] = {}]
  /\ UNCHANGED <<pending, next>>

Next ==
  \/ \E o \in Objects :
       \/ Enroll(o) \/ Commit(o) \/ Forget(o) \/ Delete(o) \/ Withdraw(o)
       \/ \E known \in BOOLEAN : Make(o, known)
  \/ \E O \in SUBSET Objects : Mislay(O)
  \/ \E id \in lost : Recover(id)

Spec == Init /\ [][Next]_vars
=============================================================================
