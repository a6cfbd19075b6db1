-------------------------- MODULE FinalizersProofs --------------------------
(***************************************************************************)
(* Proofs about Finalizers: whose finalizers a deletion waits for          *)
(* (OthersWaitedFor) and when the doubling of the list ends                *)
(* (DoublingEnds), for any number of controllers and any size of request.  *)
(***************************************************************************)
EXTENDS Finalizers, FiniteSetTheorems, SequenceTheorems, TLAPS

(***************************************************************************)
(* Lists.                                                                  *)
(***************************************************************************)

\* The new list shows the places of the old one that do not hold f, each once
\* and in order.
Filters(new, list, f) ==
  \E g \in [DOMAIN new -> {i \in DOMAIN list : list[i] # f}] :
    /\ \A k \in DOMAIN new : new[k] = list[g[k]]
    /\ \A k, l \in DOMAIN new : k < l => g[k] < g[l]
    /\ \A i \in DOMAIN list : list[i] # f => \E k \in DOMAIN new : g[k] = i

LEMMA WithoutFilters ==
  ASSUME NEW S, NEW list \in Seq(S), NEW f
  PROVE  Without(list, f) \in Seq(S) /\ Filters(Without(list, f), list, f)
<1> DEFINE keep == {i \in DOMAIN list : list[i] # f}
           n == Cardinality(keep)
           Below(i) == {j \in keep : j <= i}
           rank == [i \in keep |-> Cardinality(Below(i))]
           g == [k \in 1..n |-> CHOOSE i \in keep : Cardinality(Below(i)) = k]
<1>1. keep \subseteq 1..Len(list) /\ Len(list) \in Nat
  OBVIOUS
<1>2. IsFiniteSet(1..Len(list))
  BY <1>1, FS_Interval
<1>3. IsFiniteSet(keep)
  BY <1>1, <1>2, FS_Subset
<1>4. n \in Nat
  BY <1>3, FS_CardinalityType
<1>5. ASSUME NEW i \in keep
      PROVE  IsFiniteSet(Below(i)) /\ Cardinality(Below(i)) \in 1..n
  <2>1. Below(i) \in SUBSET keep /\ i \in Below(i)
    BY <1>1
  <2>2. IsFiniteSet(Below(i)) /\ Cardinality(Below(i)) <= n
    BY <1>3, <2>1, FS_Subset
  <2>3. Cardinality(Below(i)) \in Nat /\ Cardinality(Below(i)) # 0
    BY <2>1, <2>2, FS_CardinalityType, FS_EmptySet
  <2> QED
    BY <1>4, <2>2, <2>3
<1>6. ASSUME NEW i \in keep, NEW j \in keep, i < j
      PROVE  Cardinality(Below(i)) < Cardinality(Below(j))
  <2>1. Below(i) \in SUBSET Below(j) /\ j \in Below(j) /\ j \notin Below(i)
    BY <1>1, <1>6
  <2>2. /\ Cardinality(Below(i)) <= Cardinality(Below(j))
        /\ Cardinality(Below(i)) # Cardinality(Below(j))
    BY <1>5, <2>1, FS_Subset
  <2>3. Cardinality(Below(i)) \in 1..n /\ Cardinality(Below(j)) \in 1..n
    BY <1>5
  <2> HIDE DEF Below
  <2> QED
    BY <1>4, <2>2, <2>3
<1>7. rank \in Injection(keep, 1..n)
  <2>1. rank \in [keep -> 1..n]
    BY <1>5
  <2>2. ASSUME NEW i \in keep, NEW j \in keep, rank[i] = rank[j] PROVE i = j
    <3>1. i < j \/ j < i \/ i = j
      BY <1>1
    <3>2. /\ Cardinality(Below(i)) \in 1..n /\ Cardinality(Below(j)) \in 1..n
          /\ Cardinality(Below(i)) = Cardinality(Below(j))
      BY <1>5, <2>2
    <3> HIDE DEF Below
    <3> QED
      BY <1>4, <1>6, <3>1, <3>2
  <2> QED
    BY <2>1, <2>2 DEF Injection, IsInjective
<1>8. IsFiniteSet(1..n) /\ Cardinality(1..n) = n
  BY <1>4, FS_Interval
<1>9. rank \in Surjection(keep, 1..n)
  BY <1>7, <1>8, FS_Injection
<1>10. ASSUME NEW k \in 1..n PROVE g[k] \in keep /\ Cardinality(Below(g[k])) = k
  BY <1>9, <1>10 DEF Surjection
<1>11. /\ DOMAIN Without(list, f) = 1..n
       /\ \A k \in 1..n : Without(list, f)[k] = list[g[k]]
  BY DEF Without
<1>12. \A k, l \in 1..n : k < l => g[k] < g[l]
  <2> SUFFICES ASSUME NEW k \in 1..n, NEW l \in 1..n, k < l, ~(g[k] < g[l]) PROVE FALSE
    OBVIOUS
  <2>0. g[k] \in keep /\ g[l] \in keep
    BY <1>10
  <2> HIDE DEF g, Below
  <2>1. g[l] < g[k] \/ g[l] = g[k]
    BY <1>1, <2>0
  <2> QED
    BY <1>4, <1>6, <1>10, <2>0, <2>1
<1>13. ASSUME NEW i \in keep PROVE \E k \in 1..n : g[k] = i
  <2>1. rank[i] \in 1..n /\ Cardinality(Below(i)) = rank[i]
    BY <1>5
  <2>2. g[rank[i]] \in keep /\ Cardinality(Below(g[rank[i]])) = Cardinality(Below(i))
    BY <1>10, <2>1
  <2>3. g[rank[i]] = i
    BY <1>7, <2>2 DEF Injection, IsInjective
  <2> QED
    BY <2>1, <2>3
<1>14. Without(list, f) \in Seq(S)
  <2>1. Without(list, f) = [k \in 1..n |-> list[g[k]]]
    BY DEF Without
  <2>2. \A k \in 1..n : list[g[k]] \in S
    <3> SUFFICES ASSUME NEW k \in 1..n PROVE list[g[k]] \in S
      OBVIOUS
    <3>1. g[k] \in keep
      BY <1>10
    <3> HIDE DEF g
    <3> QED
      BY <1>1, <3>1
  <2> HIDE DEF g, n
  <2> QED
    BY <1>4, <2>1, <2>2
<1>15. g \in [1..n -> keep]
  BY <1>10
<1>16. \E h \in [DOMAIN Without(list, f) -> keep] :
         /\ \A k \in DOMAIN Without(list, f) : Without(list, f)[k] = list[h[k]]
         /\ \A k, l \in DOMAIN Without(list, f) : k < l => h[k] < h[l]
         /\ \A i \in keep : \E k \in DOMAIN Without(list, f) : h[k] = i
  <2> HIDE DEF g, n, keep
  <2>1. g \in [DOMAIN Without(list, f) -> keep]
    BY <1>11, <1>15
  <2> USE <2>1
  <2> WITNESS g \in [DOMAIN Without(list, f) -> keep]
  <2> QED
    BY <1>11, <1>12, <1>13
<1> QED
  BY <1>14, <1>16 DEF Filters

\* What removeFinalizer makes of a list that has the controller's finalizer
\* once: nothing if it is alone, and otherwise a list that starts with it and
\* goes on with what stood behind it.
LEMMA Rewritten ==
  ASSUME NEW S, NEW list \in Seq(S), NEW p \in DOMAIN list,
         \A i \in DOMAIN list : list[i] = RecordFinalizer <=> i = p
  PROVE  LET new == removeFinalizer(list)
         IN  \/ Len(list) = 1 /\ new = <<>>
             \/ /\ new \in Seq(S) /\ 1 \in DOMAIN new /\ new[1] = RecordFinalizer
                /\ \A k \in DOMAIN new \ {1} :
                     \E i \in DOMAIN list : p < i /\ new[k] = list[i]
                /\ \A i \in DOMAIN list :
                     p < i => \E k \in DOMAIN new \ {1} : new[k] = list[i]
<1> DEFINE n == Len(list)
           new == removeFinalizer(list)
<1>1. n \in Nat /\ p \in 1..n /\ DOMAIN list = 1..n
  OBVIOUS
<1>2. Place(list) = p
  <2>1. {i \in DOMAIN list : list[i] = RecordFinalizer} = {p}
    OBVIOUS
  <2>2. Min({p}) = p
    BY <1>1 DEF Min
  <2> QED
    BY <2>1, <2>2 DEF Place
<1>3. CASE n = 1
  BY <1>3 DEF removeFinalizer
<1>4. CASE n # 1
  <2> DEFINE a == SubSeq(list, p, n)
             b == SubSeq(list, p + 1, n)
  <2>1. new = a \o b
    BY <1>2, <1>4 DEF removeFinalizer
  <2>2. /\ a \in Seq(S) /\ Len(a) = n - p + 1
        /\ \A k \in 1..(n - p + 1) : a[k] = list[p + k - 1]
    BY <1>1
  <2>3. /\ b \in Seq(S) /\ Len(b) = n - p
        /\ \A k \in 1..(n - p) : b[k] = list[p + k]
    <3>1. p + 1 \in Int /\ n \in Int /\ \A i \in (p + 1)..n : list[i] \in S
      BY <1>1
    <3>2. /\ b \in Seq(S) /\ Len(b) = IF p + 1 <= n THEN n - (p + 1) + 1 ELSE 0
          /\ \A k \in 1..(n - (p + 1) + 1) : b[k] = list[(p + 1) + k - 1]
      BY <3>1, SubSeqProperties
    <3> HIDE DEF b
    <3>3. n - (p + 1) + 1 = n - p /\ \A k \in 1..(n - p) : (p + 1) + k - 1 = p + k
      BY <1>1
    <3> QED
      BY <1>1, <3>2, <3>3
  <2> HIDE DEF a, b, new
  <2>4. /\ new \in Seq(S) /\ DOMAIN new = 1..((n - p + 1) + (n - p))
        /\ \A k \in 1..(n - p + 1) : new[k] = a[k]
        /\ \A k \in 1..((n - p + 1) + (n - p)) : k > n - p + 1 => new[k] = b[k - (n - p + 1)]
    BY <1>1, <2>1, <2>2, <2>3
  <2>5. 1 \in DOMAIN new /\ new[1] = RecordFinalizer
    <3>1. 1 \in 1..(n - p + 1) /\ p + 1 - 1 = p /\ 1 \in 1..((n - p + 1) + (n - p))
      BY <1>1
    <3>2. new[1] = list[p]
      BY <2>2, <2>4, <3>1
    <3> QED
      BY <2>4, <3>1, <3>2
  <2>6. ASSUME NEW k \in DOMAIN new \ {1}
        PROVE  \E i \in DOMAIN list : p < i /\ new[k] = list[i]
    <3>1. CASE k <= n - p + 1
      <4>1. p + k - 1 \in 1..n /\ p < p + k - 1 /\ new[k] = list[p + k - 1]
        BY <1>1, <2>2, <2>4, <3>1
      <4> QED
        BY <1>1, <4>1
    <3>2. CASE k > n - p + 1
      <4> DEFINE j == k - (n - p + 1)
      <4>1. j \in 1..(n - p) /\ new[k] = b[j]
        BY <1>1, <2>4, <3>2
      <4>2. p + j \in 1..n /\ p < p + j /\ new[k] = list[p + j]
        BY <1>1, <2>3, <4>1
      <4> QED
        BY <1>1, <4>2
    <3> QED
      BY <1>1, <2>4, <3>1, <3>2
  <2>7. ASSUME NEW i \in DOMAIN list, p < i
        PROVE  \E k \in DOMAIN new \ {1} : new[k] = list[i]
    <3>1. i - p + 1 \in 1..(n - p + 1) /\ i - p + 1 # 1 /\ p + (i - p + 1) - 1 = i
      BY <1>1, <2>7
    <3>2. new[i - p + 1] = list[i] /\ i - p + 1 \in DOMAIN new
      BY <1>1, <2>2, <2>4, <3>1
    <3> QED
      BY <3>1, <3>2
  <2> QED
    BY <2>4, <2>5, <2>6, <2>7 DEF new
<1> QED
  BY <1>3, <1>4

(***************************************************************************)
(* The invariant.  A list that was rewritten starts with the controller's  *)
(* own finalizer and may hold the others any number of times, but only     *)
(* those that stood behind it when the deletion came and are still to be   *)
(* taken off.                                                              *)
(***************************************************************************)
Finalizer == Others \cup {RecordFinalizer}

FinTypeOK ==
  /\ exists \in BOOLEAN /\ deleting \in BOOLEAN
  /\ finalizers \in Seq(Finalizer) /\ carried \in Seq(Finalizer)
  /\ released \subseteq Others

\* Before the deletion nobody sets a finalizer twice.
OnceEach == ~deleting => IsInjective(finalizers) /\ released = {}

OwnOnce ==
  \A i, j \in DOMAIN finalizers :
    finalizers[i] = RecordFinalizer /\ finalizers[j] = RecordFinalizer => i = j

Repeated == \E i, j \in DOMAIN finalizers : i # j /\ finalizers[i] = finalizers[j]

OwnFirst == Repeated => finalizers[1] = RecordFinalizer

\* The finalizers on the list were there when the deletion came, on the same
\* side of the controller's own.
Pending ==
  deleting => \A i \in DOMAIN finalizers : finalizers[i] # RecordFinalizer =>
    /\ finalizers[i] \in ToSet(carried) \ released
    /\ \A j \in DOMAIN finalizers : finalizers[j] = RecordFinalizer =>
         (i < j <=> Ahead(finalizers[i]))

Waiting ==
  deleting =>
    \A f \in ToSet(carried) \ {RecordFinalizer} : f \in released \/ Ahead(f) \/ Has(f)

GoneEmpty == ~exists => deleting /\ finalizers = <<>>

ListInv ==
  FinTypeOK /\ OnceEach /\ OwnOnce /\ OwnFirst /\ Pending /\ Waiting /\ GoneEmpty

LEMMA ListInvInit == Init => ListInv
<1> SUFFICES ASSUME Init PROVE ListInv
  OBVIOUS
<1>1. PICK T \in SUBSET Others : finalizers \in SetToSeqs(T)
  BY DEF Init, SetToAllKPermutations
<1>2. Cardinality(T) \in Nat
  BY FinalizersAssumption, FS_Subset, FS_CardinalityType
<1>3. /\ finalizers \in Seq(Others)
      /\ \A i, j \in DOMAIN finalizers : i # j => finalizers[i] # finalizers[j]
  BY <1>1, <1>2 DEF SetToSeqs
<1>4. FinTypeOK
  <2>1. Seq(Others) \subseteq Seq(Finalizer) /\ <<>> \in Seq(Finalizer)
    BY DEF Finalizer
  <2> QED
    BY <1>3, <2>1 DEF Init, FinTypeOK
<1> QED
  BY <1>3, <1>4 DEF Init, ListInv, OnceEach, OwnOnce, OwnFirst, Repeated, Pending, Waiting,
                    GoneEmpty, IsInjective

\* Before the deletion a finalizer that is not on the list is appended.
LEMMA AppendKeeps ==
  ASSUME ListInv, NEW f \in Finalizer, exists, ~deleting, ~Has(f),
         Store(Append(finalizers, f)), UNCHANGED <<carried, released>>
  PROVE  ListInv'
<1> DEFINE list == Append(finalizers, f)
<1>1. finalizers \in Seq(Finalizer) /\ IsInjective(finalizers)
  BY DEF ListInv, FinTypeOK, OnceEach
<1>2. /\ list \in Seq(Finalizer) /\ DOMAIN list = 1..(Len(finalizers) + 1)
      /\ \A i \in 1..Len(finalizers) : list[i] = finalizers[i]
      /\ list[Len(finalizers) + 1] = f
  BY <1>1
<1>3. \A i \in 1..Len(finalizers) : finalizers[i] # f
  BY <1>1 DEF Has, ToSet
<1> HIDE DEF list
<1>4. \A i, j \in DOMAIN list : list[i] = list[j] => i = j
  BY <1>1, <1>2, <1>3 DEF IsInjective
<1>5. finalizers' = list /\ deleting' = deleting /\ exists' = TRUE
  BY DEF Store, list
<1> QED
  BY <1>2, <1>4, <1>5 DEF ListInv, FinTypeOK, OnceEach, OwnOnce, OwnFirst, Repeated,
       Pending, Waiting, GoneEmpty, IsInjective

LEMMA DeleteKeeps ==
  ASSUME ListInv, Delete
  PROVE  ListInv'
<1>1. finalizers \in Seq(Finalizer) /\ IsInjective(finalizers) /\ released = {}
  BY DEF ListInv, FinTypeOK, OnceEach, Delete
<1>2. PICK list \in Seq(Finalizer) :
        /\ \A i, j \in DOMAIN list : list[i] = list[j] => i = j
        /\ finalizers' = list /\ carried' = list /\ deleting' = TRUE
        /\ exists' = (list # <<>>)
  <2>1. PICK added \in {<<>>} \cup {<<f>> : f \in Others \ ToSet(finalizers)} :
          LET list == finalizers \o added
          IN  /\ finalizers' = list /\ carried' = list /\ deleting' = TRUE
              /\ exists' = (list # <<>>)
    BY DEF Delete
  <2>2. CASE added = <<>>
    <3>1. finalizers \o added = finalizers
      BY <1>1, <2>2
    <3> QED
      BY <1>1, <2>1, <3>1 DEF IsInjective
  <2>3. ASSUME NEW f \in Others \ ToSet(finalizers), added = <<f>>
        PROVE  /\ finalizers \o added \in Seq(Finalizer)
               /\ \A i, j \in DOMAIN (finalizers \o added) :
                    (finalizers \o added)[i] = (finalizers \o added)[j] => i = j
    <3> DEFINE list == finalizers \o added
    <3>1. /\ list \in Seq(Finalizer) /\ DOMAIN list = 1..(Len(finalizers) + 1)
          /\ \A i \in 1..Len(finalizers) : list[i] = finalizers[i]
          /\ list[Len(finalizers) + 1] = f
      BY <1>1, <2>3 DEF Finalizer
    <3>2. \A i \in 1..Len(finalizers) : finalizers[i] # f
      BY <1>1 DEF ToSet
    <3> HIDE DEF list
    <3>3. \A i, j \in DOMAIN list : list[i] = list[j] => i = j
      BY <1>1, <3>1, <3>2 DEF IsInjective
    <3> QED
      BY <3>1, <3>3 DEF list
  <2> QED
    BY <2>1, <2>2, <2>3
<1>3. FinTypeOK' /\ OnceEach' /\ OwnOnce' /\ OwnFirst' /\ GoneEmpty'
  BY <1>1, <1>2 DEF Delete, ListInv, FinTypeOK, OnceEach, OwnOnce, OwnFirst, Repeated,
       GoneEmpty
<1>4. Pending'
  <2> SUFFICES ASSUME NEW i \in DOMAIN list, list[i] # RecordFinalizer
               PROVE  /\ list[i] \in ToSet(list)
                      /\ \A j \in DOMAIN list : list[j] = RecordFinalizer =>
                           (i < j <=> Ahead(list[i])')
    BY <1>1, <1>2 DEF Pending, Delete
  <2>1. list[i] \in ToSet(list)
    BY DEF ToSet
  <2>2. ASSUME NEW j \in DOMAIN list, list[j] = RecordFinalizer
        PROVE  i < j <=> Ahead(list[i])'
    BY <1>2, <2>2 DEF Ahead
  <2> QED
    BY <2>1, <2>2
<1>5. Waiting'
  BY <1>2 DEF Waiting, Has
<1> QED
  BY <1>3, <1>4, <1>5 DEF ListInv

LEMMA ReleaseKeeps ==
  ASSUME ListInv, NEW f \in Others, Release(f)
  PROVE  ListInv'
<1> DEFINE list == Without(finalizers, f)
<1>1. finalizers \in Seq(Finalizer) /\ deleting /\ f # RecordFinalizer
  BY FinalizersAssumption DEF ListInv, FinTypeOK, Release
<1>2. list \in Seq(Finalizer)
  BY <1>1, WithoutFilters
<1>3. PICK g \in [DOMAIN list -> {i \in DOMAIN finalizers : finalizers[i] # f}] :
        /\ \A k \in DOMAIN list : list[k] = finalizers[g[k]]
        /\ \A k, l \in DOMAIN list : k < l => g[k] < g[l]
        /\ \A i \in DOMAIN finalizers : finalizers[i] # f => \E k \in DOMAIN list : g[k] = i
  <2>1. Filters(list, finalizers, f)
    BY <1>1, WithoutFilters
  <2> HIDE DEF list
  <2> QED
    BY <2>1 DEF Filters
<1>4. /\ finalizers' = list /\ deleting' = TRUE /\ carried' = carried
      /\ exists' = (list # <<>>) /\ released' = released \cup {f}
  BY <1>1 DEF Release, Store
<1> HIDE DEF list
<1>5. /\ DOMAIN list = 1..Len(list) /\ Len(list) \in Nat
      /\ DOMAIN finalizers = 1..Len(finalizers) /\ Len(finalizers) \in Nat
      /\ \A k \in DOMAIN list : g[k] \in DOMAIN finalizers /\ list[k] # f
  BY <1>1, <1>2, <1>3
<1>6. \A k, l \in DOMAIN list : (k < l <=> g[k] < g[l]) /\ (k = l <=> g[k] = g[l])
  <2> SUFFICES ASSUME NEW k \in DOMAIN list, NEW l \in DOMAIN list
               PROVE  (k < l <=> g[k] < g[l]) /\ (k = l <=> g[k] = g[l])
    OBVIOUS
  <2>1. (k < l => g[k] < g[l]) /\ (l < k => g[l] < g[k])
    BY <1>3
  <2>2. k \in Nat /\ l \in Nat /\ g[k] \in Nat /\ g[l] \in Nat
    BY <1>5
  <2> QED
    BY <2>1, <2>2
<1>7. FinTypeOK' /\ OnceEach' /\ GoneEmpty'
  BY <1>2, <1>4 DEF ListInv, FinTypeOK, OnceEach, GoneEmpty
<1>8. OwnOnce'
  <2> SUFFICES ASSUME NEW i \in DOMAIN list, NEW j \in DOMAIN list,
                      list[i] = RecordFinalizer, list[j] = RecordFinalizer
               PROVE  i = j
    BY <1>4 DEF OwnOnce
  <2>1. g[i] = g[j]
    BY <1>3, <1>5 DEF ListInv, OwnOnce
  <2> QED
    BY <1>6, <2>1
<1>9. OwnFirst'
  <2> SUFFICES ASSUME NEW i \in DOMAIN list, NEW j \in DOMAIN list, i # j, list[i] = list[j]
               PROVE  list[1] = RecordFinalizer
    BY <1>4 DEF OwnFirst, Repeated
  <2>1. g[i] # g[j] /\ finalizers[g[i]] = finalizers[g[j]]
    BY <1>3, <1>6
  <2>2. finalizers[1] = RecordFinalizer /\ 1 \in DOMAIN finalizers
    BY <1>5, <2>1 DEF ListInv, OwnFirst, Repeated
  <2>3. PICK k \in DOMAIN list : g[k] = 1
    BY <1>1, <1>3, <2>2
  <2>4. 1 \in DOMAIN list /\ ~(1 < k)
    BY <1>5, <1>6, <2>3
  <2>5. k = 1
    BY <1>5, <2>4
  <2> QED
    BY <1>3, <2>2, <2>3, <2>5
<1>10. Pending'
  <2> SUFFICES ASSUME NEW i \in DOMAIN list, list[i] # RecordFinalizer
               PROVE  /\ list[i] \in ToSet(carried) \ (released \cup {f})
                      /\ \A j \in DOMAIN list : list[j] = RecordFinalizer =>
                           (i < j <=> Ahead(list[i]))
    BY <1>4 DEF Pending, Ahead
  <2>1. /\ finalizers[g[i]] \in ToSet(carried) \ released
        /\ \A j \in DOMAIN finalizers : finalizers[j] = RecordFinalizer =>
             (g[i] < j <=> Ahead(finalizers[g[i]]))
    BY <1>1, <1>3, <1>5 DEF ListInv, Pending
  <2> QED
    BY <1>3, <1>5, <1>6, <2>1
<1>11. Waiting'
  <2> SUFFICES ASSUME NEW h \in ToSet(carried) \ {RecordFinalizer}, h # f, Has(h)
               PROVE  h \in ToSet(list)
    BY <1>1, <1>4 DEF ListInv, Waiting, Ahead, Has
  <2>1. PICK i \in DOMAIN finalizers : finalizers[i] = h
    BY DEF Has, ToSet
  <2>2. PICK k \in DOMAIN list : g[k] = i
    BY <1>3, <2>1
  <2> QED
    BY <1>3, <2>1, <2>2 DEF ToSet
<1> QED
  BY <1>7, <1>8, <1>9, <1>10, <1>11 DEF ListInv

LEMMA RemoveKeeps ==
  ASSUME ListInv, RemoveFinalizer
  PROVE  ListInv'
<1> DEFINE list == removeFinalizer(finalizers)
<1>1. finalizers \in Seq(Finalizer) /\ deleting
  BY DEF ListInv, FinTypeOK, RemoveFinalizer
<1>2. PICK p \in DOMAIN finalizers : finalizers[p] = RecordFinalizer
  BY DEF RemoveFinalizer, Has, ToSet
<1>3. \A i \in DOMAIN finalizers : finalizers[i] = RecordFinalizer <=> i = p
  BY <1>2 DEF ListInv, OwnOnce
<1>4. /\ finalizers' = list /\ deleting' = TRUE /\ carried' = carried
      /\ exists' = (list # <<>>) /\ released' = released
  BY <1>1 DEF RemoveFinalizer, Store
<1>5. \/ Len(finalizers) = 1 /\ list = <<>>
      \/ /\ list \in Seq(Finalizer) /\ 1 \in DOMAIN list /\ list[1] = RecordFinalizer
         /\ \A k \in DOMAIN list \ {1} :
              \E i \in DOMAIN finalizers : p < i /\ list[k] = finalizers[i]
         /\ \A i \in DOMAIN finalizers :
              p < i => \E k \in DOMAIN list \ {1} : list[k] = finalizers[i]
  BY <1>1, <1>3, Rewritten
<1> HIDE DEF list
<1>6. /\ list \in Seq(Finalizer)
      /\ DOMAIN finalizers = 1..Len(finalizers) /\ Len(finalizers) \in Nat
      /\ DOMAIN list = 1..Len(list) /\ Len(list) \in Nat
  <2>1. <<>> \in Seq(Finalizer)
    OBVIOUS
  <2>2. list \in Seq(Finalizer)
    BY <1>5, <2>1
  <2> QED
    BY <1>1, <2>2
\* Behind the first place stands what stood behind the controller's finalizer.
<1>7. ASSUME NEW k \in DOMAIN list, k # 1
      PROVE  /\ list[k] # RecordFinalizer
             /\ list[k] \in ToSet(carried) \ released /\ ~Ahead(list[k])
  <2>1. PICK i \in DOMAIN finalizers : p < i /\ list[k] = finalizers[i]
    BY <1>5, <1>7
  <2>2. i # p /\ ~(i < p)
    BY <1>6, <2>1
  <2> QED
    BY <1>1, <1>2, <1>3, <2>1, <2>2 DEF ListInv, Pending
<1>8. \A k \in DOMAIN list : list[1] = RecordFinalizer
  BY <1>5
<1>9. FinTypeOK' /\ OnceEach' /\ GoneEmpty'
  BY <1>4, <1>6 DEF ListInv, FinTypeOK, OnceEach, GoneEmpty
<1>10. OwnOnce' /\ OwnFirst'
  BY <1>4, <1>7, <1>8 DEF OwnOnce, OwnFirst, Repeated
<1>11. Pending'
  <2> SUFFICES ASSUME NEW i \in DOMAIN list, list[i] # RecordFinalizer
               PROVE  /\ list[i] \in ToSet(carried) \ released
                      /\ \A j \in DOMAIN list : list[j] = RecordFinalizer =>
                           (i < j <=> Ahead(list[i]))
    BY <1>4 DEF Pending, Ahead
  <2>1. i # 1 /\ \A j \in DOMAIN list : list[j] = RecordFinalizer => j = 1
    BY <1>7, <1>8
  <2>2. ~(i < 1)
    BY <1>6
  <2> QED
    BY <1>7, <2>1, <2>2
<1>12. Waiting'
  <2> SUFFICES ASSUME NEW h \in ToSet(carried) \ {RecordFinalizer}, ~Ahead(h), Has(h)
               PROVE  h \in ToSet(list)
    BY <1>1, <1>4 DEF ListInv, Waiting, Ahead, Has
  <2>1. PICK i \in DOMAIN finalizers : finalizers[i] = h
    BY DEF Has, ToSet
  <2>2. i # p /\ ~(i < p)
    BY <1>1, <1>2, <2>1 DEF ListInv, Pending
  <2>3. p < i /\ Len(finalizers) # 1
    BY <1>6, <2>2
  <2>4. PICK k \in DOMAIN list : list[k] = h
    BY <1>5, <2>1, <2>3
  <2> QED
    BY <2>4 DEF ToSet
<1> QED
  BY <1>9, <1>10, <1>11, <1>12 DEF ListInv

LEMMA ListInvKept == ListInv /\ [Next]_vars => ListInv'
<1> SUFFICES ASSUME ListInv, [Next]_vars PROVE ListInv'
  OBVIOUS
<1>1. CASE UNCHANGED vars
  BY <1>1 DEF vars, ListInv, FinTypeOK, OnceEach, OwnOnce, OwnFirst, Repeated, Pending,
              Waiting, GoneEmpty, Has, Ahead
<1>2. CASE SetFinalizer
  BY <1>2, AppendKeeps DEF SetFinalizer, Finalizer
<1>3. CASE RemoveFinalizer
  BY <1>3, RemoveKeeps
<1>4. CASE Delete
  BY <1>4, DeleteKeeps
<1>5. ASSUME NEW f \in Others, Protect(f) PROVE ListInv'
  BY <1>5, AppendKeeps DEF Protect, Finalizer
<1>6. ASSUME NEW f \in Others, Release(f) PROVE ListInv'
  BY <1>6, ReleaseKeeps
<1> QED
  BY <1>1, <1>2, <1>3, <1>4, <1>5, <1>6 DEF Next

\* However often removeFinalizer has rewritten the list of a deleted object,
\* the finalizers on it were there when the deletion came and are still to be
\* taken off, and the controller's own is there at most once.
THEOREM ListsWellFormed == Spec => []ListInv
BY ListInvInit, ListInvKept, PTL DEF Spec

\* The object does not go before every controller behind the DNSRecord
\* controller in the list has taken off its finalizer.
THEOREM DeletionWaits == Spec => []OthersWaitedFor
<1>1. ListInv => OthersWaitedFor
  BY DEF ListInv, GoneEmpty, Waiting, OthersWaitedFor, Has, ToSet
<1> QED
  BY <1>1, ListsWellFormed, PTL

\* A list holds something twice only while a finalizer behind the
\* controller's own is still to be taken off.
THEOREM DoublingIsBounded == Spec => []DoublingEnds
<1>1. ASSUME ListInv, NEW i \in DOMAIN finalizers, NEW j \in DOMAIN finalizers,
             i # j, finalizers[i] = finalizers[j]
      PROVE  \E f \in ToSet(carried) \ (released \cup {RecordFinalizer}) : Has(f) /\ ~Ahead(f)
  <2>1. deleting /\ finalizers \in Seq(Finalizer)
    BY <1>1 DEF ListInv, OnceEach, IsInjective, FinTypeOK
  <2>2. finalizers[1] = RecordFinalizer /\ 1 \in DOMAIN finalizers
    BY <1>1, <2>1 DEF ListInv, OwnFirst, Repeated
  <2>3. finalizers[i] # RecordFinalizer
    BY <1>1 DEF ListInv, OwnOnce
  <2>4. ~(i < 1)
    BY <2>1
  <2>5. finalizers[i] \in ToSet(carried) \ released /\ ~Ahead(finalizers[i])
    BY <1>1, <2>1, <2>2, <2>3, <2>4 DEF ListInv, Pending
  <2> QED
    BY <2>3, <2>5 DEF Has, ToSet
<1>2. ListInv => DoublingEnds
  BY <1>1 DEF DoublingEnds
<1> QED
  BY <1>2, ListsWellFormed, PTL
=============================================================================
