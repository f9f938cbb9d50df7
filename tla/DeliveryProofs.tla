---------------------------- MODULE DeliveryProofs ----------------------------
(***************************************************************************)
(* Proofs about LocalBuffer, for every number of flushing threads, every   *)
(* limit and any bound MaxId, and about Delivery, which uses the buffer by *)
(* its own operations, for every set of services and flushes.              *)
(***************************************************************************)
EXTENDS Delivery, FiniteSetTheorems, WellFoundedInduction, TLAPS

-----------------------------------------------------------------------------
(* Ids seen anywhere were assigned by an insert. *)
Assigned ==
    /\ rows \cup published \cup pruned \subseteq 1..(nextId - 1)
    /\ \A f \in Flushers : todo[f] \subseteq 1..(nextId - 1)

(* A batch was read as a prefix of the table: what is older than a row of  *)
(* the batch is in the batch, or was dealt with.                           *)
BatchIsPrefix ==
    \A f \in Flushers : \A k \in todo[f] : \A j \in 1..(k - 1) :
        j \in todo[f] \cup published \cup pruned

(* The row to be deleted has been handed over. *)
DeletePublished ==
    \A f \in Flushers, k \in Ids :
        pc[f] = "delete" /\ IsFirst(k, todo[f]) => k \in published

(* With one flush at a time, a row of its batch that was handed over       *)
(* before had its DELETE lost.                                             *)
BatchIsFresh ==
    \A f \in Flushers : \A k \in todo[f] \cap published :
        \/ k \in orphaned
        \/ Flushers # {f}
        \/ pc[f] = "delete" /\ IsFirst(k, todo[f])

Ordered == Assigned /\ NoLoss /\ HandedOverInOrder /\ BatchIsPrefix

IInv == TypeOK /\ Ordered /\ DeletePublished

-----------------------------------------------------------------------------
LEMMA IdsFinite ==
    ASSUME NEW S \in SUBSET Ids
    PROVE  S \subseteq Nat /\ IsFiniteSet(S) /\ Cardinality(S) \in Nat
  <1>1. IsFiniteSet(1..MaxId)
    BY BoundAssumption, FS_Interval
  <1>2. IsFiniteSet(S)
    BY <1>1, FS_Subset DEF Ids
  <1>3. S \subseteq Nat
    BY BoundAssumption DEF Ids
  <1> QED
    BY <1>2, <1>3, FS_CardinalityType

(* LIMIT takes a prefix of the table. *)
LEMMA OldestIsPrefix ==
    ASSUME NEW S \in SUBSET Ids, NEW n \in Nat,
           NEW k \in Oldest(S, n), NEW j \in S, j < k
    PROVE  j \in Oldest(S, n)
  <1> DEFINE Below(x) == {y \in S : y < x}
  <1>1. k \in S /\ Cardinality(Below(k)) < n
    BY DEF Oldest
  <1>2. IsFiniteSet(S) /\ S \subseteq Nat
    BY IdsFinite
  <1>3. IsFiniteSet(Below(k))
    BY <1>2, FS_Subset
  <1>4. Below(j) \in SUBSET Below(k)
    <2>1. ASSUME NEW y \in S, y < j PROVE y < k
      BY <1>1, <1>2, <2>1
    <2> QED
      BY <2>1
  <1>5. Cardinality(Below(j)) <= Cardinality(Below(k)) /\ IsFiniteSet(Below(j))
    BY <1>3, <1>4, FS_Subset
  <1>6. Cardinality(Below(j)) \in Nat /\ Cardinality(Below(k)) \in Nat
    BY <1>3, <1>5, FS_CardinalityType
  <1>7. Cardinality(Below(j)) < n
    BY <1>1, <1>5, <1>6
  <1> QED
    BY <1>7 DEF Oldest

LEMMA OldestSubset ==
    ASSUME NEW S, NEW n
    PROVE  Oldest(S, n) \subseteq S
  BY DEF Oldest

(* LIMIT n takes n rows when there are that many. *)
LEMMA OldestIsLarge ==
    ASSUME NEW S \in SUBSET Ids, NEW n \in Nat, Oldest(S, n) # S
    PROVE  n <= Cardinality(Oldest(S, n))
  <1> DEFINE Below(x) == {y \in S : y < x}
             T == S \ Oldest(S, n)
  <1>1. T \subseteq Nat /\ T # {}
    BY IdsFinite DEF Oldest
  <1>2. PICK x \in T : \A y \in T : ~(<<y, x>> \in OpToRel(<, Nat))
    <2>1. IsWellFoundedOn(OpToRel(<, Nat), Nat)
      BY NatLessThanWellFounded
    <2> HIDE DEF T
    <2> QED
      BY <1>1, <2>1, WFMin
  <1>3. \A y \in T : ~(y < x)
    BY <1>1, <1>2 DEF OpToRel
  <1>4. Below(x) \subseteq Oldest(S, n)
    BY <1>3
  <1>5. IsFiniteSet(S)
    BY IdsFinite
  <1>6. IsFiniteSet(Oldest(S, n))
    BY <1>5, OldestSubset, FS_Subset
  <1>7. Cardinality(Below(x)) <= Cardinality(Oldest(S, n)) /\ IsFiniteSet(Below(x))
    BY <1>4, <1>6, FS_Subset
  <1>8. Cardinality(Below(x)) \in Nat /\ Cardinality(Oldest(S, n)) \in Nat
    BY <1>6, <1>7, FS_CardinalityType
  <1>9. ~(Cardinality(Below(x)) < n)
    BY DEF Oldest
  <1> QED
    BY <1>7, <1>8, <1>9

(* Pruning makes room for the insert that follows. *)
LEMMA ExcessMakesRoom ==
    ASSUME NEW S \in SUBSET Ids
    PROVE  /\ IsFiniteSet(S \ Excess(S))
           /\ Cardinality(S \ Excess(S)) \in Nat
           /\ Cardinality(S \ Excess(S)) < MaxMessages
  <1> DEFINE c == Cardinality(S)
             n == c - MaxMessages + PruneExtra
  <1>1. IsFiniteSet(S) /\ c \in Nat
    BY IdsFinite
  <1>2. IsFiniteSet(S \ Excess(S)) /\ Cardinality(S \ Excess(S)) \in Nat
    BY <1>1, FS_Difference, FS_CardinalityType
  <1>3. CASE c >= MaxMessages
    <2>1. Excess(S) = Oldest(S, n) /\ n \in Nat /\ n > c - MaxMessages
      BY <1>1, <1>3, LimitAssumption DEF Excess
    <2>2. CASE Oldest(S, n) = S
      BY <1>1, <2>1, <2>2, LimitAssumption, FS_EmptySet
    <2>3. CASE Oldest(S, n) # S
      <3>1. S \cap Excess(S) = Oldest(S, n)
        BY <2>1, OldestSubset
      <3>2. Cardinality(S \ Excess(S)) = c - Cardinality(Oldest(S, n))
        BY <1>1, <3>1, FS_Difference
      <3>3. n <= Cardinality(Oldest(S, n))
        BY <2>1, <2>3, OldestIsLarge
      <3>4. Cardinality(Oldest(S, n)) \in Nat
        BY <1>1, OldestSubset, FS_Subset, FS_CardinalityType
      <3>5. Cardinality(S \ Excess(S)) < MaxMessages
        <4> HIDE DEF n, c
        <4> QED
          BY <1>1, <2>1, <3>2, <3>3, <3>4, LimitAssumption
      <3> QED
        BY <1>2, <3>5
    <2> QED
      BY <2>2, <2>3
  <1>4. CASE ~(c >= MaxMessages)
    BY <1>1, <1>4, LimitAssumption DEF Excess
  <1> QED
    BY <1>2, <1>3, <1>4
-----------------------------------------------------------------------------
(* What the four statements may do to the table. *)
LEMMA StatementTypes ==
    ASSUME TypeOK
    PROVE  /\ \A P \in PruneOutcomes : P \subseteq rows
           /\ Excess(rows) \subseteq rows
           /\ \A I \in InsertOutcomes : I = {} \/ I = {nextId}
           /\ \A B \in FetchOutcomes : \E n \in Nat : B = Oldest(rows, n)
           /\ \A k : \A D \in DeleteOutcomes(k) : D \subseteq {k}
  <1>1. Excess(rows) \subseteq rows
    BY OldestSubset DEF Excess
  <1>2. \A P \in PruneOutcomes : P \subseteq rows
    BY <1>1 DEF PruneOutcomes
  <1>3. \A B \in FetchOutcomes : \E n \in Nat : B = Oldest(rows, n)
    BY LimitAssumption DEF FetchOutcomes
  <1> QED
    BY <1>1, <1>2, <1>3 DEF InsertOutcomes, DeleteOutcomes

(* Every variable keeps its type; a flush has a batch exactly while it     *)
(* publishes and deletes.                                                  *)
THEOREM TypeCorrect == Spec => []TypeOK
  <1>1. Init => TypeOK
    BY BoundAssumption DEF Init, TypeOK, Ids
  <1>2. TypeOK /\ [Next]_bufferVars => TypeOK'
    <2> SUFFICES ASSUME TypeOK, [Next]_bufferVars PROVE TypeOK'
      OBVIOUS
    <2> USE DEF TypeOK
    <2>1. CASE Store
      <3>1. PICK P \in PruneOutcomes, I \in InsertOutcomes :
                /\ rows' = (rows \ P) \cup I
                /\ pruned' = pruned \cup P
                /\ nextId' = IF I = {} THEN nextId ELSE nextId + 1
        BY <2>1 DEF Store
      <3>2. nextId <= MaxId /\ UNCHANGED <<pc, todo, published, orphaned>>
        BY <2>1 DEF Store
      <3>3. P \subseteq rows /\ (I = {} \/ I = {nextId})
        BY StatementTypes
      <3>4. nextId \in Ids
        BY <3>2, BoundAssumption DEF Ids
      <3>5. rows' \subseteq Ids /\ pruned' \subseteq Ids
        BY <3>1, <3>3, <3>4
      <3>6. nextId' \in 1..(MaxId + 1)
        BY <3>1, <3>2, BoundAssumption
      <3> QED
        BY <3>2, <3>5, <3>6
    <2>2. CASE Crash
      <3>1. rows' \subseteq Ids /\ pruned' \subseteq Ids
        BY <2>2, StatementTypes DEF Crash
      <3>2. orphaned' \subseteq Ids
        BY <2>2 DEF Crash, InDoubt
      <3> QED
        BY <2>2, <3>1, <3>2 DEF Crash
    <2>3. ASSUME NEW f \in Flushers, StartFlush(f) PROVE TypeOK'
      BY <2>3 DEF StartFlush
    <2>4. ASSUME NEW f \in Flushers, Fetch(f) PROVE TypeOK'
      <3>1. PICK B \in FetchOutcomes :
                /\ todo' = [todo EXCEPT ![f] = B]
                /\ pc' = [pc EXCEPT ![f] = IF B = {} THEN "idle" ELSE "publish"]
        BY <2>4 DEF Fetch
      <3>2. B \subseteq Ids
        BY StatementTypes, OldestSubset
      <3> QED
        BY <2>4, <3>1, <3>2 DEF Fetch
    <2>5. ASSUME NEW f \in Flushers, PublishOk(f) PROVE TypeOK'
      BY <2>5 DEF PublishOk
    <2>6. ASSUME NEW f \in Flushers, PublishFail(f) PROVE TypeOK'
      BY <2>6 DEF PublishFail
    <2>7. ASSUME NEW f \in Flushers, Delete(f) PROVE TypeOK'
      <3>1. PICK k \in todo[f] :
                /\ \E D \in DeleteOutcomes(k) :
                    /\ rows' = rows \ D
                    /\ orphaned' = orphaned \cup ({k} \ D)
        BY <2>7 DEF Delete, AfterRow
      <3>2. PICK k2 \in todo[f] :
                /\ todo' = [todo EXCEPT ![f] = @ \ {k2}]
                /\ pc' = [pc EXCEPT ![f] =
                             IF todo[f] = {k2} THEN "fetch" ELSE "publish"]
        BY <2>7 DEF Delete, AfterRow
      <3>3. rows' \subseteq Ids /\ orphaned' \subseteq Ids
        BY <3>1
      <3>4. pc' \in [Flushers -> {"idle", "fetch", "publish", "delete"}]
            /\ todo' \in [Flushers -> SUBSET Ids]
        BY <3>2
      <3>5. \A g \in Flushers : todo'[g] = {} <=> pc'[g] \in {"idle", "fetch"}
        BY <2>7, <3>2 DEF Delete, AfterRow
      <3> QED
        BY <2>7, <3>3, <3>4, <3>5 DEF Delete, AfterRow
    <2>8. CASE UNCHANGED bufferVars
      BY <2>8 DEF bufferVars
    <2> QED
      BY <2>1, <2>2, <2>3, <2>4, <2>5, <2>6, <2>7, <2>8 DEF Next, FlushStep
  <1> QED
    BY <1>1, <1>2, PTL DEF Spec
-----------------------------------------------------------------------------
(* A step on the table shared by Store and Crash: P pruned, I inserted. *)
LEMMA PruneKeepsOrdered ==
    ASSUME TypeOK, Ordered,
           NEW P, P \subseteq rows, NEW I, I \in {{}, {nextId}},
           rows' = (rows \ P) \cup I,
           pruned' = pruned \cup P,
           nextId' = IF I = {} THEN nextId ELSE nextId + 1,
           published' = published
    PROVE  /\ rows' \cup published' \cup pruned' \subseteq 1..(nextId' - 1)
           /\ 1..(nextId - 1) \subseteq 1..(nextId' - 1)
           /\ NoLoss'
           /\ HandedOverInOrder'
  <1>1. nextId \in Nat /\ nextId >= 1
    BY BoundAssumption DEF TypeOK
  <1>2. nextId' \in {nextId, nextId + 1} /\ (I # {} => nextId' = nextId + 1)
    OBVIOUS
  <1>3. 1..(nextId - 1) \subseteq 1..(nextId' - 1)
    BY <1>1, <1>2
  <1>4. I \subseteq 1..(nextId' - 1)
    BY <1>1, <1>2
  <1>5. rows' \cup published' \cup pruned' \subseteq 1..(nextId' - 1)
    BY <1>3, <1>4 DEF Ordered, Assigned
  <1>6. NoLoss'
    <2> SUFFICES ASSUME NEW j \in Ids, j < nextId'
                 PROVE  j \in rows' \cup published' \cup pruned'
      BY DEF NoLoss, Ids
    <2>1. CASE j < nextId
      BY <2>1 DEF Ordered, NoLoss
    <2>2. CASE ~(j < nextId)
      BY <1>1, <1>2, <2>2, BoundAssumption DEF Ids
    <2> QED
      BY <2>1, <2>2
  <1>7. HandedOverInOrder'
    BY DEF Ordered, HandedOverInOrder
  <1> QED
    BY <1>3, <1>5, <1>6, <1>7

LEMMA OrderedInit == Init => Ordered /\ DeletePublished
  <1> SUFFICES ASSUME Init PROVE Ordered /\ DeletePublished
    OBVIOUS
  <1>1. Assigned /\ HandedOverInOrder /\ BatchIsPrefix /\ DeletePublished
    BY DEF Init, Assigned, HandedOverInOrder, BatchIsPrefix, DeletePublished
  <1>2. NoLoss
    BY BoundAssumption DEF Init, NoLoss, Ids
  <1> QED
    BY <1>1, <1>2 DEF Ordered

LEMMA OrderedStore == IInv /\ Store => Ordered'
  <1> SUFFICES ASSUME IInv, Store PROVE Ordered'
    OBVIOUS
  <1>1. PICK P \in PruneOutcomes, I \in InsertOutcomes :
            /\ rows' = (rows \ P) \cup I
            /\ pruned' = pruned \cup P
            /\ nextId' = IF I = {} THEN nextId ELSE nextId + 1
    BY DEF Store
  <1>2. P \subseteq rows /\ I \in {{}, {nextId}}
    BY StatementTypes DEF IInv
  <1>3. UNCHANGED <<pc, todo, published, orphaned>>
    BY DEF Store
  <1>4. /\ rows' \cup published' \cup pruned' \subseteq 1..(nextId' - 1)
        /\ 1..(nextId - 1) \subseteq 1..(nextId' - 1)
        /\ NoLoss'
        /\ HandedOverInOrder'
    BY <1>1, <1>2, <1>3, PruneKeepsOrdered DEF IInv
  <1>5. Assigned'
    BY <1>3, <1>4 DEF IInv, Ordered, Assigned
  <1>6. BatchIsPrefix'
    BY <1>1, <1>3 DEF IInv, Ordered, BatchIsPrefix
  <1> QED
    BY <1>4, <1>5, <1>6 DEF Ordered

LEMMA OrderedCrash == IInv /\ Crash => Ordered'
  <1> SUFFICES ASSUME IInv, Crash PROVE Ordered'
    OBVIOUS
  <1>1. PICK P \in {{}, Excess(rows)} : rows' = rows \ P /\ pruned' = pruned \cup P
    BY DEF Crash
  <1>2. P \subseteq rows
    BY <1>1, StatementTypes DEF IInv
  <1>3. nextId' = nextId /\ published' = published /\ todo' = [f \in Flushers |-> {}]
    BY DEF Crash
  <1>4. rows' = (rows \ P) \cup {} /\ nextId' = IF {} = {} THEN nextId ELSE nextId + 1
    BY <1>1, <1>3
  <1>5. /\ rows' \cup published' \cup pruned' \subseteq 1..(nextId' - 1)
        /\ NoLoss'
        /\ HandedOverInOrder'
    BY <1>1, <1>2, <1>3, <1>4, PruneKeepsOrdered DEF IInv
  <1>6. Assigned' /\ BatchIsPrefix'
    BY <1>3, <1>5 DEF Assigned, BatchIsPrefix
  <1> QED
    BY <1>5, <1>6 DEF Ordered

LEMMA OrderedFetch ==
    ASSUME IInv, NEW f \in Flushers, Fetch(f)
    PROVE  Ordered'
  <1>1. PICK B \in FetchOutcomes : todo' = [todo EXCEPT ![f] = B]
    BY DEF Fetch
  <1>2. PICK n \in Nat : B = Oldest(rows, n)
    BY StatementTypes DEF IInv
  <1>3. UNCHANGED <<rows, nextId, published, pruned>>
    BY DEF Fetch
  <1>4. todo'[f] = Oldest(rows, n) /\ \A g \in Flushers \ {f} : todo'[g] = todo[g]
    BY <1>1, <1>2 DEF IInv, TypeOK
  <1>5. Assigned'
    <2>1. Oldest(rows, n) \subseteq 1..(nextId - 1)
      BY OldestSubset DEF IInv, Ordered, Assigned
    <2> QED
      BY <1>3, <1>4, <2>1 DEF IInv, Ordered, Assigned
  <1>6. ASSUME NEW k \in Oldest(rows, n), NEW j \in 1..(k - 1)
        PROVE  j \in Oldest(rows, n) \cup published \cup pruned
    <2>1. k \in rows /\ rows \subseteq Ids /\ k \in 1..(nextId - 1)
      BY OldestSubset DEF IInv, TypeOK, Ordered, Assigned
    <2>2. k \in Nat /\ j \in Ids /\ j < k /\ j < nextId
      BY <2>1, BoundAssumption DEF Ids, IInv, TypeOK
    <2>3. j \in rows \cup published \cup pruned
      BY <2>2 DEF IInv, Ordered, NoLoss
    <2> QED
      BY <2>1, <2>2, <2>3, OldestIsPrefix
  <1>7. BatchIsPrefix'
    BY <1>3, <1>4, <1>6 DEF IInv, Ordered, BatchIsPrefix
  <1> QED
    BY <1>3, <1>5, <1>7 DEF IInv, Ordered, NoLoss, HandedOverInOrder

LEMMA OrderedPublishOk ==
    ASSUME IInv, NEW f \in Flushers, PublishOk(f)
    PROVE  Ordered'
  <1>1. PICK k \in todo[f] : IsFirst(k, todo[f]) /\ published' = published \cup {k}
    BY DEF PublishOk
  <1>2. UNCHANGED <<rows, nextId, todo, pruned>>
    BY DEF PublishOk
  <1>3. Assigned' /\ NoLoss' /\ BatchIsPrefix'
    BY <1>1, <1>2 DEF IInv, Ordered, Assigned, NoLoss, BatchIsPrefix
  <1>4. todo[f] \subseteq Nat
    BY IdsFinite DEF IInv, TypeOK
  <1>5. ASSUME NEW j \in 1..(k - 1) PROVE j \in published' \cup pruned'
    <2>1. j \notin todo[f]
      BY <1>1, <1>4 DEF IsFirst
    <2> QED
      BY <1>1, <1>2, <2>1 DEF IInv, Ordered, BatchIsPrefix
  <1>6. HandedOverInOrder'
    BY <1>1, <1>2, <1>5 DEF IInv, Ordered, HandedOverInOrder
  <1> QED
    BY <1>3, <1>6 DEF Ordered

LEMMA OrderedDelete ==
    ASSUME IInv, NEW f \in Flushers, Delete(f)
    PROVE  Ordered'
  <1>1. PICK k \in todo[f] :
            /\ IsFirst(k, todo[f])
            /\ \E D \in DeleteOutcomes(k) : rows' = rows \ D
            /\ todo' = [todo EXCEPT ![f] = @ \ {k}]
    <2>1. \A k, i \in todo[f] : IsFirst(k, todo[f]) /\ IsFirst(i, todo[f]) => k = i
      BY IdsFinite DEF IsFirst, IInv, TypeOK
    <2> QED
      BY <2>1 DEF Delete, AfterRow
  <1>2. UNCHANGED <<nextId, published, pruned>> /\ pc[f] = "delete"
    BY DEF Delete, AfterRow
  <1>3. k \in published
    BY <1>1, <1>2 DEF IInv, DeletePublished, TypeOK
  <1>4. rows' \subseteq rows /\ rows \subseteq rows' \cup published
    BY <1>1, <1>3, StatementTypes DEF IInv
  <1>5. todo'[f] = todo[f] \ {k} /\ \A g \in Flushers \ {f} : todo'[g] = todo[g]
    BY <1>1 DEF IInv, TypeOK
  <1>6. Assigned' /\ HandedOverInOrder'
    BY <1>2, <1>4, <1>5 DEF IInv, Ordered, Assigned, HandedOverInOrder
  <1>7. NoLoss'
    BY <1>2, <1>4 DEF IInv, Ordered, NoLoss
  <1>8. BatchIsPrefix'
    BY <1>2, <1>3, <1>5 DEF IInv, Ordered, BatchIsPrefix
  <1> QED
    BY <1>6, <1>7, <1>8 DEF Ordered
-----------------------------------------------------------------------------
(* A row of a batch is the first of at most one kind. *)
LEMMA FirstIsUnique ==
    ASSUME TypeOK, NEW f \in Flushers, NEW j, NEW k,
           IsFirst(j, todo[f]), IsFirst(k, todo[f])
    PROVE  j = k
  BY IdsFinite DEF IsFirst, TypeOK

LEMMA DeletePublishedStep ==
    TypeOK /\ DeletePublished /\ [Next]_bufferVars => DeletePublished'
  <1> SUFFICES ASSUME TypeOK, DeletePublished, [Next]_bufferVars
               PROVE  DeletePublished'
    OBVIOUS
  <1>1. CASE Store \/ UNCHANGED bufferVars
    BY <1>1 DEF Store, bufferVars, DeletePublished
  <1>2. CASE Crash
    BY <1>2 DEF Crash, DeletePublished
  <1>3. ASSUME NEW f \in Flushers, StartFlush(f) \/ Fetch(f) \/ PublishFail(f)
        PROVE  DeletePublished'
    <2>1. pc'[f] # "delete" /\ published' = published
      BY <1>3 DEF StartFlush, Fetch, PublishFail, TypeOK
    <2>2. \A g \in Flushers \ {f} : pc'[g] = pc[g] /\ todo'[g] = todo[g]
      BY <1>3 DEF StartFlush, Fetch, PublishFail, TypeOK
    <2> QED
      BY <2>1, <2>2 DEF DeletePublished
  <1>4. ASSUME NEW f \in Flushers, PublishOk(f) PROVE DeletePublished'
    <2>1. PICK k \in todo[f] : IsFirst(k, todo[f]) /\ published' = published \cup {k}
      BY <1>4 DEF PublishOk
    <2>2. todo' = todo /\ \A g \in Flushers \ {f} : pc'[g] = pc[g]
      BY <1>4 DEF PublishOk, TypeOK
    <2> QED
      BY <2>1, <2>2, FirstIsUnique DEF DeletePublished
  <1>5. ASSUME NEW f \in Flushers, Delete(f) PROVE DeletePublished'
    <2>1. pc'[f] # "delete" /\ published' = published
      BY <1>5 DEF Delete, AfterRow, TypeOK
    <2>2. \A g \in Flushers \ {f} : pc'[g] = pc[g] /\ todo'[g] = todo[g]
      BY <1>5 DEF Delete, AfterRow, TypeOK
    <2> QED
      BY <2>1, <2>2 DEF DeletePublished
  <1> QED
    BY <1>1, <1>2, <1>3, <1>4, <1>5 DEF Next, FlushStep

(* The inductive invariant behind the theorems on the outbox. *)
THEOREM Inductive == Spec => []IInv
  <1>1. Init => Ordered /\ DeletePublished
    BY OrderedInit
  <1>2. IInv /\ [Next]_bufferVars => (Ordered /\ DeletePublished)'
    <2> SUFFICES ASSUME IInv, [Next]_bufferVars PROVE Ordered'
      BY DeletePublishedStep DEF IInv
    <2>1. CASE Store
      BY <2>1, OrderedStore
    <2>2. CASE Crash
      BY <2>2, OrderedCrash
    <2>3. ASSUME NEW f \in Flushers, StartFlush(f) \/ PublishFail(f) PROVE Ordered'
      <3>1. UNCHANGED <<rows, nextId, published, pruned>>
        BY <2>3 DEF StartFlush, PublishFail
      <3>2. \A g \in Flushers : todo'[g] \subseteq todo[g] /\ (todo'[g] = {} \/ todo'[g] = todo[g])
        BY <2>3 DEF StartFlush, PublishFail, IInv, TypeOK
      <3>3. Assigned' /\ NoLoss' /\ HandedOverInOrder'
        BY <3>1, <3>2 DEF IInv, Ordered, Assigned, NoLoss, HandedOverInOrder
      <3>4. BatchIsPrefix'
        BY <3>1, <3>2 DEF IInv, Ordered, BatchIsPrefix
      <3> QED
        BY <3>3, <3>4 DEF Ordered
    <2>4. ASSUME NEW f \in Flushers, Fetch(f) PROVE Ordered'
      BY <2>4, OrderedFetch
    <2>5. ASSUME NEW f \in Flushers, PublishOk(f) PROVE Ordered'
      BY <2>5, OrderedPublishOk
    <2>6. ASSUME NEW f \in Flushers, Delete(f) PROVE Ordered'
      BY <2>6, OrderedDelete
    <2>7. CASE UNCHANGED bufferVars
      BY <2>7 DEF bufferVars, IInv, Ordered, Assigned, NoLoss, HandedOverInOrder,
                  BatchIsPrefix
    <2> QED
      BY <2>1, <2>2, <2>3, <2>4, <2>5, <2>6, <2>7 DEF Next, FlushStep
  <1> QED
    BY <1>1, <1>2, TypeCorrect, PTL DEF Spec, IInv

(* No row vanishes: store, flush, restart and failing statements leave     *)
(* every inserted row in the table, handed over, or pruned at capacity.    *)
THEOREM NothingLost == Spec => []NoLoss
  BY Inductive, PTL DEF IInv, Ordered

(* First copies leave in id order, however flushes overlap. *)
THEOREM InOrder == Spec => []HandedOverInOrder
  BY Inductive, PTL DEF IInv, Ordered

(* A row leaves the table only once it was handed over, or as one of the   *)
(* oldest rows of a full table.                                            *)
THEOREM RemovalIsJustified == Spec => RemovalJustified
  <1> DEFINE Justified(k) ==
                 \/ k \in published
                 \/ Cardinality(rows) >= MaxMessages /\ \A j \in rows' : k < j
  <1>1. ASSUME IInv, NEW P, P = {} \/ P = Excess(rows), NEW I,
               I = {} \/ I = {nextId}, rows' = (rows \ P) \cup I,
               NEW k \in rows \ rows'
        PROVE  Justified(k)
    <2> DEFINE n == Cardinality(rows) - MaxMessages + PruneExtra
    <2>1. Cardinality(rows) >= MaxMessages /\ k \in Oldest(rows, n) /\ P = Oldest(rows, n)
      BY <1>1 DEF Excess
    <2>2. rows \subseteq Ids /\ rows \subseteq Nat /\ n \in Nat
      <3>1. rows \subseteq Ids /\ Cardinality(rows) \in Nat /\ rows \subseteq Nat
        BY <1>1, IdsFinite DEF IInv, TypeOK
      <3> QED
        BY <2>1, <3>1, LimitAssumption
    <2>3. ASSUME NEW j \in rows \ P PROVE k < j
      <3>1. ~(j < k)
        BY <2>1, <2>2, <2>3, OldestIsPrefix
      <3> QED
        BY <2>1, <2>2, <2>3, <3>1
    <2>4. k < nextId
      BY <1>1, BoundAssumption DEF IInv, TypeOK, Ordered, Assigned
    <2> QED
      BY <1>1, <2>1, <2>3, <2>4
  <1>2. IInv /\ [Next]_bufferVars =>
          [\A k \in rows \ rows' :
              \/ k \in published
              \/ Cardinality(rows) >= MaxMessages /\ \A j \in rows' : k < j]_bufferVars
    <2> SUFFICES ASSUME IInv, [Next]_bufferVars, NEW k \in rows \ rows'
                 PROVE  Justified(k)
      OBVIOUS
    <2>1. CASE Store
      <3>1. PICK P \in PruneOutcomes, I \in InsertOutcomes : rows' = (rows \ P) \cup I
        BY <2>1 DEF Store
      <3>2. (P = {} \/ P = Excess(rows)) /\ (I = {} \/ I = {nextId})
        BY DEF PruneOutcomes, InsertOutcomes
      <3> QED
        BY <1>1, <3>1, <3>2
    <2>2. CASE Crash
      <3>1. PICK P \in {{}, Excess(rows)} : rows' = (rows \ P) \cup {}
        BY <2>2 DEF Crash
      <3> QED
        BY <1>1, <3>1
    <2>3. ASSUME NEW f \in Flushers, Delete(f) PROVE Justified(k)
      <3>1. PICK i \in todo[f] : /\ IsFirst(i, todo[f])
                                 /\ \E D \in DeleteOutcomes(i) : rows' = rows \ D
        BY <2>3 DEF Delete, AfterRow
      <3>2. k = i /\ k \in Ids
        BY <3>1, StatementTypes DEF IInv, TypeOK
      <3>3. pc[f] = "delete"
        BY <2>3 DEF Delete, AfterRow
      <3>4. DeletePublished /\ IsFirst(k, todo[f])
        BY <3>1, <3>2 DEF IInv
      <3>5. k \in published
        BY <3>2, <3>3, <3>4 DEF DeletePublished
      <3> QED
        BY <3>5
    <2>4. ASSUME NEW f \in Flushers,
                 StartFlush(f) \/ Fetch(f) \/ PublishOk(f) \/ PublishFail(f)
          PROVE  FALSE
      BY <2>4 DEF StartFlush, Fetch, PublishOk, PublishFail
    <2>5. CASE UNCHANGED bufferVars
      BY <2>5 DEF bufferVars
    <2> QED
      BY <2>1, <2>2, <2>3, <2>4, <2>5 DEF Next, FlushStep
  <1> QED
    BY <1>2, Inductive, PTL DEF Spec, RemovalJustified

(* The table never holds more rows than the cap. *)
THEOREM CapacityKept == Spec => []CapacityBound
  <1>1. Init => CapacityBound
    BY FS_EmptySet, LimitAssumption DEF Init, CapacityBound
  <1>2. TypeOK /\ CapacityBound /\ [Next]_bufferVars => CapacityBound'
    <2> SUFFICES ASSUME TypeOK, CapacityBound, [Next]_bufferVars, ~FaultyDb
                 PROVE  Cardinality(rows') <= MaxMessages
      BY DEF CapacityBound
    <2>1. rows \in SUBSET Ids /\ Cardinality(rows) <= MaxMessages
      BY DEF TypeOK, CapacityBound
    <2>2. ASSUME rows' \subseteq rows PROVE Cardinality(rows') <= MaxMessages
      <3>1. IsFiniteSet(rows) /\ Cardinality(rows) \in Nat /\ Cardinality(rows') \in Nat
        BY <2>1, <2>2, IdsFinite
      <3>2. Cardinality(rows') <= Cardinality(rows)
        BY <2>2, <3>1, FS_Subset
      <3> QED
        BY <2>1, <3>1, <3>2, LimitAssumption
    <2>3. CASE Store
      <3> DEFINE kept == rows \ Excess(rows)
      <3>1. rows' = kept \cup {nextId}
        BY <2>3 DEF Store, PruneOutcomes, InsertOutcomes
      <3>2. IsFiniteSet(kept) /\ Cardinality(kept) \in Nat /\ Cardinality(kept) < MaxMessages
        BY <2>1, ExcessMakesRoom
      <3> HIDE DEF kept
      <3>3. Cardinality(rows') \in {Cardinality(kept), Cardinality(kept) + 1}
        BY <3>1, <3>2, FS_AddElement
      <3> QED
        BY <3>2, <3>3, LimitAssumption
    <2>4. CASE ~Store
      <3>1. rows' \subseteq rows
        BY <2>4 DEF Next, FlushStep, Crash, StartFlush, Fetch, PublishOk,
                    PublishFail, Delete, AfterRow, bufferVars
      <3> QED
        BY <2>2, <3>1
    <2> QED
      BY <2>3, <2>4
  <1> QED
    BY <1>1, <1>2, TypeCorrect, PTL DEF Spec
-----------------------------------------------------------------------------
(* A handed-over row still in the table is about to be deleted, or its     *)
(* DELETE was lost in a crash or failed.                                   *)
THEOREM DuplicateWindowKept == Spec => []DuplicateWindow
  <1>1. Init => DuplicateWindow
    BY DEF Init, DuplicateWindow
  <1>2. IInv /\ DuplicateWindow /\ [Next]_bufferVars => DuplicateWindow'
    <2> SUFFICES ASSUME IInv, DuplicateWindow, [Next]_bufferVars,
                        NEW i \in published' \cap rows'
                 PROVE  i \in InDoubt' \cup orphaned'
      BY DEF DuplicateWindow
    <2>0. TypeOK /\ (i \in rows /\ i \in published => i \in InDoubt \cup orphaned)
      BY DEF IInv, DuplicateWindow
    <2>1. CASE Store
      <3>1. PICK P \in PruneOutcomes, I \in InsertOutcomes : rows' = (rows \ P) \cup I
        BY <2>1 DEF Store
      <3>2. i \in published /\ UNCHANGED <<pc, todo, orphaned>>
        BY <2>1 DEF Store
      <3>3. i # nextId
        BY <3>2, BoundAssumption DEF IInv, TypeOK, Ordered, Assigned
      <3>4. i \in rows
        BY <3>1, <3>3, <2>0, StatementTypes
      <3> QED
        BY <2>0, <3>2, <3>4 DEF InDoubt
    <2>2. CASE Crash
      BY <2>0, <2>2 DEF Crash
    <2>3. ASSUME NEW f \in Flushers, StartFlush(f) \/ Fetch(f) \/ PublishFail(f)
          PROVE  i \in InDoubt' \cup orphaned'
      <3>1. UNCHANGED <<rows, published, orphaned>> /\ pc[f] # "delete"
        BY <2>3 DEF StartFlush, Fetch, PublishFail
      <3>2. \A g \in Flushers \ {f} : pc'[g] = pc[g] /\ todo'[g] = todo[g]
        BY <2>0, <2>3 DEF StartFlush, Fetch, PublishFail, TypeOK
      <3> QED
        BY <2>0, <3>1, <3>2 DEF InDoubt
    <2>4. ASSUME NEW f \in Flushers, PublishOk(f)
          PROVE  i \in InDoubt' \cup orphaned'
      <3>1. PICK k \in todo[f] : IsFirst(k, todo[f]) /\ published' = published \cup {k}
        BY <2>4 DEF PublishOk
      <3>2. /\ UNCHANGED <<rows, todo, orphaned>>
            /\ pc[f] = "publish" /\ pc'[f] = "delete"
            /\ \A g \in Flushers \ {f} : pc'[g] = pc[g]
        BY <2>0, <2>4 DEF PublishOk, TypeOK
      <3>3. CASE i = k
        BY <2>0, <3>1, <3>2, <3>3 DEF InDoubt, TypeOK
      <3>4. CASE i # k
        BY <2>0, <3>1, <3>2, <3>4 DEF InDoubt
      <3> QED
        BY <3>3, <3>4
    <2>5. ASSUME NEW f \in Flushers, Delete(f)
          PROVE  i \in InDoubt' \cup orphaned'
      <3>1. PICK k \in todo[f] :
                /\ IsFirst(k, todo[f])
                /\ \E D \in DeleteOutcomes(k) :
                    rows' = rows \ D /\ orphaned' = orphaned \cup ({k} \ D)
        BY <2>5 DEF Delete, AfterRow
      <3>2. published' = published /\ \A g \in Flushers \ {f} : pc'[g] = pc[g] /\ todo'[g] = todo[g]
        BY <2>0, <2>5 DEF Delete, AfterRow, TypeOK
      <3>3. CASE i = k
        BY <3>1, <3>3
      <3>4. CASE i # k
        BY <2>0, <3>1, <3>2, <3>4, FirstIsUnique DEF InDoubt
      <3> QED
        BY <3>3, <3>4
    <2>6. CASE UNCHANGED bufferVars
      BY <2>0, <2>6 DEF bufferVars, InDoubt
    <2> QED
      BY <2>1, <2>2, <2>3, <2>4, <2>5, <2>6 DEF Next, FlushStep
  <1> QED
    BY <1>1, <1>2, Inductive, PTL DEF Spec

(* With one flush at a time, a row is handed over twice only when its      *)
(* DELETE was lost.                                                        *)
THEOREM SecondCopyCause == Spec => []SecondCopyHasCause
  <1>1. Init => BatchIsFresh
    BY DEF Init, BatchIsFresh
  <1>2. IInv /\ DuplicateWindow /\ BatchIsFresh /\ [Next]_bufferVars => BatchIsFresh'
    <2> SUFFICES ASSUME IInv, DuplicateWindow, BatchIsFresh, [Next]_bufferVars,
                        NEW g \in Flushers, NEW i \in todo'[g], i \in published',
                        Flushers = {g}
                 PROVE  i \in orphaned' \/ (pc'[g] = "delete" /\ IsFirst(i, todo'[g]))
      BY DEF BatchIsFresh
    <2>0. TypeOK /\ (i \in todo[g] /\ i \in published =>
                        i \in orphaned \/ (pc[g] = "delete" /\ IsFirst(i, todo[g])))
      BY DEF IInv, BatchIsFresh
    <2>1. CASE Store \/ UNCHANGED bufferVars
      BY <2>0, <2>1 DEF Store, bufferVars
    <2>2. CASE Crash
      BY <2>2 DEF Crash
    <2>3. CASE StartFlush(g) \/ PublishFail(g)
      BY <2>0, <2>3 DEF StartFlush, PublishFail, TypeOK
    <2>4. CASE Fetch(g)
      <3>1. PICK n \in Nat : todo'[g] = Oldest(rows, n)
        BY <2>0, <2>4, StatementTypes DEF Fetch, TypeOK
      <3>2. UNCHANGED <<published, orphaned>> /\ pc[g] # "delete"
        BY <2>4 DEF Fetch
      <3>3. i \in rows /\ i \notin InDoubt
        BY <3>1, <3>2, OldestSubset DEF InDoubt
      <3> QED
        BY <3>2, <3>3 DEF DuplicateWindow
    <2>5. CASE PublishOk(g)
      <3>1. PICK k \in todo[g] : IsFirst(k, todo[g]) /\ published' = published \cup {k}
        BY <2>5 DEF PublishOk
      <3>2. UNCHANGED <<todo, orphaned>> /\ pc[g] = "publish" /\ pc'[g] = "delete"
        BY <2>0, <2>5 DEF PublishOk, TypeOK
      <3> QED
        BY <2>0, <3>1, <3>2
    <2>6. CASE Delete(g)
      <3>1. PICK k \in todo[g] : IsFirst(k, todo[g]) /\ todo' = [todo EXCEPT ![g] = @ \ {k}]
        BY <2>6 DEF Delete, AfterRow
      <3>2. PICK k2 \in todo[g] : orphaned \subseteq orphaned'
        BY <2>6 DEF Delete, AfterRow
      <3>3. published' = published /\ i \in todo[g] /\ i # k
        BY <2>0, <2>6, <3>1 DEF Delete, AfterRow, TypeOK
      <3>4. ~IsFirst(i, todo[g])
        BY <2>0, <3>1, <3>3, FirstIsUnique
      <3> QED
        BY <2>0, <3>2, <3>3, <3>4
    <2> QED
      BY <2>1, <2>2, <2>3, <2>4, <2>5, <2>6 DEF Next, FlushStep
  <1>3. BatchIsFresh => SecondCopyHasCause
    BY DEF BatchIsFresh, SecondCopyHasCause, IsFirst
  <1> QED
    BY <1>1, <1>2, <1>3, Inductive, DuplicateWindowKept, PTL DEF Spec

(* The next id is one more than the number of accepted messages. *)
LEMMA IdShift ==
    ASSUME NEW a \in 1..(MaxId + 1), NEW b \in 1..(MaxId + 1), b \in {a, a + 1}
    PROVE  b - 1 \in {a - 1, (a - 1) + 1} /\ b - 1 <= MaxId
  BY BoundAssumption

(* flush() and store() implement the outbox of ReplayQueue. *)
THEOREM ImplementsOutbox == Spec => OutboxSpec
  <1>1. Init => Outbox!Init
    BY DEF Init, Outbox!Init
  <1>2. IInv /\ IInv' /\ [Next]_bufferVars => [Outbox!Next]_Outbox!vars
    <2> SUFFICES ASSUME IInv, IInv', [Next]_bufferVars
                 PROVE  [Outbox!Next]_Outbox!vars
      OBVIOUS
    <2> DEFINE Owed == Outbox!Pending
    <2>1. nextId \in 1..(MaxId + 1) /\ nextId' \in 1..(MaxId + 1)
      BY DEF IInv, TypeOK
    <2>2. Owed = {m \in 1..(nextId - 1) : m \notin published \cup pruned}
      BY DEF Outbox!Pending
    <2>3. Owed \subseteq rows
      <3>1. \A m \in Owed : m \in Ids /\ m < nextId
        BY <2>1, <2>2, BoundAssumption DEF Ids
      <3> QED
        BY <2>2, <3>1 DEF IInv, Ordered, NoLoss
    <2>4. ASSUME NEW P, P = {} \/ P = Excess(rows), pruned' = pruned \cup P,
                 nextId' \in {nextId, nextId + 1}, published' = published
          PROVE  Outbox!Next
      <3>1. P \subseteq 1..(nextId - 1)
        BY <2>4, StatementTypes DEF IInv, Ordered, Assigned
      <3>2. ASSUME NEW d \in P, NEW m \in Owed, m < d PROVE m \in P
        <4>1. Excess(rows) = P /\ P # {}
          BY <2>4, <3>2
        <4>2. PICK n \in Nat : P = Oldest(rows, n)
          <5>1. Cardinality(rows) >= MaxMessages
            BY <4>1 DEF Excess
          <5>2. Cardinality(rows) \in Nat
            BY IdsFinite DEF IInv, TypeOK
          <5> QED
            BY <4>1, <5>1, <5>2, LimitAssumption DEF Excess
        <4> QED
          BY <2>3, <3>2, <4>2, OldestIsPrefix DEF IInv, TypeOK
      <3>3. Outbox!OldestPending(P)
        BY <3>1, <3>2 DEF Outbox!OldestPending
      <3>4. nextId' - 1 \in {nextId - 1, (nextId - 1) + 1} /\ nextId' - 1 <= MaxId
        BY <2>1, <2>4, IdShift
      <3> QED
        BY <2>4, <3>1, <3>3, <3>4 DEF Outbox!Next, Outbox!Accept
    <2>5. CASE Store
      <3>1. PICK P \in PruneOutcomes, I \in InsertOutcomes :
                pruned' = pruned \cup P /\ nextId' = IF I = {} THEN nextId ELSE nextId + 1
        BY <2>5 DEF Store
      <3>2. (P = {} \/ P = Excess(rows)) /\ nextId' \in {nextId, nextId + 1}
        BY <3>1 DEF PruneOutcomes
      <3> QED
        BY <2>4, <2>5, <3>1, <3>2 DEF Store
    <2>6. CASE Crash
      BY <2>4, <2>6 DEF Crash
    <2>7. ASSUME NEW f \in Flushers, PublishOk(f)
          PROVE  [Outbox!Next]_Outbox!vars
      <3>1. PICK k \in todo[f] : IsFirst(k, todo[f]) /\ published' = published \cup {k}
        BY <2>7 DEF PublishOk
      <3>2. UNCHANGED <<nextId, pruned>>
        BY <2>7 DEF PublishOk
      <3>3. k \in 1..(nextId - 1) /\ todo[f] \subseteq Nat
        BY IdsFinite DEF IInv, TypeOK, Ordered, Assigned
      <3>4. CASE k \in published
        BY <3>1, <3>2, <3>4 DEF Outbox!vars
      <3>5. CASE k \in pruned
        BY <3>1, <3>2, <3>5 DEF Outbox!Next, Outbox!DeliverDropped
      <3>6. CASE k \notin published \cup pruned
        <4>1. k \in Owed
          BY <2>2, <3>3, <3>6
        <4>2. ASSUME NEW j \in Owed PROVE k <= j
          <5>1. j \in Nat /\ j >= 1 /\ k \in Nat /\ j \notin published \cup pruned
            BY <2>1, <2>2, <3>3, <4>2
          <5>2. ASSUME j < k PROVE FALSE
            <6>1. j \in 1..(k - 1)
              BY <5>1, <5>2
            <6>2. j \in todo[f]
              BY <5>1, <6>1 DEF IInv, Ordered, BatchIsPrefix
            <6> QED
              BY <3>1, <3>3, <5>1, <5>2, <6>2 DEF IsFirst
          <5> QED
            BY <5>1, <5>2
        <4> QED
          BY <3>1, <3>2, <4>1, <4>2 DEF Outbox!Next, Outbox!Deliver
      <3> QED
        BY <3>4, <3>5, <3>6
    <2>8. ASSUME NEW f \in Flushers,
                 StartFlush(f) \/ Fetch(f) \/ PublishFail(f) \/ Delete(f)
          PROVE  [Outbox!Next]_Outbox!vars
      BY <2>8 DEF StartFlush, Fetch, PublishFail, Delete, AfterRow, Outbox!vars
    <2>9. CASE UNCHANGED bufferVars
      BY <2>9 DEF bufferVars, Outbox!vars
    <2> QED
      BY <2>5, <2>6, <2>7, <2>8, <2>9 DEF Next, FlushStep
  <1> QED
    BY <1>1, <1>2, Inductive, PTL DEF Spec, OutboxSpec, Outbox!Spec

(* Whatever the connection and the services do, the buffer sees calls of   *)
(* its own operations: what is proved of LocalBuffer holds in Delivery.    *)
THEOREM DeliveryUsesBuffer == DeliverySpec => Spec
  <1>1. DeliveryInit => Init
    BY DEF DeliveryInit
  <1>2. [DeliveryNext]_deliveryVars => [Next]_bufferVars
    <2> SUFFICES ASSUME [DeliveryNext]_deliveryVars PROVE [Next]_bufferVars
      OBVIOUS
    <2>1. ASSUME NEW s \in Services, PublishNew(s) PROVE UNCHANGED bufferVars
      BY <2>1 DEF PublishNew
    <2>2. ASSUME NEW s \in Services, ServiceStep(s) PROVE Store
      BY <2>2 DEF ServiceStep, Fallback, StoreFn, StoreHand
    <2>3. ASSUME NEW f \in Flushers, Flush(f) PROVE FlushStep(f)
      BY <2>3 DEF Flush, FlushPublish, FlushLocal, FlushStep
    <2>4. ASSUME Reconnect PROVE \E f \in Flushers : StartFlush(f)
      BY <2>4 DEF Reconnect
    <2>5. CASE ConnectionLost \/ Ack \/ UNCHANGED deliveryVars
      BY <2>5 DEF ConnectionLost, Ack, deliveryVars
    <2>6. ASSUME Restart PROVE Crash
      BY <2>6 DEF Restart
    <2> QED
      BY <2>1, <2>2, <2>3, <2>4, <2>5, <2>6 DEF DeliveryNext, Next
  <1> QED
    BY <1>1, <1>2, PTL DEF DeliverySpec, Spec

(* So is the outbox: to the services the lambdas of main.cpp:611-615, with *)
(* the buffer behind them, keep what LocalBuffer.hpp promises.             *)
THEOREM DeliveryImplementsOutbox == DeliverySpec => OutboxSpec
  BY DeliveryUsesBuffer, ImplementsOutbox, PTL

-----------------------------------------------------------------------------
(* A step of a service that stores the message in its hand. *)
LEMMA StoreHandTypes ==
    ASSUME DeliveryTypeOK, NEW s \in Services, hand[s] # 0, StoreHand(s)
    PROVE  /\ content' \in Seq(Msgs) /\ Len(content') = nextId' - 1
           /\ \A k \in 1..(nextId - 1) : content'[k] = content[k]
           /\ nextId' # nextId => content'[nextId] = hand[s]
  <1>1. hand[s] \in Msgs
    BY ServiceAssumption DEF DeliveryTypeOK, Msgs
  <1>2. content \in Seq(Msgs) /\ Len(content) = nextId - 1 /\ nextId \in Nat
    BY BoundAssumption DEF DeliveryTypeOK, TypeOK
  <1>3. nextId' = nextId \/ nextId' = nextId + 1
    BY DEF StoreHand, Store
  <1>4. CASE nextId' = nextId
    BY <1>2, <1>4 DEF StoreHand
  <1>5. CASE nextId' = nextId + 1
    <2>1. content' = Append(content, hand[s])
      BY <1>2, <1>5 DEF StoreHand
    <2> QED
      BY <1>1, <1>2, <1>5, <2>1
  <1> QED
    BY <1>3, <1>4, <1>5

LEMMA EntryInSet ==
    ASSUME NEW S, NEW q \in Seq(S), NEW k \in 1..Len(q)
    PROVE  q[k] \in S
  OBVIOUS

(* Every variable keeps its type; content has one entry per inserted row.  *)
THEOREM DeliveryTypeCorrect == DeliverySpec => []DeliveryTypeOK
  <1>1. DeliveryInit => (TypeOK => DeliveryTypeOK)
    BY ServiceAssumption DEF DeliveryInit, Init, DeliveryTypeOK, Msgs
  <1>2. DeliveryTypeOK /\ TypeOK' /\ IInv /\ [DeliveryNext]_deliveryVars => DeliveryTypeOK'
    <2> SUFFICES ASSUME DeliveryTypeOK, TypeOK', IInv, [DeliveryNext]_deliveryVars
                 PROVE  DeliveryTypeOK'
      OBVIOUS
    <2> USE DEF DeliveryTypeOK, Msgs
    <2>1. ASSUME NEW s \in Services, PublishNew(s) PROVE DeliveryTypeOK'
      <3>1. made' \in 1..MaxMsgs /\ made' = made + 1
        BY <2>1, ServiceAssumption DEF PublishNew
      <3>2. inflight' \cup received' \cup dropped' \subseteq 1..MaxMsgs
            /\ link' \in {"up", "down"}
        BY <2>1, <3>1 DEF PublishNew, Publish, Refused, linkVars
      <3>3. /\ hand' \in [Services -> 0..MaxMsgs]
            /\ stage' \in [Services -> {"idle", "fallback", "storeFn"}]
            /\ \A t \in Services : hand'[t] = 0 <=> stage'[t] = "idle"
        BY <2>1, <3>1, ServiceAssumption DEF PublishNew
      <3> QED
        BY <2>1, <3>1, <3>2, <3>3, ServiceAssumption DEF PublishNew, bufferVars
    <2>2. ASSUME NEW s \in Services, ServiceStep(s) PROVE DeliveryTypeOK'
      <3>1. StoreHand(s) /\ hand[s] # 0
        BY <2>2 DEF ServiceStep, Fallback, StoreFn
      <3>2. content' \in Seq(1..MaxMsgs) /\ Len(content') = nextId' - 1
        BY <3>1, StoreHandTypes
      <3>3. /\ hand' \in [Services -> 0..MaxMsgs]
            /\ stage' \in [Services -> {"idle", "fallback", "storeFn"}]
            /\ \A t \in Services : hand'[t] = 0 <=> stage'[t] = "idle"
        BY <2>2, <3>1, ServiceAssumption DEF ServiceStep, Fallback, StoreFn
      <3> QED
        BY <3>1, <3>2, <3>3 DEF StoreHand, linkVars
    <2>3. ASSUME NEW f \in Flushers, Flush(f) PROVE DeliveryTypeOK'
      <3>1. UNCHANGED <<made, hand, stage, content, nextId>>
        BY <2>3 DEF Flush, FlushPublish, FlushLocal, serviceVars,
                    PublishOk, PublishFail, Fetch, Delete, AfterRow
      <3>2. ASSUME NEW k \in todo[f] PROVE content[k] \in 1..MaxMsgs
        <4>1. k \in 1..Len(content)
          BY <3>2 DEF IInv, Ordered, Assigned
        <4> QED
          BY <4>1, EntryInSet
      <3>3. inflight' \cup received' \cup dropped' \subseteq 1..MaxMsgs
            /\ link' \in {"up", "down"}
        BY <2>3, <3>2 DEF Flush, FlushPublish, FlushLocal, Publish, Refused, linkVars
      <3> QED
        BY <3>1, <3>3
    <2>4. CASE Reconnect
      BY <2>4 DEF Reconnect, serviceVars, StartFlush
    <2>5. CASE ConnectionLost
      BY <2>5 DEF ConnectionLost, serviceVars, bufferVars
    <2>6. CASE Ack
      BY <2>6 DEF Ack, serviceVars, bufferVars
    <2>7. CASE Restart
      <3>1. dropped' \subseteq 1..MaxMsgs
        BY <2>7 DEF Restart
      <3> QED
        BY <2>7, <3>1, ServiceAssumption DEF Restart, Crash
    <2>8. CASE UNCHANGED deliveryVars
      BY <2>8 DEF deliveryVars, linkVars, serviceVars, bufferVars
    <2> QED
      BY <2>1, <2>2, <2>3, <2>4, <2>5, <2>6, <2>7, <2>8 DEF DeliveryNext
  <1> QED
    BY <1>1, <1>2, DeliveryUsesBuffer, TypeCorrect, Inductive, PTL DEF DeliverySpec
-----------------------------------------------------------------------------
(* Messages that the client has taken. *)
Taken == inflight \cup received \cup dropped

LEMMA TakenGrows ==
    DeliveryTypeOK /\ [DeliveryNext]_deliveryVars => Taken \subseteq Taken'
  <1> SUFFICES ASSUME DeliveryTypeOK, [DeliveryNext]_deliveryVars PROVE Taken \subseteq Taken'
    OBVIOUS
  <1> USE DEF Taken
  <1>1. ASSUME NEW s \in Services, PublishNew(s) \/ ServiceStep(s)
        PROVE  Taken \subseteq Taken'
    BY <1>1 DEF PublishNew, ServiceStep, Fallback, StoreFn, StoreHand, Publish,
                Refused, linkVars
  <1>2. ASSUME NEW f \in Flushers, Flush(f) PROVE Taken \subseteq Taken'
    BY <1>2 DEF Flush, FlushPublish, FlushLocal, Publish, Refused, linkVars
  <1>3. CASE Reconnect \/ ConnectionLost \/ Ack \/ Restart
    BY <1>3 DEF Reconnect, ConnectionLost, Ack, Restart
  <1>4. CASE UNCHANGED deliveryVars
    BY <1>4 DEF deliveryVars, linkVars
  <1> QED
    BY <1>1, <1>2, <1>3, <1>4 DEF DeliveryNext

(* Entries of content are never changed. *)
LEMMA ContentGrows ==
    DeliveryTypeOK /\ [DeliveryNext]_deliveryVars =>
        nextId' >= nextId /\ \A k \in 1..(nextId - 1) : content'[k] = content[k]
  <1> SUFFICES ASSUME DeliveryTypeOK, [DeliveryNext]_deliveryVars
               PROVE  nextId' >= nextId /\ \A k \in 1..(nextId - 1) : content'[k] = content[k]
    OBVIOUS
  <1>0. nextId \in Nat
    BY BoundAssumption DEF DeliveryTypeOK, TypeOK
  <1>1. ASSUME NEW s \in Services, ServiceStep(s)
        PROVE  nextId' >= nextId /\ \A k \in 1..(nextId - 1) : content'[k] = content[k]
    <2>1. StoreHand(s) /\ hand[s] # 0
      BY <1>1 DEF ServiceStep, Fallback, StoreFn, DeliveryTypeOK
    <2>2. nextId' >= nextId
      BY <1>0, <2>1 DEF StoreHand, Store
    <2> QED
      BY <2>1, <2>2, StoreHandTypes
  <1>2. ASSUME ~\E s \in Services : ServiceStep(s) PROVE UNCHANGED <<nextId, content>>
    BY <1>2 DEF DeliveryNext, PublishNew, Flush, FlushPublish, FlushLocal, PublishOk,
                PublishFail, Fetch, Delete, AfterRow, Reconnect, StartFlush, ConnectionLost, Ack,
                Restart, Crash, deliveryVars, serviceVars, bufferVars
  <1> QED
    BY <1>0, <1>1, <1>2

(* What a flush hands over has reached the client, as it was stored. *)
THEOREM HandedOverTaken == DeliverySpec => []HandedOverReachesClient
  <1>1. DeliveryInit => HandedOverReachesClient
    BY DEF DeliveryInit, Init, HandedOverReachesClient
  <1>2. DeliveryTypeOK /\ IInv /\ HandedOverReachesClient /\ [DeliveryNext]_deliveryVars
            => HandedOverReachesClient'
    <2> SUFFICES ASSUME DeliveryTypeOK, IInv, HandedOverReachesClient,
                        [DeliveryNext]_deliveryVars, NEW k \in published'
                 PROVE  content'[k] \in Taken'
      BY DEF HandedOverReachesClient, Taken
    <2>1. Taken \subseteq Taken'
      BY TakenGrows
    <2>2. CASE k \in published
      <3>1. k \in 1..(nextId - 1)
        BY <2>2 DEF IInv, Ordered, Assigned
      <3>2. content[k] \in Taken
        BY <2>2 DEF HandedOverReachesClient, Taken
      <3> QED
        BY <2>1, <3>1, <3>2, ContentGrows
    <2>3. CASE k \notin published
      <3>1. PICK f \in Flushers : FlushPublish(f) /\ PublishOk(f) /\ UNCHANGED serviceVars
        BY <2>3 DEF DeliveryNext, PublishNew, ServiceStep, Fallback, StoreFn, StoreHand,
                    Store, Flush, FlushPublish, FlushLocal, PublishFail, Fetch, Delete, AfterRow,
                    Reconnect, StartFlush, ConnectionLost, Ack, Restart, Crash,
                    deliveryVars, bufferVars
      <3>2. IsFirst(k, todo[f]) /\ pc[f] = "publish"
        BY <2>3, <3>1 DEF PublishOk
      <3>3. PICK i \in todo[f] : IsFirst(i, todo[f]) /\ content[i] \in inflight'
        <4>1. ~PublishFail(f)
          BY <2>3, <3>1 DEF PublishFail
        <4> QED
          BY <3>1, <4>1 DEF FlushPublish, Publish
      <3>4. i = k
        BY <3>2, <3>3, FirstIsUnique DEF DeliveryTypeOK
      <3> QED
        BY <3>1, <3>3, <3>4 DEF serviceVars, Taken
    <2> QED
      BY <2>2, <2>3
  <1> QED
    BY <1>1, <1>2, DeliveryTypeCorrect, DeliveryUsesBuffer, Inductive, PTL DEF DeliverySpec

(* A message in a row leaves it only for the client or the pruned rows.    *)
LEMMA RowStaysAccounted ==
    ASSUME DeliveryTypeOK, IInv, IInv', HandedOverReachesClient',
           [DeliveryNext]_deliveryVars, NEW k \in rows \cup pruned
    PROVE  content'[k] \in Taken' \/ k \in rows' \cup pruned'
  <1>1. k \in Ids /\ k < nextId
    BY BoundAssumption DEF IInv, TypeOK, Ordered, Assigned
  <1>2. nextId \in Nat /\ nextId' \in Nat /\ nextId <= nextId'
    BY ContentGrows, BoundAssumption DEF IInv, TypeOK
  <1>3. k < nextId'
    BY <1>1, <1>2 DEF Ids
  <1>4. k \in rows' \cup published' \cup pruned'
    BY <1>1, <1>3 DEF IInv, Ordered, NoLoss, Ids
  <1> QED
    BY <1>4 DEF HandedOverReachesClient, Taken

(* No message disappears on its way from the lambda to the broker, as long *)
(* as SQLite statements do not fail.                                       *)
THEOREM EveryMessageAccounted == DeliverySpec => []Accounted
  <1>1. DeliveryInit => Accounted
    BY DEF DeliveryInit, Accounted
  <1>2. /\ DeliveryTypeOK /\ IInv /\ IInv' /\ HandedOverReachesClient'
        /\ Accounted /\ [DeliveryNext]_deliveryVars
        => Accounted'
    <2> SUFFICES ASSUME DeliveryTypeOK, IInv, IInv', HandedOverReachesClient', Accounted,
                        [DeliveryNext]_deliveryVars, ~FaultyDb, NEW m \in 1..made'
                 PROVE  \/ m \in Taken'
                        \/ \E s \in Services : hand'[s] = m
                        \/ \E k \in rows' \cup pruned' : content'[k] = m
      BY DEF Accounted, Taken
    <2> DEFINE Goal == \/ m \in Taken'
                       \/ \E s \in Services : hand'[s] = m
                       \/ \E k \in rows' \cup pruned' : content'[k] = m
    <2>1. ASSUME m \in 1..made, ~\E s \in Services : hand[s] = m PROVE Goal
      <3>1. CASE m \in Taken
        BY <3>1, TakenGrows
      <3>2. CASE m \notin Taken
        <4>1. PICK k \in rows \cup pruned : content[k] = m
          BY <2>1, <3>2 DEF Accounted, Taken
        <4>2. content'[k] = m
          BY <4>1, ContentGrows DEF IInv, Ordered, Assigned
        <4> QED
          BY <4>1, <4>2, RowStaysAccounted
      <3> QED
        BY <3>1, <3>2
    <2>2. ASSUME NEW s \in Services, hand[s] = m PROVE Goal
      <3>0. m # 0
        BY ServiceAssumption DEF DeliveryTypeOK
      <3>1. CASE hand'[s] = m
        BY <3>1
      <3>2. CASE hand'[s] # m /\ ServiceStep(s)
        <4>1. StoreHand(s) /\ nextId \in Nat
          BY <3>2, BoundAssumption DEF ServiceStep, Fallback, StoreFn, DeliveryTypeOK, TypeOK
        <4>2. rows' = (rows \ Excess(rows)) \cup {nextId} /\ nextId' = nextId + 1
          BY <4>1 DEF StoreHand, Store, PruneOutcomes, InsertOutcomes
        <4>3. content'[nextId] = m
          BY <2>2, <3>0, <4>1, <4>2, StoreHandTypes
        <4> QED
          BY <4>2, <4>3
      <3>3. CASE hand'[s] # m /\ Restart
        BY <2>2, <3>0, <3>3 DEF Restart, Taken
      <3>4. CASE hand'[s] # m /\ ~ServiceStep(s) /\ ~Restart
        <4>1. PICK t \in Services : t = s /\ PublishNew(t)
          BY <2>2, <3>4 DEF DeliveryNext, PublishNew, ServiceStep, Fallback, StoreFn, Flush,
                      Reconnect, ConnectionLost, Ack, deliveryVars, serviceVars, DeliveryTypeOK
        <4> QED
          BY <2>2, <3>0, <4>1 DEF PublishNew, DeliveryTypeOK
      <3> QED
        BY <3>1, <3>2, <3>3, <3>4
    <2>3. ASSUME m \notin 1..made PROVE Goal
      <3>1. PICK s \in Services : PublishNew(s)
        BY <2>3 DEF DeliveryNext, ServiceStep, Fallback, StoreFn, StoreHand, Flush,
                    Reconnect, ConnectionLost, Ack, Restart, deliveryVars, serviceVars
      <3>2. m = made + 1
        BY <2>3, <3>1 DEF PublishNew, DeliveryTypeOK
      <3> QED
        BY <3>1, <3>2 DEF PublishNew, Publish, DeliveryTypeOK, Taken
    <2> QED
      BY <2>1, <2>2, <2>3
  <1> QED
    BY <1>1, <1>2, DeliveryTypeCorrect, DeliveryUsesBuffer, Inductive, HandedOverTaken,
       PTL DEF DeliverySpec
=============================================================================
