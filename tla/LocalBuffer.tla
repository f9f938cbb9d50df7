---------------------------- MODULE LocalBuffer ----------------------------
(***************************************************************************)
(* The persistent outbox of the agent: src/src/buffer/LocalBuffer.cpp.     *)
(*                                                                         *)
(* A row of the SQLite table is its AUTOINCREMENT id: ids grow and are     *)
(* never used twice, so they also stand for the messages.  store() holds   *)
(* mu_ from start to end and is one action.  flush() holds mu_ only for    *)
(* the SELECT and for each DELETE, and calls flush_fn_ without it: each of *)
(* these is an action of the thread that runs the flush.  Flushes run on   *)
(* the detached threads of the connected callback (main.cpp:541-544) and   *)
(* on the main thread at shutdown (main.cpp:713-715), so several overlap.  *)
(***************************************************************************)
EXTENDS Integers, FiniteSets

CONSTANTS
    Flushers,     \* threads that may run flush()
    MaxId,        \* bound: number of rows ever inserted
    BatchSize,    \* BUFFER_FLUSH_BATCH_SIZE
    MaxMessages,  \* BUFFER_MAX_MESSAGES
    PruneExtra,   \* the 1000 of pruneIfNeeded
    FaultyDb      \* TRUE when SQLite statements may fail (disk full, I/O error)

ASSUME BoundAssumption == MaxId \in Nat
ASSUME LimitAssumption ==
    /\ BatchSize \in Nat \ {0}
    /\ MaxMessages \in Nat \ {0}
    /\ PruneExtra \in Nat \ {0}
ASSUME FaultAssumption == FaultyDb \in BOOLEAN

VARIABLES
    rows,       \* ids in the table (on disk: survives Crash)
    nextId,     \* the next AUTOINCREMENT id (on disk)
    pc,         \* where each flush is
    todo,       \* rows of the flush's batch not yet dealt with
    published,  \* history: ids for which flush_fn_ returned true
    pruned,     \* history: ids deleted by pruneIfNeeded
    orphaned    \* history: ids published whose DELETE was lost

bufferVars == <<rows, nextId, pc, todo, published, pruned, orphaned>>

Ids == 1..MaxId

-----------------------------------------------------------------------------
(* The first n of S by id: ORDER BY id ASC LIMIT n. *)
Oldest(S, n) == {x \in S : Cardinality({y \in S : y < x}) < n}

(* k is the row of S that the loop over the batch has reached. *)
IsFirst(k, S) == k \in S /\ \A j \in S : k <= j

(* Mutants of Excess: the newest rows are pruned (ORDER BY id DESC), and   *)
(* the cap is compared with > instead of >=.                               *)
ExcessNewest(S) ==
    IF Cardinality(S) >= MaxMessages
    THEN {x \in S : Cardinality({y \in S : y > x}) < Cardinality(S) - MaxMessages + PruneExtra}
    ELSE {}

ExcessTooLate(S) ==
    IF Cardinality(S) > MaxMessages
    THEN Oldest(S, Cardinality(S) - MaxMessages + PruneExtra)
    ELSE {}

(* What pruneIfNeeded deletes from a table that holds S. *)
Excess(S) ==
    IF Cardinality(S) >= MaxMessages
    THEN Oldest(S, Cardinality(S) - MaxMessages + PruneExtra)
    ELSE {}

(* A statement that fails is logged or ignored, and the next one is tried. *)
PruneOutcomes == IF FaultyDb THEN {{}, Excess(rows)} ELSE {Excess(rows)}
InsertOutcomes == IF FaultyDb THEN {{}, {nextId}} ELSE {{nextId}}

(* Mutant of FetchOutcomes: the SELECT lacks its ORDER BY. *)
FetchUnordered == {B \in SUBSET rows : Cardinality(B) <= BatchSize}

FetchOutcomes ==
    IF FaultyDb THEN {Oldest(rows, n) : n \in 0..BatchSize}
                ELSE {Oldest(rows, BatchSize)}
DeleteOutcomes(k) == IF FaultyDb THEN {{}, {k}} ELSE {{k}}

-----------------------------------------------------------------------------
Init ==
    /\ rows = {}
    /\ nextId = 1
    /\ pc = [f \in Flushers |-> "idle"]
    /\ todo = [f \in Flushers |-> {}]
    /\ published = {}
    /\ pruned = {}
    /\ orphaned = {}

(* store(): prune, then insert, under mu_. *)
Store ==
    /\ nextId <= MaxId
    /\ \E P \in PruneOutcomes, I \in InsertOutcomes :
        /\ rows' = (rows \ P) \cup I
        /\ pruned' = pruned \cup P
        /\ nextId' = IF I = {} THEN nextId ELSE nextId + 1
    /\ UNCHANGED <<pc, todo, published, orphaned>>

(* flush() is entered. *)
StartFlush(f) ==
    /\ pc[f] = "idle"
    /\ pc' = [pc EXCEPT ![f] = "fetch"]
    /\ UNCHANGED <<rows, nextId, todo, published, pruned, orphaned>>

(* Mutant of Fetch: rows are deleted when they are read, not when they have *)
(* been handed over.                                                        *)
FetchAndDelete(f) ==
    /\ pc[f] = "fetch"
    /\ \E B \in FetchOutcomes :
        /\ todo' = [todo EXCEPT ![f] = B]
        /\ rows' = rows \ B
        /\ pc' = [pc EXCEPT ![f] = IF B = {} THEN "idle" ELSE "publish"]
    /\ UNCHANGED <<nextId, published, pruned, orphaned>>

(* The SELECT, under mu_; an empty batch ends the flush. *)
Fetch(f) ==
    /\ pc[f] = "fetch"
    /\ \E B \in FetchOutcomes :
        /\ todo' = [todo EXCEPT ![f] = B]
        /\ pc' = [pc EXCEPT ![f] = IF B = {} THEN "idle" ELSE "publish"]
    /\ UNCHANGED <<rows, nextId, published, pruned, orphaned>>

(* The place of the loop after row k of f's batch has been dealt with. *)
AfterRow(f, k, last) ==
    /\ todo' = [todo EXCEPT ![f] = @ \ {k}]
    /\ pc' = [pc EXCEPT ![f] = IF todo[f] = {k} THEN last ELSE "publish"]

(* Mutant of PublishOk: the DELETE after the hand-over is forgotten. *)
PublishWithoutDelete(f) ==
    /\ pc[f] = "publish"
    /\ \E k \in todo[f] :
        /\ IsFirst(k, todo[f])
        /\ published' = published \cup {k}
        /\ AfterRow(f, k, "fetch")
    /\ UNCHANGED <<rows, nextId, pruned, orphaned>>

(* flush_fn_ returns true for row k, which need not be in the table now. *)
PublishOk(f) ==
    /\ pc[f] = "publish"
    /\ \E k \in todo[f] :
        /\ IsFirst(k, todo[f])
        /\ published' = published \cup {k}
    /\ pc' = [pc EXCEPT ![f] = "delete"]
    /\ UNCHANGED <<rows, nextId, todo, pruned, orphaned>>

(* Mutant of PublishFail: the row is skipped instead (continue, not return). *)
SkipFailedRow(f) ==
    /\ pc[f] = "publish"
    /\ \E k \in todo[f] :
        /\ IsFirst(k, todo[f])
        /\ AfterRow(f, k, "fetch")
    /\ UNCHANGED <<rows, nextId, published, pruned, orphaned>>

(* flush_fn_ returns false: the flush gives up, its rows stay. *)
PublishFail(f) ==
    /\ pc[f] = "publish"
    /\ pc' = [pc EXCEPT ![f] = "idle"]
    /\ todo' = [todo EXCEPT ![f] = {}]
    /\ UNCHANGED <<rows, nextId, published, pruned, orphaned>>

(* Mutants of Delete: one batch is flushed only; the end of the batch goes  *)
(* unnoticed.                                                               *)
DeleteThen(f, last) ==
    /\ pc[f] = "delete"
    /\ \E k \in todo[f] :
        /\ IsFirst(k, todo[f])
        /\ rows' = rows \ {k}
        /\ AfterRow(f, k, last)
    /\ UNCHANGED <<nextId, published, pruned, orphaned>>

DeleteEndsFlush(f) == DeleteThen(f, "idle")
DeleteOverrunsBatch(f) == DeleteThen(f, "publish")

(* The DELETE, under mu_, then the next row or the next batch. *)
Delete(f) ==
    /\ pc[f] = "delete"
    /\ \E k \in todo[f] :
        /\ IsFirst(k, todo[f])
        /\ \E D \in DeleteOutcomes(k) :
            /\ rows' = rows \ D
            /\ orphaned' = orphaned \cup ({k} \ D)
        /\ AfterRow(f, k, "fetch")
    /\ UNCHANGED <<nextId, published, pruned>>

(* Rows handed over whose DELETE has not run yet. *)
InDoubt == {k \in Ids : \E f \in Flushers : pc[f] = "delete" /\ IsFirst(k, todo[f])}

(* The process dies and is started again.  A store() it cut short may have *)
(* pruned without inserting: each statement is its own transaction.        *)
Crash ==
    /\ \E P \in {{}, Excess(rows)} :
        /\ rows' = rows \ P
        /\ pruned' = pruned \cup P
    /\ orphaned' = orphaned \cup InDoubt
    /\ pc' = [f \in Flushers |-> "idle"]
    /\ todo' = [f \in Flushers |-> {}]
    /\ UNCHANGED <<nextId, published>>

FlushStep(f) == Fetch(f) \/ PublishOk(f) \/ PublishFail(f) \/ Delete(f)

Next ==
    \/ Store
    \/ Crash
    \/ \E f \in Flushers : StartFlush(f) \/ FlushStep(f)

Spec == Init /\ [][Next]_bufferVars

(* A thread inside flush() is scheduled, and flush_fn_ returns. *)
FairSpec == Spec /\ \A f \in Flushers : WF_bufferVars(FlushStep(f))

-----------------------------------------------------------------------------
(* Types; a flush has a batch exactly while it publishes and deletes.      *)
TypeOK ==
    /\ rows \subseteq Ids
    /\ nextId \in 1..(MaxId + 1)
    /\ pc \in [Flushers -> {"idle", "fetch", "publish", "delete"}]
    /\ todo \in [Flushers -> SUBSET Ids]
    /\ published \subseteq Ids
    /\ pruned \subseteq Ids
    /\ orphaned \subseteq Ids
    /\ \A f \in Flushers : todo[f] = {} <=> pc[f] \in {"idle", "fetch"}

(* Every row ever inserted is still in the table, was handed over, or was  *)
(* pruned at capacity: no interleaving of flushes, stores, crashes and     *)
(* statement failures makes a row vanish (store 76-97, flush 103-156).     *)
NoLoss == \A j \in Ids : j < nextId => j \in rows \cup published \cup pruned

(* Rows are handed over oldest first: when k has been handed over, each    *)
(* older row was handed over before or was pruned, even when several       *)
(* flushes work on overlapping batches (ORDER BY id, stop at first false). *)
HandedOverInOrder ==
    \A k \in published : \A j \in 1..(k - 1) : j \in published \cup pruned

(* Handing k over for the second time needs a cause: a DELETE that was     *)
(* lost, or another flush.  With one flush at a time only the first is     *)
(* left (publish at 130, DELETE at 136-144).                               *)
SecondCopyHasCause ==
    \A f \in Flushers, k \in published :
        pc[f] = "publish" /\ IsFirst(k, todo[f]) =>
            k \in orphaned \/ Flushers # {f}

(* A row that was handed over and is still in the table is about to be     *)
(* deleted by the flush that handed it over, or its DELETE was lost: the   *)
(* window in which a restart produces a duplicate is one row per flush.    *)
DuplicateWindow == published \cap rows \subseteq InDoubt \cup orphaned

(* The cap of LocalBuffer.hpp:16, which pruning before each insert keeps.  *)
CapacityBound == ~FaultyDb => Cardinality(rows) <= MaxMessages

(* A row leaves the table only after it was handed over, or because the    *)
(* table is full and the row is older than every row that stays.           *)
RemovalJustified ==
    [][\A k \in rows \ rows' :
        \/ k \in published
        \/ Cardinality(rows) >= MaxMessages /\ \A j \in rows' : k < j]_bufferVars

(* flush() and store() implement the outbox that LocalBuffer.hpp promises. *)
Outbox == INSTANCE ReplayQueue WITH
    accepted <- nextId - 1, delivered <- published, dropped <- pruned

OutboxSpec == Outbox!Spec
=============================================================================
