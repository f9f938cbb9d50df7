---------------------------- MODULE ReplayQueue ----------------------------
(***************************************************************************)
(* What the buffer promises (src/src/buffer/LocalBuffer.hpp:11-16): an     *)
(* outbox that survives restarts.  Messages are numbered as they are       *)
(* accepted; each is handed over at least once, for the first time in the  *)
(* order of acceptance, unless it was dropped as one of the oldest.  A     *)
(* dropped message may still be handed over late, by a flush that had read *)
(* it before it was dropped.  Repeated hand-overs are stuttering steps.    *)
(***************************************************************************)
EXTENDS Naturals

CONSTANT MaxId    \* bound: number of messages ever accepted

VARIABLES accepted, delivered, dropped

vars == <<accepted, delivered, dropped>>

(* Accepted and neither handed over nor dropped: owed to the broker. *)
Pending == {m \in 1..accepted : m \notin delivered \cup dropped}

Init == accepted = 0 /\ delivered = {} /\ dropped = {}

(* D is a set of the oldest pending messages (and of messages that are not *)
(* pending any more).                                                      *)
OldestPending(D) ==
    /\ D \subseteq 1..accepted
    /\ \A d \in D, m \in Pending : m < d => m \in D

(* The oldest may be dropped to make room, for one new message or in vain. *)
Accept ==
    \E D \in SUBSET (1..accepted) :
        /\ OldestPending(D)
        /\ dropped' = dropped \cup D
        /\ accepted' \in {accepted, accepted + 1}
        /\ accepted' <= MaxId
        /\ UNCHANGED delivered

(* The first hand-over of the oldest pending message. *)
Deliver ==
    \E m \in Pending :
        /\ \A j \in Pending : m <= j
        /\ delivered' = delivered \cup {m}
        /\ UNCHANGED <<accepted, dropped>>

(* A message read by a flush before it was dropped is handed over all the  *)
(* same.                                                                   *)
DeliverDropped ==
    \E m \in dropped :
        /\ delivered' = delivered \cup {m}
        /\ UNCHANGED <<accepted, dropped>>

Next == Accept \/ Deliver \/ DeliverDropped

Spec == Init /\ [][Next]_vars
=============================================================================
