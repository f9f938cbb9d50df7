------------------------------ MODULE Delivery ------------------------------
(***************************************************************************)
(* How a message travels from a service to the broker: the publish lambda  *)
(* of main.cpp:611-615 in front of the MQTT client and the LocalBuffer,    *)
(* the second fallback of LogCollector::collectAndPublish, the flush that  *)
(* the connected callback starts on a detached thread, and the deliveries  *)
(* that Paho still has in flight when the connection breaks.               *)
(*                                                                         *)
(* A message is its number.  The connection is what publish() can see of   *)
(* it: up or down (module MqttClient models how it is lost and regained).  *)
(***************************************************************************)
EXTENDS LocalBuffer, Sequences

CONSTANTS
    Services,     \* threads that publish through the lambda
    Collectors,   \* those that store the message themselves when it fails
    MaxMsgs       \* bound: number of messages produced

ASSUME ServiceAssumption == Collectors \subseteq Services /\ MaxMsgs \in Nat

VARIABLES
    link,      \* "up" or "down"
    made,      \* number of messages produced so far
    hand,      \* the message each service is publishing, 0 for none
    stage,     \* where each service is in publishing it
    content,   \* content[k] is the message in row k (on disk)
    inflight,  \* accepted by MQTTClient_publishMessage, not acknowledged
    received,  \* acknowledged by the broker
    dropped    \* history: lost by Paho with its connection, or in a crash

linkVars == <<link, inflight, received, dropped>>
serviceVars == <<made, hand, stage, content>>
deliveryVars == <<bufferVars, linkVars, serviceVars>>

Msgs == 1..MaxMsgs

-----------------------------------------------------------------------------
DeliveryInit ==
    /\ Init
    /\ link = "down"
    /\ made = 0
    /\ hand = [s \in Services |-> 0]
    /\ stage = [s \in Services |-> "idle"]
    /\ content = <<>>
    /\ inflight = {}
    /\ received = {}
    /\ dropped = {}

(* MQTTClientWrapper::publish: true once Paho has taken the message, false *)
(* when there is no connection.  The in-flight window blocks, it does not  *)
(* refuse, so a publish on a live connection succeeds.                     *)
Publish(m) ==
    /\ link = "up"
    /\ inflight' = inflight \cup {m}
    /\ UNCHANGED <<link, received, dropped>>

Refused == link = "down" /\ UNCHANGED linkVars

(* Mutant of PublishNew: the lambda without its fallback to the buffer. *)
PublishWithoutFallback(s) ==
    /\ stage[s] = "idle"
    /\ made < MaxMsgs
    /\ made' = made + 1
    /\ Publish(made + 1) \/ Refused
    /\ UNCHANGED <<hand, stage, content, bufferVars>>

(* A service produces a message and calls the lambda. *)
PublishNew(s) ==
    /\ stage[s] = "idle"
    /\ made < MaxMsgs
    /\ made' = made + 1
    /\ \/ /\ Publish(made + 1)
          /\ UNCHANGED <<hand, stage>>
       \/ /\ Refused
          /\ hand' = [hand EXCEPT ![s] = made + 1]
          /\ stage' = [stage EXCEPT ![s] = "fallback"]
    /\ UNCHANGED <<content, bufferVars>>

(* buffer->store of the message in hand, which then has row nextId. *)
StoreHand(s) ==
    /\ Store
    /\ content' = IF nextId' = nextId THEN content ELSE Append(content, hand[s])
    /\ UNCHANGED <<made, linkVars>>

(* The lambda's fallback; it returns false all the same. *)
Fallback(s) ==
    /\ stage[s] = "fallback"
    /\ StoreHand(s)
    /\ IF s \in Collectors
       THEN stage' = [stage EXCEPT ![s] = "storeFn"] /\ UNCHANGED hand
       ELSE stage' = [stage EXCEPT ![s] = "idle"] /\ hand' = [hand EXCEPT ![s] = 0]

(* Mutant of StoreFn: the batch is kept after it has been stored. *)
StoreFnKeepsBatch(s) ==
    /\ stage[s] = "storeFn"
    /\ StoreHand(s)
    /\ stage' = [stage EXCEPT ![s] = "idle"]
    /\ UNCHANGED hand

(* LogCollector calls store_fn_ because publish_fn_ returned false. *)
StoreFn(s) ==
    /\ stage[s] = "storeFn"
    /\ StoreHand(s)
    /\ stage' = [stage EXCEPT ![s] = "idle"]
    /\ hand' = [hand EXCEPT ![s] = 0]

(* Mutant of FlushPublish: what publish() returns is not looked at. *)
FlushPublishBlindly(f) ==
    /\ PublishOk(f)
    /\ \/ \E k \in todo[f] : IsFirst(k, todo[f]) /\ Publish(content[k])
       \/ Refused

(* The flush's publish goes to the same client. *)
FlushPublish(f) ==
    \/ /\ PublishOk(f)
       /\ \E k \in todo[f] : IsFirst(k, todo[f]) /\ Publish(content[k])
    \/ PublishFail(f) /\ Refused

FlushLocal(f) == (Fetch(f) \/ Delete(f)) /\ UNCHANGED linkVars

Flush(f) == (FlushPublish(f) \/ FlushLocal(f)) /\ UNCHANGED serviceVars

(* Connected again: the callback starts a flush on a thread of its own. *)
Reconnect ==
    /\ link = "down"
    /\ link' = "up"
    /\ \E f \in Flushers : StartFlush(f)
    /\ UNCHANGED <<inflight, received, dropped, serviceVars>>

(* A clean session and no persistence: what was in flight is forgotten. *)
ConnectionLost ==
    /\ link = "up"
    /\ link' = "down"
    /\ inflight' = {}
    /\ dropped' = dropped \cup inflight
    /\ UNCHANGED <<received, serviceVars, bufferVars>>

(* The broker's PUBACK. *)
Ack ==
    /\ link = "up"
    /\ \E m \in inflight :
        /\ inflight' = inflight \ {m}
        /\ received' = received \cup {m}
    /\ UNCHANGED <<link, dropped, serviceVars, bufferVars>>

(* The process dies; only the table survives. *)
Restart ==
    /\ Crash
    /\ link' = "down"
    /\ inflight' = {}
    /\ hand' = [s \in Services |-> 0]
    /\ stage' = [s \in Services |-> "idle"]
    /\ dropped' = dropped \cup inflight \cup {hand[s] : s \in {t \in Services : hand[t] # 0}}
    /\ UNCHANGED <<made, content, received>>

ServiceStep(s) == Fallback(s) \/ StoreFn(s)

DeliveryNext ==
    \/ \E s \in Services : PublishNew(s) \/ ServiceStep(s)
    \/ \E f \in Flushers : Flush(f)
    \/ Reconnect
    \/ ConnectionLost
    \/ Ack
    \/ Restart

DeliverySpec == DeliveryInit /\ [][DeliveryNext]_deliveryVars

(* Threads that have work are scheduled.  Nothing says that the broker     *)
(* stays away or that it comes back.                                       *)
FairDeliverySpec ==
    /\ DeliverySpec
    /\ \A f \in Flushers : WF_deliveryVars(Flush(f))
    /\ \A s \in Services : WF_deliveryVars(ServiceStep(s))

-----------------------------------------------------------------------------
DeliveryTypeOK ==
    /\ TypeOK
    /\ link \in {"up", "down"}
    /\ made \in 0..MaxMsgs
    /\ hand \in [Services -> 0..MaxMsgs]
    /\ stage \in [Services -> {"idle", "fallback", "storeFn"}]
    /\ content \in Seq(Msgs) /\ Len(content) = nextId - 1
    /\ inflight \cup received \cup dropped \subseteq Msgs
    /\ \A s \in Services : hand[s] = 0 <=> stage[s] = "idle"

(* No message disappears between the lambda, the buffer, the flush and the *)
(* client: until it is received it is in a service's hand, in a row, or in *)
(* flight, unless a row was pruned or a connection or process died with    *)
(* it.  A failed INSERT is only logged, so statements must not fail.       *)
Accounted ==
    ~FaultyDb => \A m \in 1..made :
        \/ m \in inflight \cup received \cup dropped
        \/ \E s \in Services : hand[s] = m
        \/ \E k \in rows \cup pruned : content[k] = m

(* The flush hands rows over only to a client that takes them: what was    *)
(* handed over reached the client with the content of its row.             *)
HandedOverReachesClient ==
    \A k \in published : content[k] \in inflight \cup received \cup dropped

(* While the connection holds, a flush that is under way empties the table:*)
(* no row it found, or that was added before it ended, is left behind.     *)
FlushEmptiesTable ==
    \A k \in Ids :
        k \in rows /\ (\E f \in Flushers : pc[f] # "idle")
            ~> k \notin rows \/ link = "down"
=============================================================================
