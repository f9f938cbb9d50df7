----------------------------- MODULE MqttClient -----------------------------
(***************************************************************************)
(* The connection: src/src/mqtt/MQTTClient.cpp.                            *)
(*                                                                         *)
(* Two pieces of state say whether the client is connected: the wrapper's  *)
(* flag connected_, written by whoever connects and by the connection-lost *)
(* callback, and Paho's own state.  The main thread connects once; each    *)
(* loss makes Paho call onConnectionLost on a thread of its own, which     *)
(* starts a detached reconnectLoop, while main subscribes and disconnects. *)
(* Sessions are clean: the broker forgets the subscriptions on a loss.     *)
(*                                                                         *)
(* The same steps describe the client of the onboarding.  For the client   *)
(* of the device main attaches the MQTT sink to the logger at last         *)
(* (main.cpp:677).  From then on a record is a publish: when that is       *)
(* refused, its thread waits for itself and holds the mutexes of the sink  *)
(* and of publish() for ever (LogSink), and every thread that logs after   *)
(* it waits too.                                                           *)
(***************************************************************************)
EXTENDS Naturals, FiniteSets

CONSTANTS
    Main,       \* the thread that calls connect()
    Loops,      \* threads that may run reconnectLoop
    Topics,     \* topics that are subscribed to
    WithSink,   \* the MQTT sink is attached at some time
    MaxLosses   \* bound: number of connections lost

ASSUME ThreadAssumption == Main \notin Loops /\ WithSink \in BOOLEAN /\ MaxLosses \in Nat

Threads == {Main} \cup Loops

VARIABLES
    up,             \* Paho is connected (MQTTClient_isConnected)
    connected,      \* the flag connected_
    losses,         \* connections lost so far
    lost,           \* the connection-lost callback: "no", "called", "cleared"
    pc,             \* where each connecting thread is
    resub,          \* topics a connecting thread has still to subscribe
    subscriptions,  \* subscriptions_
    session,        \* topics the broker has for this connection
    refused,        \* history: topics whose subscription has failed since connecting
    caller,         \* where subscribe(t) is, for each topic
    hangup,         \* where disconnect() is
    shutdown,       \* shutdown_: the destructor has begun
    logging         \* "local", "mqtt" (sink attached) or "jammed"

topicVars == <<resub, subscriptions, session, refused, caller>>
stopVars == <<hangup, shutdown>>
vars == <<up, connected, losses, lost, pc, topicVars, stopVars, logging>>

(* A record of INFO or above is written and its thread goes on. *)
Logs == logging = "local" \/ (logging = "mqtt" /\ connected /\ up)

(* sub_mutex_ is held while the topics are subscribed again. *)
SubMutexFree == \A l \in Threads : pc[l] # "resub"

-----------------------------------------------------------------------------
Init ==
    /\ up = FALSE
    /\ connected = FALSE
    /\ losses = 0
    /\ lost = "no"
    /\ pc = [l \in Threads |-> IF l = Main THEN "dial" ELSE "none"]
    /\ resub = [l \in Threads |-> {}]
    /\ subscriptions = {}
    /\ session = {}
    /\ refused = {}
    /\ caller = [t \in Topics |-> "idle"]
    /\ hangup = "no"
    /\ shutdown = FALSE
    /\ logging = "local"

(* while (!shutdown_ && !connected_), and a record before the backoff *)
LoopTest(l) ==
    /\ pc[l] = "test"
    /\ \/ (shutdown \/ connected) /\ pc' = [pc EXCEPT ![l] = "none"]
       \/ ~shutdown /\ ~connected /\ Logs /\ pc' = [pc EXCEPT ![l] = "sleep"]
    /\ UNCHANGED <<up, connected, losses, lost, topicVars, stopVars, logging>>

(* The backoff is over; only shutdown_ is looked at again. *)
LoopAwake(l) ==
    /\ pc[l] = "sleep"
    /\ pc' = [pc EXCEPT ![l] = IF shutdown THEN "none" ELSE "dial"]
    /\ UNCHANGED <<up, connected, losses, lost, topicVars, stopVars, logging>>

(* Mutant of DialOk: the assignment to connected_ is forgotten. *)
DialOkForgetsFlag(l) ==
    /\ pc[l] = "dial"
    /\ up' = TRUE
    /\ session' = {} /\ refused' = {}
    /\ pc' = [pc EXCEPT ![l] = "log"]
    /\ UNCHANGED <<connected, losses, lost, resub, subscriptions, caller, stopVars, logging>>

(* MQTTClient_connect succeeds: Paho is connected, connected_ not yet set. *)
DialOk(l) ==
    /\ pc[l] = "dial"
    /\ up' = TRUE
    /\ session' = {} /\ refused' = {}
    /\ pc' = [pc EXCEPT ![l] = "set"]
    /\ UNCHANGED <<connected, losses, lost, resub, subscriptions, caller, stopVars, logging>>

(* Mutants of DialFail: the loop gives up, and it starts another loop.     *)
DialFailGivesUp(l) ==
    /\ pc[l] = "dial"
    /\ pc' = [pc EXCEPT ![l] = "none"]
    /\ UNCHANGED <<up, connected, losses, lost, topicVars, stopVars, logging>>

DialFailRespawns(l) ==
    /\ pc[l] = "dial"
    /\ \E m \in Loops :
        /\ pc[m] = "none"
        /\ pc' = [pc EXCEPT ![l] = "test", ![m] = "test"]
    /\ UNCHANGED <<up, connected, losses, lost, topicVars, stopVars, logging>>

(* It fails: the loop tries again, connect() returns false and main exits. *)
DialFail(l) ==
    /\ pc[l] = "dial"
    /\ pc' = [pc EXCEPT ![l] = IF l = Main THEN "none" ELSE "test"]
    /\ UNCHANGED <<up, connected, losses, lost, topicVars, stopVars, logging>>

(* Mutant of SetConnected: the topics are not subscribed again. *)
SetConnectedOnly(l) ==
    /\ pc[l] = "set"
    /\ connected' = TRUE
    /\ pc' = [pc EXCEPT ![l] = "none"]
    /\ UNCHANGED <<up, losses, lost, topicVars, stopVars, logging>>

(* connected_ = true *)
SetConnected(l) ==
    /\ pc[l] = "set"
    /\ connected' = TRUE
    /\ pc' = [pc EXCEPT ![l] = "log"]
    /\ UNCHANGED <<up, losses, lost, topicVars, stopVars, logging>>

(* The record that the client is connected (again). *)
Announce(l) ==
    /\ pc[l] = "log"
    /\ Logs
    /\ pc' = [pc EXCEPT ![l] = "lock"]
    /\ UNCHANGED <<up, connected, losses, lost, topicVars, stopVars, logging>>

(* Under sub_mutex_, each registered topic is subscribed; the return code  *)
(* is ignored.                                                             *)
LockSubscriptions(l) ==
    /\ pc[l] = "lock"
    /\ SubMutexFree
    /\ pc' = [pc EXCEPT ![l] = "resub"]
    /\ resub' = [resub EXCEPT ![l] = subscriptions]
    /\ UNCHANGED <<up, connected, losses, lost, subscriptions, session, refused, caller, stopVars, logging>>

(* MQTTClient_subscribe: the broker grants the topic, or the call fails. *)
BrokerSubscribe(t) ==
    \/ up /\ session' = session \cup {t} /\ UNCHANGED refused
    \/ refused' = refused \cup {t} /\ UNCHANGED session

Resubscribe(l) ==
    /\ pc[l] = "resub"
    /\ \E t \in resub[l] :
        /\ BrokerSubscribe(t)
        /\ resub' = [resub EXCEPT ![l] = @ \ {t}]
    /\ UNCHANGED <<up, connected, losses, lost, pc, subscriptions, caller, stopVars, logging>>

(* Mutant of ConnectedCallback: the loop goes on instead of returning. *)
CallbackWithoutReturn(l) ==
    /\ pc[l] = "resub"
    /\ resub[l] = {}
    /\ pc' = [pc EXCEPT ![l] = "test"]
    /\ UNCHANGED <<up, connected, losses, lost, topicVars, stopVars, logging>>

(* All tried: the connected callback logs and starts a flush (Delivery).   *)
ConnectedCallback(l) ==
    /\ pc[l] = "resub"
    /\ resub[l] = {}
    /\ Logs
    /\ pc' = [pc EXCEPT ![l] = "none"]
    /\ UNCHANGED <<up, connected, losses, lost, topicVars, stopVars, logging>>

-----------------------------------------------------------------------------
(* The network or the broker drops the connection; Paho calls back. *)
Lose ==
    /\ up
    /\ losses < MaxLosses
    /\ losses' = losses + 1
    /\ up' = FALSE
    /\ session' = {}
    /\ lost' = "called"
    /\ UNCHANGED <<connected, pc, resub, subscriptions, refused, caller, stopVars, logging>>

(* onConnectionLost: a record, then connected_ = false, *)
ClearConnected ==
    /\ lost = "called"
    /\ Logs
    /\ lost' = "cleared"
    /\ connected' = FALSE
    /\ UNCHANGED <<up, losses, pc, topicVars, stopVars, logging>>

(* then, unless shutdown_, a thread that runs reconnectLoop. *)
SpawnLoop ==
    /\ lost = "cleared"
    /\ lost' = "no"
    /\ IF shutdown
       THEN UNCHANGED pc
       ELSE \E l \in Loops : pc[l] = "none" /\ pc' = [pc EXCEPT ![l] = "test"]
    /\ UNCHANGED <<up, connected, losses, topicVars, stopVars, logging>>

-----------------------------------------------------------------------------
(* Main subscribes between connect() and disconnect(), before it attaches  *)
(* the sink (CommandExecutor.cpp:73-74, main.cpp:274).                     *)
Subscribing == \E t \in Topics : caller[t] \in {"registered", "subscribing"}
MainFree == pc[Main] = "none" /\ hangup = "no" /\ ~shutdown /\ ~Subscribing

(* subscribe(t): the topic is registered first, *)
Register(t) ==
    /\ MainFree
    /\ logging = "local"
    /\ caller[t] = "idle"
    /\ SubMutexFree
    /\ subscriptions' = subscriptions \cup {t}
    /\ caller' = [caller EXCEPT ![t] = "registered"]
    /\ UNCHANGED <<up, connected, losses, lost, pc, resub, session, refused, stopVars, logging>>

(* then, when isConnected(), subscribed; otherwise that is deferred. *)
CheckConnected(t) ==
    /\ caller[t] = "registered"
    /\ caller' = [caller EXCEPT ![t] = IF connected /\ up THEN "subscribing" ELSE "returned"]
    /\ UNCHANGED <<up, connected, losses, lost, pc, resub, subscriptions, session, refused, stopVars, logging>>

(* Its result is returned, and looked at by none of the two callers. *)
Subscribe(t) ==
    /\ caller[t] = "subscribing"
    /\ BrokerSubscribe(t)
    /\ caller' = [caller EXCEPT ![t] = "returned"]
    /\ UNCHANGED <<up, connected, losses, lost, pc, resub, subscriptions, stopVars, logging>>

-----------------------------------------------------------------------------
(* main.cpp:672-679 *)
Attach ==
    /\ WithSink
    /\ MainFree
    /\ logging = "local"
    /\ logging' = "mqtt"
    /\ UNCHANGED <<up, connected, losses, lost, pc, topicVars, stopVars>>

(* A publish of any thread is refused or fails, and logs that. *)
Jam ==
    /\ logging = "mqtt"
    /\ logging' = "jammed"
    /\ UNCHANGED <<up, connected, losses, lost, pc, topicVars, stopVars>>

-----------------------------------------------------------------------------
(* main.cpp:344, 703-717; connect() and subscribe() have returned before. *)
Disconnect ==
    /\ MainFree
    /\ Logs
    /\ hangup' = "test"
    /\ UNCHANGED <<up, connected, losses, lost, pc, topicVars, shutdown, logging>>

(* disconnect(): if (!connected_) return; *)
TestConnected ==
    /\ hangup = "test"
    /\ hangup' = IF connected THEN "drop" ELSE "done"
    /\ UNCHANGED <<up, connected, losses, lost, pc, topicVars, shutdown, logging>>

(* MQTTClient_disconnect waits for messages in flight and disconnects. *)
DropConnection ==
    /\ hangup = "drop"
    /\ hangup' = "clear"
    /\ up' = FALSE
    /\ session' = {}
    /\ UNCHANGED <<connected, losses, lost, pc, resub, subscriptions, refused, caller, shutdown, logging>>

(* connected_ = false, *)
ClearAfterDrop ==
    /\ hangup = "clear"
    /\ hangup' = "log"
    /\ connected' = FALSE
    /\ UNCHANGED <<up, losses, lost, pc, topicVars, shutdown, logging>>

(* and a record, which the sink could only publish on a new connection. *)
LogDisconnected ==
    /\ hangup = "log"
    /\ Logs
    /\ hangup' = "done"
    /\ UNCHANGED <<up, connected, losses, lost, pc, topicVars, shutdown, logging>>

(* The destructor: shutdown_ = true, and disconnect() once more; without   *)
(* an earlier one when connect() or doOnboarding() has failed.             *)
Destroy ==
    /\ MainFree \/ (hangup = "done" /\ ~shutdown)
    /\ Logs
    /\ shutdown' = TRUE
    /\ hangup' = "test"
    /\ UNCHANGED <<up, connected, losses, lost, pc, topicVars, logging>>

ConnectStep(l) ==
    \/ LoopTest(l) \/ LoopAwake(l) \/ DialOk(l) \/ DialFail(l) \/ SetConnected(l)
    \/ Announce(l) \/ LockSubscriptions(l) \/ Resubscribe(l) \/ ConnectedCallback(l)

LostStep == ClearConnected \/ SpawnLoop

CallerStep(t) == Register(t) \/ CheckConnected(t) \/ Subscribe(t)

StopStep ==
    \/ Disconnect \/ TestConnected \/ DropConnection \/ ClearAfterDrop
    \/ LogDisconnected \/ Destroy

Next ==
    \/ \E l \in Threads : ConnectStep(l)
    \/ Lose
    \/ LostStep
    \/ \E t \in Topics : CallerStep(t)
    \/ Attach
    \/ Jam
    \/ StopStep

Spec == Init /\ [][Next]_vars

(* Threads are scheduled, a backoff ends, and a thread that keeps trying   *)
(* to connect is let in at last.  A record that goes to a refused publish  *)
(* never returns: the steps that log are enabled only when it does.        *)
FairSpec ==
    /\ Spec
    /\ \A l \in Threads : WF_vars(ConnectStep(l)) /\ SF_vars(DialOk(l))
    /\ WF_vars(LostStep)
    /\ \A t \in Topics : WF_vars(CheckConnected(t) \/ Subscribe(t))

-----------------------------------------------------------------------------
TypeOK ==
    /\ up \in BOOLEAN /\ connected \in BOOLEAN
    /\ losses \in 0..MaxLosses
    /\ lost \in {"no", "called", "cleared"}
    /\ pc \in [Threads -> {"none", "test", "sleep", "dial", "set", "log", "lock", "resub"}]
    /\ resub \in [Threads -> SUBSET subscriptions]
    /\ subscriptions \subseteq Topics
    /\ session \subseteq subscriptions /\ refused \subseteq subscriptions
    /\ caller \in [Topics -> {"idle", "registered", "subscribing", "returned"}]
    /\ hangup \in {"no", "test", "drop", "clear", "log", "done"}
    /\ shutdown \in BOOLEAN
    /\ logging \in {"local", "mqtt", "jammed"}

(* Two threads never try to connect at the same time, although each loss   *)
(* starts a loop and a loop does not look at connected_ after its sleep.   *)
OneDialer ==
    \A l, m \in Threads :
        pc[l] \in {"sleep", "dial"} /\ pc[m] \in {"sleep", "dial"} => l = m

(* MQTTClient_connect is never called on a client that is connected.       *)
NoDialWhileUp == \A l \in Threads : pc[l] = "dial" => ~up

(* The connection is being set up: flag or subscriptions are to follow. *)
SettingUp == \E l \in Threads : pc[l] \in {"set", "log", "lock"} \/ resub[l] # {}

(* On a connection that is set up, the broker has every topic for which    *)
(* subscribe() has returned, or the subscription was tried on this         *)
(* connection and failed: no order of registration, loss and reconnection  *)
(* leaves a topic untried.                                                 *)
SubscribedOnceSetUp ==
    \A t \in Topics :
        up /\ ~SettingUp /\ caller[t] = "returned" => t \in session \cup refused

(* disconnect() has cleared the flag, or is about to look at it again. *)
HungUp == shutdown \/ hangup \in {"log", "done"}

(* A connection that is up is one the wrapper knows of, unless a thread is *)
(* about to set the flag: publish() does not refuse a connection that      *)
(* works, and no callback of an earlier loss takes the flag away from it.  *)
(* Only disconnect() does: a loop that connects while it waits in          *)
(* MQTTClient_disconnect leaves a connection without its flag.             *)
UpIsKnown ==
    up /\ ~connected => HungUp \/ \E l \in Threads : pc[l] = "set"

(* Main has not begun to disconnect, nor attached the sink. *)
MainStays == hangup = "no" /\ ~shutdown /\ logging = "local"

(* A loop in its backoff goes on until it connects, while records are not  *)
(* published (the client of the onboarding, and the device's until main    *)
(* has attached the sink), provided nobody is still to set connected_ for  *)
(* the connection that was lost.                                           *)
LoopConnects ==
    \A l \in Loops :
        pc[l] = "sleep" /\ ~connected /\ (\A m \in Threads : pc[m] # "set")
            ~> up \/ ~MainStays

(* MQTTClient.hpp:14, README.md:122: a lost connection is established      *)
(* again, with backoff, as long as the agent runs.                         *)
Reconnects ==
    losses > 0 /\ ~up ~> up \/ ~MainStays
=============================================================================
