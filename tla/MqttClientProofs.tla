-------------------------- MODULE MqttClientProofs --------------------------
(***************************************************************************)
(* Proofs about MqttClient, for any number of threads, topics and losses.  *)
(* The idea: there is one token, which is a thread that seeks to connect,  *)
(* a connection that is up, or a call of onConnectionLost.  A successful   *)
(* connect turns the first into the second, a loss the second into the     *)
(* third, the start of a loop the third into the first; no step makes one  *)
(* out of nothing.                                                         *)
(***************************************************************************)
EXTENDS MqttClient, TLAPS

(* A thread in the loop of reconnectLoop, or connect() of the main thread. *)
Seeks(l) == pc[l] \in {"test", "sleep", "dial"}

(* The token is one of the three. *)
OneToken ==
    /\ \A l, m \in Threads : Seeks(l) /\ Seeks(m) => l = m
    /\ \A l \in Threads : Seeks(l) => ~up /\ lost = "no"
    /\ lost # "no" => ~up

(* A topic is registered before anything else is done with it. *)
Registered == \A t \in Topics : caller[t] # "idle" => t \in subscriptions

(* subscribe() returns before main disconnects. *)
CallsFirst == Subscribing => hangup = "no" /\ ~shutdown

(* A topic that was not tried on this connection is to be subscribed by    *)
(* the thread that sets the connection up.                                 *)
Coming(t) == \E l \in Threads : pc[l] \in {"set", "log", "lock"} \/ t \in resub[l]
TopicsComing ==
    \A t \in Topics : up /\ caller[t] = "returned" => t \in session \cup refused \/ Coming(t)

IInv == TypeOK /\ OneToken /\ Registered /\ CallsFirst /\ UpIsKnown /\ TopicsComing

(* The inductive invariant holds at first: main is about to connect. *)
LEMMA InitIInv == Init => IInv
<1> SUFFICES ASSUME Init PROVE IInv
  OBVIOUS
<1> USE ThreadAssumption DEF Init, Threads
<1>1. TypeOK
  <2>1. losses \in 0..MaxLosses
    OBVIOUS
  <2>2. pc \in [Threads -> {"none", "test", "sleep", "dial", "set", "log", "lock", "resub"}]
    OBVIOUS
  <2>3. resub \in [Threads -> SUBSET subscriptions]
    OBVIOUS
  <2> QED
    BY <2>1, <2>2, <2>3 DEF TypeOK
<1>2. OneToken
  BY DEF OneToken, Seeks
<1>3. Registered /\ CallsFirst /\ UpIsKnown /\ TopicsComing
  BY DEF Registered, CallsFirst, Subscribing, UpIsKnown, TopicsComing
<1> QED
  BY <1>1, <1>2, <1>3 DEF IInv

(* A thread that seeks or sets up a connection keeps the invariant. *)
LEMMA ConnectIInv ==
  ASSUME IInv, NEW l \in Threads, ConnectStep(l)
  PROVE  IInv'
<1> USE DEF IInv, topicVars, stopVars
<1>a. UNCHANGED <<subscriptions, caller, hangup, shutdown, logging>>
  BY DEF ConnectStep, LoopTest, LoopAwake, DialOk, DialFail, SetConnected, Announce,
         LockSubscriptions, Resubscribe, ConnectedCallback
<1>b. Registered' /\ CallsFirst' /\ (HungUp' <=> HungUp)
  BY <1>a DEF HungUp, Registered, CallsFirst, Subscribing
<1> SUFFICES TypeOK' /\ OneToken' /\ UpIsKnown' /\ TopicsComing'
  BY <1>b
<1>1. CASE LoopTest(l)
  <2>1. TypeOK'
    BY <1>1 DEF LoopTest, TypeOK
  <2>2. OneToken'
    BY <1>1 DEF LoopTest, TypeOK, OneToken, Seeks
  <2>3. UpIsKnown' /\ TopicsComing'
    BY <1>1, <1>b DEF LoopTest, TypeOK, UpIsKnown, TopicsComing, Coming
  <2> QED
    BY <2>1, <2>2, <2>3
<1>2. CASE LoopAwake(l)
  <2>1. TypeOK'
    BY <1>2 DEF LoopAwake, TypeOK
  <2>2. OneToken'
    BY <1>2 DEF LoopAwake, TypeOK, OneToken, Seeks
  <2>3. UpIsKnown' /\ TopicsComing'
    BY <1>2, <1>b DEF LoopAwake, TypeOK, UpIsKnown, TopicsComing, Coming
  <2> QED
    BY <2>1, <2>2, <2>3
<1>3. CASE DialOk(l)
  <2>1. TypeOK'
    BY <1>3 DEF DialOk, TypeOK
  <2>2. OneToken'
    BY <1>3 DEF DialOk, TypeOK, OneToken, Seeks
  <2>3. pc'[l] = "set"
    BY <1>3 DEF DialOk, TypeOK
  <2>4. UpIsKnown' /\ TopicsComing'
    BY <2>3 DEF UpIsKnown, TopicsComing, Coming
  <2> QED
    BY <2>1, <2>2, <2>4
<1>4. CASE DialFail(l)
  <2>1. TypeOK'
    BY <1>4 DEF DialFail, TypeOK
  <2>2. OneToken'
    BY <1>4 DEF DialFail, TypeOK, OneToken, Seeks
  <2>3. UpIsKnown' /\ TopicsComing'
    BY <1>4, <1>b DEF DialFail, TypeOK, UpIsKnown, TopicsComing, Coming
  <2> QED
    BY <2>1, <2>2, <2>3
<1>5. CASE SetConnected(l)
  <2>1. TypeOK'
    BY <1>5 DEF SetConnected, TypeOK
  <2>2. OneToken'
    BY <1>5 DEF SetConnected, TypeOK, OneToken, Seeks
  <2>3. UpIsKnown' /\ TopicsComing'
    BY <1>5 DEF SetConnected, TypeOK, UpIsKnown, TopicsComing, Coming
  <2> QED
    BY <2>1, <2>2, <2>3
<1>6. CASE Announce(l)
  <2>1. TypeOK'
    BY <1>6 DEF Announce, TypeOK
  <2>2. OneToken'
    BY <1>6 DEF Announce, TypeOK, OneToken, Seeks
  <2>3. UpIsKnown' /\ TopicsComing'
    BY <1>6, <1>b DEF Announce, TypeOK, UpIsKnown, TopicsComing, Coming
  <2> QED
    BY <2>1, <2>2, <2>3
<1>7. CASE LockSubscriptions(l)
  <2>1. TypeOK'
    BY <1>7 DEF LockSubscriptions, TypeOK
  <2>2. OneToken'
    BY <1>7 DEF LockSubscriptions, TypeOK, OneToken, Seeks
  <2>3. UpIsKnown'
    BY <1>7, <1>b DEF LockSubscriptions, TypeOK, UpIsKnown
  <2>4. \A t \in Topics : caller[t] = "returned" => t \in resub'[l]
    BY <1>7 DEF LockSubscriptions, TypeOK, Registered
  <2>5. TopicsComing'
    BY <1>7, <2>4 DEF LockSubscriptions, TopicsComing, Coming
  <2> QED
    BY <2>1, <2>2, <2>3, <2>5
<1>8. CASE Resubscribe(l)
  <2> PICK s \in resub[l] : BrokerSubscribe(s) /\ resub' = [resub EXCEPT ![l] = @ \ {s}]
    BY <1>8 DEF Resubscribe
  <2>1. s \in subscriptions /\ UNCHANGED <<up, connected, losses, lost, pc>>
    BY <1>8 DEF Resubscribe, TypeOK
  <2>2. session' \subseteq subscriptions /\ refused' \subseteq subscriptions
    BY <2>1 DEF BrokerSubscribe, TypeOK
  <2>3. TypeOK'
    BY <2>1, <2>2, <1>a DEF TypeOK
  <2>4. OneToken' /\ UpIsKnown'
    BY <2>1, <1>b DEF OneToken, Seeks, UpIsKnown
  <2>5. session \cup refused \cup {s} \subseteq session' \cup refused'
    BY DEF BrokerSubscribe
  <2>6. ASSUME NEW t \in Topics, t # s, Coming(t)
        PROVE  Coming(t)'
    BY <2>1, <2>6 DEF Coming, TypeOK
  <2>7. TopicsComing'
    BY <2>1, <2>5, <2>6, <1>a DEF TopicsComing
  <2> QED
    BY <2>3, <2>4, <2>7
<1>9. CASE ConnectedCallback(l)
  <2>1. TypeOK'
    BY <1>9 DEF ConnectedCallback, TypeOK
  <2>2. OneToken'
    BY <1>9 DEF ConnectedCallback, TypeOK, OneToken, Seeks
  <2>3. UpIsKnown' /\ TopicsComing'
    BY <1>9, <1>b DEF ConnectedCallback, TypeOK, UpIsKnown, TopicsComing, Coming
  <2> QED
    BY <2>1, <2>2, <2>3
<1> QED
  BY <1>1, <1>2, <1>3, <1>4, <1>5, <1>6, <1>7, <1>8, <1>9 DEF ConnectStep

(* A loss, and the callback that follows it, keep the invariant. *)
LEMMA LossIInv ==
  ASSUME IInv, Lose \/ LostStep
  PROVE  IInv'
<1> USE DEF IInv, topicVars, stopVars
<1>a. UNCHANGED <<resub, subscriptions, refused, caller, hangup, shutdown, logging>>
  BY DEF Lose, LostStep, ClearConnected, SpawnLoop
<1>b. Registered' /\ CallsFirst'
  BY <1>a DEF Registered, CallsFirst, Subscribing
<1> SUFFICES TypeOK' /\ OneToken' /\ ~up'
  BY <1>b DEF UpIsKnown, TopicsComing
<1>1. CASE Lose
  <2>1. losses' \in 0..MaxLosses
    BY <1>1, ThreadAssumption DEF Lose, TypeOK
  <2>2. TypeOK'
    BY <1>1, <2>1 DEF Lose, TypeOK
  <2>3. OneToken' /\ ~up'
    BY <1>1 DEF Lose, OneToken, Seeks
  <2> QED
    BY <2>2, <2>3
<1>2. CASE ClearConnected
  <2>1. TypeOK'
    BY <1>2 DEF ClearConnected, TypeOK
  <2>2. OneToken' /\ ~up'
    BY <1>2 DEF ClearConnected, OneToken, Seeks
  <2> QED
    BY <2>1, <2>2
<1>3. CASE SpawnLoop
  <2>1. ~up /\ ~up' /\ \A l \in Threads : ~Seeks(l)
    BY <1>3 DEF SpawnLoop, OneToken
  <2>2. TypeOK'
    BY <1>3 DEF SpawnLoop, TypeOK, Threads
  <2>3. OneToken'
    BY <1>3, <2>1 DEF SpawnLoop, TypeOK, OneToken, Seeks, Threads
  <2> QED
    BY <2>1, <2>2, <2>3
<1> QED
  BY <1>1, <1>2, <1>3 DEF LostStep

(* subscribe() keeps the invariant. *)
LEMMA CallerIInv ==
  ASSUME IInv, NEW t \in Topics, CallerStep(t)
  PROVE  IInv'
<1> USE DEF IInv, topicVars, stopVars
<1>a. UNCHANGED <<up, connected, losses, lost, pc, resub, hangup, shutdown, logging>>
  BY DEF CallerStep, Register, CheckConnected, Subscribe
<1>b. OneToken' /\ UpIsKnown'
  BY <1>a DEF OneToken, Seeks, UpIsKnown, HungUp
<1> SUFFICES TypeOK' /\ Registered' /\ CallsFirst' /\ TopicsComing'
  BY <1>b
<1>1. CASE Register(t)
  <2>1. TypeOK'
    BY <1>1 DEF Register, TypeOK
  <2>2. CallsFirst'
    BY <1>1 DEF Register, MainFree, CallsFirst
  <2>3. Registered' /\ TopicsComing'
    BY <1>1 DEF Register, TypeOK, Registered, TopicsComing, Coming
  <2> QED
    BY <2>1, <2>2, <2>3
<1>2. CASE CheckConnected(t)
  <2>1. TypeOK'
    BY <1>2 DEF CheckConnected, TypeOK
  <2>2. Registered'
    BY <1>2 DEF CheckConnected, TypeOK, Registered
  <2>3. hangup = "no" /\ ~shutdown
    BY <1>2 DEF CheckConnected, CallsFirst, Subscribing
  <2>4. CallsFirst'
    BY <2>3, <1>a DEF CallsFirst
  <2>5. up /\ ~connected => \E l \in Threads : pc[l] = "set"
    BY <2>3 DEF UpIsKnown, HungUp
  <2>6. TopicsComing'
    BY <1>2, <2>5 DEF CheckConnected, TypeOK, TopicsComing, Coming
  <2> QED
    BY <2>1, <2>2, <2>4, <2>6
<1>3. CASE Subscribe(t)
  <2>1. TypeOK'
    BY <1>3 DEF Subscribe, BrokerSubscribe, TypeOK, Registered
  <2>2. CallsFirst'
    BY <1>3, <1>a DEF Subscribe, CallsFirst, Subscribing
  <2>3. Registered'
    BY <1>3 DEF Subscribe, TypeOK, Registered
  <2>4. session \cup refused \cup {t} \subseteq session' \cup refused'
    BY <1>3 DEF Subscribe, BrokerSubscribe
  <2>5. TopicsComing'
    BY <1>3, <1>a, <2>4 DEF Subscribe, TypeOK, TopicsComing, Coming
  <2> QED
    BY <2>1, <2>2, <2>3, <2>5
<1> QED
  BY <1>1, <1>2, <1>3 DEF CallerStep

(* The shutdown keeps the invariant: a disconnect() that takes the flag    *)
(* away from a connection has hung up.                                     *)
LEMMA StopIInv ==
  ASSUME IInv, StopStep
  PROVE  IInv'
<1> USE DEF IInv, topicVars, stopVars
<1>1. UNCHANGED <<losses, lost, pc, resub, subscriptions, refused, caller, logging>>
  BY DEF StopStep, Disconnect, TestConnected, DropConnection, ClearAfterDrop, LogDisconnected, Destroy
<1>2. TypeOK'
  <2>1. up' \in BOOLEAN /\ connected' \in BOOLEAN /\ shutdown' \in BOOLEAN
    BY DEF StopStep, Disconnect, TestConnected, DropConnection, ClearAfterDrop, LogDisconnected, Destroy, TypeOK
  <2>2. session' \subseteq subscriptions
    BY DEF StopStep, Disconnect, TestConnected, DropConnection, ClearAfterDrop, LogDisconnected, Destroy, TypeOK
  <2>3. hangup' \in {"no", "test", "drop", "clear", "log", "done"}
    BY DEF StopStep, Disconnect, TestConnected, DropConnection, ClearAfterDrop, LogDisconnected, Destroy, TypeOK
  <2> QED
    BY <1>1, <2>1, <2>2, <2>3 DEF TypeOK
<1>3. CallsFirst'
  BY <1>1 DEF StopStep, Disconnect, TestConnected, DropConnection, ClearAfterDrop, LogDisconnected,
              Destroy, MainFree, Subscribing, CallsFirst
<1>4. OneToken' /\ Registered'
  <2>1. up' => up
    BY DEF StopStep, Disconnect, TestConnected, DropConnection, ClearAfterDrop, LogDisconnected, Destroy, TypeOK
  <2> QED
    BY <1>1, <2>1 DEF OneToken, Seeks, Registered
<1>5. UpIsKnown'
  <2>1. HungUp => HungUp'
    BY DEF StopStep, Disconnect, TestConnected, DropConnection, ClearAfterDrop, LogDisconnected, Destroy,
           MainFree, HungUp
  <2>2. up' /\ ~connected' => (up /\ ~connected) \/ HungUp'
    BY DEF StopStep, Disconnect, TestConnected, DropConnection, ClearAfterDrop, LogDisconnected, Destroy,
           HungUp
  <2> QED
    BY <1>1, <2>1, <2>2 DEF UpIsKnown
<1>6. TopicsComing'
  <2>1. up' => up /\ UNCHANGED session
    BY DEF StopStep, Disconnect, TestConnected, DropConnection, ClearAfterDrop, LogDisconnected, Destroy, TypeOK
  <2> QED
    BY <1>1, <2>1 DEF TopicsComing, Coming
<1> QED
  BY <1>2, <1>3, <1>4, <1>5, <1>6

(* The sink and the records that it publishes leave the connection alone. *)
LEMMA LogIInv ==
  ASSUME IInv, Attach \/ Jam
  PROVE  IInv'
<1>1. UNCHANGED <<up, connected, losses, lost, pc, topicVars, stopVars>> /\ logging' \in {"mqtt", "jammed"}
  BY DEF Attach, Jam
<1> QED
  BY <1>1 DEF topicVars, stopVars, IInv, TypeOK, OneToken, Seeks, Registered, CallsFirst, Subscribing,
              UpIsKnown, HungUp, TopicsComing, Coming

(* The invariant holds in every state. *)
LEMMA Invariant == Spec => []IInv
<1>1. IInv /\ [Next]_vars => IInv'
  <2> SUFFICES ASSUME IInv, [Next]_vars PROVE IInv'
    OBVIOUS
  <2>1. CASE UNCHANGED vars
    BY <2>1 DEF vars, topicVars, stopVars, IInv, TypeOK, OneToken, Seeks, Registered, CallsFirst,
                Subscribing, UpIsKnown, HungUp, TopicsComing, Coming
  <2>2. CASE Next
    BY <2>2, ConnectIInv, LossIInv, CallerIInv, StopIInv, LogIInv DEF Next
  <2> QED
    BY <2>1, <2>2
<1> QED
  BY InitIInv, <1>1, PTL DEF Spec

(* The type invariant of the connection. *)
THEOREM TypeCorrect == Spec => []TypeOK
<1>1. IInv => TypeOK
  BY DEF IInv
<1> QED
  BY Invariant, <1>1, PTL

(* However many connections are lost, and whenever the callbacks run: two  *)
(* threads never try to connect at a time.                                 *)
THEOREM SingleDialer == Spec => []OneDialer
<1>1. IInv => OneDialer
  BY DEF IInv, OneToken, Seeks, OneDialer
<1> QED
  BY Invariant, <1>1, PTL

(* MQTTClient_connect is never called on a connected client. *)
THEOREM DialsWhenDown == Spec => []NoDialWhileUp
<1>1. IInv => NoDialWhileUp
  BY DEF IInv, OneToken, Seeks, NoDialWhileUp
<1> QED
  BY Invariant, <1>1, PTL

(* A connection that is up has its flag or is about to get it, for as long *)
(* as main has not hung up; nothing else takes the flag away from it.      *)
THEOREM FlagFollows == Spec => []UpIsKnown
<1>1. IInv => UpIsKnown
  BY DEF IInv
<1> QED
  BY Invariant, <1>1, PTL

(* On a connection that is set up each topic of a subscribe() that has     *)
(* returned was tried: the broker has it, or its subscription has failed.  *)
(* This holds for any topics and any interleaving with reconnections.      *)
THEOREM TopicsSubscribed == Spec => []SubscribedOnceSetUp
<1>1. IInv => SubscribedOnceSetUp
  BY DEF IInv, TopicsComing, Coming, SettingUp, SubscribedOnceSetUp
<1> QED
  BY Invariant, <1>1, PTL
=============================================================================
