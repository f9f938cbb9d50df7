------------------------------ MODULE LogSink ------------------------------
(***************************************************************************)
(* Logging over MQTT: src/src/mqtt/MqttLogSink.hpp, attached to the        *)
(* default logger (main.cpp:672-679), and MQTTClientWrapper::publish,      *)
(* which logs when it fails.  Logging publishes and publishing logs, each  *)
(* under a std::mutex of its own: the sink's (taken by base_sink::log      *)
(* before sink_it_ looks at in_publish_) and pub_mutex_.                   *)
(*                                                                         *)
(* stack[t] is thread t's chain of nested calls, innermost last; phase[t]  *)
(* says whether the innermost waits for its mutex, runs, or has just got   *)
(* the control back from the call it made.                                 *)
(***************************************************************************)
EXTENDS Naturals, Sequences, SequencesExt

CONSTANTS
    Threads,   \* threads that log and publish, Paho's callback thread included
    None       \* the owner of a free mutex

ASSUME FreeAssumption == None \notin Threads

VARIABLES
    attached,    \* the MQTT sink is among the default logger's sinks
    in_publish,  \* in_publish_ of the sink
    owner,       \* who holds each mutex
    stack,
    phase,
    failed       \* history: a publish has failed and logged that to the sink

vars == <<attached, in_publish, owner, stack, phase, failed>>

Calls == {"log", "publish"}

(* A mutex is named after the call that takes it. *)
Top(t) == Last(stack[t])
Inside(t, call, p) == stack[t] # <<>> /\ Top(t) = call /\ phase[t] = p

-----------------------------------------------------------------------------
Init ==
    /\ attached = FALSE
    /\ in_publish = FALSE
    /\ owner = [c \in Calls |-> None]
    /\ stack = [t \in Threads |-> <<>>]
    /\ phase = [t \in Threads |-> "wait"]
    /\ failed = FALSE

Enter(t, call) ==
    /\ stack' = [stack EXCEPT ![t] = Append(@, call)]
    /\ phase' = [phase EXCEPT ![t] = "wait"]

(* The call returns: its mutex is released and its caller goes on. *)
Return(t) ==
    /\ owner' = [owner EXCEPT ![Top(t)] = None]
    /\ stack' = [stack EXCEPT ![t] = Front(@)]
    /\ phase' = [phase EXCEPT ![t] = IF Len(stack[t]) = 1 THEN "wait" ELSE "back"]

(* main.cpp:672-679, after the services have been started. *)
Attach ==
    /\ ~attached
    /\ attached' = TRUE
    /\ UNCHANGED <<in_publish, owner, stack, phase, failed>>

(* A thread of the agent logs; without the sink that involves no publish.  *)
CallLog(t) ==
    /\ stack[t] = <<>>
    /\ attached
    /\ Enter(t, "log")
    /\ UNCHANGED <<attached, in_publish, owner, failed>>

(* A service, or a flush, publishes. *)
CallPublish(t) ==
    /\ stack[t] = <<>>
    /\ Enter(t, "publish")
    /\ UNCHANGED <<attached, in_publish, owner, failed>>

(* lock_guard: neither mutex is recursive. *)
Acquire(t) ==
    /\ stack[t] # <<>>
    /\ phase[t] = "wait"
    /\ owner[Top(t)] = None
    /\ owner' = [owner EXCEPT ![Top(t)] = t]
    /\ phase' = [phase EXCEPT ![t] = "run"]
    /\ UNCHANGED <<attached, in_publish, stack, failed>>

(* sink_it_: nothing when in_publish_ is set; else the flag is set and the *)
(* record published, unless dump() refuses it and the flag is cleared.     *)
SinkIt(t) ==
    /\ Inside(t, "log", "run")
    /\ \/ /\ ~in_publish
          /\ in_publish' = TRUE
          /\ Enter(t, "publish")
          /\ UNCHANGED owner
       \/ Return(t) /\ UNCHANGED in_publish
    /\ UNCHANGED <<attached, failed>>

(* Mutant of PublishOk: success is logged under pub_mutex_. *)
PublishOkLogs(t) ==
    /\ Inside(t, "publish", "run")
    /\ IF attached THEN Enter(t, "log") /\ UNCHANGED owner ELSE Return(t)
    /\ UNCHANGED <<attached, in_publish, failed>>

(* publish() succeeds without logging. *)
PublishOk(t) ==
    /\ Inside(t, "publish", "run")
    /\ Return(t)
    /\ UNCHANGED <<attached, in_publish, failed>>

(* publish() fails: a warning or an error is logged while pub_mutex_ is    *)
(* held.                                                                   *)
PublishFails(t) ==
    /\ Inside(t, "publish", "run")
    /\ failed' = (failed \/ attached)
    /\ IF attached THEN Enter(t, "log") /\ UNCHANGED owner ELSE Return(t)
    /\ UNCHANGED <<attached, in_publish>>

(* Mutant of Resume: the sink leaves in_publish_ set. *)
ResumeForgetsGuard(t) ==
    /\ stack[t] # <<>>
    /\ phase[t] = "back"
    /\ Return(t)
    /\ UNCHANGED <<attached, in_publish, failed>>

(* The nested call has returned: the sink clears in_publish_, publish()    *)
(* returns false.                                                          *)
Resume(t) ==
    /\ stack[t] # <<>>
    /\ phase[t] = "back"
    /\ in_publish' = (in_publish /\ Top(t) # "log")
    /\ Return(t)
    /\ UNCHANGED <<attached, failed>>

Step(t) == Acquire(t) \/ SinkIt(t) \/ PublishOk(t) \/ PublishFails(t) \/ Resume(t)

Next ==
    \/ Attach
    \/ \E t \in Threads : CallLog(t) \/ CallPublish(t) \/ Step(t)

Spec == Init /\ [][Next]_vars

-----------------------------------------------------------------------------
(* Types; a mutex is held by the thread that is inside its critical section*)
(* and by nobody when there is none.                                       *)
TypeOK ==
    /\ attached \in BOOLEAN /\ in_publish \in BOOLEAN /\ failed \in BOOLEAN
    /\ owner \in [Calls -> Threads \cup {None}]
    /\ stack \in [Threads -> Seq(Calls)]
    /\ phase \in [Threads -> {"wait", "run", "back"}]
    /\ \A c \in Calls, t \in Threads : owner[c] = t <=>
        \E i \in DOMAIN stack[t] :
            stack[t][i] = c /\ (i < Len(stack[t]) \/ phase[t] # "wait")

(* t waits for a mutex that u holds. *)
WaitsFor(t, u) == stack[t] # <<>> /\ phase[t] = "wait" /\ owner[Top(t)] = u

(* The two mutexes are never waited for in a circle: the threads that log  *)
(* (sink, then pub_mutex_) and those that publish (pub_mutex_, and no log  *)
(* record on success) do not block each other for ever, nor themselves,    *)
(* until a publish fails and logs.                                         *)
NoDeadlock ==
    ~failed => \A t, u \in Threads : ~(WaitsFor(t, u) /\ WaitsFor(u, t))

(* The recursion guard is set only while the sink is at work: an exception *)
(* in it does not leave it set, which would silence the sink for good.     *)
GuardIsScoped == in_publish => owner["log"] # None
=============================================================================
