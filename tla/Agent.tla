------------------------------- MODULE Agent -------------------------------
(***************************************************************************)
(* The life of the agent: after Onboarding, main() starts its services,    *)
(* watches over them, and takes everything down on a signal (src/src/      *)
(* main.cpp:586-720).  HeartbeatService, LogCollector and NetworkScanner   *)
(* each run a loop on a thread of their own; commands set the triggers of  *)
(* the last two.  The broker keeps one retained status per device, written *)
(* by the heartbeat and by the Last Will of a connection that ends without *)
(* DISCONNECT.                                                             *)
(*                                                                         *)
(* Once the MQTT log sink is attached, a publish that is refused or fails  *)
(* logs that under pub_mutex_, which publishes, and blocks its thread with *)
(* both mutexes (LogSink): from then on nobody gets beyond a record or a   *)
(* publish.                                                                *)
(***************************************************************************)
EXTENDS Onboarding

CONSTANT WithScanner  \* network_scanner.enabled

ASSUME AgentAssumption == WithScanner \in BOOLEAN

VARIABLES
    thread,     \* where the loop of each service is
    running,    \* running_
    stopping,   \* stop_requested_
    trigger,    \* trigger_now_
    owed,       \* history: a trigger that no round has followed yet
    executor,   \* the worker of CommandExecutor runs
    plugins,    \* the plugins are loaded
    up,         \* the connection is up
    will,       \* the broker holds the will of a connection
    status,     \* the retained status
    logging     \* records stay in the process, are published, or block

serviceVars == <<thread, running, stopping, trigger, owed, executor, plugins>>
linkVars == <<up, will, status, logging>>
vars == <<startVars, serviceVars, linkVars>>

Services == {"heartbeat", "collector"} \cup IF WithScanner THEN {"scanner"} ELSE {}
Triggered == Services \ {"heartbeat"}

Ended(s) == thread[s] \in {"none", "ended"}

(* A thread that publishes or logs goes on. *)
Flows == logging # "jammed"

(* The first service that stop() is called on, and what follows each. *)
AfterExecutor == IF WithScanner THEN "scanner" ELSE "collector"
AfterStop == [s \in Services |->
    CASE s = "scanner" -> "collector" [] s = "collector" -> "heartbeat" [] s = "heartbeat" -> "unload"]

-----------------------------------------------------------------------------
Nowhere == [s \in Services |-> "none"]
Unset == [s \in Services |-> FALSE]

Init ==
    /\ StartInit
    /\ thread = Nowhere
    /\ running = Unset /\ stopping = Unset /\ trigger = Unset /\ owed = Unset
    /\ executor = FALSE /\ plugins = FALSE
    /\ up = FALSE /\ will = FALSE /\ status = "none" /\ logging = "local"

OnboardingStep ==
    /\ Load \/ LoadFails \/ LoopTest \/ DialRegister \/ DialFails \/ PublishRegister
       \/ WaitEnds \/ OpenConfig \/ WriteConfig \/ DestroyClient
    /\ UNCHANGED <<serviceVars, linkVars>>

(* A connection whose will is still pending is taken over: the broker      *)
(* publishes that will first.                                              *)
Connected ==
    /\ up' = TRUE
    /\ will' = TRUE
    /\ status' = IF will THEN "offline" ELSE status
    /\ UNCHANGED logging

(* loadAll, then connect with the Last Will. *)
ConnectDevice ==
    /\ Connect
    /\ plugins' = (main' = "start")
    /\ IF main' = "start" THEN Connected ELSE UNCHANGED linkVars
    /\ UNCHANGED <<thread, running, stopping, trigger, owed, executor>>

Main(from, to) ==
    /\ main = from
    /\ main' = to
    /\ UNCHANGED <<config, fields, memory, known, asked, registered, ack, received, signal, restarts>>

(* start() of one or several services: nothing when running_ is set. *)
StartThreads ==
    LET idle == {s \in Services : ~running[s]} IN
    /\ thread' = [s \in Services |-> IF s \in idle THEN "test" ELSE thread[s]]
    /\ running' = [s \in Services |-> TRUE]
    /\ stopping' = [s \in Services |-> stopping[s] /\ s \notin idle]
    /\ UNCHANGED <<trigger, owed>>

StartServices ==
    /\ Main("start", "attach")
    /\ StartThreads
    /\ executor' = TRUE
    /\ UNCHANGED <<plugins, linkVars>>

(* The MQTT log sink, and the first record that it publishes.              *)
AttachSink ==
    /\ logging = "local"
    /\ IF up THEN Main("attach", "watch") ELSE Main("attach", "attach")
    /\ logging' = IF up THEN "mqtt" ELSE "jammed"
    /\ UNCHANGED <<serviceVars, up, will, status>>

(* The watchdog, every five seconds. *)
Watchdog ==
    /\ Main("watch", "watch")
    /\ ~signal
    /\ StartThreads
    /\ UNCHANGED <<executor, plugins, linkVars>>

-----------------------------------------------------------------------------
(* The loop of a service: while (!stop_requested_) *)
Go(s, from, to) == thread[s] = from /\ thread' = [thread EXCEPT ![s] = to]

Test(s) ==
    /\ Go(s, "test", IF ~stopping[s] THEN "round" ELSE IF s = "heartbeat" THEN "final" ELSE "log")
    /\ owed' = [owed EXCEPT ![s] = @ /\ stopping[s]]
    /\ UNCHANGED <<running, stopping, trigger, executor, plugins, startVars, linkVars>>

PublishStatus(st) == status' = IF up THEN st ELSE status

(* The work of a round.  The heartbeat publishes "online", retained and    *)
(* without a fallback; an exception only ends the round.  Only a           *)
(* collection without entries neither publishes nor logs.                  *)
Round(s) ==
    /\ Flows \/ s = "collector"
    /\ Go(s, "round", "sleep")
    /\ IF s = "heartbeat" THEN PublishStatus("online") ELSE UNCHANGED status
    /\ UNCHANGED <<running, stopping, trigger, owed, executor, plugins, startVars, up, will, logging>>

(* The ticks are over, or one has found stop_requested_ or trigger_now_. *)
Awake(s) ==
    /\ Go(s, "sleep", IF s = "heartbeat" THEN "test" ELSE "clear")
    /\ UNCHANGED <<running, stopping, trigger, owed, executor, plugins, startVars, linkVars>>

(* Mutant of ClearTrigger: the flag is cleared when the sleep begins. *)
ClearBeforeSleep(s) ==
    \/ /\ Go(s, "clear", "test")
       /\ UNCHANGED <<running, stopping, trigger, owed, executor, plugins, startVars, linkVars>>
    \/ /\ thread[s] = "sleep"
       /\ trigger' = [trigger EXCEPT ![s] = FALSE]
       /\ UNCHANGED <<thread, running, stopping, owed, executor, plugins, startVars, linkVars>>

(* trigger_now_ = false *)
ClearTrigger(s) ==
    /\ Go(s, "clear", "test")
    /\ trigger' = [trigger EXCEPT ![s] = FALSE]
    /\ UNCHANGED <<running, stopping, owed, executor, plugins, startVars, linkVars>>

(* Mutant of PublishOffline: the loop just ends. *)
EndSilently ==
    /\ Go("heartbeat", "final", "log")
    /\ UNCHANGED <<running, stopping, trigger, owed, executor, plugins, startVars, linkVars>>

(* The heartbeat's last message. *)
PublishOffline ==
    /\ Flows
    /\ Go("heartbeat", "final", "log")
    /\ PublishStatus("offline")
    /\ UNCHANGED <<running, stopping, trigger, owed, executor, plugins, startVars, up, will, logging>>

(* The last record of a loop, and its end. *)
LogStopped(s) ==
    /\ Flows
    /\ Go(s, "log", "ended")
    /\ UNCHANGED <<running, stopping, trigger, owed, executor, plugins, startVars, linkVars>>

(* A collect_now or scan_network command calls triggerNow(). *)
TriggerNow(s) ==
    /\ executor
    /\ trigger' = [trigger EXCEPT ![s] = TRUE]
    /\ owed' = [owed EXCEPT ![s] = TRUE]
    /\ UNCHANGED <<thread, running, stopping, executor, plugins, startVars, linkVars>>

-----------------------------------------------------------------------------
(* Shutdown: the watch loop sees the signal and logs it; cmd_executor->     *)
(* stop(), whose only notification may be lost (CommandExecutor).          *)
StopExecutor ==
    /\ signal
    /\ Flows
    /\ \E stopped \in BOOLEAN :
        /\ Main("watch", IF stopped THEN AfterExecutor ELSE "executor")
        /\ executor' = ~stopped
    /\ UNCHANGED <<thread, running, stopping, trigger, owed, plugins, linkVars>>

(* A command that arrives later notifies the worker once more. *)
ExecutorEnds ==
    /\ Main("executor", AfterExecutor)
    /\ executor' = FALSE
    /\ UNCHANGED <<thread, running, stopping, trigger, owed, plugins, linkVars>>

(* stop() of a service: the flags, then join, then running_ = false. *)
RequestStop(s) ==
    /\ main = s
    /\ ~stopping[s]
    /\ stopping' = [stopping EXCEPT ![s] = TRUE]
    /\ trigger' = [trigger EXCEPT ![s] = s # "heartbeat"]
    /\ UNCHANGED <<thread, running, owed, executor, plugins, startVars, linkVars>>

(* Mutant of Join: the thread is detached. *)
Detach(s) ==
    /\ Main(s, AfterStop[s])
    /\ stopping[s]
    /\ running' = [running EXCEPT ![s] = FALSE]
    /\ UNCHANGED <<thread, stopping, trigger, owed, executor, plugins, linkVars>>

Join(s) ==
    /\ Main(s, AfterStop[s])
    /\ stopping[s]
    /\ Ended(s)
    /\ running' = [running EXCEPT ![s] = FALSE]
    /\ UNCHANGED <<thread, stopping, trigger, owed, executor, plugins, linkVars>>

UnloadAll ==
    /\ Main("unload", "disconnect")
    /\ plugins' = FALSE
    /\ UNCHANGED <<thread, running, stopping, trigger, owed, executor, linkVars>>

(* The last flush (Delivery), disconnect(): DISCONNECT discards the will.  *)
(* Then disconnect() logs, on a connection it has just closed: main does   *)
(* not come back.                                                          *)
Disconnect ==
    /\ Main("disconnect", "hung")
    /\ up' = FALSE
    /\ will' = (will /\ ~up)
    /\ logging' = "jammed"
    /\ UNCHANGED <<serviceVars, status>>

-----------------------------------------------------------------------------
(* The network, the broker and reconnectLoop. *)
(* onConnectionLost logs first.                                            *)
LoseConnection ==
    /\ up
    /\ up' = FALSE
    /\ logging' = IF logging = "mqtt" THEN "jammed" ELSE logging
    /\ UNCHANGED <<startVars, serviceVars, will, status>>

(* Paho refuses a message, of any thread, on a connection that holds. *)
Jam ==
    /\ logging = "mqtt"
    /\ logging' = "jammed"
    /\ UNCHANGED <<startVars, serviceVars, up, will, status>>

PublishWill ==
    /\ will
    /\ ~up
    /\ will' = FALSE
    /\ status' = "offline"
    /\ UNCHANGED <<startVars, serviceVars, up, logging>>

(* Only a connection that was lost before the sink was attached comes      *)
(* back; its loop may be dialing when main jams.                           *)
Reconnect ==
    /\ ~up
    /\ main \in {"start", "attach"}
    /\ Connected
    /\ UNCHANGED <<startVars, serviceVars>>

(* The process dies, of itself or killed by a service manager that waits   *)
(* no longer for its end: its threads and its connection with it.          *)
Crash ==
    /\ Die
    /\ thread' = Nowhere
    /\ running' = Unset /\ stopping' = Unset /\ trigger' = Unset /\ owed' = Unset
    /\ executor' = FALSE /\ plugins' = FALSE
    /\ up' = FALSE /\ logging' = "local"
    /\ UNCHANGED <<will, status>>

(* The thread of a service, and the main thread. *)
Loop(s) ==
    \/ Test(s) \/ Round(s) \/ Awake(s) \/ LogStopped(s)
    \/ s \in Triggered /\ ClearTrigger(s)
    \/ s = "heartbeat" /\ PublishOffline

Shutdown ==
    \/ StopExecutor \/ UnloadAll \/ Disconnect
    \/ \E s \in Services : RequestStop(s) \/ Join(s)

Next ==
    \/ OnboardingStep \/ ConnectDevice \/ StartServices \/ AttachSink \/ Watchdog
    \/ \E s \in Services : Loop(s)
    \/ \E s \in Triggered : TriggerNow(s)
    \/ Shutdown \/ ExecutorEnds
    \/ Around /\ UNCHANGED <<serviceVars, linkVars>>
    \/ LoseConnection \/ Jam \/ PublishWill \/ Reconnect \/ Crash

Spec == Init /\ [][Next]_vars

(* Threads are scheduled as long as nobody blocks in a record, a round     *)
(* then ends (each of its calls has a timeout), and the broker notices a   *)
(* connection that has ended.  Nothing makes ExecutorEnds happen.          *)
FairSpec ==
    /\ Spec
    /\ StartFairness
    /\ WF_vars(ConnectDevice \/ StartServices \/ AttachSink \/ Shutdown)
    /\ \A s \in Services : WF_vars(Flows /\ Loop(s))
    /\ WF_vars(PublishWill)

-----------------------------------------------------------------------------
TypeOK ==
    /\ StartTypeOK
    /\ thread \in [Services -> {"none", "test", "round", "sleep", "clear", "final", "log", "ended"}]
    /\ running \in [Services -> BOOLEAN] /\ stopping \in [Services -> BOOLEAN]
    /\ trigger \in [Services -> BOOLEAN] /\ owed \in [Services -> BOOLEAN]
    /\ executor \in BOOLEAN /\ plugins \in BOOLEAN /\ up \in BOOLEAN /\ will \in BOOLEAN
    /\ status \in {"none", "online", "offline"} /\ logging \in {"local", "mqtt", "jammed"}

(* A service does not sleep over a trigger: unless a round has begun since *)
(* triggerNow(), the flag is still there for the next tick to find,        *)
(* although the loop clears it (LogCollector.cpp:89-92).                   *)
NoSleepOverTrigger ==
    \A s \in Triggered : owed[s] /\ thread[s] = "sleep" => trigger[s]

(* main.cpp:702-717: nothing is taken down under a service that runs: no   *)
(* command triggers a service that is stopped, no round calls a plugin     *)
(* that is unloaded, no service is left once the connection is given up.   *)
TakenDownInOrder ==
    /\ \A s \in Services : ~Ended(s) /\ s # "heartbeat" => plugins
    /\ main \in {"disconnect", "hung", "exit"} => \A s \in Services : Ended(s)
    /\ executor => \A s \in Services : running[s] /\ ~stopping[s]

(* A signal takes the agent down to its disconnection, unless the stop of  *)
(* its command worker does not return (CommandExecutor) or a publish fails *)
(* and blocks its threads (LogSink).                                       *)
ShutdownDisconnects ==
    signal ~> ~signal \/ main \in {"executor", "hung", "exit"} \/ logging = "jammed"

(* However the agent ends, by a signal or by a crash, with or without a    *)
(* connection, and whatever the heartbeat published last, the retained     *)
(* status does not stay "online" (README.md:121, 149).  It is an end that  *)
(* the agent has disconnected, been killed or given up connecting.         *)
OfflineAtLast == main \in {"hung", "exit"} ~> status # "online" \/ main \notin {"hung", "exit"}
=============================================================================
