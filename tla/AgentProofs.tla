---------------------------- MODULE AgentProofs ----------------------------
(***************************************************************************)
(* Proofs about Agent, with or without a scanner, for any number of device *)
(* ids and of restarts.  Two invariants are shown one after the other: of  *)
(* the start, where credentials in memory and on disk are those of a       *)
(* registered device, and of the services, where the place of the main     *)
(* thread says which of them may still be at work.                         *)
(***************************************************************************)
EXTENDS MCAgent, SequenceTheorems, FiniteSetTheorems, WellFoundedInduction, TLAPS

Early == {"load", "loop", "dial", "publish", "wait", "save", "write", "leave", "connect"}
Late == {"start", "attach", "watch", "executor", "scanner", "collector", "heartbeat", "unload", "disconnect", "hung"}

(* Credentials c are complete only if the backend has issued them. *)
Issued(c) == c.token # None => c.token = c.id /\ c.id \in registered

StartInv ==
    /\ StartTypeOK
    /\ main \in Early \cup Late \cup {"exit"}
    /\ Issued(memory)
    /\ config # Lost => Issued(config)
    /\ ack = "ok" \/ received = "ok" => memory.id \in registered
    /\ main = "load" => memory = NoCredentials /\ ack = "none" /\ received = "none"
    /\ main \notin {"load", "exit"} => memory.id \in known
    /\ main \in {"save", "write", "connect"} \cup Late => memory.token # None
    /\ main \in {"loop", "dial", "publish", "wait", "save", "leave"} => ~HasToken(config)
    /\ main = "write" => config = Lost

-----------------------------------------------------------------------------
LEMMA InitStartInv == Init => StartInv
<1> SUFFICES ASSUME Init PROVE StartInv
  OBVIOUS
<1> USE OnboardingAssumption DEF Init, StartInit
<1>1. config \in Credentials /\ config.token = None /\ NoCredentials \in Credentials
  BY DEF Credentials, NoCredentials
<1>2. known \subseteq Ids
  BY <1>1 DEF Credentials
<1>3. StartTypeOK
  <2>1. fields \in BOOLEAN /\ signal \in BOOLEAN
    OBVIOUS
  <2>2. asked \subseteq known /\ registered \subseteq known /\ restarts \in 0..MaxRestarts
    OBVIOUS
  <2>3. ack = "none" /\ received = "none" /\ memory = NoCredentials
    OBVIOUS
  <2> QED
    BY ONLY <1>1, <1>2, <2>1, <2>2, <2>3 DEF StartTypeOK
<1>4. Issued(memory) /\ Issued(config)
  BY <1>1 DEF Issued, NoCredentials
<1> QED
  BY <1>3, <1>4 DEF StartInv, Early, Late

(* Loading fills the memory from the file, or with an id of no device. *)
LEMMA LoadKeeps ==
  ASSUME StartInv, Load \/ LoadFails
  PROVE  StartInv'
<1> USE OnboardingAssumption DEF StartInv
<1>1. CASE LoadFails
  BY <1>1 DEF LoadFails, StartTypeOK, Early, Late, Issued, HasToken
<1>2. CASE Load
  <2> DEFINE found == IF config = Lost THEN NoCredentials ELSE config
  <2>1. found \in Credentials /\ Issued(found)
    BY DEF StartTypeOK, Credentials, NoCredentials, Issued
  <2>2. PICK i \in IF found.id = None THEN Ids \ known ELSE {found.id} :
          /\ memory' = [found EXCEPT !.id = i]
          /\ known' = known \cup {i}
          /\ main' = IF IsRegistered(memory') THEN "connect" ELSE "loop"
    BY <1>2 DEF Load
  <2>3. i \in Ids /\ memory' \in Credentials /\ memory'.id = i /\ memory'.token = found.token
    BY <2>1, <2>2 DEF Credentials
  <2>4. /\ UNCHANGED <<config, fields, asked, registered, ack, received, signal, restarts>>
        /\ ack = "none" /\ received = "none"
    BY <1>2 DEF Load
  <2>5. found.token # None => found.id = i /\ found.id \in registered
    BY <2>1, <2>2 DEF Issued, StartTypeOK
  <2>6. StartTypeOK'
    BY <2>2, <2>3, <2>4 DEF StartTypeOK
  <2>7. Issued(memory)' /\ (config # Lost => Issued(config))'
    BY <2>1, <2>3, <2>4, <2>5 DEF Issued
  <2>8. main' = "connect" => memory'.token # None
    BY <2>2 DEF IsRegistered
  <2>9. main' = "loop" => ~HasToken(config)'
    BY <2>2, <2>3, <2>4 DEF IsRegistered, HasToken
  <2> QED
    BY <2>2, <2>3, <2>4, <2>6, <2>7, <2>8, <2>9 DEF Early, Late
<1> QED
  BY <1>1, <1>2

(* The attempts of the onboarding. *)
LEMMA AttemptKeeps ==
  ASSUME StartInv, LoopTest \/ DialRegister \/ DialFails \/ PublishRegister \/ DestroyClient \/ Connect
  PROVE  StartInv'
<1> USE OnboardingAssumption DEF StartInv, Issued, HasToken, Early, Late
<1>1. CASE LoopTest
  BY <1>1 DEF LoopTest, StartTypeOK, IsRegistered
<1>2. CASE DialRegister \/ DialFails
  BY <1>2 DEF DialRegister, DialFails, StartTypeOK
<1>3. CASE PublishRegister
  <2>1. memory.id \in known
    BY <1>3 DEF PublishRegister
  <2> QED
    BY <1>3, <2>1 DEF PublishRegister, StartTypeOK
<1>4. CASE DestroyClient \/ Connect
  BY <1>4 DEF DestroyClient, Connect, StartTypeOK
<1> QED
  BY <1>1, <1>2, <1>3, <1>4

(* The credentials that an answer brings are those of the device that has  *)
(* asked, and they reach the memory before the file.                       *)
LEMMA AnswerKeeps ==
  ASSUME StartInv, WaitEnds \/ OpenConfig \/ WriteConfig \/ Around
  PROVE  StartInv'
<1> USE OnboardingAssumption DEF StartInv, Issued, Early, Late
<1>1. CASE WaitEnds
  <2>1. memory.id \in known /\ memory \in Credentials /\ known \subseteq Ids
    BY <1>1 DEF WaitEnds, StartTypeOK
  <2>2. CASE received = "ok"
    <3>1. memory' \in Credentials /\ memory'.id = memory.id /\ memory'.token = memory.id
      BY <1>1, <2>1, <2>2 DEF WaitEnds, Credentials
    <3> QED
      BY <1>1, <2>1, <2>2, <3>1 DEF WaitEnds, StartTypeOK, HasToken
  <2>3. CASE received # "ok"
    BY <1>1, <2>3 DEF WaitEnds, StartTypeOK, HasToken
  <2> QED
    BY <2>2, <2>3
<1>2. CASE OpenConfig
  BY <1>2 DEF OpenConfig, StartTypeOK, HasToken
<1>3. CASE WriteConfig
  <2>1. config' \in Credentials \cup {Lost} /\ (config' # Lost => Issued(config'))
    BY <1>3 DEF WriteConfig, StartTypeOK, Credentials, NoCredentials
  <2> QED
    BY <1>3, <2>1 DEF WriteConfig, StartTypeOK
<1>4. CASE BackendAnswers
  <2>1. PICK i \in asked, verdict \in {"ok", "rejected"} :
          /\ asked' = asked \ {i}
          /\ registered' = IF verdict = "ok" THEN registered \cup {i} ELSE registered
          /\ ack' = IF Listening /\ memory.id = i THEN verdict ELSE ack
    BY <1>4 DEF BackendAnswers
  <2>2. UNCHANGED <<main, config, fields, memory, known, received, signal, restarts>>
    BY <1>4 DEF BackendAnswers
  <2>3. main # "load" \/ ack' = ack
    BY <2>1 DEF Listening
  <2>4. StartTypeOK'
    BY <2>1, <2>2 DEF StartTypeOK
  <2>5. registered \subseteq registered' /\ (ack' = "ok" => ack = "ok" \/ memory.id \in registered')
    BY <2>1
  <2> QED
    BY <2>2, <2>3, <2>4, <2>5 DEF HasToken
<1>5. CASE AckArrives
  BY <1>5 DEF AckArrives, StartTypeOK, HasToken
<1>6. CASE Signal
  BY <1>6 DEF Signal, StartTypeOK, HasToken
<1> QED
  BY <1>1, <1>2, <1>3, <1>4, <1>5, <1>6 DEF Around

(* After the start only the place of the main thread changes. *)
LEMMA LaterKeeps ==
  ASSUME StartInv,
         \/ main \in Late /\ main' \in Late
            /\ UNCHANGED <<config, fields, memory, known, asked, registered, ack, received, signal, restarts>>
         \/ Die
         \/ UNCHANGED startVars
  PROVE  StartInv'
<1> USE DEF StartInv, Issued, Early, Late, HasToken
<1>1. CASE Die
  <2>1. NoCredentials \in Credentials /\ NoCredentials.token = None
    BY DEF Credentials, NoCredentials
  <2>2. restarts' \in 0..MaxRestarts
    BY <1>1, OnboardingAssumption DEF Die, StartTypeOK
  <2> QED
    BY <1>1, <2>1, <2>2 DEF Die, StartTypeOK
<1>2. CASE UNCHANGED startVars
  BY <1>2 DEF startVars, StartTypeOK
<1>3. CASE /\ main \in Late /\ main' \in Late
           /\ UNCHANGED <<config, fields, memory, known, asked, registered, ack, received, signal, restarts>>
  BY <1>3 DEF StartTypeOK
<1> QED
  BY <1>1, <1>2, <1>3

(* Every step of the agent is one of these. *)
LEMMA StartSteps ==
  ASSUME StartInv, [Next]_vars
  PROVE  \/ Start
         \/ Around
         \/ main \in Late /\ main' \in Late
            /\ UNCHANGED <<config, fields, memory, known, asked, registered, ack, received, signal, restarts>>
         \/ Die
         \/ UNCHANGED startVars
<1>1. CASE OnboardingStep \/ ConnectDevice \/ (Around /\ UNCHANGED <<serviceVars, linkVars>>) \/ Crash
  BY <1>1 DEF OnboardingStep, ConnectDevice, Crash, Start
<1>2. CASE StartServices \/ AttachSink \/ Watchdog \/ StopExecutor \/ ExecutorEnds \/ UnloadAll \/ Disconnect
  BY <1>2 DEF StartServices, AttachSink, Watchdog, StopExecutor, ExecutorEnds, UnloadAll, Disconnect, Main, Late,
              AfterExecutor
<1>3. ASSUME NEW s \in Services, Join(s) PROVE main \in Late /\ main' \in Late
            /\ UNCHANGED <<config, fields, memory, known, asked, registered, ack, received, signal, restarts>>
  BY <1>3 DEF Join, Main, Late, AfterStop, Services
<1>4. CASE \E s \in Services : Loop(s) \/ RequestStop(s)
  BY <1>4 DEF Loop, Test, Round, Awake, LogStopped, ClearTrigger, PublishOffline, RequestStop
<1>5. CASE \E s \in Triggered : TriggerNow(s)
  BY <1>5 DEF TriggerNow
<1>6. CASE LoseConnection \/ Jam \/ PublishWill \/ Reconnect \/ UNCHANGED vars
  BY <1>6 DEF LoseConnection, Jam, PublishWill, Reconnect, vars
<1> QED
  BY <1>1, <1>2, <1>3, <1>4, <1>5, <1>6 DEF Next, Shutdown

LEMMA StartInvariant == Spec => []StartInv
<1>1. StartInv /\ [Next]_vars => StartInv'
  BY StartSteps, LoadKeeps, AttemptKeeps, AnswerKeeps, LaterKeeps DEF Start
<1> QED
  BY <1>1, InitStartInv, PTL DEF Spec

-----------------------------------------------------------------------------
(* The services. *)

AllStopped == \A s \in Services : Ended(s)

ServiceTypes ==
    /\ thread \in [Services -> {"none", "test", "round", "sleep", "clear", "final", "log", "ended"}]
    /\ running \in [Services -> BOOLEAN] /\ stopping \in [Services -> BOOLEAN]
    /\ trigger \in [Services -> BOOLEAN] /\ owed \in [Services -> BOOLEAN]

ServiceInv ==
    /\ ServiceTypes
    /\ main \in Early \cup Late \cup {"exit"}
    /\ main \in Early \cup {"start"} => AllStopped /\ \A s \in Services : ~running[s]
    /\ main \in {"unload", "disconnect", "hung", "exit"} => AllStopped
    /\ main \in {"attach", "watch", "executor"} => \A s \in Services : running[s] /\ ~stopping[s]
    /\ executor => main \in {"attach", "watch", "executor"}
    /\ main \in {"start", "attach", "watch", "executor", "scanner", "collector", "heartbeat", "unload"} => plugins
    /\ main \in {"collector", "heartbeat"} /\ WithScanner => Ended("scanner")
    /\ main = "heartbeat" => Ended("collector")
    /\ \A s \in Triggered : owed[s] /\ thread[s] \in {"round", "sleep", "clear"} => trigger[s]

LEMMA InitServiceInv == Init => ServiceInv
BY DEF Init, StartInit, ServiceInv, ServiceTypes, Nowhere, Unset, Early, AllStopped, Ended, Triggered

(* The main thread before and after the services; the connection. *)
LEMMA MainKeeps ==
  ASSUME ServiceInv,
         \/ OnboardingStep \/ ConnectDevice \/ AttachSink \/ UnloadAll \/ Disconnect
         \/ (Around /\ UNCHANGED <<serviceVars, linkVars>>)
         \/ LoseConnection \/ Jam \/ PublishWill \/ Reconnect \/ UNCHANGED vars
  PROVE  ServiceInv'
<1> USE DEF ServiceInv, ServiceTypes, Early, Late, AllStopped, Ended, serviceVars
<1>1. CASE OnboardingStep
  <2>1. main \in Early /\ main' \in Early \cup {"exit"} /\ UNCHANGED serviceVars
    BY <1>1 DEF OnboardingStep, Load, LoadFails, LoopTest, DialRegister, DialFails, PublishRegister, WaitEnds,
                OpenConfig, WriteConfig, DestroyClient
  <2> QED
    BY <2>1
<1>2. CASE ConnectDevice
  BY <1>2 DEF ConnectDevice, Connect
<1>3. CASE AttachSink \/ UnloadAll \/ Disconnect
  BY <1>3 DEF AttachSink, UnloadAll, Disconnect, Main
<1>4. CASE Around /\ UNCHANGED <<serviceVars, linkVars>>
  <2>1. UNCHANGED <<main, serviceVars>>
    BY <1>4 DEF Around, BackendAnswers, AckArrives, Signal
  <2> QED
    BY <2>1
<1>5. CASE LoseConnection \/ Jam \/ PublishWill \/ Reconnect \/ UNCHANGED vars
  <2>1. UNCHANGED <<main, serviceVars>>
    BY <1>5 DEF LoseConnection, Jam, PublishWill, Reconnect, vars, startVars
  <2> QED
    BY <2>1
<1> QED
  BY <1>1, <1>2, <1>3, <1>4, <1>5

(* The services are started; the watchdog finds them running. *)
LEMMA BeginKeeps ==
  ASSUME ServiceInv, StartServices \/ Watchdog
  PROVE  ServiceInv'
<1> USE DEF ServiceInv, ServiceTypes, Early, Late, AllStopped, Ended
<1> DEFINE idle == {s \in Services : ~running[s]}
<1>1. CASE StartServices
  <2>1. idle = Services
    BY <1>1 DEF StartServices, Main
  <2>2. /\ main = "start" /\ main' = "attach" /\ plugins' = plugins /\ UNCHANGED <<trigger, owed>>
        /\ thread' = [s \in Services |-> "test"]
        /\ running' = [s \in Services |-> TRUE]
        /\ stopping' = [s \in Services |-> FALSE]
    BY <1>1, <2>1 DEF StartServices, StartThreads, Main
  <2> QED
    BY <2>2 DEF Triggered
<1>2. CASE Watchdog
  <2>1. idle = {}
    BY <1>2 DEF Watchdog, Main
  <2>2. /\ main' = main /\ main = "watch" /\ UNCHANGED <<plugins, executor, trigger, owed>>
        /\ thread' = [s \in Services |-> thread[s]]
        /\ running' = [s \in Services |-> TRUE]
        /\ stopping' = [s \in Services |-> stopping[s]]
    BY <1>2, <2>1 DEF Watchdog, StartThreads, Main
  <2>3. thread' = thread /\ stopping' = stopping
    BY <2>2
  <2> QED
    BY <2>2, <2>3 DEF Triggered
<1> QED
  BY <1>1, <1>2

(* A loop goes on; one that has ended does not begin again. *)
LEMMA LoopKeeps ==
  ASSUME ServiceInv, NEW s \in Services, Loop(s)
  PROVE  ServiceInv'
<1> USE DEF ServiceInv, ServiceTypes
<1>1. /\ UNCHANGED <<main, running, stopping, executor, plugins>>
      /\ thread[s] \in {"test", "round", "sleep", "clear", "final", "log"}
      /\ \E to \in {"test", "round", "sleep", "clear", "final", "log", "ended"} :
            thread' = [thread EXCEPT ![s] = to]
  BY DEF Loop, Test, Round, Awake, LogStopped, ClearTrigger, PublishOffline, Go, startVars
<1>2. ServiceTypes'
  BY <1>1 DEF Loop, Test, Round, Awake, LogStopped, ClearTrigger, PublishOffline, Go
<1>3. \A u \in Services : Ended(u) => Ended(u)'
  BY <1>1 DEF Ended
<1>4. (\A u \in Triggered : owed[u] /\ thread[u] \in {"round", "sleep", "clear"} => trigger[u])'
  <2>1. CASE Test(s)
    BY <2>1 DEF Test, Go, Triggered
  <2>2. CASE Round(s)
    BY <2>2 DEF Round, Go, Triggered
  <2>3. CASE Awake(s)
    BY <2>3 DEF Awake, Go, Triggered
  <2>4. CASE ClearTrigger(s)
    BY <2>4 DEF ClearTrigger, Go, Triggered
  <2>5. CASE s = "heartbeat" /\ PublishOffline
    BY <2>5 DEF PublishOffline, Go, Triggered
  <2>6. CASE LogStopped(s)
    BY <2>6 DEF LogStopped, Go, Triggered
  <2> QED
    BY <2>1, <2>2, <2>3, <2>4, <2>5, <2>6 DEF Loop
<1>5. "collector" \in Services /\ "heartbeat" \in Services /\ (WithScanner => "scanner" \in Services)
  BY DEF Services
<1> QED
  BY <1>1, <1>2, <1>3, <1>4, <1>5 DEF AllStopped

(* Triggers, and the requests that set them. *)
LEMMA TriggerKeeps ==
  ASSUME ServiceInv, NEW s \in Services, (s \in Triggered /\ TriggerNow(s)) \/ RequestStop(s)
  PROVE  ServiceInv'
<1> USE DEF ServiceInv, ServiceTypes
<1>1. /\ UNCHANGED <<main, thread, running, executor, plugins>>
      /\ main \in {"attach", "watch", "executor"} => UNCHANGED stopping
  BY DEF TriggerNow, RequestStop, startVars, Services
<1>2. ServiceTypes'
  BY <1>1 DEF TriggerNow, RequestStop
<1>3. (\A u \in Triggered : owed[u] /\ thread[u] \in {"round", "sleep", "clear"} => trigger[u])'
  BY <1>1 DEF TriggerNow, RequestStop, Triggered
<1> QED
  BY <1>1, <1>2, <1>3 DEF AllStopped, Ended

(* The shutdown joins one service after the other. *)
LEMMA StopKeeps ==
  ASSUME ServiceInv, StopExecutor \/ ExecutorEnds \/ \E s \in Services : Join(s)
  PROVE  ServiceInv'
<1> USE DEF ServiceInv, ServiceTypes, AllStopped, Ended, Early, Late
<1>1. CASE StopExecutor \/ ExecutorEnds
  BY <1>1 DEF StopExecutor, ExecutorEnds, Main, AfterExecutor
<1>2. ASSUME NEW s \in Services, Join(s) PROVE ServiceInv'
  <2>1. /\ main = s /\ main' = AfterStop[s] /\ Ended(s) /\ UNCHANGED <<thread, stopping, trigger, owed, executor, plugins>>
        /\ running' = [running EXCEPT ![s] = FALSE]
    BY <1>2 DEF Join, Main
  <2>2. ~executor
    BY <2>1 DEF Services
  <2>3. ServiceTypes'
    BY <2>1
  <2>4. (\A u \in Triggered : owed[u] /\ thread[u] \in {"round", "sleep", "clear"} => trigger[u])'
    BY <2>1
  <2>5. CASE s = "scanner"
    BY <2>1, <2>2, <2>3, <2>4, <2>5 DEF AfterStop
  <2>6. CASE s = "collector"
    BY <2>1, <2>2, <2>3, <2>4, <2>6 DEF AfterStop
  <2>7. CASE s = "heartbeat"
    BY <2>1, <2>2, <2>3, <2>4, <2>7 DEF AfterStop, Services
  <2> QED
    BY <2>5, <2>6, <2>7 DEF Services
<1> QED
  BY <1>1, <1>2

(* A crash ends every thread. *)
LEMMA CrashKeeps ==
  ASSUME ServiceInv, Crash
  PROVE  ServiceInv'
BY DEF ServiceInv, ServiceTypes, AllStopped, Ended, Crash, Die, Nowhere, Unset, Early, Late, Triggered

LEMMA ServiceInvariant == Spec => []ServiceInv
<1>1. ServiceInv /\ [Next]_vars => ServiceInv'
  <2> SUFFICES ASSUME ServiceInv, [Next]_vars PROVE ServiceInv'
    OBVIOUS
  <2>1. ASSUME NEW s \in Triggered PROVE s \in Services
    BY <2>1 DEF Triggered
  <2>2. "heartbeat" \in Services
    BY DEF Services
  <2> QED
    BY <2>1, <2>2, MainKeeps, BeginKeeps, LoopKeeps, TriggerKeeps, StopKeeps, CrashKeeps DEF Next, Shutdown
<1> QED
  BY <1>1, InitServiceInv, PTL DEF Spec

-----------------------------------------------------------------------------
(* The agent has the credentials of a registered device whenever it        *)
(* connects as one, through timeouts, late and repeated answers, saves     *)
(* that fail, crashes and restarts (main.cpp:284-345, 548-572).            *)
THEOREM AgentRegistered == Spec => []RunsRegistered
<1>1. StartInv => RunsRegistered
  BY DEF StartInv, RunsRegistered, Issued, Early, Late
<1> QED
  BY <1>1, StartInvariant, PTL

(* Credentials on disk are never overwritten, by an agent that is started  *)
(* however often and dies anywhere (ConfigManager.cpp:268-299).            *)
THEOREM CredentialsStay == Spec => CredentialsKept
<1>1. StartInv /\ [Next]_vars => [HasToken(config) => config' = config]_startVars
  <2> SUFFICES ASSUME StartInv, [Next]_vars, HasToken(config) PROVE config' = config
    OBVIOUS
  <2>1. CASE Start
    BY <2>1 DEF Start, Load, LoadFails, LoopTest, DialRegister, DialFails, PublishRegister, WaitEnds, OpenConfig,
                WriteConfig, DestroyClient, Connect, StartInv, HasToken
  <2>2. CASE Around \/ Die \/ UNCHANGED startVars
    BY <2>2 DEF Around, BackendAnswers, AckArrives, Signal, Die, startVars
  <2> QED
    BY <2>1, <2>2, StartSteps
<1> QED
  BY <1>1, StartInvariant, PTL DEF Spec, CredentialsKept

(* No service sleeps over a trigger, although its loop clears the flag     *)
(* (LogCollector.cpp:81-95, NetworkScanner.cpp:79-91).                     *)
THEOREM TriggersSeen == Spec => []NoSleepOverTrigger
<1>1. ServiceInv => NoSleepOverTrigger
  BY DEF ServiceInv, NoSleepOverTrigger
<1> QED
  BY <1>1, ServiceInvariant, PTL

(* The shutdown takes nothing down that a service or a command still uses, *)
(* with and without the scanner (main.cpp:702-717).                        *)
THEOREM OrderlyShutdown == Spec => []TakenDownInOrder
<1>1. ServiceInv => TakenDownInOrder
  BY DEF ServiceInv, ServiceTypes, TakenDownInOrder, AllStopped, Ended, Early, Late, Services
<1> QED
  BY <1>1, ServiceInvariant, PTL

-----------------------------------------------------------------------------
(***************************************************************************)
(* The token (Token).                                                      *)
(***************************************************************************)
(* A byte by its bounds: the provers would list the elements of 0..255.    *)
UpTo(x, n) == x \in Nat /\ x <= n

LEMMA ByteIs == \A x : x \in Byte <=> UpTo(x, 255)
  <1>1. \A n \in Nat : \A x : x \in 0..n <=> UpTo(x, n)
    BY DEF UpTo
  <1>2. 255 \in Nat
    OBVIOUS
  <1> QED
    BY ONLY Zenon, <1>1, <1>2 DEF Byte

(* What b64Encode writes, b64Decode looks up; it does not write padding as one of the 64 characters. *)
LEMMA LookupInverts ==
    ASSUME NEW n \in Nat, n < 64
    PROVE  Lookup(Char(n)) = n
  <1>1. CASE n < 26
    <2>1. Char(n) = 65 + n
      BY <1>1 DEF Char
    <2> QED
      BY <1>1, <2>1 DEF Lookup
  <1>2. CASE 26 <= n /\ n < 52
    <2>1. Char(n) = 97 + (n - 26)
      BY <1>2 DEF Char
    <2> QED
      BY <1>2, <2>1 DEF Lookup
  <1>3. CASE 52 <= n /\ n < 62
    <2>1. Char(n) = 48 + (n - 52)
      BY <1>3 DEF Char
    <2> QED
      BY <1>3, <2>1 DEF Lookup
  <1>4. CASE n = 62
    BY <1>4 DEF Char, Lookup
  <1>5. CASE n = 63
    BY <1>5 DEF Char, Lookup
  <1> QED
    BY <1>1, <1>2, <1>3, <1>4, <1>5

LEMMA PadIsNone == Lookup(PadChar) = -1
  BY DEF Lookup, PadChar

(* A sextet alone is kept in val; with what is there it makes a byte. *)
Decodes(d, c, w, next, out) ==
    DecodeChar(d, c) = IF next < 0 THEN Decoding(w, next, out)
                       ELSE Decoding(w, next - 8, Append(out, (w \div 2^next) % 256))

LEMMA DecodeUnfolds ==
    ASSUME NEW d, NEW c, NEW w, NEW next, d.loop # "left", Lookup(c) # -1,
           (d.val * 64 + Lookup(c)) % 2^ValBits = w, d.bits + 6 = next
    PROVE  Decodes(d, c, w, next, d.out)
  BY Zenon DEF DecodeChar, Decodes

LEMMA DecodeSextet ==
    ASSUME NEW val \in Nat, NEW bits \in Int, NEW out, NEW x \in Nat, x < 64,
           NEW w, w = (val * 64 + x) % 2^16, NEW next, next = bits + 6
    PROVE  Decodes(Decoding(val, bits, out), Char(x), w, next, out)
  <1> DEFINE c == Char(x)
             d == Decoding(val, bits, out)
  <1>1. Lookup(c) = x /\ Lookup(c) # -1
    BY LookupInverts
  <1>2. 2^ValBits = 2^16
    BY DEF ValBits
  <1>3. d.val = val /\ d.bits = bits /\ d.out = out /\ d.loop # "left"
    BY DEF Decoding
  <1>4. (d.val * 64 + Lookup(c)) % 2^ValBits = w /\ d.bits + 6 = next
    BY <1>1, <1>2, <1>3
  <1> HIDE DEF c, d
  <1>5. Decodes(d, c, w, next, d.out)
    BY <1>1, <1>3, <1>4, DecodeUnfolds
  <1> QED
    BY <1>3, <1>5 DEF c, d

(* The four states of a group. *)
LEMMA DecodeFirst ==
    ASSUME NEW val \in Nat, NEW out, NEW x \in Nat, x < 64, NEW w, w = (val * 64 + x) % 2^16
    PROVE  DecodeChar(Decoding(val, -8, out), Char(x)) = Decoding(w, -2, out)
  <1> DEFINE bits == -8
             next == -2
  <1>1. next = bits + 6 /\ bits \in Int
    OBVIOUS
  <1>2. next < 0
    OBVIOUS
  <1> HIDE DEF bits, next
  <1>3. Decodes(Decoding(val, bits, out), Char(x), w, next, out)
    BY <1>1, DecodeSextet
  <1> QED
    BY <1>2, <1>3 DEF Decodes, bits, next

LEMMA DecodeSecond ==
    ASSUME NEW val \in Nat, NEW out, NEW x \in Nat, x < 64, NEW w, w = (val * 64 + x) % 2^16
    PROVE  DecodeChar(Decoding(val, -2, out), Char(x)) = Decoding(w, -4, Append(out, (w \div 16) % 256))
  <1> DEFINE bits == -2
             next == 4
  <1>1. next = bits + 6 /\ bits \in Int
    OBVIOUS
  <1>2. ~(next < 0) /\ next - 8 = -4 /\ 2^next = 16
    OBVIOUS
  <1> HIDE DEF bits, next
  <1>3. Decodes(Decoding(val, bits, out), Char(x), w, next, out)
    BY <1>1, DecodeSextet
  <1> QED
    BY <1>2, <1>3 DEF Decodes, bits

LEMMA DecodeThird ==
    ASSUME NEW val \in Nat, NEW out, NEW x \in Nat, x < 64, NEW w, w = (val * 64 + x) % 2^16
    PROVE  DecodeChar(Decoding(val, -4, out), Char(x)) = Decoding(w, -6, Append(out, (w \div 4) % 256))
  <1> DEFINE bits == -4
             next == 2
  <1>1. next = bits + 6 /\ bits \in Int
    OBVIOUS
  <1>2. ~(next < 0) /\ next - 8 = -6 /\ 2^next = 4
    OBVIOUS
  <1> HIDE DEF bits, next
  <1>3. Decodes(Decoding(val, bits, out), Char(x), w, next, out)
    BY <1>1, DecodeSextet
  <1> QED
    BY <1>2, <1>3 DEF Decodes, bits

LEMMA DecodeFourth ==
    ASSUME NEW val \in Nat, NEW out, NEW x \in Nat, x < 64, NEW w, w = (val * 64 + x) % 2^16
    PROVE  DecodeChar(Decoding(val, -6, out), Char(x)) = Decoding(w, -8, Append(out, w % 256))
  <1> DEFINE bits == -6
             next == 0
  <1>1. next = bits + 6 /\ bits \in Int
    OBVIOUS
  <1>2. ~(next < 0) /\ next - 8 = -8 /\ w \div 2^next = w
    OBVIOUS
  <1> HIDE DEF bits, next
  <1>3. Decodes(Decoding(val, bits, out), Char(x), w, next, out)
    BY <1>1, DecodeSextet
  <1> QED
    BY <1>2, <1>3 DEF Decodes, bits

(* After a character that is none of the 64 nothing is put out any more. *)
LEMMA DecodePadding ==
    ASSUME NEW val, NEW bits, NEW out
    PROVE  /\ DecodeChar(Decoding(val, bits, out), PadChar) = Broken(out)
           /\ DecodeChar(Broken(out), PadChar) = Broken(out)
  BY PadIsNone DEF DecodeChar, Decoding, Broken

(* The bits of three bytes. *)
LEMMA Sextets ==
    ASSUME NEW b1 \in Nat, b1 < 256, NEW b2 \in Nat, b2 < 256, NEW b3 \in Nat, b3 < 256
    PROVE  /\ b1 \div 4 \in Nat /\ b1 \div 4 < 64
           /\ (b1 % 4) * 16 + b2 \div 16 \in Nat /\ (b1 % 4) * 16 + b2 \div 16 < 64
           /\ (b2 % 16) * 4 + b3 \div 64 \in Nat /\ (b2 % 16) * 4 + b3 \div 64 < 64
           /\ b3 % 64 \in Nat /\ b3 % 64 < 64
  OBVIOUS

LEMMA FirstByte ==
    ASSUME NEW val \in Nat, NEW b1 \in Nat, b1 < 256, NEW b2 \in Nat, b2 < 256,
           NEW w1, w1 = (val * 64 + b1 \div 4) % 2^16,
           NEW w2, w2 = (w1 * 64 + ((b1 % 4) * 16 + b2 \div 16)) % 2^16
    PROVE  w1 \in Nat /\ w2 \in Nat /\ (w2 \div 16) % 256 = b1 /\ w2 % 16 = b2 \div 16
  OBVIOUS

LEMMA SecondByte ==
    ASSUME NEW w2 \in Nat, NEW b2 \in Nat, b2 < 256, NEW b3 \in Nat, b3 < 256, w2 % 16 = b2 \div 16,
           NEW w3, w3 = (w2 * 64 + ((b2 % 16) * 4 + b3 \div 64)) % 2^16
    PROVE  w3 \in Nat /\ (w3 \div 4) % 256 = b2 /\ w3 % 4 = b3 \div 64
  OBVIOUS

LEMMA Division ==
    ASSUME NEW size \in Nat \ {0}, NEW q \in Int, NEW k \in Nat, k < size
    PROVE  (size * q + k) \div size = q /\ (size * q + k) % size = k
  OBVIOUS

LEMMA Quotient ==
    ASSUME NEW size \in Nat \ {0}, NEW n \in Nat
    PROVE  /\ n = size * (n \div size) + (n % size)
           /\ n \div size \in Nat /\ n % size \in Nat /\ n % size < size
  OBVIOUS

LEMMA Thirds ==
    ASSUME NEW n \in Nat
    PROVE  \E m \in Nat : n = 3 * m \/ n = 3 * m + 1 \/ n = 3 * m + 2
  <1> DEFINE m == n \div 3
             r == n % 3
  <1>1. n = 3 * m + r /\ m \in Nat /\ r \in {0, 1, 2}
    OBVIOUS
  <1> HIDE DEF m, r
  <1> QED
    BY <1>1

LEMMA ThirdByte ==
    ASSUME NEW w3 \in Nat, NEW b3 \in Nat, b3 < 256, w3 % 4 = b3 \div 64,
           NEW r \in Nat, r = b3 % 64, NEW w4, w4 = (w3 * 64 + r) % 2^16
    PROVE  w4 \in Nat /\ w4 % 256 = b3
  <1>1. PICK q \in Nat : w3 = 4 * q + b3 \div 64
    BY Quotient
  <1>2. PICK s \in Nat : b3 = 64 * s + r /\ s = b3 \div 64
    BY Quotient
  <1>3. \A n \in Nat : \E p \in Nat, w \in Nat : n = 65536 * p + w /\ w = n % 2^16
    OBVIOUS
  <1>4. w3 * 64 + r \in Nat
    OBVIOUS
  <1>5. PICK p \in Nat, w \in Nat : w3 * 64 + r = 65536 * p + w /\ w = w4
    BY ONLY <1>3, <1>4, w4 = (w3 * 64 + r) % 2^16
  <1>6. /\ w3 = 4 * q + s /\ b3 = 64 * s + r
        /\ w4 \in Nat /\ w3 * 64 + r = 65536 * p + w4
    BY <1>1, <1>2, <1>5
  <1>7. w4 = 256 * (q - 256 * p) + b3 /\ q - 256 * p \in Int
    BY ONLY <1>6, b3 \in Nat, p \in Nat, q \in Nat, r \in Nat, s \in Nat
  <1>8. (256 * (q - 256 * p) + b3) % 256 = b3
    BY <1>7, Division
  <1> QED
    BY <1>6, <1>7, <1>8

(* The first, the second and the third byte of a group come out when it    *)
(* has been read so far.                                                   *)
ReadsFirst(d, out, b1, b2) ==
    \E w \in Nat :
       /\ DecodeChar(DecodeChar(d, Char(b1 \div 4)), Char((b1 % 4) * 16 + b2 \div 16)) =
             Decoding(w, -4, Append(out, b1))
       /\ w % 16 = b2 \div 16

ReadsSecond(d, out, b2, b3) ==
    \E w \in Nat :
       /\ DecodeChar(d, Char((b2 % 16) * 4 + b3 \div 64)) = Decoding(w, -6, Append(out, b2))
       /\ w % 4 = b3 \div 64

ReadsThird(d, out, b3) ==
    \E w \in Nat : DecodeChar(d, Char(b3 % 64)) = Decoding(w, -8, Append(out, b3))

LEMMA AfterTwo ==
    ASSUME NEW val \in Nat, NEW out, NEW b1 \in Nat, b1 < 256, NEW b2 \in Nat, b2 < 256
    PROVE  ReadsFirst(Decoding(val, -8, out), out, b1, b2)
  <1> DEFINE x1 == b1 \div 4
             x2 == (b1 % 4) * 16 + b2 \div 16
             w1 == (val * 64 + x1) % 2^16
             w2 == (w1 * 64 + x2) % 2^16
  <1>1. x1 \in Nat /\ x1 < 64 /\ x2 \in Nat /\ x2 < 64
    BY Sextets
  <1>2. w1 \in Nat /\ w2 \in Nat /\ (w2 \div 16) % 256 = b1 /\ w2 % 16 = b2 \div 16
    BY FirstByte
  <1> HIDE DEF x1, x2
  <1>3. DecodeChar(Decoding(val, -8, out), Char(x1)) = Decoding(w1, -2, out)
    BY <1>1, DecodeFirst
  <1> HIDE DEF w1
  <1>4. DecodeChar(Decoding(w1, -2, out), Char(x2)) = Decoding(w2, -4, Append(out, (w2 \div 16) % 256))
    BY <1>1, <1>2, DecodeSecond
  <1> HIDE DEF w2
  <1> QED
    BY <1>2, <1>3, <1>4 DEF x1, x2, ReadsFirst

LEMMA AfterThird ==
    ASSUME NEW val \in Nat, NEW out, NEW b2 \in Nat, b2 < 256, NEW b3 \in Nat, b3 < 256, val % 16 = b2 \div 16
    PROVE  ReadsSecond(Decoding(val, -4, out), out, b2, b3)
  <1> DEFINE x == (b2 % 16) * 4 + b3 \div 64
             w3 == (val * 64 + x) % 2^16
  <1>1. x \in Nat /\ x < 64
    BY Sextets
  <1>2. w3 \in Nat /\ (w3 \div 4) % 256 = b2 /\ w3 % 4 = b3 \div 64
    BY SecondByte
  <1> HIDE DEF x
  <1>3. w3 = (val * 64 + x) % 2^16
    OBVIOUS
  <1> HIDE DEF w3
  <1>4. DecodeChar(Decoding(val, -4, out), Char(x)) = Decoding(w3, -6, Append(out, (w3 \div 4) % 256))
    BY ONLY val \in Nat, <1>1, <1>3, DecodeThird
  <1> QED
    BY <1>2, <1>4 DEF x, ReadsSecond

LEMMA AfterFourth ==
    ASSUME NEW val \in Nat, NEW out, NEW b3 \in Nat, b3 < 256, val % 4 = b3 \div 64
    PROVE  ReadsThird(Decoding(val, -6, out), out, b3)
  <1> DEFINE x == b3 % 64
             w4 == (val * 64 + x) % 2^16
  <1>1. x \in Nat /\ x < 64
    BY Sextets
  <1> HIDE DEF x
  <1>2. w4 \in Nat /\ w4 % 256 = b3
    BY <1>1, ThirdByte DEF x
  <1>3. DecodeChar(Decoding(val, -6, out), Char(x)) = Decoding(w4, -8, Append(out, w4 % 256))
    BY <1>1, DecodeFourth
  <1> HIDE DEF w4
  <1> QED
    BY <1>2, <1>3 DEF x, ReadsThird

-----------------------------------------------------------------------------
LEMMA SetInduction ==
    ASSUME NEW S, 0 \in S, \A n \in Nat : n \in S => n + 1 \in S
    PROVE  Nat \subseteq S
  <1> SUFFICES ASSUME Nat \ S # {} PROVE FALSE
    OBVIOUS
  <1>1. IsWellFoundedOn(OpToRel(<, Nat), Nat)
    BY NatLessThanWellFounded
  <1>2. PICK x \in Nat \ S : \A y \in Nat \ S : ~(<<y, x>> \in OpToRel(<, Nat))
    BY <1>1, WFMin
  <1>3. \A y \in Nat \ S : ~(y < x)
    BY <1>2 DEF OpToRel
  <1>4. x # 0
    OBVIOUS
  <1>5. x - 1 \in Nat /\ x - 1 < x /\ (x - 1) + 1 = x
    BY <1>4
  <1>6. x - 1 \in S
    BY <1>3, <1>5
  <1> QED
    BY <1>5, <1>6

(* The recursive function of b64Decode is defined, and goes on character   *)
(* by character.                                                           *)
Decoded(f, text, n) ==
    /\ f = [k \in 0..n |-> f[k]]
    /\ f[0] = Decoding(0, -8, <<>>)
    /\ \A k \in 1..n : f[k] = DecodeChar(f[k - 1], text[k])

LEMMA DecodingExists ==
    ASSUME NEW text
    PROVE  \A n \in Nat : \E f : Decoded(f, text, n)
  <1> DEFINE S == {n \in Nat : \E f : Decoded(f, text, n)}
  <1>1. 0 \in S
    <2> DEFINE f == [k \in 0..0 |-> Decoding(0, -8, <<>>)]
    <2>1. Decoded(f, text, 0)
      BY DEF Decoded
    <2> QED
      BY <2>1
  <1>2. ASSUME NEW n \in Nat, n \in S
        PROVE  n + 1 \in S
    <2>1. PICK f : Decoded(f, text, n)
      BY <1>2
    <2> DEFINE g == [k \in 0..n + 1 |-> IF k = n + 1 THEN DecodeChar(f[n], text[n + 1]) ELSE f[k]]
    <2>2. g[0] = Decoding(0, -8, <<>>)
      BY <2>1 DEF Decoded
    <2>3. \A k \in 1..n + 1 : g[k] = DecodeChar(g[k - 1], text[k])
      <3> TAKE k \in 1..n + 1
      <3>1. CASE k = n + 1
        <4>1. k - 1 = n /\ g[k] = DecodeChar(f[n], text[k]) /\ g[n] = f[n]
          BY <3>1
        <4> QED
          BY <4>1
      <3>2. CASE k # n + 1
        <4>1. k \in 1..n /\ g[k] = f[k] /\ g[k - 1] = f[k - 1]
          BY <3>2
        <4> QED
          BY <2>1, <4>1 DEF Decoded
      <3> QED
        BY <3>1, <3>2
    <2>4. g = [k \in 0..n + 1 |-> g[k]]
      OBVIOUS
    <2> HIDE DEF g
    <2>5. Decoded(g, text, n + 1)
      BY <2>2, <2>3, <2>4 DEF Decoded
    <2> QED
      BY <2>5
  <1> HIDE DEF S
  <1>3. Nat \subseteq S
    BY <1>1, <1>2, SetInduction
  <1> QED
    BY <1>3 DEF S

LEMMA DecodingUnfolds ==
    ASSUME NEW text, Len(text) \in Nat
    PROVE  \E f : Decoded(f, text, Len(text)) /\ b64Decode(text) = f[Len(text)].out
  <1> DEFINE Body(f) == [n \in 0..Len(text) |->
                            IF n = 0 THEN Decoding(0, -8, <<>>) ELSE DecodeChar(f[n - 1], text[n])]
             decoding == CHOOSE f : f = Body(f)
  <1>1. PICK f : Decoded(f, text, Len(text))
    BY DecodingExists
  <1>2. f = Body(f)
    <2>1. ASSUME NEW n \in 0..Len(text)
          PROVE  f[n] = Body(f)[n]
      <3>1. CASE n = 0
        BY <1>1, <3>1 DEF Decoded
      <3>2. CASE n \in 1..Len(text)
        <4>1. f[n] = DecodeChar(f[n - 1], text[n])
          BY <1>1, <3>2 DEF Decoded
        <4> QED
          BY <3>2, <4>1
      <3> QED
        BY <3>1, <3>2
    <2>2. f = [n \in 0..Len(text) |-> f[n]]
      BY <1>1 DEF Decoded
    <2> QED
      BY <2>1, <2>2
  <1>3. decoding = Body(decoding)
    <2> HIDE DEF Body
    <2> QED
      BY <1>2
  <1>4. b64Decode(text) = decoding[Len(text)].out
    BY Zenon DEF b64Decode
  <1> HIDE DEF decoding
  <1>5. Decoded(decoding, text, Len(text))
    <2>1. decoding = [n \in 0..Len(text) |-> decoding[n]]
      BY <1>3
    <2>2. decoding[0] = Decoding(0, -8, <<>>)
      BY <1>3
    <2>3. ASSUME NEW n \in 1..Len(text)
          PROVE  decoding[n] = DecodeChar(decoding[n - 1], text[n])
      <3>1. Body(decoding)[n] = DecodeChar(decoding[n - 1], text[n])
        OBVIOUS
      <3> HIDE DEF Body
      <3> QED
        BY <1>3, <3>1
    <2> QED
      BY <2>1, <2>2, <2>3 DEF Decoded
  <1> QED
    BY <1>4, <1>5

-----------------------------------------------------------------------------
(* The characters that b64Encode writes for a group of three bytes, or for *)
(* what is left of one at the end.                                         *)
Byte0(data, n) == IF n <= Len(data) THEN data[n] ELSE 0

Written(data, rest, i) ==
    CASE rest = 1 -> Char(Byte0(data, i) \div 4)
      [] rest = 2 -> Char((Byte0(data, i) % 4) * 16 + Byte0(data, i + 1) \div 16)
      [] rest = 3 -> IF i + 1 <= Len(data)
                     THEN Char((Byte0(data, i + 1) % 16) * 4 + Byte0(data, i + 2) \div 64)
                     ELSE PadChar
      [] rest = 0 -> IF i + 2 <= Len(data) THEN Char(Byte0(data, i + 2) % 64) ELSE PadChar

EncodedLength(data) == 4 * ((Len(data) + 2) \div 3)

LEMMA EncodeIs ==
    ASSUME NEW data
    PROVE  b64Encode(data) = [k \in 1..EncodedLength(data) |-> Written(data, k % 4, 3 * ((k - 1) \div 4) + 1)]
  BY Zenon DEF b64Encode, EncodedLength, Written, Byte0

LEMMA EncodeLength ==
    ASSUME NEW data \in Seq(Byte)
    PROVE  EncodedLength(data) \in Nat /\ Len(b64Encode(data)) = EncodedLength(data)
  <1>1. EncodedLength(data) \in Nat
    BY DEF EncodedLength
  <1> QED
    BY <1>1, EncodeIs

LEMMA EncodeGroup ==
    ASSUME NEW data \in Seq(Byte), NEW m \in Nat, 3 * m < Len(data), NEW text, text = b64Encode(data)
    PROVE  /\ text[4 * m + 1] = Char(Byte0(data, 3 * m + 1) \div 4)
           /\ text[4 * m + 2] = Char((Byte0(data, 3 * m + 1) % 4) * 16 + Byte0(data, 3 * m + 2) \div 16)
           /\ text[4 * m + 3] = IF 3 * m + 2 <= Len(data)
                                THEN Char((Byte0(data, 3 * m + 2) % 16) * 4 + Byte0(data, 3 * m + 3) \div 64)
                                ELSE PadChar
           /\ text[4 * m + 4] = IF 3 * m + 3 <= Len(data) THEN Char(Byte0(data, 3 * m + 3) % 64) ELSE PadChar
           /\ 4 * m + 4 <= EncodedLength(data)
  <1>1. EncodedLength(data) \in Nat /\ 4 * m + 4 <= EncodedLength(data)
    BY DEF EncodedLength
  <1>2. ASSUME NEW j \in {1, 2, 3, 4}
        PROVE  text[4 * m + j] = Written(data, j % 4, 3 * m + 1)
    <2>1. 4 * m + j \in 1..EncodedLength(data)
      BY <1>1
    <2>2. ((4 * m + j) - 1) \div 4 = m /\ (4 * m + j) % 4 = j % 4
      OBVIOUS
    <2>3. text[4 * m + j] = Written(data, (4 * m + j) % 4, 3 * (((4 * m + j) - 1) \div 4) + 1)
      BY <2>1, EncodeIs
    <2> QED
      BY <2>2, <2>3
  <1>3. 1 % 4 = 1 /\ 2 % 4 = 2 /\ 3 % 4 = 3 /\ 4 % 4 = 0
    OBVIOUS
  <1>4. (3 * m + 1) + 1 = 3 * m + 2 /\ (3 * m + 1) + 2 = 3 * m + 3
    OBVIOUS
  <1>5. text[4 * m + 1] = Written(data, 1, 3 * m + 1) /\ text[4 * m + 2] = Written(data, 2, 3 * m + 1)
    BY <1>2, <1>3
  <1>6. text[4 * m + 3] = Written(data, 3, 3 * m + 1) /\ text[4 * m + 4] = Written(data, 0, 3 * m + 1)
    BY <1>2, <1>3
  <1> QED
    BY <1>1, <1>4, <1>5, <1>6 DEF Written

LEMMA PrefixGrows ==
    ASSUME NEW X, NEW s \in Seq(X), NEW n \in Nat, n + 1 <= Len(s)
    PROVE  SubSeq(s, 1, n + 1) = Append(SubSeq(s, 1, n), s[n + 1])
  <1>1. SubSeq(s, 1, n + 1) = SubSeq(s, 1, n) \o <<s[n + 1]>>
    <2>1. n + 1 \in 1..Len(s) /\ (n + 1) - 1 = n
      OBVIOUS
    <2> QED
      BY <2>1, SubSeqRecursiveSecond
  <1>2. SubSeq(s, 1, n) \in Seq(X) /\ s[n + 1] \in X
    OBVIOUS
  <1> QED
    BY <1>1, <1>2, AppendIsConcat

LEMMA BytesOf ==
    ASSUME NEW data \in Seq(Byte), NEW n \in Nat \ {0}
    PROVE  /\ Byte0(data, n) \in Nat /\ Byte0(data, n) < 256
           /\ n <= Len(data) => Byte0(data, n) = data[n]
           /\ n > Len(data) => Byte0(data, n) = 0
  <1>1. n <= Len(data) => data[n] \in Byte
    OBVIOUS
  <1>2. n <= Len(data) => data[n] \in Nat /\ data[n] < 256
    BY <1>1, ByteIs DEF UpTo
  <1> QED
    BY <1>2 DEF Byte0

(* What is encoded is decoded to what it was, also when it does not fill a *)
(* group (b64Encode, b64Decode).                                           *)
THEOREM RoundTrip ==
    ASSUME NEW data \in Seq(Byte)
    PROVE  b64Decode(b64Encode(data)) = data
  <1> DEFINE text == b64Encode(data)
             L == Len(data)
             N == EncodedLength(data)
             b(n) == Byte0(data, n)
             read(n) == SubSeq(data, 1, n)
  <1>1. N \in Nat /\ Len(text) = N /\ L \in Nat
    BY EncodeLength
  <1>2. PICK f : Decoded(f, text, N) /\ b64Decode(text) = f[N].out
    BY <1>1, DecodingUnfolds
  <1> HIDE DEF N, text, L
  <1>3. ASSUME NEW k \in Nat, k + 1 <= N
        PROVE  f[k + 1] = DecodeChar(f[k], text[k + 1])
    <2>1. k + 1 \in 1..N /\ (k + 1) - 1 = k
      BY <1>1, <1>3
    <2> QED
      BY <1>2, <2>1 DEF Decoded
  <1>4. ASSUME NEW n \in Nat, n + 1 <= L
        PROVE  read(n + 1) = Append(read(n), b(n + 1))
    <2>1. b(n + 1) = data[n + 1]
      BY <1>4, BytesOf DEF L
    <2> QED
      BY <1>4, <2>1, PrefixGrows DEF L
  <1>5. ASSUME NEW n \in Nat
        PROVE  b(n + 1) \in Nat /\ b(n + 1) < 256
    BY BytesOf
  <1>6. ASSUME NEW m \in Nat, 3 * m < L
        PROVE  /\ text[4 * m + 1] = Char(b(3 * m + 1) \div 4)
               /\ text[4 * m + 2] = Char((b(3 * m + 1) % 4) * 16 + b(3 * m + 2) \div 16)
               /\ text[4 * m + 3] = IF 3 * m + 2 <= L
                                    THEN Char((b(3 * m + 2) % 16) * 4 + b(3 * m + 3) \div 64)
                                    ELSE PadChar
               /\ text[4 * m + 4] = IF 3 * m + 3 <= L THEN Char(b(3 * m + 3) % 64) ELSE PadChar
               /\ 4 * m + 4 <= N
    BY <1>6, EncodeGroup DEF text, L, N
  <1> HIDE DEF b, read
  <1>7. ASSUME NEW m \in Nat
        PROVE  /\ 3 * m \in Nat /\ 3 * m + 1 \in Nat /\ 3 * m + 2 \in Nat
               /\ (3 * m + 1) + 1 = 3 * m + 2 /\ (3 * m + 2) + 1 = 3 * m + 3
               /\ 4 * m \in Nat /\ 4 * m + 1 \in Nat /\ 4 * m + 2 \in Nat /\ 4 * m + 3 \in Nat
               /\ (4 * m + 1) + 1 = 4 * m + 2 /\ (4 * m + 2) + 1 = 4 * m + 3 /\ (4 * m + 3) + 1 = 4 * m + 4
               /\ (4 * m + 4 <= N => 4 * m + 1 <= N /\ 4 * m + 2 <= N /\ 4 * m + 3 <= N)
               /\ (3 * m < L => 3 * m + 1 <= L)
               /\ (3 * m + 3 <= L => 3 * m + 2 <= L /\ 3 * m < L)
               /\ (3 * m + 2 <= L => 3 * m < L)
               /\ 4 * (m + 1) = 4 * m + 4 /\ 3 * (m + 1) = 3 * m + 3
    BY <1>1
  <1>8. ASSUME NEW m \in Nat
        PROVE  /\ b(3 * m + 1) \in Nat /\ b(3 * m + 1) < 256
               /\ b(3 * m + 2) \in Nat /\ b(3 * m + 2) < 256
               /\ b(3 * m + 3) \in Nat /\ b(3 * m + 3) < 256
    BY <1>5, <1>7
  <1>9. ASSUME NEW m \in Nat, 3 * m < L
        PROVE  /\ f[4 * m + 1] = DecodeChar(f[4 * m], text[4 * m + 1])
               /\ f[4 * m + 2] = DecodeChar(f[4 * m + 1], text[4 * m + 2])
               /\ f[4 * m + 3] = DecodeChar(f[4 * m + 2], text[4 * m + 3])
               /\ f[4 * m + 4] = DecodeChar(f[4 * m + 3], text[4 * m + 4])
    <2>1. 4 * m + 4 <= N
      BY <1>6, <1>9
    <2> QED
      BY <1>3, <1>7, <2>1
  <1>10. ASSUME NEW m \in Nat, 3 * m < L, NEW v \in Nat, f[4 * m] = Decoding(v, -8, read(3 * m))
         PROVE  \E w \in Nat : /\ f[4 * m + 2] = Decoding(w, -4, read(3 * m + 1))
                               /\ w % 16 = b(3 * m + 2) \div 16
    <2>1. read(3 * m + 1) = Append(read(3 * m), b(3 * m + 1))
      BY <1>4, <1>7, <1>10
    <2>2. ReadsFirst(Decoding(v, -8, read(3 * m)), read(3 * m), b(3 * m + 1), b(3 * m + 2))
      BY <1>8, AfterTwo
    <2>3. f[4 * m + 2] = DecodeChar(DecodeChar(Decoding(v, -8, read(3 * m)), Char(b(3 * m + 1) \div 4)),
                                    Char((b(3 * m + 1) % 4) * 16 + b(3 * m + 2) \div 16))
      BY <1>6, <1>9, <1>10
    <2> QED
      BY <2>1, <2>2, <2>3 DEF ReadsFirst
  <1>11. ASSUME NEW m \in Nat, 3 * m + 2 <= L, NEW v \in Nat, f[4 * m + 2] = Decoding(v, -4, read(3 * m + 1)),
                v % 16 = b(3 * m + 2) \div 16
         PROVE  \E w \in Nat : /\ f[4 * m + 3] = Decoding(w, -6, read(3 * m + 2))
                               /\ w % 4 = b(3 * m + 3) \div 64
    <2>1. read(3 * m + 2) = Append(read(3 * m + 1), b(3 * m + 2))
      BY <1>4, <1>7, <1>11
    <2>2. ReadsSecond(Decoding(v, -4, read(3 * m + 1)), read(3 * m + 1), b(3 * m + 2), b(3 * m + 3))
      BY <1>8, <1>11, AfterThird
    <2>3. f[4 * m + 3] = DecodeChar(Decoding(v, -4, read(3 * m + 1)),
                                    Char((b(3 * m + 2) % 16) * 4 + b(3 * m + 3) \div 64))
      BY <1>6, <1>7, <1>9, <1>11
    <2> QED
      BY <2>1, <2>2, <2>3 DEF ReadsSecond
  <1>12. ASSUME NEW m \in Nat, 3 * m + 3 <= L, NEW v \in Nat, f[4 * m + 3] = Decoding(v, -6, read(3 * m + 2)),
                v % 4 = b(3 * m + 3) \div 64
         PROVE  \E w \in Nat : f[4 * m + 4] = Decoding(w, -8, read(3 * m + 3))
    <2>1. read(3 * m + 3) = Append(read(3 * m + 2), b(3 * m + 3))
      BY <1>4, <1>7, <1>12
    <2>2. ReadsThird(Decoding(v, -6, read(3 * m + 2)), read(3 * m + 2), b(3 * m + 3))
      BY <1>8, <1>12, AfterFourth
    <2>3. f[4 * m + 4] = DecodeChar(Decoding(v, -6, read(3 * m + 2)), Char(b(3 * m + 3) % 64))
      BY <1>6, <1>7, <1>9, <1>12
    <2> QED
      BY <2>1, <2>2, <2>3 DEF ReadsThird
  <1> DEFINE T == {m \in Nat : 3 * m <= L => \E v \in Nat : f[4 * m] = Decoding(v, -8, read(3 * m))}
  <1>13. Nat \subseteq T
    <2>1. 0 \in T
      <3>1. f[0] = Decoding(0, -8, <<>>)
        BY <1>2 DEF Decoded
      <3>2. read(0) = <<>>
        BY SubSeqEmpty DEF read
      <3>3. 3 * 0 = 0 /\ 4 * 0 = 0
        OBVIOUS
      <3> QED
        BY <3>1, <3>2, <3>3
    <2>2. ASSUME NEW m \in Nat, m \in T
          PROVE  m + 1 \in T
      <3> SUFFICES ASSUME 3 * (m + 1) <= L
                   PROVE  \E v \in Nat : f[4 * (m + 1)] = Decoding(v, -8, read(3 * (m + 1)))
        OBVIOUS
      <3>1. 3 * m + 3 <= L /\ 3 * m + 2 <= L /\ 3 * m < L /\ 3 * m <= L
        BY <1>1, <1>7
      <3>2. PICK v \in Nat : f[4 * m] = Decoding(v, -8, read(3 * m))
        BY <2>2, <3>1
      <3>3. PICK v2 \in Nat : f[4 * m + 2] = Decoding(v2, -4, read(3 * m + 1)) /\ v2 % 16 = b(3 * m + 2) \div 16
        BY <1>10, <3>1, <3>2
      <3>4. PICK v3 \in Nat : f[4 * m + 3] = Decoding(v3, -6, read(3 * m + 2)) /\ v3 % 4 = b(3 * m + 3) \div 64
        BY <1>11, <3>1, <3>3
      <3>5. PICK v4 \in Nat : f[4 * m + 4] = Decoding(v4, -8, read(3 * m + 3))
        BY <1>12, <3>1, <3>4
      <3> QED
        BY <1>7, <3>5
    <2> HIDE DEF T
    <2> QED
      BY <2>1, <2>2, SetInduction
  <1>14. read(L) = data
    BY SubSeqFull DEF read, L
  <1>15. PICK m \in Nat : L = 3 * m \/ L = 3 * m + 1 \/ L = 3 * m + 2
    BY <1>1, Thirds
  <1>16. PICK v \in Nat : f[4 * m] = Decoding(v, -8, read(3 * m))
    <2>1. m \in T /\ 3 * m <= L
      BY <1>1, <1>13, <1>15
    <2> QED
      BY <2>1
  <1>17. CASE L = 3 * m
    <2>1. N = 4 * m
      BY <1>17 DEF N, EncodedLength, L
    <2>2. f[N] = Decoding(v, -8, data)
      BY <1>14, <1>16, <1>17, <2>1
    <2> QED
      BY <1>2, <2>2 DEF Decoding, text
  <1>18. CASE L = 3 * m + 1
    <2>1. N = 4 * m + 4 /\ 3 * m < L /\ ~(3 * m + 2 <= L) /\ ~(3 * m + 3 <= L)
      BY <1>18 DEF N, EncodedLength, L
    <2>2. PICK w \in Nat : f[4 * m + 2] = Decoding(w, -4, data)
      BY <1>10, <1>14, <1>16, <1>18, <2>1
    <2>3. f[4 * m + 3] = DecodeChar(f[4 * m + 2], PadChar) /\ f[4 * m + 4] = DecodeChar(f[4 * m + 3], PadChar)
      BY <1>6, <1>9, <2>1
    <2>4. f[N] = Broken(data)
      BY <2>1, <2>2, <2>3, DecodePadding
    <2> QED
      BY <1>2, <2>4 DEF Broken, text
  <1>19. CASE L = 3 * m + 2
    <2>1. N = 4 * m + 4 /\ 3 * m < L /\ 3 * m + 2 <= L /\ ~(3 * m + 3 <= L)
      BY <1>19 DEF N, EncodedLength, L
    <2>2. PICK v2 \in Nat : f[4 * m + 2] = Decoding(v2, -4, read(3 * m + 1)) /\ v2 % 16 = b(3 * m + 2) \div 16
      BY <1>10, <1>16, <2>1
    <2>3. PICK w \in Nat : f[4 * m + 3] = Decoding(w, -6, data)
      BY <1>11, <1>14, <1>19, <2>1, <2>2
    <2>4. f[4 * m + 4] = DecodeChar(f[4 * m + 3], PadChar)
      BY <1>6, <1>9, <2>1
    <2>5. f[N] = Broken(data)
      BY <2>1, <2>3, <2>4, DecodePadding
    <2> QED
      BY <1>2, <2>5 DEF Broken, text
  <1> QED
    BY <1>15, <1>17, <1>18, <1>19

-----------------------------------------------------------------------------
Joined(X, s, u, both) ==
    /\ both \in Seq(X) /\ Len(both) = Len(s) + Len(u)
    /\ \A k \in 1..Len(s) : both[k] = s[k]
    /\ \A k \in 1..Len(u) : both[Len(s) + k] = u[k]

LEMMA Concatenated ==
    ASSUME NEW X, NEW s \in Seq(X), NEW u \in Seq(X)
    PROVE  Joined(X, s, u, s \o u)
  BY DEF Joined

(* Padding and enciphering keep a text a text of bytes, of whole blocks.   *)
PadBy(data) == Block - (Len(data) % Block)

LEMMA PaddedIs ==
    ASSUME NEW data \in Seq(Byte), NEW n, n = PadBy(data)
    PROVE  /\ n \in Nat /\ 0 < n /\ n <= 16
           /\ Padded(data) \in Seq(Byte)
           /\ Len(Padded(data)) = Len(data) + n /\ (Len(data) + n) % 16 = 0
           /\ \A k \in 1..Len(data) : Padded(data)[k] = data[k]
           /\ \A k \in Len(data) + 1..Len(data) + n : Padded(data)[k] = n
  <1>1. n = 16 - (Len(data) % 16)
    BY DEF PadBy, Block
  <1>2. n \in Nat /\ 0 < n /\ n <= 16 /\ (Len(data) + n) % 16 = 0
    <2>1. PICK q \in Nat, r \in Nat : Len(data) = 16 * q + r /\ r < 16 /\ n = 16 - r
      <3> DEFINE q == Len(data) \div 16
                 r == Len(data) % 16
      <3>1. Len(data) = 16 * q + r /\ q \in Nat /\ r \in Nat /\ r < 16 /\ n = 16 - r
        BY <1>1
      <3> HIDE DEF q, r
      <3> QED
        BY <3>1
    <2>2. Len(data) + n = 16 * (q + 1) + 0 /\ n \in Nat /\ 0 < n /\ n <= 16
      BY <2>1
    <2> QED
      BY <2>2, Division
  <1>3. n \in Byte
    BY <1>2, ByteIs DEF UpTo
  <1> DEFINE tail == [k \in 1..n |-> n]
  <1>4. tail \in Seq(Byte) /\ Len(tail) = n
    BY <1>2, <1>3
  <1>5. Padded(data) = data \o tail
    BY Zenon DEF Padded, PadBy
  <1>6. /\ Padded(data) \in Seq(Byte) /\ Len(Padded(data)) = Len(data) + n
        /\ \A k \in 1..Len(data) : Padded(data)[k] = data[k]
        /\ \A k \in 1..n : Padded(data)[Len(data) + k] = tail[k]
    <2> HIDE DEF tail
    <2> QED
      <3>1. Joined(Byte, data, tail, Padded(data))
        BY ONLY data \in Seq(Byte), <1>4, <1>5, Concatenated
      <3> QED
        BY <1>4, <3>1 DEF Joined
  <1>7. \A k \in 1..n : tail[k] = n
    OBVIOUS
  <1>8. ASSUME NEW k \in Len(data) + 1..Len(data) + n
        PROVE  Padded(data)[k] = n
    <2>1. k - Len(data) \in 1..n /\ Len(data) + (k - Len(data)) = k
      BY <1>2
    <2> HIDE DEF tail
    <2> QED
      BY <1>6, <1>7, <2>1
  <1> QED
    BY <1>2, <1>6, <1>8

(* Enciphering is undone under the same key, and under no other. *)
Shifted(x, h) == (x + h) % 256
Unshifted(x, g) == (x + 256 - g) % 256

LEMMA Shifts ==
    ASSUME NEW x \in Byte, NEW h \in Byte, NEW g \in Byte
    PROVE  /\ Shifted(x, h) \in Byte
           /\ Unshifted(Shifted(x, h), g) = x <=> g = h
  <1>1. /\ x \in Nat /\ x < 256 /\ h \in Nat /\ h < 256 /\ g \in Nat /\ g < 256
    BY ByteIs DEF UpTo
  <1>2. (x + h) % 256 \in Nat /\ (x + h) % 256 <= 255
    BY ONLY <1>1
  <1>3. (((x + h) % 256) + 256 - g) % 256 = x <=> g = h
    BY ONLY <1>1
  <1> QED
    BY <1>2, <1>3, ByteIs DEF UpTo, Shifted, Unshifted

LEMMA CipherIs ==
    ASSUME NEW h \in Byte, NEW g \in Byte, NEW data \in Seq(Byte),
           NEW M, M = Len(data) + PadBy(data)
    PROVE  /\ M \in Nat
           /\ Cipher(h, data) \in Seq(Byte) /\ Len(Cipher(h, data)) = M
           /\ Plain(g, Cipher(h, data)) = [k \in 1..M |-> Unshifted(Shifted(Padded(data)[k], h), g)]
  <1>1. M \in Nat /\ DOMAIN Padded(data) = 1..M /\ \A k \in 1..M : Padded(data)[k] \in Byte
    BY PaddedIs
  <1>2. Cipher(h, data) = [k \in 1..M |-> Shifted(Padded(data)[k], h)]
    BY <1>1 DEF Cipher, Shifted
  <1>3. \A k \in 1..M : Shifted(Padded(data)[k], h) \in Byte
    BY <1>1, Shifts
  <1>4. Cipher(h, data) \in Seq(Byte) /\ Len(Cipher(h, data)) = M /\ DOMAIN Cipher(h, data) = 1..M
    BY <1>1, <1>2, <1>3
  <1>5. \A k \in 1..M : Cipher(h, data)[k] = Shifted(Padded(data)[k], h)
    BY <1>2
  <1>6. Plain(g, Cipher(h, data)) = [k \in 1..M |-> Unshifted(Shifted(Padded(data)[k], h), g)]
    BY <1>4, <1>5 DEF Plain, Unshifted
  <1> QED
    BY <1>1, <1>4, <1>6

LEMMA AfterVector ==
    ASSUME NEW iv \in Seq(Byte), NEW data \in Seq(Byte)
    PROVE  /\ iv \o data \in Seq(Byte) /\ Len(iv \o data) = Len(iv) + Len(data)
           /\ SubSeq(iv \o data, Len(iv) + 1, Len(iv \o data)) = data
  <1> DEFINE both == iv \o data
             part == SubSeq(both, Len(iv) + 1, Len(both))
  <1>1. both \in Seq(Byte) /\ Len(both) = Len(iv) + Len(data)
    OBVIOUS
  <1>2. \A k \in 1..Len(data) : both[Len(iv) + k] = data[k]
    OBVIOUS
  <1> HIDE DEF both
  <1>3. part \in Seq(Byte) /\ Len(part) = Len(data)
    BY <1>1
  <1>4. \A k \in 1..Len(data) : part[k] = data[k]
    <2> TAKE k \in 1..Len(data)
    <2>1. part[k] = both[Len(iv) + k]
      BY <1>1
    <2> QED
      BY <1>2, <2>1
  <1> HIDE DEF part
  <1>5. part = data
    BY <1>3, <1>4, SeqEqual
  <1> QED
    BY <1>1, <1>5 DEF both, part

(* A token is what it was when it is decrypted on the host of its name,    *)
(* and is not on any other (encryptToken, decryptToken).                   *)
THEOREM OwnHostDecrypts ==
    ASSUME NEW h \in Byte, NEW g \in Byte, NEW iv \in Seq(Byte), Len(iv) = Block,
           NEW t \in Seq(Byte), t # <<>>
    PROVE  decryptToken(g, encryptToken(h, iv, t)) = t <=> g = h
  <1> DEFINE n == PadBy(t)
             M == Len(t) + n
             P == Padded(t)
             C == Cipher(h, t)
             D == Plain(g, C)
  <1>1. /\ n \in Nat /\ 0 < n /\ n <= 16
        /\ P \in Seq(Byte) /\ Len(P) = M /\ M % 16 = 0
        /\ \A k \in 1..Len(t) : P[k] = t[k]
        /\ \A k \in Len(t) + 1..M : P[k] = n
    BY PaddedIs
  <1>2. /\ M \in Nat /\ C \in Seq(Byte) /\ Len(C) = M
        /\ D = [k \in 1..M |-> Unshifted(Shifted(P[k], h), g)]
    BY CipherIs
  <1>3. decryptToken(g, encryptToken(h, iv, t)) = Unpadded(D)
    <2> DEFINE combined == iv \o C
    <2>1. b64Decode(encryptToken(h, iv, t)) = combined
      <3>1. encryptToken(h, iv, t) = b64Encode(combined)
        BY Zenon DEF encryptToken
      <3>2. combined \in Seq(Byte)
        BY <1>2, AfterVector
      <3> QED
        BY <3>1, <3>2, RoundTrip
    <2>2. Len(combined) = 16 + M /\ SubSeq(combined, 17, Len(combined)) = C
      <3>1. Len(iv) = 16
        BY DEF Block
      <3> HIDE DEF C, M
      <3>2. Len(combined) = Len(iv) + Len(C) /\ SubSeq(combined, Len(iv) + 1, Len(combined)) = C
        BY <1>2, AfterVector
      <3> HIDE DEF combined
      <3> QED
        BY <1>2, <3>1, <3>2
    <2>3. ~(16 + M < 17) /\ (16 + M) % 16 = 0
      <3>1. M \in Nat /\ 0 < M /\ M % 16 = 0
        BY <1>1, <1>2
      <3> QED
        BY ONLY <3>1
    <2>4. Block = 16 /\ Block + 1 = 17
      BY DEF Block
    <2> HIDE DEF combined, D, C, M
    <2>5. ~(Len(combined) < Block + 1 \/ Len(combined) % Block # 0)
      BY <2>2, <2>3, <2>4
    <2>6. SubSeq(combined, Block + 1, Len(combined)) = C
      BY <2>2, <2>4
    <2> QED
      BY Zenon, <2>1, <2>5, <2>6 DEF decryptToken, D
  <1>4. Len(t) \in Nat /\ 0 < Len(t) /\ M = Len(t) + n
    OBVIOUS
  <1>5. DOMAIN D = 1..M /\ Len(D) = M /\ \A k \in 1..M : P[k] \in Byte /\ (D[k] = P[k] <=> g = h)
    <2>1. \A k \in 1..M : P[k] \in Byte /\ D[k] = Unshifted(Shifted(P[k], h), g)
      BY <1>1, <1>2
    <2>2. DOMAIN D = 1..M /\ Len(D) = M
      BY <1>2
    <2> QED
      BY <2>1, <2>2, Shifts
  <1>6. M \in 1..M /\ M \in Len(t) + 1..M /\ P[M] = n /\ M - n = Len(t) /\ (M - n) + 1 = Len(t) + 1
    BY <1>1, <1>2, <1>4
  <1> HIDE DEF n, M, P, C, D
  <1>7. ASSUME g = h
        PROVE  Unpadded(D) = t
    <2>1. D[M] = n /\ \A k \in Len(t) + 1..M : D[k] = n
      BY <1>1, <1>2, <1>4, <1>5, <1>6, <1>7
    <2>2. D = P
      BY <1>1, <1>2, <1>5, <1>7
    <2>3. SubSeq(P, 1, Len(t)) = t
      <3>1. SubSeq(P, 1, Len(t)) \in Seq(Byte) /\ Len(SubSeq(P, 1, Len(t))) = Len(t)
        BY <1>1, <1>4
      <3>2. \A k \in 1..Len(t) : SubSeq(P, 1, Len(t))[k] = t[k]
        BY <1>1, <1>4
      <3> QED
        BY <3>1, <3>2, SeqEqual
    <2>4. n \in 1..Block
      BY <1>1 DEF Block
    <2> QED
      BY <1>5, <1>6, <2>1, <2>2, <2>3, <2>4 DEF Unpadded
  <1>8. ASSUME Unpadded(D) = t
        PROVE  g = h
    <2>1. /\ D[M] \in 1..Block
          /\ t = SubSeq(D, 1, M - D[M])
      BY <1>5, <1>8 DEF Unpadded
    <2>2. D[M] \in Nat /\ D[M] <= Block /\ 0 < D[M]
      <3>1. \A size \in Nat : \A x : x \in 1..size => x \in Nat /\ x <= size /\ 0 < x
        OBVIOUS
      <3>2. Block \in Nat
        BY DEF Block
      <3> QED
        BY ONLY <2>1, <3>1, <3>2
    <2>3. Len(t) = M - D[M]
      <3>1. M - D[M] \in Int /\ M - D[M] <= M
        BY <1>2, <2>2
      <3>2. 0 < M - D[M]
        BY <1>2, <1>4, <2>1, <3>1
      <3> QED
        BY <1>2, <1>5, <2>1, <3>1, <3>2
    <2>4. D[M] = n
      BY <1>1, <1>2, <1>4, <2>2, <2>3
    <2> QED
      BY <1>5, <1>6, <2>4
  <1> QED
    BY <1>3, <1>7, <1>8

(* The vector, the tokens and the hosts of the run are of bytes. *)
LEMMA Bytes ==
    /\ Vector \in Seq(Byte) /\ Len(Vector) = Block
    /\ Hosts \subseteq Byte
    /\ \A t \in Tokens : t \in Seq(Byte) /\ t # <<>>
  <1>1. \A n \in Nat : n % 256 \in Byte
    <2> TAKE n \in Nat
    <2>1. n % 256 \in Nat /\ n % 256 <= 255
      OBVIOUS
    <2> QED
      BY <2>1, ByteIs DEF UpTo
  <1>2. Vector \in Seq(Byte) /\ Len(Vector) = Block
    <2>1. Block \in Nat
      BY DEF Block
    <2>2. \A k \in 1..Block : 37 * k \in Nat
      BY <2>1
    <2>3. \A k \in 1..Block : (37 * k) % 256 \in Byte
      BY <1>1, <2>2
    <2> QED
      BY <2>1, <2>3 DEF Vector
  <1>3. Hosts \subseteq Byte
    <2>1. UpTo(3, 255) /\ UpTo(200, 255)
      BY DEF UpTo
    <2> QED
      BY ONLY <2>1, ByteIs DEF Hosts
  <1>4. ASSUME NEW t \in Tokens
        PROVE  t \in Seq(Byte) /\ t # <<>>
    <2>1. \A lo \in Nat, hi \in Nat : \A n \in lo..hi : n \in Nat /\ lo <= n
      OBVIOUS
    <2>2. CASE t \in ShortTokens
      <3>1. PICK n \in 1..3 : t \in [1..n -> {0, 97, 255}]
        BY <2>2 DEF ShortTokens
      <3>2. n \in Nat /\ 1 <= n
        BY <2>1
      <3>3. UpTo(0, 255) /\ UpTo(97, 255) /\ UpTo(255, 255)
        BY DEF UpTo
      <3>4. {0, 97, 255} \subseteq Byte
        BY ONLY <3>3, ByteIs
      <3>5. t \in Seq(Byte) /\ Len(t) = n
        BY <3>1, <3>2, <3>4
      <3> QED
        BY <3>2, <3>5
    <2>3. CASE t \in LongTokens
      <3>1. PICK n \in 4..34 : t = [k \in 1..n |-> (19 * k + n) % 256]
        BY <2>3 DEF LongTokens
      <3>2. n \in Nat /\ 4 <= n
        BY <2>1
      <3>3. \A k \in 1..n : (19 * k + n) % 256 \in Byte
        <4>1. \A k \in 1..n : 19 * k + n \in Nat
          BY <3>2
        <4> QED
          BY <1>1, <4>1
      <3>4. t \in Seq(Byte) /\ Len(t) = n
        BY ONLY <3>1, <3>2, <3>3
      <3> QED
        BY <3>2, <3>4
    <2> QED
      BY <2>2, <2>3 DEF Tokens
  <1> QED
    BY <1>2, <1>3, <1>4

(* What the run looks at for a few tokens and hosts holds for all of them, *)
(* at every start of the agent (ConfigManager.cpp:31-195).                 *)
THEOREM TokenKept == Spec => []TokenSurvives
  <1>1. \A t \in Tokens, h \in Hosts, g \in Hosts :
           decryptToken(g, encryptToken(h, Vector, t)) = t <=> g = h
    BY Bytes, OwnHostDecrypts
  <1>2. TokenSurvives
    BY <1>1 DEF TokenSurvives
  <1> QED
    BY <1>2, PTL
=============================================================================
