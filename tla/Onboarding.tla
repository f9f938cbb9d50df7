----------------------------- MODULE Onboarding -----------------------------
(***************************************************************************)
(* The start of the agent: main() from load() to the connection with the   *)
(* device's credentials, doOnboarding() (src/src/main.cpp) and             *)
(* ConfigManager (src/src/config/ConfigManager.cpp).  A token is named     *)
(* after the device it was issued for.  The broker and the backend are     *)
(* external: a register message may be answered, rejected or lost, now or  *)
(* during a later attempt.  The process may die anywhere and is started    *)
(* again by the service manager.                                           *)
(***************************************************************************)
EXTENDS Naturals, FiniteSets

CONSTANTS
    Ids,          \* device ids
    None,         \* an empty field
    Lost,         \* a configuration file that is empty or cut
    MaxRestarts   \* bound: starts after the first

ASSUME OnboardingAssumption == None \notin Ids /\ MaxRestarts \in Nat

VARIABLES
    main,        \* where the main thread is
    config,      \* the file: its device_id and token, or Lost
    fields,      \* the file has lines for these two that save() can patch
    memory,      \* device_id_ and token_encrypted_
    known,       \* ids in use so far: generateUUID returns another one
    asked,       \* register messages on their way to the backend
    registered,  \* devices that the backend has registered
    ack,         \* register_ack on its way to the agent
    received,    \* ack_received and received_token of doOnboarding
    signal,      \* g_shutdown
    restarts

startVars == <<main, config, fields, memory, known, asked, registered, ack, received, signal, restarts>>

Credentials == [id : Ids \cup {None}, token : Ids \cup {None}]
NoCredentials == [id |-> None, token |-> None]

(* Mutant of IsRegistered: the token is not looked at. *)
HasId(m) == m.id # None

(* ConfigManager::isRegistered() *)
IsRegistered(m) == m.id # None /\ m.token # None

(* The temporary client is connected and its callback installed. *)
Listening == main \in {"publish", "wait", "save", "write", "leave"}

-----------------------------------------------------------------------------
StartInit ==
    /\ main = "load"
    /\ config \in {NoCredentials} \cup {[id |-> i, token |-> None] : i \in Ids}
    /\ fields \in BOOLEAN
    /\ config # NoCredentials => fields
    /\ memory = NoCredentials
    /\ known = {config.id} \ {None}
    /\ asked = {}
    /\ registered = {}
    /\ ack = "none"
    /\ received = "none"
    /\ signal = FALSE
    /\ restarts = 0

(* Mutant of Load: the stored token is not read. *)
LoadWithoutToken ==
    /\ main = "load"
    /\ LET found == IF config = Lost THEN NoCredentials ELSE config IN
       \E i \in IF found.id = None THEN Ids \ known ELSE {found.id} :
          /\ memory' = [id |-> i, token |-> None]
          /\ known' = known \cup {i}
          /\ main' = IF IsRegistered(memory') THEN "connect" ELSE "loop"
    /\ UNCHANGED <<config, fields, asked, registered, ack, received, signal, restarts>>

(* load(): a missing id is generated, in memory only.  What is left of a   *)
(* lost file is refused by the parser, or gives defaults.                  *)
Load ==
    /\ main = "load"
    /\ LET found == IF config = Lost THEN NoCredentials ELSE config IN
       \E i \in IF found.id = None THEN Ids \ known ELSE {found.id} :
          /\ memory' = [found EXCEPT !.id = i]
          /\ known' = known \cup {i}
          /\ main' = IF IsRegistered(memory') THEN "connect" ELSE "loop"
    /\ UNCHANGED <<config, fields, asked, registered, ack, received, signal, restarts>>

LoadFails ==
    /\ main = "load"
    /\ config = Lost
    /\ main' = "exit"
    /\ UNCHANGED <<config, fields, memory, known, asked, registered, ack, received, signal, restarts>>

(* Mutant of LoopTest: g_shutdown is not looked at. *)
LoopIgnoresSignal ==
    /\ main = "loop"
    /\ main' = IF IsRegistered(memory) THEN "connect" ELSE "dial"
    /\ UNCHANGED <<config, fields, memory, known, asked, registered, ack, received, signal, restarts>>

(* while (!g_shutdown && !isRegistered()), and what follows the loop *)
LoopTest ==
    /\ main = "loop"
    /\ main' = CASE signal -> "exit"
                 [] IsRegistered(memory) /\ ~signal -> "connect"
                 [] OTHER -> "dial"
    /\ UNCHANGED <<config, fields, memory, known, asked, registered, ack, received, signal, restarts>>

(* doOnboarding: connect as "register" and subscribe to register_ack.  The *)
(* broker's address comes from the file.                                   *)
DialRegister ==
    /\ main = "dial"
    /\ config # Lost
    /\ main' = "publish"
    /\ received' = "none"
    /\ UNCHANGED <<config, fields, memory, known, asked, registered, ack, signal, restarts>>

(* Mutant of DialFails: the agent gives up. *)
DialGivesUp ==
    /\ main = "dial"
    /\ main' = "exit"
    /\ UNCHANGED <<config, fields, memory, known, asked, registered, ack, received, signal, restarts>>

DialFails ==
    /\ main = "dial"
    /\ main' = "loop"
    /\ UNCHANGED <<config, fields, memory, known, asked, registered, ack, received, signal, restarts>>

PublishRegister ==
    /\ main = "publish"
    /\ \/ main' = "wait" /\ asked' = asked \cup {memory.id}
       \/ main' = "leave" /\ UNCHANGED asked
    /\ UNCHANGED <<config, fields, memory, known, registered, ack, received, signal, restarts>>

(* The backend, and the message callback.  A clean session has no message  *)
(* for a client that is not there.                                         *)
BackendAnswers ==
    /\ \E i \in asked :
        /\ asked' = asked \ {i}
        /\ \E verdict \in {"ok", "rejected"} :
            /\ registered' = IF verdict = "ok" THEN registered \cup {i} ELSE registered
            /\ ack' = IF Listening /\ memory.id = i THEN verdict ELSE ack
    /\ UNCHANGED <<main, config, fields, memory, known, received, signal, restarts>>

(* An ack that comes once doOnboarding has left touches a dead frame: it   *)
(* changes nothing here, or the process dies (Die).                        *)
AckArrives ==
    /\ ack # "none"
    /\ ack' = "none"
    /\ received' = IF main = "leave" \/ received = "ok" THEN received ELSE ack
    /\ UNCHANGED <<main, config, fields, memory, known, asked, registered, signal, restarts>>

(* wait_for returns: setDeviceId and setToken, or false. *)
WaitEnds ==
    /\ main = "wait"
    /\ main' = IF received = "ok" THEN "save" ELSE "leave"
    /\ memory' = IF received = "ok" THEN [memory EXCEPT !.token = memory.id] ELSE memory
    /\ UNCHANGED <<config, fields, known, asked, registered, ack, received, signal, restarts>>

(* save() rewrites the file in place: opening it empties it, *)
OpenConfig ==
    /\ main = "save"
    /\ \/ main' = "write" /\ config' = Lost
       \/ main' = "leave" /\ UNCHANGED config
    /\ UNCHANGED <<fields, memory, known, asked, registered, ack, received, signal, restarts>>

(* the two lines are patched, if the file has them, and the result of the  *)
(* write is not looked at.                                                 *)
WriteConfig ==
    /\ main = "write"
    /\ config' \in {IF fields THEN memory ELSE NoCredentials, Lost}
    /\ ack' = "none"
    /\ main' = IF signal THEN "exit" ELSE "connect"
    /\ UNCHANGED <<fields, memory, known, asked, registered, received, signal, restarts>>

(* doOnboarding has returned false: the temporary client is destroyed.     *)
DestroyClient ==
    /\ main = "leave"
    /\ main' = "loop"
    /\ ack' = "none"
    /\ UNCHANGED <<config, fields, memory, known, asked, registered, received, signal, restarts>>

(* The connection with the device's credentials: on failure main returns.  *)
Connect ==
    /\ main = "connect"
    /\ main' \in {"start", "exit"}
    /\ UNCHANGED <<config, fields, memory, known, asked, registered, ack, received, signal, restarts>>

Signal ==
    /\ main \notin {"load", "exit"}
    /\ ~signal
    /\ signal' = TRUE
    /\ UNCHANGED <<main, config, fields, memory, known, asked, registered, ack, received, restarts>>

(* The process dies, or has ended, and is started again (Restart=always).  *)
Die ==
    /\ restarts < MaxRestarts
    /\ main # "load"
    /\ restarts' = restarts + 1
    /\ main' = "load"
    /\ memory' = NoCredentials
    /\ ack' = "none"
    /\ received' = "none"
    /\ signal' = FALSE
    /\ UNCHANGED <<config, fields, known, asked, registered>>

Start ==
    \/ Load \/ LoadFails \/ LoopTest \/ DialRegister \/ DialFails \/ PublishRegister
    \/ WaitEnds \/ OpenConfig \/ WriteConfig \/ DestroyClient \/ Connect

Around == BackendAnswers \/ AckArrives \/ Signal

(* The main thread is scheduled.  A broker that is tried again and again   *)
(* lets the agent in and takes its message, and a backend that is asked    *)
(* again and again accepts it before the timeout.                          *)
StartFairness ==
    /\ WF_startVars(Start)
    /\ SF_startVars(DialRegister)
    /\ SF_startVars(PublishRegister /\ main' = "wait")
    /\ SF_startVars(main = "wait" /\ BackendAnswers /\ ack' = "ok")
    /\ SF_startVars(main = "wait" /\ ack = "ok" /\ AckArrives)

-----------------------------------------------------------------------------
StartTypeOK ==
    /\ config \in Credentials \cup {Lost}
    /\ fields \in BOOLEAN
    /\ memory \in Credentials
    /\ known \subseteq Ids /\ asked \subseteq known /\ registered \subseteq known
    /\ ack \in {"none", "ok", "rejected"}
    /\ received \in {"none", "ok", "rejected"}
    /\ signal \in BOOLEAN
    /\ restarts \in 0..MaxRestarts

(* Credentials that are on disk stay there, whatever crashes follow: the   *)
(* file is only rewritten by an agent that has found no token in it        *)
(* (main.cpp:548, ConfigManager.cpp:268-299).                              *)
HasToken(c) == c # Lost /\ c # NoCredentials /\ c.token # None
CredentialsKept == [][HasToken(config) => config' = config]_startVars

(* An agent connects as a device that the backend has registered, with the *)
(* token issued for it, also when save() has failed (main.cpp:552, 572).   *)
RunsRegistered ==
    main \notin {"load", "loop", "dial", "publish", "wait", "leave", "exit"}
        => memory.token = memory.id /\ memory.id \in registered

(* README.md:744: the agent tries again until it is registered, as long as *)
(* it has a configuration.  Timeouts, rejections, late answers and failing *)
(* writes do not end that.                                                 *)
RegistrationEnds == main = "dial" /\ config # Lost ~> main \in {"connect", "load"} \/ signal
=============================================================================
