-------------------------- MODULE InstallerProofs --------------------------
(***************************************************************************)
(* Proofs about Installer, for any codes and servers and any number of     *)
(* commands.  A command leaves behind what the steps before its next one   *)
(* have done; whoever interrupts it makes it begin anew.                   *)
(***************************************************************************)
EXTENDS Installer, TLAPS

(* What an installation that could write it has put in its file. *)
Suits(c) == c \in Configs /\ c.server = args.server

Types ==
    /\ dir \in BOOLEAN
    /\ config \in [Paths -> Configs \cup {None, Cut}]
    /\ written \in BOOLEAN
    /\ binary \in BOOLEAN /\ unit \in {"none", "cut", "whole"} /\ enabled \in BOOLEAN /\ running \in BOOLEAN
    /\ args \in Args
    /\ exit \in {0, 1}

(* The steps of an uninstallation that were allowed by the key. *)
Allowed ==
    /\ pc \in {"stop", "disable", "remove unit", "remove key"} /\ key # None => args.code = key
    /\ pc = "remove key" => unit = "none"

(* What the steps of an installation have done. *)
Done ==
    /\ pc # "idle" => exit = 1
    /\ pc = "install" => ~written
    /\ pc \in {"copy config", "write unit", "enable", "start"} => binary
    /\ pc \in {"enable", "start"} => unit # "none"
    /\ pc = "start" /\ unit = "whole" => enabled

(* What --config names is the service's own file: it is left as written. *)
Settled == written /\ args.path = "service" => Suits(config["service"])

IInv == Types /\ Allowed /\ Done /\ Settled

LEMMA InitIInv == Init => IInv
BY DEF Init, IInv, Types, Allowed, Done, Settled, Paths

(* The steps that the configuration depends on. *)
LEMMA ConfigKeeps ==
  ASSUME IInv, WriteConfig \/ SaveKey \/ CopyConfig \/ AgentRegisters
  PROVE  IInv'
<1> USE DEF IInv, Types, Allowed, Done, Settled
<1>1. /\ "service" \in Paths /\ args.path \in Paths /\ args.server \in Servers
      /\ [server |-> args.server, token |-> FALSE] \in Configs
      /\ [server |-> Localhost, token |-> FALSE] \in Configs
      /\ [server |-> args.server, token |-> FALSE].server = args.server
  BY DEF Paths, Args, Configs
<1>2. CASE WriteConfig
  <2>1. /\ pc' = "save key" /\ UNCHANGED <<args, exit, dir, key, unit, binary, enabled, running>>
        /\ pc = "install" /\ ~written
    BY <1>2 DEF WriteConfig, Step, service
  <2>2. CASE UNCHANGED <<config, written>>
    BY <2>1, <2>2 DEF Suits
  <2>3. CASE config' = [config EXCEPT ![args.path] = Cut] /\ UNCHANGED written
    <3>1. config' \in [Paths -> Configs \cup {None, Cut}]
      BY <1>1, <2>3
    <3> QED
      BY <2>1, <2>3, <3>1
  <2>4. CASE /\ config' = [config EXCEPT ![args.path] = [server |-> args.server, token |-> FALSE]]
             /\ written' = TRUE
    <3>1. config' \in [Paths -> Configs \cup {None, Cut}]
      BY <1>1, <2>4
    <3>2. args.path = "service" => Suits(config["service"])'
      <4> SUFFICES ASSUME args.path = "service"
                   PROVE  Suits(config["service"])'
        OBVIOUS
      <4>1. config'["service"] = [server |-> args.server, token |-> FALSE]
        BY <1>1, <2>4
      <4> QED
        <5>1. args' = args /\ config'["service"].server = args.server
          BY <1>1, <2>1, <4>1
        <5> QED
          BY <1>1, <4>1, <5>1 DEF Suits
    <3> QED
      BY <2>1, <2>4, <3>1, <3>2
  <2> QED
    BY <1>2, <2>2, <2>3, <2>4 DEF WriteConfig
<1>3. CASE SaveKey
  BY <1>3 DEF SaveKey, Step, service, Suits
<1>4. CASE CopyConfig
  <2>1. /\ pc = "copy config" /\ pc' = "write unit"
        /\ UNCHANGED <<args, exit, dir, key, unit, binary, enabled, running, written>>
    BY <1>4 DEF CopyConfig, Step, service
  <2>2. CASE UNCHANGED config
    BY <2>1, <2>2 DEF Suits
  <2>3. CASE ~UNCHANGED config
    <3> DEFINE c == IF config[args.path] # None THEN config[args.path]
                    ELSE [server |-> Localhost, token |-> FALSE]
    <3>1. c \in Configs \cup {None, Cut}
      BY <1>1
    <3> HIDE DEF c
    <3>2. PICK copy \in {c, Cut} : config' = [config EXCEPT !["service"] = copy]
      BY <1>4, <2>3 DEF CopyConfig, c
    <3>3. config' \in [Paths -> Configs \cup {None, Cut}]
      BY <1>1, <3>1, <3>2
    <3>4. ~(written /\ args.path = "service")
      <4>1. config["service"] = None
        BY <1>4, <2>3 DEF CopyConfig
      <4> QED
        BY <4>1, NoFileAssumption DEF Suits
    <3> QED
      BY <2>1, <3>3, <3>4
  <2> QED
    BY <2>2, <2>3
<1>5. CASE AgentRegisters
  <2>1. /\ UNCHANGED <<dir, written, key, service, command>> /\ config["service"] \in Configs
        /\ config' = [config EXCEPT !["service"] = [config["service"] EXCEPT !.token = TRUE]]
    BY <1>1, <1>5 DEF AgentRegisters
  <2>2. config'["service"] \in Configs /\ config'["service"].server = config["service"].server
    BY <1>1, <2>1 DEF Configs
  <2>3. config' \in [Paths -> Configs \cup {None, Cut}]
    BY <1>1, <2>1, <2>2
  <2> QED
    BY <2>1, <2>2, <2>3 DEF Suits, service, command
<1> QED
  BY <1>2, <1>3, <1>4, <1>5

(* The other steps leave the configuration alone. *)
LEMMA OtherKeeps ==
  ASSUME IInv,
         \/ Call("install") \/ Call("uninstall")
         \/ CopyBinary \/ WriteUnit \/ Enable \/ Start
         \/ Uninstall \/ Interrupt \/ Prerm \/ UNCHANGED vars
  PROVE  IInv'
<1> USE DEF IInv, Types, Allowed, Done, Step, Exit, service, command
<1>0. ASSUME UNCHANGED <<config, written, args>>
      PROVE  Settled'
  BY <1>0 DEF Settled, Suits
<1>1. CASE Call("install") \/ Call("uninstall")
  BY <1>1 DEF Call, Settled
<1>2. CASE CopyBinary \/ WriteUnit \/ Enable \/ Start
  <2>1. UNCHANGED <<dir, config, written, args, key>>
    BY <1>2 DEF CopyBinary, WriteUnit, Enable, Start
  <2>2. CASE CopyBinary
    BY <1>0, <2>1, <2>2 DEF CopyBinary
  <2>3. CASE WriteUnit
    BY <1>0, <2>1, <2>3 DEF WriteUnit
  <2>4. CASE Enable
    BY <1>0, <2>1, <2>4 DEF Enable
  <2>5. CASE Start
    BY <1>0, <2>1, <2>5 DEF Start
  <2> QED
    BY <1>2, <2>2, <2>3, <2>4, <2>5
<1>3. CASE CheckKey \/ Stop \/ Disable
  <2>1. UNCHANGED <<dir, config, written, args, key>>
    BY <1>3 DEF CheckKey, Stop, Disable
  <2>2. CASE CheckKey
    BY <1>0, <2>1, <2>2 DEF CheckKey, Verified
  <2>3. CASE Stop
    BY <1>0, <2>1, <2>3 DEF Stop
  <2>4. CASE Disable
    BY <1>0, <2>1, <2>4 DEF Disable
  <2> QED
    BY <1>3, <2>2, <2>3, <2>4
<1>4. CASE RemoveUnit \/ RemoveKey
  <2>1. UNCHANGED <<dir, config, written, args>>
    BY <1>4 DEF RemoveUnit, RemoveKey
  <2>2. CASE RemoveUnit
    BY <1>0, <2>1, <2>2 DEF RemoveUnit
  <2>3. CASE RemoveKey
    BY <1>0, <2>1, <2>3 DEF RemoveKey
  <2> QED
    BY <1>4, <2>2, <2>3
<1>5. CASE Interrupt
  BY <1>0, <1>5 DEF Interrupt
<1>6. CASE Prerm
  BY <1>0, <1>6 DEF Prerm
<1>7. CASE UNCHANGED vars
  BY <1>0, <1>7 DEF vars
<1> QED
  BY <1>1, <1>2, <1>3, <1>4, <1>5, <1>6, <1>7 DEF Uninstall

LEMMA Invariant == Spec => []IInv
<1>1. IInv /\ [Next]_vars => IInv'
  BY ConfigKeeps, OtherKeeps DEF Next, Install
<1> QED
  BY <1>1, InitIInv, PTL DEF Spec

-----------------------------------------------------------------------------
(* An agent with an uninstall key is only taken down by a command that was *)
(* given its code, and loses the key last, wherever the command is         *)
(* interrupted (main.cpp:454-478).                                         *)
THEOREM Protected == Spec => ProtectedUntilRemoved
<1>1. IInv /\ [Next]_vars =>
        [key # None =>
           /\ (running /\ ~running') \/ (enabled /\ ~enabled') \/ (unit # "none" /\ unit' = "none") => args.code = key
           /\ key' = None => args.code = key /\ unit = "none"]_vars
  <2> SUFFICES ASSUME IInv, Next, key # None
               PROVE  /\ (running /\ ~running') \/ (enabled /\ ~enabled') \/ (unit # "none" /\ unit' = "none") => args.code = key
                      /\ key' = None => args.code = key /\ unit = "none"
    BY DEF vars
  <2> USE DEF IInv, Types, Allowed, Step, Exit, service, command
  <2>1. CASE Call("install") \/ Call("uninstall") \/ Interrupt \/ Prerm \/ AgentRegisters
    BY <2>1 DEF Call, Interrupt, Prerm, AgentRegisters
  <2>2. CASE SaveKey
    BY <2>2, InstallerAssumption, NoFileAssumption DEF SaveKey
  <2>3. CASE WriteConfig \/ CopyBinary \/ CopyConfig \/ WriteUnit \/ Enable \/ Start
    BY <2>3 DEF WriteConfig, CopyBinary, CopyConfig, WriteUnit, Enable, Start
  <2>4. CASE Uninstall
    BY <2>4 DEF Uninstall, CheckKey, Stop, Disable, RemoveUnit, RemoveKey
  <2> QED
    BY <2>1, <2>2, <2>3, <2>4 DEF Next, Install
<1> QED
  BY <1>1, Invariant, PTL DEF Spec, ProtectedUntilRemoved

(* An installation that says it has succeeded leaves a service that runs,  *)
(* with the configuration it has written if it could write one, over       *)
(* whatever earlier commands have left (main.cpp:410-424,                  *)
(* LinuxService.cpp:22-104).                                               *)
THEOREM SuccessIsComplete == Spec => InstalledRuns
<1>1. IInv /\ [Next]_vars =>
        [pc = "start" /\ exit' = 0 =>
           /\ binary /\ running' /\ unit # "none" /\ (unit = "whole" => enabled)
           /\ written /\ args.path = "service" =>
                 config["service"] \in Configs /\ config["service"].server = args.server]_vars
  <2> SUFFICES ASSUME IInv, Next, pc = "start", exit' = 0
               PROVE  /\ binary /\ running' /\ unit # "none" /\ (unit = "whole" => enabled)
                      /\ written /\ args.path = "service" =>
                            config["service"] \in Configs /\ config["service"].server = args.server
    BY DEF vars
  <2>1. running'
    BY DEF Next, Call, Install, WriteConfig, SaveKey, CopyBinary, CopyConfig, WriteUnit, Enable, Start,
           Uninstall, CheckKey, Stop, Disable, RemoveUnit, RemoveKey, Interrupt, Prerm, AgentRegisters,
           Step, Exit, IInv, Done, command
  <2> QED
    BY <2>1 DEF IInv, Done, Settled, Suits
<1> QED
  BY <1>1, Invariant, PTL DEF Spec, InstalledRuns
=============================================================================
