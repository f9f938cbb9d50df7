----------------------------- MODULE Installer -----------------------------
(***************************************************************************)
(* The command line of the agent on Linux: --install, --uninstall and      *)
(* --verify-uninstall-code of main.cpp, LinuxService.cpp, and the prerm    *)
(* script that calls the last one.  A command runs as root and may be      *)
(* interrupted between any two of its steps.  systemd, and the agent that  *)
(* gets its credentials once it runs (Onboarding), are external.  Nobody   *)
(* looks whether a configuration, the unit or the key was written to its   *)
(* end.                                                                    *)
(***************************************************************************)
EXTENDS Naturals

CONSTANTS
    Codes,        \* uninstall codes; DEFAULT_UNINSTALL_CODE is one of them
    Servers,      \* arguments of --server
    Localhost,    \* the broker of LinuxService's own default configuration
    None,         \* no file, no code given
    Cut,          \* a configuration that is empty or not complete
    MaxCommands   \* bound

ASSUME InstallerAssumption == None \notin Codes /\ Localhost \notin Servers /\ MaxCommands \in Nat

(* What a file of the service's configuration says. *)
Configs == [server : Servers \cup {Localhost}, token : BOOLEAN]

ASSUME NoFileAssumption == None \notin Configs \cup {"empty", Cut} /\ Cut \notin Configs

VARIABLES
    dir,       \* /etc/orbis-agent exists
    config,    \* the service's path and another one -> None, Cut or [server, token]
    written,   \* history: the command has written the file of --config to its end
    key,       \* .uninstall_key: None, "empty", or the code behind its hash
    unit,      \* "none", "cut" or "whole"
    binary, enabled, running,
    pc,        \* the step the command is about to make
    args,      \* of the command
    exit,      \* its exit code
    commands

service == <<binary, unit, enabled, running>>
command == <<pc, args, exit, commands>>
vars == <<dir, config, written, key, service, command>>

Paths == {"service", "other"}  \* --config; the first is its default
Args == [server : Servers, code : Codes \cup {None}, path : Paths, from : {"build", "installed"}]

Step(from, to) == pc = from /\ pc' = to /\ UNCHANGED <<args, exit, commands>>
Exit(from, code) == pc = from /\ pc' = "idle" /\ exit' = code /\ UNCHANGED <<args, commands>>

-----------------------------------------------------------------------------
(* Nothing is installed; a package (postinst) has made the directory.      *)
Init ==
    /\ dir \in BOOLEAN
    /\ config = [p \in Paths |-> None]
    /\ written = FALSE
    /\ key = None
    /\ binary = FALSE /\ unit = "none" /\ enabled = FALSE /\ running = FALSE
    /\ pc = "idle"
    /\ args \in Args
    /\ exit = 0
    /\ commands = 0

(* Without --server an installation is refused, which changes nothing. *)
Call(what) ==
    /\ pc = "idle"
    /\ commands < MaxCommands
    /\ commands' = commands + 1
    /\ pc' = what
    /\ args' \in Args
    /\ args'.from = "installed" => binary
    /\ exit' = 1
    /\ written' = FALSE
    /\ UNCHANGED <<dir, config, key, service>>

(* main: the minimal configuration.  When the file cannot be opened, that  *)
(* is not reported.                                                        *)
WriteConfig ==
    /\ Step("install", "save key")
    /\ \/ UNCHANGED <<config, written>>
       \/ /\ args.path = "service" => dir
          /\ \/ config' = [config EXCEPT ![args.path] = Cut] /\ UNCHANGED written
             \/ config' = [config EXCEPT ![args.path] = [server |-> args.server, token |-> FALSE]] /\ written' = TRUE
    /\ UNCHANGED <<dir, key, service>>

(* saveUninstallKey makes the directory.  When the file cannot be opened,  *)
(* that is only a warning; an error of the write is not noticed.           *)
SaveKey ==
    /\ Step("save key", "copy binary")
    /\ dir' = TRUE
    /\ \/ key' \in {key, "empty"}
       \/ IF args.code = None THEN key' \in Codes ELSE key' = args.code
    /\ UNCHANGED <<config, written, service>>

(* copy_file refuses to copy a file onto itself, and to open a running     *)
(* binary for writing.                                                     *)
CopyBinary ==
    /\ \/ Exit("copy binary", 1) /\ UNCHANGED binary
       \/ args.from = "build" /\ ~running /\ Step("copy binary", "copy config") /\ binary' = TRUE
    /\ UNCHANGED <<dir, config, written, key, unit, enabled, running>>

(* Mutant of CopyConfig: the default replaces what is there. *)
DefaultAlways ==
    /\ Step("copy config", "write unit")
    /\ config' = [config EXCEPT !["service"] = [server |-> Localhost, token |-> FALSE]]
    /\ UNCHANGED <<dir, written, key, service>>

(* Only if there is none: the file of --config, or a default.  Its errors  *)
(* are ignored.                                                            *)
CopyConfig ==
    /\ Step("copy config", "write unit")
    /\ \/ UNCHANGED config
       \/ /\ config["service"] = None
          /\ LET source == IF config[args.path] # None THEN config[args.path]
                            ELSE [server |-> Localhost, token |-> FALSE]
             IN \E copy \in {source, Cut} : config' = [config EXCEPT !["service"] = copy]
    /\ UNCHANGED <<dir, written, key, service>>

(* A unit is written, if only its beginning. *)
WriteUnit ==
    /\ \/ Exit("write unit", 1) /\ UNCHANGED unit
       \/ Step("write unit", "enable") /\ unit' \in {"cut", "whole"}
    /\ UNCHANGED <<dir, config, written, key, binary, enabled, running>>

(* systemctl enable succeeds over a unit whose [Install] section is cut    *)
(* off, and does nothing.                                                  *)
Enable ==
    /\ \/ Exit("enable", 1) /\ UNCHANGED enabled
       \/ Step("enable", "start") /\ enabled' = TRUE
       \/ unit = "cut" /\ Step("enable", "start") /\ UNCHANGED enabled
    /\ UNCHANGED <<dir, config, written, key, binary, unit, running>>

Start ==
    /\ \/ Exit("start", 1) /\ UNCHANGED running
       \/ Exit("start", 0) /\ running' = TRUE
    /\ UNCHANGED <<dir, config, written, key, binary, unit, enabled>>

-----------------------------------------------------------------------------
(* verifyUninstallCode *)
Verified(code) == key \in Codes /\ code = key

(* The check of --uninstall: without a key file there is no protection. *)
CheckKey ==
    /\ IF key = None \/ Verified(args.code) THEN Step("uninstall", "stop") ELSE Exit("uninstall", 1)
    /\ UNCHANGED <<dir, config, written, key, service>>

(* uninstall(): the results of systemctl are warnings, *)
Stop ==
    /\ Step("stop", "disable")
    /\ running' \in {FALSE, running}
    /\ UNCHANGED <<dir, config, written, key, binary, unit, enabled>>

Disable ==
    /\ Step("disable", "remove unit")
    /\ enabled' \in {FALSE, enabled}
    /\ UNCHANGED <<dir, config, written, key, binary, unit, running>>

(* Mutant of RemoveUnit: the key goes first. *)
RemoveKeyFirst ==
    /\ Step("remove unit", "remove key")
    /\ key' = None
    /\ UNCHANGED <<dir, config, written, service>>

(* but fs::remove throws what it cannot do, and the command ends there. *)
RemoveUnit ==
    /\ \/ Exit("remove unit", 1) /\ UNCHANGED unit
       \/ Step("remove unit", "remove key") /\ unit' = "none"
    /\ UNCHANGED <<dir, config, written, key, binary, enabled, running>>

RemoveKey ==
    /\ Exit("remove key", 0)
    /\ key' \in {None, key}
    /\ UNCHANGED <<dir, config, written, service>>

(* prerm gives the code to --verify-uninstall-code, which takes it from    *)
(* --uninstall-code: with a key file the answer is always 1.               *)
Prerm ==
    /\ pc = "idle"
    /\ key = None
    /\ running' \in {FALSE, running}
    /\ enabled' \in {FALSE, enabled}
    /\ UNCHANGED <<dir, config, written, key, binary, unit, command>>

(* The command is interrupted. *)
Interrupt ==
    /\ pc # "idle"
    /\ Exit(pc, 1)
    /\ UNCHANGED <<dir, config, written, key, service>>

(* The agent registers and saves its credentials. *)
AgentRegisters ==
    /\ running
    /\ config["service"] \in Configs
    /\ config' = [config EXCEPT !["service"].token = TRUE]
    /\ UNCHANGED <<dir, written, key, service, command>>

Install == WriteConfig \/ SaveKey \/ CopyBinary \/ CopyConfig \/ WriteUnit \/ Enable \/ Start
Uninstall == CheckKey \/ Stop \/ Disable \/ RemoveUnit \/ RemoveKey

Next ==
    \/ Call("install") \/ Call("uninstall")
    \/ Install \/ Uninstall
    \/ Interrupt \/ Prerm \/ AgentRegisters

Spec == Init /\ [][Next]_vars

-----------------------------------------------------------------------------
(* An agent that has an uninstall key is stopped, disabled or loses its    *)
(* unit by nothing but a command that was given the code, and it keeps the *)
(* key until all of that is done, also when the command is interrupted or  *)
(* a step of it fails (main.cpp:454-478).                                  *)
ProtectedUntilRemoved ==
    [][key # None =>
        /\ (running /\ ~running') \/ (enabled /\ ~enabled') \/ (unit # "none" /\ unit' = "none") => args.code = key
        /\ key' = None => args.code = key /\ unit = "none"]_vars

(* An installation that exits with 0 leaves a service that runs now and,   *)
(* if its unit could be written to the end, after the next boot; the       *)
(* configuration that it has written for its server is the service's: no   *)
(* later step and no earlier installation replaces it.  Whether it could   *)
(* be written is not part of the answer (main.cpp:410-424,                 *)
(* LinuxService.cpp:22-104).                                               *)
InstalledRuns ==
    [][pc = "start" /\ exit' = 0 =>
        /\ binary /\ running' /\ unit # "none" /\ (unit = "whole" => enabled)
        /\ written /\ args.path = "service" =>
              config["service"] \in Configs /\ config["service"].server = args.server]_vars
=============================================================================
