------------------------------ MODULE Updater ------------------------------
(***************************************************************************)
(* Self-update on Linux: src/src/services/UpdateManager.cpp.  Each         *)
(* agent_update command runs update() on a detached thread of its own      *)
(* (CommandExecutor.cpp:166).  The files are those beside the binary; a    *)
(* path is the binary's name, "bin" or, once the running image has been    *)
(* replaced, "bin (deleted)" (what /proc/self/exe then says), with the     *)
(* suffix of the backup or of the download.  A command without a digest is *)
(* refused before update() is called, and each update has a payload of its *)
(* own, which is named after it.                                           *)
(***************************************************************************)
EXTENDS Naturals, FiniteSets

CONSTANTS
    Updates,  \* the agent_update commands
    Old,      \* the version installed at first
    None,     \* no file
    Overlap   \* an update may begin while another is under way

ASSUME UpdaterAssumption ==
    /\ Old \notin Updates
    /\ None \notin Updates \cup {Old}
    /\ Overlap \in BOOLEAN

Versions == {Old} \cup Updates
Paths == {"bin", "bin (deleted)"} \X {"", ".bak", ".new"}
Installed == <<"bin", "">>

ASSUME NoFileAssumption == None \notin Paths

VARIABLES
    file,        \* path -> a version, "partial", "damaged" or None
    executable,  \* the installed file has its executable bits
    unlinked,    \* the image of the running process has no path any more
    alive,       \* the agent runs
    update       \* update -> where it is and what it remembers

vars == <<file, executable, unlinked, alive, update>>

(* target is the file that an update writes or makes executable. *)
Stages == {"backup", "fetch", "download", "verify", "replace", "permissions", "restart", "rollback"}
Idle == [pc |-> "idle", base |-> "bin", source |-> None, target |-> Installed,
         before |-> None, result |-> "none"]

At(u, stage) == update[u].pc = stage
Under == {u \in Updates : update[u].pc \in Stages}
Goto(u, stage) == update' = [update EXCEPT ![u].pc = stage]
Answer(u, r) == update' = [update EXCEPT ![u].pc = "done", ![u].result = r]

(* Paths of update u; binary_path is computed once. *)
Backup(u) == <<update[u].base, ".bak">>
Tmp(u) == <<update[u].base, ".new">>

(* currentBinaryPath() *)
BinaryPath == IF unlinked THEN "bin (deleted)" ELSE "bin"

-----------------------------------------------------------------------------
Init ==
    /\ file = [p \in Paths |-> IF p = Installed THEN Old ELSE None]
    /\ executable = TRUE
    /\ unlinked = FALSE
    /\ alive = TRUE
    /\ update = [u \in Updates |-> Idle]

(* update() computes its paths and opens the backup, which empties it. *)
Begin(u) ==
    /\ alive
    /\ At(u, "idle")
    /\ Overlap \/ Under = {}
    /\ LET b == BinaryPath IN
       \/ /\ file[<<b, "">>] # None
          /\ file' = [file EXCEPT ![<<b, ".bak">>] = "partial"]
          /\ update' = [update EXCEPT ![u] =
                [@ EXCEPT !.pc = "backup", !.base = b, !.source = file[<<b, "">>],
                          !.before = file[Installed]]]
       \/ /\ update' = [update EXCEPT ![u] =
                [@ EXCEPT !.pc = "done", !.result = "failed", !.before = file[Installed]]]
          /\ UNCHANGED file
    /\ UNCHANGED <<executable, unlinked, alive>>

(* Mutant of CopyBackup: an error of the copy is ignored. *)
CopyUnchecked(u) ==
    /\ At(u, "backup")
    /\ \E body \in {update[u].source, "partial"} : file' = [file EXCEPT ![Backup(u)] = body]
    /\ Goto(u, "fetch")
    /\ UNCHANGED <<executable, unlinked, alive>>

(* copy_file completes, or throws: "Backup failed". *)
CopyBackup(u) ==
    /\ At(u, "backup")
    /\ \/ file' = [file EXCEPT ![Backup(u)] = update[u].source] /\ Goto(u, "fetch")
       \/ Answer(u, "failed") /\ UNCHANGED file
    /\ UNCHANGED <<executable, unlinked, alive>>

(* Descriptors follow the file they were opened on. *)
Writers(p) == {u \in Updates : At(u, "download") /\ update[u].target = p}
Removed(p) == [v \in Updates |-> IF v \in Writers(p) THEN [update[v] EXCEPT !.target = None] ELSE update[v]]

(* The download opens its file, which empties it; what another update      *)
(* still writes to the same file makes a mixture of both.                  *)
OpenDownload(u) ==
    /\ At(u, "fetch")
    /\ file' = [file EXCEPT ![Tmp(u)] = IF Writers(Tmp(u)) = {} THEN "partial" ELSE "damaged"]
    /\ update' = [update EXCEPT ![u].pc = "download", ![u].target = Tmp(u)]
    /\ UNCHANGED <<executable, unlinked, alive>>

(* The transfer ends with HTTP 200.  Errors of write() go unnoticed, and   *)
(* the server may send something else than the payload.                    *)
Downloaded(u) ==
    /\ At(u, "download")
    /\ \E body \in {u, "damaged"} :
        /\ update[u].target # None /\ file[update[u].target] # "partial" => body = "damaged"
        /\ file' = IF update[u].target = None THEN file ELSE [file EXCEPT ![update[u].target] = body]
    /\ Goto(u, "verify")
    /\ UNCHANGED <<executable, unlinked, alive>>

(* fs::remove(tmp_path) and the answer "failed". *)
Discard(u) ==
    /\ file' = [file EXCEPT ![Tmp(u)] = None]
    /\ update' = [Removed(Tmp(u)) EXCEPT ![u].pc = "done", ![u].result = "failed"]

(* Mutant of DownloadFails: the download is tried again without end. *)
DownloadRetried(u) ==
    /\ At(u, "fetch") \/ At(u, "download")
    /\ Goto(u, "fetch")
    /\ UNCHANGED <<file, executable, unlinked, alive>>

(* downloadBinary returns false. *)
DownloadFails(u) ==
    /\ At(u, "fetch") \/ At(u, "download")
    /\ Discard(u)
    /\ UNCHANGED <<executable, unlinked, alive>>

(* Mutant of Verify: a mismatch is only logged. *)
VerifyLogsOnly(u) ==
    /\ At(u, "verify")
    /\ Goto(u, "replace")
    /\ UNCHANGED <<file, executable, unlinked, alive>>

(* verifySHA256 against the digest of the command. *)
Verify(u) ==
    /\ At(u, "verify")
    /\ \/ file[Tmp(u)] = u /\ Goto(u, "replace") /\ UNCHANGED file
       \/ file[Tmp(u)] # u /\ Discard(u)
    /\ UNCHANGED <<executable, unlinked, alive>>

(* rename() onto currentBinaryPath(), computed anew.  A download is not    *)
(* executable.                                                             *)
Rename(u) ==
    /\ At(u, "replace")
    /\ file[Tmp(u)] # None
    /\ LET current == <<BinaryPath, "">> IN
       /\ file' = [file EXCEPT ![current] = file[Tmp(u)], ![Tmp(u)] = None]
       /\ executable' = (executable /\ current # Installed)
       /\ update' = [v \in Updates |->
            CASE v = u -> [update[u] EXCEPT !.pc = "permissions", !.target = current]
              [] v \in Writers(Tmp(u)) -> [update[v] EXCEPT !.target = current]
              [] OTHER -> Removed(current)[v]]
    /\ unlinked' = TRUE
    /\ UNCHANGED alive

(* fs::permissions adds the bits.  When it throws, nobody catches that and *)
(* the process dies (Restarted).                                           *)
AddExecutableBit(u) ==
    /\ At(u, "permissions")
    /\ Goto(u, "restart")
    /\ executable' = (executable \/ update[u].target = Installed)
    /\ UNCHANGED <<file, unlinked, alive>>

(* Mutant of ReplaceFails: the result of replaceBinary is not looked at. *)
ReplaceUnchecked(u) ==
    /\ At(u, "replace")
    /\ Goto(u, "restart")
    /\ UNCHANGED <<file, executable, unlinked, alive>>

(* It fails: the download is removed, and a rollback follows. *)
ReplaceFails(u) ==
    /\ At(u, "replace")
    /\ file' = [file EXCEPT ![Tmp(u)] = None]
    /\ update' = [Removed(Tmp(u)) EXCEPT ![u].pc = "rollback"]
    /\ UNCHANGED <<executable, unlinked, alive>>

(* systemctl returns 0 and the process goes on: it is not the service. *)
RestartElsewhere(u) ==
    /\ At(u, "restart")
    /\ Answer(u, "success")
    /\ UNCHANGED <<file, executable, unlinked, alive>>

(* systemctl fails, or is ended by the SIGTERM to the whole service. *)
RestartFails(u) ==
    /\ At(u, "restart")
    /\ Goto(u, "rollback")
    /\ UNCHANGED <<file, executable, unlinked, alive>>

(* rollback(): copies the backup onto currentBinaryPath().  Linux refuses  *)
(* to open a running binary for writing, and the copy may fail half-way.   *)
Rollback(u) ==
    /\ At(u, "rollback")
    /\ \/ UNCHANGED file
       \/ /\ unlinked
          /\ file[Backup(u)] # None
          /\ \E body \in {file[Backup(u)], "partial"} :
                file' = [file EXCEPT ![<<BinaryPath, "">>] = body]
    /\ Answer(u, "failed")
    /\ UNCHANGED <<executable, unlinked, alive>>

(* The process ends, by the restart, a crash or an exception, with all its *)
(* threads; systemd starts what is installed, if it can be executed.       *)
Restarted ==
    /\ alive
    /\ Under # {} \/ unlinked
    /\ alive' = (executable /\ file[Installed] \in Versions)
    /\ unlinked' = FALSE
    /\ update' = [u \in Updates |-> IF u \in Under THEN [update[u] EXCEPT !.pc = "killed"] ELSE update[u]]
    /\ UNCHANGED <<file, executable>>

Step(u) ==
    \/ CopyBackup(u) \/ OpenDownload(u) \/ Downloaded(u) \/ DownloadFails(u)
    \/ Verify(u) \/ Rename(u) \/ ReplaceFails(u) \/ AddExecutableBit(u)
    \/ RestartElsewhere(u) \/ RestartFails(u) \/ Rollback(u)

Next == Restarted \/ \E u \in Updates : Begin(u) \/ Step(u)

Spec == Init /\ [][Next]_vars

(* A detached thread is scheduled; curl has a timeout. *)
FairSpec == Spec /\ \A u \in Updates : WF_vars(Step(u))

-----------------------------------------------------------------------------
Bodies == Versions \cup {None, "partial", "damaged"}

States ==
    [pc : Stages \cup {"idle", "done", "killed"}, base : {"bin", "bin (deleted)"},
     source : Bodies, target : Paths \cup {None}, before : Bodies,
     result : {"none", "failed", "success"}]

TypeOK ==
    /\ file \in [Paths -> Bodies]
    /\ executable \in BOOLEAN /\ unlinked \in BOOLEAN /\ alive \in BOOLEAN
    /\ update \in [Updates -> States]

(* README.md:188-192: what is installed is a complete version that was     *)
(* verified against its digest, at any moment, wherever an update fails or *)
(* is killed; and it can be executed, except that the agent is down for    *)
(* good when it ends between the rename and the permissions.               *)
OnlyVerifiedInstalled ==
    /\ file[Installed] \in Versions
    /\ executable \/ ~alive \/ \E u \in Under : At(u, "permissions")

(* From the end of the backup to the end of the update, the backup is      *)
(* whole and is the binary that update() found, so that there is something *)
(* to roll back to (UpdateManager.cpp:72-79).                              *)
BackupHeld ==
    \A u \in Under : ~At(u, "backup") => file[Backup(u)] = update[u].source

(* The answer tells the truth about what is installed, and that can be     *)
(* executed.  "success": the version of the update, provided it began on a *)
(* path that the next start uses; "failed": what was there before, but     *)
(* after a rollback, when only the restart failed, also the new version    *)
(* (UpdateManager.cpp:101-119).                                            *)
AnswerMatchesFiles ==
    [][\A u \in Updates :
        update'[u].result # update[u].result =>
            /\ executable'
            /\ \/ update'[u].result = "success" /\ update[u].base = "bin" /\ file'[Installed] = u
               \/ update'[u].result = "success" /\ update[u].base # "bin"
               \/ update'[u].result = "failed" /\ file'[Installed] = update'[u].before
               \/ update'[u].result = "failed" /\ At(u, "rollback") /\ file'[Installed] = u]_vars

(* An update that has begun ends, answered or killed with its process.     *)
UpdateEnds == \A u \in Updates : u \in Under ~> u \notin Under
=============================================================================
