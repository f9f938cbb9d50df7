--------------------------- MODULE UpdaterProofs ---------------------------
(***************************************************************************)
(* Proofs about Updater, for any number of updates that do not overlap.    *)
(* (With overlapping updates the properties do not hold.)  Then every file *)
(* beside the binary belongs to the one update that is under way, and what *)
(* is known of the files follows the place where that update is.           *)
(***************************************************************************)
EXTENDS Updater, TLAPS

(* Up to the rename, the path of the running binary is the one that the    *)
(* update began with.                                                      *)
Early == {"backup", "fetch", "download", "verify", "replace"}

(* What the files are while update u is under way. *)
Good(u) ==
    /\ At(u, "download") => update[u].target = Tmp(u)
    /\ At(u, "replace") => file[Tmp(u)] = u
    /\ update[u].pc \in Early => update[u].base = BinaryPath /\ file[Installed] = update[u].before
    /\ At(u, "permissions") \/ At(u, "restart") =>
            file[Installed] = IF update[u].base = "bin" THEN u ELSE update[u].before
    /\ At(u, "rollback") => file[Installed] \in {update[u].before, u}
    /\ ~At(u, "backup") => file[Backup(u)] = update[u].source
    /\ IF At(u, "permissions") THEN executable \/ update[u].target = Installed ELSE executable
    /\ alive

Verified == file[Installed] \in Versions

(* The agent runs, with no update under way, only over a file that can be  *)
(* executed.                                                               *)
Startable == alive /\ Under = {} => executable

OneAtATime == \A u, v \in Under : u = v

IInv == TypeOK /\ Verified /\ Startable /\ OneAtATime /\ \A u \in Under : Good(u)

(* The invariant holds at first: nothing is under way. *)
LEMMA InitIInv == Init => IInv
<1> SUFFICES ASSUME Init PROVE IInv
  OBVIOUS
<1>1. /\ Installed \in Paths
      /\ Old \in Bodies /\ None \in Bodies /\ Old \in Versions
      /\ Idle \in States
  BY DEF Installed, Paths, Bodies, Versions, Idle, States
<1>2. TypeOK
  BY <1>1 DEF Init, TypeOK
<1>3. Verified
  BY <1>1 DEF Init, Verified
<1>4. Under = {}
  BY DEF Init, Under, Idle, Stages
<1> QED
  BY <1>2, <1>3, <1>4 DEF Init, IInv, OneAtATime, Startable

(* An update begins when none is under way. *)
LEMMA BeginIInv ==
  ASSUME Overlap = FALSE, IInv, NEW u \in Updates, Begin(u)
  PROVE  IInv'
<1> USE DEF IInv
<1>1. Under = {} /\ alive /\ executable
  BY DEF Begin, Startable
<1>2. BinaryPath \in {"bin", "bin (deleted)"} /\ BinaryPath' = BinaryPath
  BY DEF BinaryPath, Begin
<1>3. /\ Installed \in Paths
      /\ <<BinaryPath, "">> \in Paths /\ <<BinaryPath, ".bak">> \in Paths
      /\ <<BinaryPath, ".bak">> # Installed
  BY <1>2 DEF Installed, Paths
<1>4. ASSUME file' = [file EXCEPT ![<<BinaryPath, ".bak">>] = "partial"],
             update' = [update EXCEPT ![u] =
                [@ EXCEPT !.pc = "backup", !.base = BinaryPath, !.source = file[<<BinaryPath, "">>],
                          !.before = file[Installed]]],
             UNCHANGED <<executable, unlinked, alive>>
      PROVE  IInv'
  <2>1. update'[u] \in States
    BY <1>2, <1>3, <1>4 DEF TypeOK, States, Stages
  <2>2. TypeOK'
    BY <1>3, <1>4, <2>1 DEF TypeOK, Bodies
  <2>3. file'[Installed] = file[Installed]
    BY <1>3, <1>4 DEF TypeOK
  <2>4. Under' \subseteq {u}
    BY <1>1, <1>4 DEF Under, TypeOK
  <2>5. Good(u)'
    BY <1>1, <1>2, <1>4, <2>3 DEF Good, At, Early, TypeOK, States
  <2> QED
    BY <1>1, <1>4, <2>2, <2>3, <2>4, <2>5 DEF Verified, OneAtATime, Startable
<1>5. ASSUME update' = [update EXCEPT ![u] =
                [@ EXCEPT !.pc = "done", !.result = "failed", !.before = file[Installed]]],
             UNCHANGED <<file, executable, unlinked, alive>>
      PROVE  IInv'
  <2>1. update'[u] \in States
    BY <1>3, <1>5 DEF TypeOK, States, Stages
  <2>2. TypeOK'
    BY <1>5, <2>1 DEF TypeOK
  <2>3. Under' = {}
    BY <1>1, <1>5 DEF Under, TypeOK, States, Stages
  <2> QED
    BY <1>1, <1>5, <2>2, <2>3 DEF Verified, OneAtATime, Startable
<1> QED
  BY <1>4, <1>5 DEF Begin

(* What a step of the one update that is under way may rely on. *)
LEMMA Alone ==
  ASSUME IInv, NEW u \in Updates, update[u].pc \in Stages
  PROVE  /\ Under = {u} /\ Good(u)
         /\ Backup(u) \in Paths /\ Tmp(u) \in Paths /\ Installed \in Paths
         /\ Backup(u) # Tmp(u) /\ Backup(u) # Installed /\ Tmp(u) # Installed
         /\ u \in Bodies /\ u \in Versions
  BY DEF IInv, OneAtATime, Under, TypeOK, States, Backup, Tmp, Paths, Installed, Bodies, Versions

(* A step that leaves all other updates where they are keeps the invariant *)
(* when it keeps what concerns its own.                                    *)
LEMMA StepKeeps ==
  ASSUME IInv, NEW u \in Updates, update[u].pc \in Stages,
         TypeOK', Verified', executable' \/ update'[u].pc = "permissions",
         \A v \in Updates \ {u} : update'[v].pc = update[v].pc,
         update'[u].pc \in Stages => Good(u)'
  PROVE  IInv'
<1>1. Under = {u}
  BY Alone
<1>2. Under' \subseteq {u}
  BY <1>1 DEF Under
<1> QED
  BY <1>2 DEF IInv, OneAtATime, Under, Startable, Stages

(* The end of update u. *)
LEMMA AnswerKeeps ==
  ASSUME IInv, NEW u \in Updates, NEW r \in {"failed", "success"}, Answer(u, r)
  PROVE  /\ update' \in [Updates -> States]
         /\ \A v \in Updates \ {u} : update'[v].pc = update[v].pc
         /\ update'[u].pc = "done"
<1>1. update'[u] \in States
  BY DEF IInv, Answer, TypeOK, States, Stages
<1> QED
  BY <1>1 DEF IInv, Answer, TypeOK, States

(* Update u goes on to another stage. *)
LEMMA GotoKeeps ==
  ASSUME IInv, NEW u \in Updates, NEW stage \in Stages, Goto(u, stage)
  PROVE  /\ update' \in [Updates -> States]
         /\ \A v \in Updates \ {u} : update'[v] = update[v]
         /\ update'[u] = [update[u] EXCEPT !.pc = stage]
<1>1. update'[u] = [update[u] EXCEPT !.pc = stage]
  BY DEF IInv, Goto, TypeOK
<1>2. update'[u] \in States
  BY <1>1 DEF IInv, TypeOK, States, Stages
<1> QED
  BY <1>1, <1>2 DEF IInv, Goto, TypeOK

(* The download file is removed. *)
LEMMA DiscardKeeps ==
  ASSUME IInv, NEW u \in Updates, update[u].pc \in Stages, Discard(u), ~At(u, "permissions"), UNCHANGED <<executable, unlinked, alive>>
  PROVE  /\ IInv'
         /\ update'[u].pc = "done"
<1> USE DEF IInv
<1>1. \A v \in Updates : Removed(Tmp(u))[v] \in States /\ Removed(Tmp(u))[v].pc = update[v].pc
  BY DEF Removed, TypeOK, States
<1>2. /\ update' \in [Updates -> States]
      /\ \A v \in Updates \ {u} : update'[v].pc = update[v].pc
      /\ update'[u].pc = "done"
  <2>1. Removed(Tmp(u)) \in [Updates -> States]
    BY <1>1 DEF Removed
  <2>2. update'[u] = [Removed(Tmp(u))[u] EXCEPT !.pc = "done", !.result = "failed"]
    BY <2>1 DEF Discard
  <2>3. update'[u] \in States /\ update'[u].pc = "done"
    BY <1>1, <2>2 DEF States
  <2> QED
    BY <1>1, <2>1, <2>3 DEF Discard
<1>3. TypeOK'
  BY <1>2, Alone DEF Discard, TypeOK, Bodies
<1>4. Verified' /\ executable'
  BY Alone DEF Discard, TypeOK, Verified, Good
<1> QED
  BY <1>2, <1>3, <1>4, StepKeeps DEF Stages

(* The steps up to the verification keep the invariant. *)
LEMMA FetchIInv ==
  ASSUME IInv, NEW u \in Updates,
         CopyBackup(u) \/ OpenDownload(u) \/ Downloaded(u) \/ DownloadFails(u) \/ Verify(u)
  PROVE  IInv'
<1> USE DEF IInv
<1>1. update[u].pc \in Stages
  BY DEF CopyBackup, OpenDownload, Downloaded, DownloadFails, Verify, At, Stages
<1>2. Under = {u} /\ Good(u) /\ Backup(u) # Tmp(u) /\ Backup(u) # Installed /\ Tmp(u) # Installed
  BY <1>1, Alone
<1>3. Backup(u) \in Paths /\ Tmp(u) \in Paths /\ Installed \in Paths /\ u \in Bodies
  BY <1>1, Alone
<1>4. ~At(u, "permissions") /\ UNCHANGED <<executable, unlinked, alive>>
  BY DEF CopyBackup, OpenDownload, Downloaded, DownloadFails, Verify, At
<1>5. executable /\ alive /\ executable' /\ alive'
  BY <1>2, <1>4 DEF Good
<1>6. CASE file' = [file EXCEPT ![Backup(u)] = update[u].source] /\ Goto(u, "fetch") /\ CopyBackup(u)
  <2>1. update' \in [Updates -> States] /\ update'[u] = [update[u] EXCEPT !.pc = "fetch"]
        /\ \A v \in Updates \ {u} : update'[v] = update[v]
    BY <1>6, GotoKeeps DEF Stages
  <2>2. TypeOK' /\ Verified'
    BY <1>2, <1>3, <1>6, <2>1 DEF CopyBackup, TypeOK, States, Verified
  <2>3. file'[Installed] = file[Installed] /\ file'[Backup(u)] = update[u].source
        /\ Backup(u)' = Backup(u) /\ BinaryPath' = BinaryPath
    BY <1>2, <1>3, <1>6, <2>1 DEF CopyBackup, BinaryPath, Backup, TypeOK, States
  <2>4. Good(u)'
    BY <1>2, <1>6, <1>5, <2>1, <2>3 DEF CopyBackup, At, Good, Early, TypeOK, States
  <2> QED
    BY <1>1, <1>5, <2>1, <2>2, <2>4, StepKeeps
<1>7. CASE Answer(u, "failed") /\ UNCHANGED file /\ CopyBackup(u)
  <2>1. update' \in [Updates -> States] /\ update'[u].pc = "done"
        /\ \A v \in Updates \ {u} : update'[v].pc = update[v].pc
    BY <1>7, AnswerKeeps
  <2>2. TypeOK' /\ Verified'
    BY <1>7, <2>1 DEF CopyBackup, TypeOK, Verified
  <2> QED
    BY <1>1, <1>5, <2>1, <2>2, StepKeeps DEF Stages
<1>8. CASE OpenDownload(u)
  <2>1. PICK body \in {"partial", "damaged"} : file' = [file EXCEPT ![Tmp(u)] = body]
    BY <1>8 DEF OpenDownload
  <2>2. update'[u] = [update[u] EXCEPT !.pc = "download", !.target = Tmp(u)]
        /\ \A v \in Updates \ {u} : update'[v] = update[v]
    BY <1>8 DEF OpenDownload, TypeOK, States
  <2>3. update[u] \in States
    BY DEF TypeOK
  <2>4. /\ update'[u].pc = "download" /\ update'[u].target = Tmp(u) /\ update'[u].base = update[u].base
        /\ update'[u].source = update[u].source /\ update'[u].before = update[u].before
    BY ONLY <2>2, <2>3 DEF States
  <2>5. update'[u] \in States
    BY <1>3, <2>2 DEF TypeOK, States, Stages
  <2>6. TypeOK' /\ Verified'
    BY <1>2, <1>3, <1>8, <2>1, <2>5 DEF OpenDownload, TypeOK, Bodies, Verified
  <2>7. file'[Installed] = file[Installed] /\ file'[Backup(u)] = file[Backup(u)]
        /\ Backup(u)' = Backup(u) /\ Tmp(u)' = Tmp(u) /\ BinaryPath' = BinaryPath
    <3>1. file'[Installed] = file[Installed] /\ file'[Backup(u)] = file[Backup(u)]
      BY <1>2, <1>3, <2>1 DEF TypeOK
    <3> QED
      BY <1>8, <2>4, <3>1 DEF OpenDownload, BinaryPath, Backup, Tmp
  <2>8. Good(u)'
    <3>1. /\ update[u].base = BinaryPath /\ file[Installed] = update[u].before
          /\ file[Backup(u)] = update[u].source
      BY <1>2, <1>8 DEF OpenDownload, At, Good, Early
    <3> QED
      BY <1>5, <2>7, <2>4, <3>1 DEF At, Good, Early
  <2> QED
    BY <1>1, <1>5, <2>2, <2>6, <2>8, StepKeeps
<1>9. CASE Downloaded(u)
  <2>1. update[u].target = Tmp(u) /\ Tmp(u) # None
    BY <1>2, <1>3, <1>9, NoFileAssumption DEF Downloaded, Good
  <2>2. PICK body \in {u, "damaged"} : file' = [file EXCEPT ![Tmp(u)] = body]
    BY <1>9, <2>1 DEF Downloaded
  <2>3. update' \in [Updates -> States] /\ update'[u] = [update[u] EXCEPT !.pc = "verify"]
        /\ \A v \in Updates \ {u} : update'[v] = update[v]
    BY <1>9, GotoKeeps DEF Downloaded, Stages
  <2>4. TypeOK' /\ Verified'
    BY <1>2, <1>3, <1>9, <2>2, <2>3 DEF Downloaded, TypeOK, Bodies, Verified
  <2>5. file'[Installed] = file[Installed] /\ file'[Backup(u)] = file[Backup(u)]
        /\ Backup(u)' = Backup(u) /\ BinaryPath' = BinaryPath
    BY <1>2, <1>3, <1>9, <2>2, <2>3 DEF Downloaded, BinaryPath, Backup, TypeOK, States
  <2>6. Good(u)'
    BY <1>2, <1>9, <1>5, <2>3, <2>5 DEF Downloaded, At, Good, Early, TypeOK, States
  <2> QED
    BY <1>1, <1>5, <2>3, <2>4, <2>6, StepKeeps
<1>10. CASE DownloadFails(u)
  BY <1>1, <1>10, <1>4, DiscardKeeps DEF DownloadFails
<1>11. CASE file[Tmp(u)] = u /\ Goto(u, "replace") /\ UNCHANGED file /\ Verify(u)
  <2>1. update' \in [Updates -> States] /\ update'[u] = [update[u] EXCEPT !.pc = "replace"]
        /\ \A v \in Updates \ {u} : update'[v] = update[v]
    BY <1>11, GotoKeeps DEF Stages
  <2>2. TypeOK' /\ Verified'
    BY <1>11, <2>1 DEF Verify, TypeOK, Verified
  <2>3. Backup(u)' = Backup(u) /\ Tmp(u)' = Tmp(u) /\ BinaryPath' = BinaryPath
    BY <1>11, <2>1 DEF Verify, BinaryPath, Backup, Tmp, TypeOK, States
  <2>4. Good(u)'
    BY <1>2, <1>11, <1>5, <2>1, <2>3 DEF Verify, At, Good, Early, TypeOK, States
  <2> QED
    BY <1>1, <1>5, <2>1, <2>2, <2>4, StepKeeps
<1>12. CASE file[Tmp(u)] # u /\ Discard(u) /\ Verify(u)
  BY <1>1, <1>12, <1>4, DiscardKeeps DEF Verify
<1> QED
  BY <1>6, <1>7, <1>8, <1>9, <1>10, <1>11, <1>12 DEF CopyBackup, Verify

(* The rename installs what was verified, at the path of the running       *)
(* image; a failing one changes nothing there.                             *)
LEMMA ReplaceIInv ==
  ASSUME IInv, NEW u \in Updates, Rename(u) \/ ReplaceFails(u)
  PROVE  IInv'
<1> USE DEF IInv
<1>1. update[u].pc \in Stages /\ At(u, "replace")
  BY DEF Rename, ReplaceFails, At, Stages
<1>2. Under = {u} /\ Good(u) /\ Backup(u) # Tmp(u) /\ Backup(u) # Installed /\ Tmp(u) # Installed
  BY <1>1, Alone
<1>3. Backup(u) \in Paths /\ Tmp(u) \in Paths /\ Installed \in Paths /\ u \in Versions /\ u \in Bodies
  BY <1>1, Alone
<1>4. \A p \in Paths : Writers(p) = {}
  BY <1>1, <1>2 DEF Writers, Under, At, Stages
<1>5. \A p \in Paths : Removed(p) = update
  BY <1>4 DEF Removed, TypeOK
<1>6. /\ file[Tmp(u)] = u /\ update[u].base = BinaryPath /\ file[Installed] = update[u].before
      /\ executable /\ alive /\ alive' = alive
  BY <1>1, <1>2 DEF Rename, ReplaceFails, Good, At, Early
<1>7. CASE Rename(u)
  <2> DEFINE current == <<BinaryPath, "">>
  <2>1. current \in Paths /\ current # Tmp(u) /\ current # Backup(u)
    BY DEF BinaryPath, Paths, Tmp, Backup
  <2>2. file' = [file EXCEPT ![current] = u, ![Tmp(u)] = None]
    BY <1>6, <1>7 DEF Rename
  <2>3. /\ update'[u] = [update[u] EXCEPT !.pc = "permissions", !.target = current]
        /\ \A v \in Updates \ {u} : update'[v] = update[v]
        /\ DOMAIN update' = Updates
    BY <1>3, <1>4, <1>5, <1>7, <2>1 DEF Rename
  <2>4. update' \in [Updates -> States]
    <3>1. update'[u] \in States
      BY <2>1, <2>3 DEF TypeOK, States, Stages
    <3>2. \A v \in Updates : update'[v] \in States
      BY <2>3, <3>1 DEF TypeOK
    <3> QED
      BY <1>7, <3>2 DEF Rename
  <2>5. TypeOK'
    BY <1>3, <1>7, <2>1, <2>2, <2>4 DEF Rename, TypeOK, Bodies
  <2>6. file'[Installed] = IF update[u].base = "bin" THEN u ELSE update[u].before
    BY <1>2, <1>3, <1>6, <2>1, <2>2 DEF TypeOK, Installed
  <2>7. Verified'
    BY <1>3, <1>6, <2>6 DEF Verified
  <2>8. /\ update'[u].pc = "permissions" /\ update'[u].target = current /\ update'[u].base = update[u].base
        /\ update'[u].source = update[u].source /\ update'[u].before = update[u].before
    <3>1. update[u] \in States
      BY DEF TypeOK
    <3> QED
      BY ONLY <2>3, <3>1 DEF States
  <2>9. file'[Backup(u)] = update[u].source /\ Backup(u)' = Backup(u)
    BY <1>1, <1>2, <1>3, <2>1, <2>2, <2>8 DEF At, Good, Backup, TypeOK
  <2>10. executable' \/ update'[u].target = Installed
    BY <1>6, <1>7, <2>8 DEF Rename
  <2>11. Good(u)'
    BY <1>6, <2>6, <2>8, <2>9, <2>10 DEF At, Good, Early
  <2> QED
    BY <1>1, <2>3, <2>5, <2>7, <2>8, <2>11, StepKeeps
<1>8. CASE ReplaceFails(u)
  <2>1. update' = [update EXCEPT ![u].pc = "rollback"]
    BY <1>3, <1>5, <1>8 DEF ReplaceFails
  <2>2. update' \in [Updates -> States] /\ update'[u] = [update[u] EXCEPT !.pc = "rollback"]
        /\ \A v \in Updates \ {u} : update'[v] = update[v]
    BY <2>1, GotoKeeps DEF Goto, Stages
  <2>3. TypeOK' /\ Verified'
    BY <1>2, <1>3, <1>8, <2>2 DEF ReplaceFails, TypeOK, Bodies, Verified
  <2>4. file'[Installed] = file[Installed] /\ file'[Backup(u)] = file[Backup(u)] /\ Backup(u)' = Backup(u)
    <3>1. file'[Installed] = file[Installed] /\ file'[Backup(u)] = file[Backup(u)]
      BY <1>2, <1>3, <1>8 DEF ReplaceFails, TypeOK
    <3>2. update'[u].base = update[u].base
      BY <2>2 DEF TypeOK, States
    <3> QED
      BY <3>1, <3>2 DEF Backup
  <2>5. Good(u)'
    <3>1. file[Backup(u)] = update[u].source /\ executable' /\ alive'
      BY <1>1, <1>2, <1>6, <1>8 DEF ReplaceFails, At, Good
    <3>2. update'[u].pc = "rollback" /\ update'[u].source = update[u].source /\ update'[u].before = update[u].before
      BY <2>2 DEF TypeOK, States
    <3> QED
      BY <1>6, <2>4, <3>1, <3>2 DEF At, Good, Early
  <2> QED
    BY <1>1, <1>6, <1>8, <2>2, <2>3, <2>5, StepKeeps DEF ReplaceFails
<1> QED
  BY <1>7, <1>8

(* Restart and rollback keep the invariant: what rollback() writes is not  *)
(* the installed file.                                                     *)
LEMMA EndIInv ==
  ASSUME IInv, NEW u \in Updates,
         AddExecutableBit(u) \/ RestartElsewhere(u) \/ RestartFails(u) \/ Rollback(u)
  PROVE  IInv'
<1> USE DEF IInv
<1>1. update[u].pc \in Stages
  BY DEF AddExecutableBit, RestartElsewhere, RestartFails, Rollback, At, Stages
<1>2. Under = {u} /\ Good(u)
  BY <1>1, Alone
<1>3. alive /\ alive' /\ executable'
  <2>1. CASE AddExecutableBit(u)
    <3>1. alive /\ (executable \/ update[u].target = Installed)
      BY <1>2, <2>1 DEF AddExecutableBit, Good
    <3>2. (executable' <=> executable \/ update[u].target = Installed) /\ alive' = alive
      BY <2>1 DEF AddExecutableBit
    <3> QED
      BY <3>1, <3>2
  <2>2. CASE RestartElsewhere(u) \/ RestartFails(u) \/ Rollback(u)
    <3>1. ~At(u, "permissions") /\ UNCHANGED <<executable, alive>>
      BY <2>2 DEF RestartElsewhere, RestartFails, Rollback, At
    <3>2. alive /\ (executable \/ At(u, "permissions"))
      BY ONLY Zenon, <1>2 DEF Good
    <3> QED
      BY <3>1, <3>2
  <2> QED
    BY <2>1, <2>2
<1>4. CASE RestartElsewhere(u)
  <2>1. update' \in [Updates -> States] /\ update'[u].pc = "done"
        /\ \A v \in Updates \ {u} : update'[v].pc = update[v].pc
    BY <1>4, AnswerKeeps DEF RestartElsewhere
  <2>2. TypeOK' /\ Verified'
    BY <1>4, <2>1 DEF RestartElsewhere, TypeOK, Verified
  <2> QED
    BY <1>1, <1>3, <2>1, <2>2, StepKeeps DEF Stages
<1>5. CASE RestartFails(u)
  <2>1. update' \in [Updates -> States] /\ update'[u] = [update[u] EXCEPT !.pc = "rollback"]
        /\ \A v \in Updates \ {u} : update'[v] = update[v]
    BY <1>5, GotoKeeps DEF RestartFails, Stages
  <2>2. TypeOK' /\ Verified'
    BY <1>5, <2>1 DEF RestartFails, TypeOK, Verified
  <2>3. Good(u)'
    BY <1>2, <1>5, <1>3, <2>1 DEF RestartFails, At, Good, Early, Backup, TypeOK, States
  <2> QED
    BY <1>1, <1>3, <2>1, <2>2, <2>3, StepKeeps
<1>6. CASE Rollback(u)
  <2>1. update' \in [Updates -> States] /\ update'[u].pc = "done"
        /\ \A v \in Updates \ {u} : update'[v].pc = update[v].pc
    BY <1>6, AnswerKeeps DEF Rollback
  <2>2. file' \in [Paths -> Bodies] /\ file'[Installed] = file[Installed]
    <3>1. CASE UNCHANGED file
      BY <3>1 DEF TypeOK
    <3>2. CASE unlinked /\ \E body \in {file[Backup(u)], "partial"} :
                  file' = [file EXCEPT ![<<BinaryPath, "">>] = body]
      <4>1. <<BinaryPath, "">> \in Paths /\ <<BinaryPath, "">> # Installed
            /\ Backup(u) \in Paths /\ Installed \in Paths
        BY <1>1, <3>2, Alone DEF BinaryPath, Paths, Installed
      <4> QED
        BY <3>2, <4>1 DEF TypeOK, Bodies
    <3> QED
      BY <1>6, <3>1, <3>2 DEF Rollback
  <2>3. TypeOK' /\ Verified'
    BY <1>6, <2>1, <2>2 DEF Rollback, TypeOK, Verified
  <2> QED
    BY <1>1, <1>3, <2>1, <2>3, StepKeeps DEF Stages
<1>7. CASE AddExecutableBit(u)
  <2>1. update' \in [Updates -> States] /\ update'[u] = [update[u] EXCEPT !.pc = "restart"]
        /\ \A v \in Updates \ {u} : update'[v] = update[v]
    BY <1>7, GotoKeeps DEF AddExecutableBit, Stages
  <2>2. TypeOK' /\ Verified'
    BY <1>7, <2>1 DEF AddExecutableBit, TypeOK, Verified
  <2>3. Good(u)'
    BY <1>2, <1>3, <1>7, <2>1 DEF AddExecutableBit, At, Good, Early, Backup, TypeOK, States
  <2> QED
    BY <1>1, <1>3, <2>1, <2>2, <2>3, StepKeeps
<1> QED
  BY <1>4, <1>5, <1>6, <1>7

(* The process ends, with the update that was under way. *)
LEMMA RestartedIInv ==
  ASSUME IInv, Restarted
  PROVE  IInv'
<1> USE DEF IInv
<1>1. \A v \in Updates : update'[v].pc \notin Stages /\ update'[v] \in States
  <2> TAKE v \in Updates
  <2>1. CASE v \in Under
    BY <2>1 DEF Restarted, TypeOK, States, Stages
  <2>2. CASE v \notin Under
    BY <2>2 DEF Restarted, Under, TypeOK
  <2> QED
    BY <2>1, <2>2
<1>2. update' \in [Updates -> States]
  BY <1>1 DEF Restarted
<1>3. TypeOK' /\ Verified'
  BY <1>2 DEF Restarted, TypeOK, Verified
<1>4. Under' = {}
  BY <1>1 DEF Under
<1> QED
  BY <1>3, <1>4 DEF OneAtATime, Startable, Restarted

(* The invariant, for updates that do not overlap. *)
LEMMA Invariant ==
  ASSUME Overlap = FALSE
  PROVE  Spec => []IInv
<1>1. IInv /\ [Next]_vars => IInv'
  <2> SUFFICES ASSUME IInv, [Next]_vars PROVE IInv'
    OBVIOUS
  <2>1. CASE UNCHANGED vars
    BY <2>1 DEF vars, IInv, TypeOK, Verified, Startable, OneAtATime, Under, Good, At, BinaryPath,
                Backup, Tmp
  <2>2. CASE Restarted
    BY <2>2, RestartedIInv
  <2>3. CASE \E u \in Updates : Begin(u)
    BY <2>3, BeginIInv
  <2>4. CASE \E u \in Updates : Step(u)
    BY <2>4, FetchIInv, ReplaceIInv, EndIInv DEF Step
  <2> QED
    BY <2>1, <2>2, <2>3, <2>4 DEF Next
<1> QED
  BY <1>1, InitIInv, PTL DEF Spec

-----------------------------------------------------------------------------
(* The files and what each update remembers of them always have their      *)
(* types: the state of UpdateManager::update() and of its paths.           *)
THEOREM UpdaterTypeCorrect ==
  ASSUME Overlap = FALSE
  PROVE  Spec => []TypeOK
<1>1. IInv => TypeOK
  BY DEF IInv
<1> QED
  BY <1>1, Invariant, PTL

(* What is installed was verified, however many updates are made, and      *)
(* wherever each of them fails or is killed, and it can be executed, but   *)
(* for an end between rename and permissions (README.md:188-192).          *)
THEOREM VerifiedInstalled ==
  ASSUME Overlap = FALSE
  PROVE  Spec => []OnlyVerifiedInstalled
<1>1. IInv => OnlyVerifiedInstalled
  BY DEF IInv, OnlyVerifiedInstalled, Verified, Startable, Good
<1> QED
  BY <1>1, Invariant, PTL

(* Until the end of an update its backup is the whole binary that it found *)
(* (UpdateManager.cpp:72-79).                                              *)
THEOREM BackupIsHeld ==
  ASSUME Overlap = FALSE
  PROVE  Spec => []BackupHeld
<1>1. IInv => BackupHeld
  BY DEF IInv, BackupHeld, Good
<1> QED
  BY <1>1, Invariant, PTL

(* Each answer of an update tells the truth about what is installed        *)
(* (UpdateManager.cpp:101-119).                                            *)
THEOREM AnswersTrue ==
  ASSUME Overlap = FALSE
  PROVE  Spec => AnswerMatchesFiles
<1> DEFINE True(u) ==
      /\ executable'
      /\ \/ update'[u].result = "success" /\ update[u].base = "bin" /\ file'[Installed] = u
         \/ update'[u].result = "success" /\ update[u].base # "bin"
         \/ update'[u].result = "failed" /\ file'[Installed] = update'[u].before
         \/ update'[u].result = "failed" /\ At(u, "rollback") /\ file'[Installed] = u
<1>1. ASSUME IInv, [Next]_vars, NEW u \in Updates, update'[u].result # update[u].result
      PROVE  True(u)
  <2> USE <1>1
  <2>1. TypeOK /\ IInv
    BY DEF IInv
  <2>2. CASE UNCHANGED vars
    BY <2>2 DEF vars
  <2>3. CASE Restarted
    BY <2>3, <2>1 DEF Restarted, TypeOK, States
  <2>4. ASSUME NEW v \in Updates, Begin(v) PROVE True(u)
    <3>1. update[v] \in States /\ update \in [Updates -> States]
      BY <2>1 DEF TypeOK
    <3>2. CASE update' = [update EXCEPT ![v] =
                 [@ EXCEPT !.pc = "backup", !.base = BinaryPath, !.source = file[<<BinaryPath, "">>],
                           !.before = file[Installed]]]
      <4>1. update'[v].result = update[v].result
        BY <3>1, <3>2 DEF States
      <4> QED
        BY <3>1, <3>2, <4>1
    <3>3. executable /\ executable' = executable
      BY <1>1, <2>4 DEF IInv, Startable, Begin
    <3>4. CASE update' = [update EXCEPT ![v] =
                 [@ EXCEPT !.pc = "done", !.result = "failed", !.before = file[Installed]]]
               /\ UNCHANGED file
      <4>1. update'[v].result = "failed" /\ update'[v].before = file[Installed]
        BY <3>1, <3>4 DEF States
      <4> QED
        BY <3>1, <3>4, <3>3, <4>1
    <3> QED
      BY <2>4, <3>2, <3>4 DEF Begin
  <2>5. ASSUME NEW v \in Updates, Step(v) PROVE True(u)
    <3>1. update[v].pc \in Stages
      BY <2>5 DEF Step, CopyBackup, OpenDownload, Downloaded, DownloadFails, Verify, Rename, ReplaceFails, AddExecutableBit,
                  RestartElsewhere, RestartFails, Rollback, At, Stages
    <3>2. Good(v) /\ Tmp(v) # Installed /\ Tmp(v) \in Paths /\ Installed \in Paths
      BY <3>1, Alone
    <3>3. \A p \in Paths, w \in Updates : Removed(p)[w].result = update[w].result
                                          /\ Removed(p)[w].before = update[w].before
      BY <2>1 DEF Removed, TypeOK, States
    <3>4. ~At(v, "permissions") => executable
      BY <3>2 DEF Good
    <3>5. CASE CopyBackup(v) \/ Downloaded(v)
      <4>1. CASE \E stage \in Stages : Goto(v, stage)
        <5>1. PICK stage \in Stages : Goto(v, stage)
          BY <4>1
        <5>2. update[v] \in States /\ update \in [Updates -> States]
          BY <2>1 DEF TypeOK
        <5>3. update'[v].result = update[v].result
          BY <5>1, <5>2 DEF Goto, States
        <5> QED
          BY <5>1, <5>2, <5>3 DEF Goto
      <4>2. CASE CopyBackup(v) /\ Answer(v, "failed") /\ UNCHANGED file
        <5>1. file[Installed] = update[v].before
          BY <3>2, <4>2 DEF CopyBackup, At, Good, Early
        <5>2. update'[u].result = "failed" /\ u = v /\ update'[v].before = update[v].before
          BY <2>1, <4>2 DEF Answer, TypeOK, States
        <5>3. executable'
          BY <3>4, <4>2 DEF CopyBackup, At
        <5> QED
          BY <4>2, <5>1, <5>2, <5>3
      <4> QED
        BY <3>5, <4>1, <4>2 DEF CopyBackup, Downloaded, Stages
    <3>6. CASE OpenDownload(v)
      BY <2>1, <3>6 DEF OpenDownload, TypeOK, States
    <3>7. CASE Discard(v) /\ (DownloadFails(v) \/ Verify(v))
      <4>1. file'[Installed] = update[v].before
        BY <2>1, <3>2, <3>7 DEF Discard, DownloadFails, Verify, At, Good, Early, TypeOK
      <4>2. /\ \A w \in Updates \ {v} : update'[w].result = update[w].result
            /\ update'[v].result = "failed" /\ update'[v].before = update[v].before
        <5>1. update' = [Removed(Tmp(v)) EXCEPT ![v].pc = "done", ![v].result = "failed"]
          BY <3>7 DEF Discard
        <5>2. Removed(Tmp(v)) \in [Updates -> States]
          BY <2>1 DEF Removed, TypeOK, States
        <5>3. \A w \in Updates \ {v} : update'[w] = Removed(Tmp(v))[w]
          BY <5>1, <5>2
        <5>4. update'[v] = [Removed(Tmp(v))[v] EXCEPT !.pc = "done", !.result = "failed"]
          BY <5>1, <5>2
        <5>5. update'[v].result = "failed" /\ update'[v].before = Removed(Tmp(v))[v].before
          BY <5>2, <5>4 DEF States
        <5> QED
          BY <3>2, <3>3, <5>3, <5>5
      <4>3. executable'
        BY <3>7, <3>4 DEF DownloadFails, Verify, At
      <4> QED
        BY <4>1, <4>2, <4>3
    <3>8. CASE Goto(v, "replace")
      BY <2>1, <3>8 DEF Goto, TypeOK, States
    <3>9. CASE Rename(v)
      <4>1. \A w \in Updates : update'[w].result = update[w].result
        BY <2>1, <3>9 DEF Rename, Removed, TypeOK, States
      <4> QED
        BY <4>1
    <3>10. CASE ReplaceFails(v)
      <4>1. update' = [Removed(Tmp(v)) EXCEPT ![v].pc = "rollback"]
        BY <3>10 DEF ReplaceFails
      <4>2. Removed(Tmp(v)) \in [Updates -> States]
        BY <2>1 DEF Removed, TypeOK, States
      <4>3. \A w \in Updates : update'[w].result = Removed(Tmp(v))[w].result
        BY <4>1, <4>2 DEF States
      <4> QED
        BY <3>2, <3>3, <4>3
    <3>11. CASE RestartElsewhere(v)
      BY <2>1, <3>2, <3>11, <3>4 DEF RestartElsewhere, Answer, At, Good, TypeOK, States
    <3>12. CASE RestartFails(v)
      BY <2>1, <3>12 DEF RestartFails, Goto, TypeOK, States
    <3>13. CASE Rollback(v)
      <4>1. file'[Installed] = file[Installed]
        BY <2>1, <3>13 DEF Rollback, BinaryPath, Installed, Paths, TypeOK
      <4> QED
        BY <2>1, <3>2, <3>13, <3>4, <4>1 DEF Rollback, Answer, At, Good, TypeOK, States
    <3>14. CASE AddExecutableBit(v)
      BY <2>1, <3>14 DEF AddExecutableBit, Goto, TypeOK, States
    <3> QED
      BY <2>5, <3>5, <3>6, <3>7, <3>8, <3>9, <3>10, <3>11, <3>12, <3>13, <3>14 DEF Step, DownloadFails, Verify
  <2> QED
    BY <2>2, <2>3, <2>4, <2>5 DEF Next
<1>2. IInv /\ [Next]_vars =>
        [\A u \in Updates : update'[u].result # update[u].result => True(u)]_vars
  BY <1>1
<1> QED
  BY <1>2, Invariant, PTL DEF Spec, AnswerMatchesFiles
=============================================================================
