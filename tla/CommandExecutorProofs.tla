----------------------- MODULE CommandExecutorProofs -----------------------
(***************************************************************************)
(* Proofs about CommandExecutor, for any set of commands of any kinds and  *)
(* a queue of any length.  What was published about a command follows the  *)
(* place where the worker is with it; a command in the queue is untouched, *)
(* is there once, and is not the one that is executed.                     *)
(***************************************************************************)
EXTENDS CommandExecutor, SequenceTheorems, TLAPS

Status == {"acknowledged", "executing"} \cup Final

(* The worker is executing cur. *)
Active == {"parse", "dispatch", "spawn", "shell", "leaving", "report"}
Runnable == {"simple", "shell", "hang"}

(* What was published about the command under execution. *)
Stage ==
    /\ worker = "parse" => statuses[cur] = <<>>
    /\ worker = "dispatch" =>
        statuses[cur] = <<"acknowledged">> /\ kind[cur] \notin {"malformed", "illtyped"}
    /\ worker \in {"spawn", "shell", "leaving", "report"} =>
        statuses[cur] = <<"acknowledged", "executing">>

(* Nothing more will be published about c by the worker. *)
Closed(c) ==
    \/ statuses[c] = <<"acknowledged">> /\ c \in updates
    \/ \E s \in Final : statuses[c] = <<"acknowledged", "executing", s>>
    \/ statuses[c] = <<"acknowledged", "failed">> /\ kind[c] = "rejected"
    \/ statuses[c] = <<"failed">> /\ kind[c] = "illtyped"
    \/ statuses[c] \in {<<"acknowledged">>, <<"acknowledged", "executing">>} /\ c \in nameless

Queued(q) ==
    /\ \A i \in DOMAIN q : q[i] \in arrived /\ statuses[q[i]] = <<>>
    /\ \A i, j \in DOMAIN q : q[i] = q[j] => i = j

(* The worker goes to sleep on an empty queue, and is woken afterwards. *)
Wakeful ==
    /\ worker = "blocking" => queue = <<>>
    /\ NoSleepOnWork

IInv ==
    /\ TypeOK
    /\ Wakeful
    /\ Queued(queue)
    /\ \A c \in Commands \ arrived : statuses[c] = <<>>
    /\ worker \in Active => cur \in arrived /\ Stage /\ \A i \in DOMAIN queue : queue[i] # cur
    /\ \A c \in Commands : statuses[c] = <<>> \/ Closed(c) \/ (c = cur /\ worker \in Active)

-----------------------------------------------------------------------------
(* publishResult appends to what was published. *)
LEMMA Appended ==
  ASSUME NEW a \in Status, NEW b \in Status, NEW c \in Status
  PROVE  /\ Append(<<>>, c) = <<c>>
         /\ Append(<<a>>, c) = <<a, c>>
         /\ Append(<<a, b>>, c) = <<a, b, c>>
<1>1. Append(<<>>, c) = <<c>>
  OBVIOUS
<1>2. Append(<<a>>, c) = <<a, c>>
  <2> DEFINE q == Append(<<a>>, c)
             r == <<a, c>>
  <2>1. q \in Seq(Status) /\ r \in Seq(Status) /\ Len(q) = Len(r) /\ \A i \in 1..Len(q) : q[i] = r[i]
    OBVIOUS
  <2> HIDE DEF q, r
  <2>2. q = r
    BY <2>1, SeqEqual
  <2> QED
    BY <2>2 DEF q, r
<1>3. Append(<<a, b>>, c) = <<a, b, c>>
  <2> DEFINE q == Append(<<a, b>>, c)
             r == <<a, b, c>>
  <2>1. q \in Seq(Status) /\ r \in Seq(Status) /\ Len(q) = Len(r) /\ \A i \in 1..Len(q) : q[i] = r[i]
    OBVIOUS
  <2> HIDE DEF q, r
  <2>2. q = r
    BY <2>1, SeqEqual
  <2> QED
    BY <2>2 DEF q, r
<1> QED
  BY <1>1, <1>2, <1>3

(* At first nothing has arrived. *)
LEMMA InitIInv == Init => IInv
<1> SUFFICES ASSUME Init PROVE IInv
  OBVIOUS
<1>1. TypeOK
  BY EmptySeq DEF Init, TypeOK, WorkerStates
<1> QED
  BY <1>1 DEF Init, IInv, Wakeful, NoSleepOnWork, Queued, Active

(* A new command joins the end of the queue. *)
LEMMA PushKeeps ==
  ASSUME IInv, NEW c \in Commands, Push(c)
  PROVE  IInv'
<1>1. queue \in Seq(arrived) /\ queue \in Seq(arrived \cup {c})
  BY SeqMonotonic DEF IInv, TypeOK
<1>2. /\ queue' \in Seq(arrived') /\ queue' # <<>>
      /\ Len(queue) \in Nat /\ DOMAIN queue = 1..Len(queue) /\ DOMAIN queue' = 1..Len(queue) + 1
      /\ \A i \in 1..Len(queue) : queue'[i] = queue[i] /\ queue[i] \in arrived
      /\ queue'[Len(queue) + 1] = c
  BY <1>1, AppendProperties, LenProperties, ElementOfSeq DEF Push
<1>3. TypeOK'
  BY <1>2 DEF Push, IInv, TypeOK, shellVars
<1>4. Queued(queue)'
  BY <1>2 DEF Push, IInv, Queued
<1>5. Wakeful'
  BY DEF Push, Wakeful, NoSleepOnWork
<1>6. (\A d \in Commands \ arrived : statuses[d] = <<>>)'
  BY DEF Push, IInv
<1>7. (worker \in Active => cur \in arrived /\ Stage /\ \A i \in DOMAIN queue : queue[i] # cur)'
  BY <1>2 DEF Push, IInv, Stage
<1>8. (\A d \in Commands : statuses[d] = <<>> \/ Closed(d) \/ (d = cur /\ worker \in Active))'
  BY DEF Push, IInv, Closed
<1> QED
  BY <1>3, <1>4, <1>5, <1>6, <1>7, <1>8 DEF IInv

(* The steps that only move the worker, or none of it. *)
LEMMA QuietKeeps ==
  ASSUME IInv,
         \/ NotifyOne \/ SpuriousWakeup \/ Outer \/ Check \/ Block \/ Relock \/ Spawn
         \/ ChildEnds \/ Timeout \/ Collect \/ SetStop \/ StopStep \/ UNCHANGED vars
  PROVE  IInv'
<1>1. UNCHANGED <<arrived, kind, nameless, queue, cur, statuses, updates>>
  BY DEF NotifyOne, SpuriousWakeup, Outer, Check, Block, Relock, Spawn, ChildEnds, Timeout, Collect, SetStop,
         StopStep, NotifyAll, Join, vars, Goto, callVars, shellVars
<1>2. TypeOK'
  <2> USE <1>1 DEF IInv, TypeOK, WorkerStates, Goto, callVars, shellVars
  <2>1. CASE NotifyOne \/ SetStop \/ StopStep
    BY <2>1 DEF NotifyOne, SetStop, StopStep, NotifyAll, Join, Wake
  <2>2. CASE SpuriousWakeup \/ Outer \/ Check \/ Block \/ Relock
    BY <2>2 DEF SpuriousWakeup, Outer, Check, Block, Relock
  <2>3. CASE Spawn \/ ChildEnds \/ Timeout
    BY <2>3 DEF Spawn, ChildEnds, Timeout
  <2>4. CASE Collect
    BY <2>4 DEF Collect
  <2>5. CASE UNCHANGED vars
    BY <2>5 DEF vars
  <2> QED
    BY <2>1, <2>2, <2>3, <2>4, <2>5
<1>3. /\ worker' \in Active <=> worker \in Active
      /\ worker' \in {"parse", "dispatch"} => worker' = worker
      /\ worker \in {"parse", "dispatch"} => worker' = worker
  BY DEF Active, NotifyOne, SpuriousWakeup, Outer, Check, Block, Relock, Spawn,
         ChildEnds, Timeout, Collect, SetStop, StopStep, NotifyAll, Join, vars, Goto, Wake, callVars, shellVars
<1>4. Wakeful'
  BY <1>1 DEF IInv, TypeOK, Wakeful, NoSleepOnWork, NotifyOne, SpuriousWakeup, Outer, Check, Block, Relock,
         Spawn, ChildEnds, Timeout, Collect, SetStop, StopStep, NotifyAll, Join, vars, Goto, Wake, callVars, shellVars
<1>5. Queued(queue)'
  BY <1>1 DEF IInv, Queued
<1>6. (worker \in Active => cur \in arrived /\ Stage /\ \A i \in DOMAIN queue : queue[i] # cur)'
  BY <1>1, <1>3 DEF IInv, Stage, Active
<1>7. (\A c \in Commands : statuses[c] = <<>> \/ Closed(c) \/ (c = cur /\ worker \in Active))'
  BY <1>1, <1>3 DEF IInv, Closed
<1> QED
  BY <1>1, <1>2, <1>4, <1>5, <1>6, <1>7 DEF IInv

(* The oldest command leaves the queue and is executed. *)
LEMMA DrainKeeps ==
  ASSUME IInv, Drain
  PROVE  IInv'
<1>1. CASE queue = <<>> /\ worker' = "outer" /\ UNCHANGED <<queue, cur>>
  BY <1>1 DEF Drain, Goto, IInv, TypeOK, WorkerStates, Wakeful, NoSleepOnWork, Queued, Active, Closed,
              callVars, shellVars
<1>2. CASE queue # <<>> /\ worker' = "parse" /\ cur' = Head(queue) /\ queue' = Tail(queue)
  <2>1. UNCHANGED <<arrived, kind, nameless, notifying, child, result, garbled, statuses, updates, stopper>>
        /\ worker = "draining"
    BY DEF Drain, Goto, callVars, shellVars
  <2>2. /\ queue' \in Seq(arrived) /\ Len(queue) \in Nat \ {0} /\ DOMAIN queue = 1..Len(queue)
        /\ DOMAIN queue' = 1..Len(queue) - 1
        /\ \A i \in 1..Len(queue) - 1 : queue'[i] = queue[i + 1]
        /\ cur' = queue[1] /\ cur' \in arrived
    BY <1>2, HeadTailProperties, LenProperties, EmptySeq, ElementOfSeq DEF IInv, TypeOK
  <2>3. TypeOK'
    BY <1>2, <2>1, <2>2 DEF IInv, TypeOK, WorkerStates
  <2>4. Queued(queue)'
    <3>1. \A i \in DOMAIN queue' : i + 1 \in DOMAIN queue /\ queue'[i] = queue[i + 1] /\ i \in Nat
      BY <2>2
    <3>2. \A i, j \in DOMAIN queue : queue[i] = queue[j] => i = j
      BY DEF IInv, Queued
    <3>3. ASSUME NEW i \in DOMAIN queue', NEW j \in DOMAIN queue', queue'[i] = queue'[j] PROVE i = j
      <4>1. i + 1 = j + 1
        BY <3>1, <3>2, <3>3
      <4> QED
        BY <3>1, <4>1
    <3> QED
      BY <2>1, <3>1, <3>3 DEF IInv, Queued
  <2>5. (worker \in Active => cur \in arrived /\ Stage /\ \A i \in DOMAIN queue : queue[i] # cur)'
    BY <1>2, <2>1, <2>2 DEF IInv, Queued, Stage
  <2>6. (\A c \in Commands : statuses[c] = <<>> \/ Closed(c) \/ (c = cur /\ worker \in Active))'
    BY <2>1 DEF IInv, Closed, Active
  <2> QED
    BY <1>2, <2>1, <2>3, <2>4, <2>5, <2>6 DEF IInv, Wakeful, NoSleepOnWork
<1> QED
  BY <1>1, <1>2 DEF Drain, Goto

(* A step that publishes st about the command under execution, or ends its *)
(* execution, and leaves the queue alone.                                  *)
LEMMA PublishKeeps ==
  ASSUME IInv, worker \in Active, worker' \in WorkerStates \ {"blocking", "waiting"},
         UNCHANGED <<callVars, queue, cur, stopper, child>>, result' \in {"zero", "nonzero", "timeout"},
         garbled' \in BOOLEAN, updates' \in {updates, updates \cup {cur}},
         NEW new \in Seq(Status), statuses' = [statuses EXCEPT ![cur] = new],
         worker' \in Active => Stage',
         worker' \in Active \/ Closed(cur)' \/ new = <<>>
  PROVE  IInv'
<1>1. cur \in Commands /\ cur \in arrived /\ UNCHANGED <<arrived, kind, nameless, notifying>>
  BY DEF IInv, TypeOK, callVars
<1>2. TypeOK'
  BY <1>1 DEF IInv, TypeOK, Status, callVars
<1>3. \A c \in Commands \ {cur} : statuses'[c] = statuses[c]
  BY DEF IInv, TypeOK
<1>4. Queued(queue)'
  BY <1>1, <1>3 DEF IInv, Queued, TypeOK
<1>5. (\A c \in Commands \ arrived : statuses[c] = <<>>)'
  BY <1>1, <1>3 DEF IInv
<1>6. (worker \in Active => cur \in arrived /\ Stage /\ \A i \in DOMAIN queue : queue[i] # cur)'
  BY <1>1 DEF IInv
<1>7. (\A c \in Commands : statuses[c] = <<>> \/ Closed(c) \/ (c = cur /\ worker \in Active))'
  <2> SUFFICES ASSUME NEW c \in Commands
               PROVE  (statuses[c] = <<>> \/ Closed(c) \/ (c = cur /\ worker \in Active))'
    OBVIOUS
  <2>1. CASE c = cur
    BY <1>1, <2>1 DEF IInv, TypeOK
  <2>2. CASE c # cur
    BY <1>1, <1>3, <2>2 DEF IInv, Closed
  <2> QED
    BY <2>1, <2>2
<1>8. Wakeful'
  BY DEF Wakeful, NoSleepOnWork
<1> QED
  BY <1>2, <1>4, <1>5, <1>6, <1>7, <1>8 DEF IInv

(* Acknowledgement, dispatch and the last report each publish what comes   *)
(* next.                                                                   *)
LEMMA ExecuteKeeps ==
  ASSUME IInv, Acknowledge \/ Dispatch \/ Report
  PROVE  IInv'
<1>1. worker \in Active /\ Stage /\ cur \in Commands /\ TypeOK
  BY DEF IInv, TypeOK, Acknowledge, Dispatch, Report, Goto, Active
<1>2. /\ <<"failed">> \in Seq(Status) /\ <<"acknowledged">> \in Seq(Status)
      /\ <<"acknowledged", "failed">> \in Seq(Status) /\ <<"acknowledged", "executing">> \in Seq(Status)
      /\ \A s \in Final : <<"acknowledged", "executing", s>> \in Seq(Status)
      /\ statuses[cur] \in Seq(Status)
  BY <1>1 DEF TypeOK, Status, Final
<1>3. /\ Append(<<>>, "failed") = <<"failed">> /\ Append(<<>>, "acknowledged") = <<"acknowledged">>
      /\ Append(<<"acknowledged">>, "failed") = <<"acknowledged", "failed">>
      /\ Append(<<"acknowledged">>, "executing") = <<"acknowledged", "executing">>
      /\ \A s \in Final : Append(<<"acknowledged", "executing">>, s) = <<"acknowledged", "executing", s>>
  BY Appended DEF Status, Final
<1>4. ASSUME NEW st \in Final \cup {"acknowledged", "executing"}, publishResult(st)
      PROVE  statuses' = [statuses EXCEPT ![cur] = Append(statuses[cur], st)]
  BY <1>4 DEF publishResult
<1>5. ASSUME AnswerException
       PROVE  \/ publishResult("failed")
              \/ cur \in nameless /\ statuses' = [statuses EXCEPT ![cur] = statuses[cur]]
  BY <1>1, <1>5 DEF AnswerException, TypeOK
<1>6. CASE Acknowledge
  <2>1. worker = "parse" /\ statuses[cur] = <<>> /\ UNCHANGED <<callVars, queue, cur, stopper, child, updates>>
        /\ result' \in {"zero", "nonzero", "timeout"} /\ garbled' \in BOOLEAN
    BY <1>1, <1>6 DEF Acknowledge, Goto, Stage, TypeOK, shellVars
  <2>2. CASE worker' = "done" /\ statuses' = [statuses EXCEPT ![cur] = <<>>]
    BY <1>1, <1>2, <2>1, <2>2, EmptySeq, PublishKeeps DEF WorkerStates, Active
  <2>3. CASE kind[cur] = "illtyped" /\ worker' = "done" /\ publishResult("failed")
    <3>1. statuses' = [statuses EXCEPT ![cur] = <<"failed">>]
      BY <1>3, <2>1, <2>3 DEF publishResult
    <3>2. Closed(cur)'
      BY <1>1, <2>1, <2>3, <3>1 DEF Closed, TypeOK, callVars
    <3> QED
      BY <1>1, <1>2, <2>1, <2>3, <3>1, <3>2, PublishKeeps DEF WorkerStates, Active
  <2>4. CASE kind[cur] \notin {"malformed", "illtyped"} /\ Goto("parse", "dispatch")
             /\ publishResult("acknowledged")
    <3>1. statuses' = [statuses EXCEPT ![cur] = <<"acknowledged">>]
      BY <1>3, <2>1, <2>4 DEF publishResult
    <3>2. Stage'
      BY <1>1, <2>1, <2>4, <3>1 DEF Stage, Goto, TypeOK, callVars
    <3> QED
      BY <1>1, <1>2, <2>1, <2>4, <3>1, <3>2, PublishKeeps DEF Goto, WorkerStates, Active
  <2>5. CASE kind[cur] = "malformed" /\ Goto("parse", "done") /\ UNCHANGED statuses
    <3>1. statuses' = [statuses EXCEPT ![cur] = <<>>]
      BY <1>1, <2>1, <2>5 DEF TypeOK
    <3> QED
      BY <2>2, <2>5, <3>1 DEF Goto
  <2>6. CASE kind[cur] = "illtyped" /\ Goto("parse", "done") /\ AnswerException
    BY <1>5, <2>1, <2>2, <2>3, <2>6 DEF Goto
  <2> QED
    BY <1>6, <2>4, <2>5, <2>6 DEF Acknowledge
<1>7. CASE Dispatch
  <2>1. worker = "dispatch" /\ statuses[cur] = <<"acknowledged">>
        /\ UNCHANGED <<callVars, queue, cur, stopper, child>>
        /\ result' \in {"zero", "nonzero", "timeout"} /\ garbled' \in BOOLEAN
    BY <1>1, <1>7 DEF Dispatch, Goto, Stage
  <2>2. CASE kind[cur] = "rejected" /\ Goto("dispatch", "done") /\ publishResult("failed") /\ UNCHANGED updates
    <3>1. statuses' = [statuses EXCEPT ![cur] = <<"acknowledged", "failed">>]
      BY <1>3, <2>1, <2>2 DEF publishResult
    <3>2. Closed(cur)'
      BY <1>1, <2>1, <2>2, <3>1 DEF Closed, TypeOK, callVars
    <3> QED
      BY <1>1, <1>2, <2>1, <2>2, <3>1, <3>2, PublishKeeps DEF Goto, WorkerStates, Active
  <2>3. CASE /\ cur \in nameless /\ Goto("dispatch", "done") /\ UNCHANGED updates
             /\ statuses' = [statuses EXCEPT ![cur] = <<"acknowledged">>]
    <3>1. Closed(cur)'
      BY <1>1, <2>1, <2>3 DEF Closed, TypeOK, callVars
    <3> QED
      BY <1>1, <1>2, <2>1, <2>3, <3>1, PublishKeeps DEF Goto, WorkerStates, Active
  <2>4. CASE kind[cur] = "update" /\ Goto("dispatch", "done") /\ updates' = updates \cup {cur}
             /\ UNCHANGED statuses
    <3>1. statuses' = [statuses EXCEPT ![cur] = <<"acknowledged">>]
      BY <1>1, <2>1, <2>4 DEF TypeOK
    <3>2. Closed(cur)'
      BY <1>1, <2>1, <2>4 DEF Closed, callVars
    <3> QED
      BY <1>1, <1>2, <2>1, <2>4, <3>1, <3>2, PublishKeeps DEF Goto, WorkerStates, Active
  <2>5. CASE /\ kind[cur] \in {"simple", "shell", "hang"}
             /\ Goto("dispatch", IF kind[cur] = "simple" THEN "report" ELSE "spawn")
             /\ publishResult("executing") /\ UNCHANGED updates
    <3>1. statuses' = [statuses EXCEPT ![cur] = <<"acknowledged", "executing">>]
      BY <1>3, <2>1, <2>5 DEF publishResult
    <3>2. worker' \in {"report", "spawn"}
      BY <2>5 DEF Goto
    <3>3. Stage'
      BY <1>1, <2>1, <3>1, <3>2 DEF Stage, TypeOK
    <3> QED
      BY <1>1, <1>2, <2>1, <2>5, <3>1, <3>2, <3>3, PublishKeeps DEF WorkerStates, Active
  <2>6. CASE kind[cur] = "rejected" /\ Goto("dispatch", "done") /\ AnswerException /\ UNCHANGED updates
    BY <1>5, <2>1, <2>2, <2>3, <2>6
  <2> QED
    BY <1>7, <2>2, <2>4, <2>5, <2>6 DEF Dispatch
<1>8. CASE Report
  <2>1. /\ worker = "report" /\ statuses[cur] = <<"acknowledged", "executing">> /\ worker' = "done"
        /\ UNCHANGED <<callVars, queue, cur, stopper, child, updates>>
        /\ result' \in {"zero", "nonzero", "timeout"} /\ garbled' \in BOOLEAN
    BY <1>1, <1>8 DEF Report, Goto, Stage, TypeOK, shellVars
  <2>2. CASE \E s \in Final : publishResult(s)
    <3>1. PICK s \in Final : statuses' = [statuses EXCEPT ![cur] = <<"acknowledged", "executing", s>>]
      BY <1>3, <2>1, <2>2 DEF publishResult
    <3>2. Closed(cur)'
      BY <1>1, <2>1, <3>1 DEF Closed, TypeOK
    <3> QED
      BY <1>1, <1>2, <2>1, <3>1, <3>2, PublishKeeps DEF WorkerStates, Active
  <2>3. CASE cur \in nameless /\ statuses' = [statuses EXCEPT ![cur] = <<"acknowledged", "executing">>]
    <3>1. Closed(cur)'
      BY <1>1, <2>1, <2>3 DEF Closed, TypeOK, callVars
    <3> QED
      BY <1>1, <1>2, <2>1, <2>3, <3>1, PublishKeeps DEF WorkerStates, Active
  <2>4. (\E s \in Final : publishResult(s)) \/ AnswerException
    BY <1>8 DEF Report, Final
  <2> QED
    BY <1>5, <2>1, <2>2, <2>3, <2>4 DEF Final
<1> QED
  BY <1>6, <1>7, <1>8

LEMMA Invariant == Spec => []IInv
<1>1. IInv /\ [Next]_vars => IInv'
  BY PushKeeps, QuietKeeps, DrainKeeps, ExecuteKeeps DEF Next, WorkerStep, Execute
<1> QED
  BY <1>1, InitIInv, PTL DEF Spec

-----------------------------------------------------------------------------
(* The state of the service keeps its types; the queue holds commands that *)
(* have arrived (CommandExecutor.hpp).                                     *)
THEOREM ExecutorTypeCorrect == Spec => []TypeOK
<1>1. IInv => TypeOK
  BY DEF IInv
<1> QED
  BY <1>1, Invariant, PTL

(* The worker does not sleep over a command, whatever the order of push,   *)
(* notification, predicate and wait (CommandExecutor.cpp:99-124).          *)
THEOREM NoLostCommand == Spec => []NoSleepOnWork
<1>1. IInv => NoSleepOnWork
  BY DEF IInv, Wakeful
<1> QED
  BY <1>1, Invariant, PTL

(* The statuses of each command come in their order, the final one once,   *)
(* through every early return and exception of executeCommand and its      *)
(* handlers (CommandExecutor.cpp:126-300).                                 *)
THEOREM StatusesInOrder == Spec => []Lifecycle
<1>1. IInv => Lifecycle
  <2> SUFFICES ASSUME IInv, NEW c \in Commands
               PROVE  \/ statuses[c] \in {<<>>, <<"acknowledged">>, <<"acknowledged", "executing">>}
                      \/ \E s \in Final : statuses[c] = <<"acknowledged", "executing", s>>
                      \/ statuses[c] = <<"acknowledged", "failed">> /\ kind[c] = "rejected"
                      \/ statuses[c] = <<"failed">> /\ kind[c] = "illtyped"
    BY DEF Lifecycle
  <2>1. CASE statuses[c] = <<>> \/ Closed(c)
    BY <2>1 DEF Closed
  <2>2. CASE c = cur /\ worker \in Active
    BY <2>2 DEF IInv, Stage, Active
  <2> QED
    BY <2>1, <2>2 DEF IInv
<1> QED
  BY <1>1, Invariant, PTL

(* Commands are executed one after the other, although they arrive on      *)
(* another thread and the mutex is free while one of them runs             *)
(* (CommandExecutor.cpp:113-123).                                          *)
THEOREM CommandsInTurn == Spec => []OneAtATime
<1>1. ASSUME NEW c \in Commands \ nameless, Closed(c) PROVE Answered(c) \/ c \in updates
  <2>1. ASSUME NEW s \in Final, statuses[c] = <<"acknowledged", "executing", s>> PROVE Answered(c)
    <3>1. 3 \in DOMAIN statuses[c] /\ statuses[c][3] = s
      BY <2>1
    <3> QED
      BY <3>1 DEF Answered
  <2>2. ASSUME statuses[c] = <<"acknowledged", "failed">> PROVE Answered(c)
    <3>1. 2 \in DOMAIN statuses[c] /\ statuses[c][2] \in Final
      BY <2>2 DEF Final
    <3> QED
      BY <3>1 DEF Answered
  <2>3. ASSUME statuses[c] = <<"failed">> PROVE Answered(c)
    <3>1. 1 \in DOMAIN statuses[c] /\ statuses[c][1] \in Final
      BY <2>3 DEF Final
    <3> QED
      BY <3>1 DEF Answered
  <2> QED
    BY <1>1, <2>1, <2>2, <2>3 DEF Closed
<1>2. IInv => OneAtATime
  BY <1>1 DEF IInv, OneAtATime
<1> QED
  BY <1>2, Invariant, PTL
=============================================================================
