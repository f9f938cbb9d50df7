--------------------------- MODULE CommandExecutor ---------------------------
(***************************************************************************)
(* Remote commands: src/src/services/CommandExecutor.cpp (POSIX build).    *)
(*                                                                         *)
(* Three threads meet: Paho's callback thread enqueues (processCommand),   *)
(* the worker drains the queue and executes (workerLoop, executeCommand),  *)
(* and the main thread stops the service.  queue_mutex_ is held by the     *)
(* worker in "blocking" and "draining" and is free otherwise; waiting on   *)
(* queue_cv_ is the state "waiting", and evaluating the predicate and      *)
(* blocking are two steps because stop() sets its flag without the mutex.  *)
(***************************************************************************)
EXTENDS Naturals, Sequences

CONSTANTS
    Commands,  \* identities of the messages that may arrive
    Kinds      \* the sorts of command in play, a subset of AllKinds

(* malformed: not a JSON object, or with a command_id that is no string;   *)
(* illtyped:  a type or timeout of the wrong JSON type;                    *)
(* rejected:  unknown type, empty shell command, incomplete update (when   *)
(*            its payload is not an object, by an exception);              *)
(* simple:    collect_now, scan_network, get_info;                         *)
(* shell:     shell and restart_service, whose child ends by itself;       *)
(* hang:      shell whose child does not end;                              *)
(* update:    agent_update, handed to a detached thread.                   *)
AllKinds == {"malformed", "illtyped", "rejected", "simple", "shell", "hang", "update"}

ASSUME KindAssumption == Kinds \subseteq AllKinds

VARIABLES
    arrived,   \* commands that have arrived
    kind,      \* kind[c] of each command, fixed when it arrives
    nameless,  \* commands whose command_id is missing or empty: ""
    queue,     \* command_queue_
    notifying, \* the callback thread has pushed and not yet notified
    worker,    \* where the worker thread is
    cur,       \* the command the worker executes
    child,     \* the shell's child: "none", "running", or how it ended
    result,    \* what runShell returns: "zero", "nonzero" or "timeout"
    garbled,   \* its output is not valid UTF-8 (as such, or cut at 64 KB)
    statuses,  \* history: statuses[c] is what was published about c
    updates,   \* commands whose update runs on its own thread
    stopper    \* the thread in stop(): "no", "flagged", "joining", "returned"

callVars == <<arrived, kind, nameless, notifying>>
shellVars == <<child, result, garbled>>
vars == <<callVars, queue, worker, cur, shellVars, statuses, updates, stopper>>

stop_requested == stopper # "no"

-----------------------------------------------------------------------------
Init ==
    /\ arrived = {}
    /\ kind \in [Commands -> Kinds]
    /\ nameless \in SUBSET Commands
    /\ queue = <<>>
    /\ notifying = FALSE
    /\ worker = "outer"
    /\ cur \in Commands
    /\ child = "none" /\ result = "zero" /\ garbled = FALSE
    /\ statuses = [c \in Commands |-> <<>>]
    /\ updates = {}
    /\ stopper = "no"

(* Mutant of Push: the queue is not protected by queue_mutex_. *)
PushUnlocked(c) ==
    /\ ~notifying
    /\ c \notin arrived
    /\ arrived' = arrived \cup {c}
    /\ queue' = Append(queue, c)
    /\ notifying' = TRUE
    /\ UNCHANGED <<kind, nameless, worker, cur, shellVars, statuses, updates, stopper>>

(* processCommand: push under queue_mutex_, notify_one after releasing it. *)
Push(c) ==
    /\ ~notifying
    /\ worker \notin {"blocking", "draining"}
    /\ c \notin arrived
    /\ arrived' = arrived \cup {c}
    /\ queue' = Append(queue, c)
    /\ notifying' = TRUE
    /\ UNCHANGED <<kind, nameless, worker, cur, shellVars, statuses, updates, stopper>>

Wake == worker' = IF worker = "waiting" THEN "check" ELSE worker

NotifyOne ==
    /\ notifying
    /\ notifying' = FALSE
    /\ Wake
    /\ UNCHANGED <<arrived, kind, nameless, queue, cur, shellVars, statuses, updates, stopper>>

-----------------------------------------------------------------------------
(* The worker goes from one label to the next and changes nothing else. *)
Goto(from, to) ==
    /\ worker = from
    /\ worker' = to
    /\ UNCHANGED <<callVars, stopper>>

(* while (!stop_requested_) *)
Outer ==
    /\ Goto("outer", IF stop_requested THEN "exited" ELSE "check")
    /\ UNCHANGED <<queue, cur, shellVars, statuses, updates>>

(* Mutants of Check: wait() without a predicate, and with a predicate that *)
(* does not look at stop_requested_.                                       *)
CheckNothing ==
    /\ Goto("check", "blocking")
    /\ UNCHANGED <<queue, cur, shellVars, statuses, updates>>

CheckQueueOnly ==
    /\ Goto("check", IF queue # <<>> THEN "draining" ELSE "blocking")
    /\ UNCHANGED <<queue, cur, shellVars, statuses, updates>>

(* The predicate of wait(), with the mutex taken. *)
Check ==
    /\ Goto("check", IF stop_requested \/ queue # <<>> THEN "draining" ELSE "blocking")
    /\ UNCHANGED <<queue, cur, shellVars, statuses, updates>>

(* Releasing the mutex and waiting are one step. *)
Block ==
    /\ Goto("blocking", "waiting")
    /\ UNCHANGED <<queue, cur, shellVars, statuses, updates>>

SpuriousWakeup ==
    /\ Goto("waiting", "check")
    /\ UNCHANGED <<queue, cur, shellVars, statuses, updates>>

(* The inner loop: pop, unlock; it ends when the queue is empty, whatever  *)
(* stop_requested_ says.                                                   *)
Drain ==
    /\ \/ /\ queue = <<>>
          /\ Goto("draining", "outer")
          /\ UNCHANGED <<queue, cur>>
       \/ /\ queue # <<>>
          /\ Goto("draining", "parse")
          /\ cur' = Head(queue)
          /\ queue' = Tail(queue)
    /\ UNCHANGED <<shellVars, statuses, updates>>

publishResult(s) == statuses' = [statuses EXCEPT ![cur] = Append(@, s)]

(* The catch of executeCommand: with an empty command_id there is nobody   *)
(* to answer to.                                                           *)
AnswerException == IF cur \in nameless THEN UNCHANGED statuses ELSE publishResult("failed")

(* The queue's mutex is taken again after executeCommand. *)
Relock ==
    /\ Goto("done", "draining")
    /\ UNCHANGED <<queue, cur, shellVars, statuses, updates>>

(* The fields are read, command_id first, which may be missing: the        *)
(* command is acknowledged and executed all the same.                      *)
Acknowledge ==
    /\ \/ kind[cur] = "malformed" /\ Goto("parse", "done") /\ UNCHANGED statuses
       \/ kind[cur] = "illtyped" /\ Goto("parse", "done") /\ AnswerException
       \/ /\ kind[cur] \notin {"malformed", "illtyped"}
          /\ Goto("parse", "dispatch")
          /\ publishResult("acknowledged")
    /\ UNCHANGED <<queue, cur, shellVars, updates>>

(* Mutant of Dispatch: an empty shell command is reported and run all the  *)
(* same (the return at 240 is missing).                                    *)
DispatchFallsThrough ==
    /\ \/ /\ kind[cur] = "rejected"
          /\ Goto("dispatch", "report")
          /\ publishResult("failed")
          /\ UNCHANGED updates
       \/ /\ kind[cur] # "rejected"
          /\ Goto("dispatch", IF kind[cur] = "simple" THEN "report" ELSE "spawn")
          /\ publishResult("executing")
          /\ UNCHANGED updates
    /\ result' = "zero" /\ garbled' = FALSE
    /\ UNCHANGED <<queue, cur, child>>

Dispatch ==
    /\ \/ /\ kind[cur] = "rejected"
          /\ Goto("dispatch", "done")
          /\ publishResult("failed") \/ AnswerException
          /\ UNCHANGED updates
       \/ /\ kind[cur] = "update"
          /\ Goto("dispatch", "done")
          /\ updates' = updates \cup {cur}
          /\ UNCHANGED statuses
       \/ /\ kind[cur] \in {"simple", "shell", "hang"}
          /\ Goto("dispatch", IF kind[cur] = "simple" THEN "report" ELSE "spawn")
          /\ publishResult("executing")
          /\ UNCHANGED updates
    /\ result' = "zero" /\ garbled' = FALSE
    /\ UNCHANGED <<queue, cur, child>>

(* Mutant of Spawn: the shell is run on a detached thread, as updates are. *)
SpawnDetached ==
    /\ Goto("spawn", "done")
    /\ child' = "running"
    /\ UNCHANGED <<queue, cur, result, garbled, statuses, updates>>

(* runShell: the std::async task runs popen. *)
Spawn ==
    /\ Goto("spawn", "shell")
    /\ child' = "running"
    /\ UNCHANGED <<queue, cur, result, garbled, statuses, updates>>

ChildEnds ==
    /\ child = "running"
    /\ kind[cur] = "shell"
    /\ child' \in {"zero", "nonzero"}
    /\ garbled' \in BOOLEAN
    /\ UNCHANGED <<callVars, queue, worker, cur, result, statuses, updates, stopper>>

(* wait_for gives up; the result is fixed, but leaving runShell destroys   *)
(* the future of a std::async, which waits for the child.                  *)
Timeout ==
    /\ Goto("shell", "leaving")
    /\ child = "running"
    /\ result' = "timeout"
    /\ UNCHANGED <<queue, cur, child, garbled, statuses, updates>>

(* The future is ready. *)
Collect ==
    /\ \/ Goto("shell", "report") /\ result' = child /\ UNCHANGED garbled
       \/ Goto("leaving", "report") /\ UNCHANGED result /\ garbled' = FALSE
    /\ child \in {"zero", "nonzero"}
    /\ child' = "none"
    /\ UNCHANGED <<queue, cur, statuses, updates>>

(* The last publishResult of a handler.  dump() throws on garbled output.  *)
Report ==
    /\ Goto("report", "done")
    /\ IF garbled THEN AnswerException
       ELSE publishResult(IF result = "zero" THEN "success" ELSE "failed")
    /\ UNCHANGED <<queue, cur, shellVars, updates>>

-----------------------------------------------------------------------------
(* stop(): the flag, without queue_mutex_, *)
SetStop ==
    /\ stopper = "no"
    /\ stopper' = "flagged"
    /\ UNCHANGED <<callVars, queue, worker, cur, shellVars, statuses, updates>>

(* then notify_all, *)
NotifyAll ==
    /\ stopper = "flagged"
    /\ stopper' = "joining"
    /\ Wake
    /\ UNCHANGED <<callVars, queue, cur, shellVars, statuses, updates>>

(* then join. *)
Join ==
    /\ stopper = "joining"
    /\ worker = "exited"
    /\ stopper' = "returned"
    /\ UNCHANGED <<callVars, queue, worker, cur, shellVars, statuses, updates>>

Execute == Acknowledge \/ Dispatch \/ Spawn \/ Collect \/ Report

WorkerStep == Outer \/ Check \/ Block \/ Drain \/ Relock \/ Execute

StopStep == NotifyAll \/ Join

Next ==
    \/ \E c \in Commands : Push(c)
    \/ NotifyOne
    \/ WorkerStep
    \/ SpuriousWakeup
    \/ Timeout
    \/ ChildEnds
    \/ SetStop
    \/ StopStep

Spec == Init /\ [][Next]_vars

(* Threads are scheduled and a child that ends by itself does end; wakeups *)
(* without a notification and timeouts need not happen.                    *)
FairSpec ==
    /\ Spec
    /\ WF_vars(WorkerStep)
    /\ WF_vars(NotifyOne)
    /\ WF_vars(ChildEnds)
    /\ WF_vars(StopStep)

-----------------------------------------------------------------------------
Final == {"success", "failed"}
Answered(c) == \E i \in DOMAIN statuses[c] : statuses[c][i] \in Final

WorkerStates ==
    {"outer", "check", "blocking", "waiting", "draining", "parse", "dispatch",
     "spawn", "shell", "leaving", "report", "done", "exited"}

TypeOK ==
    /\ arrived \subseteq Commands
    /\ kind \in [Commands -> Kinds]
    /\ nameless \subseteq Commands
    /\ queue \in Seq(arrived)
    /\ notifying \in BOOLEAN
    /\ worker \in WorkerStates
    /\ cur \in Commands
    /\ child \in {"none", "running", "zero", "nonzero"}
    /\ result \in {"zero", "nonzero", "timeout"}
    /\ garbled \in BOOLEAN
    /\ statuses \in [Commands -> Seq({"acknowledged", "executing"} \cup Final)]
    /\ updates \subseteq arrived
    /\ stopper \in {"no", "flagged", "joining", "returned"}

(* What the backend sees of one command is a prefix of acknowledged,       *)
(* executing, success or failed; only a command that is refused as such    *)
(* skips executing, or both.                                               *)
(* In particular nothing is published after a final status, and a final    *)
(* status is published once, exceptions included.                          *)
Lifecycle ==
    \A c \in Commands :
        \/ statuses[c] \in {<<>>, <<"acknowledged">>, <<"acknowledged", "executing">>}
        \/ \E s \in Final : statuses[c] = <<"acknowledged", "executing", s>>
        \/ statuses[c] = <<"acknowledged", "failed">> /\ kind[c] = "rejected"
        \/ statuses[c] = <<"failed">> /\ kind[c] = "illtyped"

(* One command at a time: when a command has been begun, every other is    *)
(* untouched, or finished, or was handed to the update thread.  (The end   *)
(* of a command without command_id may leave no trace.)                    *)
OneAtATime ==
    \A c, d \in Commands \ nameless :
        c # d /\ statuses[c] # <<>> /\ statuses[d] # <<>> =>
            \/ Answered(c) \/ c \in updates
            \/ Answered(d) \/ d \in updates

(* No result is lost in a wait: a command in the queue and a worker that   *)
(* sleeps mean that a notification is on its way.                          *)
NoSleepOnWork ==
    worker = "waiting" /\ queue # <<>> => notifying

(* A command whose child does not end holds the worker and every later     *)
(* command (CommandExecutor.cpp:335).                                      *)
NothingHangs == \A c \in Commands : kind[c] # "hang"

(* Each command with a command_id that arrives gets its final status,      *)
(* unless the service is being stopped: no wakeup is lost between push and *)
(* wait.                                                                   *)
EveryCommandAnswered ==
    \A c \in Commands :
        NothingHangs /\ c \in arrived \ nameless /\ kind[c] \notin {"malformed", "update"}
            ~> Answered(c) \/ stop_requested

(* A stop that finds the worker at work returns, after the queue has been  *)
(* drained.                                                                *)
StopWhileBusyReturns ==
    NothingHangs /\ stop_requested /\ worker \notin {"blocking", "waiting"}
        ~> worker = "exited"

(* main.cpp:21 and 702: SIGTERM stops the agent cleanly, so stop() returns.*)
StopReturns == stop_requested ~> stopper = "returned"
=============================================================================
