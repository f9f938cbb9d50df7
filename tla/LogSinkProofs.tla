--------------------------- MODULE LogSinkProofs ---------------------------
(***************************************************************************)
(* Proofs about LogSink, for any number of threads and any depth of calls. *)
(* A mutex belongs to the thread that has it on its chain of calls, below  *)
(* the top or at a top that no longer waits; no chain has a mutex twice    *)
(* that way, since a thread that waits for its own mutex goes no further.  *)
(***************************************************************************)
EXTENDS LogSink, SequenceTheorems, TLAPS

(* Chain s, whose top is in phase p, holds the mutex of c. *)
Held(s, p, c) == \E i \in DOMAIN s : s[i] = c /\ (i < Len(s) \/ p # "wait")

(* It holds no mutex twice. *)
NoneTwice(s, p) == \A i, j \in DOMAIN s : i < j /\ (j < Len(s) \/ p # "wait") => s[i] # s[j]

(* Until a publish fails, only a log record makes a nested call, a publish. *)
PlainChain(s) == \A i \in DOMAIN s : (i < Len(s) => s[i] = "log") /\ (i > 1 => s[i] = "publish")

(* Thread t is the one that has set the guard. *)
Guards(t) == owner["log"] = t /\ ~Inside(t, "log", "run")

Types ==
    /\ attached \in BOOLEAN /\ in_publish \in BOOLEAN /\ failed \in BOOLEAN
    /\ owner \in [Calls -> Threads \cup {None}]
    /\ stack \in [Threads -> Seq(Calls)]
    /\ phase \in [Threads -> {"wait", "run", "back"}]

Ownership == \A t \in Threads, c \in Calls : owner[c] = t <=> Held(stack[t], phase[t], c)

IInv ==
    /\ Types
    /\ Ownership
    /\ \A t \in Threads : NoneTwice(stack[t], phase[t])
    /\ ~failed => \A t \in Threads : PlainChain(stack[t])
    /\ in_publish => \E t \in Threads : Guards(t)

-----------------------------------------------------------------------------
(* A call begins: nothing changes in what is held. *)
LEMMA Entering ==
  ASSUME NEW s \in Seq(Calls), NEW p, NEW call \in Calls, s = <<>> \/ p # "wait", NoneTwice(s, p)
  PROVE  LET e == Append(s, call) IN
         /\ e \in Seq(Calls) /\ e # <<>> /\ Last(e) = call
         /\ \A c \in Calls : Held(e, "wait", c) <=> Held(s, p, c)
         /\ NoneTwice(e, "wait")
<1> DEFINE e == Append(s, call)
<1>1. /\ e \in Seq(Calls) /\ e # <<>> /\ Len(e) = Len(s) + 1 /\ Len(s) \in Nat
      /\ DOMAIN s = 1..Len(s) /\ DOMAIN e = 1..Len(s) + 1
      /\ \A i \in 1..Len(s) : e[i] = s[i]
      /\ e[Len(s) + 1] = call
  BY AppendProperties, LenProperties
<1> HIDE DEF e
<1>2. \A c \in Calls : Held(e, "wait", c) <=> Held(s, p, c)
  BY <1>1 DEF Held
<1>3. NoneTwice(e, "wait")
  BY <1>1 DEF NoneTwice
<1>4. Last(e) = call
  BY <1>1 DEF Last
<1> QED
  BY <1>1, <1>2, <1>3, <1>4 DEF e

(* A call returns: the mutex of the top, and no other, is given back. *)
LEMMA Returning ==
  ASSUME NEW s \in Seq(Calls), NEW p, s # <<>>, p # "wait", NoneTwice(s, p)
  PROVE  LET f == Front(s)
             q == IF Len(s) = 1 THEN "wait" ELSE "back"
         IN  /\ f \in Seq(Calls) /\ Len(f) = Len(s) - 1
             /\ \A i \in 1..Len(f) : f[i] = s[i]
             /\ \A c \in Calls : Held(f, q, c) <=> Held(s, p, c) /\ c # Last(s)
             /\ NoneTwice(f, q)
<1> DEFINE f == Front(s)
           q == IF Len(s) = 1 THEN "wait" ELSE "back"
<1>1. /\ Len(s) \in Nat \ {0} /\ DOMAIN s = 1..Len(s)
      /\ \A i \in 1..Len(s) - 1 : s[i] \in Calls
  BY LenProperties, EmptySeq, ElementOfSeq
<1>2. /\ f \in Seq(Calls) /\ Len(f) = Len(s) - 1 /\ DOMAIN f = 1..Len(s) - 1
      /\ \A i \in 1..Len(s) - 1 : f[i] = s[i]
  <2>1. /\ f \in Seq(Calls) /\ Len(f) = Len(s) - 1 /\ \A i \in 1..Len(s) - 1 : f[i] = s[i]
    BY <1>1 DEF Front
  <2> QED
    BY <2>1, LenProperties
<1> HIDE DEF f
<1>3. \A c \in Calls : Held(f, q, c) <=> Held(s, p, c) /\ c # Last(s)
  BY <1>1, <1>2 DEF Held, Last, NoneTwice
<1>4. NoneTwice(f, q)
  BY <1>1, <1>2 DEF NoneTwice
<1> QED
  BY <1>2, <1>3, <1>4 DEF f

(* The top takes its mutex, which the chain does not hold yet. *)
LEMMA Acquiring ==
  ASSUME NEW s \in Seq(Calls), s # <<>>, NoneTwice(s, "wait"), ~Held(s, "wait", Last(s))
  PROVE  /\ \A c \in Calls : Held(s, "run", c) <=> Held(s, "wait", c) \/ c = Last(s)
         /\ NoneTwice(s, "run")
         /\ Last(s) \in Calls
<1>1. Len(s) \in Nat \ {0} /\ DOMAIN s = 1..Len(s) /\ Last(s) \in Calls
  BY LenProperties, EmptySeq, ElementOfSeq DEF Last
<1> QED
  BY <1>1 DEF Held, NoneTwice, Last

-----------------------------------------------------------------------------
LEMMA InitIInv == Init => IInv
<1> SUFFICES ASSUME Init PROVE IInv
  OBVIOUS
<1>1. Types
  <2>1. <<>> \in Seq(Calls)
    BY EmptySeq
  <2> QED
    BY <2>1 DEF Init, Types
<1>2. Ownership
  BY FreeAssumption DEF Init, Ownership, Held
<1> QED
  BY <1>1, <1>2 DEF Init, IInv, NoneTwice, PlainChain

(* What a step of thread t has to show. *)
LEMMA StepKeeps ==
  ASSUME IInv, NEW t \in Threads, Types',
         \A u \in Threads \ {t} : stack'[u] = stack[u] /\ phase'[u] = phase[u],
         \A u \in Threads \ {t}, c \in Calls : owner'[c] = u <=> owner[c] = u,
         \A c \in Calls : owner'[c] = t <=> Held(stack'[t], phase'[t], c),
         NoneTwice(stack'[t], phase'[t]),
         ~failed' => ~failed /\ PlainChain(stack'[t]),
         in_publish' => \E v \in Threads : Guards(v)'
  PROVE  IInv'
<1>1. Ownership'
  BY DEF IInv, Ownership
<1>2. (\A u \in Threads : NoneTwice(stack[u], phase[u]))'
  BY DEF IInv
<1>3. (~failed => \A u \in Threads : PlainChain(stack[u]))'
  BY DEF IInv
<1> QED
  BY <1>1, <1>2, <1>3 DEF IInv

(* Thread t makes a call. *)
LEMMA EnterKeeps ==
  ASSUME IInv, NEW t \in Threads, NEW call \in Calls,
         stack[t] = <<>> \/ phase[t] # "wait", Enter(t, call),
         UNCHANGED <<attached, owner>>, failed' \in BOOLEAN, in_publish' \in BOOLEAN,
         ~failed' => ~failed /\ (stack[t] = <<>> \/ (Last(stack[t]) = "log" /\ call = "publish")),
         in_publish' => in_publish \/ (owner["log"] = t /\ call = "publish")
  PROVE  IInv'
<1> DEFINE s == stack[t]
           e == Append(s, call)
<1>1. s \in Seq(Calls) /\ NoneTwice(s, phase[t])
  BY DEF IInv, Types
<1>2. /\ e \in Seq(Calls) /\ e # <<>> /\ Last(e) = call
      /\ \A c \in Calls : Held(e, "wait", c) <=> Held(s, phase[t], c)
      /\ NoneTwice(e, "wait")
  BY <1>1, Entering
<1>3. /\ stack'[t] = e /\ phase'[t] = "wait"
      /\ \A u \in Threads \ {t} : stack'[u] = stack[u] /\ phase'[u] = phase[u]
  BY DEF Enter, IInv, Types
<1>4. Types'
  BY <1>2 DEF Enter, IInv, Types
<1>5. \A c \in Calls : owner'[c] = t <=> Held(stack'[t], phase'[t], c)
  BY <1>2, <1>3 DEF IInv, Ownership
<1>6. ~failed' => ~failed /\ PlainChain(e)
  <2> SUFFICES ASSUME ~failed' PROVE PlainChain(e)
    OBVIOUS
  <2>1. PlainChain(s)
    BY DEF IInv
  <2>2. /\ Len(s) \in Nat /\ DOMAIN s = 1..Len(s) /\ DOMAIN e = 1..Len(s) + 1 /\ Len(e) = Len(s) + 1
        /\ \A i \in 1..Len(s) : e[i] = s[i]
        /\ e[Len(s) + 1] = call
    BY <1>1, AppendProperties, LenProperties
  <2>3. CASE s = <<>>
    BY <2>2, <2>3 DEF PlainChain
  <2>4. CASE s[Len(s)] = "log" /\ call = "publish"
    <3> HIDE DEF e, s
    <3> QED
      BY <2>1, <2>2, <2>4 DEF PlainChain
  <2> QED
    BY <2>3, <2>4 DEF Last
<1>7. ASSUME in_publish' PROVE \E v \in Threads : Guards(v)'
  <2>1. ~Inside(t, "log", "run")'
    BY <1>3 DEF Inside
  <2>2. CASE in_publish
    <3>1. PICK v \in Threads : Guards(v)
      BY <2>2 DEF IInv
    <3>2. Guards(v)'
      BY <1>3, <2>1, <3>1 DEF Guards, Inside, Top
    <3> QED
      BY <3>2
  <2>3. CASE owner["log"] = t
    BY <2>1, <2>3 DEF Guards
  <2> QED
    BY <1>7, <2>2, <2>3
<1> HIDE DEF e, s
<1> QED
  BY <1>2, <1>3, <1>4, <1>5, <1>6, <1>7, StepKeeps

(* A call of thread t returns. *)
LEMMA ReturnKeeps ==
  ASSUME IInv, NEW t \in Threads, stack[t] # <<>>, phase[t] # "wait", Return(t),
         UNCHANGED attached, in_publish' \in BOOLEAN, failed' \in BOOLEAN, ~failed' => ~failed,
         in_publish' => in_publish /\ (Top(t) = "log" => phase[t] = "run")
  PROVE  IInv'
<1> DEFINE s == stack[t]
           f == Front(s)
           q == IF Len(s) = 1 THEN "wait" ELSE "back"
<1>1. s \in Seq(Calls) /\ s # <<>> /\ NoneTwice(s, phase[t]) /\ Top(t) = Last(s)
  BY DEF IInv, Types, Top
<1>2. /\ f \in Seq(Calls) /\ Len(f) = Len(s) - 1
      /\ \A i \in 1..Len(f) : f[i] = s[i]
      /\ \A c \in Calls : Held(f, q, c) <=> Held(s, phase[t], c) /\ c # Last(s)
      /\ NoneTwice(f, q)
  BY <1>1, Returning
<1>3. /\ Len(s) \in Nat \ {0} /\ DOMAIN s = 1..Len(s) /\ DOMAIN f = 1..Len(s) - 1 /\ Last(s) \in Calls
  BY <1>1, <1>2, LenProperties, EmptySeq, ElementOfSeq DEF Last
<1>4. /\ stack'[t] = f /\ phase'[t] = q
      /\ \A u \in Threads \ {t} : stack'[u] = stack[u] /\ phase'[u] = phase[u]
      /\ owner' = [owner EXCEPT ![Last(s)] = None]
  BY <1>1 DEF Return, IInv, Types
<1>5. Types'
  BY <1>2, <1>3, <1>4 DEF Return, IInv, Types
<1>6. owner[Last(s)] = t
  <2>1. Held(s, phase[t], Last(s))
    BY <1>3 DEF Held, Last
  <2> QED
    BY <1>3, <2>1 DEF IInv, Ownership
<1>7. /\ \A c \in Calls : owner'[c] = t <=> Held(stack'[t], phase'[t], c)
      /\ \A u \in Threads \ {t}, c \in Calls : owner'[c] = u <=> owner[c] = u
  <2>1. \A c \in Calls : owner'[c] = IF c = Last(s) THEN None ELSE owner[c]
    BY <1>3, <1>4 DEF IInv, Types
  <2>2. \A c \in Calls : owner[c] = t <=> Held(s, phase[t], c)
    BY DEF IInv, Ownership
  <2> QED
    BY <1>2, <1>4, <1>6, <2>1, <2>2, FreeAssumption
<1>8. ~failed' => ~failed /\ PlainChain(f)
  <2> SUFFICES ASSUME ~failed' PROVE PlainChain(f)
    OBVIOUS
  <2>1. PlainChain(s)
    BY DEF IInv
  <2> HIDE DEF f, s
  <2> QED
    BY <1>2, <1>3, <2>1 DEF PlainChain
<1>9. ASSUME in_publish' PROVE \E v \in Threads : Guards(v)'
  <2>1. PICK v \in Threads : Guards(v)
    BY <1>9 DEF IInv
  <2>2. Last(s) # "log"
    <3> SUFFICES ASSUME Last(s) = "log" PROVE FALSE
      OBVIOUS
    <3>1. v = t /\ phase[t] = "run"
      BY <1>1, <1>6, <1>9, <2>1 DEF Guards
    <3> QED
      BY <1>1, <2>1, <3>1 DEF Guards, Inside
  <2>3. owner'["log"] = v
    BY <1>4, <2>1, <2>2 DEF Guards, IInv, Types, Calls
  <2>4. ~Inside(v, "log", "run")'
    BY <1>4, <2>1 DEF Guards, Inside, Top
  <2> QED
    BY <2>3, <2>4 DEF Guards
<1> HIDE DEF f, s, q
<1> QED
  BY <1>2, <1>4, <1>5, <1>7, <1>8, <1>9, StepKeeps

(* Thread t takes the mutex of its top call. *)
LEMMA AcquireKeeps ==
  ASSUME IInv, NEW t \in Threads, Acquire(t)
  PROVE  IInv'
<1> DEFINE s == stack[t]
<1>1. s \in Seq(Calls) /\ s # <<>> /\ NoneTwice(s, "wait") /\ Top(t) = Last(s) /\ phase[t] = "wait"
  BY DEF Acquire, IInv, Types, Top
<1>2. Last(s) \in Calls
  BY <1>1, LenProperties, EmptySeq, ElementOfSeq DEF Last
<1>3. ~Held(s, "wait", Last(s)) /\ owner[Last(s)] = None
  BY <1>1, <1>2, FreeAssumption DEF Acquire, IInv, Ownership
<1>4. /\ \A c \in Calls : Held(s, "run", c) <=> Held(s, "wait", c) \/ c = Last(s)
      /\ NoneTwice(s, "run")
  BY <1>1, <1>3, Acquiring
<1>5. /\ stack' = stack /\ phase'[t] = "run"
      /\ \A u \in Threads \ {t} : phase'[u] = phase[u]
      /\ \A c \in Calls : owner'[c] = IF c = Last(s) THEN t ELSE owner[c]
  BY <1>1, <1>2 DEF Acquire, IInv, Types
<1>6. Types'
  BY <1>1, <1>2 DEF Acquire, IInv, Types
<1>7. /\ \A c \in Calls : owner'[c] = t <=> Held(stack'[t], phase'[t], c)
      /\ \A u \in Threads \ {t}, c \in Calls : owner'[c] = u <=> owner[c] = u
  <2>1. \A c \in Calls : owner[c] = t <=> Held(s, "wait", c)
    BY <1>1 DEF IInv, Ownership
  <2> QED
    BY <1>3, <1>4, <1>5, <2>1, FreeAssumption
<1>8. ~failed' => ~failed /\ PlainChain(stack'[t])
  BY <1>5 DEF Acquire, IInv
<1>9. ASSUME in_publish' PROVE \E v \in Threads : Guards(v)'
  <2>1. PICK v \in Threads : Guards(v)
    BY <1>9 DEF Acquire, IInv
  <2>2. Last(s) # "log"
    BY <1>3, <2>1, FreeAssumption DEF Guards
  <2>3. owner'["log"] = v
    BY <1>5, <2>1, <2>2 DEF Guards, Calls
  <2>4. ~Inside(v, "log", "run")'
    BY <1>1, <1>5, <2>1, <2>2 DEF Guards, Inside, Top
  <2> QED
    BY <2>3, <2>4 DEF Guards
<1>10. NoneTwice(stack'[t], phase'[t])
  BY <1>4, <1>5
<1> HIDE DEF s
<1> QED
  BY <1>5, <1>6, <1>7, <1>8, <1>9, <1>10, StepKeeps

(* The other steps are calls and returns. *)
LEMMA OtherSteps ==
  ASSUME IInv, NEW t \in Threads,
         CallLog(t) \/ CallPublish(t) \/ SinkIt(t) \/ PublishOk(t) \/ PublishFails(t) \/ Resume(t)
  PROVE  IInv'
<1>1. stack[t] \in Seq(Calls) /\ Types
  BY DEF IInv, Types
<1>2. CASE CallLog(t)
  <2>1. /\ Enter(t, "log") /\ stack[t] = <<>> /\ "log" \in Calls
        /\ UNCHANGED <<attached, in_publish, owner, failed>>
    BY <1>2 DEF CallLog, Calls
  <2>2. /\ failed' \in BOOLEAN /\ in_publish' \in BOOLEAN
        /\ ~failed' => ~failed
        /\ in_publish' => in_publish
    BY <1>1, <2>1 DEF Types
  <2> QED
    BY <2>1, <2>2, EnterKeeps
<1>3. CASE CallPublish(t)
  BY <1>1, <1>3, EnterKeeps DEF CallPublish, Calls, Types
<1>4. ASSUME NEW c \in Calls, Inside(t, c, "run") PROVE owner[c] = t /\ stack[t] # <<>>
  <2>1. Len(stack[t]) \in Nat \ {0} /\ DOMAIN stack[t] = 1..Len(stack[t]) /\ stack[t][Len(stack[t])] = c
    BY <1>1, <1>4, LenProperties, EmptySeq DEF Inside, Top, Last
  <2>2. Held(stack[t], phase[t], c)
    BY <1>4, <2>1 DEF Held, Inside
  <2> QED
    BY <1>4, <2>2 DEF IInv, Ownership, Inside
<1>5. CASE SinkIt(t)
  <2>1. Inside(t, "log", "run") /\ owner["log"] = t /\ UNCHANGED <<attached, failed>>
    BY <1>4, <1>5 DEF SinkIt, Calls
  <2>2. CASE Enter(t, "publish") /\ in_publish' = TRUE /\ UNCHANGED owner
    BY <1>1, <2>1, <2>2, EnterKeeps DEF Inside, Top, Calls, Types
  <2>3. CASE Return(t) /\ UNCHANGED in_publish
    BY <1>1, <2>1, <2>3, ReturnKeeps DEF Inside, Types
  <2> QED
    BY <1>5, <2>2, <2>3 DEF SinkIt
<1>6. CASE PublishOk(t)
  BY <1>1, <1>6, ReturnKeeps DEF PublishOk, Inside, Types
<1>7. CASE PublishFails(t)
  <2>1. CASE attached
    <3>1. /\ Enter(t, "log") /\ "log" \in Calls /\ phase[t] # "wait"
          /\ UNCHANGED <<attached, in_publish, owner>> /\ failed' = TRUE
      BY <1>7, <2>1 DEF PublishFails, Inside, Calls
    <3>2. failed' \in BOOLEAN /\ in_publish' \in BOOLEAN /\ (in_publish' => in_publish)
      BY <1>1, <3>1 DEF Types
    <3> QED
      BY <3>1, <3>2, EnterKeeps
  <2>2. CASE ~attached
    BY <1>1, <1>7, <2>2, ReturnKeeps DEF PublishFails, Inside, Types
  <2> QED
    BY <2>1, <2>2
<1>8. CASE Resume(t)
  BY <1>1, <1>8, ReturnKeeps DEF Resume, Types
<1> QED
  BY <1>2, <1>3, <1>5, <1>6, <1>7, <1>8

LEMMA Invariant == Spec => []IInv
<1>1. IInv /\ [Next]_vars => IInv'
  <2> SUFFICES ASSUME IInv, [Next]_vars PROVE IInv'
    OBVIOUS
  <2>1. CASE Attach \/ UNCHANGED vars
    <3>1. attached' \in BOOLEAN /\ UNCHANGED <<in_publish, owner, stack, phase, failed>>
      BY <2>1 DEF Attach, vars, IInv, Types
    <3>2. Types' /\ Ownership'
      BY <3>1 DEF IInv, Types, Ownership
    <3>3. (in_publish => \E t \in Threads : Guards(t))'
      BY <3>1 DEF IInv, Guards, Inside, Top
    <3> QED
      BY <3>1, <3>2, <3>3 DEF IInv
  <2>2. CASE \E t \in Threads : CallLog(t) \/ CallPublish(t) \/ Step(t)
    BY <2>2, AcquireKeeps, OtherSteps DEF Step
  <2> QED
    BY <2>1, <2>2 DEF Next
<1> QED
  BY <1>1, InitIInv, PTL DEF Spec

-----------------------------------------------------------------------------
(* Types, and each mutex is held by the thread that is inside its critical *)
(* section (MqttLogSink.hpp:47-66, MQTTClient.cpp:137), however deep the   *)
(* calls nest.                                                             *)
THEOREM MutexesOwned == Spec => []TypeOK
<1>1. IInv => TypeOK
  BY DEF IInv, Types, Ownership, Held, TypeOK
<1> QED
  BY <1>1, Invariant, PTL

(* Two threads never wait for one another, nor one for itself, until a     *)
(* publish fails: whoever holds pub_mutex_ (MQTTClient.cpp:137) waits for  *)
(* nothing.                                                                *)
THEOREM DeadlockFree == Spec => []NoDeadlock
<1>1. IInv => NoDeadlock
  <2> SUFFICES ASSUME IInv, ~failed, NEW t \in Threads, NEW u \in Threads,
                      WaitsFor(t, u), WaitsFor(u, t)
               PROVE  FALSE
    BY DEF NoDeadlock
  <2>1. ASSUME NEW v \in Threads, NEW w \in Threads, WaitsFor(v, w), phase[w] = "wait"
        PROVE  /\ Top(v) = "log"
               /\ Len(stack[w]) > 1
    <3>1. /\ Len(stack[v]) \in Nat \ {0} /\ DOMAIN stack[v] = 1..Len(stack[v]) /\ Top(v) \in Calls
          /\ Len(stack[w]) \in Nat /\ DOMAIN stack[w] = 1..Len(stack[w])
      BY <2>1, LenProperties, EmptySeq, ElementOfSeq DEF WaitsFor, IInv, Types, Top, Last
    <3>2. Held(stack[w], phase[w], Top(v))
      BY <2>1, <3>1 DEF WaitsFor, IInv, Ownership
    <3>3. PICK i \in DOMAIN stack[w] : stack[w][i] = Top(v) /\ i < Len(stack[w])
      BY <2>1, <3>2 DEF Held
    <3> QED
      BY <3>1, <3>3 DEF IInv, PlainChain
  <2>2. Top(t) = "log" /\ Len(stack[t]) > 1
    BY <2>1 DEF WaitsFor
  <2>3. /\ Len(stack[t]) \in Nat /\ DOMAIN stack[t] = 1..Len(stack[t])
        /\ PlainChain(stack[t])
    BY LenProperties DEF IInv, Types
  <2> QED
    BY <2>2, <2>3 DEF PlainChain, Top, Last
<1> QED
  BY <1>1, Invariant, PTL

(* The recursion guard (MqttLogSink.hpp:49-65) is never left set without a *)
(* thread inside the sink, failing publishes included.                     *)
THEOREM GuardScoped == Spec => []GuardIsScoped
<1>1. IInv => GuardIsScoped
  BY FreeAssumption DEF IInv, Guards, GuardIsScoped
<1> QED
  BY <1>1, Invariant, PTL
=============================================================================
