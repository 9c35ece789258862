--------------------------- MODULE SchedulerProofs ---------------------------
(***************************************************************************)
(* What holds of Scheduler.tla for every number of workers, every queue    *)
(* size and every timing of the threads: the types, the conservation of    *)
(* the tokens of queue_sem, the soundness of the list, and the bound on    *)
(* its length.  The inductive invariant IInv is in Scheduler.tla.          *)
(***************************************************************************)
EXTENDS Scheduler, FiniteSetTheorems, SequenceTheorems, TLAPS

\* list_remove takes the one occurrence of w out and keeps the other elements,
\* each still once (list.c:61-83).
LEMMA ListRemove ==
  ASSUME NEW S, NEW q \in Seq(S), NEW w,
         \A k, l \in DOMAIN q : q[k] = q[l] => k = l
  PROVE  LET r == list_remove(q, w) IN
           /\ r \in Seq(S)
           /\ \A k \in DOMAIN r : r[k] # w /\ \E l \in DOMAIN q : r[k] = q[l]
           /\ \A l \in DOMAIN q : q[l] # w => \E k \in DOMAIN r : r[k] = q[l]
           /\ \A k, l \in DOMAIN r : r[k] = r[l] => k = l
<1> DEFINE r == list_remove(q, w)
<1>1. CASE w \notin ToSet(q)
  BY <1>1 DEF list_remove, ToSet
<1>2. CASE w \in ToSet(q)
  <2> DEFINE n == CHOOSE k \in DOMAIN q : q[k] = w
             a == SubSeq(q, 1, n - 1)
             b == SubSeq(q, n + 1, Len(q))
  <2>1. r = a \o b
    BY <1>2 DEF list_remove, RemoveAt
  <2>2. DOMAIN q = 1..Len(q) /\ Len(q) \in Nat /\ \A k \in 1..Len(q) : q[k] \in S
    BY LenProperties, ElementOfSeq
  <2>3. \E k \in DOMAIN q : q[k] = w
    BY <1>2 DEF ToSet
  <2>4. n \in 1..Len(q) /\ q[n] = w
    BY <2>2, <2>3
  <2> HIDE DEF n
  <2>5. /\ a \in Seq(S) /\ Len(a) = n - 1
        /\ \A k \in 1..n - 1 : a[k] = q[k]
    <3>1. \A k \in 1..n - 1 : q[k] \in S
      BY <2>2, <2>4
    <3>2. 1 \in Int /\ n - 1 \in Int
      BY <2>2, <2>4
    <3>3. /\ a \in Seq(S)
          /\ Len(a) = IF 1 <= n - 1 THEN n - 1 - 1 + 1 ELSE 0
          /\ \A k \in 1..n - 1 - 1 + 1 : a[k] = q[1 + k - 1]
      BY <3>1, <3>2, SubSeqProperties
    <3> QED BY <3>3, <2>4, <2>2
  <2>6. /\ b \in Seq(S) /\ Len(b) = Len(q) - n
        /\ \A k \in 1..Len(q) - n : b[k] = q[n + k]
    <3>1. \A k \in n + 1..Len(q) : q[k] \in S
      BY <2>2, <2>4
    <3>2. n + 1 \in Int /\ Len(q) \in Int
      BY <2>2, <2>4
    <3>3. /\ b \in Seq(S)
          /\ Len(b) = IF n + 1 <= Len(q) THEN Len(q) - (n + 1) + 1 ELSE 0
          /\ \A k \in 1..Len(q) - (n + 1) + 1 : b[k] = q[n + 1 + k - 1]
      BY <3>1, <3>2, SubSeqProperties
    <3> QED BY <3>3, <2>4, <2>2
  <2> HIDE DEF a, b, r
  <2>7. /\ r \in Seq(S) /\ Len(r) = Len(q) - 1
        /\ \A k \in 1..Len(q) - 1 : r[k] = IF k <= n - 1 THEN q[k] ELSE q[k + 1]
    <3>1. /\ r \in Seq(S) /\ Len(r) = Len(a) + Len(b)
          /\ \A k \in 1..Len(a) + Len(b) :
               r[k] = IF k <= Len(a) THEN a[k] ELSE b[k - Len(a)]
      <4>1. a \in Seq(S) /\ b \in Seq(S)
        BY <2>5, <2>6
      <4> QED BY ONLY <2>1, <4>1, ConcatProperties
    <3>2. Len(a) + Len(b) = Len(q) - 1
      BY <2>2, <2>4, <2>5, <2>6
    <3>3. ASSUME NEW k \in 1..Len(q) - 1
          PROVE  r[k] = IF k <= n - 1 THEN q[k] ELSE q[k + 1]
      <4>1. CASE k <= n - 1
        BY <4>1, <3>1, <3>2, <2>2, <2>4, <2>5
      <4>2. CASE ~(k <= n - 1)
        <5>1. r[k] = b[k - (n - 1)] /\ k - (n - 1) \in 1..Len(q) - n
          BY <4>2, <3>1, <3>2, <2>2, <2>4, <2>5
        <5>2. b[k - (n - 1)] = q[n + (k - (n - 1))] /\ n + (k - (n - 1)) = k + 1
          BY <5>1, <2>2, <2>4, <2>6
        <5> QED BY <4>2, <5>1, <5>2
      <4> QED BY <4>1, <4>2
    <3> QED BY <3>1, <3>2, <3>3
  <2>8. DOMAIN r = 1..Len(q) - 1
    BY <2>7, LenProperties
  <2>9. ASSUME NEW k \in DOMAIN r
        PROVE  r[k] # w /\ \E l \in DOMAIN q : r[k] = q[l]
    <3> DEFINE l == IF k <= n - 1 THEN k ELSE k + 1
    <3>1. l \in 1..Len(q) /\ l # n /\ r[k] = q[l]
      BY <2>2, <2>4, <2>7, <2>8
    <3> HIDE DEF l
    <3>2. q[l] # w
      BY <3>1, <2>2, <2>4
    <3> QED BY <3>1, <3>2, <2>2
  <2>10. ASSUME NEW k \in DOMAIN r, NEW l \in DOMAIN r, r[k] = r[l]
         PROVE  k = l
    <3> DEFINE at(j) == IF j <= n - 1 THEN j ELSE j + 1
    <3>1. at(k) \in DOMAIN q /\ at(l) \in DOMAIN q /\ q[at(k)] = q[at(l)]
      BY <2>2, <2>4, <2>7, <2>8, <2>10
    <3>2. at(k) = at(l)
      BY <3>1
    <3> QED BY <3>2, <2>2, <2>4, <2>8
  <2>11. ASSUME NEW l \in DOMAIN q, q[l] # w
         PROVE  \E k \in DOMAIN r : r[k] = q[l]
    <3> DEFINE k == IF l <= n - 1 THEN l ELSE l - 1
    <3>1. l # n
      BY <2>4, <2>11
    <3>2. k \in DOMAIN r /\ r[k] = q[l]
      BY <2>2, <2>4, <2>7, <2>8, <3>1
    <3> QED BY <3>2
  <2> QED BY <2>7, <2>9, <2>10, <2>11 DEF r
<1> QED BY <1>1, <1>2

\* What a walk from the head meets after a second insertion is a beginning of
\* the list as it was (list.c:41-59).
LEMMA ListPrefix ==
  ASSUME NEW S, NEW q \in Seq(S), NEW n \in DOMAIN q
  PROVE  LET r == SubSeq(q, 1, n) IN
           /\ r \in Seq(S) /\ DOMAIN r = 1..n /\ 1..n \subseteq DOMAIN q
           /\ \A k \in 1..n : r[k] = q[k]
<1> DEFINE r == SubSeq(q, 1, n)
<1>1. /\ DOMAIN q = 1..Len(q) /\ Len(q) \in Nat /\ n \in 1..Len(q)
      /\ \A k \in 1..Len(q) : q[k] \in S
  BY LenProperties, ElementOfSeq
<1>2. 1 \in Int /\ n \in Int /\ 1 <= n /\ \A k \in 1..n : q[k] \in S
  BY <1>1
<1>3. /\ r \in Seq(S)
      /\ Len(r) = IF 1 <= n THEN n - 1 + 1 ELSE 0
      /\ \A k \in 1..n - 1 + 1 : r[k] = q[1 + k - 1]
  BY <1>2, SubSeqProperties
<1>4. DOMAIN r = 1..Len(r)
  BY <1>3, LenProperties
<1> HIDE DEF r
<1>5. DOMAIN r = 1..n /\ \A k \in 1..n : r[k] = q[k]
  BY <1>2, <1>3, <1>4
<1> QED BY <1>1, <1>3, <1>5 DEF r

USE DEF Workers, Main, Sched, Threads, Null, mainVars, clockVars, globalVars,
        queueVars, workerVars, heapVars, hndVars, handlerFrame, Entered, HndSteps

-----------------------------------------------------------------------------
(* Types                                                                   *)

\* ChargeQuantum and update_wait_time turn a thread_info_t into another.
LEMMA InfoType ==
  ASSUME NEW in \in ThreadInfo, now \in Nat
  PROVE  /\ [update_run_time(in) EXCEPT !.quanta = @ - 1] \in ThreadInfo
         /\ update_wait_time(in) \in ThreadInfo
<1>1. /\ in.quanta \in Int /\ in.run_time \in Int /\ in.wait_time \in Int
      /\ in.suspend_time \in Int /\ in.resume_time \in Int /\ now \in Int
  BY DEF ThreadInfo
<1>2. update_run_time(in) \in ThreadInfo
  <2> DEFINE x == [in EXCEPT !.suspend_time = now]
             n == in.run_time + now - in.resume_time
  <2>1. x \in ThreadInfo /\ n \in Int
    BY <1>1 DEF ThreadInfo
  <2>2. [x EXCEPT !.run_time = n] \in ThreadInfo
    <3> HIDE DEF x, n
    <3> QED BY <2>1 DEF ThreadInfo
  <2>3. update_run_time(in) = [x EXCEPT !.run_time = n]
    BY DEF update_run_time, ThreadInfo
  <2> QED BY <2>2, <2>3
<1>3. update_wait_time(in) \in ThreadInfo
  <2> DEFINE x == [in EXCEPT !.resume_time = now]
             n == in.wait_time + now - in.suspend_time
  <2>1. x \in ThreadInfo /\ n \in Int
    BY <1>1 DEF ThreadInfo
  <2>2. [x EXCEPT !.wait_time = n] \in ThreadInfo
    <3> HIDE DEF x, n
    <3> QED BY <2>1 DEF ThreadInfo
  <2>3. update_wait_time(in) = [x EXCEPT !.wait_time = n]
    BY DEF update_wait_time, ThreadInfo
  <2> QED BY <2>2, <2>3
<1>4. [update_run_time(in) EXCEPT !.quanta = @ - 1] \in ThreadInfo
  BY <1>2 DEF ThreadInfo
<1> QED BY <1>3, <1>4

LEMMA NewInfoType ==
  ASSUME NEW q \in Int, NEW g \in Int
  PROVE  NewInfo(q, g) \in ThreadInfo
BY DEF ThreadInfo, NewInfo

\* Every step keeps the variables within their types; ListSound is used only to
\* know what list_remove returns.
LEMMA TypeStep == IInv /\ [Next]_vars => TypeOK'
<1> SUFFICES ASSUME IInv, [Next]_vars PROVE TypeOK'
  OBVIOUS
<1>0. TypeOK /\ ListSound /\ ConstantsAssumption
  BY ConstantsAssumption DEF IInv
<1> USE DEF TypeOK
<1>1. CASE UNCHANGED vars
  BY <1>0, <1>1 DEF vars
<1>2. CASE Undefined
  BY <1>0, <1>2 DEF Undefined
<1>3. CASE CreateWorker
  BY <1>0, <1>3, NewInfoType DEF CreateWorker, ConstantsAssumption
<1>4. CASE CreateFails
  BY <1>0, <1>4 DEF CreateFails
<1>5. CASE StampTimes
  <2>1. i \in Workers /\ info[i] \in ThreadInfo
    BY <1>0, <1>5 DEF StampTimes, ConstantsAssumption
  <2>2. Started(info[i]) \in ThreadInfo
    BY <1>0, <2>1 DEF Started, ThreadInfo
  <2>3. CASE i \in freed
    BY <1>0, <1>2, <1>5, <2>3 DEF StampTimes
  <2>4. CASE i \notin freed
    <3>1. info' = [info EXCEPT ![i] = Started(info[i])]
      BY <1>5, <2>4 DEF StampTimes
    <3>2. info' \in [Workers -> ThreadInfo]
      BY <1>0, <2>2, <3>1
    <3> QED BY <1>0, <1>5, <2>4, <3>2 DEF StampTimes
  <2> QED BY <2>3, <2>4
<1>6. CASE AllCreated
  BY <1>0, <1>6 DEF AllCreated
<1>7. CASE JoinAndCleanUp
  BY <1>0, <1>7 DEF JoinAndCleanUp
<1>8. CASE StartTimer
  BY <1>0, <1>8 DEF StartTimer
<1>9. CASE SchedReturns
  BY <1>0, <1>9 DEF SchedReturns
<1>10. CASE Tick
  BY <1>0, <1>10 DEF Tick
<1>11. ASSUME NEW w \in Workers, Worker(w) PROVE TypeOK'
  <2>0. UNCHANGED <<mainVars, clockVars, globalVars, heapVars, hndVars, quanta>>
    BY <1>11 DEF Worker
  <2>1. CASE BlockSignals(w)
    BY <1>0, <2>0, <2>1 DEF BlockSignals
  <2>2. CASE AcquireToken(w)
    BY <1>0, <2>0, <2>2 DEF AcquireToken
  <2>3. CASE EnterQueue(w)
    BY <1>0, <2>0, <2>3 DEF EnterQueue, list_insert_tail
  <2>4. CASE Announce(w)
    BY <1>0, <2>0, <2>4 DEF Announce
  <2>5. CASE FirstResume(w)
    BY <1>0, <2>0, <2>5 DEF FirstResume
  <2>6. CASE Suspend(w)
    BY <1>0, <2>0, <2>6 DEF Suspend
  <2>7. CASE Resume(w)
    BY <1>0, <2>0, <2>7 DEF Resume
  <2>8. CASE cancel_thread(w)
    BY <1>0, <2>0, <2>8 DEF cancel_thread
  <2> QED BY <1>11, <2>1, <2>2, <2>3, <2>4, <2>5, <2>6, <2>7, <2>8 DEF Worker
<1>12. ASSUME NEW t \in Threads, TakeAlarm(t) PROVE TypeOK'
  BY <1>0, <1>12 DEF TakeAlarm, Goto
<1>13. ASSUME NEW t \in Threads, timer_handler(t) PROVE TypeOK'
  <2>1. CASE Check(t)
    <3>1. \E step \in {"idle", "suspend"} : Goto(t, step, Null)
      BY <2>1 DEF Check
    <3>2. hnd' \in [Threads -> HndSteps] /\ harg' \in [Threads -> Workers \cup {Null}]
      BY <1>0, <3>1 DEF Goto, HndSteps
    <3>3. \A u \in Threads : hnd'[u] \in {"out", "in", "leave", "resume"} => harg'[u] \in Workers
      BY <1>0, <3>1 DEF Goto
    <3>4. quit' \in BOOLEAN
      BY <1>0, <2>1 DEF Check
    <3>5. UNCHANGED <<handlerFrame, alarm, currentThread, completed, run_times,
                      wait_times, sched_queue, sig, heapVars>>
      BY <2>1 DEF Check
    <3> QED BY <1>0, <3>2, <3>3, <3>4, <3>5
  <2>2. CASE NobodyToSuspend(t)
    BY <1>0, <2>2 DEF NobodyToSuspend, Goto
  <2>3. CASE suspend_worker(t)
    BY <1>0, <2>3, InfoType DEF suspend_worker, Goto, ChargeQuantum, pthread_kill
  <2>4. CASE cancel_worker(t)
    <3> DEFINE c == ChargeQuantum(currentThread)
    <3>1. currentThread \in Workers
      BY <1>0, <2>4 DEF cancel_worker
    <3>2. c \in ThreadInfo
      BY <1>0, <3>1, InfoType DEF ChargeQuantum
    <3>3. c.wait_time \in Int /\ c.run_time \in Int
      BY <3>2 DEF ThreadInfo
    <3>4. info' = [info EXCEPT ![currentThread] = c]
      BY <2>4 DEF cancel_worker
    <3> HIDE DEF c
    <3>5. info' \in [Workers -> ThreadInfo] /\ info'[currentThread] = c
      BY <1>0, <3>1, <3>2, <3>4
    <3>6. wait_times' \in Int /\ run_times' \in Int /\ completed' \in Nat
      BY SMTT(30), <1>0, <2>4, <3>3, <3>5 DEF cancel_worker
    <3> QED BY <1>0, <2>4, <3>1, <3>5, <3>6 DEF cancel_worker, Goto, pthread_kill
  <2>5. CASE RotateOut(t)
    BY <1>0, <2>5, ListRemove DEF RotateOut, Goto, ListSound
  <2>6. CASE RotateIn(t)
    BY <1>0, <2>6 DEF RotateIn, Goto, list_insert_tail
  <2>7. CASE leave_scheduler_queue(t)
    <3>1. sched_queue' \in Seq(Workers)
      BY <1>0, <2>7, ListRemove DEF leave_scheduler_queue, ListSound
    <3>2. /\ harg[t] \in Workers /\ freed' = freed \cup {harg[t]}
          /\ hnd' = [hnd EXCEPT ![t] = "next"]
          /\ harg' = [harg EXCEPT ![t] = Null]
          /\ UNCHANGED <<handlerFrame, alarm, globalVars, sig, info>>
      BY <1>0, <2>7 DEF leave_scheduler_queue, Goto
    <3> QED BY <1>0, <3>1, <3>2
  <2>8. CASE AllCompleted(t)
    BY <1>0, <2>8 DEF AllCompleted, Goto
  <2>9. CASE wait_for_queue(t)
    BY <1>0, <2>9 DEF wait_for_queue, Goto
  <2>10. CASE SpinEnds(t)
    BY <1>0, <2>10 DEF SpinEnds, Goto
  <2>11. CASE ~Faulty(t) /\ PickHead(t)
    BY SMTT(30), <1>0, <2>11 DEF PickHead, Goto, Faulty
  <2>12. CASE resume_worker(t)
    BY <1>0, <2>12, InfoType DEF resume_worker, Goto, pthread_kill
  <2>13. CASE RotateInAgain(t)
    <3>1. PICK k \in DOMAIN sched_queue : sched_queue' = SubSeq(sched_queue, 1, k)
      BY <2>13 DEF RotateInAgain
    <3>2. sched_queue' \in Seq(Workers)
      BY <1>0, <3>1, ListPrefix
    <3> QED BY <1>0, <2>13, <3>2 DEF RotateInAgain, Goto
  <2> QED BY <1>2, <1>13, <2>1, <2>2, <2>3, <2>4, <2>5, <2>6, <2>7, <2>8, <2>9,
             <2>10, <2>11, <2>12, <2>13 DEF timer_handler
<1> QED
  BY <1>1, <1>3, <1>4, <1>5, <1>6, <1>7, <1>8, <1>9, <1>10, <1>11, <1>12, <1>13
     DEF Next, Stopped, MainThread, SchedThread

-----------------------------------------------------------------------------
(* The steps, by what they leave alone                                     *)

\* Only a worker's own steps and its creation change pc; only Worker steps
\* change queue_sem and susp.
LEMMA OnlyWorkersMove ==
  ASSUME [Next]_vars, ~CreateWorker, \A w \in Workers : ~Worker(w)
  PROVE  UNCHANGED <<i, pc, queue_sem>>
<1>1. CASE UNCHANGED vars
  BY <1>1 DEF vars
<1>2. CASE Undefined \/ CreateFails \/ StampTimes \/ AllCreated \/ JoinAndCleanUp
  BY <1>2 DEF Undefined, CreateFails, StampTimes, AllCreated, JoinAndCleanUp
<1>3. CASE StartTimer \/ SchedReturns \/ Tick
  BY <1>3 DEF StartTimer, SchedReturns, Tick
<1>4. ASSUME NEW t \in Threads, TakeAlarm(t) PROVE UNCHANGED <<i, pc, queue_sem>>
  BY <1>4 DEF TakeAlarm
<1>5. ASSUME NEW t \in Threads, timer_handler(t)
      PROVE  UNCHANGED <<i, pc, queue_sem>>
  BY <1>2, <1>5 DEF timer_handler, Check, NobodyToSuspend, suspend_worker,
     cancel_worker, RotateOut, RotateIn, RotateInAgain, leave_scheduler_queue,
     AllCompleted, wait_for_queue, SpinEnds, PickHead, resume_worker
<1> QED
  BY <1>1, <1>2, <1>3, <1>4, <1>5
     DEF Next, Stopped, MainThread, SchedThread

\* A step of the handler program keeps the threads' own state; the others keep
\* the list, the signals, the freed set and the handlers' pointers, but for what
\* Worker and TakeAlarm say.
LEMMA OnlyHandlersPoint ==
  ASSUME [Next]_vars, \A w \in Workers : ~Worker(w),
         \A t \in Threads : ~TakeAlarm(t) /\ ~timer_handler(t)
  PROVE  UNCHANGED <<sched_queue, sig, freed, hnd, harg, currentThread>>
<1>1. CASE UNCHANGED vars
  BY <1>1 DEF vars
<1>2. CASE Undefined \/ CreateFails \/ StampTimes \/ AllCreated \/ JoinAndCleanUp
  BY <1>2 DEF Undefined, CreateFails, StampTimes, AllCreated, JoinAndCleanUp
<1>3. CASE StartTimer \/ SchedReturns \/ Tick \/ CreateWorker
  BY <1>3 DEF StartTimer, SchedReturns, Tick, CreateWorker
<1> QED
  BY <1>1, <1>2, <1>3 DEF Next, Stopped, MainThread, SchedThread

-----------------------------------------------------------------------------
(* Tokens                                                                  *)

LEMMA HoldersFinite ==
  IsFiniteSet(Workers) /\ IsFiniteSet(Holders) /\ Cardinality(Holders) \in Nat
<1>1. IsFiniteSet(Workers)
  BY FS_Interval, ConstantsAssumption DEF ConstantsAssumption
<1>2. Holders \in SUBSET Workers
  BY DEF Holders
<1> QED BY <1>1, <1>2, FS_Subset, FS_CardinalityType

\* Holders changes only with queue_sem: sem_wait adds the worker that takes the
\* token, the SIGTERM handler removes the worker that posts it.
LEMMA TokenStep == IInv /\ [Next]_vars => TokenConservation'
<1> SUFFICES ASSUME IInv, [Next]_vars PROVE TokenConservation'
  OBVIOUS
<1>0. TypeOK /\ TokenConservation /\ QueueSize \in Nat
  BY ConstantsAssumption DEF IInv, ConstantsAssumption
<1>1. pc \in [Workers -> {"unborn", "born", "acquire", "insert"} \cup Entered]
  BY <1>0 DEF TypeOK
<1>2. SUFFICES ASSUME ~(Holders' = Holders /\ queue_sem' = queue_sem)
               PROVE  TokenConservation'
  BY <1>0 DEF TokenConservation
<1>3. ~CreateWorker
  <2> SUFFICES ASSUME CreateWorker PROVE FALSE
    OBVIOUS
  <2>1. i + 1 \in Workers /\ i + 1 > i
    BY <1>0, ConstantsAssumption DEF TypeOK, CreateWorker, ConstantsAssumption
  <2>2. pc[i + 1] = "unborn"
    BY <2>1 DEF IInv, CreatedInOrder
  <2>3. queue_sem' = queue_sem /\ pc' = [pc EXCEPT ![i + 1] = "born"]
    BY DEF CreateWorker
  <2>4. Holders' = Holders
    BY <1>1, <2>2, <2>3 DEF Holders
  <2> QED BY <1>2, <2>3, <2>4
<1>4. PICK w \in Workers : Worker(w)
  BY <1>2, <1>3, OnlyWorkersMove DEF Holders
<1>5. CASE AcquireToken(w)
  <2>1. w \notin Holders /\ Holders' = Holders \cup {w}
    BY <1>1, <1>5 DEF AcquireToken, Holders
  <2>2. Cardinality(Holders') = Cardinality(Holders) + 1
    BY <2>1, HoldersFinite, FS_AddElement
  <2>3. queue_sem \in Nat /\ queue_sem' = queue_sem - 1
    BY <1>0, <1>5 DEF TypeOK, AcquireToken
  <2> QED BY <1>0, <2>2, <2>3, HoldersFinite DEF TokenConservation
<1>6. CASE cancel_thread(w)
  <2>1. w \in Holders /\ Holders' = Holders \ {w}
    BY <1>1, <1>6 DEF cancel_thread, Holders
  <2>2. Cardinality(Holders') = Cardinality(Holders) - 1
    BY <2>1, HoldersFinite, FS_RemoveElement
  <2>3. queue_sem \in Nat /\ queue_sem' = queue_sem + 1
    BY <1>0, <1>6 DEF TypeOK, cancel_thread
  <2> QED BY <1>0, <2>2, <2>3, HoldersFinite DEF TokenConservation
<1>7. ASSUME \/ BlockSignals(w) \/ EnterQueue(w) \/ Announce(w)
             \/ FirstResume(w) \/ Suspend(w) \/ Resume(w)
      PROVE  FALSE
  <2>1. queue_sem' = queue_sem
    BY <1>7 DEF BlockSignals, EnterQueue, Announce, FirstResume, Suspend, Resume
  <2>2. CASE BlockSignals(w)
    BY <1>1, <1>2, <2>1, <2>2 DEF BlockSignals, Holders
  <2>3. CASE EnterQueue(w)
    BY <1>1, <1>2, <2>1, <2>3 DEF EnterQueue, Holders
  <2>4. CASE Announce(w)
    BY <1>1, <1>2, <2>1, <2>4 DEF Announce, Holders
  <2>5. CASE FirstResume(w)
    BY <1>1, <1>2, <2>1, <2>5 DEF FirstResume, Holders
  <2>6. CASE Suspend(w) \/ Resume(w)
    BY <1>2, <2>1, <2>6 DEF Suspend, Resume, Holders
  <2> QED BY <1>7, <2>2, <2>3, <2>4, <2>5, <2>6
<1> QED BY <1>4, <1>5, <1>6, <1>7 DEF Worker

-----------------------------------------------------------------------------
(* Creation in order                                                       *)

LEMMA CreatedStep == IInv /\ [Next]_vars => CreatedInOrder'
<1> SUFFICES ASSUME IInv, [Next]_vars PROVE CreatedInOrder'
  OBVIOUS
<1>0. TypeOK /\ CreatedInOrder /\ ThreadCount \in Nat
  BY ConstantsAssumption DEF IInv, ConstantsAssumption
<1>1. CASE CreateWorker
  <2>1. /\ i \in 0..ThreadCount /\ i < ThreadCount /\ i' = i + 1
        /\ pc \in [Workers -> {"unborn", "born", "acquire", "insert"} \cup Entered]
        /\ pc' = [pc EXCEPT ![i + 1] = "born"]
    BY <1>0, <1>1 DEF TypeOK, CreateWorker
  <2>2. ASSUME NEW w \in Workers PROVE pc'[w] = "unborn" <=> w > i'
    <3>1. CASE w = i + 1
      BY <1>0, <2>1, <3>1
    <3>2. CASE w # i + 1
      BY <1>0, <2>1, <3>2 DEF CreatedInOrder
    <3> QED BY <3>1, <3>2
  <2> QED BY <2>2 DEF CreatedInOrder
<1>2. ASSUME NEW w \in Workers, Worker(w) PROVE CreatedInOrder'
  <2>1. i' = i
    BY <1>2 DEF Worker
  <2>2. \/ pc' = pc
        \/ /\ pc[w] # "unborn"
           /\ \E s \in {"acquire", "insert"} \cup Entered :
                pc' = [pc EXCEPT ![w] = s]
    BY <1>2 DEF Worker, BlockSignals, AcquireToken, EnterQueue, Announce,
                FirstResume, Suspend, Resume, cancel_thread
  <2> QED BY <1>0, <2>1, <2>2 DEF CreatedInOrder, TypeOK
<1>3. CASE ~CreateWorker /\ \A w \in Workers : ~Worker(w)
  BY <1>0, <1>3, OnlyWorkersMove DEF CreatedInOrder
<1> QED BY <1>1, <1>2, <1>3

-----------------------------------------------------------------------------
(* The list                                                                *)

\* Entered workers stay entered.
LEMMA EnteredStays ==
  ASSUME IInv, [Next]_vars, NEW w \in Workers, pc[w] \in Entered
  PROVE  pc'[w] \in Entered
<1>0. TypeOK /\ CreatedInOrder /\ ThreadCount \in Nat
  BY ConstantsAssumption DEF IInv, ConstantsAssumption
<1>1. CASE CreateWorker
  <2>1. w # i + 1
    BY <1>0, <1>1 DEF TypeOK, CreatedInOrder, CreateWorker
  <2> QED BY <1>0, <1>1, <2>1 DEF CreateWorker, TypeOK
<1>2. ASSUME NEW v \in Workers, Worker(v) PROVE pc'[w] \in Entered
  <2>1. pc \in [Workers -> {"unborn", "born", "acquire", "insert"} \cup Entered]
    BY <1>0 DEF TypeOK
  <2>2. CASE BlockSignals(v) \/ AcquireToken(v) \/ EnterQueue(v)
    BY <2>1, <2>2 DEF BlockSignals, AcquireToken, EnterQueue
  <2>3. CASE Announce(v) \/ FirstResume(v) \/ cancel_thread(v)
    BY <2>1, <2>3 DEF Announce, FirstResume, cancel_thread
  <2>4. CASE Suspend(v) \/ Resume(v)
    BY <2>4 DEF Suspend, Resume
  <2> QED BY <1>2, <2>2, <2>3, <2>4 DEF Worker
<1>3. CASE ~CreateWorker /\ \A v \in Workers : ~Worker(v)
  BY <1>3, OnlyWorkersMove
<1> QED BY <1>1, <1>2, <1>3

\* EnterQueue and RotateIn add a worker that was not there; RotateInAgain cuts
\* the walk short; leave_scheduler_queue frees what it has removed.
LEMMA ListStep == IInv /\ [Next]_vars => ListSound'
<1> SUFFICES ASSUME IInv, [Next]_vars PROVE ListSound'
  OBVIOUS
<1>0. TypeOK /\ ListSound /\ PointersEntered
  BY DEF IInv
<1>1. /\ sched_queue \in Seq(Workers)
      /\ DOMAIN sched_queue = 1..Len(sched_queue) /\ Len(sched_queue) \in Nat
      /\ \A k \in DOMAIN sched_queue : sched_queue[k] \in Workers
  <2>1. sched_queue \in Seq(Workers)
    BY <1>0 DEF TypeOK
  <2>2. /\ DOMAIN sched_queue = 1..Len(sched_queue) /\ Len(sched_queue) \in Nat
        /\ sched_queue \in [1..Len(sched_queue) -> Workers]
    BY <2>1, LenProperties
  <2> QED BY <2>1, <2>2
<1>2. \A w \in Workers : pc[w] \in Entered => pc'[w] \in Entered
  BY EnteredStays
<1>3. CASE UNCHANGED <<sched_queue, freed>>
  BY <1>0, <1>1, <1>2, <1>3 DEF ListSound
<1>4. ASSUME NEW w \in Workers, freed' = freed, w \notin freed,
             \A k \in DOMAIN sched_queue : sched_queue[k] # w,
             pc'[w] \in Entered, sched_queue' = Append(sched_queue, w)
      PROVE  ListSound'
  <2> DEFINE q == Append(sched_queue, w)
             m == Len(sched_queue)
  <2>1. /\ q \in Seq(Workers) /\ Len(q) = m + 1 /\ q[m + 1] = w
        /\ \A k \in 1..m : q[k] = sched_queue[k]
    BY <1>1, <1>4, AppendProperties
  <2>2. DOMAIN q = 1..m + 1
    BY <2>1, LenProperties
  <2> HIDE DEF q
  <2>3. \A k \in 1..m + 1 : k \in 1..m \/ k = m + 1
    BY <1>1
  <2>4. \A k, l \in DOMAIN q : q[k] = q[l] => k = l
    BY <1>0, <1>1, <1>4, <2>1, <2>2, <2>3 DEF ListSound
  <2>5. \A k \in DOMAIN q : pc'[q[k]] \in Entered /\ q[k] \notin freed
    BY <1>0, <1>1, <1>2, <1>4, <2>1, <2>2, <2>3 DEF ListSound
  <2> QED BY <1>4, <2>4, <2>5 DEF ListSound, q
<1>5. ASSUME NEW w, freed' \subseteq freed \cup {w},
             sched_queue' = list_remove(sched_queue, w)
      PROVE  ListSound'
  <2> DEFINE r == list_remove(sched_queue, w)
  <2>1. /\ \A k \in DOMAIN r : r[k] # w /\ \E l \in DOMAIN sched_queue :
                                             r[k] = sched_queue[l]
        /\ \A k, l \in DOMAIN r : r[k] = r[l] => k = l
    BY <1>0, <1>1, ListRemove DEF ListSound
  <2> HIDE DEF r
  <2>2. \A k \in DOMAIN r : pc'[r[k]] \in Entered /\ r[k] \notin freed'
    BY <1>0, <1>1, <1>2, <1>5, <2>1 DEF ListSound
  <2> QED BY <1>5, <2>1, <2>2 DEF ListSound, r
<1>6. ASSUME NEW w \in Workers, Worker(w) PROVE ListSound'
  <2>1. freed' = freed
    BY <1>6 DEF Worker
  <2>2. CASE EnterQueue(w)
    <3>1. pc[w] = "insert" /\ pc'[w] = "announce"
      BY <1>0, <2>2 DEF EnterQueue, TypeOK
    <3>2. w \notin freed /\ \A k \in DOMAIN sched_queue : sched_queue[k] # w
      BY <1>0, <3>1 DEF ListSound, PointersEntered
    <3> QED BY <1>4, <2>1, <2>2, <3>1, <3>2 DEF EnterQueue, list_insert_tail
  <2>3. CASE ~EnterQueue(w)
    BY <1>3, <1>6, <2>1, <2>3 DEF Worker, BlockSignals, AcquireToken, Announce,
       FirstResume, Suspend, Resume, cancel_thread
  <2> QED BY <2>2, <2>3
<1>7. ASSUME NEW t \in Threads, TakeAlarm(t) \/ timer_handler(t)
      PROVE  ListSound'
  <2>1. CASE RotateOut(t)
    BY <1>5, <2>1 DEF RotateOut
  <2>2. CASE leave_scheduler_queue(t)
    BY <1>5, <2>2 DEF leave_scheduler_queue
  <2>5. CASE RotateInAgain(t)
    <3>1. PICK n \in DOMAIN sched_queue : sched_queue' = SubSeq(sched_queue, 1, n)
      BY <2>5 DEF RotateInAgain
    <3>2. freed' = freed
      BY <2>5 DEF RotateInAgain
    <3>3. /\ DOMAIN sched_queue' = 1..n /\ 1..n \subseteq DOMAIN sched_queue
          /\ \A k \in 1..n : sched_queue'[k] = sched_queue[k]
      BY <1>1, <3>1, ListPrefix
    <3>4. \A k \in 1..n : k \in DOMAIN sched_queue
      BY <3>3
    <3> QED BY <1>0, <1>1, <1>2, <3>2, <3>3, <3>4 DEF ListSound
  <2>3. CASE RotateIn(t) /\ ~Faulty(t)
    <3>1. harg[t] \in Workers /\ harg[t] \notin freed
          /\ \A k \in DOMAIN sched_queue : sched_queue[k] # harg[t]
      BY <1>0, <2>3 DEF RotateIn, Faulty, ToSet, TypeOK
    <3>2. pc'[harg[t]] \in Entered
      BY <1>0, <1>2, <3>1, ConstantsAssumption
         DEF PointersEntered, ConstantsAssumption
    <3> QED BY <1>4, <2>3, <3>1, <3>2 DEF RotateIn, list_insert_tail
  <2>4. CASE ~RotateOut(t) /\ ~leave_scheduler_queue(t) /\ ~(RotateIn(t) /\ ~Faulty(t))
             /\ ~RotateInAgain(t)
    <3>1. UNCHANGED <<sched_queue, freed>>
      BY <1>7, <2>4 DEF TakeAlarm, timer_handler, Undefined, Check,
         NobodyToSuspend, suspend_worker, cancel_worker, AllCompleted,
         wait_for_queue, SpinEnds, PickHead, resume_worker
    <3> QED BY <1>3, <3>1
  <2> QED BY <2>1, <2>2, <2>3, <2>4, <2>5
<1> QED BY <1>3, <1>6, <1>7, OnlyHandlersPoint

-----------------------------------------------------------------------------
(* Pointers and signals                                                    *)

\* Signals go to currentThread or to the worker a handler holds, and these come
\* from the list.
LEMMA PointersStep == IInv /\ [Next]_vars => PointersEntered'
<1> SUFFICES ASSUME IInv, [Next]_vars PROVE PointersEntered'
  OBVIOUS
<1>0. TypeOK /\ ListSound /\ PointersEntered /\ ThreadCount \in Nat
  BY ConstantsAssumption DEF IInv, ConstantsAssumption
<1>1. /\ sig \in [Workers -> SUBSET {"USR1", "USR2", "TERM"}]
      /\ freed \subseteq Workers /\ currentThread \in Workers \cup {Null}
      /\ harg \in [Threads -> Workers \cup {Null}]
  BY <1>0 DEF TypeOK
<1>2. \A w \in Workers : pc[w] \in Entered => pc'[w] \in Entered
  BY EnteredStays
<1>3. \A w \in Workers : w # Null
  BY <1>0
<1>4. CASE UNCHANGED <<sig, freed, currentThread, harg>>
  BY <1>0, <1>1, <1>2, <1>3, <1>4 DEF PointersEntered
<1>5. ASSUME NEW w \in Workers, Worker(w) PROVE PointersEntered'
  <2>1. UNCHANGED <<freed, currentThread, harg>>
    BY <1>5 DEF Worker
  <2>2. sig' = sig \/ \E s : sig' = [sig EXCEPT ![w] = s] /\ pc[w] \in Entered
    BY <1>5 DEF Worker, BlockSignals, AcquireToken, EnterQueue, Announce,
                FirstResume, Suspend, Resume, cancel_thread
  <2> QED BY <1>0, <1>1, <1>2, <1>3, <2>1, <2>2 DEF PointersEntered
<1>6. ASSUME NEW t \in Threads, TakeAlarm(t) \/ timer_handler(t)
      PROVE  PointersEntered'
  <2>1. ASSUME \A w \in Workers : sig'[w] # {} \/ w \in freed' =>
                 sig[w] # {} \/ w \in freed \/ pc[w] \in Entered,
               currentThread' # Null =>
                 currentThread' \in Workers /\ pc[currentThread'] \in Entered,
               \A u \in Threads : harg'[u] # Null =>
                 harg'[u] \in Workers /\ pc[harg'[u]] \in Entered
        PROVE  PointersEntered'
    BY <1>0, <1>2, <2>1 DEF PointersEntered
  <2>2. /\ currentThread # Null =>
             currentThread \in Workers /\ pc[currentThread] \in Entered
        /\ \A u \in Threads : harg[u] # Null =>
             harg[u] \in Workers /\ pc[harg[u]] \in Entered
    BY <1>0, <1>1 DEF PointersEntered
  <2>3. CASE TakeAlarm(t) \/ Check(t) \/ NobodyToSuspend(t) \/ AllCompleted(t)
             \/ wait_for_queue(t) \/ SpinEnds(t)
    <3>1. /\ UNCHANGED <<sig, freed>> /\ currentThread' \in {currentThread, Null}
          /\ harg' = [harg EXCEPT ![t] = Null]
      BY <2>3 DEF TakeAlarm, Check, NobodyToSuspend, AllCompleted,
         wait_for_queue, SpinEnds, Goto
    <3> QED BY <1>1, <2>1, <2>2, <3>1
  <2>4. CASE suspend_worker(t) \/ cancel_worker(t)
    <3>1. /\ currentThread # Null /\ UNCHANGED <<freed, currentThread>>
          /\ harg' = [harg EXCEPT ![t] = currentThread]
          /\ \E s : sig' = [sig EXCEPT ![currentThread] = s]
      BY <2>4 DEF suspend_worker, cancel_worker, pthread_kill, Goto
    <3> QED BY <1>1, <2>1, <2>2, <3>1
  <2>5. CASE RotateOut(t) \/ RotateIn(t) \/ RotateInAgain(t)
             \/ leave_scheduler_queue(t) \/ resume_worker(t)
    <3>1. harg[t] \in Workers /\ pc[harg[t]] \in Entered
      <4>1. hnd[t] \in {"out", "in", "leave", "resume"}
        BY <2>5 DEF RotateOut, RotateIn, RotateInAgain, leave_scheduler_queue, resume_worker
      <4>2. harg[t] \in Workers
        BY <1>0, <4>1 DEF TypeOK
      <4> QED BY <1>3, <2>2, <4>2
    <3>2. /\ currentThread' = currentThread /\ freed' \in {freed, freed \cup {harg[t]}}
          /\ harg' = [harg EXCEPT ![t] = harg[t]] \/ harg' = [harg EXCEPT ![t] = Null]
          /\ sig' = sig \/ \E s : sig' = [sig EXCEPT ![harg[t]] = s]
      BY <2>5 DEF RotateOut, RotateIn, RotateInAgain, leave_scheduler_queue,
         resume_worker, pthread_kill, Goto
    <3>3. \A u \in Threads : harg'[u] # Null => harg'[u] = harg[u]
      BY <1>1, <3>2
    <3>4. \A w \in Workers : sig'[w] # {} \/ w \in freed' =>
            sig[w] # {} \/ w \in freed \/ w = harg[t]
      BY <1>1, <3>1, <3>2
    <3> QED BY <2>1, <2>2, <3>1, <3>2, <3>3, <3>4
  <2>7. CASE PickHead(t) /\ ~Faulty(t)
    <3>1. /\ sched_queue # <<>> /\ sched_queue \in Seq(Workers)
          /\ DOMAIN sched_queue = 1..Len(sched_queue)
      BY <1>0, <2>7, LenProperties DEF PickHead, Faulty, TypeOK
    <3>2. 1 \in DOMAIN sched_queue /\ Head(sched_queue) = sched_queue[1]
      BY <3>1, EmptySeq
    <3>3. Head(sched_queue) \in Workers /\ pc[Head(sched_queue)] \in Entered
      BY <1>0, <3>1, <3>2, HeadTailProperties DEF ListSound
    <3>4. /\ UNCHANGED <<sig, freed>> /\ currentThread' = Head(sched_queue)
          /\ harg' = [harg EXCEPT ![t] = Head(sched_queue)]
      BY <2>7 DEF PickHead, Goto
    <3> QED BY <1>1, <2>1, <2>2, <3>3, <3>4
  <2>6. CASE Undefined
    BY <1>4, <2>6 DEF Undefined
  <2> QED BY <1>6, <2>3, <2>4, <2>5, <2>6, <2>7 DEF timer_handler
<1> QED BY <1>4, <1>5, <1>6, OnlyHandlersPoint

-----------------------------------------------------------------------------
(* Cancelled workers                                                       *)

\* SIGTERM is sent by the handler that goes on to remove and free the worker.
LEMMA DoomedStep == IInv /\ [Next]_vars => DoomedLeaving'
<1> SUFFICES ASSUME IInv, [Next]_vars PROVE DoomedLeaving'
  OBVIOUS
<1>0. TypeOK /\ DoomedLeaving /\ CreatedInOrder /\ ThreadCount \in Nat
  BY ConstantsAssumption DEF IInv, ConstantsAssumption
<1>1. /\ sig \in [Workers -> SUBSET {"USR1", "USR2", "TERM"}]
      /\ hnd \in [Threads -> HndSteps]
      /\ harg \in [Threads -> Workers \cup {Null}]
      /\ pc \in [Workers -> {"unborn", "born", "acquire", "insert"} \cup Entered]
  BY <1>0 DEF TypeOK
<1>2. ASSUME \A w \in Workers : Doomed(w)' => Doomed(w),
             UNCHANGED <<hnd, harg, freed>>
      PROVE  DoomedLeaving'
  BY <1>0, <1>2 DEF DoomedLeaving
<1>3. ASSUME CreateWorker \/ UNCHANGED <<pc, queue_sem>>,
             UNCHANGED <<sig, hnd, harg, freed>>
      PROVE  DoomedLeaving'
  BY <1>1, <1>2, <1>3 DEF Doomed, CreateWorker
<1>4. ASSUME NEW w \in Workers, Worker(w) PROVE DoomedLeaving'
  <2>1. UNCHANGED <<hnd, harg, freed>>
    BY <1>4 DEF Worker
  <2>2. \A v \in Workers \ {w} : pc'[v] = pc[v] /\ sig'[v] = sig[v]
    BY <1>1, <1>4 DEF Worker, BlockSignals, AcquireToken, EnterQueue, Announce,
                      FirstResume, Suspend, Resume, cancel_thread
  <2>3. Doomed(w)' => Doomed(w)
    <3>1. CASE cancel_thread(w)
      BY <3>1 DEF cancel_thread, Doomed
    <3>2. CASE ~cancel_thread(w)
      BY <1>1, <1>4, <3>2 DEF Worker, BlockSignals, AcquireToken, EnterQueue,
         Announce, FirstResume, Suspend, Resume, Doomed
    <3> QED BY <3>1, <3>2
  <2> QED BY <1>2, <2>1, <2>2, <2>3 DEF Doomed
<1>5. ASSUME NEW t \in Threads, TakeAlarm(t) \/ timer_handler(t)
      PROVE  DoomedLeaving'
  <2>1. pc' = pc
    BY <1>5 DEF TakeAlarm, timer_handler, Undefined, Check, NobodyToSuspend,
       suspend_worker, cancel_worker, RotateOut, RotateIn, RotateInAgain,
       leave_scheduler_queue,
       AllCompleted, wait_for_queue, SpinEnds, PickHead, resume_worker
  <2>2. CASE hnd[t] # "leave" /\ ~cancel_worker(t)
    <3>1. \A w \in Workers : Doomed(w)' => Doomed(w)
      <4>1. CASE suspend_worker(t) \/ resume_worker(t)
        <5>1. \E v, s : s # "TERM" /\ sig' = [sig EXCEPT ![v] = @ \cup {s}]
          BY <4>1 DEF suspend_worker, resume_worker, pthread_kill
        <5>2. PICK v, s : s # "TERM" /\ sig' = [sig EXCEPT ![v] = @ \cup {s}]
          BY <5>1
        <5> QED BY <1>1, <2>1, <5>2 DEF Doomed
      <4>2. CASE ~suspend_worker(t) /\ ~resume_worker(t)
        <5>1. sig' = sig
          BY <1>5, <2>2, <4>2 DEF TakeAlarm, timer_handler, Undefined, Check,
             NobodyToSuspend, RotateOut, RotateIn, RotateInAgain, leave_scheduler_queue,
             AllCompleted, wait_for_queue, SpinEnds, PickHead
        <5> QED BY <2>1, <5>1 DEF Doomed
      <4> QED BY <4>1, <4>2
    <3>2. freed' = freed
      BY <1>5, <2>2 DEF TakeAlarm, timer_handler, Undefined, Check,
         NobodyToSuspend, suspend_worker, RotateOut, RotateIn, RotateInAgain,
         leave_scheduler_queue, AllCompleted, wait_for_queue, SpinEnds, PickHead,
         resume_worker
    <3>3. \A u \in Threads \ {t} : hnd'[u] = hnd[u] /\ harg'[u] = harg[u]
      BY <1>1, <1>5 DEF TakeAlarm, timer_handler, Undefined, Check,
         NobodyToSuspend, suspend_worker, cancel_worker, RotateOut, RotateIn,
         RotateInAgain, leave_scheduler_queue, AllCompleted, wait_for_queue, SpinEnds, PickHead,
         resume_worker, Goto
    <3> QED BY <1>0, <2>2, <3>1, <3>2, <3>3 DEF DoomedLeaving
  <2>3. CASE cancel_worker(t)
    <3>1. /\ hnd[t] = "suspend" /\ freed' = freed
          /\ hnd' = [hnd EXCEPT ![t] = "leave"]
          /\ harg' = [harg EXCEPT ![t] = currentThread]
          /\ sig' = [sig EXCEPT ![currentThread] = @ \cup {"TERM"}]
      BY <2>3 DEF cancel_worker, Goto, pthread_kill
    <3>2. \A w \in Workers : Doomed(w)' => Doomed(w) \/ w = currentThread
      BY <1>1, <2>1, <3>1 DEF Doomed
    <3> QED BY <1>0, <1>1, <3>1, <3>2 DEF DoomedLeaving
  <2>4. CASE leave_scheduler_queue(t)
    <3>1. /\ freed' = freed \cup {harg[t]} /\ sig' = sig
          /\ hnd' = [hnd EXCEPT ![t] = "next"]
          /\ harg' = [harg EXCEPT ![t] = Null]
      BY <2>4 DEF leave_scheduler_queue, Goto
    <3> QED BY <1>0, <1>1, <2>1, <3>1 DEF DoomedLeaving, Doomed
  <2>5. CASE Undefined
    BY <1>2, <2>5 DEF Undefined, Doomed
  <2>6. hnd[t] = "leave" => leave_scheduler_queue(t) \/ Undefined
    BY <1>5 DEF TakeAlarm, CanTakeAlarm, timer_handler, Check, NobodyToSuspend,
       suspend_worker, cancel_worker, RotateOut, RotateIn, RotateInAgain, AllCompleted,
       wait_for_queue, SpinEnds, PickHead, resume_worker
  <2> QED BY <2>2, <2>3, <2>4, <2>5, <2>6
<1> QED BY <1>3, <1>4, <1>5, OnlyHandlersPoint, OnlyWorkersMove

\* A cancelled worker stays so.
LEMMA DoomedStays ==
  ASSUME IInv, [Next]_vars, NEW w \in Workers, Doomed(w)
  PROVE  Doomed(w)'
<1>0. TypeOK /\ CreatedInOrder /\ PointersEntered /\ ThreadCount \in Nat
  BY ConstantsAssumption DEF IInv, ConstantsAssumption
<1>1. /\ sig \in [Workers -> SUBSET {"USR1", "USR2", "TERM"}]
      /\ pc \in [Workers -> {"unborn", "born", "acquire", "insert"} \cup Entered]
  BY <1>0 DEF TypeOK
<1>2. ASSUME pc' = pc, \A v \in Workers : sig[v] \subseteq sig'[v]
      PROVE  Doomed(w)'
  BY <1>2 DEF Doomed
<1>3. CASE CreateWorker
  <2>1. pc[w] \in Entered
    BY <1>0 DEF Doomed, PointersEntered
  <2>2. w # i + 1
    BY <1>0, <1>3, <2>1 DEF CreateWorker, CreatedInOrder, TypeOK
  <2> QED BY <1>1, <1>3, <2>2 DEF CreateWorker, Doomed
<1>4. ASSUME NEW v \in Workers, Worker(v) PROVE Doomed(w)'
  <2>1. CASE cancel_thread(v)
    <3>1. /\ pc' = [pc EXCEPT ![v] = "dead"] /\ sig' = [sig EXCEPT ![v] = {}]
      BY <2>1 DEF cancel_thread
    <3>2. CASE v = w
      BY <1>1, <3>1, <3>2 DEF Doomed
    <3>3. CASE v # w
      <4>1. pc'[w] = pc[w] /\ sig'[w] = sig[w]
        BY <1>1, <3>1, <3>3
      <4> QED BY <4>1 DEF Doomed
    <3> QED BY <3>2, <3>3
  <2>2. CASE ~cancel_thread(v)
    <3>1. "TERM" \in sig[w] => "TERM" \in sig'[w]
      <4>1. sig' = sig \/ \E s : s # "TERM" /\ sig' = [sig EXCEPT ![v] = @ \ {s}]
        BY <1>4, <2>2 DEF Worker, BlockSignals, AcquireToken, EnterQueue,
           Announce, FirstResume, Suspend, Resume
      <4> QED BY <1>1, <4>1
    <3>2. pc[w] = "dead" => pc'[w] = "dead"
      BY <1>1, <1>4, <2>2 DEF Worker, BlockSignals, AcquireToken, EnterQueue,
         Announce, FirstResume, Suspend, Resume
    <3> QED BY <3>1, <3>2 DEF Doomed
  <2> QED BY <2>1, <2>2
<1>5. ASSUME NEW t \in Threads, TakeAlarm(t) \/ timer_handler(t)
      PROVE  Doomed(w)'
  <2>1. CASE suspend_worker(t) \/ cancel_worker(t) \/ resume_worker(t)
    <3>1. pc' = pc /\ \E v, s : sig' = [sig EXCEPT ![v] = @ \cup {s}]
      BY <2>1 DEF suspend_worker, cancel_worker, resume_worker, pthread_kill
    <3> QED BY <1>1, <1>2, <3>1
  <2>2. CASE ~(suspend_worker(t) \/ cancel_worker(t) \/ resume_worker(t))
    <3>1. UNCHANGED <<pc, sig>>
      BY <1>5, <2>2 DEF TakeAlarm, timer_handler, Undefined, Check,
         NobodyToSuspend, RotateOut, RotateIn, RotateInAgain,
         leave_scheduler_queue, AllCompleted, wait_for_queue, SpinEnds, PickHead
    <3> QED BY <1>2, <3>1
  <2> QED BY <2>1, <2>2
<1>6. CASE UNCHANGED <<sig, pc>>
  BY <1>2, <1>6
<1> QED BY <1>3, <1>4, <1>5, <1>6, OnlyHandlersPoint, OnlyWorkersMove

\* A handler reaches leave_scheduler_queue by sending SIGTERM.
LEMMA LeavingStep == IInv /\ [Next]_vars => LeavingDoomed'
<1> SUFFICES ASSUME IInv, [Next]_vars PROVE LeavingDoomed'
  OBVIOUS
<1>0. TypeOK /\ LeavingDoomed
  BY DEF IInv
<1>1. /\ hnd \in [Threads -> HndSteps]
      /\ harg \in [Threads -> Workers \cup {Null}]
      /\ sig \in [Workers -> SUBSET {"USR1", "USR2", "TERM"}]
      /\ \A u \in Threads : hnd[u] = "leave" => harg[u] \in Workers
  BY <1>0 DEF TypeOK
<1>2. ASSUME NEW u \in Threads, hnd[u] = "leave", hnd'[u] = hnd[u],
             harg'[u] = harg[u]
      PROVE  Doomed(harg[u])'
  BY <1>0, <1>1, <1>2, DoomedStays DEF LeavingDoomed
<1>3. CASE UNCHANGED <<hnd, harg>>
  <2> SUFFICES ASSUME NEW u \in Threads, hnd[u] = "leave"
               PROVE  Doomed(harg[u])'
    BY <1>3 DEF LeavingDoomed
  <2> QED BY <1>2, <1>3
<1>4. ASSUME NEW t \in Threads, TakeAlarm(t) \/ timer_handler(t)
      PROVE  LeavingDoomed'
  <2>1. \A u \in Threads \ {t} : hnd'[u] = hnd[u] /\ harg'[u] = harg[u]
    BY <1>1, <1>4 DEF TakeAlarm, timer_handler, Undefined, Check,
       NobodyToSuspend, suspend_worker, cancel_worker, RotateOut, RotateIn,
       RotateInAgain, leave_scheduler_queue, AllCompleted, wait_for_queue,
       SpinEnds, PickHead, resume_worker, Goto
  <2>2. CASE cancel_worker(t)
    <3>1. /\ currentThread \in Workers
          /\ harg' = [harg EXCEPT ![t] = currentThread]
          /\ sig' = [sig EXCEPT ![currentThread] = @ \cup {"TERM"}]
      BY <1>0, <2>2 DEF cancel_worker, Goto, pthread_kill, TypeOK
    <3>2. Doomed(harg[t])'
      BY <1>1, <3>1 DEF Doomed
    <3> QED BY <1>2, <2>1, <3>2 DEF LeavingDoomed
  <2>3. CASE Undefined
    BY <1>3, <2>3 DEF Undefined
  <2>4. CASE ~cancel_worker(t) /\ ~Undefined
    <3>1. hnd'[t] # "leave"
      BY <1>1, <1>4, <2>4 DEF TakeAlarm, timer_handler, Check,
         NobodyToSuspend, suspend_worker, RotateOut, RotateIn, RotateInAgain,
         leave_scheduler_queue, AllCompleted, wait_for_queue, SpinEnds, PickHead,
         resume_worker, Goto
    <3> QED BY <1>2, <2>1, <3>1 DEF LeavingDoomed
  <2> QED BY <2>2, <2>3, <2>4
<1>5. CASE \E w \in Workers : Worker(w)
  BY <1>3, <1>5 DEF Worker
<1> QED BY <1>3, <1>4, <1>5, OnlyHandlersPoint

\* Nothing happens any more once the model has stopped.
LEMMA StoppedStays ==
  ASSUME [Next]_vars PROVE Running \/ UNCHANGED vars
<1>1. CASE MainThread \/ SchedThread \/ CreateFails \/ Tick \/ Stopped
  <2>1. CASE Stopped
    BY <2>1 DEF Stopped
  <2> QED BY <1>1, <2>1 DEF MainThread, SchedThread, CreateFails, Tick
<1>2. ASSUME NEW t \in Threads, TakeAlarm(t) \/ timer_handler(t) PROVE Running
  BY <1>2 DEF TakeAlarm, timer_handler
<1>3. ASSUME NEW w \in Workers, Worker(w) PROVE Running
  BY <1>3 DEF Worker
<1> QED BY <1>1, <1>2, <1>3 DEF Next

\* RotateOut hands the worker to the handler, RotateIn hands it back, and
\* leave_scheduler_queue removes only one that was sent SIGTERM.
LEMMA LostStep == IInv /\ [Next]_vars => NobodyLost'
<1> SUFFICES ASSUME IInv, [Next]_vars, status' # "broken",
                    NEW w \in Workers, Alive(w)'
             PROVE  Listed(w)'
  BY DEF NobodyLost
<1>0. TypeOK /\ ListSound /\ NobodyLost /\ LeavingDoomed
  BY DEF IInv
<1>1. /\ hnd \in [Threads -> HndSteps]
      /\ harg \in [Threads -> Workers \cup {Null}]
      /\ pc \in [Workers -> {"unborn", "born", "acquire", "insert"} \cup Entered]
      /\ sched_queue \in Seq(Workers)
      /\ \A k, l \in DOMAIN sched_queue :
           sched_queue[k] = sched_queue[l] => k = l
  BY <1>0 DEF TypeOK, ListSound
<1>2. status # "broken"
  BY StoppedStays DEF Running, vars
<1>3. ~Doomed(w)
  BY DoomedStays DEF Alive
<1>4. pc[w] \in Entered => Listed(w)
  BY <1>0, <1>2, <1>3 DEF NobodyLost, Alive
<1>5. ASSUME \A v \in ToSet(sched_queue) : v \in ToSet(sched_queue'),
             UNCHANGED <<hnd, harg>>, pc[w] \in Entered
      PROVE  Listed(w)'
  BY <1>4, <1>5 DEF Listed
<1>6. CASE CreateWorker
  <2>1. pc[w] \in Entered
    BY <1>1, <1>6 DEF CreateWorker, Alive
  <2> QED BY <1>5, <1>6, <2>1 DEF CreateWorker
<1>7. ASSUME NEW v \in Workers, EnterQueue(v), UNCHANGED <<hnd, harg>>
      PROVE  Listed(w)'
  <2>1. /\ DOMAIN sched_queue = 1..Len(sched_queue) /\ Len(sched_queue) \in Nat
        /\ sched_queue' = Append(sched_queue, v)
        /\ sched_queue' \in Seq(Workers) /\ Len(sched_queue') = Len(sched_queue) + 1
        /\ sched_queue'[Len(sched_queue) + 1] = v
        /\ \A k \in 1..Len(sched_queue) : sched_queue'[k] = sched_queue[k]
    BY <1>1, <1>7, AppendProperties, LenProperties DEF EnterQueue, list_insert_tail
  <2>2. DOMAIN sched_queue' = 1..Len(sched_queue) + 1
    BY <2>1, LenProperties
  <2>3. v \in ToSet(sched_queue') /\ \A x \in ToSet(sched_queue) : x \in ToSet(sched_queue')
    BY <2>1, <2>2 DEF ToSet
  <2>4. v = w \/ pc[w] \in Entered
    BY <1>1, <1>7 DEF EnterQueue, Alive
  <2> QED BY <1>5, <1>7, <2>3, <2>4 DEF Listed
<1>8. ASSUME NEW v \in Workers, Worker(v) PROVE Listed(w)'
  <2>1. UNCHANGED <<hnd, harg>>
    BY <1>8 DEF Worker
  <2>2. CASE ~EnterQueue(v)
    <3>1. sched_queue' = sched_queue /\ pc[w] \in Entered
      BY <1>1, <1>8, <2>2 DEF Worker, BlockSignals, AcquireToken, Announce,
         FirstResume, Suspend, Resume, cancel_thread, Alive
    <3> QED BY <1>5, <2>1, <3>1
  <2> QED BY <1>7, <2>1, <2>2
<1>9. ASSUME NEW t \in Threads, TakeAlarm(t) \/ timer_handler(t)
      PROVE  Listed(w)'
  <2>1. Listed(w)
    BY <1>4, <1>9 DEF Alive, TakeAlarm, timer_handler, Undefined, Check,
       NobodyToSuspend, suspend_worker, cancel_worker, RotateOut, RotateIn,
       RotateInAgain, leave_scheduler_queue, AllCompleted, wait_for_queue,
       SpinEnds, PickHead, resume_worker
  <2>2. \A u \in Threads \ {t} : hnd'[u] = hnd[u] /\ harg'[u] = harg[u]
    BY <1>1, <1>9 DEF TakeAlarm, timer_handler, Undefined, Check,
       NobodyToSuspend, suspend_worker, cancel_worker, RotateOut, RotateIn,
       RotateInAgain, leave_scheduler_queue, AllCompleted, wait_for_queue,
       SpinEnds, PickHead, resume_worker, Goto
  <2>3. ~RotateInAgain(t)
    BY DEF RotateInAgain
  <2>4. CASE Undefined
    BY <2>1, <2>4 DEF Undefined, Listed
  <2>5. CASE RotateOut(t) \/ leave_scheduler_queue(t)
    <3> DEFINE r == list_remove(sched_queue, harg[t])
    <3>1. sched_queue' = r /\ hnd[t] \in {"out", "leave"}
      BY <2>5 DEF RotateOut, leave_scheduler_queue
    <3>2. \A l \in DOMAIN sched_queue :
            sched_queue[l] # harg[t] => \E k \in DOMAIN r : r[k] = sched_queue[l]
      BY <1>1, ListRemove
    <3> HIDE DEF r
    <3>3. w # harg[t] /\ w \in ToSet(sched_queue) => w \in ToSet(sched_queue')
      BY <3>1, <3>2 DEF ToSet
    <3>4. CASE w = harg[t]
      <4>1. RotateOut(t)
        BY <1>0, <1>3, <2>5, <3>4 DEF leave_scheduler_queue, LeavingDoomed
      <4>2. hnd'[t] = "in" /\ harg'[t] = w
        BY <1>1, <3>4, <4>1 DEF RotateOut, Goto
      <4> QED BY <4>2 DEF Listed
    <3>5. CASE w # harg[t]
      BY <2>1, <2>2, <3>1, <3>3, <3>5 DEF Listed
    <3> QED BY <3>4, <3>5
  <2>6. CASE RotateIn(t)
    <3>1. /\ DOMAIN sched_queue = 1..Len(sched_queue) /\ Len(sched_queue) \in Nat
          /\ sched_queue' = Append(sched_queue, harg[t]) /\ harg[t] \in Workers
      BY <1>0, <2>6, LenProperties DEF RotateIn, list_insert_tail, TypeOK
    <3>2. /\ sched_queue' \in Seq(Workers)
          /\ Len(sched_queue') = Len(sched_queue) + 1
          /\ sched_queue'[Len(sched_queue) + 1] = harg[t]
          /\ \A k \in 1..Len(sched_queue) : sched_queue'[k] = sched_queue[k]
      BY <1>1, <3>1, AppendProperties
    <3>3. DOMAIN sched_queue' = 1..Len(sched_queue) + 1
      BY <3>2, LenProperties
    <3>4. /\ harg[t] \in ToSet(sched_queue')
          /\ \A x \in ToSet(sched_queue) : x \in ToSet(sched_queue')
      BY <3>1, <3>2, <3>3 DEF ToSet
    <3> QED BY <2>1, <2>2, <3>4 DEF Listed
  <2>7. CASE ~Undefined /\ ~RotateOut(t) /\ ~leave_scheduler_queue(t) /\ ~RotateIn(t)
    <3>1. sched_queue' = sched_queue /\ hnd[t] # "in"
      BY <1>9, <2>3, <2>7 DEF TakeAlarm, CanTakeAlarm, timer_handler, Check,
         NobodyToSuspend, suspend_worker, cancel_worker, AllCompleted,
         wait_for_queue, SpinEnds, PickHead, resume_worker
    <3> QED BY <2>1, <2>2, <3>1 DEF Listed
  <2> QED BY <2>4, <2>5, <2>6, <2>7
<1>10. CASE UNCHANGED <<sched_queue, hnd, harg, pc>>
  BY <1>5, <1>10 DEF Alive
<1> QED BY <1>6, <1>8, <1>9, <1>10, OnlyHandlersPoint, OnlyWorkersMove

-----------------------------------------------------------------------------
(* The theorems                                                            *)

LEMMA InitInvariant == Init => IInv
<1> SUFFICES ASSUME Init PROVE IInv
  OBVIOUS
<1>0. ThreadCount \in Nat /\ QueueSize \in Nat /\ Quanta \subseteq Int
  BY ConstantsAssumption DEF ConstantsAssumption
<1>1. TypeOK
  <2>1. NewInfo(0, 0) \in ThreadInfo
    BY NewInfoType
  <2>2. quanta \in [Workers -> Int]
    BY <1>0 DEF Init
  <2>3. sched_queue \in Seq(Workers)
    BY EmptySeq DEF Init
  <2>4. queue_sem \in Nat /\ i \in 0..ThreadCount /\ main # "stamp"
    BY <1>0 DEF Init
  <2>5. /\ pc \in [Workers -> {"unborn", "born", "acquire", "insert"} \cup Entered]
        /\ susp \in [Workers -> BOOLEAN]
        /\ sig \in [Workers -> SUBSET {"USR1", "USR2", "TERM"}]
        /\ info \in [Workers -> ThreadInfo]
    BY <2>1 DEF Init
  <2>6. /\ hnd \in [Threads -> HndSteps] /\ harg \in [Threads -> Workers \cup {Null}]
        /\ \A t \in Threads : hnd[t] = "idle"
    BY DEF Init
  <2>7. /\ main \in {"create", "stamp", "join", "exited"}
        /\ sched \in {"wait", "loop", "done"} /\ freed \subseteq Workers
        /\ status \in {"running", "failed", "undefined", "broken"}
    BY DEF Init
  <2>8. alarm \in BOOLEAN /\ quit \in BOOLEAN
    BY Zenon DEF Init
  <2>9. /\ currentThread \in Workers \cup {Null} /\ now \in Nat
        /\ completed \in Nat /\ run_times \in Int /\ wait_times \in Int
    BY SMT DEF Init
  <2> QED BY <2>2, <2>3, <2>4, <2>5, <2>6, <2>7, <2>8, <2>9 DEF TypeOK
<1>2. TokenConservation
  <2>1. Holders = {}
    BY DEF Init, Holders
  <2> QED BY <1>0, <2>1, FS_EmptySet DEF Init, TokenConservation
<1>3. /\ ListSound /\ PointersEntered /\ DoomedLeaving /\ CreatedInOrder
      /\ LeavingDoomed /\ NobodyLost
  BY <1>0 DEF Init, ListSound, PointersEntered, DoomedLeaving, Doomed,
              CreatedInOrder, LeavingDoomed, NobodyLost, Alive
<1> QED BY <1>1, <1>2, <1>3 DEF IInv

\* The inductive invariant holds in every reachable state, however the threads
\* are scheduled.
THEOREM Invariance == Spec => []IInv
<1>1. Init => IInv
  BY InitInvariant
<1>2. IInv /\ [Next]_vars => IInv'
  BY TypeStep, CreatedStep, TokenStep, ListStep, PointersStep, DoomedStep,
     LeavingStep, LostStep DEF IInv
<1> QED BY <1>1, <1>2, PTL DEF Spec

\* The variables keep their types.
THEOREM TypeCorrectness == Spec => []TypeOK
BY Invariance, PTL DEF IInv

\* No token of queue_sem is lost or made up, for every number of workers and
\* every queue size.
THEOREM TokensConserved == Spec => []TokenConservation
BY Invariance, PTL DEF IInv

\* ListExact is part of the invariant but for the last conjunct, which
\* ListSound and DoomedLeaving give.
LEMMA ExactFollows == IInv => ListExact
<1> SUFFICES ASSUME IInv PROVE ListExact
  OBVIOUS
<1>0. TypeOK /\ ListSound /\ DoomedLeaving /\ NobodyLost
  BY DEF IInv
<1>1. ASSUME NEW w \in ToSet(sched_queue)
      PROVE  /\ w \notin freed
             /\ Alive(w) \/ \E t \in Threads : hnd[t] = "leave" /\ harg[t] = w
  <2>1. PICK k \in DOMAIN sched_queue : sched_queue[k] = w
    BY DEF ToSet
  <2>2. sched_queue \in [1..Len(sched_queue) -> Workers]
    BY <1>0, LenProperties DEF TypeOK
  <2>3. w \in Workers /\ pc[w] \in Entered /\ w \notin freed
    BY <1>0, <2>1, <2>2 DEF ListSound
  <2> QED BY <1>0, <2>3 DEF DoomedLeaving, Alive
<1> QED BY <1>0, <1>1 DEF ListExact

\* However the handlers overlap, up to the first second insertion nobody who has
\* entered is lost, and the list holds no freed worker and no cancelled one that
\* nobody will remove.
THEOREM ListAlwaysExact == Spec => []ListExact
BY ExactFollows, Invariance, PTL

\* A list without duplicates is as long as the set of its elements is large.
LEMMA LengthIsCardinality ==
  ASSUME NEW S, NEW q \in Seq(S), \A k, l \in DOMAIN q : q[k] = q[l] => k = l
  PROVE  Len(q) = Cardinality(ToSet(q)) /\ IsFiniteSet(ToSet(q))
<1>1. Len(q) \in Nat /\ DOMAIN q = 1..Len(q)
  BY LenProperties
<1>2. IsFiniteSet(1..Len(q)) /\ Cardinality(1..Len(q)) = Len(q)
  BY <1>1, FS_Interval
<1>3. q \in [1..Len(q) -> ToSet(q)] /\ \A y \in ToSet(q) : \E k \in 1..Len(q) : q[k] = y
  BY <1>1, LenProperties DEF ToSet
<1>4. q \in Bijection(1..Len(q), ToSet(q))
  BY <1>1, <1>3 DEF Bijection, Injection, Surjection, IsInjective
<1> QED BY <1>2, <1>4, FS_Bijection DEF ExistsBijection

\* The workers in the list hold a token each, except the cancelled ones.
LEMMA OverrunFollows == IInv => OverrunBound
<1> SUFFICES ASSUME IInv PROVE OverrunBound
  OBVIOUS
<1> DEFINE Q == ToSet(sched_queue)
           Leaving == {t \in Threads : hnd[t] = "leave"}
           Gonners == {harg[t] : t \in Leaving}
<1>0. TypeOK /\ TokenConservation /\ ListSound /\ DoomedLeaving
      /\ ThreadCount \in Nat /\ QueueSize \in Nat
  BY ConstantsAssumption DEF IInv, ConstantsAssumption
<1>1. sched_queue \in Seq(Workers)
  BY <1>0 DEF TypeOK
<1>2. Len(sched_queue) = Cardinality(Q) /\ IsFiniteSet(Q)
  BY <1>0, <1>1, LengthIsCardinality DEF ListSound
<1>3. IsFiniteSet(Leaving) /\ Cardinality(Leaving) \in Nat
  <2>1. IsFiniteSet(Threads)
    BY <1>0, FS_Interval
  <2>2. Leaving \in SUBSET Threads
    OBVIOUS
  <2> HIDE DEF Leaving
  <2> QED BY <2>1, <2>2, FS_Subset, FS_CardinalityType
<1>4. /\ IsFiniteSet(Gonners) /\ Cardinality(Gonners) <= Cardinality(Leaving)
      /\ Cardinality(Gonners) \in Nat
  <2>1. [t \in Leaving |-> harg[t]] \in Surjection(Leaving, Gonners)
    BY DEF Surjection
  <2> HIDE DEF Leaving, Gonners
  <2> QED BY <1>3, <2>1, FS_Surjection, FS_CardinalityType
<1>5. Q \subseteq Holders \cup Gonners
  <2> SUFFICES ASSUME NEW w \in Q PROVE w \in Holders \cup Gonners
    OBVIOUS
  <2>1. PICK k \in DOMAIN sched_queue : sched_queue[k] = w
    BY DEF ToSet
  <2>2. w \in Workers
    <3>1. sched_queue \in [1..Len(sched_queue) -> Workers]
      BY <1>1, LenProperties
    <3> QED BY <2>1, <3>1
  <2>3. pc[w] \in Entered /\ w \notin freed
    BY <1>0, <2>1 DEF ListSound
  <2>4. CASE pc[w] = "dead"
    BY <1>0, <2>2, <2>3, <2>4 DEF DoomedLeaving, Doomed
  <2>5. CASE pc[w] # "dead"
    BY <2>2, <2>3, <2>5 DEF Holders
  <2> QED BY <2>4, <2>5
<1> HIDE DEF Q, Leaving, Gonners
<1>6. Cardinality(Q) <= Cardinality(Holders) + Cardinality(Gonners)
  <2>1. /\ IsFiniteSet(Holders \cup Gonners)
        /\ Cardinality(Holders \cup Gonners) = Cardinality(Holders)
             + Cardinality(Gonners) - Cardinality(Holders \cap Gonners)
    BY <1>4, HoldersFinite, FS_Union
  <2>2. Cardinality(Q) <= Cardinality(Holders \cup Gonners)
    BY <1>5, <2>1, FS_Subset
  <2>3. Cardinality(Holders \cap Gonners) \in Nat
    <3>1. Holders \cap Gonners \in SUBSET Holders
      OBVIOUS
    <3> QED BY <3>1, HoldersFinite, FS_Subset, FS_CardinalityType
  <2>4. Cardinality(Q) \in Nat
    BY <1>2, FS_CardinalityType
  <2> QED BY <1>4, <2>1, <2>2, <2>3, <2>4, HoldersFinite
<1>7. Cardinality(Holders) <= QueueSize
  BY <1>0, HoldersFinite DEF TokenConservation, TypeOK
<1>8. Cardinality(Q) \in Nat
  BY <1>2, FS_CardinalityType
<1> QED BY <1>0, <1>2, <1>3, <1>4, <1>6, <1>7, <1>8, HoldersFinite
        DEF OverrunBound, Leaving

\* The list is longer than queue_size by at most one worker for each handler
\* between its pthread_kill(SIGTERM) and its list_remove (scheduler.c:90-101).
THEOREM OverrunBounded == Spec => []OverrunBound
BY OverrunFollows, Invariance, PTL

\* After every step as well.
LEMMA OverrunAfter == IInv' => OverrunBound'
BY OverrunFollows, PTL
=============================================================================
