------------------------ MODULE SchedulerPromptProofs ------------------------
(***************************************************************************)
(* When every thread answers its signals before the timer expires again    *)
(* (Prompt), the scheduler of PA4 touches no freed memory and no dead      *)
(* thread, lets one worker compute at a time, quits only when all are      *)
(* done, serves its workers in turn (RoundRobin.tla), keeps none waiting   *)
(* for more than a round and charges every quantum to one: for every       *)
(* number of workers, every queue size and all quanta.  Without Prompt     *)
(* none of this holds.                                                     *)
(***************************************************************************)
EXTENDS SchedulerProofs, SchedulerMC, WellFoundedInduction

Calm        == \A t \in Threads : hnd[t] = "idle"

\* From the suspension of one worker to the resumption of the next.
Turning == {"out", "in", "leave", "next", "wait", "pick", "resume"}

\* There is one handler at a time, and no SIGALRM comes while it runs.
OneHandler ==
  /\ \A t, u \in Threads : hnd[t] # "idle" /\ hnd[u] # "idle" => t = u
  /\ alarm => Calm

\* The timer first expires when all workers are created and have set their masks.
Phases ==
  /\ now > 0 => /\ main \in {"join", "exited"} /\ sched # "wait"
                /\ \A w \in Workers : pc[w] \notin {"unborn", "born"}
  /\ now = 0 => /\ ~alarm /\ Calm /\ currentThread = Null
                /\ \A w \in Workers : ~Doomed(w)

\* A worker that may not compute: not resumed yet or dead, suspended, or about to
\* be suspended or cancelled.
Held(w) ==
  \/ pc[w] # "work" /\ ~susp[w] /\ sig[w] = {}
  \/ pc[w] = "work" /\ susp[w] /\ sig[w] = {}
  \/ pc[w] = "work" /\ ~susp[w] /\ sig[w] \in {{"USR1"}, {"TERM"}}

\* One that computes, or will when it has taken the signals sent to it.
Awake(w) ==
  \/ pc[w] \in {"announce", "park"} /\ ~susp[w] /\ sig[w] = {"USR2"}
  \/ pc[w] = "work" /\ susp[w] /\ sig[w] = {"USR2"}
  \/ pc[w] = "work" /\ ~susp[w] /\ sig[w] \in {{}, {"USR1", "USR2"}}

Signals ==
  /\ \A w \in Workers : w # currentThread \/ Handling(Turning) => Held(w)
  /\ ~Handling(Turning) /\ currentThread # Null => Awake(currentThread)

\* Nothing moves between the timer and the handler's first signal.
Still == alarm \/ Handling({"check", "suspend"}) => \A w \in Workers : Quiet(w)

\* Only cancelled workers are freed.
FreedDoomed ==
  /\ \A w \in freed : Doomed(w)
  /\ \A t \in Threads : hnd[t] = "leave" => Doomed(harg[t])

\* The current worker, and the one a handler works on, are in the list, except
\* between the two halves of a rotation; and so is every worker that is to run.
InList ==
  /\ ~Handling(Turning \ {"resume"}) /\ currentThread # Null =>
       currentThread \in ToSet(sched_queue)
  /\ \A t \in Threads :
       /\ hnd[t] \in {"out", "leave"} => harg[t] \in ToSet(sched_queue)
       /\ hnd[t] = "in" => harg[t] \notin ToSet(sched_queue) \cup freed
       /\ hnd[t] = "pick" => sched_queue # <<>>
       /\ hnd[t] = "resume" => harg[t] = currentThread
  /\ \A w \in Workers : pc[w] \in Entered /\ ~Doomed(w) =>
       w \in ToSet(sched_queue) \/ \E t \in Threads : hnd[t] = "in" /\ harg[t] = w

\* completed counts the cancelled workers, and quit is set when there is no other.
Cancelled == {w \in Workers : Doomed(w)}

Counted ==
  /\ completed = Cardinality(Cancelled)
  /\ quit => \A w \in Workers : Doomed(w)

\* With queue_size 0 nobody ever enters, and the timer is never armed.
Room == sched # "wait" \/ sched_queue # <<>> => QueueSize > 0

\* The inductive invariant, which rests on IInv of Scheduler.tla.
PInv == /\ OneHandler /\ Phases /\ Signals /\ Still /\ FreedDoomed
        /\ InList /\ Counted /\ Room /\ NoUndefined

-----------------------------------------------------------------------------
(* Facts that every step needs                                             *)

LEMMA TypeFacts ==
  ASSUME IInv
  PROVE  /\ now \in Nat /\ currentThread \in Workers \cup {Null} /\ freed \subseteq Workers
         /\ sched_queue \in Seq(Workers)
         /\ pc \in [Workers -> {"unborn", "born", "acquire", "insert"} \cup Entered]
         /\ susp \in [Workers -> BOOLEAN]
         /\ sig \in [Workers -> SUBSET {"USR1", "USR2", "TERM"}]
         /\ hnd \in [Threads -> HndSteps] /\ harg \in [Threads -> Workers \cup {Null}]
         /\ Null \notin Workers /\ ThreadCount \in Nat /\ QueueSize \in Nat
         /\ Workers \subseteq Threads
BY ConstantsAssumption DEF ConstantsAssumption, IInv, TypeOK, Workers, Threads, Null

\* What the order of the workers' and the handlers' steps depends on.
core == <<now, alarm, quit, currentThread, completed, sched_queue, queue_sem,
          pc, susp, sig, freed, hnd, harg>>

\* Nothing happens to them.
LEMMA CoreKeeps ==
  ASSUME PInv, UNCHANGED core
  PROVE  OneHandler' /\ Signals' /\ Still' /\ FreedDoomed' /\ InList' /\ Counted'
<1> USE DEF PInv, core
<1>0. /\ \A w \in Workers : /\ Doomed(w)' <=> Doomed(w)
                            /\ Held(w)' <=> Held(w)
                            /\ Quiet(w)' <=> Quiet(w)
  BY DEF Doomed, Held, Quiet
<1>1. OneHandler'
  BY DEF OneHandler, Calm
<1>2. Signals'
  BY <1>0 DEF Signals, Handling, Awake
<1>3. Still'
  BY <1>0 DEF Still, Handling
<1>4. FreedDoomed'
  BY DEF FreedDoomed, Doomed
<1>5. InList'
  BY DEF InList, Handling, Doomed
<1>6. Cancelled' = Cancelled
  BY <1>0 DEF Cancelled
<1>7. Counted'
  BY <1>0, <1>6 DEF Counted
<1> QED BY <1>1, <1>2, <1>3, <1>4, <1>5, <1>7

-----------------------------------------------------------------------------
(* The main thread and the scheduler thread                                *)

LEMMA CreateKeeps == ASSUME IInv, PInv, CreateWorker PROVE PInv'
<1>0. /\ main = "create" /\ i < ThreadCount /\ main' = "stamp"
      /\ pc' = [pc EXCEPT ![i + 1] = "born"]
      /\ UNCHANGED <<clockVars, globalVars, queueVars, susp, sig, freed, hndVars, status>>
  BY DEF CreateWorker
<1>1. now = 0 /\ now' = 0 /\ ~alarm /\ Calm /\ currentThread = Null
      /\ \A w \in Workers : ~Doomed(w)
  BY <1>0, TypeFacts DEF PInv, Phases, clockVars
<1>2. i + 1 \in Workers /\ pc[i + 1] = "unborn" /\ pc'[i + 1] = "born"
      /\ \A w \in Workers \ {i + 1} : pc'[w] = pc[w]
  BY <1>0, TypeFacts DEF IInv, TypeOK, CreatedInOrder, Workers
<1>3. /\ \A w \in Workers : /\ Doomed(w)' <=> Doomed(w)
                            /\ Held(w) => Held(w)'
                            /\ pc'[w] \in Entered => pc[w] \in Entered
  BY <1>0, <1>2 DEF Doomed, Held, Entered
<1>4. OneHandler' /\ Phases' /\ Still'
  BY <1>0, <1>1, <1>3 DEF PInv, OneHandler, Phases, Still, Calm, Handling, clockVars,
     hndVars, globalVars
<1>5. Signals'
  BY <1>0, <1>1, <1>3, TypeFacts DEF PInv, Signals, Handling, hndVars, globalVars
<1>6. FreedDoomed'
  BY <1>0, <1>1, <1>3, TypeFacts DEF PInv, FreedDoomed, hndVars, Calm
<1>7. InList'
  BY <1>0, <1>1, <1>3, TypeFacts DEF PInv, InList, Handling, hndVars, Calm, globalVars,
     queueVars
<1>8. Cancelled' = Cancelled
  BY <1>3 DEF Cancelled
<1>9. Counted' /\ Room' /\ NoUndefined'
  BY <1>0, <1>3, <1>8 DEF PInv, Counted, Room, NoUndefined, globalVars, clockVars, queueVars
<1> QED BY <1>4, <1>5, <1>6, <1>7, <1>9 DEF PInv

LEMMA MainKeeps ==
  ASSUME IInv, PInv, StampTimes \/ AllCreated \/ JoinAndCleanUp \/ CreateFails
  PROVE  PInv'
<1>1. ASSUME StampTimes PROVE i \notin freed
  <2>1. now = 0
    BY <1>1, TypeFacts DEF StampTimes, PInv, Phases
  <2> QED BY <2>1, TypeFacts DEF PInv, Phases, FreedDoomed
<1>2. UNCHANGED <<core, sched>> /\ status' \notin {"undefined", "broken"}
  BY <1>1 DEF core, StampTimes, AllCreated, JoinAndCleanUp, CreateFails, PInv, NoUndefined,
     clockVars, globalVars, queueVars, workerVars, heapVars, hndVars
<1>3. main \in {"join", "exited"} => main' \in {"join", "exited"}
  BY DEF StampTimes, AllCreated, JoinAndCleanUp, CreateFails, Undefined, mainVars
<1>4. Phases'
  BY <1>2, <1>3 DEF PInv, Phases, core, Calm, Doomed
<1>5. Room' /\ NoUndefined'
  BY <1>2 DEF PInv, Room, NoUndefined, core
<1> QED BY <1>2, <1>4, <1>5, CoreKeeps DEF PInv

LEMMA SchedKeeps ==
  ASSUME IInv, PInv, StartTimer \/ SchedReturns
  PROVE  PInv'
<1>1. /\ UNCHANGED <<core, main, status>> /\ sched' # "wait"
      /\ sched # "wait" \/ sched_queue # <<>>
  BY DEF core, StartTimer, SchedReturns, mainVars, globalVars, queueVars, workerVars,
     heapVars, hndVars
<1>2. Phases' /\ Room' /\ NoUndefined'
  BY <1>1 DEF PInv, Phases, Room, NoUndefined, core, Calm, Doomed
<1> QED BY <1>1, <1>2, CoreKeeps DEF PInv

LEMMA StillKeeps == ASSUME PInv, UNCHANGED vars PROVE PInv'
<1>1. UNCHANGED <<core, main, sched, status>>
  BY DEF core, vars, mainVars, clockVars, globalVars, queueVars, workerVars, heapVars, hndVars
<1>2. Phases' /\ Room' /\ NoUndefined'
  BY <1>1 DEF PInv, Phases, Room, NoUndefined, core, Calm, Doomed
<1> QED BY <1>1, <1>2, CoreKeeps DEF PInv

-----------------------------------------------------------------------------
(* The workers                                                             *)

\* What a step of worker w does to w and to the list.
LEMMA WorkerStep ==
  ASSUME IInv, PInv, NEW w \in Workers, Worker(w)
  PROVE  /\ UNCHANGED <<mainVars, clockVars, globalVars, heapVars, hndVars>>
         /\ \A u \in Workers \ {w} : pc'[u] = pc[u] /\ susp'[u] = susp[u] /\ sig'[u] = sig[u]
         /\ ~Quiet(w)
         /\ Held(w) => Held(w)'
         /\ Awake(w) => Awake(w)'
         /\ Held(w) \/ Awake(w) => (Doomed(w)' <=> Doomed(w))
         /\ pc'[w] # "unborn" /\ pc'[w] # "born"
         /\ \/ sched_queue' = sched_queue /\ (pc'[w] \in Entered => pc[w] \in Entered)
            \/ pc[w] = "insert" /\ sched_queue' = Append(sched_queue, w)
         /\ status' = IF pc[w] = "announce" /\ w \in freed THEN status' ELSE status
<1> USE TypeFacts
<1>0. UNCHANGED <<mainVars, clockVars, globalVars, heapVars, hndVars>>
  BY DEF Worker
<1>1. CASE BlockSignals(w)
  BY <1>0, <1>1 DEF BlockSignals, Entered, Quiet, Held, Awake, Doomed, queueVars
<1>2. CASE AcquireToken(w)
  BY <1>0, <1>2 DEF AcquireToken, Entered, Quiet, Held, Awake, Doomed, queueVars
<1>3. CASE EnterQueue(w)
  BY <1>0, <1>3 DEF EnterQueue, list_insert_tail, Quiet, Held, Awake, Doomed, queueVars
<1>4. CASE Announce(w)
  BY <1>0, <1>4 DEF Announce, Quiet, Held, Awake, Doomed, queueVars
<1>5. CASE FirstResume(w)
  BY <1>0, <1>5 DEF FirstResume, Quiet, Held, Awake, Doomed, queueVars
<1>6. CASE Suspend(w)
  <2>1. /\ pc[w] \in {"announce", "park", "work"} /\ susp[w] = FALSE /\ "USR1" \in sig[w]
        /\ pc'[w] = pc[w] /\ susp'[w] = TRUE /\ sig'[w] = sig[w] \ {"USR1"}
        /\ \A u \in Workers \ {w} : pc'[u] = pc[u] /\ susp'[u] = susp[u] /\ sig'[u] = sig[u]
        /\ UNCHANGED <<sched_queue, status>>
    BY <1>6 DEF Suspend, queueVars
  <2>2. ~Quiet(w) /\ (Doomed(w)' <=> Doomed(w))
    BY <2>1 DEF Quiet, Doomed
  <2>3. {"USR1"} \ {"USR1"} = {} /\ {"USR2"} \ {"USR2"} = {}
        /\ {"USR1", "USR2"} \ {"USR1"} = {"USR2"}
    OBVIOUS
  <2>4. (Held(w) => Held(w)') /\ (Awake(w) => Awake(w)')
    BY <2>1, <2>3 DEF Held, Awake
  <2> QED BY <1>0, <2>1, <2>2, <2>4
<1>7. CASE Resume(w)
  <2>1. /\ pc[w] \in {"announce", "park", "work"} /\ susp[w] = TRUE /\ "USR2" \in sig[w]
        /\ pc'[w] = pc[w] /\ susp'[w] = FALSE /\ sig'[w] = sig[w] \ {"USR2"}
        /\ \A u \in Workers \ {w} : pc'[u] = pc[u] /\ susp'[u] = susp[u] /\ sig'[u] = sig[u]
        /\ UNCHANGED <<sched_queue, status>>
    BY <1>7 DEF Resume, queueVars
  <2>2. ~Quiet(w) /\ (Doomed(w)' <=> Doomed(w))
    BY <2>1 DEF Quiet, Doomed
  <2>3. {"USR1"} \ {"USR1"} = {} /\ {"USR2"} \ {"USR2"} = {}
        /\ {"USR1", "USR2"} \ {"USR1"} = {"USR2"}
    OBVIOUS
  <2>4. (Held(w) => Held(w)') /\ (Awake(w) => Awake(w)')
    BY <2>1, <2>3 DEF Held, Awake
  <2> QED BY <1>0, <2>1, <2>2, <2>4
<1>8. CASE cancel_thread(w)
  BY <1>0, <1>8 DEF cancel_thread, Quiet, Held, Awake, Doomed, queueVars
<1> QED BY <1>1, <1>2, <1>3, <1>4, <1>5, <1>6, <1>7, <1>8 DEF Worker

\* A worker that enters has taken a token.
LEMMA EntryNeedsRoom ==
  ASSUME IInv, NEW w \in Workers, pc[w] = "insert"
  PROVE  QueueSize > 0
<1>1. w \in Holders
  BY DEF Holders
<1>2. Cardinality(Holders) # 0
  BY <1>1, HoldersFinite, FS_EmptySet
<1> QED BY <1>2, HoldersFinite, TypeFacts DEF IInv, TypeOK, TokenConservation

LEMMA WorkerKeeps ==
  ASSUME IInv, PInv, NEW w \in Workers, Worker(w)
  PROVE  PInv'
<1>0. /\ UNCHANGED <<mainVars, clockVars, globalVars, heapVars, hndVars>>
      /\ \A u \in Workers \ {w} : pc'[u] = pc[u] /\ susp'[u] = susp[u] /\ sig'[u] = sig[u]
      /\ ~Quiet(w) /\ (Held(w) => Held(w)') /\ (Awake(w) => Awake(w)')
      /\ (Held(w) \/ Awake(w) => (Doomed(w)' <=> Doomed(w)))
      /\ pc'[w] # "unborn" /\ pc'[w] # "born"
      /\ \/ sched_queue' = sched_queue /\ (pc'[w] \in Entered => pc[w] \in Entered)
         \/ pc[w] = "insert" /\ sched_queue' = Append(sched_queue, w)
      /\ status' = IF pc[w] = "announce" /\ w \in freed THEN status' ELSE status
  BY WorkerStep
<1>1. Held(w) \/ Awake(w)
  <2>1. CASE w # currentThread \/ Handling(Turning)
    BY <2>1 DEF PInv, Signals
  <2>2. CASE w = currentThread /\ ~Handling(Turning)
    BY <2>2, TypeFacts DEF PInv, Signals
  <2> QED BY <2>1, <2>2
<1>2. \A u \in Workers : /\ Doomed(u)' <=> Doomed(u)
                         /\ Held(u) => Held(u)'
                         /\ Awake(u) => Awake(u)'
  BY <1>0, <1>1 DEF Doomed, Held, Awake
<1>3. /\ UNCHANGED <<now, alarm, main, sched, quit, currentThread, completed, freed, hnd, harg>>
  BY <1>0 DEF mainVars, clockVars, globalVars, heapVars, hndVars
<1>4. OneHandler' /\ Phases'
  BY <1>0, <1>2, <1>3 DEF PInv, OneHandler, Phases, Calm
<1>5. Signals'
  BY <1>2, <1>3, TypeFacts DEF PInv, Signals, Handling
<1>6. Still'
  BY <1>0, <1>3 DEF PInv, Still, Handling
<1>7. FreedDoomed'
  <2>1. \A t \in Threads : hnd[t] = "leave" => harg[t] \in Workers
    BY DEF IInv, TypeOK
  <2> QED BY <1>2, <1>3, <2>1, TypeFacts DEF PInv, FreedDoomed
<1>8. /\ ToSet(sched_queue) \subseteq ToSet(sched_queue')
      /\ ToSet(sched_queue') \subseteq ToSet(sched_queue) \cup {w}
      /\ sched_queue # <<>> => sched_queue' # <<>>
      /\ pc[w] \in Entered => sched_queue' = sched_queue
      /\ pc'[w] \in Entered => pc[w] \in Entered \/ w \in ToSet(sched_queue')
  <2>1. CASE sched_queue' = sched_queue /\ (pc'[w] \in Entered => pc[w] \in Entered)
    BY <2>1
  <2>2. CASE pc[w] = "insert" /\ sched_queue' = Append(sched_queue, w)
    <3>1. /\ Len(sched_queue) \in Nat /\ Len(sched_queue') = Len(sched_queue) + 1
          /\ DOMAIN sched_queue = 1..Len(sched_queue)
          /\ DOMAIN sched_queue' = 1..Len(sched_queue) + 1
          /\ \A k \in 1..Len(sched_queue) : sched_queue'[k] = sched_queue[k]
          /\ sched_queue'[Len(sched_queue) + 1] = w
      BY <2>2, TypeFacts
    <3>2. /\ ToSet(sched_queue) \subseteq ToSet(sched_queue')
          /\ ToSet(sched_queue') \subseteq ToSet(sched_queue) \cup {w}
          /\ w \in ToSet(sched_queue')
      BY <3>1 DEF ToSet
    <3> QED BY <2>2, <3>1, <3>2 DEF Entered
  <2> QED BY <1>0, <2>1, <2>2
<1>9. InList'
  <2>1. ASSUME NEW t \in Threads, hnd[t] = "in"
        PROVE  harg[t] \notin ToSet(sched_queue')
    <3>1. harg[t] \notin ToSet(sched_queue) /\ pc[harg[t]] \in Entered
      BY <2>1, TypeFacts DEF PInv, InList, IInv, PointersEntered, TypeOK
    <3> QED BY <1>8, <3>1
  <2>2. \A u \in Workers : pc'[u] \in Entered /\ ~Doomed(u)' =>
          u \in ToSet(sched_queue') \/ \E t \in Threads : hnd[t] = "in" /\ harg[t] = u
    BY <1>0, <1>2, <1>8 DEF PInv, InList
  <2> QED BY <1>3, <1>8, <2>1, <2>2 DEF PInv, InList, Handling
<1>10. Counted'
  <2>1. Cancelled' = Cancelled
    BY <1>2 DEF Cancelled
  <2> QED BY <1>2, <1>3, <2>1 DEF PInv, Counted
<1>11. Room'
  <2>1. pc[w] = "insert" => QueueSize > 0
    BY EntryNeedsRoom
  <2> QED BY <1>0, <1>3, <2>1 DEF PInv, Room
<1>12. NoUndefined'
  <2>1. w \in freed => pc[w] # "announce"
    BY <1>1 DEF PInv, FreedDoomed, Doomed, Held, Awake
  <2> QED BY <1>0, <2>1 DEF PInv, NoUndefined
<1> QED BY <1>4, <1>5, <1>6, <1>7, <1>9, <1>10, <1>11, <1>12 DEF PInv

-----------------------------------------------------------------------------
(* The timer                                                               *)

LEMMA TickKeeps ==
  ASSUME IInv, PInv, Prompt, Tick
  PROVE  PInv'
<1>0. /\ Settled /\ sched # "wait" /\ now' = now + 1 /\ alarm' = TRUE
      /\ UNCHANGED <<main, sched, status, quit, currentThread, completed, queueVars,
                     workerVars, freed, hndVars>>
  BY DEF Tick, mainVars, globalVars, heapVars
<1>1. Calm /\ \A w \in Workers : Quiet(w)
  BY <1>0 DEF Settled, Calm
<1>2. \A w \in Workers : /\ Doomed(w)' <=> Doomed(w)
                         /\ Held(w)' <=> Held(w)
                         /\ Awake(w)' <=> Awake(w)
                         /\ Quiet(w)' <=> Quiet(w)
  BY <1>0 DEF Doomed, Held, Awake, Quiet, workerVars, queueVars
<1>3. OneHandler' /\ Still'
  BY <1>0, <1>1, <1>2 DEF PInv, OneHandler, Still, Calm, hndVars
<1>4. Phases'
  BY <1>0, <1>1, TypeFacts DEF Phases, Settled, Quiet, workerVars
<1>5. Signals'
  BY <1>0, <1>2, TypeFacts DEF PInv, Signals, Handling, hndVars
<1>6. FreedDoomed'
  BY <1>0, <1>1, <1>2, TypeFacts DEF PInv, FreedDoomed, Calm, hndVars
<1>7. InList'
  BY <1>0, <1>2 DEF PInv, InList, Handling, hndVars, queueVars, workerVars
<1>8. Counted'
  <2>1. Cancelled' = Cancelled
    BY <1>2 DEF Cancelled
  <2> QED BY <1>0, <1>2, <2>1 DEF PInv, Counted
<1>9. Room' /\ NoUndefined'
  BY <1>0 DEF PInv, Room, NoUndefined, queueVars
<1> QED BY <1>3, <1>4, <1>5, <1>6, <1>7, <1>8, <1>9 DEF PInv

-----------------------------------------------------------------------------
(* timer_handler                                                           *)

LEMMA TakeAlarmKeeps ==
  ASSUME IInv, PInv, NEW t \in Threads, TakeAlarm(t)
  PROVE  PInv'
<1>0. /\ alarm /\ ~alarm' /\ hnd' = [hnd EXCEPT ![t] = "check"]
      /\ harg' = [harg EXCEPT ![t] = Null]
      /\ UNCHANGED <<handlerFrame, globalVars, sched_queue, sig, heapVars>>
  BY DEF TakeAlarm, Goto
<1>1. Calm /\ now > 0 /\ \A w \in Workers : Quiet(w)
  BY <1>0, TypeFacts DEF PInv, OneHandler, Phases, Still
<1>2. /\ hnd'[t] = "check" /\ \A u \in Threads \ {t} : hnd'[u] = "idle"
  BY <1>0, <1>1, TypeFacts DEF Calm
<1>3. /\ ~Handling(Turning) /\ ~Handling(Turning)'
      /\ ~Handling(Turning \ {"resume"}) /\ ~Handling(Turning \ {"resume"})'
  BY <1>1, <1>2 DEF Handling, Turning, Calm
<1>4. \A w \in Workers : /\ Doomed(w)' <=> Doomed(w)
                         /\ Held(w)' <=> Held(w)
                         /\ Awake(w)' <=> Awake(w)
                         /\ Quiet(w)' <=> Quiet(w)
  BY <1>0 DEF Doomed, Held, Awake, Quiet, handlerFrame
<1>5. OneHandler' /\ Still'
  BY <1>0, <1>1, <1>2, <1>4 DEF OneHandler, Still
<1>6. Phases'
  BY <1>0, <1>1 DEF PInv, Phases, handlerFrame, mainVars
<1>7. Signals'
  BY <1>0, <1>3, <1>4, TypeFacts DEF PInv, Signals, globalVars
<1>8. FreedDoomed'
  BY <1>0, <1>2, <1>4, TypeFacts DEF PInv, FreedDoomed, heapVars
<1>9. InList'
  <2>1. ~ \E u \in Threads : hnd[u] = "in"
    BY <1>1 DEF Calm
  <2> QED BY <1>0, <1>2, <1>3, <1>4, <2>1
          DEF PInv, InList, globalVars, handlerFrame, heapVars
<1>10. Counted'
  <2>1. Cancelled' = Cancelled
    BY <1>4 DEF Cancelled
  <2> QED BY <1>0, <1>4, <2>1 DEF PInv, Counted, globalVars
<1>11. Room' /\ NoUndefined'
  BY <1>0 DEF PInv, Room, NoUndefined, handlerFrame
<1> QED BY <1>5, <1>6, <1>7, <1>8, <1>9, <1>10, <1>11 DEF PInv

\* A handler that runs is the only one.
LEMMA Alone ==
  ASSUME IInv, PInv, NEW t \in Threads, hnd[t] # "idle"
  PROVE  /\ ~alarm /\ now > 0 /\ \A u \in Threads \ {t} : hnd[u] = "idle"
         /\ Handling({"check", "suspend"}) <=> hnd[t] \in {"check", "suspend"}
         /\ Handling(Turning) <=> hnd[t] \in Turning
         /\ Handling(Turning \ {"resume"}) <=> hnd[t] \in Turning \ {"resume"}
<1>1. ~alarm /\ now > 0 /\ \A u \in Threads \ {t} : hnd[u] = "idle"
  BY TypeFacts DEF PInv, OneHandler, Phases, Calm
<1> QED BY <1>1 DEF Handling, Turning

\* A worker in the list is not cancelled unless its handler is about to remove it.
LEMMA ListedAlive ==
  ASSUME IInv, PInv, NEW t \in Threads, hnd[t] \notin {"idle", "leave"},
         NEW w \in ToSet(sched_queue)
  PROVE  w \in Workers /\ w \notin freed /\ ~Doomed(w) /\ ~Gone(w) /\ pc[w] \in Entered
<1>1. PICK k \in DOMAIN sched_queue : sched_queue[k] = w
  BY DEF ToSet
<1>2. w \in Workers /\ w \notin freed /\ pc[w] \in Entered
  BY <1>1, TypeFacts DEF IInv, ListSound
<1>3. \A u \in Threads : hnd[u] # "leave"
  BY Alone
<1>4. ~Doomed(w)
  BY <1>2, <1>3 DEF IInv, DoomedLeaving
<1> QED BY <1>2, <1>4 DEF Gone, Doomed

\* The handler touches nothing that is gone and inserts nobody twice.
LEMMA NeverFaulty ==
  ASSUME IInv, PInv, NEW t \in Threads
  PROVE  ~Faulty(t) /\ ~RotateInAgain(t)
<1>1. ~(hnd[t] = "suspend" /\ currentThread # Null /\ Gone(currentThread))
  <2> SUFFICES ASSUME hnd[t] = "suspend", currentThread # Null PROVE ~Gone(currentThread)
    OBVIOUS
  <2>1. currentThread \in ToSet(sched_queue)
    BY Alone DEF PInv, InList, Turning
  <2> QED BY <2>1, ListedAlive
<1>2. ~(hnd[t] \in {"out", "in", "leave"} /\ harg[t] \in freed)
  <2>1. CASE hnd[t] = "in"
    BY <2>1 DEF PInv, InList
  <2>2. ASSUME hnd[t] \in {"out", "leave"} PROVE harg[t] \notin freed
    <3>1. PICK k \in DOMAIN sched_queue : sched_queue[k] = harg[t]
      BY <2>2 DEF PInv, InList, ToSet
    <3> QED BY <3>1 DEF IInv, ListSound
  <2> QED BY <2>1, <2>2
<1>3. ~RotateInAgain(t)
  <2>1. hnd[t] = "in" => harg[t] \notin ToSet(sched_queue)
    BY DEF PInv, InList
  <2> QED BY <2>1 DEF RotateInAgain, ToSet
<1>4. ~(hnd[t] = "pick" /\ sched_queue = <<>>)
  BY DEF PInv, InList
<1>5. ~(hnd[t] = "resume" /\ Gone(harg[t]))
  <2> SUFFICES ASSUME hnd[t] = "resume" PROVE ~Gone(harg[t])
    OBVIOUS
  <2>1. harg[t] = currentThread /\ harg[t] # Null
    BY DEF PInv, InList, IInv, TypeOK, Null, Workers
  <2>2. currentThread \in ToSet(sched_queue)
    BY <2>1, Alone DEF PInv, InList, Turning
  <2> QED BY <2>1, <2>2, ListedAlive
<1> QED BY <1>1, <1>2, <1>3, <1>4, <1>5 DEF Faulty

\* What every step of a handler keeps, and where it leaves the handlers.
LEMMA HandlerFrame ==
  ASSUME IInv, PInv, NEW t \in Threads, hnd[t] # "idle", NEW step, NEW w,
         Goto(t, step, w), UNCHANGED handlerFrame, alarm' = alarm
  PROVE  /\ OneHandler' /\ Phases' /\ Room' /\ NoUndefined' /\ ~alarm'
         /\ hnd'[t] = step /\ harg'[t] = w
         /\ \A u \in Threads \ {t} : hnd[u] = "idle" /\ hnd'[u] = "idle"
         /\ Handling({"check", "suspend"})' <=> step \in {"check", "suspend"}
         /\ Handling(Turning)' <=> step \in Turning
         /\ Handling(Turning \ {"resume"})' <=> step \in Turning \ {"resume"}
<1>1. ~alarm /\ now > 0 /\ \A u \in Threads \ {t} : hnd[u] = "idle"
  BY Alone
<1>2. /\ hnd'[t] = step /\ harg'[t] = w /\ \A u \in Threads \ {t} : hnd'[u] = "idle"
  BY <1>1, TypeFacts DEF Goto
<1>3. OneHandler'
  BY <1>1, <1>2 DEF OneHandler
<1>4. Phases'
  BY <1>1, TypeFacts DEF PInv, Phases, handlerFrame, mainVars
<1>5. Room' /\ NoUndefined'
  BY <1>1 DEF PInv, Phases, Room, NoUndefined, handlerFrame
<1>6. /\ Handling({"check", "suspend"})' <=> step \in {"check", "suspend"}
      /\ Handling(Turning)' <=> step \in Turning
      /\ Handling(Turning \ {"resume"})' <=> step \in Turning \ {"resume"}
  BY <1>2 DEF Handling, Turning
<1> QED BY <1>1, <1>2, <1>3, <1>4, <1>5, <1>6

\* Without a signal every worker stays as it is.
LEMMA NoSignal ==
  ASSUME UNCHANGED <<pc, susp, sig, queue_sem>>
  PROVE  \A w : /\ Doomed(w)' <=> Doomed(w)
                /\ Held(w)' <=> Held(w)
                /\ Awake(w)' <=> Awake(w)
                /\ Quiet(w)' <=> Quiet(w)
BY DEF Doomed, Held, Awake, Quiet

\* When the list is empty at the expiry of the timer every worker is cancelled:
\* one that waited for a token would find one.
LEMMA EmptyMeansDone ==
  ASSUME IInv, PInv, NEW t \in Threads, hnd[t] = "check", sched_queue = <<>>
  PROVE  \A w \in Workers : Doomed(w)
<1>1. /\ now > 0 /\ \A u \in Threads : hnd[u] # "in"
      /\ \A w \in Workers : Quiet(w)
  BY Alone DEF PInv, Still
<1>2. \A w \in Workers : pc[w] \in Entered => Doomed(w)
  BY <1>1 DEF PInv, InList, ToSet
<1>3. \A w \in Workers : Doomed(w) => pc[w] = "dead"
  BY <1>1 DEF Doomed, Quiet, IInv, PointersEntered, Entered
<1>4. Holders = {}
  BY <1>1, <1>2, <1>3 DEF Holders, Quiet, Entered
<1>5. queue_sem > 0
  <2>1. Cardinality(Holders) = 0
    BY <1>4, FS_EmptySet
  <2>2. QueueSize > 0
    BY <1>1 DEF PInv, Phases, Room
  <2> QED BY <2>1, <2>2, TypeFacts DEF IInv, TypeOK, TokenConservation
<1> QED BY <1>1, <1>2, <1>5 DEF Quiet, Entered

LEMMA CheckKeeps ==
  ASSUME IInv, PInv, NEW t \in Threads, Check(t)
  PROVE  PInv'
<1>0. /\ hnd[t] = "check"
      /\ UNCHANGED <<handlerFrame, alarm, currentThread, completed, sched_queue, sig, heapVars>>
      /\ \/ sched_queue = <<>> /\ quit' = TRUE /\ Goto(t, "idle", Null)
         \/ quit' = quit /\ Goto(t, "suspend", Null)
  BY DEF Check
<1>1. PICK step \in {"idle", "suspend"} :
        /\ Goto(t, step, Null)
        /\ quit' = quit \/ (sched_queue = <<>> /\ quit' = TRUE)
  BY <1>0
<1>2. /\ OneHandler' /\ Phases' /\ Room' /\ NoUndefined' /\ ~alarm'
      /\ hnd'[t] = step /\ \A u \in Threads \ {t} : hnd[u] = "idle" /\ hnd'[u] = "idle"
      /\ ~Handling(Turning)' /\ ~Handling(Turning \ {"resume"})'
  BY <1>0, <1>1, HandlerFrame DEF Turning
<1>3. /\ ~Handling(Turning) /\ ~Handling(Turning \ {"resume"})
      /\ Handling({"check", "suspend"})
  BY <1>0, Alone DEF Turning
<1>4. \A w : /\ Doomed(w)' <=> Doomed(w)
             /\ Held(w)' <=> Held(w)
             /\ Awake(w)' <=> Awake(w)
             /\ Quiet(w)' <=> Quiet(w)
  BY <1>0, NoSignal DEF handlerFrame
<1>5. Signals' /\ Still'
  BY <1>0, <1>2, <1>3, <1>4, TypeFacts DEF PInv, Signals, Still
<1>6. FreedDoomed'
  BY <1>0, <1>2, <1>4 DEF PInv, FreedDoomed, heapVars
<1>7. InList'
  <2>1. ~ \E u \in Threads : hnd[u] = "in"
    BY <1>0, <1>2
  <2> QED BY <1>0, <1>2, <1>3, <1>4, <2>1 DEF PInv, InList, handlerFrame, heapVars
<1>8. Counted'
  <2>1. Cancelled' = Cancelled
    BY <1>4 DEF Cancelled
  <2>2. quit' => \A w \in Workers : Doomed(w)
    BY <1>0, <1>1, EmptyMeansDone DEF PInv, Counted
  <2> QED BY <1>0, <1>4, <2>1, <2>2 DEF PInv, Counted
<1> QED BY <1>2, <1>5, <1>6, <1>7, <1>8 DEF PInv

\* The steps that only move the handler on.
LEMMA MoveOnKeeps ==
  ASSUME IInv, PInv, NEW t \in Threads,
         NobodyToSuspend(t) \/ wait_for_queue(t) \/ SpinEnds(t)
  PROVE  PInv'
<1>1. PICK step \in {"next", "wait", "pick"} :
        /\ Goto(t, step, Null)
        /\ step = "pick" => sched_queue # <<>>
        /\ hnd[t] \in Turning \/ (hnd[t] = "suspend" /\ currentThread = Null)
        /\ hnd[t] \in {"suspend", "next", "wait"}
        /\ UNCHANGED <<handlerFrame, alarm, globalVars, sched_queue, sig, heapVars>>
  BY DEF NobodyToSuspend, wait_for_queue, SpinEnds, Turning
<1>2. /\ OneHandler' /\ Phases' /\ Room' /\ NoUndefined' /\ ~alarm'
      /\ hnd'[t] = step /\ \A u \in Threads \ {t} : hnd[u] = "idle" /\ hnd'[u] = "idle"
      /\ ~Handling({"check", "suspend"})' /\ Handling(Turning)'
      /\ Handling(Turning \ {"resume"})'
  BY <1>1, HandlerFrame DEF Turning
<1>3. Handling(Turning) <=> hnd[t] \in Turning
  BY <1>1, Alone
<1>4. \A w : /\ Doomed(w)' <=> Doomed(w)
             /\ Held(w)' <=> Held(w)
  BY <1>1, NoSignal DEF handlerFrame
<1>5. Signals' /\ Still'
  BY <1>1, <1>2, <1>3, <1>4, TypeFacts DEF PInv, Signals, Still, globalVars
<1>6. FreedDoomed'
  BY <1>1, <1>2, <1>4 DEF PInv, FreedDoomed, heapVars
<1>7. InList'
  <2>1. ~ \E u \in Threads : hnd[u] = "in"
    BY <1>1, <1>2
  <2> QED BY <1>1, <1>2, <1>4, <2>1 DEF PInv, InList, handlerFrame, heapVars
<1>8. Counted'
  <2>1. Cancelled' = Cancelled
    BY <1>4 DEF Cancelled
  <2> QED BY <1>1, <1>4, <2>1 DEF PInv, Counted, globalVars
<1> QED BY <1>2, <1>5, <1>6, <1>7, <1>8 DEF PInv

\* Removing a worker removes it and no other.
LEMMA RemoveIs ==
  ASSUME IInv, NEW w
  PROVE  /\ ToSet(list_remove(sched_queue, w)) = ToSet(sched_queue) \ {w}
         /\ list_remove(sched_queue, w) \in Seq(Workers)
<1>1. \A k, l \in DOMAIN sched_queue : sched_queue[k] = sched_queue[l] => k = l
  BY DEF IInv, ListSound
<1>2. /\ list_remove(sched_queue, w) \in Seq(Workers)
      /\ \A k \in DOMAIN list_remove(sched_queue, w) :
           /\ list_remove(sched_queue, w)[k] # w
           /\ \E l \in DOMAIN sched_queue : list_remove(sched_queue, w)[k] = sched_queue[l]
      /\ \A l \in DOMAIN sched_queue : sched_queue[l] # w =>
           \E k \in DOMAIN list_remove(sched_queue, w) :
             list_remove(sched_queue, w)[k] = sched_queue[l]
  BY <1>1, TypeFacts, ListRemove
<1> QED BY <1>2 DEF ToSet

\* The suspension of the current worker: SIGUSR1 while it computes.
LEMMA SuspendKeeps ==
  ASSUME IInv, PInv, NEW t \in Threads, suspend_worker(t)
  PROVE  PInv'
<1>0. PICK c \in Workers :
      /\ hnd[t] = "suspend" /\ c = currentThread
      /\ sig' = [sig EXCEPT ![c] = @ \cup {"USR1"}] /\ Goto(t, "out", c)
      /\ UNCHANGED <<handlerFrame, alarm, globalVars, sched_queue, freed>>
  BY TypeFacts DEF suspend_worker, pthread_kill
<1>1. /\ OneHandler' /\ Phases' /\ Room' /\ NoUndefined' /\ ~alarm'
      /\ hnd'[t] = "out" /\ harg'[t] = c
      /\ \A u \in Threads \ {t} : hnd[u] = "idle" /\ hnd'[u] = "idle"
      /\ ~Handling({"check", "suspend"})' /\ Handling(Turning)'
      /\ Handling(Turning \ {"resume"})'
  BY <1>0, HandlerFrame DEF Turning
<1>2. /\ ~Handling(Turning) /\ ~Handling(Turning \ {"resume"})
      /\ Handling({"check", "suspend"})
  BY <1>0, Alone DEF Turning
<1>3. /\ \A w \in Workers : Quiet(w)
      /\ Awake(c) /\ \A w \in Workers \ {c} : Held(w)
      /\ c \in ToSet(sched_queue)
  BY <1>0, <1>2, TypeFacts DEF PInv, Still, Signals, InList
<1>4. pc[c] = "work" /\ ~susp[c] /\ sig[c] = {}
  <2>1. Awake(c) /\ Quiet(c)
    BY <1>0, <1>3
  <2> QED BY <2>1 DEF Awake, Quiet
<1>5. \A w \in Workers : /\ Doomed(w)' <=> Doomed(w)
                         /\ Held(w)'
  <2>1. /\ UNCHANGED <<pc, susp>> /\ sig'[c] = {"USR1"}
        /\ \A w \in Workers \ {c} : sig'[w] = sig[w]
    BY <1>0, <1>4, TypeFacts DEF handlerFrame
  <2>2. Held(c)' /\ (Doomed(c)' <=> Doomed(c))
    BY <1>4, <2>1 DEF Held, Doomed
  <2>3. \A w \in Workers \ {c} : Held(w)' /\ (Doomed(w)' <=> Doomed(w))
    BY <1>3, <2>1 DEF Held, Doomed
  <2> QED BY <2>2, <2>3
<1>6. Signals' /\ Still'
  BY <1>1, <1>5 DEF Signals, Still
<1>7. FreedDoomed'
  BY <1>0, <1>1, <1>5, TypeFacts DEF PInv, FreedDoomed
<1>8. InList'
  <2>1. ~ \E u \in Threads : hnd[u] = "in"
    BY <1>0, <1>1
  <2> QED BY <1>0, <1>1, <1>3, <1>5, <2>1 DEF PInv, InList, handlerFrame
<1>9. Counted'
  <2>1. Cancelled' = Cancelled
    BY <1>5 DEF Cancelled
  <2> QED BY <1>0, <1>5, <2>1 DEF PInv, Counted, globalVars
<1> QED BY <1>1, <1>6, <1>7, <1>8, <1>9 DEF PInv

\* Its cancellation: one more worker is counted, and it is not counted twice.
LEMMA CancelKeeps ==
  ASSUME IInv, PInv, NEW t \in Threads, cancel_worker(t)
  PROVE  PInv'
<1>0. PICK c \in Workers :
      /\ hnd[t] = "suspend" /\ c = currentThread
      /\ sig' = [sig EXCEPT ![c] = @ \cup {"TERM"}] /\ Goto(t, "leave", c)
      /\ completed' = completed + 1
      /\ UNCHANGED <<handlerFrame, alarm, quit, currentThread, sched_queue, freed>>
  BY TypeFacts DEF cancel_worker, pthread_kill
<1>1. /\ OneHandler' /\ Phases' /\ Room' /\ NoUndefined' /\ ~alarm'
      /\ hnd'[t] = "leave" /\ harg'[t] = c
      /\ \A u \in Threads \ {t} : hnd[u] = "idle" /\ hnd'[u] = "idle"
      /\ ~Handling({"check", "suspend"})' /\ Handling(Turning)'
      /\ Handling(Turning \ {"resume"})'
  BY <1>0, HandlerFrame DEF Turning
<1>2. /\ ~Handling(Turning) /\ ~Handling(Turning \ {"resume"})
      /\ Handling({"check", "suspend"})
  BY <1>0, Alone DEF Turning
<1>3. /\ \A w \in Workers : Quiet(w)
      /\ Awake(c) /\ \A w \in Workers \ {c} : Held(w)
      /\ c \in ToSet(sched_queue)
  BY <1>0, <1>2, TypeFacts DEF PInv, Still, Signals, InList
<1>4. pc[c] = "work" /\ ~susp[c] /\ sig[c] = {} /\ ~Doomed(c)
  <2>1. Awake(c) /\ Quiet(c)
    BY <1>0, <1>3
  <2> QED BY <2>1 DEF Awake, Quiet, Doomed
<1>5. /\ Doomed(c)'
      /\ \A w \in Workers \ {c} : Doomed(w)' <=> Doomed(w)
      /\ \A w \in Workers : Held(w)'
  <2>1. /\ UNCHANGED <<pc, susp>> /\ sig'[c] = {"TERM"}
        /\ \A w \in Workers \ {c} : sig'[w] = sig[w]
    BY <1>0, <1>4, TypeFacts DEF handlerFrame
  <2>2. Held(c)' /\ Doomed(c)'
    BY <1>4, <2>1 DEF Held, Doomed
  <2>3. \A w \in Workers \ {c} : Held(w)' /\ (Doomed(w)' <=> Doomed(w))
    BY <1>3, <2>1 DEF Held, Doomed
  <2> QED BY <2>2, <2>3
<1>6. Signals' /\ Still'
  BY <1>1, <1>5 DEF Signals, Still
<1>7. FreedDoomed'
  BY <1>0, <1>1, <1>5, TypeFacts DEF PInv, FreedDoomed
<1>8. InList'
  <2>1. ~ \E u \in Threads : hnd[u] = "in"
    BY <1>0, <1>1
  <2> QED BY <1>0, <1>1, <1>3, <1>5, <2>1 DEF PInv, InList, handlerFrame
<1>9. Counted'
  <2>1. Cancelled' = Cancelled \cup {c} /\ c \notin Cancelled
    BY <1>0, <1>4, <1>5 DEF Cancelled
  <2>2. IsFiniteSet(Cancelled)
    <3>1. IsFiniteSet(Workers)
      BY TypeFacts, FS_Interval DEF Workers
    <3> QED BY <3>1, FS_Subset DEF Cancelled
  <2>3. Cardinality(Cancelled') = Cardinality(Cancelled) + 1
    BY <2>1, <2>2, FS_AddElement
  <2> QED BY <1>0, <1>5, <2>3 DEF PInv, Counted
<1> QED BY <1>1, <1>6, <1>7, <1>8, <1>9 DEF PInv

\* The first half of a rotation: the worker is out of the list, not freed.
LEMMA RotateOutKeeps ==
  ASSUME IInv, PInv, NEW t \in Threads, RotateOut(t)
  PROVE  PInv'
<1>0. PICK c \in Workers :
      /\ hnd[t] = "out" /\ c = harg[t] /\ c \in ToSet(sched_queue)
      /\ Goto(t, "in", c) /\ sched_queue' = list_remove(sched_queue, c)
      /\ UNCHANGED <<handlerFrame, alarm, globalVars, sig, freed>>
  BY DEF RotateOut, IInv, TypeOK, PInv, InList, heapVars
<1>1. /\ OneHandler' /\ Phases' /\ Room' /\ NoUndefined' /\ ~alarm'
      /\ hnd'[t] = "in" /\ harg'[t] = c
      /\ \A u \in Threads \ {t} : hnd[u] = "idle" /\ hnd'[u] = "idle"
      /\ ~Handling({"check", "suspend"})' /\ Handling(Turning)'
      /\ Handling(Turning \ {"resume"})'
  BY <1>0, HandlerFrame DEF Turning
<1>2. Handling(Turning)
  BY <1>0, Alone DEF Turning
<1>3. \A w : /\ Doomed(w)' <=> Doomed(w)
             /\ Held(w)' <=> Held(w)
  BY <1>0, NoSignal DEF handlerFrame
<1>4. /\ ToSet(sched_queue') = ToSet(sched_queue) \ {c} /\ c \notin freed
  BY <1>0, RemoveIs, ListedAlive
<1>5. Signals' /\ Still'
  BY <1>1, <1>2, <1>3 DEF PInv, Signals, Still
<1>6. FreedDoomed'
  BY <1>0, <1>1, <1>3, TypeFacts DEF PInv, FreedDoomed
<1>7. InList'
  <2>1. ~ \E u \in Threads : hnd[u] = "in"
    BY <1>0, <1>1
  <2>2. \A w \in Workers : pc'[w] \in Entered /\ ~Doomed(w)' =>
          w \in ToSet(sched_queue') \/ \E u \in Threads : hnd'[u] = "in" /\ harg'[u] = w
    BY <1>0, <1>1, <1>3, <1>4, <2>1 DEF PInv, InList, handlerFrame
  <2> QED BY <1>0, <1>1, <1>4, <2>2 DEF InList
<1>8. Counted'
  <2>1. Cancelled' = Cancelled
    BY <1>3 DEF Cancelled
  <2> QED BY <1>0, <1>3, <2>1 DEF PInv, Counted, globalVars
<1> QED BY <1>1, <1>5, <1>6, <1>7, <1>8 DEF PInv

\* The second half: it is back, at the tail.
LEMMA RotateInKeeps ==
  ASSUME IInv, PInv, NEW t \in Threads, RotateIn(t)
  PROVE  PInv'
<1>0. PICK c \in Workers :
      /\ hnd[t] = "in" /\ c = harg[t]
      /\ Goto(t, "next", Null) /\ sched_queue' = Append(sched_queue, c)
      /\ UNCHANGED <<handlerFrame, alarm, globalVars, sig, freed>>
  BY DEF RotateIn, list_insert_tail, IInv, TypeOK, heapVars
<1>1. /\ OneHandler' /\ Phases' /\ Room' /\ NoUndefined' /\ ~alarm'
      /\ hnd'[t] = "next"
      /\ \A u \in Threads \ {t} : hnd[u] = "idle" /\ hnd'[u] = "idle"
      /\ ~Handling({"check", "suspend"})' /\ Handling(Turning)'
      /\ Handling(Turning \ {"resume"})'
  BY <1>0, HandlerFrame DEF Turning
<1>2. Handling(Turning)
  BY <1>0, Alone DEF Turning
<1>3. \A w : /\ Doomed(w)' <=> Doomed(w)
             /\ Held(w)' <=> Held(w)
  BY <1>0, NoSignal DEF handlerFrame
<1>4. ToSet(sched_queue') = ToSet(sched_queue) \cup {c}
  <2>1. /\ Len(sched_queue) \in Nat
        /\ DOMAIN sched_queue = 1..Len(sched_queue)
        /\ DOMAIN sched_queue' = 1..Len(sched_queue) + 1
        /\ \A k \in 1..Len(sched_queue) : sched_queue'[k] = sched_queue[k]
        /\ sched_queue'[Len(sched_queue) + 1] = c
    BY <1>0, TypeFacts
  <2> QED BY <2>1 DEF ToSet
<1>5. Signals' /\ Still'
  BY <1>1, <1>2, <1>3 DEF PInv, Signals, Still
<1>6. FreedDoomed'
  BY <1>0, <1>1, <1>3, TypeFacts DEF PInv, FreedDoomed
<1>7. InList'
  <2>1. \A u \in Threads : hnd[u] = "in" => harg[u] = c
    BY <1>0, <1>1
  <2>2. \A w \in Workers : pc'[w] \in Entered /\ ~Doomed(w)' => w \in ToSet(sched_queue')
    BY <1>0, <1>3, <1>4, <2>1 DEF PInv, InList, handlerFrame
  <2> QED BY <1>1, <2>2 DEF InList
<1>8. Counted'
  <2>1. Cancelled' = Cancelled
    BY <1>3 DEF Cancelled
  <2> QED BY <1>0, <1>3, <2>1 DEF PInv, Counted, globalVars
<1> QED BY <1>1, <1>5, <1>6, <1>7, <1>8 DEF PInv

\* A cancelled worker leaves the list and is freed.
LEMMA LeaveKeeps ==
  ASSUME IInv, PInv, NEW t \in Threads, leave_scheduler_queue(t)
  PROVE  PInv'
<1>0. PICK c \in Workers :
      /\ hnd[t] = "leave" /\ c = harg[t] /\ Doomed(c)
      /\ Goto(t, "next", Null) /\ sched_queue' = list_remove(sched_queue, c)
      /\ freed' = freed \cup {c}
      /\ UNCHANGED <<handlerFrame, alarm, globalVars, sig>>
  BY DEF leave_scheduler_queue, IInv, TypeOK, PInv, FreedDoomed
<1>1. /\ OneHandler' /\ Phases' /\ Room' /\ NoUndefined' /\ ~alarm'
      /\ hnd'[t] = "next"
      /\ \A u \in Threads \ {t} : hnd[u] = "idle" /\ hnd'[u] = "idle"
      /\ ~Handling({"check", "suspend"})' /\ Handling(Turning)'
      /\ Handling(Turning \ {"resume"})'
  BY <1>0, HandlerFrame DEF Turning
<1>2. Handling(Turning)
  BY <1>0, Alone DEF Turning
<1>3. \A w : /\ Doomed(w)' <=> Doomed(w)
             /\ Held(w)' <=> Held(w)
  BY <1>0, NoSignal DEF handlerFrame
<1>4. ToSet(sched_queue') = ToSet(sched_queue) \ {c}
  BY <1>0, RemoveIs
<1>5. Signals' /\ Still'
  BY <1>1, <1>2, <1>3 DEF PInv, Signals, Still
<1>6. FreedDoomed'
  BY <1>0, <1>1, <1>3, TypeFacts DEF PInv, FreedDoomed
<1>7. InList'
  <2>1. ~ \E u \in Threads : hnd[u] = "in"
    BY <1>0, <1>1
  <2>2. \A w \in Workers : pc'[w] \in Entered /\ ~Doomed(w)' => w \in ToSet(sched_queue')
    BY <1>0, <1>3, <1>4, <2>1 DEF PInv, InList, handlerFrame
  <2> QED BY <1>1, <2>2 DEF InList
<1>8. Counted'
  <2>1. Cancelled' = Cancelled
    BY <1>3 DEF Cancelled
  <2> QED BY <1>0, <1>3, <2>1 DEF PInv, Counted, globalVars
<1> QED BY <1>1, <1>5, <1>6, <1>7, <1>8 DEF PInv

\* When as many are counted as there are workers, all of them are cancelled.
LEMMA AllCancelled ==
  ASSUME IInv, PInv, completed >= ThreadCount
  PROVE  Cancelled = Workers
<1>1. IsFiniteSet(Workers) /\ Cardinality(Workers) = ThreadCount
  BY TypeFacts, FS_Interval DEF Workers
<1>2. Cancelled \subseteq Workers
  BY DEF Cancelled
<1>3. /\ IsFiniteSet(Cancelled) /\ Cardinality(Cancelled) <= Cardinality(Workers)
      /\ Cardinality(Cancelled) = Cardinality(Workers) => Cancelled = Workers
  BY <1>1, <1>2, FS_Subset
<1>4. Cardinality(Cancelled) \in Nat
  BY <1>3, FS_CardinalityType
<1> QED BY <1>1, <1>3, <1>4, TypeFacts DEF PInv, Counted

LEMMA AllCompletedKeeps ==
  ASSUME IInv, PInv, NEW t \in Threads, AllCompleted(t)
  PROVE  PInv'
<1>0. /\ hnd[t] = "next" /\ completed >= ThreadCount /\ currentThread' = Null
      /\ Goto(t, "idle", Null)
      /\ UNCHANGED <<handlerFrame, alarm, completed, sched_queue, sig, freed>>
  BY DEF AllCompleted, heapVars
<1>1. /\ OneHandler' /\ Phases' /\ Room' /\ NoUndefined' /\ ~alarm'
      /\ hnd'[t] = "idle"
      /\ \A u \in Threads \ {t} : hnd[u] = "idle" /\ hnd'[u] = "idle"
      /\ ~Handling({"check", "suspend"})'
  BY <1>0, HandlerFrame
<1>2. Handling(Turning)
  BY <1>0, Alone DEF Turning
<1>3. \A w : /\ Doomed(w)' <=> Doomed(w)
             /\ Held(w)' <=> Held(w)
  BY <1>0, NoSignal DEF handlerFrame
<1>4. Signals' /\ Still'
  BY <1>0, <1>1, <1>2, <1>3 DEF PInv, Signals, Still
<1>5. FreedDoomed'
  BY <1>0, <1>1, <1>3 DEF PInv, FreedDoomed
<1>6. InList'
  <2>1. ~ \E u \in Threads : hnd[u] = "in"
    BY <1>0, <1>1
  <2> QED BY <1>0, <1>1, <1>3, <2>1 DEF PInv, InList, handlerFrame
<1>7. Counted'
  <2>1. Cancelled' = Cancelled
    BY <1>3 DEF Cancelled
  <2>2. \A w \in Workers : Doomed(w)'
    BY <1>0, <1>3, AllCancelled DEF Cancelled
  <2> QED BY <1>0, <2>1, <2>2 DEF PInv, Counted
<1> QED BY <1>1, <1>4, <1>5, <1>6, <1>7 DEF PInv

LEMMA PickHeadKeeps ==
  ASSUME IInv, PInv, NEW t \in Threads, PickHead(t)
  PROVE  PInv'
<1>0. PICK c \in ToSet(sched_queue) :
      /\ hnd[t] = "pick" /\ currentThread' = c /\ c \in Workers
      /\ Goto(t, "resume", c)
      /\ UNCHANGED <<handlerFrame, alarm, quit, completed, sched_queue, sig, freed>>
  <2>1. sched_queue # <<>>
    BY DEF PickHead, PInv, InList
  <2>2. 1 \in DOMAIN sched_queue /\ Head(sched_queue) = sched_queue[1]
        /\ sched_queue[1] \in Workers
    BY <2>1, TypeFacts
  <2> QED BY <2>2 DEF PickHead, ToSet, heapVars
<1>1. /\ OneHandler' /\ Phases' /\ Room' /\ NoUndefined' /\ ~alarm'
      /\ hnd'[t] = "resume" /\ harg'[t] = c
      /\ \A u \in Threads \ {t} : hnd[u] = "idle" /\ hnd'[u] = "idle"
      /\ ~Handling({"check", "suspend"})' /\ Handling(Turning)'
  BY <1>0, HandlerFrame DEF Turning
<1>2. Handling(Turning)
  BY <1>0, Alone DEF Turning
<1>3. \A w : /\ Doomed(w)' <=> Doomed(w)
             /\ Held(w)' <=> Held(w)
  BY <1>0, NoSignal DEF handlerFrame
<1>4. Signals' /\ Still'
  BY <1>1, <1>2, <1>3 DEF PInv, Signals, Still
<1>5. FreedDoomed'
  BY <1>0, <1>1, <1>3 DEF PInv, FreedDoomed
<1>6. InList'
  <2>1. ~ \E u \in Threads : hnd[u] = "in"
    BY <1>0, <1>1
  <2>2. \A w \in Workers : pc'[w] \in Entered /\ ~Doomed(w)' => w \in ToSet(sched_queue')
    BY <1>0, <1>3, <2>1 DEF PInv, InList, handlerFrame
  <2> QED BY <1>0, <1>1, <2>2 DEF InList
<1>7. Counted'
  <2>1. Cancelled' = Cancelled
    BY <1>3 DEF Cancelled
  <2> QED BY <1>0, <1>3, <2>1 DEF PInv, Counted
<1> QED BY <1>1, <1>4, <1>5, <1>6, <1>7 DEF PInv

\* The worker resumed is held, and SIGUSR2 is all it waits for.
LEMMA ResumeKeeps ==
  ASSUME IInv, PInv, NEW t \in Threads, resume_worker(t)
  PROVE  PInv'
<1>0. PICK c \in Workers :
      /\ hnd[t] = "resume" /\ c = currentThread
      /\ sig' = [sig EXCEPT ![c] = @ \cup {"USR2"}] /\ Goto(t, "idle", Null)
      /\ UNCHANGED <<handlerFrame, alarm, globalVars, sched_queue, freed>>
  <2>1. harg[t] \in Workers /\ harg[t] = currentThread
    BY DEF resume_worker, IInv, TypeOK, PInv, InList
  <2> QED BY <2>1 DEF resume_worker, pthread_kill
<1>1. /\ OneHandler' /\ Phases' /\ Room' /\ NoUndefined' /\ ~alarm'
      /\ hnd'[t] = "idle"
      /\ \A u \in Threads \ {t} : hnd[u] = "idle" /\ hnd'[u] = "idle"
      /\ ~Handling({"check", "suspend"})' /\ ~Handling(Turning)'
      /\ ~Handling(Turning \ {"resume"})'
  BY <1>0, HandlerFrame DEF Turning
<1>2. Handling(Turning) /\ ~Handling(Turning \ {"resume"})
  BY <1>0, Alone DEF Turning
<1>3. /\ \A w \in Workers : Held(w)
      /\ c \in ToSet(sched_queue)
  BY <1>0, <1>2, TypeFacts DEF PInv, Signals, InList
<1>4. ~Doomed(c) /\ pc[c] \in Entered \ {"dead"}
  BY <1>0, <1>3, ListedAlive DEF Doomed
<1>5. /\ Awake(c)'
      /\ \A w \in Workers \ {c} : Held(w)'
      /\ \A w \in Workers : Doomed(w)' <=> Doomed(w)
  <2>1. /\ UNCHANGED <<pc, susp>> /\ sig'[c] = sig[c] \cup {"USR2"}
        /\ \A w \in Workers \ {c} : sig'[w] = sig[w]
    BY <1>0, TypeFacts DEF handlerFrame
  <2>2. {} \cup {"USR2"} = {"USR2"} /\ {"USR1"} \cup {"USR2"} = {"USR1", "USR2"}
    OBVIOUS
  <2>3. Awake(c)'
    <3>1. sig[c] # {"TERM"}
      BY <1>4 DEF Doomed
    <3>2. CASE pc[c] # "work"
      BY <1>3, <1>4, <2>1, <2>2, <3>2 DEF Held, Awake, Entered
    <3>3. CASE pc[c] = "work"
      BY <1>3, <2>1, <2>2, <3>1, <3>3 DEF Held, Awake
    <3> QED BY <3>2, <3>3
  <2>4. \A w \in Workers \ {c} : Held(w)' /\ (Doomed(w)' <=> Doomed(w))
    BY <1>3, <2>1 DEF Held, Doomed
  <2>5. Doomed(c)' <=> Doomed(c)
    BY <1>4, <2>1 DEF Doomed
  <2> QED BY <2>3, <2>4, <2>5
<1>6. Signals' /\ Still'
  BY <1>0, <1>1, <1>5, TypeFacts DEF Signals, Still, globalVars
<1>7. FreedDoomed'
  BY <1>0, <1>1, <1>5, TypeFacts DEF PInv, FreedDoomed
<1>8. InList'
  <2>1. ~ \E u \in Threads : hnd[u] = "in"
    BY <1>0, <1>1
  <2> QED BY <1>0, <1>1, <1>3, <1>5, <2>1 DEF PInv, InList, handlerFrame, globalVars
<1>9. Counted'
  <2>1. Cancelled' = Cancelled
    BY <1>5 DEF Cancelled
  <2> QED BY <1>0, <1>5, <2>1 DEF PInv, Counted, globalVars
<1> QED BY <1>1, <1>6, <1>7, <1>8, <1>9 DEF PInv

LEMMA HandlerKeeps ==
  ASSUME IInv, PInv, NEW t \in Threads, timer_handler(t)
  PROVE  PInv'
<1>1. \/ Check(t) \/ NobodyToSuspend(t) \/ suspend_worker(t)
      \/ cancel_worker(t) \/ RotateOut(t) \/ RotateIn(t)
      \/ leave_scheduler_queue(t) \/ AllCompleted(t) \/ wait_for_queue(t)
      \/ SpinEnds(t) \/ PickHead(t) \/ resume_worker(t)
  BY NeverFaulty DEF timer_handler
<1> QED
  BY <1>1, CheckKeeps, MoveOnKeeps, SuspendKeeps, CancelKeeps, RotateOutKeeps,
     RotateInKeeps, LeaveKeeps, AllCompletedKeeps, PickHeadKeeps, ResumeKeeps

-----------------------------------------------------------------------------
(* The theorems                                                            *)

LEMMA PromptInit == ASSUME Init PROVE PInv
<1>1. /\ \A t \in Threads : hnd[t] = "idle"
      /\ \A w \in Workers : ~Doomed(w) /\ Held(w) /\ pc[w] = "unborn"
      /\ currentThread = Null /\ ~alarm /\ now = 0 /\ freed = {} /\ sched_queue = <<>>
      /\ completed = 0 /\ ~quit /\ sched = "wait" /\ status = "running"
  BY DEF Init, Doomed, Held
<1>2. OneHandler /\ Phases /\ Signals /\ Still
  BY <1>1 DEF OneHandler, Calm, Phases, Signals, Handling, Still
<1>3. FreedDoomed /\ Room /\ NoUndefined
  BY <1>1 DEF FreedDoomed, Room, NoUndefined
<1>4. InList
  BY <1>1 DEF InList, Handling, Entered
<1>5. Counted
  <2>1. Cancelled = {}
    BY <1>1 DEF Cancelled
  <2> QED BY <1>1, <2>1, FS_EmptySet DEF Counted
<1> QED BY <1>2, <1>3, <1>4, <1>5 DEF PInv

LEMMA PromptStep ==
  ASSUME Prompt, IInv, PInv, [Next]_vars
  PROVE  PInv'
<1>1. CASE MainThread
  BY <1>1, CreateKeeps, MainKeeps DEF MainThread
<1>2. CASE CreateFails
  BY <1>2, MainKeeps
<1>3. CASE SchedThread
  BY <1>3, SchedKeeps DEF SchedThread
<1>4. ASSUME NEW w \in Workers, Worker(w) PROVE PInv'
  BY <1>4, WorkerKeeps
<1>5. ASSUME NEW t \in Threads, TakeAlarm(t) PROVE PInv'
  BY <1>5, TakeAlarmKeeps
<1>6. ASSUME NEW t \in Threads, timer_handler(t) PROVE PInv'
  BY <1>6, HandlerKeeps
<1>7. CASE Tick
  BY <1>7, TickKeeps
<1>8. CASE Stopped \/ UNCHANGED vars
  BY <1>8, StillKeeps DEF Stopped
<1> QED BY <1>1, <1>2, <1>3, <1>4, <1>5, <1>6, <1>7, <1>8 DEF Next

\* PInv is invariant when the threads answer within a quantum.
THEOREM PromptInvariance == Prompt => (Spec => []PInv)
<1> SUFFICES ASSUME Prompt PROVE Spec => []PInv
  OBVIOUS
<1>1. Init => PInv
  BY PromptInit
<1>2. IInv /\ PInv /\ [Next]_vars => PInv'
  BY PromptStep
<1>3. Spec => []IInv
  BY Invariance
<1> QED BY <1>1, <1>2, <1>3, PTL DEF Spec

\* Then no handler, worker or main thread touches freed memory, a NULL list head or
\* the id of a dead thread, and none inserts an element twice (scheduler.c:152-186).
THEOREM NothingUndefined == Prompt => (Spec => []NoUndefined)
<1> SUFFICES ASSUME Prompt PROVE Spec => []NoUndefined
  OBVIOUS
<1>1. PInv => NoUndefined
  BY DEF PInv
<1> QED BY <1>1, PromptInvariance, PTL

\* Of the workers in the queue only the current one computes: SIGUSR1 and SIGTERM
\* reach the last worker before SIGUSR2 reaches the next (scheduler.c:35-91).
THEOREM OneAtATime == Prompt => (Spec => []OneRunner)
<1> SUFFICES ASSUME Prompt PROVE Spec => []OneRunner
  OBVIOUS
<1>1. PInv => OneRunner
  <2> SUFFICES ASSUME PInv, NEW w \in Workers, Computing(w), w # currentThread PROVE FALSE
    BY DEF OneRunner
  <2>1. Held(w)
    BY DEF PInv, Signals
  <2> QED BY <2>1 DEF Held, Computing
<1> QED BY <1>1, PromptInvariance, PTL

\* The scheduler quits only when every worker has been cancelled and counted, although
\* an empty list alone makes timer_handler set quit (scheduler.c:161-166).
THEOREM QuitOnlyWhenDone == Prompt => (Spec => []QuitMeansDone)
<1> SUFFICES ASSUME Prompt PROVE Spec => []QuitMeansDone
  OBVIOUS
<1>1. IInv /\ PInv => QuitMeansDone
  <2> SUFFICES ASSUME IInv, PInv, quit PROVE completed = ThreadCount
    BY DEF QuitMeansDone
  <2>1. Cancelled = Workers
    BY DEF PInv, Counted, Cancelled
  <2>2. Cardinality(Workers) = ThreadCount
    BY TypeFacts, FS_Interval DEF Workers
  <2> QED BY <2>1, <2>2 DEF PInv, Counted
<1> QED BY <1>1, Invariance, PromptInvariance, PTL

-----------------------------------------------------------------------------
(* RoundRobin.tla: the list as a queue                                     *)

LEMMA PutFirst ==
  ASSUME NEW S, NEW c \in S, NEW q \in Seq(S)
  PROVE  /\ <<c>> \o q \in Seq(S) /\ <<c>> \o q # <<>> /\ Len(<<c>> \o q) = Len(q) + 1
         /\ Head(<<c>> \o q) = c /\ Tail(<<c>> \o q) = q
         /\ \A w \in S : Append(<<c>> \o q, w) = <<c>> \o Append(q, w)
<1> DEFINE r == <<c>> \o q
<1>1. <<c>> \in Seq(S) /\ Len(<<c>>) = 1 /\ <<c>>[1] = c /\ Len(q) \in Nat
  OBVIOUS
<1>2. /\ r \in Seq(S) /\ Len(r) = Len(q) + 1
      /\ \A k \in 1..Len(q) + 1 : r[k] = IF k <= 1 THEN c ELSE q[k - 1]
  BY <1>1, ConcatProperties
<1>3. r # <<>> /\ Head(r) = c
  <2> HIDE DEF r
  <2> QED BY <1>1, <1>2
<1>4. Tail(r) = q
  <2> HIDE DEF r
  <2>1. Tail(r) \in Seq(S) /\ Len(Tail(r)) = Len(q)
        /\ \A k \in 1..Len(q) : Tail(r)[k] = r[k + 1]
    BY <1>1, <1>2, <1>3, HeadTailProperties
  <2>2. \A k \in 1..Len(q) : Tail(r)[k] = q[k]
    BY <1>1, <1>2, <2>1
  <2> QED BY <2>1, <2>2, SeqEqual
<1>5. ASSUME NEW w \in S PROVE Append(r, w) = <<c>> \o Append(q, w)
  <2>1. Append(r, w) = (<<c>> \o q) \o <<w>> /\ Append(q, w) = q \o <<w>>
    BY <1>2, AppendIsConcat
  <2>2. <<w>> \in Seq(S)
    OBVIOUS
  <2> QED BY <1>1, <2>1, <2>2, ConcatAssociative
<1> QED BY <1>2, <1>3, <1>4, <1>5

\* Removing the first element leaves the tail, and put back in front it gives the list.
LEMMA RemoveHead ==
  ASSUME NEW S, NEW q \in Seq(S), q # <<>>,
         \A k, l \in DOMAIN q : q[k] = q[l] => k = l
  PROVE  /\ list_remove(q, Head(q)) = Tail(q)
         /\ <<Head(q)>> \o Tail(q) = q
<1>1. /\ DOMAIN q = 1..Len(q) /\ Len(q) \in Nat /\ Len(q) >= 1 /\ Head(q) = q[1]
      /\ \A k \in 1..Len(q) : q[k] \in S
  BY EmptySeq, LenProperties, ElementOfSeq
<1>2. (CHOOSE k \in DOMAIN q : q[k] = Head(q)) = 1
  BY <1>1
<1>3. Head(q) \in ToSet(q)
  BY <1>1 DEF ToSet
<1>4. list_remove(q, Head(q)) = SubSeq(q, 1, 1 - 1) \o SubSeq(q, 1 + 1, Len(q))
  BY <1>2, <1>3 DEF list_remove, RemoveAt
<1>5. SubSeq(q, 1, 1 - 1) = <<>> /\ SubSeq(q, 1 + 1, Len(q)) = Tail(q)
  BY <1>1, SubSeqEmpty, TailIsSubSeq
<1>6. Tail(q) \in Seq(S) /\ Len(Tail(q)) = Len(q) - 1
      /\ \A k \in 1..Len(q) - 1 : Tail(q)[k] = q[k + 1]
  BY <1>1, HeadTailProperties
<1>7. <<>> \o Tail(q) = Tail(q)
  BY <1>6, ConcatEmptySeq
<1>8. <<Head(q)>> \o Tail(q) = q
  <2> DEFINE h == Head(q)
             u == Tail(q)
  <2>1. h \in S /\ u \in Seq(S)
    BY <1>1, <1>6
  <2>2. <<h>> \in Seq(S) /\ Len(<<h>>) = 1 /\ <<h>>[1] = h
    BY <2>1
  <2>3. <<h>> \o u \in Seq(S) /\ Len(<<h>> \o u) = 1 + Len(u)
        /\ \A k \in 1..1 + Len(u) : (<<h>> \o u)[k] = IF k <= 1 THEN <<h>>[k] ELSE u[k - 1]
    <3> HIDE DEF h, u
    <3> QED BY <2>1, <2>2, ConcatProperties
  <2>4. \A k \in 1..Len(q) : (<<h>> \o u)[k] = q[k]
    BY <1>1, <1>6, <2>2, <2>3
  <2>5. Len(<<h>> \o u) = Len(q)
    BY <1>1, <1>6, <2>3
  <2> QED BY <2>3, <2>4, <2>5, SeqEqual
<1> QED BY <1>4, <1>5, <1>7, <1>8

-----------------------------------------------------------------------------
(* RoundRobin.tla: who is served                                           *)

\* The current worker is at the head of the list until its handler moves it, and a
\* worker that is rotated has quanta left.
Served ==
  /\ ~Handling(Turning \ {"resume"}) /\ currentThread # Null =>
       sched_queue # <<>> /\ Head(sched_queue) = currentThread
  /\ \A t \in Threads :
       /\ hnd[t] \in {"out", "in", "leave"} =>
            currentThread # Null /\ harg[t] = currentThread
       /\ hnd[t] \in {"out", "leave"} =>
            sched_queue # <<>> /\ Head(sched_queue) = currentThread
       /\ hnd[t] \in {"out", "in"} => info[currentThread].quanta > 0

\* A step of RoundRobin.tla, or one that it does not see.
RRStep == [RR!Next]_(RR!vars)

\* What RoundRobin.tla sees of a state in which no other thread than t is in the
\* handler.
LEMMA View ==
  ASSUME NEW t \in Threads, \A u \in Threads \ {t} : hnd[u] = "idle"
  PROVE  /\ readyBar = IF hnd[t] = "in" THEN <<currentThread>> \o sched_queue
                       ELSE IF hnd[t] = "leave" THEN Tail(sched_queue) ELSE sched_queue
         /\ servingBar = IF hnd[t] \in {"leave", "next", "wait", "pick", "resume"}
                         THEN Null ELSE currentThread
         /\ leftBar = [w \in Workers |->
              IF pc[w] = "unborn" THEN quanta[w]
              ELSE IF hnd[t] \in {"out", "in"} /\ currentThread = w THEN info[w].quanta + 1
              ELSE info[w].quanta]
<1>1. \A S : "idle" \notin S => (Handling(S) <=> hnd[t] \in S)
  BY DEF Handling
<1> QED BY <1>1 DEF readyBar, servingBar, leftBar

LEMMA ViewAfter ==
  ASSUME NEW t \in Threads, \A u \in Threads \ {t} : hnd'[u] = "idle"
  PROVE  /\ readyBar' = IF hnd'[t] = "in" THEN <<currentThread'>> \o sched_queue'
                        ELSE IF hnd'[t] = "leave" THEN Tail(sched_queue') ELSE sched_queue'
         /\ servingBar' = IF hnd'[t] \in {"leave", "next", "wait", "pick", "resume"}
                          THEN Null ELSE currentThread'
         /\ leftBar' = [w \in Workers |->
              IF pc'[w] = "unborn" THEN quanta'[w]
              ELSE IF hnd'[t] \in {"out", "in"} /\ currentThread' = w
                   THEN info'[w].quanta + 1 ELSE info'[w].quanta]
<1>1. \A S : "idle" \notin S => (Handling(S)' <=> hnd'[t] \in S)
  BY DEF Handling
<1> QED BY <1>1 DEF readyBar, servingBar, leftBar

\* A step that changes nothing of it is a stutter.
LEMMA Stutter ==
  ASSUME \A w \in Workers : /\ pc'[w] \in Entered <=> pc[w] \in Entered
                            /\ Doomed(w)' <=> Doomed(w),
         readyBar' = readyBar, servingBar' = servingBar, leftBar' = leftBar,
         status' = status
  PROVE  RRStep
<1>1. {w \in Workers : pc'[w] \notin Entered} = {w \in Workers : pc[w] \notin Entered}
      /\ {w \in Workers : Doomed(w)}' = {w \in Workers : Doomed(w)}
  OBVIOUS
<1> QED BY <1>1 DEF RRStep, RR!vars

\* So is one that leaves the handlers, the list and the quanta alone.
LEMMA Aside ==
  ASSUME Served, UNCHANGED <<currentThread, sched_queue, pc, hnd, harg, sig, quanta, status>>,
         \A w \in Workers : info'[w].quanta = info[w].quanta,
         currentThread \in Workers \cup {Null}
  PROVE  Served' /\ RRStep
<1>1. readyBar' = readyBar /\ servingBar' = servingBar /\ leftBar' = leftBar
  BY DEF readyBar, servingBar, leftBar, Handling
<1>2. Served'
  BY DEF Served, Handling, Null, Workers
<1>3. RRStep
  BY <1>1, Stutter DEF Doomed
<1> QED BY <1>2, <1>3


\* The main thread, the scheduler thread and the timer do not move the queue.
LEMMA CreateServes ==
  ASSUME IInv, PInv, Served, CreateWorker
  PROVE  Served' /\ RRStep
<1>0. /\ main = "create" /\ i < ThreadCount
      /\ \E g \in HeapContents : info' = [info EXCEPT ![i + 1] = NewInfo(quanta[i + 1], g)]
      /\ pc' = [pc EXCEPT ![i + 1] = "born"]
      /\ UNCHANGED <<now, currentThread, sched_queue, susp, sig, freed, hnd, harg, quanta, status>>
  BY DEF CreateWorker, clockVars, globalVars, queueVars, hndVars
<1>1. Calm /\ currentThread = Null /\ Null \notin Workers
  BY <1>0, TypeFacts DEF PInv, Phases
<1>2. i + 1 \in Workers /\ pc[i + 1] = "unborn" /\ pc'[i + 1] = "born"
      /\ \A w \in Workers \ {i + 1} : pc'[w] = pc[w]
  BY <1>0, TypeFacts DEF IInv, TypeOK, CreatedInOrder, Workers
<1>3. /\ info'[i + 1].quanta = quanta[i + 1]
      /\ \A w \in Workers \ {i + 1} : info'[w] = info[w]
  BY <1>0, <1>2 DEF NewInfo, IInv, TypeOK
<1>4. leftBar' = leftBar
  BY <1>0, <1>1, <1>2, <1>3 DEF leftBar, Handling
<1>5. readyBar' = readyBar /\ servingBar' = servingBar
  BY <1>0 DEF readyBar, servingBar, Handling
<1>6. \A w \in Workers : /\ pc'[w] \in Entered <=> pc[w] \in Entered
                         /\ Doomed(w)' <=> Doomed(w)
  BY <1>0, <1>2 DEF Entered, Doomed
<1>7. RRStep
  BY <1>0, <1>4, <1>5, <1>6, Stutter
<1>8. Served'
  BY <1>0, <1>1 DEF Served, Calm, Handling
<1> QED BY <1>7, <1>8

LEMMA StampServes ==
  ASSUME IInv, PInv, Served, StampTimes
  PROVE  Served' /\ RRStep
<1>1. i \notin freed
  <2>1. now = 0
    BY TypeFacts DEF StampTimes, PInv, Phases
  <2> QED BY <2>1, TypeFacts DEF PInv, Phases, FreedDoomed
<1>2. /\ info' = [info EXCEPT ![i] = Started(@)]
      /\ UNCHANGED <<currentThread, sched_queue, pc, hnd, harg, sig, quanta, status>>
  BY <1>1 DEF StampTimes, clockVars, globalVars, queueVars, workerVars, hndVars
<1>3. \A w \in Workers : info'[w].quanta = info[w].quanta
  BY <1>2 DEF Started, IInv, TypeOK
<1> QED BY <1>2, <1>3, TypeFacts, Aside

LEMMA OthersServe ==
  ASSUME IInv, PInv, Served, AllCreated \/ JoinAndCleanUp \/ SchedThread \/ Tick \/ UNCHANGED vars
  PROVE  Served' /\ RRStep
<1>1. UNCHANGED <<currentThread, sched_queue, pc, hnd, harg, sig, quanta, status, info>>
  BY DEF AllCreated, JoinAndCleanUp, SchedThread, StartTimer, SchedReturns, Tick, vars,
         globalVars, queueVars, workerVars, hndVars, heapVars
<1> QED BY <1>1, TypeFacts, Aside

\* A worker that cannot be created is still waiting.
LEMMA FailureServes ==
  ASSUME IInv, Served, CreateFails
  PROVE  Served' /\ RRStep
<1>1. /\ status = "running" /\ status' = "failed" /\ i < ThreadCount
      /\ UNCHANGED <<currentThread, sched_queue, pc, hnd, harg, sig, quanta, info>>
  BY DEF CreateFails, Running, globalVars, queueVars, workerVars, hndVars, heapVars
<1>2. readyBar' = readyBar /\ servingBar' = servingBar /\ leftBar' = leftBar
  BY <1>1 DEF readyBar, servingBar, leftBar, Handling
<1>3. Served'
  BY <1>1 DEF Served, Handling
<1>4. i + 1 \in {w \in Workers : pc[w] \notin Entered}
  BY <1>1, TypeFacts DEF IInv, TypeOK, CreatedInOrder, Workers, Entered
<1>5. {w \in Workers : Doomed(w)}' = {w \in Workers : Doomed(w)}
  BY <1>1 DEF Doomed
<1>6. status # "failed" /\ (status' = "failed") = TRUE
  BY <1>1
<1>7. RR!Abort
  BY <1>1, <1>2, <1>4, <1>5, <1>6 DEF RR!Abort
<1>8. RRStep
  BY <1>6, <1>7 DEF RRStep, RR!Next
<1> QED BY <1>3, <1>8

LEMMA TakeAlarmServes ==
  ASSUME IInv, PInv, Served, NEW t \in Threads, TakeAlarm(t)
  PROVE  Served' /\ RRStep
<1>0. /\ alarm /\ hnd' = [hnd EXCEPT ![t] = "check"]
      /\ UNCHANGED <<currentThread, sched_queue, pc, sig, quanta, status, info>>
  BY DEF TakeAlarm, Goto, handlerFrame, globalVars, heapVars
<1>1. Calm
  BY <1>0 DEF PInv, OneHandler
<1>2. /\ hnd'[t] = "check" /\ \A u \in Threads \ {t} : hnd'[u] = "idle"
  BY <1>0, <1>1, TypeFacts DEF Calm
<1>3. readyBar' = readyBar /\ servingBar' = servingBar /\ leftBar' = leftBar
  BY <1>0, <1>1, <1>2 DEF readyBar, servingBar, leftBar, Handling, Calm
<1>4. RRStep
  BY <1>0, <1>3, Stutter DEF Doomed
<1>5. Served'
  BY <1>0, <1>1, <1>2 DEF Served, Handling, Calm, Turning
<1> QED BY <1>4, <1>5


\* A worker that enters finds room: the others in the queue hold a token each.
LEMMA RoomToEnter ==
  ASSUME IInv, PInv, Served, NEW w \in Workers, pc[w] = "insert"
  PROVE  Len(readyBar) < QueueSize
<1> DEFINE q == sched_queue
           Q == ToSet(q)
<1>0. /\ q \in Seq(Workers) /\ Len(q) \in Nat /\ DOMAIN q = 1..Len(q)
      /\ Len(q) = Cardinality(Q) /\ IsFiniteSet(Q)
      /\ \A u \in Q : u \in Workers /\ pc[u] \in Entered
  <2>1. q \in Seq(Workers) /\ Len(q) \in Nat /\ DOMAIN q = 1..Len(q)
    BY TypeFacts, LenProperties
  <2>2. Len(q) = Cardinality(Q) /\ IsFiniteSet(Q)
    BY <2>1, LengthIsCardinality DEF IInv, ListSound
  <2>3. \A u \in Q : u \in Workers /\ pc[u] \in Entered
    BY <2>1 DEF ToSet, IInv, ListSound
  <2> QED BY <2>1, <2>2, <2>3
<1>1. /\ w \notin Q /\ w \in Holders
      /\ \A u \in Workers : pc[u] \in Entered /\ ~Doomed(u) => u \in Holders \ {w}
  BY <1>0 DEF Holders, Entered, Doomed
<1>2. Cardinality(Holders) <= QueueSize /\ Cardinality(Holders) \in Nat
  BY HoldersFinite, TypeFacts, FS_CardinalityType DEF IInv, TypeOK, TokenConservation
\* R holds as many workers as the queue; with w they are all holders.
<1>3. ASSUME NEW R, R \subseteq Holders \ {w}, Cardinality(R) = Len(readyBar)
      PROVE  Len(readyBar) < QueueSize
  <2>1. IsFiniteSet(Holders \ {w}) /\ Cardinality(Holders \ {w}) = Cardinality(Holders) - 1
    BY <1>1, HoldersFinite, FS_RemoveElement
  <2>2. Cardinality(R) <= Cardinality(Holders \ {w}) /\ Cardinality(R) \in Nat
    BY <1>3, <2>1, FS_Subset, FS_CardinalityType
  <2> QED BY <1>2, <1>3, <2>1, <2>2, TypeFacts
<1>4. CASE Handling({"leave"})
  <2>1. PICK t \in Threads : hnd[t] = "leave"
    BY <1>4 DEF Handling
  <2>2. /\ \A u \in Threads \ {t} : hnd[u] = "idle"
        /\ q # <<>> /\ Head(q) = harg[t]
    BY <2>1, Alone DEF Served
  <2>3. readyBar = Tail(q)
    BY <2>1, <2>2, View
  <2>4. Len(readyBar) = Len(q) - 1 /\ Head(q) \in Q
    <3>1. Len(Tail(q)) = Len(q) - 1
      BY <1>0, <2>2, HeadTailProperties
    <3>2. Len(q) # 0
      BY <1>0, <2>2, EmptySeq
    <3>3. Head(q) = q[1] /\ 1 \in DOMAIN q
      BY <1>0, <3>2
    <3>4. q[1] \in Q
      BY <3>3 DEF ToSet
    <3> QED BY <2>3, <3>1, <3>3, <3>4
  <2>5. Cardinality(Q \ {Head(q)}) = Len(readyBar)
    BY <1>0, <2>4, FS_RemoveElement
  <2>6. \A u \in Q \ {Head(q)} : ~Doomed(u)
    <3> SUFFICES ASSUME NEW u \in Q, u # Head(q), Doomed(u) PROVE FALSE
      OBVIOUS
    <3>1. u \notin freed
      BY <1>0 DEF ToSet, IInv, ListSound
    <3>2. PICK s \in Threads : hnd[s] = "leave" /\ harg[s] = u
      BY <1>0, <3>1 DEF IInv, DoomedLeaving
    <3> QED BY <2>2, <3>2
  <2>7. Q \ {Head(q)} \subseteq Holders \ {w}
    BY <1>0, <1>1, <2>6
  <2> QED BY <1>3, <2>5, <2>7
<1>5. CASE ~Handling({"leave"})
  <2>1. \A u \in Q : ~Doomed(u)
    <3> SUFFICES ASSUME NEW u \in Q, Doomed(u) PROVE FALSE
      OBVIOUS
    <3>1. u \notin freed
      BY <1>0 DEF ToSet, IInv, ListSound
    <3> QED BY <1>0, <1>5, <3>1 DEF IInv, DoomedLeaving, Handling
  <2>2. Q \subseteq Holders \ {w}
    BY <1>0, <1>1, <2>1
  <2>3. CASE ~Handling({"in"})
    <3>1. readyBar = q
      BY <1>5, <2>3 DEF readyBar
    <3> QED BY <1>0, <1>3, <2>2, <3>1
  <2>4. CASE Handling({"in"})
    <3>1. PICK t \in Threads : hnd[t] = "in"
      BY <2>4 DEF Handling
    <3>2. harg[t] = currentThread /\ currentThread \in Workers
          /\ currentThread \notin Q \cup freed /\ pc[currentThread] \in Entered
      BY <3>1, TypeFacts DEF Served, PInv, InList, IInv, PointersEntered
    <3>3. ~Doomed(currentThread)
      BY <1>5, <3>2 DEF IInv, DoomedLeaving, Handling
    <3>4. Q \cup {currentThread} \subseteq Holders \ {w}
      BY <1>1, <2>2, <3>2, <3>3
    <3>5. Cardinality(Q \cup {currentThread}) = Len(q) + 1
      BY <1>0, <3>2, FS_AddElement
    <3>6. Len(readyBar) = Len(q) + 1
      BY <1>0, <2>4, <3>2, PutFirst DEF readyBar
    <3> QED BY <1>3, <3>4, <3>5, <3>6
  <2> QED BY <2>3, <2>4
<1> QED BY <1>4, <1>5

\* It enters at the tail of the queue.
LEMMA EntryServes ==
  ASSUME IInv, PInv, Served, status = "running", NEW w \in Workers, EnterQueue(w),
         UNCHANGED <<currentThread, hnd, harg, info, quanta>>
  PROVE  Served' /\ RRStep
<1>0. /\ pc[w] = "insert" /\ sched_queue' = Append(sched_queue, w)
      /\ pc' = [pc EXCEPT ![w] = "announce"]
      /\ UNCHANGED <<sig, status>>
  BY DEF EnterQueue, list_insert_tail
<1>1. /\ pc'[w] = "announce" /\ \A u \in Workers \ {w} : pc'[u] = pc[u]
  BY <1>0, TypeFacts
<1>2. /\ sched_queue' # <<>>
      /\ sched_queue # <<>> => /\ Head(sched_queue') = Head(sched_queue)
                               /\ Tail(sched_queue') = Append(Tail(sched_queue), w)
  BY <1>0, TypeFacts, HeadTailAppend
<1>3. Served'
  BY <1>2 DEF Served, Handling
<1>4. readyBar' = Append(readyBar, w)
  <2>1. CASE Handling({"in"})
    <3>1. currentThread \in Workers
      BY <2>1, TypeFacts DEF Served, Handling
    <3>2. readyBar = <<currentThread>> \o sched_queue
          /\ readyBar' = <<currentThread>> \o Append(sched_queue, w)
      BY <1>0, <2>1 DEF readyBar, Handling
    <3>3. sched_queue \in Seq(Workers)
      BY TypeFacts
    <3>4. Append(<<currentThread>> \o sched_queue, w) = <<currentThread>> \o Append(sched_queue, w)
      BY ONLY <3>1, <3>3, w \in Workers, PutFirst
    <3> QED BY ONLY <3>2, <3>4
  <2>2. CASE ~Handling({"in"}) /\ Handling({"leave"})
    <3>1. sched_queue # <<>>
      BY <2>2 DEF Served, Handling
    <3> QED BY <1>2, <2>2, <3>1 DEF readyBar, Handling
  <2>3. CASE ~Handling({"in"}) /\ ~Handling({"leave"})
    BY <1>0, <2>3 DEF readyBar, Handling
  <2> QED BY <2>1, <2>2, <2>3
<1>5. servingBar' = servingBar /\ leftBar' = leftBar
  BY <1>0, <1>1 DEF servingBar, leftBar, Handling
<1>6. {u \in Workers : Doomed(u)}' = {u \in Workers : Doomed(u)}
  BY <1>0, <1>1 DEF Doomed
<1>7. /\ w \in {u \in Workers : pc[u] \notin Entered}
      /\ {u \in Workers : pc'[u] \notin Entered} = {u \in Workers : pc[u] \notin Entered} \ {w}
  BY <1>0, <1>1 DEF Entered
<1>8. status # "failed" /\ status' = status
  BY <1>0
<1>9. RR!Admit(w)
  BY <1>0, <1>4, <1>5, <1>6, <1>7, <1>8, RoomToEnter DEF RR!Admit
<1>10. RRStep
  BY <1>8, <1>9 DEF RRStep, RR!Next, RR!Advance
<1> QED BY <1>3, <1>10

LEMMA WorkerServes ==
  ASSUME IInv, PInv, Served, NEW w \in Workers, Worker(w)
  PROVE  Served' /\ RRStep
<1>0. /\ status = "running"
      /\ UNCHANGED <<currentThread, hnd, harg, info, quanta>>
  BY DEF Worker, Running, globalVars, hndVars, heapVars
<1>1. CASE EnterQueue(w)
  BY <1>0, <1>1, EntryServes
<1>2. CASE ~EnterQueue(w)
  <2>1. /\ \A u \in Workers \ {w} : pc'[u] = pc[u] /\ sig'[u] = sig[u]
        /\ pc'[w] # "unborn" /\ pc[w] # "unborn"
        /\ pc'[w] \in Entered <=> pc[w] \in Entered
        /\ sched_queue' = sched_queue
    BY <1>2, TypeFacts DEF Worker, BlockSignals, AcquireToken, Announce, FirstResume, Suspend,
       Resume, cancel_thread, queueVars, Entered
  <2>2. Doomed(w)' <=> Doomed(w)
    <3>1. Held(w) \/ Awake(w)
      BY TypeFacts DEF PInv, Signals
    <3> QED BY <3>1, WorkerStep
  <2>3. status' = status
    <3>1. status' # "undefined"
      BY WorkerKeeps DEF PInv, NoUndefined
    <3> QED BY <1>2, <3>1 DEF Worker, BlockSignals, AcquireToken, Announce, FirstResume,
            Suspend, Resume, cancel_thread
  <2>4. readyBar' = readyBar /\ servingBar' = servingBar /\ leftBar' = leftBar
    BY <1>0, <2>1 DEF readyBar, servingBar, leftBar, Handling
  <2>5. \A u \in Workers : /\ pc'[u] \in Entered <=> pc[u] \in Entered
                           /\ Doomed(u)' <=> Doomed(u)
    BY <2>1, <2>2 DEF Doomed
  <2>6. RRStep
    BY <2>3, <2>4, <2>5, Stutter
  <2>7. Served'
    BY <1>0, <2>1 DEF Served, Handling
  <2> QED BY <2>6, <2>7
<1> QED BY <1>1, <1>2


\* What suspend_worker takes from the quanta, resume_worker leaves.
LEMMA QuantaCharged ==
  ASSUME IInv, NEW w \in Workers
  PROVE  /\ info[w].quanta \in Int /\ ChargeQuantum(w).quanta = info[w].quanta - 1
         /\ update_wait_time(info[w]).quanta = info[w].quanta
<1>1. info[w] \in ThreadInfo
  BY DEF IInv, TypeOK
<1>2. info[w].quanta \in Int /\ "quanta" \in DOMAIN info[w]
      /\ update_run_time(info[w]).quanta = info[w].quanta
      /\ "quanta" \in DOMAIN update_run_time(info[w])
      /\ update_wait_time(info[w]).quanta = info[w].quanta
  BY <1>1 DEF ThreadInfo, update_run_time, update_wait_time
<1> QED BY <1>2 DEF ChargeQuantum

\* The steps that only move the handler on.
LEMMA MoveOnServes ==
  ASSUME IInv, PInv, Served, NEW t \in Threads,
         Check(t) \/ NobodyToSuspend(t) \/ wait_for_queue(t) \/ SpinEnds(t)
  PROVE  Served' /\ RRStep
<1>1. PICK step \in {"idle", "suspend", "next", "wait", "pick"} :
        /\ Goto(t, step, Null)
        /\ \/ hnd[t] = "check" /\ step \in {"idle", "suspend"}
           \/ hnd[t] = "suspend" /\ step = "next" /\ currentThread = Null
           \/ hnd[t] \in {"next", "wait"} /\ step \in {"wait", "pick"}
        /\ UNCHANGED <<handlerFrame, alarm, currentThread, sched_queue, sig, heapVars>>
  BY DEF Check, NobodyToSuspend, wait_for_queue, SpinEnds, globalVars
<1>2. /\ hnd'[t] = step /\ \A u \in Threads \ {t} : hnd[u] = "idle" /\ hnd'[u] = "idle"
      /\ Handling(Turning \ {"resume"})' <=> step \in Turning \ {"resume"}
  BY <1>1, HandlerFrame
<1>3. Handling(Turning \ {"resume"}) <=> hnd[t] \in Turning \ {"resume"}
  BY <1>1, Alone
<1>4. Served'
  BY <1>1, <1>2, <1>3 DEF Served, Turning
<1>5. readyBar' = readyBar /\ servingBar' = servingBar /\ leftBar' = leftBar
  BY <1>1, <1>2, View, ViewAfter DEF handlerFrame, heapVars
<1>6. RRStep
  BY <1>1, <1>5, Stutter DEF handlerFrame, Doomed
<1> QED BY <1>4, <1>6

\* A quantum is charged when the worker is suspended, and counts when it is back in
\* the list.
LEMMA SuspendServes ==
  ASSUME IInv, PInv, Served, NEW t \in Threads, suspend_worker(t)
  PROVE  Served' /\ RRStep
<1>0. PICK c \in Workers :
      /\ hnd[t] = "suspend" /\ c = currentThread /\ ChargeQuantum(c).quanta > 0
      /\ info' = [info EXCEPT ![c] = ChargeQuantum(c)]
      /\ sig' = [sig EXCEPT ![c] = @ \cup {"USR1"}] /\ Goto(t, "out", c)
      /\ UNCHANGED <<handlerFrame, alarm, currentThread, sched_queue>>
  BY TypeFacts DEF suspend_worker, pthread_kill, globalVars
<1>1. /\ hnd'[t] = "out" /\ harg'[t] = c
      /\ \A u \in Threads \ {t} : hnd[u] = "idle" /\ hnd'[u] = "idle"
      /\ Handling(Turning \ {"resume"})'
  BY <1>0, HandlerFrame DEF Turning
<1>2. ~Handling(Turning \ {"resume"})
  BY <1>0, Alone DEF Turning
<1>3. info'[c].quanta = info[c].quanta - 1 /\ info'[c].quanta > 0 /\ info[c].quanta \in Int
      /\ \A w \in Workers \ {c} : info'[w] = info[w]
  BY <1>0, QuantaCharged DEF IInv, TypeOK
<1>4. Served'
  BY <1>0, <1>1, <1>2, <1>3, TypeFacts DEF Served
<1>5. pc[c] # "unborn"
  BY <1>0, TypeFacts DEF IInv, PointersEntered, Entered
<1>6. leftBar' = leftBar
  <2>1. info'[c].quanta + 1 = info[c].quanta
    BY <1>3
  <2> QED BY <1>0, <1>1, <1>3, <1>5, <2>1, View, ViewAfter DEF handlerFrame
<1>7. readyBar' = readyBar /\ servingBar' = servingBar
  BY <1>0, <1>1, View, ViewAfter
<1>8. \A w \in Workers : Doomed(w)' <=> Doomed(w)
  BY <1>0, TypeFacts DEF Doomed, handlerFrame
<1>9. RRStep
  BY <1>0, <1>6, <1>7, <1>8, Stutter DEF handlerFrame
<1> QED BY <1>4, <1>9

LEMMA RotateOutServes ==
  ASSUME IInv, PInv, Served, NEW t \in Threads, RotateOut(t)
  PROVE  Served' /\ RRStep
<1>0. PICK c \in Workers :
      /\ hnd[t] = "out" /\ c = harg[t] /\ c = currentThread
      /\ sched_queue # <<>> /\ Head(sched_queue) = c /\ info[c].quanta > 0
      /\ Goto(t, "in", c) /\ sched_queue' = list_remove(sched_queue, c)
      /\ UNCHANGED <<handlerFrame, alarm, currentThread, sig, info>>
  BY DEF RotateOut, IInv, TypeOK, Served, heapVars, globalVars
<1>1. /\ hnd'[t] = "in" /\ harg'[t] = c
      /\ \A u \in Threads \ {t} : hnd[u] = "idle" /\ hnd'[u] = "idle"
      /\ Handling(Turning \ {"resume"})'
  BY <1>0, HandlerFrame DEF Turning
<1>2. Served'
  BY <1>0, <1>1, TypeFacts DEF Served
<1>3. readyBar' = readyBar
  <2>1. <<c>> \o list_remove(sched_queue, c) = sched_queue
    BY <1>0, TypeFacts, RemoveHead DEF IInv, ListSound
  <2> QED BY <1>0, <1>1, <2>1, View, ViewAfter
<1>4. servingBar' = servingBar /\ leftBar' = leftBar
  BY <1>0, <1>1, View, ViewAfter DEF handlerFrame
<1>5. RRStep
  BY <1>0, <1>3, <1>4, Stutter DEF handlerFrame, Doomed
<1> QED BY <1>2, <1>5

LEMMA RotateInServes ==
  ASSUME IInv, PInv, Served, status = "running", NEW t \in Threads, RotateIn(t)
  PROVE  Served' /\ RRStep
<1>0. PICK c \in Workers :
      /\ hnd[t] = "in" /\ c = currentThread /\ info[c].quanta > 0
      /\ Goto(t, "next", Null) /\ sched_queue' = Append(sched_queue, c)
      /\ UNCHANGED <<handlerFrame, alarm, currentThread, sig, info>>
  <2>1. harg[t] \in Workers /\ harg[t] = currentThread /\ info[currentThread].quanta > 0
    BY DEF RotateIn, IInv, TypeOK, Served
  <2> QED BY <2>1 DEF RotateIn, list_insert_tail, heapVars, globalVars
<1>1. /\ hnd'[t] = "next"
      /\ \A u \in Threads \ {t} : hnd[u] = "idle" /\ hnd'[u] = "idle"
      /\ Handling(Turning \ {"resume"})'
  BY <1>0, HandlerFrame DEF Turning
<1>2. Served'
  BY <1>0, <1>1 DEF Served
<1>3. readyBar = <<c>> \o sched_queue /\ servingBar = c
      /\ readyBar' = Append(sched_queue, c) /\ servingBar' = Null
  BY <1>0, <1>1, View, ViewAfter
<1>4. Tail(readyBar) = sched_queue
  BY SMTT(30), <1>3, TypeFacts, PutFirst
<1>5. pc[c] # "unborn" /\ info[c].quanta \in Int
  BY <1>0, TypeFacts, QuantaCharged DEF IInv, PointersEntered, Entered
<1>6. leftBar[c] = info[c].quanta + 1
  BY <1>0, <1>1, <1>5, View
<1>7. leftBar[c] > 1 /\ leftBar[c] - 1 = info[c].quanta
  BY <1>0, <1>5, <1>6
<1>8. leftBar' = [leftBar EXCEPT ![c] = @ - 1]
  <2>1. leftBar' = [w \in Workers |-> IF pc[w] = "unborn" THEN quanta[w] ELSE info[w].quanta]
    BY <1>0, <1>1, ViewAfter DEF handlerFrame
  <2>2. leftBar = [w \in Workers |-> IF pc[w] = "unborn" THEN quanta[w]
                                     ELSE IF c = w THEN info[w].quanta + 1 ELSE info[w].quanta]
    BY <1>0, <1>1, View
  <2> QED BY <1>5, <1>7, <2>1, <2>2
<1>9. UNCHANGED <<pc, sig, status>> /\ status # "failed"
  BY <1>0 DEF handlerFrame
<1>10. RR!Rotate
  BY <1>3, <1>4, <1>7, <1>8, <1>9, TypeFacts DEF RR!Rotate, Doomed
<1>11. RRStep
  BY <1>9, <1>10 DEF RRStep, RR!Next, RR!Advance
<1> QED BY <1>2, <1>11

LEMMA CancelServes ==
  ASSUME IInv, PInv, Served, status = "running", NEW t \in Threads, cancel_worker(t)
  PROVE  Served' /\ RRStep
<1>0. PICK c \in Workers :
      /\ hnd[t] = "suspend" /\ c = currentThread /\ ChargeQuantum(c).quanta <= 0
      /\ info' = [info EXCEPT ![c] = ChargeQuantum(c)]
      /\ sig' = [sig EXCEPT ![c] = @ \cup {"TERM"}] /\ Goto(t, "leave", c)
      /\ UNCHANGED <<handlerFrame, alarm, currentThread, sched_queue>>
  BY TypeFacts DEF cancel_worker, pthread_kill
<1>1. /\ hnd'[t] = "leave" /\ harg'[t] = c
      /\ \A u \in Threads \ {t} : hnd[u] = "idle" /\ hnd'[u] = "idle"
      /\ Handling(Turning \ {"resume"})'
  BY <1>0, HandlerFrame DEF Turning
<1>2. ~Handling(Turning \ {"resume"})
  BY <1>0, Alone DEF Turning
<1>3. Served'
  BY <1>0, <1>1, <1>2, TypeFacts DEF Served
<1>4. readyBar = sched_queue /\ servingBar = c
      /\ readyBar' = Tail(sched_queue) /\ servingBar' = Null
  BY <1>0, <1>1, View, ViewAfter
<1>5. pc[c] # "unborn" /\ info[c].quanta \in Int /\ info'[c].quanta = info[c].quanta - 1
      /\ \A w \in Workers \ {c} : info'[w] = info[w]
  <2>1. pc[c] # "unborn"
    BY <1>0, TypeFacts DEF IInv, PointersEntered, Entered
  <2> QED BY <1>0, <2>1, QuantaCharged DEF IInv, TypeOK
<1>6. leftBar[c] = info[c].quanta
  BY <1>0, <1>1, <1>5, View
<1>7. leftBar[c] <= 1
  BY <1>0, <1>5, <1>6, QuantaCharged
<1>8. leftBar' = [leftBar EXCEPT ![c] = @ - 1]
  BY <1>0, <1>1, <1>5, <1>6, View, ViewAfter DEF handlerFrame
<1>9. UNCHANGED <<pc, status>> /\ status # "failed"
  BY <1>0 DEF handlerFrame
<1>10. {w \in Workers : Doomed(w)}' = {w \in Workers : Doomed(w)} \cup {c}
  BY <1>0, <1>9, TypeFacts DEF Doomed
<1>11. RR!Finish
  BY <1>4, <1>7, <1>8, <1>9, <1>10, TypeFacts DEF RR!Finish
<1>12. RRStep
  BY <1>9, <1>11 DEF RRStep, RR!Next, RR!Advance
<1> QED BY <1>3, <1>12

LEMMA LeaveServes ==
  ASSUME IInv, PInv, Served, NEW t \in Threads, leave_scheduler_queue(t)
  PROVE  Served' /\ RRStep
<1>0. PICK c \in Workers :
      /\ hnd[t] = "leave" /\ c = harg[t] /\ sched_queue # <<>> /\ Head(sched_queue) = c
      /\ Goto(t, "next", Null) /\ sched_queue' = list_remove(sched_queue, c)
      /\ UNCHANGED <<handlerFrame, alarm, currentThread, sig, info>>
  BY DEF leave_scheduler_queue, IInv, TypeOK, Served, globalVars
<1>1. /\ hnd'[t] = "next"
      /\ \A u \in Threads \ {t} : hnd[u] = "idle" /\ hnd'[u] = "idle"
      /\ Handling(Turning \ {"resume"})'
  BY <1>0, HandlerFrame DEF Turning
<1>2. Served'
  BY <1>0, <1>1 DEF Served
<1>3. readyBar' = readyBar
  <2>1. list_remove(sched_queue, c) = Tail(sched_queue)
    BY <1>0, TypeFacts, RemoveHead DEF IInv, ListSound
  <2> QED BY <1>0, <1>1, <2>1, View, ViewAfter
<1>4. servingBar' = servingBar /\ leftBar' = leftBar
  BY <1>0, <1>1, View, ViewAfter DEF handlerFrame
<1>5. RRStep
  BY <1>0, <1>3, <1>4, Stutter DEF handlerFrame, Doomed
<1> QED BY <1>2, <1>5

\* The head of the list is chosen, or nobody if all are completed ...
LEMMA PickServes ==
  ASSUME IInv, PInv, Served, NEW t \in Threads, AllCompleted(t) \/ PickHead(t)
  PROVE  Served' /\ RRStep
<1>1. PICK step \in {"idle", "resume"}, w \in Workers \cup {Null} :
        /\ hnd[t] \in {"next", "pick"} /\ Goto(t, step, w)
        /\ currentThread' = IF step = "idle" THEN Null ELSE Head(sched_queue)
        /\ step = "resume" => sched_queue # <<>>
        /\ UNCHANGED <<handlerFrame, alarm, sched_queue, sig, heapVars>>
  <2>1. CASE AllCompleted(t)
    BY <2>1 DEF AllCompleted
  <2>2. CASE PickHead(t)
    <3>1. sched_queue # <<>>
      BY <2>2 DEF PickHead, PInv, InList
    <3>2. Head(sched_queue) \in Workers
      BY <3>1, TypeFacts, HeadTailProperties
    <3> QED BY <2>2, <3>1, <3>2 DEF PickHead
  <2> QED BY <2>1, <2>2
<1>2. /\ hnd'[t] = step /\ \A u \in Threads \ {t} : hnd[u] = "idle" /\ hnd'[u] = "idle"
  BY <1>1, HandlerFrame
<1>3. Served'
  BY <1>1, <1>2 DEF Served
<1>4. readyBar' = readyBar /\ servingBar' = servingBar /\ leftBar' = leftBar
  BY <1>1, <1>2, View, ViewAfter DEF handlerFrame, heapVars
<1>5. RRStep
  BY <1>1, <1>4, Stutter DEF handlerFrame, Doomed
<1> QED BY <1>3, <1>5

\* ... and is served from its resumption on.
LEMMA ResumeServes ==
  ASSUME IInv, PInv, Served, status = "running", NEW t \in Threads, resume_worker(t)
  PROVE  Served' /\ RRStep
<1>0. PICK c \in Workers :
      /\ hnd[t] = "resume" /\ c = currentThread
      /\ info' = [info EXCEPT ![c] = update_wait_time(@)]
      /\ sig' = [sig EXCEPT ![c] = @ \cup {"USR2"}] /\ Goto(t, "idle", Null)
      /\ UNCHANGED <<handlerFrame, alarm, currentThread, sched_queue>>
  <2>1. harg[t] \in Workers /\ harg[t] = currentThread
    BY DEF resume_worker, IInv, TypeOK, PInv, InList
  <2> QED BY <2>1 DEF resume_worker, pthread_kill, globalVars
<1>1. /\ hnd'[t] = "idle"
      /\ \A u \in Threads \ {t} : hnd[u] = "idle" /\ hnd'[u] = "idle"
  BY <1>0, HandlerFrame
<1>2. sched_queue # <<>> /\ Head(sched_queue) = c
  <2>1. ~Handling(Turning \ {"resume"})
    BY <1>0, Alone DEF Turning
  <2> QED BY <1>0, <2>1, TypeFacts DEF Served
<1>3. Served'
  BY <1>0, <1>1, <1>2 DEF Served
<1>4. readyBar = sched_queue /\ servingBar = Null
      /\ readyBar' = sched_queue /\ servingBar' = c
  BY <1>0, <1>1, View, ViewAfter
<1>5. \A w \in Workers : info'[w].quanta = info[w].quanta
  BY <1>0, QuantaCharged DEF IInv, TypeOK
<1>6. leftBar' = leftBar
  BY <1>0, <1>1, <1>5, View, ViewAfter DEF handlerFrame
<1>7. UNCHANGED <<pc, status>> /\ status # "failed"
      /\ {w \in Workers : Doomed(w)}' = {w \in Workers : Doomed(w)}
  BY <1>0, TypeFacts DEF handlerFrame, Doomed
<1>8. RR!Serve
  BY <1>2, <1>4, <1>6, <1>7 DEF RR!Serve
<1>9. RRStep
  BY <1>7, <1>8 DEF RRStep, RR!Next, RR!Advance
<1> QED BY <1>3, <1>9


LEMMA ServedInit ==
  ASSUME Init
  PROVE  Served /\ RR!Init
<1>1. /\ \A t \in Threads : hnd[t] = "idle"
      /\ \A w \in Workers : pc[w] = "unborn" /\ ~Doomed(w)
      /\ currentThread = Null /\ sched_queue = <<>> /\ status = "running"
      /\ quanta \in [Workers -> Quanta]
  BY DEF Init, Doomed
<1>2. readyBar = <<>> /\ servingBar = Null /\ leftBar \in [Workers -> Quanta]
  BY <1>1 DEF readyBar, servingBar, leftBar, Handling
<1>3. {w \in Workers : pc[w] \notin Entered} = Workers /\ {w \in Workers : Doomed(w)} = {}
  BY <1>1 DEF Entered
<1>4. (status = "failed") = FALSE
  BY <1>1
<1>5. RR!Init
  BY <1>2, <1>3, <1>4 DEF RR!Init
<1> QED BY <1>1, <1>5 DEF Served, Handling

LEMMA ServedStep ==
  ASSUME Prompt, IInv, PInv, Served, [Next]_vars
  PROVE  Served' /\ RRStep
<1>1. CASE MainThread
  BY <1>1, CreateServes, StampServes, OthersServe DEF MainThread
<1>2. CASE CreateFails
  BY <1>2, FailureServes
<1>3. CASE SchedThread \/ Tick \/ Stopped \/ UNCHANGED vars
  BY <1>3, OthersServe DEF Stopped
<1>4. ASSUME NEW w \in Workers, Worker(w) PROVE Served' /\ RRStep
  BY <1>4, WorkerServes
<1>5. ASSUME NEW t \in Threads, TakeAlarm(t) PROVE Served' /\ RRStep
  BY <1>5, TakeAlarmServes
<1>6. ASSUME NEW t \in Threads, timer_handler(t) PROVE Served' /\ RRStep
  <2>1. \/ Check(t) \/ NobodyToSuspend(t) \/ suspend_worker(t)
        \/ cancel_worker(t) \/ RotateOut(t) \/ RotateIn(t)
        \/ leave_scheduler_queue(t) \/ AllCompleted(t) \/ wait_for_queue(t)
        \/ SpinEnds(t) \/ PickHead(t) \/ resume_worker(t)
    BY <1>6, NeverFaulty DEF timer_handler
  <2>2. status = "running"
    BY <1>6 DEF timer_handler, Running
  <2> QED
    BY <2>1, <2>2, MoveOnServes, SuspendServes, CancelServes, RotateOutServes,
       RotateInServes, LeaveServes, PickServes, ResumeServes
<1> QED BY <1>1, <1>2, <1>3, <1>4, <1>5, <1>6 DEF Next

\* With prompt threads the program is a round robin over a bounded queue: whatever
\* its threads, handlers and signals do is an admission, the start or the end of a
\* quantum as RoundRobin.tla has them, a failure to start, or nothing it can see.
THEOREM KeepsRoundRobin == Prompt => (Spec => StepsOfRoundRobin)
<1> SUFFICES ASSUME Prompt PROVE Spec => StepsOfRoundRobin
  OBVIOUS
<1>1. Init => Served /\ RR!Init
  BY ServedInit
<1>2. IInv /\ PInv /\ Served /\ [Next]_vars => Served' /\ RRStep
  BY ServedStep
<1>3. RRStep <=> [RR!Next]_RR!vars
  BY DEF RRStep
<1> QED BY <1>1, <1>2, <1>3, Invariance, PromptInvariance, PTL DEF Spec, StepsOfRoundRobin

-----------------------------------------------------------------------------
(* Sums over finite sets                                                   *)

\* A set of numbers has a least one: what the induction over numbers comes to here.
LEMMA LeastNatural ==
  ASSUME NEW S, S \subseteq Nat, S # {}
  PROVE  \E m \in S : \A n \in S : m <= n
<1>1. PICK m \in S : \A n \in S : ~ (<<n, m>> \in OpToRel(<, Nat))
  BY NatLessThanWellFounded, WFMin
<1>2. \A n \in S : m \in Nat /\ n \in Nat /\ ~ (n < m)
  BY <1>1 DEF OpToRel
<1>3. \A n \in S : m <= n
  BY <1>2
<1> QED BY <1>3

\* The element that SumFunctionOnSet takes out of s first.
FirstOf(s) == CHOOSE x \in s : TRUE

\* g sums f over each set of D, as the recursive function of SumFunctionOnSet does.
AreSums(g, f, D) ==
  g = [s \in D |-> IF s = {} THEN 0 ELSE f[FirstOf(s)] + g[s \ {FirstOf(s)}]]

Sums(g, f, D) ==
  \A s \in D : g[s] = IF s = {} THEN 0 ELSE f[FirstOf(s)] + g[s \ {FirstOf(s)}]

AllSums(g, f, S) == Sums(g, f, SUBSET S)

UpTo(S, n) == {s \in SUBSET S : Cardinality(s) <= n}

LEMMA SumsAre ==
  ASSUME NEW g, NEW f, NEW D, AreSums(g, f, D)
  PROVE  Sums(g, f, D)
<1> DEFINE E(s) == IF s = {} THEN 0 ELSE f[FirstOf(s)] + g[s \ {FirstOf(s)}]
<1>1. g = [s \in D |-> E(s)]
  BY DEF AreSums
<1>2. \A s \in D : g[s] = E(s)
  <2> HIDE DEF E
  <2>1. \A s \in D : [t \in D |-> E(t)][s] = E(s)
    OBVIOUS
  <2> QED BY <1>1, <2>1
<1> QED BY <1>2 DEF Sums

\* Without its first element a finite set is smaller by one.
LEMMA OneLess ==
  ASSUME NEW s, IsFiniteSet(s), s # {}
  PROVE  /\ FirstOf(s) \in s
         /\ IsFiniteSet(s \ {FirstOf(s)})
         /\ Cardinality(s) \in Nat /\ Cardinality(s \ {FirstOf(s)}) \in Nat
         /\ Cardinality(s \ {FirstOf(s)}) = Cardinality(s) - 1
<1>1. FirstOf(s) \in s
  BY DEF FirstOf
<1> QED BY <1>1, FS_RemoveElement, FS_CardinalityType

\* The sums over the sets of less than n elements give those over n.
LEMMA SumsGrow ==
  ASSUME NEW f, NEW S, IsFiniteSet(S), NEW n \in Nat, NEW g, Sums(g, f, UpTo(S, n - 1))
  PROVE  \E h : AreSums(h, f, UpTo(S, n))
<1> DEFINE D == UpTo(S, n)
           E(g0, s) == IF s = {} THEN 0 ELSE f[FirstOf(s)] + g0[s \ {FirstOf(s)}]
           h == [s \in D |-> E(g, s)]
<1>1. \A s \in D : h[s] = E(g, s)
  <2> HIDE DEF E, D
  <2> QED OBVIOUS
<1>2. ASSUME NEW s \in D, s # {}
      PROVE  h[s \ {FirstOf(s)}] = g[s \ {FirstOf(s)}]
  <2> DEFINE r == s \ {FirstOf(s)}
  <2>1. s \in SUBSET S /\ IsFiniteSet(s) /\ Cardinality(s) <= n
    BY FS_Subset DEF UpTo
  <2>2. r \in SUBSET S /\ Cardinality(r) = Cardinality(s) - 1 /\ Cardinality(s) \in Nat
        /\ Cardinality(r) \in Nat
    BY <1>2, <2>1, OneLess
  <2>3. r \in D /\ r \in UpTo(S, n - 1)
    BY <2>1, <2>2 DEF UpTo
  <2>4. g[r] = E(g, r)
    BY <2>3 DEF Sums
  <2>5. h[r] = E(g, r)
    BY <1>1, <2>3
  <2> QED BY <2>4, <2>5
<1>3. \A s \in D : E(g, s) = E(h, s)
  <2> HIDE DEF h
  <2> QED BY <1>2
<1>4. h = [s \in D |-> E(h, s)]
  <2>1. h = [s \in D |-> h[s]]
    OBVIOUS
  <2>2. \A s \in D : h[s] = E(h, s)
    <3> HIDE DEF h, E, D
    <3> QED BY <1>1, <1>3
  <2> HIDE DEF h, E, D
  <2> QED BY <2>1, <2>2
<1>5. AreSums(h, f, D)
  <2> HIDE DEF h, D
  <2> QED BY <1>4 DEF AreSums
<1> QED BY <1>5

\* So there are sums for every n: the least n without would follow one with.
LEMMA SumsExist ==
  ASSUME NEW f, NEW S, IsFiniteSet(S), NEW n \in Nat
  PROVE  \E g : AreSums(g, f, UpTo(S, n))
<1> DEFINE Bad == {k \in Nat : ~\E g : AreSums(g, f, UpTo(S, k))}
<1> SUFFICES ASSUME Bad # {} PROVE FALSE
  OBVIOUS
<1>1. PICK m \in Bad : \A k \in Bad : m <= k
  <2>1. Bad \subseteq Nat
    OBVIOUS
  <2> HIDE DEF Bad
  <2> QED BY <2>1, LeastNatural
<1>2. m \in Nat /\ ~\E g : AreSums(g, f, UpTo(S, m))
  OBVIOUS
<1>3. \E g : Sums(g, f, UpTo(S, m - 1))
  <2>1. CASE m = 0
    <3>1. UpTo(S, m - 1) = {}
      BY <2>1, FS_Subset, FS_CardinalityType DEF UpTo
    <3> QED BY <3>1 DEF Sums
  <2>2. CASE m # 0
    <3>1. m - 1 \in Nat /\ ~(m <= m - 1)
      BY <1>2, <2>2
    <3>2. PICK g : AreSums(g, f, UpTo(S, m - 1))
      BY <1>1, <3>1
    <3> QED BY <3>2, SumsAre
  <2> QED BY <2>1, <2>2
<1> QED BY <1>2, <1>3, SumsGrow

\* SumFunctionOnSet is one of them.
LEMMA SumIsOne ==
  ASSUME NEW f, NEW S, IsFiniteSet(S)
  PROVE  \E g : AllSums(g, f, S) /\ SumFunctionOnSet(f, S) = g[S]
<1> DEFINE r == CHOOSE g : AreSums(g, f, SUBSET S)
<1>1. UpTo(S, Cardinality(S)) = SUBSET S /\ Cardinality(S) \in Nat
  BY FS_Subset, FS_CardinalityType DEF UpTo
<1>2. \E g : AreSums(g, f, SUBSET S)
  <2>1. \E g : AreSums(g, f, UpTo(S, Cardinality(S)))
    BY <1>1, SumsExist
  <2> QED BY <1>1, <2>1
<1>3. AllSums(r, f, S)
  BY <1>2, SumsAre DEF AllSums
<1>4. SumFunctionOnSet(f, S) = r[S]
  BY Zenon DEF SumFunctionOnSet, FoldFunctionOnSet, MapThenFoldSet, FirstOf, AreSums
<1> QED BY <1>3, <1>4

\* Sums depend on the elements summed only.
Agree(f, e, R) == \A x \in R : e[x] = f[x]

LEMMA SumsAgree ==
  ASSUME NEW f, NEW e, NEW S, IsFiniteSet(S), NEW R, R \subseteq S, Agree(f, e, R),
         NEW g, AllSums(g, f, S), NEW h, AllSums(h, e, R)
  PROVE  g[R] = h[R]
<1>1. \A s \in SUBSET R : s \in SUBSET S /\ IsFiniteSet(s) /\ Cardinality(s) \in Nat
  BY FS_Subset, FS_CardinalityType
<1> DEFINE Bad == {Cardinality(s) : s \in {t \in SUBSET R : g[t] # h[t]}}
<1> SUFFICES ASSUME Bad # {} PROVE FALSE
  OBVIOUS
<1>2. PICK m \in Bad : \A k \in Bad : m <= k
  <2>1. Bad \subseteq Nat
    BY <1>1
  <2> HIDE DEF Bad
  <2> QED BY <2>1, LeastNatural
<1>3. PICK s \in SUBSET R : g[s] # h[s] /\ m = Cardinality(s)
  OBVIOUS
<1>4. s # {} /\ IsFiniteSet(s)
  BY <1>1, <1>3 DEF Sums, AllSums
<1> DEFINE x == FirstOf(s)
           r == s \ {x}
<1>5. x \in R /\ r \in SUBSET R /\ ~(m <= Cardinality(r))
  <2>1. x \in s /\ Cardinality(s) \in Nat /\ Cardinality(r) = Cardinality(s) - 1
    BY <1>4, OneLess
  <2> QED BY <1>3, <2>1
<1>6. g[r] = h[r]
  <2> HIDE DEF r
  <2> QED BY <1>2, <1>5
<1>7. g[s] = f[x] + g[r] /\ h[s] = e[x] + h[r]
  BY <1>1, <1>4 DEF Sums, AllSums
<1> QED BY <1>3, <1>5, <1>6, <1>7 DEF Agree

LEMMA SumSame ==
  ASSUME NEW f, NEW e, NEW S, IsFiniteSet(S), \A x \in S : e[x] = f[x]
  PROVE  SumFunctionOnSet(e, S) = SumFunctionOnSet(f, S)
<1>1. PICK g : AllSums(g, f, S) /\ SumFunctionOnSet(f, S) = g[S]
  BY SumIsOne
<1>2. PICK h : AllSums(h, e, S) /\ SumFunctionOnSet(e, S) = h[S]
  BY SumIsOne
<1>3. g[S] = h[S]
  <2>1. S \subseteq S /\ Agree(f, e, S)
    BY DEF Agree
  <2> QED BY <1>1, <1>2, <2>1, SumsAgree
<1> QED BY <1>1, <1>2, <1>3

\* They can be taken in any order.
LEMMA SumRemoves ==
  ASSUME NEW S, IsFiniteSet(S), NEW f, \A x \in S : f[x] \in Int
  PROVE  /\ SumFunctionOnSet(f, S) \in Int
         /\ S = {} => SumFunctionOnSet(f, S) = 0
         /\ \A x \in S : SumFunctionOnSet(f, S) = f[x] + SumFunctionOnSet(f, S \ {x})
<1>1. \A s \in SUBSET S : IsFiniteSet(s) /\ Cardinality(s) \in Nat
  BY FS_Subset, FS_CardinalityType
<1>2. PICK g : AllSums(g, f, S) /\ SumFunctionOnSet(f, S) = g[S]
  BY SumIsOne
<1> DEFINE Good(s) == g[s] \in Int /\ \A x \in s : g[s] = f[x] + g[s \ {x}]
           Bad == {Cardinality(s) : s \in {t \in SUBSET S : ~Good(t)}}
<1>3. \A s \in SUBSET S : Good(s)
  <2> SUFFICES ASSUME Bad # {} PROVE FALSE
    OBVIOUS
  <2>1. PICK m \in Bad : \A k \in Bad : m <= k
    <3>1. Bad \subseteq Nat
      BY <1>1
    <3> HIDE DEF Bad
    <3> QED BY <3>1, LeastNatural
  <2>2. PICK s \in SUBSET S : ~Good(s) /\ m = Cardinality(s)
    OBVIOUS
  <2>3. s # {} /\ IsFiniteSet(s)
    <3>1. g[{}] = 0
      BY <1>2 DEF Sums, AllSums
    <3> QED BY <1>1, <2>2, <3>1
  <2>4. ASSUME NEW r \in SUBSET s, r # s PROVE Good(r)
    <3>1. r \in SUBSET S /\ ~(m <= Cardinality(r))
      BY <1>1, <2>2, <2>3, <2>4, FS_Subset
    <3> HIDE DEF Good
    <3> QED BY <2>1, <3>1
  <2> DEFINE y == FirstOf(s)
  <2>5. y \in s /\ g[s] = f[y] + g[s \ {y}]
    BY <1>2, <2>3, OneLess DEF Sums, AllSums
  <2> HIDE DEF y
  <2>6. f[y] \in Int /\ g[s \ {y}] \in Int
    BY <2>4, <2>5
  <2>7. ASSUME NEW x \in s PROVE g[s] = f[x] + g[s \ {x}]
    <3>1. CASE x = y
      BY <2>5, <3>1
    <3>2. CASE x # y
      <4> DEFINE u == s \ {x, y}
      <4>1. /\ x \in s \ {y} /\ y \in s \ {x}
            /\ (s \ {y}) \ {x} = u /\ (s \ {x}) \ {y} = u
            /\ u \in SUBSET s /\ u # s
        BY <2>5, <3>2
      <4> HIDE DEF u
      <4>2. g[s \ {y}] = f[x] + g[u] /\ g[s \ {x}] = f[y] + g[u]
        <5>1. Good(s \ {y}) /\ Good(s \ {x})
          BY <2>4, <2>5
        <5> QED BY <4>1, <5>1
      <4>3. f[x] \in Int /\ g[u] \in Int
        BY <2>4, <4>1
      <4> QED BY <2>5, <2>6, <4>2, <4>3
    <3> QED BY <3>1, <3>2
  <2> QED BY <2>2, <2>5, <2>6, <2>7
<1>4. ASSUME NEW x \in S PROVE SumFunctionOnSet(f, S \ {x}) = g[S \ {x}]
  <2>1. S \ {x} \subseteq S /\ IsFiniteSet(S \ {x})
    BY <1>1
  <2>2. PICK h : AllSums(h, f, S \ {x}) /\ SumFunctionOnSet(f, S \ {x}) = h[S \ {x}]
    BY <2>1, SumIsOne
  <2>3. g[S \ {x}] = h[S \ {x}]
    <3>1. Agree(f, f, S \ {x})
      BY DEF Agree
    <3> QED BY <1>2, <2>1, <2>2, <3>1, SumsAgree
  <2> QED BY <2>2, <2>3
<1>5. Good(S) /\ (S = {} => g[S] = 0)
  BY <1>2, <1>3 DEF Sums, AllSums
<1> QED BY <1>2, <1>4, <1>5

LEMMA SumOfZeros ==
  ASSUME NEW S, IsFiniteSet(S), NEW f, \A x \in S : f[x] = 0
  PROVE  SumFunctionOnSet(f, S) = 0
<1>1. \A s \in SUBSET S : IsFiniteSet(s) /\ Cardinality(s) \in Nat
  BY FS_Subset, FS_CardinalityType
<1> DEFINE Zero(s) == SumFunctionOnSet(f, s) = 0
           Bad == {Cardinality(s) : s \in {t \in SUBSET S : ~Zero(t)}}
<1> SUFFICES ASSUME Bad # {} PROVE FALSE
  OBVIOUS
<1>2. PICK m \in Bad : \A k \in Bad : m <= k
  <2>1. Bad \subseteq Nat
    BY <1>1
  <2> HIDE DEF Bad
  <2> QED BY <2>1, LeastNatural
<1>3. PICK s \in SUBSET S : ~Zero(s) /\ m = Cardinality(s)
  OBVIOUS
<1>4. /\ SumFunctionOnSet(f, s) \in Int
      /\ s = {} => SumFunctionOnSet(f, s) = 0
      /\ \A x \in s : SumFunctionOnSet(f, s) = f[x] + SumFunctionOnSet(f, s \ {x})
  <2>1. \A x \in s : f[x] \in Int
    OBVIOUS
  <2> QED BY <1>1, <2>1, SumRemoves
<1>5. PICK x \in s : TRUE
  BY <1>3, <1>4
<1>6. s \ {x} \in SUBSET S /\ ~(m <= Cardinality(s \ {x}))
  <2>1. Cardinality(s \ {x}) = Cardinality(s) - 1 /\ Cardinality(s) \in Nat
    BY <1>1, <1>5, FS_RemoveElement
  <2> QED BY <1>3, <2>1
<1>7. Zero(s \ {x})
  <2> HIDE DEF Zero
  <2> QED BY <1>2, <1>6
<1> QED BY <1>3, <1>4, <1>5, <1>7

-----------------------------------------------------------------------------
(* The times: what a worker is charged, and how long it waits              *)

\* The time fields of w have been written by create_workers.
Stamped(w) == pc[w] # "unborn" /\ ~(main = "stamp" /\ i = w)

\* The quantum of w is running.
Serving(w) == w = currentThread /\ ~Handling(Turning)

\* The timer has expired and the current worker is not charged yet.
Due == alarm \/ Handling({"check", "suspend"})

\* The quanta a worker has been charged.
Ran == [w \in Workers |-> IF Stamped(w) THEN info[w].run_time ELSE 0]

\* Run and wait time add up to the last suspension or resumption, and the current
\* worker was resumed when the timer last expired.
Times ==
  \A w \in Workers : Stamped(w) =>
    /\ Serving(w) => /\ info[w].run_time + info[w].wait_time = info[w].resume_time
                     /\ info[w].suspend_time <= info[w].resume_time
                     /\ info[w].resume_time = IF Due THEN now - 1 ELSE now
    /\ ~Serving(w) => /\ info[w].run_time + info[w].wait_time = info[w].suspend_time
                      /\ info[w].resume_time <= info[w].suspend_time
                      /\ info[w].suspend_time <= now

JustSuspended ==
  \A t \in Threads : hnd[t] \in {"out", "in"} => info[harg[t]].suspend_time = now

\* Before the first resumption nobody has run, and no worker has before it entered.
Fresh ==
  \A w \in Workers :
    /\ Ran[w] \in Nat
    /\ pc[w] \notin Entered \/ now = 0 \/ (currentThread = Null /\ ~quit) => Ran[w] = 0

\* From the first turn of the handler on there is a current worker, until the end.
First == currentThread # Null \/ quit \/ now = 0 \/ (now = 1 /\ (alarm \/ ~Calm))

\* A worker is charged for the quanta it was given, at least one.
QuantaRun ==
  \A w \in Workers :
    /\ pc[w] # "unborn" => info[w].quanta = quanta[w] - Ran[w]
    /\ Ran[w] > 0 /\ ~Doomed(w) => info[w].quanta > 0
    /\ Doomed(w) => Ran[w] = Max1(quanta[w])

\* Every quantum since the first resumption is charged, run_times has those of the
\* cancelled workers.
Totals ==
  /\ run_times = SumFunctionOnSet(Ran, Cancelled)
  /\ run_times + SumFunctionOnSet(Ran, Workers \ Cancelled) =
       IF now = 0 THEN 0 ELSE IF Due /\ currentThread # Null THEN now - 2 ELSE now - 1

\* The time up to which the list has moved on: by one worker with every quantum.
Moved == IF Due \/ Handling({"out", "leave"}) THEN now - 1 ELSE now

\* A suspended worker is at the end of the list, and moves ahead by one with every
\* quantum; nobody is put before it.
Waits ==
  \A k \in DOMAIN sched_queue, w \in Workers :
    sched_queue[k] = w /\ Ran[w] > 0 /\ ~Serving(w) =>
      k + Moved - info[w].suspend_time <= QueueSize

TInv == /\ Times /\ JustSuspended /\ Fresh /\ First
        /\ QuantaRun /\ Totals /\ Waits

\* The times are numbers.
LEMMA InfoTypes ==
  ASSUME IInv, NEW w \in Workers
  PROVE  /\ info[w].quanta \in Int /\ info[w].run_time \in Int /\ info[w].wait_time \in Int
         /\ info[w].suspend_time \in Int /\ info[w].resume_time \in Int
         /\ info[w] \in ThreadInfo
BY DEF IInv, TypeOK, ThreadInfo

\* Steps that write no times and start or end no turn keep all of it but the waits.
LEMMA TimesKeep ==
  ASSUME IInv, TInv, UNCHANGED <<now, info, quanta, run_times>>,
         \A w \in Workers : /\ Stamped(w)' <=> Stamped(w)
                            /\ Doomed(w)' <=> Doomed(w)
                            /\ pc'[w] = "unborn" <=> pc[w] = "unborn"
                            /\ pc[w] \in Entered => pc'[w] \in Entered
                            /\ Serving(w)' <=> Serving(w)
                            /\ Serving(w) => (Due' <=> Due),
         currentThread' = Null /\ ~quit' => currentThread = Null /\ ~quit,
         Due' /\ currentThread' # Null <=> Due /\ currentThread # Null
  PROVE  Ran' = Ran /\ Times' /\ Fresh' /\ QuantaRun' /\ Totals'
<1> USE DEF TInv
<1>1. Ran' = Ran
  <2> DEFINE r(w) == IF Stamped(w) THEN info[w].run_time ELSE 0
             s(w) == IF Stamped(w)' THEN info'[w].run_time ELSE 0
  <2>1. \A w \in Workers : r(w) = s(w)
    OBVIOUS
  <2>2. [w \in Workers |-> r(w)] = [w \in Workers |-> s(w)]
    <3> HIDE DEF r, s
    <3> QED BY <2>1
  <2> QED BY <2>2 DEF Ran
<1>2. Times'
  <2> SUFFICES ASSUME NEW w \in Workers, Stamped(w)'
               PROVE  /\ Serving(w)' => /\ info'[w].run_time + info'[w].wait_time = info'[w].resume_time
                                        /\ info'[w].suspend_time <= info'[w].resume_time
                                        /\ info'[w].resume_time = IF Due' THEN now' - 1 ELSE now'
                      /\ ~Serving(w)' => /\ info'[w].run_time + info'[w].wait_time = info'[w].suspend_time
                                         /\ info'[w].resume_time <= info'[w].suspend_time
                                         /\ info'[w].suspend_time <= now'
    BY DEF Times
  <2>1. /\ Stamped(w) /\ (Serving(w)' <=> Serving(w)) /\ (Serving(w) => (Due' <=> Due))
        /\ now' = now /\ info' = info
    OBVIOUS
  <2> QED BY <2>1 DEF Times
<1>3. Fresh'
  BY <1>1 DEF Fresh
<1>4. QuantaRun'
  BY <1>1 DEF QuantaRun
<1>5. Cancelled' = Cancelled
  BY DEF Cancelled
<1>6. Totals'
  BY <1>1, <1>5 DEF Totals
<1> QED BY <1>1, <1>2, <1>3, <1>4, <1>6

\* So do they keep the waits, if they put into the list only workers that have not run.
LEMMA WaitsKeep ==
  ASSUME TInv, UNCHANGED info, Ran' = Ran, Moved' = Moved,
         \A w \in Workers : Serving(w)' <=> Serving(w),
         \A k \in DOMAIN sched_queue' :
           \/ k \in DOMAIN sched_queue /\ sched_queue'[k] = sched_queue[k]
           \/ Ran[sched_queue'[k]] = 0
  PROVE  Waits'
<1> SUFFICES ASSUME NEW k \in DOMAIN sched_queue', NEW w \in Workers,
                    sched_queue'[k] = w, Ran'[w] > 0, ~Serving(w)'
             PROVE  k + Moved' - info'[w].suspend_time <= QueueSize
  BY DEF Waits
<1>1. k \in DOMAIN sched_queue /\ sched_queue[k] = w /\ ~Serving(w)
  OBVIOUS
<1> QED BY <1>1 DEF TInv, Waits

-----------------------------------------------------------------------------
(* The main thread, the scheduler thread, the workers and the timer        *)

\* The steps of threads outside the handler, but for those that write times.
LEMMA ApartTimes ==
  ASSUME IInv, PInv, TInv,
         UNCHANGED <<now, alarm, quit, currentThread, run_times, info, quanta, hnd, harg>>,
         main' = main \/ "stamp" \notin {main, main'}, i' = i,
         \A w \in Workers : /\ Doomed(w)' <=> Doomed(w)
                            /\ pc'[w] = "unborn" <=> pc[w] = "unborn"
                            /\ pc[w] \in Entered => pc'[w] \in Entered,
         \/ sched_queue' = sched_queue
         \/ \E w \in Workers : pc[w] = "insert" /\ sched_queue' = Append(sched_queue, w)
  PROVE  TInv'
<1>1. /\ (Due' <=> Due) /\ Moved' = Moved
      /\ \A w \in Workers : (Serving(w)' <=> Serving(w)) /\ (Stamped(w)' <=> Stamped(w))
  BY DEF Due, Moved, Serving, Stamped, Handling
<1>2. Ran' = Ran /\ Times' /\ Fresh' /\ QuantaRun' /\ Totals'
  BY <1>1, TimesKeep
<1>3. JustSuspended' /\ First'
  BY DEF TInv, JustSuspended, First, Calm
<1>4. \A k \in DOMAIN sched_queue' :
        \/ k \in DOMAIN sched_queue /\ sched_queue'[k] = sched_queue[k]
        \/ Ran[sched_queue'[k]] = 0
  <2>1. CASE sched_queue' = sched_queue
    BY <2>1
  <2>2. ASSUME NEW w \in Workers, pc[w] = "insert", sched_queue' = Append(sched_queue, w)
        PROVE  \A k \in DOMAIN sched_queue' :
                 \/ k \in DOMAIN sched_queue /\ sched_queue'[k] = sched_queue[k]
                 \/ Ran[sched_queue'[k]] = 0
    <3>1. Ran[w] = 0
      BY <2>2 DEF TInv, Fresh, Entered
    <3>2. \A k \in DOMAIN sched_queue' :
            (k \in DOMAIN sched_queue /\ sched_queue'[k] = sched_queue[k]) \/ sched_queue'[k] = w
      BY <2>2, TypeFacts
    <3> QED BY <3>1, <3>2
  <2> QED BY <2>1, <2>2
<1>5. Waits'
  BY <1>1, <1>2, <1>4, WaitsKeep
<1> QED BY <1>2, <1>3, <1>5 DEF TInv

LEMMA WorkerTimes ==
  ASSUME IInv, PInv, TInv, NEW w \in Workers, Worker(w)
  PROVE  TInv'
<1>1. /\ UNCHANGED <<mainVars, clockVars, globalVars, heapVars, hndVars, quanta>>
  BY DEF Worker
<1>2. \A u \in Workers : Doomed(u)' <=> Doomed(u)
  <2>1. Held(w) \/ Awake(w)
    BY TypeFacts DEF PInv, Signals
  <2> QED BY <2>1, WorkerStep DEF Doomed
<1>3. \A u \in Workers : /\ pc'[u] = "unborn" <=> pc[u] = "unborn"
                         /\ pc[u] \in Entered => pc'[u] \in Entered
  BY TypeFacts DEF Worker, BlockSignals, AcquireToken, EnterQueue, Announce, FirstResume,
     Suspend, Resume, cancel_thread, Entered
<1>4. \/ sched_queue' = sched_queue
      \/ pc[w] = "insert" /\ sched_queue' = Append(sched_queue, w)
  BY WorkerStep
<1> QED BY <1>1, <1>2, <1>3, <1>4, ApartTimes
        DEF mainVars, clockVars, globalVars, heapVars, hndVars

LEMMA OthersTimes ==
  ASSUME IInv, PInv, TInv,
         AllCreated \/ JoinAndCleanUp \/ CreateFails \/ SchedThread \/ UNCHANGED vars
  PROVE  TInv'
<1>1. /\ UNCHANGED <<now, alarm, quit, currentThread, run_times, info, quanta, hnd, harg,
                     i, pc, sig, sched_queue>>
      /\ main' = main \/ "stamp" \notin {main, main'}
  BY DEF AllCreated, JoinAndCleanUp, CreateFails, SchedThread, StartTimer, SchedReturns, vars,
         mainVars, clockVars, globalVars, heapVars, hndVars, queueVars, workerVars
<1>2. \A w \in Workers : Doomed(w)' <=> Doomed(w)
  BY <1>1 DEF Doomed
<1> QED BY <1>1, <1>2, ApartTimes

LEMMA CreateTimes ==
  ASSUME IInv, PInv, TInv, CreateWorker
  PROVE  TInv'
<1>0. /\ main = "create" /\ main' = "stamp" /\ i < ThreadCount /\ i' = i + 1
      /\ \E g \in HeapContents : info' = [info EXCEPT ![i + 1] = NewInfo(quanta[i + 1], g)]
      /\ pc' = [pc EXCEPT ![i + 1] = "born"]
      /\ UNCHANGED <<now, alarm, quit, currentThread, run_times, sched_queue, sig, quanta, hnd, harg>>
  BY DEF CreateWorker, clockVars, globalVars, queueVars, hndVars
<1>1. now = 0 /\ Calm /\ currentThread = Null /\ Null \notin Workers
  BY <1>0, TypeFacts DEF PInv, Phases
<1>2. PICK n \in Workers :
        /\ n = i + 1 /\ pc[n] = "unborn" /\ pc'[n] = "born"
        /\ \A w \in Workers \ {n} : pc'[w] = pc[w]
  BY <1>0, TypeFacts DEF IInv, TypeOK, CreatedInOrder, Workers
<1>3. /\ info'[n].quanta = quanta[n]
      /\ \A w \in Workers \ {n} : info'[w] = info[w]
  BY <1>0, <1>2 DEF NewInfo, IInv, TypeOK
<1>4. \A w \in Workers : /\ ~Serving(w) /\ ~Serving(w)'
                         /\ w # n => (Stamped(w)' <=> Stamped(w))
                         /\ ~Stamped(n) /\ ~Stamped(n)'
                         /\ Doomed(w)' <=> Doomed(w)
  BY <1>0, <1>1, <1>2 DEF Serving, Stamped, Doomed
<1>5. Ran' = Ran
  <2> DEFINE r(w) == IF Stamped(w) THEN info[w].run_time ELSE 0
             s(w) == IF Stamped(w)' THEN info'[w].run_time ELSE 0
  <2>1. \A w \in Workers : r(w) = s(w)
    BY <1>3, <1>4
  <2>2. [w \in Workers |-> r(w)] = [w \in Workers |-> s(w)]
    <3> HIDE DEF r, s
    <3> QED BY <2>1
  <2> QED BY <2>2 DEF Ran
<1>6. \A w \in Workers : Ran[w] = 0
  BY <1>1 DEF TInv, Fresh
<1>7. Times'
  BY <1>0, <1>3, <1>4 DEF TInv, Times
<1>8. Fresh' /\ Waits'
  BY <1>5, <1>6 DEF Fresh, Waits
<1>9. JustSuspended' /\ First'
  BY <1>0, <1>1 DEF JustSuspended, First, Calm
<1>10. QuantaRun'
  BY <1>0, <1>2, <1>3, <1>4, <1>5, <1>6 DEF TInv, QuantaRun, IInv, TypeOK
<1>11. Totals'
  <2>1. Cancelled' = Cancelled
    BY <1>4 DEF Cancelled
  <2> QED BY <1>0, <1>1, <1>5, <2>1 DEF TInv, Totals
<1> QED BY <1>7, <1>8, <1>9, <1>10, <1>11 DEF TInv

LEMMA StampTimesKeeps ==
  ASSUME IInv, PInv, TInv, StampTimes
  PROVE  TInv'
<1>1. now = 0 /\ Calm /\ currentThread = Null /\ Null \notin Workers /\ i \notin freed
      /\ main = "stamp" /\ i \in Workers
  <2>1. now = 0 /\ main = "stamp" /\ i \in Workers
    BY TypeFacts DEF StampTimes, PInv, Phases, IInv, TypeOK, Workers
  <2> QED BY <2>1, TypeFacts DEF PInv, Phases, FreedDoomed
<1>0. /\ main' = "create" /\ i' = i /\ info' = [info EXCEPT ![i] = Started(@)]
      /\ UNCHANGED <<now, alarm, quit, currentThread, run_times, sched_queue, sig, quanta, hnd, harg, pc>>
  BY <1>1 DEF StampTimes, clockVars, globalVars, queueVars, workerVars, hndVars
<1>2. /\ info'[i].run_time = 0 /\ info'[i].wait_time = 0
      /\ info'[i].suspend_time = 0 /\ info'[i].resume_time = 0
      /\ info'[i].quanta = info[i].quanta
      /\ \A w \in Workers \ {i} : info'[w] = info[w]
  BY <1>0, <1>1 DEF Started, IInv, TypeOK
<1>3. \A w \in Workers : /\ ~Serving(w) /\ ~Serving(w)'
                         /\ w # i => (Stamped(w)' <=> Stamped(w))
                         /\ ~Stamped(i)
                         /\ Doomed(w)' <=> Doomed(w)
  BY <1>0, <1>1 DEF Serving, Stamped, Doomed
<1>4. Ran' = Ran
  <2> DEFINE r(w) == IF Stamped(w) THEN info[w].run_time ELSE 0
             s(w) == IF Stamped(w)' THEN info'[w].run_time ELSE 0
  <2>1. \A w \in Workers : r(w) = s(w)
    BY <1>2, <1>3
  <2>2. [w \in Workers |-> r(w)] = [w \in Workers |-> s(w)]
    <3> HIDE DEF r, s
    <3> QED BY <2>1
  <2> QED BY <2>2 DEF Ran
<1>5. \A w \in Workers : Ran[w] = 0
  BY <1>1 DEF TInv, Fresh
<1>6. Times'
  BY <1>0, <1>1, <1>2, <1>3 DEF TInv, Times
<1>7. Fresh' /\ Waits'
  BY <1>4, <1>5 DEF Fresh, Waits
<1>8. JustSuspended' /\ First'
  BY <1>0, <1>1 DEF JustSuspended, First, Calm
<1>9. QuantaRun'
  BY <1>0, <1>2, <1>3, <1>4, <1>5 DEF TInv, QuantaRun
<1>10. Totals'
  <2>1. Cancelled' = Cancelled
    BY <1>3 DEF Cancelled
  <2> QED BY <1>0, <1>1, <1>4, <2>1 DEF TInv, Totals
<1> QED BY <1>6, <1>7, <1>8, <1>9, <1>10 DEF TInv

\* The timer expires only when there is a current worker, but for the first time.
LEMMA TickTimes ==
  ASSUME IInv, PInv, TInv, Prompt, Tick
  PROVE  TInv'
<1>0. /\ Settled /\ ~Finished /\ sched # "wait" /\ now' = now + 1 /\ alarm' = TRUE
      /\ UNCHANGED <<main, i, quit, currentThread, run_times, sched_queue, sig, quanta, hnd,
                     harg, pc, info>>
  BY DEF Tick, mainVars, globalVars, queueVars, workerVars, heapVars, hndVars
<1>1. Calm /\ ~alarm /\ \A w \in Workers : Quiet(w)
  BY <1>0 DEF Settled, Calm
<1>2. ~quit
  <2> SUFFICES ASSUME quit PROVE FALSE
    OBVIOUS
  <2>1. main = "exited"
    BY <1>0, TypeFacts DEF Settled, IInv, TypeOK
  <2>2. \A w \in Workers : pc[w] = "dead"
    BY <1>1, TypeFacts DEF PInv, Counted, Doomed, Quiet, IInv, PointersEntered, Entered
  <2> QED BY <1>0, <2>1, <2>2 DEF Finished
<1>3. (now = 0 /\ currentThread = Null) \/ (now > 0 /\ currentThread # Null)
  <2>1. currentThread # Null \/ now = 0
    BY <1>1, <1>2 DEF TInv, First
  <2>2. now = 0 => currentThread = Null
    BY DEF PInv, Phases
  <2>3. now \in Nat
    BY TypeFacts
  <2> QED BY <2>1, <2>2, <2>3
<1>4. /\ ~Due /\ Due' /\ Moved = now /\ Moved' = now
      /\ \A w \in Workers : /\ Serving(w)' <=> Serving(w)
                            /\ Stamped(w)' <=> Stamped(w)
                            /\ Doomed(w)' <=> Doomed(w)
  BY <1>0, <1>1, TypeFacts DEF Due, Moved, Handling, Calm, Serving, Stamped, Doomed
<1>5. Ran' = Ran
  <2> DEFINE r(w) == IF Stamped(w) THEN info[w].run_time ELSE 0
             s(w) == IF Stamped(w)' THEN info'[w].run_time ELSE 0
  <2>1. \A w \in Workers : r(w) = s(w)
    BY <1>0, <1>4
  <2>2. [w \in Workers |-> r(w)] = [w \in Workers |-> s(w)]
    <3> HIDE DEF r, s
    <3> QED BY <2>1
  <2> QED BY <2>2 DEF Ran
<1>6. Times'
  <2> SUFFICES ASSUME NEW w \in Workers, Stamped(w)'
               PROVE  /\ Serving(w)' => /\ info'[w].run_time + info'[w].wait_time = info'[w].resume_time
                                        /\ info'[w].suspend_time <= info'[w].resume_time
                                        /\ info'[w].resume_time = IF Due' THEN now' - 1 ELSE now'
                      /\ ~Serving(w)' => /\ info'[w].run_time + info'[w].wait_time = info'[w].suspend_time
                                         /\ info'[w].resume_time <= info'[w].suspend_time
                                         /\ info'[w].suspend_time <= now'
    BY DEF Times
  <2>1. Stamped(w) /\ (Serving(w)' <=> Serving(w)) /\ ~Due /\ Due' /\ now' = now + 1
        /\ info' = info
    BY <1>0, <1>4
  <2> QED BY <2>1, TypeFacts, InfoTypes DEF TInv, Times
<1>7. Fresh'
  BY <1>0, <1>3, <1>5, TypeFacts DEF TInv, Fresh
<1>8. JustSuspended' /\ First'
  BY <1>0, <1>1, <1>3 DEF JustSuspended, First, Calm
<1>9. QuantaRun'
  BY <1>0, <1>4, <1>5 DEF TInv, QuantaRun
<1>10. Totals'
  <2>1. Cancelled' = Cancelled
    BY <1>4 DEF Cancelled
  <2>2. run_times + SumFunctionOnSet(Ran, Workers \ Cancelled) = IF now = 0 THEN 0 ELSE now - 1
    BY <1>4 DEF TInv, Totals
  <2>3. (IF now = 0 THEN 0 ELSE now - 1)
          = IF now' = 0 THEN 0
            ELSE IF Due' /\ currentThread' # Null THEN now' - 2 ELSE now' - 1
    BY <1>0, <1>3, <1>4, TypeFacts
  <2> QED BY <1>0, <1>5, <2>1, <2>2, <2>3 DEF TInv, Totals
<1>11. Waits'
  BY <1>0, <1>4, <1>5 DEF TInv, Waits
<1> QED BY <1>6, <1>7, <1>8, <1>9, <1>10, <1>11 DEF TInv

-----------------------------------------------------------------------------
(* timer_handler                                                           *)

LEMMA TakeAlarmTimes ==
  ASSUME IInv, PInv, TInv, NEW t \in Threads, TakeAlarm(t)
  PROVE  TInv'
<1>0. /\ alarm /\ alarm' = FALSE /\ hnd' = [hnd EXCEPT ![t] = "check"]
      /\ harg' = [harg EXCEPT ![t] = Null]
      /\ UNCHANGED <<main, i, now, quit, currentThread, run_times, sched_queue, sig, quanta, pc, info>>
  BY DEF TakeAlarm, Goto, handlerFrame, globalVars, heapVars, mainVars
<1>1. Calm /\ now > 0
  BY <1>0, TypeFacts DEF PInv, OneHandler, Phases
<1>2. /\ hnd'[t] = "check" /\ \A u \in Threads \ {t} : hnd'[u] = "idle"
  BY <1>0, <1>1, TypeFacts DEF Calm
<1>3. /\ Due /\ Due' /\ Moved' = Moved
      /\ \A w \in Workers : /\ Serving(w)' <=> Serving(w)
                            /\ Stamped(w)' <=> Stamped(w)
                            /\ Doomed(w)' <=> Doomed(w)
  BY <1>0, <1>1, <1>2 DEF Due, Moved, Serving, Stamped, Doomed, Handling, Calm, Turning
<1>4. Ran' = Ran /\ Times' /\ Fresh' /\ QuantaRun' /\ Totals'
  BY <1>0, <1>3, TimesKeep
<1>5. JustSuspended'
  BY <1>2 DEF JustSuspended
<1>6. First'
  BY <1>0, <1>2 DEF TInv, First, Calm
<1>7. Waits'
  BY <1>0, <1>3, <1>4, WaitsKeep
<1> QED BY <1>4, <1>5, <1>6, <1>7 DEF TInv

\* What a step of the handler means for the times.
LEMMA TurnFrame ==
  ASSUME IInv, PInv, NEW t \in Threads, hnd[t] # "idle", NEW step, NEW w,
         Goto(t, step, w), UNCHANGED handlerFrame, alarm' = alarm
  PROVE  /\ now \in Nat /\ now > 0 /\ now' = now /\ pc' = pc /\ quanta' = quanta
         /\ hnd'[t] = step /\ harg'[t] = w
         /\ \A u \in Threads \ {t} : hnd[u] = "idle" /\ hnd'[u] = "idle"
         /\ \A u \in Workers : pc[u] # "unborn" /\ Stamped(u) /\ Stamped(u)'
         /\ \A u \in Workers : Serving(u) <=> u = currentThread /\ hnd[t] \notin Turning
         /\ \A u \in Workers : Serving(u)' <=> u = currentThread' /\ step \notin Turning
         /\ Due <=> hnd[t] \in {"check", "suspend"}
         /\ Due' <=> step \in {"check", "suspend"}
         /\ Moved = IF hnd[t] \in {"check", "suspend", "out", "leave"} THEN now - 1 ELSE now
         /\ Moved' = IF step \in {"check", "suspend", "out", "leave"} THEN now - 1 ELSE now
<1>1. ~alarm /\ now \in Nat /\ now > 0 /\ \A u \in Threads \ {t} : hnd[u] = "idle"
  BY Alone, TypeFacts
<1>2. /\ UNCHANGED <<main, i, now, pc, quanta>>
      /\ hnd'[t] = step /\ harg'[t] = w /\ \A u \in Threads \ {t} : hnd'[u] = "idle"
  BY <1>1, HandlerFrame DEF handlerFrame, mainVars
<1>3. \A u \in Workers : pc[u] # "unborn" /\ Stamped(u) /\ Stamped(u)'
  BY <1>1, <1>2 DEF PInv, Phases, Stamped
<1>4. \A S : "idle" \notin S => /\ Handling(S) <=> hnd[t] \in S
                                /\ Handling(S)' <=> step \in S
  BY <1>1, <1>2 DEF Handling
<1>5. /\ \A u \in Workers : Serving(u) <=> u = currentThread /\ hnd[t] \notin Turning
      /\ \A u \in Workers : Serving(u)' <=> u = currentThread' /\ step \notin Turning
  BY <1>4 DEF Serving, Turning
<1>6. /\ Due <=> hnd[t] \in {"check", "suspend"}
      /\ Due' <=> step \in {"check", "suspend"}
  BY <1>1, <1>4 DEF Due
<1>7. /\ Moved = IF hnd[t] \in {"check", "suspend", "out", "leave"} THEN now - 1 ELSE now
      /\ Moved' = IF step \in {"check", "suspend", "out", "leave"} THEN now - 1 ELSE now
  BY <1>2, <1>4, <1>6 DEF Moved
<1> QED BY <1>1, <1>2, <1>3, <1>5, <1>6, <1>7

\* The steps that charge nobody and resume nobody keep the times; but for the waits and
\* who is first.
LEMMA UnchargedTimes ==
  ASSUME IInv, PInv, TInv, NEW t \in Threads, hnd[t] # "idle", NEW step, NEW w,
         Goto(t, step, w), UNCHANGED <<handlerFrame, alarm, run_times, sig, info>>,
         hnd[t] \in Turning,
         step \in Turning \/ currentThread' = Null,
         step \notin {"out", "check", "suspend"}, step = "in" => w = harg[t] /\ hnd[t] = "out",
         currentThread' = Null /\ ~quit' => currentThread = Null /\ ~quit
  PROVE  Ran' = Ran /\ Times' /\ Fresh' /\ QuantaRun' /\ Totals' /\ JustSuspended'
<1>1. /\ now' = now /\ pc' = pc /\ quanta' = quanta
      /\ hnd'[t] = step /\ harg'[t] = w
      /\ \A u \in Threads \ {t} : hnd'[u] = "idle"
      /\ \A u \in Workers : Stamped(u) /\ Stamped(u)'
      /\ \A u \in Workers : Serving(u) <=> u = currentThread /\ hnd[t] \notin Turning
      /\ \A u \in Workers : Serving(u)' <=> u = currentThread' /\ step \notin Turning
      /\ Due <=> hnd[t] \in {"check", "suspend"}
      /\ Due' <=> step \in {"check", "suspend"}
  BY TurnFrame
<1>2. ~Due /\ ~Due' /\ \A u \in Workers : ~Serving(u) /\ ~Serving(u)'
  BY <1>1, TypeFacts DEF Turning
<1>3. \A u \in Workers : Doomed(u)' <=> Doomed(u)
  BY <1>1 DEF Doomed
<1>4. Ran' = Ran /\ Times' /\ Fresh' /\ QuantaRun' /\ Totals'
  BY <1>1, <1>2, <1>3, TimesKeep
<1>5. JustSuspended'
  BY <1>1 DEF TInv, JustSuspended
<1> QED BY <1>4, <1>5

LEMMA CheckTimes ==
  ASSUME IInv, PInv, TInv, NEW t \in Threads, Check(t)
  PROVE  TInv'
<1>0. /\ hnd[t] = "check"
      /\ UNCHANGED <<handlerFrame, alarm, currentThread, run_times, sched_queue, sig, info>>
      /\ \/ sched_queue = <<>> /\ quit' = TRUE /\ Goto(t, "idle", Null)
         \/ quit' = quit /\ Goto(t, "suspend", Null)
  BY DEF Check, heapVars
<1>1. PICK step \in {"idle", "suspend"} :
        /\ Goto(t, step, Null)
        /\ \/ step = "idle" /\ sched_queue = <<>> /\ quit' = TRUE
           \/ step = "suspend" /\ quit' = quit
  BY <1>0
<1>2. /\ now' = now /\ pc' = pc /\ quanta' = quanta
      /\ hnd'[t] = step /\ \A u \in Threads \ {t} : hnd'[u] = "idle"
      /\ \A u \in Workers : Stamped(u) /\ Stamped(u)'
      /\ \A u \in Workers : Serving(u) <=> u = currentThread
      /\ \A u \in Workers : Serving(u)' <=> u = currentThread
      /\ Due /\ (Due' <=> step = "suspend") /\ Moved = now - 1
      /\ Moved' = IF step = "suspend" THEN now - 1 ELSE now
  BY <1>0, <1>1, TurnFrame DEF Turning
<1>3. step = "idle" => currentThread = Null
  BY <1>0, <1>1, Alone DEF PInv, InList, Turning, ToSet
<1>4. \A u \in Workers : Doomed(u)' <=> Doomed(u)
  BY <1>0, <1>2 DEF Doomed
<1>5. Ran' = Ran /\ Times' /\ Fresh' /\ QuantaRun' /\ Totals'
  BY <1>0, <1>1, <1>2, <1>3, <1>4, TypeFacts, TimesKeep
<1>6. JustSuspended'
  BY <1>2 DEF JustSuspended
<1>7. First'
  BY <1>0, <1>1, <1>2 DEF TInv, First, Calm
<1>8. Waits'
  <2>1. CASE step = "suspend"
    BY <1>0, <1>2, <1>5, <2>1, WaitsKeep
  <2>2. CASE step = "idle"
    BY <1>0, <1>1, <2>2 DEF Waits
  <2> QED BY <2>1, <2>2
<1> QED BY <1>5, <1>6, <1>7, <1>8 DEF TInv

\* The list is empty when all workers are cancelled and nobody is leaving.
LEMMA DoneMeansEmpty ==
  ASSUME IInv, PInv, quit, NEW t \in Threads, hnd[t] \notin {"idle", "leave"}
  PROVE  DOMAIN sched_queue = {}
<1> SUFFICES ASSUME NEW k \in DOMAIN sched_queue PROVE FALSE
  OBVIOUS
<1>1. sched_queue[k] \in ToSet(sched_queue)
  BY DEF ToSet
<1>2. sched_queue[k] \in Workers /\ ~Doomed(sched_queue[k])
  BY <1>1, ListedAlive
<1> QED BY <1>2 DEF PInv, Counted

\* At the first expiry nobody is suspended.
LEMMA NobodyTimes ==
  ASSUME IInv, PInv, TInv, NEW t \in Threads, NobodyToSuspend(t)
  PROVE  TInv'
<1>0. /\ hnd[t] = "suspend" /\ currentThread = Null /\ Goto(t, "next", Null)
      /\ UNCHANGED <<handlerFrame, alarm, currentThread, quit, run_times, sched_queue, sig, info>>
  BY DEF NobodyToSuspend, globalVars, heapVars
<1>1. /\ now' = now /\ pc' = pc /\ quanta' = quanta
      /\ hnd'[t] = "next" /\ \A u \in Threads \ {t} : hnd'[u] = "idle"
      /\ \A u \in Workers : Stamped(u) /\ Stamped(u)'
      /\ \A u \in Workers : ~Serving(u) /\ ~Serving(u)'
      /\ Moved = now - 1 /\ Moved' = now
  BY <1>0, TypeFacts, TurnFrame DEF Turning
<1>2. \A u \in Workers : Doomed(u)' <=> Doomed(u)
  BY <1>0, <1>1 DEF Doomed
<1>3. Ran' = Ran /\ Times' /\ Fresh' /\ QuantaRun' /\ Totals'
  BY <1>0, <1>1, <1>2, TypeFacts, TimesKeep
<1>4. JustSuspended' /\ First'
  BY <1>0, <1>1 DEF TInv, JustSuspended, First, Calm
<1>5. Waits'
  <2>1. CASE quit
    <3>1. DOMAIN sched_queue = {}
      BY <1>0, <2>1, DoneMeansEmpty
    <3> QED BY <1>0, <3>1 DEF Waits
  <2>2. CASE ~quit
    <3>1. \A w \in Workers : Ran[w] = 0
      BY <1>0, <2>2 DEF TInv, Fresh
    <3> QED BY <1>3, <3>1 DEF Waits
  <2> QED BY <2>1, <2>2
<1> QED BY <1>3, <1>4, <1>5 DEF TInv

\* The list moves on by one when its head is taken out.
LEMMA WaitsMoveOn ==
  ASSUME TInv, UNCHANGED <<now, info>>, Ran' = Ran, now \in Int,
         \A w \in Workers : info[w].suspend_time \in Int,
         Moved = now - 1, Moved' = now,
         \A w \in Workers : ~Serving(w) /\ ~Serving(w)',
         sched_queue \in Seq(Workers), sched_queue # <<>>, sched_queue' = Tail(sched_queue)
  PROVE  Waits'
<1> SUFFICES ASSUME NEW k \in DOMAIN sched_queue', NEW w \in Workers,
                    sched_queue'[k] = w, Ran'[w] > 0, ~Serving(w)'
             PROVE  k + Moved' - info'[w].suspend_time <= QueueSize
  BY DEF Waits
<1>1. k \in Nat /\ k + 1 \in DOMAIN sched_queue /\ sched_queue[k + 1] = w
  OBVIOUS
<1>2. (k + 1) + Moved - info[w].suspend_time <= QueueSize
  BY <1>1 DEF TInv, Waits
<1>3. info'[w].suspend_time = info[w].suspend_time /\ info[w].suspend_time \in Int
      /\ QueueSize \in Nat
  BY ConstantsAssumption DEF ConstantsAssumption
<1> QED BY <1>1, <1>2, <1>3

\* The steps between the suspension of one worker and the resumption of the next.
LEMMA RotateOutTimes ==
  ASSUME IInv, PInv, Served, TInv, NEW t \in Threads, RotateOut(t) \/ leave_scheduler_queue(t)
  PROVE  TInv'
<1>0. PICK step \in {"in", "next"} :
      /\ hnd[t] = IF step = "in" THEN "out" ELSE "leave"
      /\ sched_queue' = list_remove(sched_queue, harg[t])
      /\ Goto(t, step, IF step = "in" THEN harg[t] ELSE Null)
      /\ UNCHANGED <<handlerFrame, alarm, currentThread, quit, run_times, sig, info>>
  BY DEF RotateOut, leave_scheduler_queue, globalVars, heapVars
<1>1. PICK w : w = IF step = "in" THEN harg[t] ELSE Null
  OBVIOUS
<1>2. Ran' = Ran /\ Times' /\ Fresh' /\ QuantaRun' /\ Totals' /\ JustSuspended'
  BY <1>0, <1>1, UnchargedTimes DEF Turning
<1>3. /\ now \in Nat /\ now' = now /\ hnd'[t] # "idle"
      /\ \A u \in Workers : ~Serving(u) /\ ~Serving(u)'
      /\ Moved = now - 1 /\ Moved' = now
  BY <1>0, <1>1, TurnFrame DEF Turning
<1>4. First'
  BY <1>0, <1>3 DEF TInv, First, Calm
<1>5. sched_queue # <<>> /\ sched_queue' = Tail(sched_queue)
  <2>1. sched_queue # <<>> /\ harg[t] = Head(sched_queue)
    BY <1>0 DEF Served
  <2> QED BY <1>0, <2>1, TypeFacts, RemoveHead DEF IInv, ListSound
<1>6. Waits'
  BY <1>0, <1>2, <1>3, <1>5, TypeFacts, InfoTypes, WaitsMoveOn
<1> QED BY <1>2, <1>4, <1>6 DEF TInv

LEMMA RotateInTimes ==
  ASSUME IInv, IInv', PInv, Served, TInv, NEW t \in Threads, RotateIn(t)
  PROVE  TInv'
<1>0. /\ hnd[t] = "in" /\ sched_queue' = Append(sched_queue, harg[t])
      /\ Goto(t, "next", Null)
      /\ UNCHANGED <<handlerFrame, alarm, currentThread, quit, run_times, sig, info>>
  BY DEF RotateIn, list_insert_tail, globalVars, heapVars
<1>1. Ran' = Ran /\ Times' /\ Fresh' /\ QuantaRun' /\ Totals' /\ JustSuspended'
  BY <1>0, UnchargedTimes DEF Turning
<1>2. /\ now \in Nat /\ now' = now /\ hnd'[t] = "next"
      /\ \A u \in Threads \ {t} : hnd'[u] = "idle"
      /\ \A u \in Workers : ~Serving(u) /\ ~Serving(u)'
      /\ Moved = now /\ Moved' = now
  BY <1>0, TurnFrame DEF Turning
<1>3. First'
  BY <1>0, <1>2 DEF TInv, First, Calm
<1>4. Waits'
  <2> SUFFICES ASSUME NEW k \in DOMAIN sched_queue', NEW w \in Workers,
                      sched_queue'[k] = w, Ran'[w] > 0, ~Serving(w)'
               PROVE  k + Moved' - info'[w].suspend_time <= QueueSize
    BY DEF Waits
  <2>1. CASE k \in DOMAIN sched_queue /\ sched_queue'[k] = sched_queue[k]
    BY <1>0, <1>1, <1>2, <2>1 DEF TInv, Waits
  <2>2. CASE w = harg[t]
    <3>1. info[w].suspend_time = now
      BY <1>0, <2>2 DEF TInv, JustSuspended
    <3>2. Len(sched_queue') <= QueueSize
      <4>1. {u \in Threads : hnd'[u] = "leave"} = {}
        BY <1>2
      <4>2. Len(sched_queue') <= QueueSize + Cardinality({u \in Threads : hnd'[u] = "leave"})
        BY OverrunAfter DEF OverrunBound
      <4>3. Cardinality({u \in Threads : hnd'[u] = "leave"}) = 0
        BY <4>1, FS_EmptySet
      <4> QED BY <4>2, <4>3, TypeFacts
    <3>3. k \in Nat /\ k <= Len(sched_queue')
      BY <1>0, TypeFacts
    <3> QED BY <1>0, <1>2, <3>1, <3>2, <3>3, TypeFacts
  <2> QED BY <1>0, <2>1, <2>2, TypeFacts
<1> QED BY <1>1, <1>3, <1>4 DEF TInv

LEMMA MoveOnTimes ==
  ASSUME IInv, PInv, TInv, NEW t \in Threads,
         AllCompleted(t) \/ wait_for_queue(t) \/ SpinEnds(t) \/ PickHead(t)
  PROVE  TInv'
<1>0. PICK step \in {"idle", "wait", "pick", "resume"}, w \in Workers \cup {Null} :
        /\ hnd[t] \in {"next", "wait", "pick"} /\ Goto(t, step, w)
        /\ UNCHANGED <<handlerFrame, alarm, run_times, sched_queue, sig, info>>
        /\ \/ step = "idle" /\ currentThread' = Null /\ quit' = TRUE
           \/ step \in {"wait", "pick"} /\ currentThread' = currentThread /\ quit' = quit
           \/ step = "resume" /\ currentThread' # Null /\ quit' = quit
  <2>1. CASE AllCompleted(t)
    BY <2>1 DEF AllCompleted, heapVars
  <2>2. CASE wait_for_queue(t) \/ SpinEnds(t)
    BY <2>2 DEF wait_for_queue, SpinEnds, globalVars, heapVars
  <2>3. CASE PickHead(t)
    <3>1. Head(sched_queue) \in Workers
      BY <2>3, TypeFacts, HeadTailProperties DEF PickHead, PInv, InList
    <3> QED BY <2>3, <3>1, TypeFacts DEF PickHead, heapVars
  <2> QED BY <2>1, <2>2, <2>3
<1>1. Ran' = Ran /\ Times' /\ Fresh' /\ QuantaRun' /\ Totals' /\ JustSuspended'
  BY <1>0, UnchargedTimes DEF Turning
<1>2. /\ now' = now /\ hnd'[t] = step
      /\ \A u \in Workers : ~Serving(u) /\ ~Serving(u)'
      /\ Moved' = Moved
  BY <1>0, TypeFacts, TurnFrame DEF Turning
<1>3. First'
  BY <1>0, <1>2 DEF TInv, First, Calm
<1>4. Waits'
  BY <1>0, <1>1, <1>2, WaitsKeep
<1> QED BY <1>1, <1>3, <1>4 DEF TInv

\* The fields that a charge and a resumption write.
LEMMA FieldsAfter ==
  ASSUME IInv, NEW w \in Workers
  PROVE  /\ ChargeQuantum(w).quanta = info[w].quanta - 1
         /\ ChargeQuantum(w).run_time = info[w].run_time + now - info[w].resume_time
         /\ ChargeQuantum(w).wait_time = info[w].wait_time
         /\ ChargeQuantum(w).suspend_time = now
         /\ ChargeQuantum(w).resume_time = info[w].resume_time
         /\ update_wait_time(info[w]).quanta = info[w].quanta
         /\ update_wait_time(info[w]).run_time = info[w].run_time
         /\ update_wait_time(info[w]).wait_time = info[w].wait_time + now - info[w].suspend_time
         /\ update_wait_time(info[w]).suspend_time = info[w].suspend_time
         /\ update_wait_time(info[w]).resume_time = now
<1>1. info[w] \in ThreadInfo
  BY InfoTypes
<1> QED BY <1>1 DEF ThreadInfo, ChargeQuantum, update_run_time, update_wait_time

\* A charge is of one quantum, and the worker waits from now on.
LEMMA ChargeTimes ==
  ASSUME IInv, PInv, Served, TInv, NEW t \in Threads, NEW step \in {"out", "leave"},
         NEW c \in Workers, hnd[t] = "suspend", c = currentThread, Goto(t, step, c),
         info' = [info EXCEPT ![c] = ChargeQuantum(c)],
         UNCHANGED <<handlerFrame, alarm, currentThread, quit, sched_queue>>
  PROVE  /\ Times' /\ JustSuspended' /\ Fresh' /\ First' /\ Waits'
         /\ info'[c].quanta = info[c].quanta - 1
         /\ \A u \in Workers \ {c} : info'[u] = info[u] /\ Ran'[u] = Ran[u]
         /\ Ran[c] \in Nat /\ Ran'[c] = Ran[c] + 1 /\ info'[c].run_time = Ran'[c]
         /\ now \in Nat /\ now > 0 /\ now' = now /\ pc' = pc /\ quanta' = quanta
         /\ pc[c] \in Entered /\ ~Doomed(c) /\ Due /\ ~Due'
<1>1. /\ now \in Nat /\ now > 0 /\ now' = now /\ pc' = pc /\ quanta' = quanta
      /\ hnd'[t] = step /\ harg'[t] = c /\ \A u \in Threads \ {t} : hnd'[u] = "idle"
      /\ \A u \in Workers : Stamped(u) /\ Stamped(u)'
      /\ \A u \in Workers : Serving(u) <=> u = c
      /\ \A u \in Workers : ~Serving(u)'
      /\ Due /\ ~Due' /\ Moved = now - 1 /\ Moved' = now - 1
  BY TurnFrame DEF Turning
<1>2. /\ info'[c].quanta = info[c].quanta - 1
      /\ info'[c].run_time = info[c].run_time + now - info[c].resume_time
      /\ info'[c].wait_time = info[c].wait_time
      /\ info'[c].suspend_time = now
      /\ info'[c].resume_time = info[c].resume_time
      /\ \A u \in Workers \ {c} : info'[u] = info[u]
  BY FieldsAfter DEF IInv, TypeOK
<1>3. /\ info[c].run_time + info[c].wait_time = now - 1 /\ info[c].resume_time = now - 1
      /\ info[c].run_time \in Int /\ info[c].wait_time \in Int
  BY <1>1, InfoTypes DEF TInv, Times
<1>4. info'[c].run_time = info[c].run_time + 1
  BY <1>1, <1>2, <1>3
<1>5. /\ \A u \in Workers : Ran[u] = info[u].run_time /\ Ran'[u] = info'[u].run_time
      /\ \A u \in Workers : Ran[u] \in Nat
  BY <1>1 DEF Ran, TInv, Fresh
<1>6. pc[c] \in Entered /\ ~Doomed(c)
  <2>1. c \in ToSet(sched_queue)
    BY Alone, TypeFacts DEF PInv, InList, Turning
  <2> QED BY <2>1, ListedAlive
<1>7. Times'
  <2> SUFFICES ASSUME NEW w \in Workers
               PROVE  /\ info'[w].run_time + info'[w].wait_time = info'[w].suspend_time
                      /\ info'[w].resume_time <= info'[w].suspend_time
                      /\ info'[w].suspend_time <= now
    BY <1>1 DEF Times
  <2>1. CASE w = c
    BY <1>1, <1>2, <1>3, <1>4, <2>1
  <2>2. CASE w # c
    BY <1>1, <1>2, <2>2 DEF TInv, Times
  <2> QED BY <2>1, <2>2
<1>8. JustSuspended'
  BY <1>1, <1>2 DEF JustSuspended
<1>9. Fresh'
  BY <1>1, <1>2, <1>4, <1>5, <1>6, TypeFacts DEF TInv, Fresh
<1>10. First'
  BY TypeFacts DEF First
<1>11. Waits'
  <2> SUFFICES ASSUME NEW k \in DOMAIN sched_queue, NEW w \in Workers,
                      sched_queue[k] = w, Ran'[w] > 0
               PROVE  k + Moved' - info'[w].suspend_time <= QueueSize
    BY DEF Waits
  <2>1. CASE w = c
    <3>1. Len(sched_queue) <= QueueSize
      <4>1. \A u \in Threads : hnd[u] # "leave"
        BY Alone
      <4>2. {u \in Threads : hnd[u] = "leave"} = {}
        BY <4>1
      <4>3. Cardinality({u \in Threads : hnd[u] = "leave"}) = 0
        BY <4>2, FS_EmptySet
      <4> QED BY <4>3, TypeFacts, OverrunFollows DEF OverrunBound
    <3>2. k \in Nat /\ k <= Len(sched_queue)
      BY TypeFacts
    <3> QED BY <1>1, <1>2, <2>1, <3>1, <3>2, TypeFacts
  <2>2. CASE w # c
    BY <1>1, <1>2, <1>5, <2>2 DEF TInv, Waits
  <2> QED BY <2>1, <2>2
<1> QED BY <1>1, <1>2, <1>4, <1>5, <1>6, <1>7, <1>8, <1>9, <1>10, <1>11

\* One quantum more for one worker of a set is one more in its sum.
LEMMA SumCharged ==
  ASSUME NEW S, IsFiniteSet(S), NEW c \in S, NEW f, NEW e, \A x \in S : f[x] \in Int,
         \A x \in S \ {c} : e[x] = f[x], e[c] = f[c] + 1
  PROVE  SumFunctionOnSet(e, S) = SumFunctionOnSet(f, S) + 1
<1> DEFINE R == S \ {c}
<1>1. IsFiniteSet(R) /\ \A x \in R : x \in S /\ e[x] = f[x]
  BY FS_Subset
<1>2. SumFunctionOnSet(f, S) = f[c] + SumFunctionOnSet(f, R)
  BY SumRemoves
<1>3. SumFunctionOnSet(e, S) = e[c] + SumFunctionOnSet(e, R)
  <2>1. \A x \in S : e[x] \in Int
    OBVIOUS
  <2> QED BY <2>1, SumRemoves
<1>4. SumFunctionOnSet(e, R) = SumFunctionOnSet(f, R) /\ SumFunctionOnSet(f, R) \in Int
  <2> HIDE DEF R
  <2>1. \A x \in R : f[x] \in Int
    BY <1>1
  <2> QED BY <1>1, <2>1, SumSame, SumRemoves
<1> QED BY <1>2, <1>3, <1>4

LEMMA WorkersFinite ==
  /\ IsFiniteSet(Workers) /\ IsFiniteSet(Cancelled) /\ IsFiniteSet(Workers \ Cancelled)
  /\ Cancelled \subseteq Workers
<1>1. IsFiniteSet(Workers)
  BY ConstantsAssumption, FS_Interval DEF ConstantsAssumption, Workers
<1>2. Cancelled \subseteq Workers
  BY DEF Cancelled
<1> QED BY <1>1, <1>2, FS_Subset

LEMMA SuspendTimes ==
  ASSUME IInv, PInv, Served, TInv, NEW t \in Threads, suspend_worker(t)
  PROVE  TInv'
<1>0. PICK c \in Workers :
      /\ hnd[t] = "suspend" /\ c = currentThread /\ ChargeQuantum(c).quanta > 0
      /\ info' = [info EXCEPT ![c] = ChargeQuantum(c)]
      /\ sig' = [sig EXCEPT ![c] = @ \cup {"USR1"}] /\ Goto(t, "out", c)
      /\ UNCHANGED <<handlerFrame, alarm, currentThread, quit, run_times, sched_queue>>
  BY TypeFacts DEF suspend_worker, pthread_kill, globalVars
<1>1. /\ Times' /\ JustSuspended' /\ Fresh' /\ First' /\ Waits'
      /\ info'[c].quanta = info[c].quanta - 1
      /\ \A u \in Workers \ {c} : info'[u] = info[u] /\ Ran'[u] = Ran[u]
      /\ Ran[c] \in Nat /\ Ran'[c] = Ran[c] + 1
      /\ now \in Nat /\ now > 0 /\ now' = now /\ pc' = pc /\ quanta' = quanta
      /\ ~Doomed(c) /\ Due /\ ~Due' /\ pc[c] \in Entered
  BY <1>0, ChargeTimes
<1>2. \A u \in Workers : Doomed(u)' <=> Doomed(u)
  BY <1>0, <1>1, TypeFacts DEF Doomed
<1>3. QuantaRun'
  <2> SUFFICES ASSUME NEW w \in Workers
               PROVE  /\ pc'[w] # "unborn" => info'[w].quanta = quanta'[w] - Ran'[w]
                      /\ Ran'[w] > 0 /\ ~Doomed(w)' => info'[w].quanta > 0
                      /\ Doomed(w)' => Ran'[w] = Max1(quanta'[w])
    BY DEF QuantaRun
  <2>1. CASE w = c
    <3>1. info'[c].quanta > 0
      BY <1>0, <1>1, FieldsAfter
    <3>2. info[c].quanta = quanta[c] - Ran[c] /\ quanta[c] \in Int
      BY <1>1 DEF TInv, QuantaRun, IInv, TypeOK, Entered
    <3> QED BY <1>1, <1>2, <2>1, <3>1, <3>2
  <2>2. CASE w # c
    BY <1>1, <1>2, <2>2 DEF TInv, QuantaRun
  <2> QED BY <2>1, <2>2
<1>4. Totals'
  <2> DEFINE A == SumFunctionOnSet(Ran, Workers \ Cancelled)
             B == SumFunctionOnSet(Ran', Workers \ Cancelled)
  <2>1. Cancelled' = Cancelled
    BY <1>2 DEF Cancelled
  <2>2. SumFunctionOnSet(Ran', Cancelled) = SumFunctionOnSet(Ran, Cancelled)
    <3>1. \A u \in Cancelled : Ran'[u] = Ran[u]
      BY <1>1 DEF Cancelled
    <3> QED BY <3>1, WorkersFinite, SumSame
  <2>3. B = A + 1
    <3>1. c \in Workers \ Cancelled /\ \A u \in Workers \ Cancelled : Ran[u] \in Int
      BY <1>1 DEF Cancelled, TInv, Fresh
    <3>2. \A u \in (Workers \ Cancelled) \ {c} : Ran'[u] = Ran[u]
      BY <1>1
    <3> QED BY <1>1, <3>1, <3>2, WorkersFinite, SumCharged
  <2>4. A \in Int /\ run_times \in Int
    <3>1. \A u \in Workers \ Cancelled : Ran[u] \in Int
      BY DEF TInv, Fresh
    <3> QED BY <3>1, WorkersFinite, SumRemoves DEF IInv, TypeOK
  <2>5. run_times = SumFunctionOnSet(Ran, Cancelled) /\ run_times + A = now - 2
    BY <1>0, <1>1, TypeFacts DEF TInv, Totals
  <2> HIDE DEF A
  <2>6. run_times' + B = now - 1
    BY <1>0, <1>1, <2>3, <2>4, <2>5
  <2> QED BY <1>0, <1>1, <2>1, <2>2, <2>5, <2>6 DEF Totals
<1> QED BY <1>1, <1>3, <1>4 DEF TInv

\* The quanta of a worker that is cancelled are complete.
LEMMA CancelTimes ==
  ASSUME IInv, PInv, Served, TInv, NEW t \in Threads, cancel_worker(t)
  PROVE  TInv'
<1>0. PICK c \in Workers :
      /\ hnd[t] = "suspend" /\ c = currentThread /\ ChargeQuantum(c).quanta <= 0
      /\ info' = [info EXCEPT ![c] = ChargeQuantum(c)]
      /\ sig' = [sig EXCEPT ![c] = @ \cup {"TERM"}] /\ Goto(t, "leave", c)
      /\ run_times' = run_times + info'[c].run_time
      /\ UNCHANGED <<handlerFrame, alarm, currentThread, quit, sched_queue>>
  BY TypeFacts DEF cancel_worker, pthread_kill
<1>1. /\ Times' /\ JustSuspended' /\ Fresh' /\ First' /\ Waits'
      /\ info'[c].quanta = info[c].quanta - 1
      /\ \A u \in Workers \ {c} : info'[u] = info[u] /\ Ran'[u] = Ran[u]
      /\ Ran[c] \in Nat /\ Ran'[c] = Ran[c] + 1 /\ info'[c].run_time = Ran'[c]
      /\ now \in Nat /\ now > 0 /\ now' = now /\ pc' = pc /\ quanta' = quanta
      /\ ~Doomed(c) /\ Due /\ ~Due' /\ pc[c] \in Entered
  BY <1>0, ChargeTimes
<1>2. Doomed(c)' /\ \A u \in Workers \ {c} : Doomed(u)' <=> Doomed(u)
  BY <1>0, <1>1, TypeFacts DEF Doomed
<1>3. QuantaRun'
  <2> SUFFICES ASSUME NEW w \in Workers
               PROVE  /\ pc'[w] # "unborn" => info'[w].quanta = quanta'[w] - Ran'[w]
                      /\ Ran'[w] > 0 /\ ~Doomed(w)' => info'[w].quanta > 0
                      /\ Doomed(w)' => Ran'[w] = Max1(quanta'[w])
    BY DEF QuantaRun
  <2>1. CASE w = c
    <3>1. info'[c].quanta <= 0
      BY <1>0, <1>1, FieldsAfter
    <3>2. /\ info[c].quanta = quanta[c] - Ran[c] /\ quanta[c] \in Int
          /\ Ran[c] > 0 => info[c].quanta > 0
      BY <1>1 DEF TInv, QuantaRun, IInv, TypeOK, Entered
    <3>3. Ran'[c] = Max1(quanta[c])
      BY <1>1, <3>1, <3>2 DEF Max1
    <3> QED BY <1>1, <1>2, <2>1, <3>2, <3>3
  <2>2. CASE w # c
    BY <1>1, <1>2, <2>2 DEF TInv, QuantaRun
  <2> QED BY <2>1, <2>2
<1>4. Totals'
  <2> DEFINE S == Workers \ Cancelled
             R == S \ {c}
             A == SumFunctionOnSet(Ran, S)
             B == SumFunctionOnSet(Ran, R)
             C == SumFunctionOnSet(Ran, Cancelled)
  <2>1. /\ Cancelled' = Cancelled \cup {c} /\ Workers \ Cancelled' = R
        /\ c \in S /\ c \notin Cancelled
    BY <1>1, <1>2 DEF Cancelled
  <2>2. /\ IsFiniteSet(S) /\ IsFiniteSet(R) /\ IsFiniteSet(Cancelled)
        /\ IsFiniteSet(Cancelled \cup {c}) /\ (Cancelled \cup {c}) \ {c} = Cancelled
        /\ c \in Cancelled \cup {c} /\ Cancelled \cup {c} \subseteq Workers
    BY <2>1, WorkersFinite, FS_Subset
  <2>3. \A u \in Workers : Ran[u] \in Int /\ Ran'[u] \in Int
    BY <1>1 DEF TInv, Fresh
  <2>4. \A u \in R \cup Cancelled : Ran'[u] = Ran[u]
    BY <1>1, <2>1, WorkersFinite
  <2>5. A = Ran[c] + B /\ A \in Int /\ B \in Int /\ C \in Int
    <3> HIDE DEF S
    <3>1. \A u \in S : Ran[u] \in Int
      BY <2>3 DEF S
    <3>2. A = Ran[c] + B /\ A \in Int
      BY <2>1, <2>2, <3>1, SumRemoves
    <3> HIDE DEF R
    <3>3. \A u \in R : Ran[u] \in Int
      BY <3>1 DEF R
    <3>4. B \in Int
      BY <2>2, <3>3, SumRemoves
    <3>5. \A u \in Cancelled : Ran[u] \in Int
      BY <2>3, WorkersFinite
    <3>6. C \in Int
      BY <2>2, <3>5, SumRemoves
    <3> QED BY <3>2, <3>4, <3>6
  <2>6. SumFunctionOnSet(Ran', R) = B
    <3> HIDE DEF R
    <3>1. \A u \in R : Ran'[u] = Ran[u]
      BY <2>4
    <3> QED BY <2>2, <3>1, SumSame
  <2>7. SumFunctionOnSet(Ran', Cancelled \cup {c}) = Ran'[c] + C
    <3>1. SumFunctionOnSet(Ran', Cancelled) = C
      <4>1. \A u \in Cancelled : Ran'[u] = Ran[u]
        BY <2>4
      <4> QED BY <2>2, <4>1, SumSame
    <3>2. \A u \in Cancelled \cup {c} : Ran'[u] \in Int
      BY <2>2, <2>3
    <3>3. SumFunctionOnSet(Ran', Cancelled \cup {c})
            = Ran'[c] + SumFunctionOnSet(Ran', (Cancelled \cup {c}) \ {c})
      BY <2>2, <3>2, SumRemoves
    <3> QED BY <2>2, <3>1, <3>3
  <2>8. run_times = C /\ run_times + A = now - 2
    BY <1>0, <1>1, TypeFacts DEF TInv, Totals
  <2> HIDE DEF A, B, C, S, R
  <2>9. run_times' = Ran'[c] + C /\ run_times' + B = now - 1
    <3>1. /\ run_times' = run_times + Ran'[c] /\ Ran'[c] = Ran[c] + 1
          /\ Ran[c] \in Int /\ now \in Int
      BY <1>0, <1>1
    <3> QED BY <2>5, <2>8, <3>1
  <2>10. /\ SumFunctionOnSet(Ran', Cancelled') = run_times'
         /\ SumFunctionOnSet(Ran', Workers \ Cancelled') = B
    BY <2>1, <2>6, <2>7, <2>9
  <2>11. run_times' + SumFunctionOnSet(Ran', Workers \ Cancelled') = now' - 1
    BY <1>1, <2>9, <2>10
  <2>12. ~Due' /\ now' # 0
    BY <1>1
  <2> QED BY <2>10, <2>11, <2>12 DEF Totals
<1> QED BY <1>1, <1>3, <1>4 DEF TInv

LEMMA ResumeTimes ==
  ASSUME IInv, PInv, Served, TInv, NEW t \in Threads, resume_worker(t)
  PROVE  TInv'
<1>0. PICK c \in Workers :
      /\ hnd[t] = "resume" /\ c = currentThread
      /\ info' = [info EXCEPT ![c] = update_wait_time(@)]
      /\ sig' = [sig EXCEPT ![c] = @ \cup {"USR2"}] /\ Goto(t, "idle", Null)
      /\ UNCHANGED <<handlerFrame, alarm, currentThread, quit, run_times, sched_queue>>
  <2>1. harg[t] \in Workers /\ harg[t] = currentThread
    BY DEF resume_worker, IInv, TypeOK, PInv, InList
  <2> QED BY <2>1 DEF resume_worker, pthread_kill, globalVars
<1>1. /\ now \in Nat /\ now > 0 /\ now' = now /\ pc' = pc /\ quanta' = quanta
      /\ hnd'[t] = "idle" /\ \A u \in Threads \ {t} : hnd'[u] = "idle"
      /\ \A u \in Workers : Stamped(u) /\ Stamped(u)'
      /\ \A u \in Workers : ~Serving(u) /\ (Serving(u)' <=> u = c)
      /\ ~Due /\ ~Due' /\ Moved = now /\ Moved' = now
  BY <1>0, TurnFrame DEF Turning
<1>2. /\ info'[c].quanta = info[c].quanta
      /\ info'[c].run_time = info[c].run_time
      /\ info'[c].wait_time = info[c].wait_time + now - info[c].suspend_time
      /\ info'[c].suspend_time = info[c].suspend_time
      /\ info'[c].resume_time = now
      /\ \A u \in Workers \ {c} : info'[u] = info[u]
  BY <1>0, FieldsAfter DEF IInv, TypeOK
<1>3. \A u \in Workers : Doomed(u)' <=> Doomed(u)
  BY <1>0, <1>1, TypeFacts DEF Doomed
<1>4. Ran' = Ran
  <2> DEFINE r(w) == IF Stamped(w) THEN info[w].run_time ELSE 0
             s(w) == IF Stamped(w)' THEN info'[w].run_time ELSE 0
  <2>1. \A w \in Workers : r(w) = s(w)
    BY <1>1, <1>2
  <2>2. [w \in Workers |-> r(w)] = [w \in Workers |-> s(w)]
    <3> HIDE DEF r, s
    <3> QED BY <2>1
  <2> QED BY <2>2 DEF Ran
<1>5. Times'
  <2> SUFFICES ASSUME NEW w \in Workers, Stamped(w)'
               PROVE  /\ Serving(w)' => /\ info'[w].run_time + info'[w].wait_time = info'[w].resume_time
                                        /\ info'[w].suspend_time <= info'[w].resume_time
                                        /\ info'[w].resume_time = IF Due' THEN now' - 1 ELSE now'
                      /\ ~Serving(w)' => /\ info'[w].run_time + info'[w].wait_time = info'[w].suspend_time
                                         /\ info'[w].resume_time <= info'[w].suspend_time
                                         /\ info'[w].suspend_time <= now'
    BY DEF Times
  <2>1. /\ info[w].run_time + info[w].wait_time = info[w].suspend_time
        /\ info[w].resume_time <= info[w].suspend_time
        /\ info[w].suspend_time <= now
        /\ info[w].run_time \in Int /\ info[w].wait_time \in Int /\ info[w].suspend_time \in Int
    BY <1>1, InfoTypes DEF TInv, Times
  <2>2. CASE w = c
    BY <1>1, <1>2, <2>1, <2>2
  <2>3. CASE w # c
    BY <1>1, <1>2, <2>1, <2>3
  <2> QED BY <2>2, <2>3
<1>6. JustSuspended' /\ First'
  BY <1>0, <1>1, TypeFacts DEF JustSuspended, First
<1>7. Fresh'
  BY <1>0, <1>1, <1>4 DEF TInv, Fresh
<1>8. QuantaRun'
  BY <1>1, <1>2, <1>3, <1>4 DEF TInv, QuantaRun
<1>9. Totals'
  <2>1. Cancelled' = Cancelled
    BY <1>3 DEF Cancelled
  <2> QED BY <1>0, <1>1, <1>4, <2>1 DEF TInv, Totals
<1>10. Waits'
  BY <1>0, <1>1, <1>2, <1>4 DEF TInv, Waits
<1> QED BY <1>5, <1>6, <1>7, <1>8, <1>9, <1>10 DEF TInv

-----------------------------------------------------------------------------
(* What follows for every prompt execution                                 *)

LEMMA TimesInit ==
  ASSUME Init
  PROVE  TInv
<1>1. /\ now = 0 /\ run_times = 0 /\ sched_queue = <<>>
      /\ \A t \in Threads : hnd[t] = "idle"
      /\ \A w \in Workers : pc[w] = "unborn" /\ ~Doomed(w) /\ ~Stamped(w)
  BY DEF Init, Doomed, Stamped
<1>2. \A w \in Workers : Ran[w] = 0
  BY <1>1 DEF Ran
<1>3. Cancelled = {} /\ Workers \ Cancelled = Workers
  BY <1>1 DEF Cancelled
<1>4. SumFunctionOnSet(Ran, {}) = 0 /\ SumFunctionOnSet(Ran, Workers) = 0
  BY <1>2, WorkersFinite, SumOfZeros, FS_EmptySet
<1>5. Times /\ JustSuspended /\ First
  BY <1>1 DEF Times, JustSuspended, First
<1>6. Fresh /\ QuantaRun
  BY <1>1, <1>2 DEF Fresh, QuantaRun
<1>7. Totals
  BY <1>1, <1>3, <1>4 DEF Totals
<1>8. Waits
  BY <1>1 DEF Waits
<1> QED BY <1>5, <1>6, <1>7, <1>8 DEF TInv

LEMMA TimesStep ==
  ASSUME Prompt, IInv, IInv', PInv, Served, TInv, [Next]_vars
  PROVE  TInv'
<1>1. CASE MainThread
  BY <1>1, CreateTimes, StampTimesKeeps, OthersTimes DEF MainThread
<1>2. CASE CreateFails \/ SchedThread \/ Stopped \/ UNCHANGED vars
  BY <1>2, OthersTimes DEF Stopped
<1>3. ASSUME NEW w \in Workers, Worker(w) PROVE TInv'
  BY <1>3, WorkerTimes
<1>4. ASSUME NEW t \in Threads, TakeAlarm(t) PROVE TInv'
  BY <1>4, TakeAlarmTimes
<1>5. ASSUME NEW t \in Threads, timer_handler(t) PROVE TInv'
  <2>1. \/ Check(t) \/ NobodyToSuspend(t) \/ suspend_worker(t)
        \/ cancel_worker(t) \/ RotateOut(t) \/ RotateIn(t)
        \/ leave_scheduler_queue(t) \/ AllCompleted(t) \/ wait_for_queue(t)
        \/ SpinEnds(t) \/ PickHead(t) \/ resume_worker(t)
    BY <1>5, NeverFaulty DEF timer_handler
  <2> QED
    BY <2>1, CheckTimes, NobodyTimes, SuspendTimes, CancelTimes, RotateOutTimes,
       RotateInTimes, MoveOnTimes, ResumeTimes
<1>6. CASE Tick
  BY <1>6, TickTimes
<1> QED BY <1>1, <1>2, <1>3, <1>4, <1>5, <1>6 DEF Next

\* The times of the workers, the sums of what they are charged and their places in
\* the list stay in step with the clock, through every half-done suspension,
\* cancellation and resumption (scheduler.c:76-140).
THEOREM TimesInvariance == Prompt => (Spec => []TInv)
<1> SUFFICES ASSUME Prompt PROVE Spec => []TInv
  OBVIOUS
<1>1. Init => Served /\ TInv
  BY ServedInit, TimesInit
<1>2. IInv /\ PInv /\ Served /\ [Next]_vars => Served'
  BY ServedStep
<1>3. IInv /\ IInv' /\ PInv /\ Served /\ TInv /\ [Next]_vars => TInv'
  BY TimesStep
<1>4. Spec => []Served
  BY <1>1, <1>2, Invariance, PromptInvariance, PTL DEF Spec
<1> QED BY <1>1, <1>3, <1>4, Invariance, PromptInvariance, PTL DEF Spec

\* When everything has settled ...
LEMMA SettledFacts ==
  ASSUME IInv, PInv, Settled
  PROVE  /\ ~Due /\ Moved = now /\ Cancelled = freed
         /\ \A w \in Workers : /\ Stamped(w) <=> pc[w] # "unborn"
                               /\ Serving(w) <=> w = currentThread
<1>1. Calm /\ ~alarm /\ main # "stamp"
  BY DEF Settled, Calm
<1>2. ~Due /\ Moved = now
  BY <1>1 DEF Due, Moved, Handling, Calm
<1>3. \A w \in Workers : /\ Stamped(w) <=> pc[w] # "unborn"
                         /\ Serving(w) <=> w = currentThread
  BY <1>1 DEF Stamped, Serving, Handling, Calm, Turning
<1>4. Cancelled = freed
  BY <1>1, TypeFacts DEF IInv, DoomedLeaving, PInv, FreedDoomed, Cancelled, Calm
<1> QED BY <1>2, <1>3, <1>4

\* ... a suspended worker is not the first of the list, so it waits at most for those
\* before it.
LEMMA WaitsFollow ==
  ASSUME IInv, PInv, Served, TInv
  PROVE  WaitBounded
<1> SUFFICES ASSUME Settled, NEW w \in ToSet(sched_queue), w # currentThread,
                    info[w].run_time > 0
             PROVE  now - info[w].suspend_time <= QueueSize - 2
  BY DEF WaitBounded
<1>1. PICK k \in DOMAIN sched_queue : sched_queue[k] = w
  BY DEF ToSet
<1>2. w \in Workers /\ pc[w] \in Entered /\ w \notin freed /\ k \in Nat /\ k >= 1
  BY <1>1, TypeFacts DEF IInv, ListSound
<1>3. Ran[w] > 0 /\ ~Serving(w) /\ Moved = now
  BY <1>2, SettledFacts DEF Ran, Entered
<1>4. k # 1
  <2>1. CASE currentThread # Null
    <3>1. ~Handling(Turning)
      BY DEF Settled, Handling, Turning
    <3>2. Head(sched_queue) = currentThread
      BY <2>1, <3>1 DEF Served, Handling
    <3> QED BY <1>1, <3>2, TypeFacts
  <2>2. CASE currentThread = Null
    <3>1. ~quit
      BY <1>2, SettledFacts DEF PInv, Counted, Cancelled
    <3>2. Ran[w] = 0
      BY <1>2, <2>2, <3>1 DEF TInv, Fresh
    <3> QED BY <1>3, <3>2
  <2> QED BY <2>1, <2>2
<1>5. k + now - info[w].suspend_time <= QueueSize
  BY <1>1, <1>2, <1>3 DEF TInv, Waits
<1> QED BY <1>2, <1>4, <1>5, TypeFacts, InfoTypes

\* A worker that has run and is suspended runs again at the latest QueueSize-1 quanta
\* later: the handler takes the head and puts the suspended worker at the end, and no
\* worker is ever put before it (scheduler.c:118-186, worker.c:50-66).
THEOREM WaitsBounded == Prompt => (Spec => []WaitBounded)
<1> SUFFICES ASSUME Prompt PROVE Spec => []WaitBounded
  OBVIOUS
<1>1. Init => Served
  BY ServedInit
<1>2. IInv /\ PInv /\ Served /\ [Next]_vars => Served'
  BY ServedStep
<1>3. Spec => []Served
  BY <1>1, <1>2, Invariance, PromptInvariance, PTL DEF Spec
<1>4. IInv /\ PInv /\ Served /\ TInv => WaitBounded
  BY WaitsFollow
<1> QED BY <1>3, <1>4, Invariance, PromptInvariance, TimesInvariance, PTL

LEMMA MaxOfTwo ==
  ASSUME NEW a \in Int, NEW b \in Int
  PROVE  Max({a, b}) = IF a >= b THEN a ELSE b
<1>1. \E x \in {a, b} : \A y \in {a, b} : x >= y
  OBVIOUS
<1>2. Max({a, b}) \in {a, b} /\ \A y \in {a, b} : Max({a, b}) >= y
  BY <1>1 DEF Max
<1> QED BY <1>2

\* The accounts when everything has settled, and at the end.
LEMMA AccountsFollow ==
  ASSUME IInv, PInv, TInv
  PROVE  AccountingExact
<1>1. ASSUME Settled, now > 0, ~quit
      PROVE  run_times + SumFunctionOnSet([w \in Workers |-> info[w].run_time], Created \ freed)
               = now - 1
  <2> DEFINE S == Workers \ Cancelled
             e == [w \in Workers |-> info[w].run_time]
  <2>1. Created \ freed = S
    BY <1>1, SettledFacts DEF Created, PInv, Phases
  <2>2. \A w \in S : e[w] = Ran[w]
    BY <1>1, SettledFacts DEF Ran, PInv, Phases
  <2>3. SumFunctionOnSet(e, S) = SumFunctionOnSet(Ran, S)
    <3> HIDE DEF S, e
    <3>1. IsFiniteSet(S)
      BY WorkersFinite DEF S
    <3> QED BY <2>2, <3>1, SumSame
  <2>4. run_times + SumFunctionOnSet(Ran, S) = now - 1
    BY <1>1, SettledFacts, TypeFacts DEF TInv, Totals
  <2> HIDE DEF S, e
  <2>5. run_times + SumFunctionOnSet(e, Created \ freed) = now - 1
    BY <2>1, <2>3, <2>4
  <2> QED BY <2>5 DEF e
<1>2. ASSUME Settled, NEW w \in Created \ freed
      PROVE  info[w].run_time + info[w].wait_time
               = Max({info[w].suspend_time, info[w].resume_time})
  <2>1. w \in Workers /\ Stamped(w)
    BY <1>2, SettledFacts DEF Created
  <2>2. /\ Serving(w) => /\ info[w].run_time + info[w].wait_time = info[w].resume_time
                         /\ info[w].suspend_time <= info[w].resume_time
        /\ ~Serving(w) => /\ info[w].run_time + info[w].wait_time = info[w].suspend_time
                          /\ info[w].resume_time <= info[w].suspend_time
    BY <2>1 DEF TInv, Times
  <2> QED BY <2>1, <2>2, InfoTypes, MaxOfTwo
<1>3. ASSUME Finished
      PROVE  run_times = SumFunction([w \in Workers |-> Max1(quanta[w])])
  <2> DEFINE e == [w \in Workers |-> Max1(quanta[w])]
  <2>1. Cancelled = Workers
    BY <1>3 DEF Finished, Cancelled, Doomed
  <2>2. \A w \in Workers : e[w] = Ran[w]
    BY <2>1 DEF TInv, QuantaRun, Cancelled
  <2>3. DOMAIN e = Workers
    OBVIOUS
  <2>4. SumFunctionOnSet(e, Workers) = SumFunctionOnSet(Ran, Workers)
    <3> HIDE DEF e
    <3> QED BY <2>2, WorkersFinite, SumSame
  <2>5. SumFunction(e) = SumFunctionOnSet(e, Workers)
    <3> HIDE DEF e
    <3> QED BY <2>3 DEF SumFunction
  <2>6. run_times = SumFunctionOnSet(Ran, Workers)
    BY <2>1 DEF TInv, Totals
  <2> HIDE DEF e
  <2>7. run_times = SumFunction(e)
    BY <2>4, <2>5, <2>6
  <2> QED BY <2>7 DEF e
<1> QED BY <1>1, <1>2, <1>3 DEF AccountingExact

\* From the first resumption on each quantum is charged to exactly one worker, the run
\* and wait times of a worker add up to its last suspension or resumption, and in the
\* end each worker has run the quanta it was given, at least one (update_run_time,
\* update_wait_time and cancel_worker, scheduler.c:76-140).
THEOREM AccountsExact == Prompt => (Spec => []AccountingExact)
<1> SUFFICES ASSUME Prompt PROVE Spec => []AccountingExact
  OBVIOUS
<1>1. IInv /\ PInv /\ TInv => AccountingExact
  BY AccountsFollow
<1> QED BY <1>1, Invariance, PromptInvariance, TimesInvariance, PTL
=============================================================================
