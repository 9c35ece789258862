------------------------------ MODULE Scheduler ------------------------------
(***************************************************************************)
(* The round-robin thread scheduler of PA4 (scheduler.c, worker.c, list.c).*)
(*                                                                         *)
(* The main thread creates the scheduler thread and ThreadCount workers.   *)
(* A worker takes a token of queue_sem, appends itself to sched_queue and  *)
(* blocks in sigwait.  A POSIX timer raises SIGALRM once per QUANTUM; its  *)
(* handler suspends or cancels the current worker and resumes the head of  *)
(* the queue, with SIGUSR1, SIGTERM and SIGUSR2.                           *)
(*                                                                         *)
(* SIGALRM is sent to the process: any thread that does not block it may   *)
(* run the handler (the main thread, the scheduler thread, a worker that   *)
(* has not yet set its mask), and since the kernel blocks it only in that  *)
(* thread a second handler may run before the first has returned.  The     *)
(* handler is therefore a small program with a counter of its own in every *)
(* thread.  Its steps are the places where handlers, workers and the list  *)
(* meet: each look at the list, each operation on it, each pthread_kill.   *)
(* What the code does to time fields, quanta, totals and currentThread in  *)
(* between goes with the neighbouring step, so two handlers do not lose    *)
(* each other's updates of these.                                          *)
(*                                                                         *)
(* The model starts where start_scheduler has returned in smp5_main.  It   *)
(* stops with status "undefined" at the first use of freed memory, of a    *)
(* NULL list head or of a dead thread's id, and with status "broken" once  *)
(* an element has been inserted into the list a second time.               *)
(***************************************************************************)
EXTENDS Integers, Sequences, FiniteSets, SequencesExt

CONSTANTS
  ThreadCount,  \* thread_count, the first argument of the command line
  QueueSize,    \* queue_size, the second one
  Quanta,       \* the values the remaining arguments are taken from
  HeapContents, \* what a time field of a fresh malloc may hold
  Prompt,       \* TRUE: threads answer signals well within one QUANTUM
  MaxTicks      \* bound: the timer expires at most this often

ASSUME ConstantsAssumption ==
  /\ ThreadCount \in Nat
  /\ QueueSize \in Nat
  /\ Quanta \subseteq Int
  /\ HeapContents \subseteq Int
  /\ Prompt \in BOOLEAN
  /\ MaxTicks \in Nat

Workers == 1..ThreadCount
Main    == ThreadCount + 1
Sched   == ThreadCount + 2
Threads == 1..ThreadCount + 2
Null    == 0                     \* the null thread_info_t pointer

VARIABLES
  main,           \* where smp5_main is: "create", "stamp", "join", "exited"
  i,              \* the loop counter of create_workers
  sched,          \* where scheduler_run is: "wait", "loop", "done"
  quanta,         \* the quanta array, read from argv
  now,            \* the clock, in QUANTUMs; the timer runs once sched # "wait"
  alarm,          \* SIGALRM is pending for the process
  quit, currentThread, completed, run_times, wait_times,
  sched_queue,    \* the elements that a walk from the head of the list meets
                  \* (each list operation atomic, under list->lock)
  queue_sem,
  pc,             \* where start_worker is, for each worker
  susp,           \* the worker is inside its SIGUSR1 handler
  sig,            \* the signals pending for each worker, one bit per kind
  info,           \* the thread_info_t of each worker
  freed,          \* the workers whose thread_info_t has been freed
  hnd,            \* where timer_handler is, for each thread that may run it
  harg,           \* the thread_info_t it works on
  status          \* "running", "failed" (exit_error), "undefined" or "broken"

mainVars   == <<main, i>>
clockVars  == <<sched, now, alarm>>
globalVars == <<quit, currentThread, completed, run_times, wait_times>>
queueVars  == <<sched_queue, queue_sem>>
workerVars == <<pc, susp, sig>>
heapVars   == <<info, freed>>
hndVars    == <<hnd, harg>>
vars == <<mainVars, clockVars, globalVars, queueVars, workerVars, heapVars,
          hndVars, quanta, status>>

\* A thread_info_t as create_workers allocates it: the time fields hold
\* whatever the heap holds.
NewInfo(q, heap) == [quanta |-> q, run_time |-> heap, wait_time |-> heap,
                     suspend_time |-> heap, resume_time |-> heap]

Init ==
  /\ main = "create" /\ i = 0 /\ sched = "wait"
  /\ quanta \in [Workers -> Quanta]
  /\ now = 0 /\ alarm = FALSE
  /\ quit = FALSE /\ currentThread = Null
  /\ completed = 0 /\ run_times = 0 /\ wait_times = 0
  /\ sched_queue = <<>> /\ queue_sem = QueueSize
  /\ pc = [w \in Workers |-> "unborn"]
  /\ susp = [w \in Workers |-> FALSE]
  /\ sig = [w \in Workers |-> {}]
  /\ info = [w \in Workers |-> NewInfo(0, 0)]
  /\ freed = {}
  /\ hnd = [t \in Threads |-> "idle"]
  /\ harg = [t \in Threads |-> Null]
  /\ status = "running"

Running == status = "running"

Undefined == /\ status' = "undefined"
             /\ UNCHANGED <<mainVars, clockVars, globalVars, queueVars,
                            workerVars, heapVars, hndVars, quanta>>

-----------------------------------------------------------------------------
(* list.c: the operations on sched_queue                                   *)

list_remove(q, w) == IF w \in ToSet(q)
                     THEN RemoveAt(q, CHOOSE k \in DOMAIN q : q[k] = w)
                     ELSE q

list_insert_tail(q, w) == Append(q, w)

-----------------------------------------------------------------------------
(* The main thread.  It does nothing while it runs the timer handler.      *)

\* malloc, info->quanta = quanta[i], pthread_create: the worker may run now.
CreateWorker ==
  /\ main = "create" /\ i < ThreadCount
  /\ \E g \in HeapContents :
       info' = [info EXCEPT ![i + 1] = NewInfo(quanta[i + 1], g)]
  /\ pc' = [pc EXCEPT ![i + 1] = "born"]
  /\ i' = i + 1
  /\ main' = "stamp"
  /\ UNCHANGED <<clockVars, globalVars, queueVars, susp, sig, freed, hndVars,
                 quanta, status>>

\* pthread_create fails: exit_error ends the process.
CreateFails ==
  /\ Running /\ hnd[Main] = "idle"
  /\ main = "create" /\ i < ThreadCount
  /\ status' = "failed"
  /\ UNCHANGED <<mainVars, clockVars, globalVars, queueVars, workerVars,
                 heapVars, hndVars, quanta>>

Started(in) == [quanta |-> in.quanta, run_time |-> 0, wait_time |-> 0,
                suspend_time |-> now, resume_time |-> now]

\* The time variables are set only after the thread has been created.
StampTimes ==
  /\ main = "stamp"
  /\ IF i \in freed
     THEN Undefined
     ELSE /\ info' = [info EXCEPT ![i] = Started(@)]
          /\ main' = "create"
          /\ UNCHANGED <<i, clockVars, globalVars, queueVars, workerVars,
                         freed, hndVars, quanta, status>>

AllCreated ==
  /\ main = "create" /\ i = ThreadCount
  /\ main' = "join"
  /\ UNCHANGED <<i, clockVars, globalVars, queueVars, workerVars, heapVars,
                 hndVars, quanta, status>>

\* pthread_join returns; clean_up; pthread_exit.
JoinAndCleanUp ==
  /\ main = "join" /\ sched = "done"
  /\ main' = "exited"
  /\ UNCHANGED <<i, clockVars, globalVars, queueVars, workerVars, heapVars,
                 hndVars, quanta, status>>

MainThread == /\ Running /\ hnd[Main] = "idle"
              /\ CreateWorker \/ StampTimes \/ AllCreated \/ JoinAndCleanUp

-----------------------------------------------------------------------------
(* The scheduler thread                                                    *)

\* wait_for_queue has returned: arm the timer.
StartTimer ==
  /\ sched = "wait" /\ sched_queue # <<>>
  /\ sched' = "loop"
  /\ UNCHANGED <<mainVars, now, alarm, globalVars, queueVars, workerVars,
                 heapVars, hndVars, quanta, status>>

\* while (!quit) ends.
SchedReturns ==
  /\ sched = "loop" /\ quit
  /\ sched' = "done"
  /\ UNCHANGED <<mainVars, now, alarm, globalVars, queueVars, workerVars,
                 heapVars, hndVars, quanta, status>>

SchedThread == /\ Running /\ hnd[Sched] = "idle"
               /\ StartTimer \/ SchedReturns

-----------------------------------------------------------------------------
(* A worker: start_worker and its signal handlers                          *)

\* SIGALRM and SIGUSR2 are blocked from here on.
BlockSignals(w) ==
  /\ pc[w] = "born"
  /\ pc' = [pc EXCEPT ![w] = "acquire"]
  /\ UNCHANGED <<queueVars, susp, sig, status>>

\* Mutants: the token is not waited for; it is not taken.
AcquireToken_NoWait(w) ==
  /\ pc[w] = "acquire"
  /\ queue_sem' = queue_sem - 1
  /\ pc' = [pc EXCEPT ![w] = "insert"]
  /\ UNCHANGED <<sched_queue, susp, sig, status>>

AcquireToken_NotTaken(w) ==
  /\ pc[w] = "acquire" /\ queue_sem > 0
  /\ pc' = [pc EXCEPT ![w] = "insert"]
  /\ UNCHANGED <<queueVars, susp, sig, status>>

\* enter_scheduler_queue: sem_wait ...
AcquireToken(w) ==
  /\ pc[w] = "acquire" /\ queue_sem > 0
  /\ queue_sem' = queue_sem - 1
  /\ pc' = [pc EXCEPT ![w] = "insert"]
  /\ UNCHANGED <<sched_queue, susp, sig, status>>

\* Mutant: the new worker is put at the head of the list.
EnterQueue_AtHead(w) ==
  /\ pc[w] = "insert"
  /\ sched_queue' = <<w>> \o sched_queue
  /\ pc' = [pc EXCEPT ![w] = "announce"]
  /\ UNCHANGED <<queue_sem, susp, sig, status>>

\* ... and list_insert_tail of a new element.
EnterQueue(w) ==
  /\ pc[w] = "insert"
  /\ sched_queue' = list_insert_tail(sched_queue, w)
  /\ pc' = [pc EXCEPT ![w] = "announce"]
  /\ UNCHANGED <<queue_sem, susp, sig, status>>

\* printf of info->thrid, which a handler may have freed already.
Announce(w) ==
  /\ pc[w] = "announce" /\ ~susp[w]
  /\ IF w \in freed
     THEN pc' = pc /\ status' = "undefined"
     ELSE pc' = [pc EXCEPT ![w] = "park"] /\ status' = status
  /\ UNCHANGED <<queueVars, susp, sig>>

\* The call of suspend_thread: sigwait takes SIGUSR2.
FirstResume(w) ==
  /\ pc[w] = "park" /\ ~susp[w] /\ "USR2" \in sig[w]
  /\ sig' = [sig EXCEPT ![w] = @ \ {"USR2"}]
  /\ pc' = [pc EXCEPT ![w] = "work"]
  /\ UNCHANGED <<queueVars, susp, status>>

\* suspend_thread as the handler of SIGUSR1, which it blocks while it runs.
Suspend(w) ==
  /\ pc[w] \in {"announce", "park", "work"} /\ ~susp[w] /\ "USR1" \in sig[w]
  /\ sig' = [sig EXCEPT ![w] = @ \ {"USR1"}]
  /\ susp' = [susp EXCEPT ![w] = TRUE]
  /\ UNCHANGED <<pc, queueVars, status>>

\* Its sigwait takes SIGUSR2 and the handler returns.
Resume(w) ==
  /\ pc[w] \in {"announce", "park", "work"} /\ susp[w] /\ "USR2" \in sig[w]
  /\ sig' = [sig EXCEPT ![w] = @ \ {"USR2"}]
  /\ susp' = [susp EXCEPT ![w] = FALSE]
  /\ UNCHANGED <<pc, queueVars, status>>

\* Mutant: the handler of SIGTERM keeps the token.
cancel_thread_NoPost(w) ==
  /\ pc[w] \in {"announce", "park", "work"} /\ "TERM" \in sig[w]
  /\ pc' = [pc EXCEPT ![w] = "dead"]
  /\ susp' = [susp EXCEPT ![w] = FALSE]
  /\ sig' = [sig EXCEPT ![w] = {}]
  /\ UNCHANGED <<queueVars, status>>

\* The handler of SIGTERM: sem_post, then pthread_exit.
cancel_thread(w) ==
  /\ pc[w] \in {"announce", "park", "work"} /\ "TERM" \in sig[w]
  /\ queue_sem' = queue_sem + 1
  /\ pc' = [pc EXCEPT ![w] = "dead"]
  /\ susp' = [susp EXCEPT ![w] = FALSE]
  /\ sig' = [sig EXCEPT ![w] = {}]
  /\ UNCHANGED <<sched_queue, status>>

Worker(w) ==
  /\ Running /\ hnd[w] = "idle"
  /\ \/ BlockSignals(w) \/ AcquireToken(w) \/ EnterQueue(w) \/ Announce(w)
     \/ FirstResume(w) \/ Suspend(w) \/ Resume(w) \/ cancel_thread(w)
  /\ UNCHANGED <<mainVars, clockVars, globalVars, heapVars, hndVars, quanta>>

-----------------------------------------------------------------------------
(* timer_handler, run by thread t                                          *)

handlerFrame == <<mainVars, sched, now, quanta, status, queue_sem, pc, susp>>

\* pthread_kill(info->thrid, s): a signal already pending stays a single one.
pthread_kill(w, s) == sig' = [sig EXCEPT ![w] = @ \cup {s}]

Goto(t, step, w) == /\ hnd' = [hnd EXCEPT ![t] = step]
                    /\ harg' = [harg EXCEPT ![t] = w]

\* The threads in which SIGALRM is not blocked.
CanTakeAlarm(t) ==
  /\ hnd[t] = "idle"
  /\ \/ t = Main /\ main # "exited"
     \/ t = Sched /\ sched # "done"
     \/ t \in Workers /\ pc[t] = "born"

TakeAlarm(t) ==
  /\ Running /\ alarm /\ CanTakeAlarm(t)
  /\ alarm' = FALSE
  /\ Goto(t, "check", Null)
  /\ UNCHANGED <<handlerFrame, globalVars, sched_queue, sig, heapVars>>

\* An empty list means to this code that the last worker has left.
Check(t) ==
  /\ hnd[t] = "check"
  /\ IF sched_queue = <<>>
     THEN quit' = TRUE /\ Goto(t, "idle", Null)
     ELSE quit' = quit /\ Goto(t, "suspend", Null)
  /\ UNCHANGED <<handlerFrame, alarm, currentThread, completed, run_times,
                 wait_times, sched_queue, sig, heapVars>>

NobodyToSuspend(t) ==
  /\ hnd[t] = "suspend" /\ currentThread = Null
  /\ Goto(t, "next", Null)
  /\ UNCHANGED <<handlerFrame, alarm, globalVars, sched_queue, sig, heapVars>>

\* update_run_time and quanta--, the two assignments of suspend_worker.
update_run_time(in) ==
  [in EXCEPT !.suspend_time = now, !.run_time = @ + now - in.resume_time]

ChargeQuantum(w) == [update_run_time(info[w]) EXCEPT !.quanta = @ - 1]

\* Mutant: no SIGUSR1.
suspend_worker_NoSignal(t) ==
  /\ hnd[t] = "suspend" /\ currentThread # Null
  /\ ChargeQuantum(currentThread).quanta > 0
  /\ info' = [info EXCEPT ![currentThread] = ChargeQuantum(currentThread)]
  /\ Goto(t, "out", currentThread)
  /\ UNCHANGED <<handlerFrame, alarm, globalVars, sched_queue, sig, freed>>

\* suspend_worker, quanta left: SIGUSR1 to the current worker.
suspend_worker(t) ==
  /\ hnd[t] = "suspend" /\ currentThread # Null
  /\ LET w == currentThread IN
       /\ ChargeQuantum(w).quanta > 0
       /\ info' = [info EXCEPT ![w] = ChargeQuantum(w)]
       /\ pthread_kill(w, "USR1")
       /\ Goto(t, "out", w)
  /\ UNCHANGED <<handlerFrame, alarm, globalVars, sched_queue, freed>>

\* Mutant: completed is not counted.
cancel_worker_NotCounted(t) ==
  /\ hnd[t] = "suspend" /\ currentThread # Null
  /\ LET w == currentThread IN
       /\ ChargeQuantum(w).quanta <= 0
       /\ info' = [info EXCEPT ![w] = ChargeQuantum(w)]
       /\ pthread_kill(w, "TERM")
       /\ wait_times' = wait_times + info'[w].wait_time
       /\ run_times' = run_times + info'[w].run_time
       /\ Goto(t, "leave", w)
  /\ UNCHANGED <<handlerFrame, alarm, quit, currentThread, completed, sched_queue, freed>>

\* suspend_worker, none left: cancel_worker up to leave_scheduler_queue.
cancel_worker(t) ==
  /\ hnd[t] = "suspend" /\ currentThread # Null
  /\ LET w == currentThread IN
       /\ ChargeQuantum(w).quanta <= 0
       /\ info' = [info EXCEPT ![w] = ChargeQuantum(w)]
       /\ pthread_kill(w, "TERM")
       /\ wait_times' = wait_times + info'[w].wait_time
       /\ run_times' = run_times + info'[w].run_time
       /\ Goto(t, "leave", w)
  /\ completed' = completed + 1
  /\ UNCHANGED <<handlerFrame, alarm, quit, currentThread, sched_queue, freed>>

\* The two list operations of suspend_worker lock the list one at a time.
RotateOut(t) ==
  /\ hnd[t] = "out"
  /\ sched_queue' = list_remove(sched_queue, harg[t])
  /\ Goto(t, "in", harg[t])
  /\ UNCHANGED <<handlerFrame, alarm, globalVars, sig, heapVars>>

RotateIn(t) ==
  /\ hnd[t] = "in" /\ harg[t] \notin ToSet(sched_queue)
  /\ sched_queue' = list_insert_tail(sched_queue, harg[t])
  /\ Goto(t, "next", Null)
  /\ UNCHANGED <<handlerFrame, alarm, globalVars, sig, heapVars>>

\* Two handlers rotate the same worker, and this is the second insertion.  It
\* clears the element's next, or makes it its own successor if it was the last:
\* a walk from head ends at it, or never, and the workers behind it are lost.
RotateInAgain(t) ==
  /\ hnd[t] = "in"
  /\ \E k \in DOMAIN sched_queue :
       sched_queue[k] = harg[t] /\ sched_queue' = SubSeq(sched_queue, 1, k)
  /\ status' = "broken"
  /\ Goto(t, "next", Null)
  /\ UNCHANGED <<mainVars, sched, now, quanta, queue_sem, pc, susp, alarm,
                 globalVars, sig, heapVars>>

\* Mutant: the element stays in the list.
leave_scheduler_queue_Dangling(t) ==
  /\ hnd[t] = "leave"
  /\ freed' = freed \cup {harg[t]}
  /\ Goto(t, "next", Null)
  /\ UNCHANGED <<handlerFrame, alarm, globalVars, sched_queue, sig, info>>

\* list_remove, free(info->le), free(info).
leave_scheduler_queue(t) ==
  /\ hnd[t] = "leave"
  /\ sched_queue' = list_remove(sched_queue, harg[t])
  /\ freed' = freed \cup {harg[t]}
  /\ Goto(t, "next", Null)
  /\ UNCHANGED <<handlerFrame, alarm, globalVars, sig, info>>

\* Mutant: one worker too early.
AllCompleted_Early(t) ==
  /\ hnd[t] = "next" /\ completed >= ThreadCount - 1
  /\ currentThread' = Null
  /\ quit' = TRUE
  /\ Goto(t, "idle", Null)
  /\ UNCHANGED <<handlerFrame, alarm, completed, run_times, wait_times,
                 sched_queue, sig, heapVars>>

\* next_worker returns 0 when every worker is completed.
AllCompleted(t) ==
  /\ hnd[t] = "next" /\ completed >= ThreadCount
  /\ currentThread' = Null
  /\ quit' = TRUE
  /\ Goto(t, "idle", Null)
  /\ UNCHANGED <<handlerFrame, alarm, completed, run_times, wait_times,
                 sched_queue, sig, heapVars>>

\* Otherwise wait_for_queue spins, inside the handler, until a worker is in.
wait_for_queue(t) ==
  /\ hnd[t] = "next" /\ completed < ThreadCount
  /\ Goto(t, "wait", Null)
  /\ UNCHANGED <<handlerFrame, alarm, globalVars, sched_queue, sig, heapVars>>

SpinEnds(t) ==
  /\ hnd[t] = "wait" /\ sched_queue # <<>>
  /\ Goto(t, "pick", Null)
  /\ UNCHANGED <<handlerFrame, alarm, globalVars, sched_queue, sig, heapVars>>

\* Mutant: the tail of the list.
PickHead_Tail(t) ==
  /\ hnd[t] = "pick"
  /\ currentThread' = Last(sched_queue)
  /\ Goto(t, "resume", Last(sched_queue))
  /\ UNCHANGED <<handlerFrame, alarm, quit, completed, run_times, wait_times,
                 sched_queue, sig, heapVars>>

\* sched_queue.head->info, read without the lock.
PickHead(t) ==
  /\ hnd[t] = "pick"
  /\ currentThread' = Head(sched_queue)
  /\ Goto(t, "resume", Head(sched_queue))
  /\ UNCHANGED <<handlerFrame, alarm, quit, completed, run_times, wait_times,
                 sched_queue, sig, heapVars>>

\* Mutant: the time of the resumption is not recorded.
update_wait_time_NoStamp(in) == [in EXCEPT !.wait_time = @ + now - in.suspend_time]

update_wait_time(in) ==
  [in EXCEPT !.resume_time = now, !.wait_time = @ + now - in.suspend_time]

resume_worker(t) ==
  /\ hnd[t] = "resume"
  /\ pthread_kill(harg[t], "USR2")
  /\ info' = [info EXCEPT ![harg[t]] = update_wait_time(@)]
  /\ Goto(t, "idle", Null)
  /\ UNCHANGED <<handlerFrame, alarm, globalVars, sched_queue, freed>>

\* What a step of the handler may not touch.
Gone(w) == w \in freed \/ pc[w] = "dead"

Faulty(t) ==
  \/ hnd[t] = "suspend" /\ currentThread # Null /\ Gone(currentThread)
  \/ hnd[t] \in {"out", "in", "leave"} /\ harg[t] \in freed
  \/ hnd[t] = "pick" /\ sched_queue = <<>>
  \/ hnd[t] = "resume" /\ Gone(harg[t])

timer_handler(t) ==
  /\ Running
  /\ \/ Faulty(t) /\ Undefined
     \/ /\ ~Faulty(t)
        /\ \/ Check(t) \/ NobodyToSuspend(t) \/ suspend_worker(t)
           \/ cancel_worker(t) \/ RotateOut(t) \/ RotateIn(t) \/ RotateInAgain(t)
           \/ leave_scheduler_queue(t) \/ AllCompleted(t) \/ wait_for_queue(t)
           \/ SpinEnds(t) \/ PickHead(t) \/ resume_worker(t)

-----------------------------------------------------------------------------
(* The timer                                                               *)

\* The worker has nothing to do before another thread acts: it is blocked,
\* computing, or gone.
Quiet(w) ==
  \/ pc[w] = "acquire" /\ queue_sem = 0
  \/ pc[w] = "park" /\ sig[w] \subseteq (IF susp[w] THEN {"USR1"} ELSE {})
  \/ pc[w] = "work" /\ sig[w] \subseteq (IF susp[w] THEN {"USR1"} ELSE {"USR2"})
  \/ pc[w] = "dead"

Settled ==
  /\ ~alarm /\ \A t \in Threads : hnd[t] = "idle"
  /\ main = "exited" \/ (main = "join" /\ sched # "done")
  /\ ~(sched = "loop" /\ quit)
  /\ \A w \in Workers : Quiet(w)

Finished == main = "exited" /\ \A w \in Workers : pc[w] = "dead"

\* The timer expires.  A SIGALRM still pending swallows this one.
Tick ==
  /\ Running /\ sched # "wait" /\ ~Finished /\ now < MaxTicks
  /\ Prompt => Settled
  /\ now' = now + 1
  /\ alarm' = TRUE
  /\ UNCHANGED <<mainVars, sched, globalVars, queueVars, workerVars, heapVars,
                 hndVars, quanta, status>>

-----------------------------------------------------------------------------
\* The process is over, or no longer described.
Stopped == (Finished \/ ~Running) /\ UNCHANGED vars

Next ==
  \/ MainThread
  \/ CreateFails
  \/ SchedThread
  \/ \E w \in Workers : Worker(w)
  \/ \E t \in Threads : TakeAlarm(t)
  \/ \E t \in Threads : timer_handler(t)
  \/ Tick
  \/ Stopped

Spec == Init /\ [][Next]_vars

\* Every thread is scheduled again and again and the timer keeps running;
\* nothing makes pthread_create fail.
Fairness ==
  /\ WF_vars(MainThread)
  /\ WF_vars(SchedThread)
  /\ \A w \in Workers : WF_vars(Worker(w))
  /\ WF_vars(\E t \in Threads : TakeAlarm(t))
  /\ \A t \in Threads : WF_vars(timer_handler(t))
  /\ WF_vars(Tick)

FairSpec == Spec /\ Fairness

-----------------------------------------------------------------------------
(* Properties                                                              *)

Entered   == {"announce", "park", "work", "dead"}
HndSteps  == {"idle", "check", "suspend", "out", "in", "leave", "next", "wait",
              "pick", "resume"}

ThreadInfo == [quanta : Int, run_time : Int, wait_time : Int,
               suspend_time : Int, resume_time : Int]

\* The types of the variables.
TypeOK ==
  /\ main \in {"create", "stamp", "join", "exited"}
  /\ i \in 0..ThreadCount /\ (main = "stamp" => i > 0)
  /\ sched \in {"wait", "loop", "done"}
  /\ quanta \in [Workers -> Int]
  /\ now \in Nat /\ alarm \in BOOLEAN
  /\ quit \in BOOLEAN /\ currentThread \in Workers \cup {Null}
  /\ completed \in Nat /\ run_times \in Int /\ wait_times \in Int
  /\ sched_queue \in Seq(Workers) /\ queue_sem \in Nat
  /\ pc \in [Workers -> {"unborn", "born", "acquire", "insert"} \cup Entered]
  /\ susp \in [Workers -> BOOLEAN]
  /\ sig \in [Workers -> SUBSET {"USR1", "USR2", "TERM"}]
  /\ info \in [Workers -> ThreadInfo]
  /\ freed \subseteq Workers
  /\ hnd \in [Threads -> HndSteps]
  /\ harg \in [Threads -> Workers \cup {Null}]
  /\ \A t \in Threads :
       hnd[t] \in {"out", "in", "leave", "resume"} => harg[t] \in Workers
  /\ status \in {"running", "failed", "undefined", "broken"}

\* Every token of queue_sem is free or held by a worker between its sem_wait
\* and the sem_post of its SIGTERM handler: none is lost, none made up,
\* whatever the signals do (sem_wait, worker.c:56, sem_post, worker.c:22).
Holders == {w \in Workers : pc[w] \in {"insert", "announce", "park", "work"}}

TokenConservation == queue_sem + Cardinality(Holders) = QueueSize

\* The list exceeds queue_size only by cancelled workers that some handler is
\* about to remove: cancel_worker signals first and removes afterwards.
OverrunBound ==
  Len(sched_queue) <= QueueSize + Cardinality({t \in Threads : hnd[t] = "leave"})

\* A walk from head meets no worker twice, none whose thread_info_t is freed, and
\* none that has not entered.
ListSound ==
  /\ \A k, l \in DOMAIN sched_queue : sched_queue[k] = sched_queue[l] => k = l
  /\ \A k \in DOMAIN sched_queue : /\ pc[sched_queue[k]] \in Entered
                                   /\ sched_queue[k] \notin freed

\* Signals, the handlers' pointers and free reach only workers that have
\* entered the queue.
PointersEntered ==
  /\ \A w \in Workers : sig[w] # {} \/ w \in freed => pc[w] \in Entered
  /\ currentThread # Null => pc[currentThread] \in Entered
  /\ \A t \in Threads : harg[t] # Null => pc[harg[t]] \in Entered

\* A worker sent SIGTERM is freed, or a handler is at leave_scheduler_queue
\* with it.
Doomed(w) == "TERM" \in sig[w] \/ pc[w] = "dead"

DoomedLeaving ==
  \A w \in Workers : Doomed(w) =>
    w \in freed \/ \E t \in Threads : hnd[t] = "leave" /\ harg[t] = w

\* A handler gets to leave_scheduler_queue only after its pthread_kill(SIGTERM).
LeavingDoomed == \A t \in Threads : hnd[t] = "leave" => Doomed(harg[t])

\* Overlapping handlers neither lose a worker nor leave one behind (scheduler.c:
\* 94-101, 134-135, worker.c:77-79): who has entered and was not cancelled is in
\* the list, or in the hands of a handler between list_remove and
\* list_insert_tail; who is in the list is not freed, and if it was cancelled the
\* handler that will remove it is on its way.  A second insertion of an element
\* that is in the list breaks this, and nothing is claimed from there on.
Alive(w) == pc[w] \in Entered /\ ~Doomed(w)

Listed(w) == \/ w \in ToSet(sched_queue)
             \/ \E t \in Threads : hnd[t] = "in" /\ harg[t] = w

NobodyLost == status # "broken" => \A w \in Workers : Alive(w) => Listed(w)

ListExact ==
  /\ NobodyLost
  /\ \A w \in ToSet(sched_queue) :
       /\ w \notin freed
       /\ Alive(w) \/ \E t \in Threads : hnd[t] = "leave" /\ harg[t] = w

\* create_workers starts worker 1, then worker 2, and so on.
CreatedInOrder == \A w \in Workers : pc[w] = "unborn" <=> w > i

\* The inductive invariant.
IInv == /\ TypeOK
        /\ CreatedInOrder
        /\ TokenConservation
        /\ ListSound
        /\ PointersEntered
        /\ DoomedLeaving
        /\ LeavingDoomed
        /\ NobodyLost

\* The usage text (scheduler.c:251): queue_size is "the number of threads that
\* can be in the scheduler at one time".
QueueBound == Len(sched_queue) <= QueueSize

\* No handler, worker or main thread touches freed memory, a NULL list head or
\* the id of a dead thread, and none inserts an element twice.
NoUndefined == status \notin {"undefined", "broken"}

\* Of the workers that have entered the queue only the current one computes.
Computing(w) == /\ pc[w] = "work" /\ ~susp[w]
                /\ "USR1" \notin sig[w] /\ "TERM" \notin sig[w]

OneRunner == \A w \in Workers : Computing(w) => currentThread = w

\* Once the first worker was resumed, at tick 1, each quantum is charged to
\* exactly one worker, each worker's run and wait times add up to the time
\* since it was created, and in the end each has run the quanta it was given
\* on the command line (at least one).
Max1(n) == IF n > 1 THEN n ELSE 1
Created == {w \in Workers : pc[w] # "unborn"}

AccountingExact ==
  /\ Settled /\ now > 0 /\ ~quit =>
       run_times + SumFunctionOnSet([w \in Workers |-> info[w].run_time], Created \ freed)
         = now - 1
  /\ Settled => \A w \in Created \ freed :
       info[w].run_time + info[w].wait_time
         = Max({info[w].suspend_time, info[w].resume_time})
  /\ Finished => run_times = SumFunction([w \in Workers |-> Max1(quanta[w])])

\* A worker that has run and is suspended runs again at the latest QueueSize-1
\* quanta later, whoever enters or leaves the queue in between.
WaitBounded ==
  Settled => \A w \in ToSet(sched_queue) \ {currentThread} :
    info[w].run_time > 0 => now - info[w].suspend_time <= QueueSize - 2

\* The comment in timer_handler (scheduler.c:163): "once the last worker has
\* been removed, we're done."  With prompt threads only: an empty list does not
\* mean it when a worker is slow between sem_wait and list_insert_tail, or another
\* handler between list_remove and list_insert_tail.
QuitMeansDone == quit => completed = ThreadCount

\* The process ends: every worker is cancelled and every thread returns.
Termination == <>(Finished \/ status = "failed")
=============================================================================
