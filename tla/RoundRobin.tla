----------------------------- MODULE RoundRobin -----------------------------
(***************************************************************************)
(* What the scheduler of PA4 promises: workers are admitted to a bounded   *)
(* run queue, the head of the queue is served for one quantum, a worker    *)
(* with quanta left goes back to the tail, one without is finished, and    *)
(* this goes on until every worker is finished.  Nothing is said here of   *)
(* signals, threads, semaphores or the list: Scheduler.tla is the code and *)
(* SchedulerMC.tla maps its states to these.                               *)
(***************************************************************************)
EXTENDS Integers, Sequences

CONSTANTS
  Jobs,       \* the workers
  Capacity,   \* the most workers the run queue may hold, a natural number
  Quanta,     \* the values the command line may give for a worker's quanta
  Nobody      \* not one of Jobs: nobody is being served

VARIABLES
  waiting,    \* the jobs not admitted yet
  ready,      \* the run queue; the job in service stays at its head
  serving,    \* the job in service, or Nobody
  left,       \* the quanta each job still wants
  done,       \* the finished jobs
  aborted     \* a worker could not be created and the program gave up

vars == <<waiting, ready, serving, left, done, aborted>>

Init ==
  /\ waiting = Jobs
  /\ ready = <<>>
  /\ serving = Nobody
  /\ left \in [Jobs -> Quanta]
  /\ done = {}
  /\ aborted = FALSE

\* A job enters at the tail when there is room.
Admit(j) ==
  /\ j \in waiting
  /\ Len(ready) < Capacity
  /\ waiting' = waiting \ {j}
  /\ ready' = Append(ready, j)
  /\ UNCHANGED <<serving, left, done, aborted>>

\* The job at the head is given the processor.
Serve ==
  /\ serving = Nobody
  /\ ready # <<>>
  /\ serving' = Head(ready)
  /\ UNCHANGED <<waiting, ready, left, done, aborted>>

\* Its quantum is over and it wants more: it goes to the tail.
Rotate ==
  /\ serving # Nobody
  /\ left[serving] > 1
  /\ ready' = Append(Tail(ready), serving)
  /\ left' = [left EXCEPT ![serving] = @ - 1]
  /\ serving' = Nobody
  /\ UNCHANGED <<waiting, done, aborted>>

\* Its quantum is over and it was the last: it leaves for good.
Finish ==
  /\ serving # Nobody
  /\ left[serving] <= 1
  /\ ready' = Tail(ready)
  /\ left' = [left EXCEPT ![serving] = @ - 1]
  /\ done' = done \cup {serving}
  /\ serving' = Nobody
  /\ UNCHANGED <<waiting, aborted>>

Abort ==
  /\ waiting # {}
  /\ aborted' = TRUE
  /\ UNCHANGED <<waiting, ready, serving, left, done>>

Advance == Serve \/ Rotate \/ Finish \/ \E j \in Jobs : Admit(j)

Next == ~aborted /\ (Advance \/ Abort)

\* The code never stops while a job is unfinished, unless it gave up.
Spec == Init /\ [][Next]_vars /\ WF_vars(~aborted /\ Advance)
=============================================================================
