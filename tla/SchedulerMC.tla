----------------------------- MODULE SchedulerMC -----------------------------
(***************************************************************************)
(* Scheduler.tla on small instances, and its refinement of RoundRobin.tla  *)
(* when threads answer their signals within a quantum (Prompt).            *)
(***************************************************************************)
EXTENDS Scheduler

\* Some handler is at one of the steps S.
Handling(S) == \E t \in Threads : hnd[t] \in S

\* A worker between the two halves of its rotation is in no list, and one that is
\* cancelled in the list still.
readyBar ==
  IF Handling({"in"}) THEN <<currentThread>> \o sched_queue
  ELSE IF Handling({"leave"}) THEN Tail(sched_queue)
  ELSE sched_queue

\* Between the removal of one worker and the resumption of the next nobody is
\* being served, whatever currentThread still points to.
servingBar ==
  IF Handling({"leave", "next", "wait", "pick", "resume"}) THEN Null ELSE currentThread

leftBar ==
  [w \in Workers |->
     IF pc[w] = "unborn" THEN quanta[w]
     ELSE IF Handling({"out", "in"}) /\ currentThread = w THEN info[w].quanta + 1
     ELSE info[w].quanta]

RR == INSTANCE RoundRobin WITH
        Jobs <- Workers, Capacity <- QueueSize, Nobody <- Null,
        waiting <- {w \in Workers : pc[w] \notin Entered},
        ready <- readyBar, serving <- servingBar, left <- leftBar,
        done <- {w \in Workers : Doomed(w)},
        aborted <- status = "failed"

\* Workers are served as RoundRobin.tla says, and the code never stops serving
\* them: what timer_handler and start_worker do together.
RefinesRoundRobin == RR!Spec

\* The part of it that says which steps there may be.
StepsOfRoundRobin == RR!Init /\ [][RR!Next]_RR!vars
=============================================================================
