------------------------------- MODULE Monitor -------------------------------
(***************************************************************************)
(* The producer/consumer program of PA3, problem 2 (prob2/part2.cpp): the  *)
(* monitor of its own, two condition variables made of a counter and a     *)
(* semaphore.  wait and signal run outside the mutex, and their counters   *)
(* are plain ints: a decrement reads, then writes and branches on what it  *)
(* wrote (the Makefile asks for -O3), so another thread's may come between.*)
(*                                                                         *)
(* main only creates threads and joins; it is in Init, as in ProdCon.tla.  *)
(* It joins the thread it created last as often as there are threads,      *)
(* which is undefined from the second time on (part2.cpp:71-76).  That is  *)
(* left out: what main does meanwhile changes nothing the threads use.     *)
(* The model stops (overflow) at a write past the end of the buffer.       *)
(***************************************************************************)
EXTENDS Integers, FiniteSets

CONSTANTS
  Producers, Consumers,  \* the threads, proThreads and conThreads many
  BufferLen,             \* bufferLen
  Items                  \* items, as given on the command line

ASSUME MonitorAssumption ==
  /\ IsFiniteSet(Producers) /\ IsFiniteSet(Consumers)
  /\ Producers \cap Consumers = {}
  /\ BufferLen \in Nat
  /\ Items \in Nat

Threads == Producers \cup Consumers
Slots   == 0..BufferLen - 1

VARIABLES
  mutex,
  count, suspend,      \* the two fields of each cond
  buffer,              \* what each slot holds: a letter, '\0' or what malloc left
  currentSlot, items,
  pc,                  \* the operation each thread is about to do
  reg,                 \* the count it has read, 0 once it is no longer needed
  leaving,             \* it will end once it has signalled
  removed,             \* how many items consumers have removed and printed
  overflow, exited     \* a write past the buffer; exit(0)

data == <<buffer, currentSlot, items, removed>>
vars == <<mutex, count, suspend, data, pc, reg, leaving, overflow, exited>>

\* mon_insert waits on empty and signals full, mon_remove the converse.
Awaits(t)  == IF t \in Producers THEN "empty" ELSE "full"
Signals(t) == IF t \in Producers THEN "full" ELSE "empty"

Init ==
  /\ mutex = 1
  /\ count   = [cv \in {"empty", "full"} |-> IF cv = "empty" THEN BufferLen ELSE 0]
  /\ suspend = [cv \in {"empty", "full"} |-> IF cv = "empty" THEN BufferLen ELSE 0]
  /\ buffer = [s \in Slots |-> "heap"]
  /\ currentSlot = 0 /\ items = Items
  /\ pc = [t \in Threads |-> "wait"]
  /\ reg = [t \in Threads |-> 0]
  /\ leaving = [t \in Threads |-> FALSE]
  /\ removed = 0
  /\ overflow = FALSE /\ exited = FALSE

Goto(t, from, to) == pc[t] = from /\ pc' = [pc EXCEPT ![t] = to]

-----------------------------------------------------------------------------
(* wait and signal                                                         *)

\* cv->count-- and cv->count++ begin by reading the counter.
ReadCount(t) ==
  /\ \/ Goto(t, "wait", "wait_write")     /\ reg' = [reg EXCEPT ![t] = count[Awaits(t)]]
     \/ Goto(t, "signal", "signal_write") /\ reg' = [reg EXCEPT ![t] = count[Signals(t)]]
  /\ UNCHANGED <<mutex, count, suspend, data, leaving, overflow, exited>>

WaitWrite(t) ==
  /\ count' = [count EXCEPT ![Awaits(t)] = reg[t] - 1]
  /\ Goto(t, "wait_write", IF reg[t] - 1 < 0 THEN "suspended" ELSE "lock")
  /\ reg' = [reg EXCEPT ![t] = 0]
  /\ UNCHANGED <<mutex, suspend, data, leaving, overflow, exited>>

Suspended(t) ==
  /\ suspend[Awaits(t)] > 0
  /\ suspend' = [suspend EXCEPT ![Awaits(t)] = @ - 1]
  /\ Goto(t, "suspended", "lock")
  /\ UNCHANGED <<mutex, count, data, reg, leaving, overflow, exited>>

AfterSignal(t) == IF ~leaving[t] THEN "wait"
                  ELSE IF t \in Producers THEN "done" ELSE "exit"

SignalWrite(t) ==
  /\ count' = [count EXCEPT ![Signals(t)] = reg[t] + 1]
  /\ Goto(t, "signal_write", IF reg[t] + 1 <= 0 THEN "wake" ELSE AfterSignal(t))
  /\ reg' = [reg EXCEPT ![t] = 0]
  /\ UNCHANGED <<mutex, suspend, data, leaving, overflow, exited>>

Wake(t) ==
  /\ suspend' = [suspend EXCEPT ![Signals(t)] = @ + 1]
  /\ Goto(t, "wake", AfterSignal(t))
  /\ UNCHANGED <<mutex, count, data, reg, leaving, overflow, exited>>

-----------------------------------------------------------------------------
(* The mutex                                                               *)

\* Mutant: the mutex is tested, not taken.
LockMutex_NotTaken(t) ==
  /\ mutex > 0
  /\ Goto(t, "lock", "critical")
  /\ UNCHANGED <<mutex, count, suspend, data, reg, leaving, overflow, exited>>

LockMutex(t) ==
  /\ mutex > 0 /\ mutex' = mutex - 1
  /\ Goto(t, "lock", "critical")
  /\ UNCHANGED <<count, suspend, data, reg, leaving, overflow, exited>>

UnlockMutex(t) ==
  /\ mutex' = mutex + 1
  /\ Goto(t, "unlock", "signal")
  /\ UNCHANGED <<count, suspend, data, reg, leaving, overflow, exited>>

-----------------------------------------------------------------------------
(* mon_insert                                                              *)

control == <<mutex, count, suspend, reg, exited>>

\* Mutant: items is not decremented.
InsertItem_Uncounted(p) ==
  /\ items > 0 /\ currentSlot \in Slots
  /\ Goto(p, "critical", "unlock")
  /\ buffer' = [buffer EXCEPT ![currentSlot] = "letter"]
  /\ currentSlot' = currentSlot + 1
  /\ UNCHANGED <<control, items, removed, leaving, overflow>>

InsertItem(p) ==
  /\ items > 0 /\ currentSlot \in Slots
  /\ Goto(p, "critical", "unlock")
  /\ buffer' = [buffer EXCEPT ![currentSlot] = "letter"]
  /\ currentSlot' = currentSlot + 1
  /\ items' = items - 1
  /\ UNCHANGED <<control, removed, leaving, overflow>>

\* The same assignment when the buffer is full.
InsertPastEnd(p) ==
  /\ pc[p] = "critical" /\ items > 0 /\ currentSlot \notin Slots
  /\ overflow' = TRUE
  /\ UNCHANGED <<control, data, pc, leaving>>

NothingToInsert(p) ==
  /\ items <= 0
  /\ Goto(p, "critical", "unlock")
  /\ leaving' = [leaving EXCEPT ![p] = TRUE]
  /\ UNCHANGED <<control, data, overflow>>

producer(p) == InsertItem(p) \/ InsertPastEnd(p) \/ NothingToInsert(p)

-----------------------------------------------------------------------------
(* mon_remove                                                              *)

\* Mutant: the slot above the last item is cleared.
RemoveItem_WrongSlot(c) ==
  /\ currentSlot > 0
  /\ Goto(c, "critical", "unlock")
  /\ currentSlot' = currentSlot - 1
  /\ buffer' = [buffer EXCEPT ![currentSlot] = "nul"]
  /\ removed' = removed + 1
  /\ UNCHANGED <<control, items, leaving, overflow>>

RemoveItem(c) ==
  /\ currentSlot > 0
  /\ Goto(c, "critical", "unlock")
  /\ currentSlot' = currentSlot - 1
  /\ buffer' = [buffer EXCEPT ![currentSlot - 1] = "nul"]
  /\ removed' = removed + 1
  /\ UNCHANGED <<control, items, leaving, overflow>>

NothingToRemove(c) ==
  /\ currentSlot <= 0
  /\ Goto(c, "critical", "unlock")
  /\ leaving' = [leaving EXCEPT ![c] = TRUE]
  /\ UNCHANGED <<control, data, overflow>>

ExitProcess(c) ==
  /\ pc[c] = "exit"
  /\ exited' = TRUE
  /\ UNCHANGED <<mutex, count, suspend, reg, data, pc, leaving, overflow>>

consumer(c) == RemoveItem(c) \/ NothingToRemove(c) \/ ExitProcess(c)

-----------------------------------------------------------------------------
Next ==
  /\ ~exited /\ ~overflow
  /\ \/ \E t \in Threads :
          \/ ReadCount(t) \/ WaitWrite(t) \/ Suspended(t) \/ SignalWrite(t)
          \/ Wake(t) \/ LockMutex(t) \/ UnlockMutex(t)
     \/ \E p \in Producers : producer(p)
     \/ \E c \in Consumers : consumer(c)

Spec == Init /\ [][Next]_vars

-----------------------------------------------------------------------------
(* Properties                                                              *)

\* The types of the variables.
TypeOK ==
  /\ mutex \in 0..1
  /\ count \in [{"empty", "full"} -> Int] /\ suspend \in [{"empty", "full"} -> Nat]
  /\ buffer \in [Slots -> {"heap", "letter", "nul"}]
  /\ currentSlot \in 0..BufferLen /\ items \in 0..Items
  /\ pc \in [Threads -> {"wait", "wait_write", "suspended", "lock", "critical",
                         "unlock", "signal", "signal_write", "wake", "done", "exit"}]
  /\ reg \in [Threads -> Int] /\ leaving \in [Threads -> BOOLEAN]
  /\ removed \in Nat /\ overflow \in BOOLEAN /\ exited \in BOOLEAN

\* One thread at a time is between sem_wait(&mutex) and sem_post(&mutex),
\* however many the racing counters let through wait at once.
MutualExclusion ==
  mutex + Cardinality({t \in Threads : pc[t] \in {"critical", "unlock"}}) = 1

\* The slots below currentSlot, and only these, hold a letter: a consumer prints
\* one that a producer put there and no other consumer has printed.
BufferIsStack == \A s \in Slots : buffer[s] = "letter" <=> s < currentSlot

\* Until the buffer overflows items move one at a time from the producers to
\* the buffer and from there to the consumers; none is lost or made up, though
\* wait and signal race.  (That the program ends only when all have been
\* removed, the End step of BoundedBuffer, is not claimed.)
BB == INSTANCE BoundedBuffer WITH
        Capacity <- BufferLen, Total <- Items, toMake <- items,
        stored <- currentSlot, taken <- removed, over <- FALSE

KeepsItems == BB!Spec

\* The comment in mon_insert (part2.cpp:126-127): it inserts "into the first
\* available slot in the buffer", so there is one.
SlotInBounds ==
  \A p \in Producers : pc[p] = "critical" /\ items > 0 => currentSlot \in Slots
=============================================================================
