------------------------------- MODULE ProdCon -------------------------------
(***************************************************************************)
(* The producer/consumer program of PA3, problem 1 (prob1/part1.cpp):      *)
(* three semaphores around a buffer that is used as a stack.  A producer   *)
(* that finds no item left to make still posts `full`; the consumer that   *)
(* gets such a token and finds the buffer empty ends the process.          *)
(*                                                                         *)
(* A thread main has not created yet is one that has not taken its first   *)
(* step, so main (which only creates threads and exits) is in Init.        *)
(***************************************************************************)
EXTENDS Integers, FiniteSets

CONSTANTS
  Producers, Consumers,  \* the threads, proThreads and conThreads many
  BufferLen,             \* bufferLen
  Items                  \* items, as given on the command line

ASSUME ProdConAssumption ==
  /\ IsFiniteSet(Producers) /\ IsFiniteSet(Consumers)
  /\ Producers \cap Consumers = {}
  /\ BufferLen \in Nat
  /\ Items \in Nat

Threads == Producers \cup Consumers
Slots   == 0..BufferLen - 1

VARIABLES
  mutex, empty, full,    \* the semaphores
  buffer,                \* what each slot holds: 'X', '\0' or what malloc left
  currentSlot, items,
  pc,                    \* the operation each thread is about to do
  removed,               \* how many items consumers have removed and printed
  exited                 \* exit(0) has been called

vars == <<mutex, empty, full, buffer, currentSlot, items, pc, removed, exited>>

\* Mutant: one token more than the buffer has slots.
Init_TokenTooMany ==
  /\ mutex = 1 /\ empty = BufferLen + 1 /\ full = 0
  /\ buffer = [s \in Slots |-> "heap"]
  /\ currentSlot = 0 /\ items = Items
  /\ pc = [t \in Threads |-> IF t \in Producers THEN "wait_empty" ELSE "wait_full"]
  /\ removed = 0
  /\ exited = FALSE

Init ==
  /\ mutex = 1 /\ empty = BufferLen /\ full = 0
  /\ buffer = [s \in Slots |-> "heap"]
  /\ currentSlot = 0 /\ items = Items
  /\ pc = [t \in Threads |-> IF t \in Producers THEN "wait_empty" ELSE "wait_full"]
  /\ removed = 0
  /\ exited = FALSE

Goto(t, from, to) == pc[t] = from /\ pc' = [pc EXCEPT ![t] = to]

data == <<buffer, currentSlot, items, removed, exited>>

-----------------------------------------------------------------------------
(* Steps both kinds of thread have                                         *)

\* Mutant: the mutex is tested, not taken.
LockMutex_NotTaken(t) ==
  /\ mutex > 0
  /\ Goto(t, "wait_mutex", "critical")
  /\ UNCHANGED <<mutex, empty, full, data>>

LockMutex(t) ==
  /\ mutex > 0 /\ mutex' = mutex - 1
  /\ Goto(t, "wait_mutex", "critical")
  /\ UNCHANGED <<empty, full, data>>

UnlockMutex(t) ==
  /\ mutex' = mutex + 1
  /\ \/ t \in Producers /\ Goto(t, "post_mutex", "post_full")
     \/ t \in Consumers /\ Goto(t, "post_mutex", "post_empty")
     \/ Goto(t, "exit_mutex", "exit_empty")
  /\ UNCHANGED <<empty, full, data>>

-----------------------------------------------------------------------------
(* producer                                                                *)

WaitEmpty(p) ==
  /\ empty > 0 /\ empty' = empty - 1
  /\ Goto(p, "wait_empty", "wait_mutex")
  /\ UNCHANGED <<mutex, full, data>>

\* Mutant: items is not decremented.
InsertItem_Uncounted(p) ==
  /\ items > 0
  /\ Goto(p, "critical", "post_mutex")
  /\ buffer' = [buffer EXCEPT ![currentSlot] = "X"]
  /\ currentSlot' = currentSlot + 1
  /\ UNCHANGED <<mutex, empty, full, items, removed, exited>>

InsertItem(p) ==
  /\ items > 0
  /\ Goto(p, "critical", "post_mutex")
  /\ buffer' = [buffer EXCEPT ![currentSlot] = "X"]
  /\ currentSlot' = currentSlot + 1
  /\ items' = items - 1
  /\ UNCHANGED <<mutex, empty, full, removed, exited>>

\* Mutant: the producer leaves without posting `full`.
NothingToInsert_Leaves(p) ==
  /\ items <= 0
  /\ Goto(p, "critical", "exit_mutex")
  /\ UNCHANGED <<mutex, empty, full, data>>

\* Nothing left to make: the buffer stays as it is, `full` is posted all the same.
NothingToInsert(p) ==
  /\ items <= 0
  /\ Goto(p, "critical", "post_mutex")
  /\ UNCHANGED <<mutex, empty, full, data>>

\* Mutants: `full` is posted twice, or never.
PostFull_Twice(p) ==
  /\ full' = full + 2
  /\ Goto(p, "post_full", "wait_empty")
  /\ UNCHANGED <<mutex, empty, data>>

PostFull_Never(p) ==
  /\ Goto(p, "post_full", "wait_empty")
  /\ UNCHANGED <<mutex, empty, full, data>>

PostFull(p) ==
  /\ full' = full + 1
  /\ Goto(p, "post_full", "wait_empty")
  /\ UNCHANGED <<mutex, empty, data>>

producer(p) ==
  /\ ~exited
  /\ \/ WaitEmpty(p) \/ LockMutex(p) \/ InsertItem(p) \/ NothingToInsert(p)
     \/ UnlockMutex(p) \/ PostFull(p)

-----------------------------------------------------------------------------
(* consumer                                                                *)

WaitFull(c) ==
  /\ full > 0 /\ full' = full - 1
  /\ Goto(c, "wait_full", "wait_mutex")
  /\ UNCHANGED <<mutex, empty, data>>

\* Mutant: the slot above the last item is cleared.
RemoveItem_WrongSlot(c) ==
  /\ currentSlot > 0
  /\ Goto(c, "critical", "post_mutex")
  /\ currentSlot' = currentSlot - 1
  /\ buffer' = [buffer EXCEPT ![currentSlot] = "nul"]
  /\ removed' = removed + 1
  /\ UNCHANGED <<mutex, empty, full, items, exited>>

RemoveItem(c) ==
  /\ currentSlot > 0
  /\ Goto(c, "critical", "post_mutex")
  /\ currentSlot' = currentSlot - 1
  /\ buffer' = [buffer EXCEPT ![currentSlot - 1] = "nul"]
  /\ removed' = removed + 1
  /\ UNCHANGED <<mutex, empty, full, items, exited>>

\* An empty buffer is taken for the end of the run.
NothingToRemove(c) ==
  /\ currentSlot <= 0
  /\ Goto(c, "critical", "exit_mutex")
  /\ UNCHANGED <<mutex, empty, full, data>>

\* Mutant: `empty` is posted only by the consumer that ends the process.
PostEmpty_OnlyAtExit(c) ==
  /\ empty' = IF pc[c] = "exit_empty" THEN empty + 1 ELSE empty
  /\ Goto(c, "post_empty", "wait_full") \/ Goto(c, "exit_empty", "exit")
  /\ UNCHANGED <<mutex, full, data>>

PostEmpty(c) ==
  /\ empty' = empty + 1
  /\ Goto(c, "post_empty", "wait_full") \/ Goto(c, "exit_empty", "exit")
  /\ UNCHANGED <<mutex, full, data>>

ExitProcess(c) ==
  /\ pc[c] = "exit"
  /\ exited' = TRUE
  /\ UNCHANGED <<mutex, empty, full, buffer, currentSlot, items, pc, removed>>

consumer(c) ==
  /\ ~exited
  /\ \/ WaitFull(c) \/ LockMutex(c) \/ RemoveItem(c) \/ NothingToRemove(c)
     \/ UnlockMutex(c) \/ PostEmpty(c) \/ ExitProcess(c)

-----------------------------------------------------------------------------
Ended == exited /\ UNCHANGED vars

Next ==
  \/ \E p \in Producers : producer(p)
  \/ \E c \in Consumers : consumer(c)
  \/ Ended

Spec == Init /\ [][Next]_vars

\* Every thread is scheduled again and again; a sem_wait may be overtaken.
FairSpec == /\ Spec
            /\ \A p \in Producers : WF_vars(producer(p))
            /\ \A c \in Consumers : WF_vars(consumer(c))

-----------------------------------------------------------------------------
(* Properties                                                              *)

AtStep(S, steps) == {t \in S : pc[t] \in steps}

TypeOK ==
  /\ mutex \in 0..1 /\ empty \in Nat /\ full \in Nat
  /\ buffer \in [Slots -> {"heap", "X", "nul"}]
  /\ currentSlot \in Int /\ items \in 0..Items
  /\ pc \in [Threads -> {"wait_empty", "wait_full", "wait_mutex", "critical",
                         "post_mutex", "post_full", "post_empty", "exit_mutex",
                         "exit_empty", "exit"}]
  /\ removed \in Nat
  /\ exited \in BOOLEAN

\* The critical sections, from sem_wait(&mutex) to sem_post(&mutex), of any two
\* threads never overlap, and the semaphore tells whether one is occupied.
InCritical == AtStep(Threads, {"critical", "post_mutex", "exit_mutex"})

MutualExclusion == mutex + Cardinality(InCritical) = 1

\* Every slot has exactly one token: in `empty`, in `full`, or held by a thread
\* between its first sem_wait and its last sem_post.
TokenHolders ==
  AtStep(Threads, {"wait_mutex", "critical", "post_mutex", "post_full",
                   "post_empty", "exit_mutex", "exit_empty"})

SlotTokens == empty + full + Cardinality(TokenHolders) = BufferLen

\* While items are left to be made each `full` token, free or in the hands of a
\* thread, stands for one item in the buffer; afterwards there may be more
\* tokens than items, but never an item without a token.
Stored == AtStep(Producers, {"post_mutex", "post_full"})
Owed   == AtStep(Consumers, {"wait_mutex", "critical"})

FullMatchesItems ==
  LET tokens == full + Cardinality(Stored) + Cardinality(Owed)
  IN  currentSlot <= tokens /\ (items > 0 => currentSlot = tokens)

\* No write outside the buffer: a producer about to insert has a free slot.
SlotInBounds ==
  \A p \in Producers :
    pc[p] = "critical" /\ items > 0 => currentSlot \in Slots

\* The slots below currentSlot, and only these, hold an item, so a consumer
\* prints an 'X' each time.
BufferIsStack ==
  currentSlot \in 0..BufferLen /\
  \A s \in Slots : buffer[s] = "X" <=> s < currentSlot

\* A consumer ends the process only when every item was produced and removed.
ExitOnlyWhenDone ==
  \A c \in Consumers : pc[c] \in {"exit_mutex", "exit_empty", "exit"} =>
    items = 0 /\ currentSlot = 0 /\ removed = Items

\* The process does end.
Termination == <>exited

\* The promise itself.
BB == INSTANCE BoundedBuffer WITH
        Capacity <- BufferLen, Total <- Items, toMake <- items,
        stored <- currentSlot, taken <- removed, over <- exited

ImplementsBoundedBuffer == BB!Spec
=============================================================================
