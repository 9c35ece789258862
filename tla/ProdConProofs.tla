---------------------------- MODULE ProdConProofs ----------------------------
(***************************************************************************)
(* For every number of producers and consumers, every buffer length and    *)
(* every number of items, the semaphores of PA3 problem 1 keep the buffer  *)
(* within its bounds and end the process only when every item was removed: *)
(* ProdCon.tla implements BoundedBuffer.tla.                               *)
(***************************************************************************)
EXTENDS ProdCon, FiniteSetTheorems, TLAPS

ProducerSteps == {"wait_empty", "wait_mutex", "critical", "post_mutex", "post_full"}
ConsumerSteps == {"wait_full", "wait_mutex", "critical", "post_mutex",
                  "post_empty", "exit_mutex", "exit_empty", "exit"}

\* Which operations each kind of thread is ever at, and no item is lost: what
\* TypeOK lacks to be inductive.
Counts ==
  /\ mutex \in Nat /\ empty \in Nat /\ full \in Nat
  /\ currentSlot \in Nat /\ items \in Nat /\ removed \in Nat
  /\ items + currentSlot + removed = Items
  /\ exited \in BOOLEAN
  /\ pc \in [Threads -> ProducerSteps \cup ConsumerSteps]
  /\ \A p \in Producers : pc[p] \in ProducerSteps
  /\ \A c \in Consumers : pc[c] \in ConsumerSteps

\* The inductive invariant.
IInv == /\ Counts
        /\ MutualExclusion
        /\ SlotTokens
        /\ FullMatchesItems
        /\ ExitOnlyWhenDone

-----------------------------------------------------------------------------
(* Counting threads                                                        *)

\* The number of threads of S at the operations A, before and after a step.
Before(S, A) == Cardinality(AtStep(S, A))
After(S, A) == Cardinality({u \in S : pc'[u] \in A})

LEMMA ThreadsFinite == IsFiniteSet(Threads) /\ IsFiniteSet(Producers) /\ IsFiniteSet(Consumers)
BY FS_Union, ProdConAssumption DEF Threads, ProdConAssumption

LEMMA CountIsNat ==
  ASSUME NEW S, NEW A, IsFiniteSet(S)
  PROVE  IsFiniteSet(AtStep(S, A)) /\ Before(S, A) \in Nat
<1>1. AtStep(S, A) \in SUBSET S
  BY DEF AtStep
<1> QED BY <1>1, FS_Subset, FS_CardinalityType DEF Before

\* A thread that moves from one operation to another changes the count of A by
\* one exactly when it enters or leaves A.
LEMMA CountMove ==
  ASSUME NEW S, NEW A, S \subseteq Threads, IsFiniteSet(S), NEW t \in Threads,
         NEW from, NEW to, pc \in [Threads -> ProducerSteps \cup ConsumerSteps],
         Goto(t, from, to)
  PROVE  After(S, A) = Before(S, A) + (IF t \in S /\ to \in A /\ from \notin A THEN 1
                              ELSE IF t \in S /\ to \notin A /\ from \in A THEN -1
                              ELSE 0)
<1> DEFINE before == AtStep(S, A)
           after  == {u \in S : pc'[u] \in A}
<1>1. pc[t] = from /\ pc'[t] = to /\ \A u \in Threads \ {t} : pc'[u] = pc[u]
  BY DEF Goto
<1>2. IsFiniteSet(before) /\ Cardinality(before) \in Nat
  BY CountIsNat DEF Before
<1>3. CASE t \in S /\ to \in A /\ from \notin A
  <2>1. after = before \cup {t} /\ t \notin before
    BY <1>1, <1>3 DEF AtStep
  <2> QED BY <1>2, <1>3, <2>1, FS_AddElement DEF Before, After
<1>4. CASE t \in S /\ to \notin A /\ from \in A
  <2>1. after = before \ {t} /\ t \in before
    BY <1>1, <1>4 DEF AtStep
  <2> QED BY <1>2, <1>4, <2>1, FS_RemoveElement DEF Before, After
<1>5. CASE t \notin S \/ (to \in A <=> from \in A)
  <2>1. after = before
    BY <1>1, <1>5 DEF AtStep
  <2> QED BY <1>2, <1>5, <2>1 DEF Before, After
<1> QED BY <1>3, <1>4, <1>5

-----------------------------------------------------------------------------
(* The four counts of the invariant after a step of thread t               *)

CS == {"critical", "post_mutex", "exit_mutex"}
TH == {"wait_mutex", "critical", "post_mutex", "post_full", "post_empty",
       "exit_mutex", "exit_empty"}
SP == {"post_mutex", "post_full"}
OC == {"wait_mutex", "critical"}

\* How the number of threads of S at the operations A changes when t moves.
Delta(t, S, A, from, to) == IF t \in S /\ to \in A /\ from \notin A THEN 1
                            ELSE IF t \in S /\ to \notin A /\ from \in A THEN -1
                            ELSE 0

LEMMA StepCounts ==
  ASSUME IInv, NEW t \in Threads, NEW from, NEW to, Goto(t, from, to)
  PROVE  /\ Cardinality(InCritical') = Cardinality(InCritical) + Delta(t, Threads, CS, from, to)
         /\ Cardinality(TokenHolders') = Cardinality(TokenHolders) + Delta(t, Threads, TH, from, to)
         /\ Cardinality(Stored') = Cardinality(Stored) + Delta(t, Producers, SP, from, to)
         /\ Cardinality(Owed') = Cardinality(Owed) + Delta(t, Consumers, OC, from, to)
<1>1. pc \in [Threads -> ProducerSteps \cup ConsumerSteps]
  BY DEF IInv, Counts
<1>2. Producers \subseteq Threads /\ Consumers \subseteq Threads
  BY DEF Threads
<1>3. After(Threads, CS) = Before(Threads, CS) + Delta(t, Threads, CS, from, to)
  BY <1>1, ThreadsFinite, CountMove DEF Delta
<1>4. After(Threads, TH) = Before(Threads, TH) + Delta(t, Threads, TH, from, to)
  BY <1>1, ThreadsFinite, CountMove DEF Delta
<1>5. After(Producers, SP) = Before(Producers, SP) + Delta(t, Producers, SP, from, to)
  BY <1>1, <1>2, ThreadsFinite, CountMove DEF Delta
<1>6. After(Consumers, OC) = Before(Consumers, OC) + Delta(t, Consumers, OC, from, to)
  BY <1>1, <1>2, ThreadsFinite, CountMove DEF Delta
<1> QED BY <1>3, <1>4, <1>5, <1>6
        DEF InCritical, TokenHolders, Stored, Owed, AtStep, Before, After, CS, TH, SP, OC

LEMMA CountsAreNat ==
  /\ Cardinality(InCritical) \in Nat /\ Cardinality(TokenHolders) \in Nat
  /\ Cardinality(Stored) \in Nat /\ Cardinality(Owed) \in Nat
BY ThreadsFinite, CountIsNat DEF InCritical, TokenHolders, Stored, Owed, Before

\* A consumer that holds a `full` token is counted.
LEMMA OwedPositive ==
  ASSUME NEW c \in Consumers, pc[c] \in OC
  PROVE  Cardinality(Owed) > 0
<1>1. IsFiniteSet(Owed) /\ c \in Owed
  BY ThreadsFinite, CountIsNat DEF Owed, AtStep, OC
<1>2. Cardinality(Owed) # 0
  BY <1>1, FS_EmptySet
<1> QED BY <1>2, CountsAreNat

-----------------------------------------------------------------------------
(* Init and the steps                                                      *)

LEMMA InitInvariant == Init => IInv
<1> SUFFICES ASSUME Init PROVE IInv
  OBVIOUS
<1>1. \A t \in Threads : pc[t] \in {"wait_empty", "wait_full"}
  BY DEF Init, Threads
<1>2. InCritical = {} /\ TokenHolders = {} /\ Stored = {} /\ Owed = {}
  BY <1>1 DEF InCritical, TokenHolders, Stored, Owed, AtStep, Threads
<1>3. Counts
  <2>1. exited \in BOOLEAN
    BY Zenon DEF Init
  <2>2. /\ \A p \in Producers : pc[p] = "wait_empty"
        /\ \A c \in Consumers : pc[c] = "wait_full"
    BY ProdConAssumption DEF Init, Threads, ProdConAssumption
  <2>3. pc \in [Threads -> ProducerSteps \cup ConsumerSteps]
    BY DEF Init, ProducerSteps, ConsumerSteps
  <2>4. /\ mutex \in Nat /\ empty \in Nat /\ full \in Nat
        /\ currentSlot \in Nat /\ items \in Nat /\ removed \in Nat
        /\ items + currentSlot + removed = Items
    BY ProdConAssumption DEF Init, ProdConAssumption
  <2> QED BY <2>1, <2>2, <2>3, <2>4 DEF Counts, ProducerSteps, ConsumerSteps
<1>4. MutualExclusion /\ SlotTokens /\ FullMatchesItems
  BY <1>2, FS_EmptySet, ProdConAssumption
     DEF Init, MutualExclusion, SlotTokens, FullMatchesItems, ProdConAssumption
<1>5. ExitOnlyWhenDone
  BY <1>1 DEF ExitOnlyWhenDone, Threads
<1> QED BY <1>3, <1>4, <1>5 DEF IInv

\* The parts of the invariant a step of t from `from` to `to` has to restore,
\* gathered once: what remains per action is arithmetic.
LEMMA StepRestores ==
  ASSUME IInv, NEW t \in Threads, NEW from, NEW to, Goto(t, from, to),
         t \in Producers => to \in ProducerSteps,
         t \in Consumers => to \in ConsumerSteps,
         mutex' \in Nat, empty' \in Nat, full' \in Nat,
         currentSlot' \in Nat, items' \in Nat, removed' \in Nat,
         exited' \in BOOLEAN,
         items' + currentSlot' + removed' = Items,
         mutex' + Delta(t, Threads, CS, from, to) = mutex,
         empty' + full' + Delta(t, Threads, TH, from, to) = empty + full,
         LET d == full' + Delta(t, Producers, SP, from, to)
                        + Delta(t, Consumers, OC, from, to) - full
             n == currentSlot' - currentSlot
         IN  \/ items > 0 /\ n = d
             \/ items <= 0 /\ items' <= 0 /\ n <= d
             \/ items' <= 0 /\ currentSlot' = 0,
         \/ to \notin {"exit_mutex", "exit_empty", "exit"}
         \/ from \in {"exit_mutex", "exit_empty", "exit"}
         \/ items' = 0 /\ currentSlot' = 0,
         items = 0 /\ currentSlot = 0 => items' = 0 /\ currentSlot' = 0
  PROVE  IInv'
<1>1. /\ Counts /\ MutualExclusion /\ SlotTokens /\ FullMatchesItems
      /\ ExitOnlyWhenDone /\ Items \in Nat /\ BufferLen \in Nat
  BY ProdConAssumption DEF IInv, ProdConAssumption
<1>2. pc[t] = from /\ pc' = [pc EXCEPT ![t] = to]
  BY DEF Goto
<1>3. Counts'
  <2>1. \A u \in Threads : pc'[u] = IF u = t THEN to ELSE pc[u]
    BY <1>1, <1>2 DEF Counts
  <2>2. pc' \in [Threads -> ProducerSteps \cup ConsumerSteps]
    BY <1>1, <1>2 DEF Counts, Threads
  <2> QED BY <1>1, <2>1, <2>2 DEF Counts, Threads
<1>4. /\ Cardinality(InCritical)' \in Nat /\ Cardinality(TokenHolders)' \in Nat
      /\ Cardinality(Stored)' \in Nat /\ Cardinality(Owed)' \in Nat
  BY ThreadsFinite, FS_Subset, FS_CardinalityType
     DEF InCritical, TokenHolders, Stored, Owed, AtStep
<1> DEFINE dC == Delta(t, Threads, CS, from, to)
           dH == Delta(t, Threads, TH, from, to)
           dS == Delta(t, Producers, SP, from, to)
           dO == Delta(t, Consumers, OC, from, to)
<1>5. dC \in Int /\ dH \in Int /\ dS \in Int /\ dO \in Int
  BY DEF Delta
<1>6. /\ Cardinality(InCritical)' = Cardinality(InCritical) + dC
      /\ Cardinality(TokenHolders)' = Cardinality(TokenHolders) + dH
      /\ Cardinality(Stored)' = Cardinality(Stored) + dS
      /\ Cardinality(Owed)' = Cardinality(Owed) + dO
  BY StepCounts
<1> HIDE DEF dC, dH, dS, dO
<1>7. MutualExclusion'
  BY <1>1, <1>4, <1>5, <1>6, CountsAreNat DEF MutualExclusion, Counts, dC
<1>8. SlotTokens'
  BY <1>1, <1>4, <1>5, <1>6, CountsAreNat DEF SlotTokens, Counts, dH
<1>9. FullMatchesItems'
  BY <1>1, <1>4, <1>5, <1>6, CountsAreNat DEF FullMatchesItems, Counts, dS, dO
<1>10. ExitOnlyWhenDone'
  <2>1. items' = 0 /\ currentSlot' = 0 => removed' = Items
    BY <1>3 DEF Counts
  <2> SUFFICES ASSUME NEW c \in Consumers,
                      pc'[c] \in {"exit_mutex", "exit_empty", "exit"}
               PROVE  items' = 0 /\ currentSlot' = 0
    BY <2>1 DEF ExitOnlyWhenDone
  <2>2. pc'[c] = IF c = t THEN to ELSE pc[c]
    BY <1>1, <1>2 DEF Counts, Threads
  <2> QED BY <1>1, <1>2, <2>2 DEF ExitOnlyWhenDone
<1> QED BY <1>3, <1>7, <1>8, <1>9, <1>10 DEF IInv

\* One step per operation of the two programs.
LEMMA StepInvariant == IInv /\ [Next]_vars => IInv'
<1> SUFFICES ASSUME IInv, [Next]_vars PROVE IInv'
  OBVIOUS
<1>0. /\ Counts /\ FullMatchesItems /\ ExitOnlyWhenDone /\ Items \in Nat
      /\ Producers \cap Consumers = {}
      /\ Cardinality(Stored) \in Nat /\ Cardinality(Owed) \in Nat
  BY ProdConAssumption, CountsAreNat DEF IInv, ProdConAssumption
<1> USE DEF Delta, CS, TH, SP, OC, ProducerSteps, ConsumerSteps, data
<1>1. ASSUME NEW t \in Threads, LockMutex(t) PROVE IInv'
  <2>1. Goto(t, "wait_mutex", "critical")
    BY <1>1 DEF LockMutex
  <2> QED BY <1>0, <1>1, <2>1, StepRestores DEF LockMutex, Counts, Threads
<1>2. ASSUME NEW t \in Threads, UnlockMutex(t) PROVE IInv'
  <2>1. CASE t \in Producers /\ Goto(t, "post_mutex", "post_full")
    BY <1>0, <1>2, <2>1, StepRestores DEF UnlockMutex, Counts, Threads
  <2>2. CASE t \in Consumers /\ Goto(t, "post_mutex", "post_empty")
    BY <1>0, <1>2, <2>2, StepRestores DEF UnlockMutex, Counts, Threads
  <2>3. CASE Goto(t, "exit_mutex", "exit_empty")
    <3>1. t \in Consumers /\ t \notin Producers
      BY <1>0, <2>3 DEF Counts, Threads, Goto
    <3> QED BY <1>0, <1>2, <2>3, <3>1, StepRestores DEF UnlockMutex, Counts, Threads
  <2> QED BY <1>2, <2>1, <2>2, <2>3 DEF UnlockMutex
<1>3. ASSUME NEW p \in Producers, WaitEmpty(p) PROVE IInv'
  <2>1. Goto(p, "wait_empty", "wait_mutex") /\ p \in Threads /\ p \notin Consumers
    BY <1>0, <1>3 DEF WaitEmpty, Threads
  <2> QED BY <1>0, <1>3, <2>1, StepRestores DEF WaitEmpty, Counts
<1>4. ASSUME NEW p \in Producers, InsertItem(p) PROVE IInv'
  <2>1. Goto(p, "critical", "post_mutex") /\ p \in Threads /\ p \notin Consumers
    BY <1>0, <1>4 DEF InsertItem, Threads
  <2> QED BY <1>0, <1>4, <2>1, StepRestores DEF InsertItem, Counts
<1>5. ASSUME NEW p \in Producers, NothingToInsert(p) PROVE IInv'
  <2>1. Goto(p, "critical", "post_mutex") /\ p \in Threads /\ p \notin Consumers
    BY <1>0, <1>5 DEF NothingToInsert, Threads
  <2> QED BY <1>0, <1>5, <2>1, StepRestores DEF NothingToInsert, Counts
<1>6. ASSUME NEW p \in Producers, PostFull(p) PROVE IInv'
  <2>1. Goto(p, "post_full", "wait_empty") /\ p \in Threads /\ p \notin Consumers
    BY <1>0, <1>6 DEF PostFull, Threads
  <2> QED BY <1>0, <1>6, <2>1, StepRestores DEF PostFull, Counts
<1>7. ASSUME NEW c \in Consumers, WaitFull(c) PROVE IInv'
  <2>1. Goto(c, "wait_full", "wait_mutex") /\ c \in Threads /\ c \notin Producers
    BY <1>0, <1>7 DEF WaitFull, Threads
  <2> QED BY <1>0, <1>7, <2>1, StepRestores DEF WaitFull, Counts
<1>8. ASSUME NEW c \in Consumers, RemoveItem(c) PROVE IInv'
  <2>1. Goto(c, "critical", "post_mutex") /\ c \in Threads /\ c \notin Producers
    BY <1>0, <1>8 DEF RemoveItem, Threads
  <2> QED BY <1>0, <1>8, <2>1, StepRestores DEF RemoveItem, Counts
<1>9. ASSUME NEW c \in Consumers, NothingToRemove(c) PROVE IInv'
  <2>1. Goto(c, "critical", "exit_mutex") /\ c \in Threads /\ c \notin Producers
    BY <1>0, <1>9 DEF NothingToRemove, Threads
  <2>2. Cardinality(Owed) > 0
    BY <2>1, OwedPositive DEF Goto
  <2>3. currentSlot = 0 /\ items = 0
    BY <1>0, <1>9, <2>2 DEF NothingToRemove, Counts, FullMatchesItems
  <2> QED BY <1>0, <1>9, <2>1, <2>3, StepRestores DEF NothingToRemove, Counts
<1>10. ASSUME NEW c \in Consumers, PostEmpty(c) PROVE IInv'
  <2>0. c \in Threads /\ c \notin Producers
    BY <1>0 DEF Threads
  <2>1. CASE Goto(c, "post_empty", "wait_full")
    BY <1>0, <1>10, <2>0, <2>1, StepRestores DEF PostEmpty, Counts
  <2>2. CASE Goto(c, "exit_empty", "exit")
    BY <1>0, <1>10, <2>0, <2>2, StepRestores DEF PostEmpty, Counts
  <2> QED BY <1>10, <2>1, <2>2 DEF PostEmpty
<1>11. CASE UNCHANGED <<mutex, empty, full, currentSlot, items, pc, removed>>
            /\ exited' \in BOOLEAN
  BY <1>11 DEF IInv, Counts, MutualExclusion, SlotTokens, FullMatchesItems,
     ExitOnlyWhenDone, InCritical, TokenHolders, Stored, Owed, AtStep
<1>12. ASSUME NEW c \in Consumers, ExitProcess(c) PROVE IInv'
  BY <1>11, <1>12 DEF ExitProcess
<1>13. CASE UNCHANGED vars
  BY <1>0, <1>11, <1>13 DEF vars, Counts
<1> QED BY <1>1, <1>2, <1>3, <1>4, <1>5, <1>6, <1>7, <1>8, <1>9, <1>10, <1>12, <1>13
        DEF Next, Ended, producer, consumer, Threads

\* The invariant of every reachable state.
THEOREM Invariance == Spec => []IInv
<1>1. Init => IInv
  BY InitInvariant
<1>2. IInv /\ [Next]_vars => IInv'
  BY StepInvariant
<1> QED BY <1>1, <1>2, PTL DEF Spec

\* The critical sections of PA3 problem 1 never overlap.
THEOREM CriticalSectionsExclusive == Spec => []MutualExclusion
BY Invariance, PTL DEF IInv

\* Every slot has one token: a thread that dies holding one, or posts one twice,
\* would break this for good.
THEOREM TokensConserved == Spec => []SlotTokens
BY Invariance, PTL DEF IInv

\* No item in the buffer is without a `full` token, and while items are left no
\* token is without an item.
THEOREM TokensMatchItems == Spec => []FullMatchesItems
BY Invariance, PTL DEF IInv

\* exit(0) is called only when every item has been produced and removed.
THEOREM NoEarlyExit == Spec => []ExitOnlyWhenDone
BY Invariance, PTL DEF IInv

\* A producer about to insert has a slot of its own, so no write leaves the
\* buffer: the tokens in `full` and in other hands are all taken.
LEMMA RoomToInsert ==
  ASSUME IInv, NEW p \in Producers, pc[p] = "critical", items > 0
  PROVE  currentSlot < BufferLen
<1> DEFINE rest == TokenHolders \ {p}
<1>0. /\ Counts /\ SlotTokens /\ FullMatchesItems /\ BufferLen \in Nat
      /\ Producers \cap Consumers = {}
  BY ProdConAssumption DEF IInv, ProdConAssumption
<1>1. IsFiniteSet(TokenHolders) /\ IsFiniteSet(Stored) /\ IsFiniteSet(Owed)
  BY ThreadsFinite, CountIsNat DEF TokenHolders, Stored, Owed
<1>2. p \in TokenHolders
  BY DEF TokenHolders, AtStep, Threads
<1>3. IsFiniteSet(rest) /\ Cardinality(rest) = Cardinality(TokenHolders) - 1
  BY <1>1, <1>2, FS_RemoveElement
<1>4. Stored \cup Owed \subseteq rest
  BY <1>0 DEF Stored, Owed, TokenHolders, AtStep, Threads
<1>5. Stored \cap Owed = {}
  BY <1>0 DEF Stored, Owed, AtStep
<1>6. Cardinality(Stored \cup Owed) = Cardinality(Stored) + Cardinality(Owed)
  <2>1. Cardinality(Stored \cap Owed) = 0
    BY <1>5, FS_EmptySet
  <2>2. Cardinality(Stored \cup Owed)
          = Cardinality(Stored) + Cardinality(Owed) - Cardinality(Stored \cap Owed)
    BY <1>1, FS_Union
  <2> QED BY <2>1, <2>2, CountsAreNat
<1>7. Cardinality(Stored \cup Owed) <= Cardinality(rest)
  BY <1>3, <1>4, FS_Subset
<1> HIDE DEF rest
<1> QED BY <1>0, <1>3, <1>6, <1>7, CountsAreNat
        DEF Counts, SlotTokens, FullMatchesItems

\* No producer writes outside the buffer, whatever bufferLen is.
THEOREM InsertInBounds == Spec => []SlotInBounds
<1>1. ASSUME IInv PROVE SlotInBounds
  <2>1. currentSlot \in Nat /\ BufferLen \in Nat
    BY <1>1, ProdConAssumption DEF IInv, Counts, ProdConAssumption
  <2>2. \A p \in Producers : pc[p] = "critical" /\ items > 0 =>
          currentSlot < BufferLen
    BY <1>1, RoomToInsert
  <2> QED BY <2>1, <2>2 DEF SlotInBounds, Slots
<1> QED BY <1>1, Invariance, PTL

\* What BufferIsStack needs to be inductive: the buffer is an array of its slots.
Stack == BufferIsStack /\ DOMAIN buffer = Slots

LEMMA StackStep ==
  ASSUME IInv, Stack, [Next]_vars
  PROVE  Stack'
<1>1. /\ currentSlot \in 0..BufferLen /\ BufferLen \in Nat /\ DOMAIN buffer = Slots
      /\ \A s \in Slots : buffer[s] = "X" <=> s < currentSlot
  BY ProdConAssumption DEF Stack, BufferIsStack, ProdConAssumption
<1>2. CASE UNCHANGED <<buffer, currentSlot>>
  BY <1>1, <1>2 DEF Stack, BufferIsStack
<1>3. ASSUME NEW p \in Producers, InsertItem(p) PROVE Stack'
  <2>1. pc[p] = "critical" /\ items > 0
    BY <1>3 DEF InsertItem, Goto
  <2>2. currentSlot < BufferLen
    BY <2>1, RoomToInsert
  <2>3. currentSlot' = currentSlot + 1 /\ buffer' = [buffer EXCEPT ![currentSlot] = "X"]
    BY <1>3 DEF InsertItem
  <2> QED BY <1>1, <2>2, <2>3 DEF Stack, BufferIsStack, Slots
<1>4. ASSUME NEW c \in Consumers, RemoveItem(c) PROVE Stack'
  <2>1. /\ currentSlot > 0 /\ currentSlot' = currentSlot - 1
        /\ buffer' = [buffer EXCEPT ![currentSlot - 1] = "nul"]
    BY <1>4 DEF RemoveItem
  <2> QED BY <1>1, <2>1 DEF Stack, BufferIsStack, Slots
<1> QED BY <1>2, <1>3, <1>4
        DEF Next, vars, data, producer, consumer, Ended, WaitEmpty, LockMutex,
            NothingToInsert, UnlockMutex, PostFull, WaitFull, NothingToRemove, PostEmpty,
            ExitProcess

\* A consumer finds an 'X' in the slot it empties, whatever threads came between.
THEOREM BufferStack == Spec => []BufferIsStack
<1>1. Init => Stack
  BY ProdConAssumption DEF Init, Stack, BufferIsStack, Slots, ProdConAssumption
<1>2. IInv /\ Stack /\ [Next]_vars => Stack'
  BY StackStep
<1>3. Stack => BufferIsStack
  BY DEF Stack
<1> QED BY <1>1, <1>2, <1>3, Invariance, PTL DEF Spec

\* Every step is a step of the bounded buffer or leaves it alone.
LEMMA StepRefines == IInv /\ [Next]_vars => [BB!Next]_(BB!vars)
<1> SUFFICES ASSUME IInv, [Next]_vars PROVE [BB!Next]_(BB!vars)
  OBVIOUS
<1>0. Counts /\ ExitOnlyWhenDone
  BY DEF IInv
<1>1. ASSUME NEW p \in Producers, InsertItem(p) PROVE BB!Next
  <2>1. currentSlot < BufferLen
    BY <1>1, RoomToInsert DEF InsertItem, Goto
  <2> QED BY <1>1, <2>1 DEF InsertItem, BB!Next, BB!Insert
<1>2. ASSUME NEW c \in Consumers, RemoveItem(c) PROVE BB!Next
  BY <1>2 DEF RemoveItem, BB!Next, BB!Remove
<1>3. ASSUME NEW c \in Consumers, ExitProcess(c) PROVE BB!Next
  BY <1>0, <1>3 DEF ExitProcess, ExitOnlyWhenDone, BB!Next, BB!End
<1>4. CASE UNCHANGED <<items, currentSlot, removed, exited>>
  BY <1>4 DEF BB!vars
<1>5. ASSUME NEW t, \/ LockMutex(t) \/ UnlockMutex(t) \/ WaitEmpty(t)
                    \/ NothingToInsert(t) \/ PostFull(t) \/ WaitFull(t)
                    \/ NothingToRemove(t) \/ PostEmpty(t)
      PROVE  UNCHANGED <<items, currentSlot, removed, exited>>
  BY <1>5 DEF LockMutex, UnlockMutex, WaitEmpty, NothingToInsert, PostFull,
     WaitFull, NothingToRemove, PostEmpty, data
<1> QED BY <1>1, <1>2, <1>3, <1>4, <1>5
        DEF Next, Ended, producer, consumer, vars

\* The semaphore program implements the bounded buffer.
THEOREM Refinement == Spec => ImplementsBoundedBuffer
<1>1. Init => BB!Init
  BY DEF Init, BB!Init
<1>2. IInv /\ [Next]_vars => [BB!Next]_(BB!vars)
  BY StepRefines
<1> QED BY <1>1, <1>2, Invariance, PTL
        DEF Spec, BB!Spec, ImplementsBoundedBuffer
=============================================================================
