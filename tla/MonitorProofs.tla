---------------------------- MODULE MonitorProofs ----------------------------
(***************************************************************************)
(* For every number of producers and consumers, every buffer length and    *)
(* every number of items: however the counters of PA3 problem 2 race, the  *)
(* mutex keeps mon_insert and mon_remove apart, and until a write leaves   *)
(* the buffer no item is lost or printed twice (Monitor.tla).              *)
(***************************************************************************)
EXTENDS Monitor, FiniteSetTheorems, TLAPS

Steps == {"wait", "wait_write", "suspended", "lock", "critical", "unlock",
          "signal", "signal_write", "wake", "done", "exit"}

Locked == {"critical", "unlock"}
Inside == {t \in Threads : pc[t] \in Locked}

\* The inductive invariant.
IInv == TypeOK /\ MutualExclusion /\ BufferIsStack

\* The steps of wait and signal, which race outside the mutex.
Racing(t) == ReadCount(t) \/ WaitWrite(t) \/ Suspended(t) \/ SignalWrite(t) \/ Wake(t)

-----------------------------------------------------------------------------
(* The threads inside the critical section                                 *)

LEMMA InsideFinite == IsFiniteSet(Inside) /\ Cardinality(Inside) \in Nat
<1>1. IsFiniteSet(Threads)
  BY FS_Union, MonitorAssumption DEF Threads, MonitorAssumption
<1>2. Inside \in SUBSET Threads
  BY DEF Inside
<1> QED BY <1>1, <1>2, FS_Subset, FS_CardinalityType

\* A thread that goes from one operation to another moves the count by what it
\* enters and leaves.
LEMMA InsideMove ==
  ASSUME pc \in [Threads -> Steps], NEW t \in Threads, NEW from, NEW to,
         Goto(t, from, to)
  PROVE  Cardinality(Inside') = Cardinality(Inside)
           + (IF to \in Locked THEN 1 ELSE 0) - (IF from \in Locked THEN 1 ELSE 0)
<1>1. pc[t] = from /\ pc'[t] = to /\ \A u \in Threads \ {t} : pc'[u] = pc[u]
  BY DEF Goto
<1>2. CASE from \notin Locked /\ to \in Locked
  <2>1. Inside' = Inside \cup {t} /\ t \notin Inside
    BY <1>1, <1>2 DEF Inside
  <2>2. Cardinality(Inside \cup {t}) = Cardinality(Inside) + 1
    BY <2>1, InsideFinite, FS_AddElement
  <2> QED BY <1>2, <2>1, <2>2, InsideFinite
<1>3. CASE from \in Locked /\ to \notin Locked
  <2>1. Inside' = Inside \ {t} /\ t \in Inside
    BY <1>1, <1>3 DEF Inside
  <2>2. Cardinality(Inside \ {t}) = Cardinality(Inside) - 1
    BY <2>1, InsideFinite, FS_RemoveElement
  <2> QED BY <1>3, <2>1, <2>2, InsideFinite
<1>4. CASE from \in Locked <=> to \in Locked
  <2>1. Inside' = Inside
    BY <1>1, <1>4 DEF Inside
  <2> QED BY <1>4, <2>1, InsideFinite
<1> QED BY <1>2, <1>3, <1>4

LEMMA StaysOutside ==
  ASSUME IInv, NEW t \in Threads, NEW from \in Steps, NEW to \in Steps,
         Goto(t, from, to), from \in Locked <=> to \in Locked, mutex' = mutex
  PROVE  MutualExclusion' /\ pc' \in [Threads -> Steps]
<1>1. pc \in [Threads -> Steps]
  BY DEF IInv, TypeOK, Steps
<1>2. Cardinality(Inside') = Cardinality(Inside)
  BY <1>1, InsideMove, InsideFinite
<1> QED BY <1>1, <1>2 DEF IInv, MutualExclusion, Inside, Locked, Goto

-----------------------------------------------------------------------------
(* Init and the steps                                                      *)

LEMMA Initially == Init => IInv
<1> SUFFICES ASSUME Init PROVE IInv
  OBVIOUS
<1>1. TypeOK
  <2>1. BufferLen \in Nat /\ Items \in Nat
    BY MonitorAssumption DEF MonitorAssumption
  <2>2. overflow \in BOOLEAN /\ exited \in BOOLEAN /\ leaving \in [Threads -> BOOLEAN]
    BY Zenon DEF Init
  <2>3. /\ count \in [{"empty", "full"} -> Int] /\ suspend \in [{"empty", "full"} -> Nat]
    BY <2>1 DEF Init
  <2> QED BY <2>1, <2>2, <2>3 DEF Init, TypeOK
<1>2. MutualExclusion
  <2>1. Inside = {}
    BY DEF Init, Inside, Locked
  <2>2. Cardinality({t \in Threads : pc[t] \in {"critical", "unlock"}}) = 0
    BY <2>1, FS_EmptySet DEF Inside, Locked
  <2> QED BY <2>2 DEF Init, MutualExclusion
<1>3. BufferIsStack
  BY DEF Init, BufferIsStack, Slots
<1> QED BY <1>1, <1>2, <1>3 DEF IInv

LEMMA RacingKeeps ==
  ASSUME IInv, NEW t \in Threads, Racing(t)
  PROVE  IInv' /\ UNCHANGED <<data, overflow, exited>>
<1>1. UNCHANGED <<mutex, data, leaving, overflow, exited>>
  BY DEF Racing, ReadCount, WaitWrite, Suspended, SignalWrite, Wake
<1>2. /\ pc \in [Threads -> Steps] /\ reg \in [Threads -> Int]
      /\ count \in [{"empty", "full"} -> Int] /\ suspend \in [{"empty", "full"} -> Nat]
      /\ Awaits(t) \in {"empty", "full"} /\ Signals(t) \in {"empty", "full"}
      /\ AfterSignal(t) \in {"wait", "done", "exit"}
  BY DEF IInv, TypeOK, Steps, Awaits, Signals, AfterSignal
<1>3. \E from \in Steps \ Locked, to \in Steps \ Locked : Goto(t, from, to)
  <2>1. CASE ReadCount(t)
    BY <2>1 DEF ReadCount, Steps, Locked
  <2>2. CASE WaitWrite(t)
    BY <2>2 DEF WaitWrite, Steps, Locked
  <2>3. CASE Suspended(t)
    BY <2>3 DEF Suspended, Steps, Locked
  <2>4. CASE SignalWrite(t)
    BY <1>2, <2>4 DEF SignalWrite, Steps, Locked
  <2>5. CASE Wake(t)
    BY <1>2, <2>5 DEF Wake, Steps, Locked
  <2> QED BY <2>1, <2>2, <2>3, <2>4, <2>5 DEF Racing
<1>4. MutualExclusion' /\ pc' \in [Threads -> Steps]
  BY <1>1, <1>3, StaysOutside
<1>5. /\ reg' \in [Threads -> Int] /\ count' \in [{"empty", "full"} -> Int]
      /\ suspend' \in [{"empty", "full"} -> Nat]
  <2>1. CASE ReadCount(t)
    BY <1>2, <2>1 DEF ReadCount
  <2>2. CASE WaitWrite(t)
    BY <1>2, <2>2 DEF WaitWrite
  <2>3. CASE Suspended(t)
    <3>1. suspend[Awaits(t)] - 1 \in Nat
      BY <1>2, <2>3 DEF Suspended
    <3> QED BY <1>2, <2>3, <3>1 DEF Suspended
  <2>4. CASE SignalWrite(t)
    BY <1>2, <2>4 DEF SignalWrite
  <2>5. CASE Wake(t)
    BY <1>2, <2>5 DEF Wake
  <2> QED BY <2>1, <2>2, <2>3, <2>4, <2>5 DEF Racing
<1>6. TypeOK'
  <2>1. /\ overflow' \in BOOLEAN /\ exited' \in BOOLEAN /\ leaving' \in [Threads -> BOOLEAN]
    BY <1>1 DEF IInv, TypeOK
  <2> QED BY <1>1, <1>4, <1>5, <2>1 DEF IInv, TypeOK, Steps, data
<1>7. BufferIsStack'
  BY <1>1 DEF IInv, BufferIsStack, data
<1> QED BY <1>1, <1>4, <1>6, <1>7 DEF IInv

LEMMA MutexKeeps ==
  ASSUME IInv, NEW t \in Threads, LockMutex(t) \/ UnlockMutex(t)
  PROVE  IInv' /\ UNCHANGED <<data, overflow, exited>>
<1>1. UNCHANGED <<count, suspend, data, reg, leaving, overflow, exited>>
      /\ pc \in [Threads -> Steps] /\ mutex \in 0..1
  BY DEF LockMutex, UnlockMutex, IInv, TypeOK, Steps
<1>2. mutex + Cardinality(Inside) = 1
  BY DEF IInv, MutualExclusion, Inside, Locked
<1>3. /\ mutex' \in 0..1 /\ mutex' + Cardinality(Inside') = 1
      /\ pc' \in [Threads -> Steps]
  <2>1. CASE LockMutex(t)
    <3>1. /\ Goto(t, "lock", "critical") /\ mutex > 0 /\ mutex' = mutex - 1
      BY <2>1 DEF LockMutex
    <3>2. Cardinality(Inside') = Cardinality(Inside) + 1
      BY <1>1, <3>1, InsideMove, InsideFinite DEF Locked
    <3>3. pc' \in [Threads -> Steps]
      BY <1>1, <3>1 DEF Goto, Steps
    <3> QED BY <1>1, <1>2, <3>1, <3>2, <3>3, InsideFinite
  <2>2. CASE UnlockMutex(t)
    <3>1. /\ Goto(t, "unlock", "signal") /\ mutex' = mutex + 1
      BY <2>2 DEF UnlockMutex
    <3>2. Cardinality(Inside') = Cardinality(Inside) - 1
      BY <1>1, <3>1, InsideMove, InsideFinite DEF Locked
    <3>3. pc' \in [Threads -> Steps]
      BY <1>1, <3>1 DEF Goto, Steps
    <3>4. Cardinality(Inside) # 0
      <4>1. t \in Inside
        BY <3>1 DEF Goto, Inside, Locked
      <4> QED BY <4>1, InsideFinite, FS_EmptySet
    <3> QED BY <1>1, <1>2, <3>1, <3>2, <3>3, <3>4, InsideFinite
  <2> QED BY <2>1, <2>2
<1>4. TypeOK'
  <2>1. /\ overflow' \in BOOLEAN /\ exited' \in BOOLEAN /\ leaving' \in [Threads -> BOOLEAN]
    BY <1>1 DEF IInv, TypeOK
  <2> QED BY <1>1, <1>3, <2>1 DEF IInv, TypeOK, Steps, data
<1>5. MutualExclusion' /\ BufferIsStack'
  BY <1>1, <1>3 DEF IInv, MutualExclusion, Inside, Locked, BufferIsStack, data
<1> QED BY <1>1, <1>4, <1>5 DEF IInv

\* The buffer after a step that goes from one operation inside to the next.
LEMMA InsideKeeps ==
  ASSUME IInv, NEW t \in Threads, Goto(t, "critical", "unlock"), UNCHANGED control,
         buffer' \in [Slots -> {"heap", "letter", "nul"}],
         currentSlot' \in 0..BufferLen, items' \in 0..Items, removed' \in Nat,
         leaving' \in [Threads -> BOOLEAN], overflow' = overflow, BufferIsStack'
  PROVE  IInv'
<1>1. MutualExclusion' /\ pc' \in [Threads -> Steps]
  BY StaysOutside DEF Steps, Locked, control
<1>2. overflow' \in BOOLEAN /\ exited' \in BOOLEAN
  BY DEF IInv, TypeOK, control
<1>3. TypeOK'
  BY <1>1, <1>2 DEF IInv, TypeOK, Steps, control
<1> QED BY <1>1, <1>3 DEF IInv

LEMMA ProducerKeeps ==
  ASSUME IInv, NEW p \in Producers, producer(p)
  PROVE  IInv'
<1>0. /\ p \in Threads /\ BufferLen \in Nat /\ Items \in Nat
      /\ buffer \in [Slots -> {"heap", "letter", "nul"}]
      /\ currentSlot \in 0..BufferLen /\ items \in 0..Items /\ removed \in Nat
      /\ leaving \in [Threads -> BOOLEAN]
  BY MonitorAssumption DEF MonitorAssumption, Threads, IInv, TypeOK
<1>1. CASE InsertItem(p)
  <2>1. /\ items > 0 /\ currentSlot \in Slots /\ Goto(p, "critical", "unlock")
        /\ buffer' = [buffer EXCEPT ![currentSlot] = "letter"]
        /\ currentSlot' = currentSlot + 1 /\ items' = items - 1
        /\ UNCHANGED <<control, removed, leaving, overflow>>
    BY <1>1 DEF InsertItem
  <2>2. /\ buffer' \in [Slots -> {"heap", "letter", "nul"}]
        /\ currentSlot' \in 0..BufferLen /\ items' \in 0..Items /\ removed' \in Nat
    BY <1>0, <2>1 DEF Slots
  <2>3. BufferIsStack'
    BY <1>0, <2>1 DEF IInv, BufferIsStack, Slots
  <2>4. leaving' \in [Threads -> BOOLEAN]
    BY <1>0, <2>1
  <2> QED BY <1>0, <2>1, <2>2, <2>3, <2>4, InsideKeeps
<1>2. CASE InsertPastEnd(p)
  <2>1. /\ overflow' = TRUE /\ UNCHANGED <<control, data, pc, leaving>>
    BY <1>2 DEF InsertPastEnd
  <2>2. overflow' \in BOOLEAN /\ exited' \in BOOLEAN /\ leaving' \in [Threads -> BOOLEAN]
    BY <2>1, Zenon DEF control, IInv, TypeOK
  <2> QED BY <2>1, <2>2 DEF IInv, TypeOK, MutualExclusion, BufferIsStack, control, data
<1>3. CASE NothingToInsert(p)
  <2>1. /\ Goto(p, "critical", "unlock") /\ leaving' = [leaving EXCEPT ![p] = TRUE]
        /\ UNCHANGED <<control, data, overflow>>
    BY <1>3 DEF NothingToInsert
  <2>2. leaving' \in [Threads -> BOOLEAN]
    BY <1>0, <2>1, Zenon
  <2>3. BufferIsStack'
    BY <2>1 DEF IInv, BufferIsStack, data
  <2> QED BY <1>0, <2>1, <2>2, <2>3, InsideKeeps DEF data
<1> QED BY <1>1, <1>2, <1>3 DEF producer

LEMMA ConsumerKeeps ==
  ASSUME IInv, NEW c \in Consumers, consumer(c)
  PROVE  IInv'
<1>0. /\ c \in Threads /\ BufferLen \in Nat
      /\ buffer \in [Slots -> {"heap", "letter", "nul"}]
      /\ currentSlot \in 0..BufferLen /\ items \in 0..Items /\ removed \in Nat
      /\ leaving \in [Threads -> BOOLEAN]
  BY MonitorAssumption DEF MonitorAssumption, Threads, IInv, TypeOK
<1>1. CASE RemoveItem(c)
  <2>1. /\ currentSlot > 0 /\ Goto(c, "critical", "unlock")
        /\ buffer' = [buffer EXCEPT ![currentSlot - 1] = "nul"]
        /\ currentSlot' = currentSlot - 1 /\ removed' = removed + 1
        /\ UNCHANGED <<control, items, leaving, overflow>>
    BY <1>1 DEF RemoveItem
  <2>2. /\ buffer' \in [Slots -> {"heap", "letter", "nul"}]
        /\ currentSlot' \in 0..BufferLen /\ items' \in 0..Items /\ removed' \in Nat
    BY <1>0, <2>1 DEF Slots
  <2>3. BufferIsStack'
    BY <1>0, <2>1 DEF IInv, BufferIsStack, Slots
  <2>4. leaving' \in [Threads -> BOOLEAN]
    BY <1>0, <2>1
  <2> QED BY <1>0, <2>1, <2>2, <2>3, <2>4, InsideKeeps
<1>2. CASE NothingToRemove(c)
  <2>1. /\ Goto(c, "critical", "unlock") /\ leaving' = [leaving EXCEPT ![c] = TRUE]
        /\ UNCHANGED <<control, data, overflow>>
    BY <1>2 DEF NothingToRemove
  <2>2. leaving' \in [Threads -> BOOLEAN]
    BY <1>0, <2>1, Zenon
  <2>3. BufferIsStack'
    BY <2>1 DEF IInv, BufferIsStack, data
  <2> QED BY <1>0, <2>1, <2>2, <2>3, InsideKeeps DEF data
<1>3. CASE ExitProcess(c)
  <2>1. /\ exited' = TRUE
        /\ UNCHANGED <<mutex, count, suspend, reg, data, pc, leaving, overflow>>
    BY <1>3 DEF ExitProcess
  <2>2. overflow' \in BOOLEAN /\ exited' \in BOOLEAN /\ leaving' \in [Threads -> BOOLEAN]
    BY <2>1, Zenon DEF IInv, TypeOK
  <2> QED BY <2>1, <2>2 DEF IInv, TypeOK, MutualExclusion, BufferIsStack, data
<1> QED BY <1>1, <1>2, <1>3 DEF consumer

LEMMA StillKeeps == ASSUME IInv, UNCHANGED vars PROVE IInv'
<1> USE DEF IInv, vars, data
<1>1. overflow' \in BOOLEAN /\ exited' \in BOOLEAN /\ leaving' \in [Threads -> BOOLEAN]
  BY DEF TypeOK
<1> QED BY <1>1 DEF TypeOK, MutualExclusion, BufferIsStack

-----------------------------------------------------------------------------
(* The program                                                             *)

\* IInv is inductive: it holds of every state the program reaches.
THEOREM Invariance == Spec => []IInv
<1>1. IInv /\ [Next]_vars => IInv'
  BY RacingKeeps, MutexKeeps, ProducerKeeps, ConsumerKeeps, StillKeeps DEF Next, Racing
<1> QED BY <1>1, Initially, PTL DEF Spec

\* Every variable keeps its type; in particular currentSlot stays within the buffer.
THEOREM TypeCorrect == Spec => []TypeOK
BY Invariance, PTL DEF IInv

\* mon_insert and mon_remove never overlap, however many threads the racing
\* counters let through wait.
THEOREM CriticalSectionsExclusive == Spec => []MutualExclusion
BY Invariance, PTL DEF IInv

\* A consumer prints a letter a producer put there and nobody printed before.
THEOREM BufferStack == Spec => []BufferIsStack
BY Invariance, PTL DEF IInv

LEMMA StepRefines == IInv /\ [Next]_vars => [BB!Next]_(BB!vars)
<1> SUFFICES ASSUME IInv, [Next]_vars PROVE [BB!Next]_(BB!vars)
  OBVIOUS
<1>0. currentSlot \in 0..BufferLen /\ BufferLen \in Nat
  BY MonitorAssumption DEF MonitorAssumption, IInv, TypeOK
<1>1. CASE UNCHANGED <<currentSlot, items, removed>>
  BY <1>1 DEF BB!vars
<1>2. ASSUME NEW p \in Producers, InsertItem(p) PROVE BB!Next
  BY <1>0, <1>2 DEF InsertItem, Slots, BB!Next, BB!Insert
<1>3. ASSUME NEW c \in Consumers, RemoveItem(c) PROVE BB!Next
  BY <1>3 DEF RemoveItem, BB!Next, BB!Remove
<1> QED BY <1>1, <1>2, <1>3, RacingKeeps, MutexKeeps
        DEF Next, Racing, vars, data, producer, consumer, InsertPastEnd, NothingToInsert,
            NothingToRemove, ExitProcess

\* Items only move from the producers to the buffer and from there to the
\* consumers, one at a time: the monitor keeps them as a bounded buffer does.
THEOREM Refinement == Spec => KeepsItems
<1>1. Init => BB!Init
  BY DEF Init, BB!Init
<1> QED BY <1>1, StepRefines, Invariance, PTL DEF Spec, BB!Spec, KeepsItems
=============================================================================
