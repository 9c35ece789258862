------------------------- MODULE VirtualMemoryProofs -------------------------
(***************************************************************************)
(* For any address space, any number of frames and TLB slots and any file  *)
(* of addresses, the simulators of PA5 index no array out of its bounds,   *)
(* keep the page table sound and use the TLB as a FIFO queue.  Unless a TLB *)
(* entry may be stale, they read the page they are asked for, keep the most *)
(* recently used pages in memory and count the faults textbook LRU counts   *)
(* (VirtualMemory.tla).                                                     *)
(***************************************************************************)
EXTENDS VirtualMemory, FiniteSetTheorems, SequenceTheorems, WellFoundedInduction, TLAPS

Range0 == 0..FrameCount - 1

\* A page in the TLB has a frame, and a slot is used before the index wraps.
TLBFilled == \A k \in Slots : page_TLB[k] # NoPage => frame_TLB[k] # NOT_FOUND

\* Part 1 fills its frames in order, one for each page, and its TLB agrees with
\* its page table, which never takes a page back.
Part1InOrder ==
  strategy = "part1" =>
    /\ free_frame = Cardinality(Resident)
    /\ \A p \in Resident : page_table[p] < free_frame
    /\ \A k \in Slots : page_TLB[k] # NoPage => page_table[page_TLB[k]] = frame_TLB[k]

\* The two counters of the LRU program agree until memory is full.
LruInOrder == strategy = "lru" /\ free_page < Frames => free_frame = free_page

\* The inductive invariant.
IInv == TypeOK /\ PageTableSound /\ TLBFilled /\ Part1InOrder /\ LruInOrder

\* The pages used from the k-th address on, and those the TLB holds.
Since(k) == {trace[j] : j \in k..Len(trace)}
Cached   == {page_TLB[k] : k \in Slots}

\* How many entries update_TLB has made since the one in slot k.
Age(k) == IF k < TLB_entries THEN TLB_entries - 1 - k
                             ELSE TLB_entries - 1 - k + TableSize

\* The frames that have been filled hold resident pages, and before memory is
\* full every page used is resident.
FramesInUse ==
  /\ \A f \in 0..Frames - 1 : f < free_page =>
       memory[f] \in Resident /\ page_table[memory[f]] = f
  /\ free_page < Frames =>
       /\ \A p \in Resident : page_table[p] < free_page
       /\ \A j \in DOMAIN trace : trace[j] \in Resident

\* The timer of a resident page's frame is the number of the last address in the
\* page, and no page used since then has left memory.
Stamped(p) ==
  LET last == timer[page_table[p]]
  IN  /\ last \in 1..Len(trace) /\ trace[last] = p
      /\ \A j \in last + 1..Len(trace) : trace[j] # p /\ trace[j] \in Resident

\* The TLB entry of slot k is the page table's, and the pages used since its
\* page was last used are in the TLB but for the few that have left it since.
SlotFresh(k) ==
  /\ page_table[page_TLB[k]] = frame_TLB[k]
  /\ Cardinality(Since(timer[frame_TLB[k]]) \ Cached) <= Age(k)

\* The invariant of LRU replacement, while NeverStale holds.
LruParts ==
  /\ FramesInUse
  /\ \A p \in Resident : Stamped(p)
  /\ \A k \in Slots : page_TLB[k] # NoPage => SlotFresh(k)

LruExact == strategy = "lru" /\ NeverStale => LruParts

\* Part 1 keeps every page it has read.
KeepsAll == strategy = "part1" => Resident = ToSet(trace)

\* The slots hold the queue: from slot 0 until they are all used, then from the
\* slot update_TLB takes next.
Oldest == IF TLB_entries = TableSize THEN 0 ELSE TLB_entries
SlotOf(j) == IF Oldest + j - 1 < TableSize THEN Oldest + j - 1
                                           ELSE Oldest + j - 1 - TableSize

SlotsHoldQueue ==
  LET q == TLBQueue(trace)
  IN  /\ q \in Seq(Pages) /\ Len(q) <= TableSize
      /\ Len(q) < TableSize =>
           /\ TLB_entries = Len(q)
           /\ \A k \in Slots : page_TLB[k] = IF k < Len(q) THEN q[k + 1] ELSE NoPage
      /\ Len(q) = TableSize => \A j \in 1..TableSize : page_TLB[SlotOf(j)] = q[j]

-----------------------------------------------------------------------------
(* Least elements                                                          *)

LEMMA LeastNatural ==
  ASSUME NEW S, S \subseteq Nat, S # {}
  PROVE  \E m \in S : \A n \in S : m <= n
<1>1. PICK m \in S : \A n \in S : ~ (<<n, m>> \in OpToRel(<, Nat))
  BY NatLessThanWellFounded, WFMin
<1>2. \A n \in S : m \in Nat /\ n \in Nat /\ ~ (n < m)
  BY <1>1 DEF OpToRel
<1>3. \A n \in S : m <= n
  BY <1>2
<1> QED BY <1>3

\* get_frame_TLB finds the slot of a page the TLB holds.
LEMMA FoundInTLB ==
  ASSUME NEW p, InTLB(p)
  PROVE  \E k \in Slots : page_TLB[k] = p /\ get_frame_TLB(p) = frame_TLB[k]
<1> DEFINE S == {k \in Slots : page_TLB[k] = p}
<1>1. S \subseteq Nat /\ S # {}
  BY DEF InTLB, Slots
<1>2. PICK k \in S : \A l \in S : k <= l
  BY <1>1, LeastNatural
<1>3. \E j \in Slots : page_TLB[j] = p /\ \A l \in Slots : page_TLB[l] = p => j <= l
  BY <1>2
<1> QED BY <1>3 DEF get_frame_TLB

\* Of the frames with the least timer, the first.
LEMMA FirstLeast ==
  ASSUME NEW S, S \subseteq Nat, S # {}, NEW t, \A f \in S : t[f] \in Nat
  PROVE  \E f \in S : \A g \in S : t[f] < t[g] \/ (t[f] = t[g] /\ f <= g)
<1> DEFINE times == {t[f] : f \in S}
<1>1. times \subseteq Nat /\ times # {}
  OBVIOUS
<1>2. PICK m \in times : \A n \in times : m <= n
  BY <1>1, LeastNatural
<1> DEFINE first == {f \in S : t[f] = m}
<1>3. first \subseteq Nat /\ first # {}
  BY <1>2
<1>4. PICK f \in first : \A g \in first : f <= g
  <2> HIDE DEF first
  <2> QED BY <1>3, LeastNatural
<1>5. ASSUME NEW g \in S PROVE t[f] < t[g] \/ (t[f] = t[g] /\ f <= g)
  <2>1. t[f] = m /\ m <= t[g] /\ t[f] \in Nat /\ t[g] \in Nat
    BY <1>2, <1>4
  <2>2. t[g] = m \/ m < t[g]
    BY <2>1
  <2> QED BY <1>4, <2>1, <2>2
<1> QED BY <1>4, <1>5

\* handleLRU returns a frame, whatever the timers are.
LEMMA VictimIsFrame ==
  ASSUME TypeOK, strategy = "lru"
  PROVE  handleLRU \in Range0
<1> DEFINE old == {f \in DOMAIN timer : timer[f] < Minimum}
<1>1. DOMAIN timer = 0..Frames - 1 /\ Range0 = 0..Frames - 1 /\ 0 \in Range0
      /\ \A f \in DOMAIN timer : timer[f] \in Nat
  BY VirtualMemoryAssumption DEF TypeOK, FrameCount, Range0, VirtualMemoryAssumption
<1>2. CASE old = {}
  BY <1>1, <1>2 DEF handleLRU
<1>3. CASE old # {}
  <2>1. old \subseteq Nat /\ \A f \in old : timer[f] \in Nat
    BY <1>1
  <2> HIDE DEF old
  <2>2. \E f \in old : \A g \in old : timer[f] < timer[g] \/ (timer[f] = timer[g] /\ f <= g)
    BY <1>3, <2>1, FirstLeast
  <2>3. handleLRU \in old
    BY <1>3, <2>2 DEF handleLRU, old
  <2> QED BY <1>1, <2>3 DEF old
<1> QED BY <1>2, <1>3

-----------------------------------------------------------------------------
(* The initial states                                                      *)

LEMMA CountIsNat == FrameCount \in Nat /\ Cardinality(Pages) \in Nat
BY FS_CardinalityType, VirtualMemoryAssumption DEF FrameCount, VirtualMemoryAssumption

LEMMA Initially == Init => IInv
<1> SUFFICES ASSUME Init PROVE IInv
  OBVIOUS
<1>1. Resident = {} /\ Cardinality(Resident) = 0
  BY FS_EmptySet DEF Init, Resident
<1>2. TypeOK
  <2>1. 0 \in 0..FrameCount /\ 0 \in 0..TableSize
    BY CountIsNat, VirtualMemoryAssumption DEF VirtualMemoryAssumption
  <2> QED BY <2>1 DEF Init, TypeOK
<1>3. PageTableSound /\ TLBFilled /\ LruInOrder
  BY <1>1 DEF Init, PageTableSound, TLBFilled, LruInOrder
<1>4. Part1InOrder
  BY <1>1 DEF Init, Part1InOrder
<1> QED BY <1>2, <1>3, <1>4 DEF IInv

-----------------------------------------------------------------------------
(* What one access does                                                    *)

\* The TLB after update_TLB: its old entries but one, and the new one.
LEMMA UpdateKeeps ==
  ASSUME TypeOK, NEW p \in Pages, NEW f \in Range0, update_TLB(p, f)
  PROVE  /\ page_TLB' \in [Slots -> Pages \cup {NoPage}]
         /\ frame_TLB' \in [Slots -> Range0 \cup {NOT_FOUND}]
         /\ TLB_entries' \in 0..TableSize
         /\ \A k \in Slots : \/ page_TLB'[k] = p /\ frame_TLB'[k] = f
                             \/ page_TLB'[k] = page_TLB[k] /\ frame_TLB'[k] = frame_TLB[k]
<1> DEFINE slot == IF TLB_entries >= TableSize THEN 0 ELSE TLB_entries
<1>1. slot \in Slots /\ slot + 1 \in 0..TableSize
  BY VirtualMemoryAssumption DEF TypeOK, Slots, VirtualMemoryAssumption
<1>2. /\ page_TLB' = [page_TLB EXCEPT ![slot] = p]
      /\ frame_TLB' = [frame_TLB EXCEPT ![slot] = f]
      /\ TLB_entries' = slot + 1
  BY DEF update_TLB
<1> HIDE DEF slot
<1> QED BY <1>1, <1>2 DEF TypeOK, Range0

\* Where a page is loaded lies within memory: the next frame while there are free
\* ones, the first again, or the victim; part 1 never runs out of frames.
LEMMA LoadIs ==
  ASSUME IInv, NEW p \in Pages, page_table[p] = NOT_FOUND,
         LoadIntoNew(p) \/ ReplaceFifo(p) \/ ReplaceLru(p)
  PROVE  \E f \in Range0 :
           /\ LoadPage(p, f)
           /\ IF strategy = "part1"
              THEN f = free_frame /\ page_table' = [page_table EXCEPT ![p] = f]
                   /\ UNCHANGED free_page
              ELSE page_table' = [Swept(f) EXCEPT ![p] = f] /\ free_page' = free_page + 1
           /\ strategy = "lru" /\ free_page < Frames => f = free_frame
<1>1. TypeOK /\ free_frame \in Nat /\ free_page \in Nat /\ FrameCount \in Nat
  BY CountIsNat DEF IInv, TypeOK
<1>2. CASE LoadIntoNew(p)
  <2>1. strategy = "part1" /\ FrameCount = Cardinality(Pages)
    BY <1>2 DEF LoadIntoNew, FrameCount
  <2>2. Resident \in SUBSET Pages /\ Resident # Pages
    BY DEF Resident
  <2>3. Cardinality(Resident) <= Cardinality(Pages)
        /\ Cardinality(Resident) # Cardinality(Pages)
    BY <2>2, FS_Subset, VirtualMemoryAssumption DEF VirtualMemoryAssumption
  <2>4. free_frame \in Range0
    BY <1>1, <2>1, <2>3 DEF IInv, Part1InOrder, Range0
  <2> QED BY <1>2, <2>1, <2>4 DEF LoadIntoNew
<1>3. CASE ReplaceFifo(p)
  <2>1. strategy = "fifo" /\ FrameCount = Frames
    BY <1>3 DEF ReplaceFifo, FrameCount
  <2>2. (IF free_frame >= Frames THEN 0 ELSE free_frame) \in Range0
    BY <1>1, <2>1, VirtualMemoryAssumption DEF Range0, VirtualMemoryAssumption
  <2> QED BY <1>3, <2>1, <2>2 DEF ReplaceFifo, Replace
<1>4. CASE ReplaceLru(p)
  <2>1. strategy = "lru" /\ FrameCount = Frames
    BY <1>4 DEF ReplaceLru, FrameCount
  <2>2. handleLRU \in Range0
    BY <1>1, <2>1, VictimIsFrame
  <2>3. free_page < Frames => free_frame \in Range0
    BY <1>1, <2>1, VirtualMemoryAssumption
       DEF IInv, LruInOrder, Range0, VirtualMemoryAssumption
  <2> DEFINE f == IF free_page >= Frames THEN handleLRU ELSE free_frame
  <2>4. Replace(p, f)
    BY <1>4 DEF ReplaceLru
  <2>5. Frames \in Nat
    BY VirtualMemoryAssumption DEF VirtualMemoryAssumption
  <2>6. f \in Range0 /\ (free_page < Frames => f = free_frame)
    BY <1>1, <2>2, <2>3, <2>5
  <2> HIDE DEF f
  <2> QED BY <2>1, <2>4, <2>6 DEF Replace
<1> QED BY <1>2, <1>3, <1>4

\* Replacing frame f by page p leaves the other pages where they are.
LEMMA LoadKeepsTable ==
  ASSUME IInv, NEW p \in Pages, NEW f \in Range0, page_table[p] = NOT_FOUND,
         memory' = [memory EXCEPT ![f] = p],
         IF strategy = "part1"
         THEN f = free_frame /\ page_table' = [page_table EXCEPT ![p] = f]
         ELSE page_table' = [Swept(f) EXCEPT ![p] = f]
  PROVE  /\ page_table' \in [Pages -> Range0 \cup {NOT_FOUND}]
         /\ memory' \in [Range0 -> Pages \cup {NoPage}]
         /\ page_table'[p] = f /\ memory'[f] = p
         /\ PageTableSound'
<1>1. /\ page_table \in [Pages -> Range0 \cup {NOT_FOUND}]
      /\ memory \in [Range0 -> Pages \cup {NoPage}]
  BY DEF IInv, TypeOK, Range0
<1>2. Swept(f) \in [Pages -> Range0 \cup {NOT_FOUND}]
  BY <1>1 DEF Swept
<1>3. /\ page_table' \in [Pages -> Range0 \cup {NOT_FOUND}]
      /\ memory' \in [Range0 -> Pages \cup {NoPage}]
      /\ page_table'[p] = f /\ memory'[f] = p
  BY <1>1, <1>2
<1>4. NOT_FOUND \notin Range0
  BY CountIsNat DEF Range0, NOT_FOUND
<1>5. ASSUME NEW q \in Pages, q # p, page_table'[q] # NOT_FOUND
      PROVE  page_table'[q] = page_table[q] /\ page_table[q] # f
  <2>1. CASE strategy = "part1"
    <3>1. page_table'[q] = page_table[q] /\ f = free_frame
      BY <1>1, <1>5, <2>1
    <3>2. q \in Resident /\ page_table[q] \in Range0 /\ page_table[q] < free_frame
      BY <1>1, <1>5, <2>1, <3>1 DEF IInv, Part1InOrder, Resident
    <3>3. page_table[q] \in Nat
      BY <3>2, CountIsNat DEF Range0
    <3>4. free_frame \in Nat
      BY CountIsNat DEF IInv, TypeOK
    <3> QED BY <3>1, <3>2, <3>3, <3>4
  <2>2. CASE strategy # "part1"
    BY <1>1, <1>2, <1>5, <2>2 DEF Swept
  <2> QED BY <2>1, <2>2
<1>6. PageTableSound'
  <2> SUFFICES ASSUME NEW q \in Pages, page_table'[q] # NOT_FOUND
               PROVE  memory'[page_table'[q]] = q
    BY DEF PageTableSound, Resident
  <2>1. CASE q = p
    BY <1>3, <2>1
  <2>2. CASE q # p
    <3>1. page_table'[q] = page_table[q] /\ page_table[q] # f
          /\ page_table[q] \in Range0
      BY <1>1, <1>5, <2>2
    <3>2. memory[page_table[q]] = q
      BY <3>1 DEF IInv, PageTableSound, Resident
    <3> QED BY <1>1, <3>1, <3>2
  <2> QED BY <2>1, <2>2
<1> QED BY <1>3, <1>6

-----------------------------------------------------------------------------
(* The three ways an address is translated                                 *)

\* What translating an address of page p leaves behind.
Translated(p) ==
  /\ page_TLB' \in [Slots -> Pages \cup {NoPage}]
  /\ frame_TLB' \in [Slots -> Range0 \cup {NOT_FOUND}]
  /\ TLB_entries' \in 0..TableSize /\ TLB_hits' \in Nat
  /\ page_table' \in [Pages -> Range0 \cup {NOT_FOUND}]
  /\ memory' \in [Range0 -> Pages \cup {NoPage}]
  /\ free_frame' \in 0..FrameCount /\ free_page' \in Nat /\ page_faults' \in Nat
  /\ frame_num' \in Range0
  /\ PageTableSound' /\ TLBFilled' /\ Part1InOrder' /\ LruInOrder'

LEMMA TLBHitKeeps ==
  ASSUME IInv, NEW p \in Pages, TLBHit(p), strategy' = strategy
  PROVE  Translated(p)
<1>1. PICK k \in Slots : page_TLB[k] = p /\ frame_num' = frame_TLB[k]
  BY FoundInTLB DEF TLBHit
<1>2. UNCHANGED <<tlbVars, tableVars, strategy>> /\ TLB_hits' = TLB_hits + 1
  BY DEF TLBHit
<1>3. p # NoPage
  BY VirtualMemoryAssumption DEF VirtualMemoryAssumption
<1>4. frame_num' \in Range0
  BY <1>1, <1>3 DEF IInv, TypeOK, TLBFilled, Range0
<1>6. PageTableSound' /\ TLBFilled' /\ Part1InOrder' /\ LruInOrder'
  BY <1>2 DEF IInv, PageTableSound, TLBFilled, Part1InOrder, LruInOrder, Resident,
     tlbVars, tableVars
<1> QED BY <1>2, <1>4, <1>6 DEF IInv, TypeOK, Translated, tlbVars, tableVars, Range0

LEMMA PageTableHitKeeps ==
  ASSUME IInv, NEW p \in Pages, PageTableHit(p), strategy' = strategy
  PROVE  Translated(p)
<1> DEFINE f == page_table[p]
<1>1. /\ f # NOT_FOUND /\ frame_num' = f /\ update_TLB(p, f)
      /\ UNCHANGED <<TLB_hits, tableVars>>
  BY DEF PageTableHit
<1>2. f \in Range0 /\ p \in Resident
  BY <1>1 DEF IInv, TypeOK, Range0, Resident
<1>3. /\ page_TLB' \in [Slots -> Pages \cup {NoPage}]
      /\ frame_TLB' \in [Slots -> Range0 \cup {NOT_FOUND}]
      /\ TLB_entries' \in 0..TableSize
      /\ \A k \in Slots : \/ page_TLB'[k] = p /\ frame_TLB'[k] = f
                          \/ page_TLB'[k] = page_TLB[k] /\ frame_TLB'[k] = frame_TLB[k]
  BY <1>1, <1>2, UpdateKeeps DEF IInv
<1>4. PageTableSound' /\ LruInOrder'
  BY <1>1 DEF IInv, PageTableSound, LruInOrder, Resident, tableVars
<1>5. TLBFilled'
  BY <1>1, <1>3 DEF IInv, TLBFilled
<1>6. Part1InOrder'
  <2>1. Resident' = Resident /\ page_table' = page_table /\ free_frame' = free_frame
    BY <1>1 DEF Resident, tableVars
  <2> QED BY <1>3, <2>1 DEF IInv, Part1InOrder
<1>8. /\ TLB_hits' \in Nat /\ free_page' \in Nat /\ page_faults' \in Nat
      /\ free_frame' \in 0..FrameCount
      /\ page_table' \in [Pages -> Range0 \cup {NOT_FOUND}]
      /\ memory' \in [Range0 -> Pages \cup {NoPage}]
  BY <1>1 DEF IInv, TypeOK, tableVars, Range0
<1> QED BY <1>1, <1>2, <1>3, <1>4, <1>5, <1>6, <1>8 DEF Translated

LEMMA PageFaultKeeps ==
  ASSUME IInv, NEW p \in Pages, PageFault(p), strategy' = strategy
  PROVE  Translated(p)
<1>1. /\ ~InTLB(p) /\ page_table[p] = NOT_FOUND
      /\ update_TLB(p, frame_num') /\ UNCHANGED TLB_hits
  BY DEF PageFault
<1>2. PICK f \in Range0 :
        /\ LoadPage(p, f)
        /\ IF strategy = "part1"
           THEN f = free_frame /\ page_table' = [page_table EXCEPT ![p] = f]
                /\ UNCHANGED free_page
           ELSE page_table' = [Swept(f) EXCEPT ![p] = f] /\ free_page' = free_page + 1
        /\ strategy = "lru" /\ free_page < Frames => f = free_frame
  BY <1>1, LoadIs DEF PageFault
<1>3. /\ memory' = [memory EXCEPT ![f] = p] /\ free_frame' = f + 1
      /\ page_faults' = page_faults + 1 /\ frame_num' = f
  BY <1>2 DEF LoadPage
<1>4. /\ page_table' \in [Pages -> Range0 \cup {NOT_FOUND}]
      /\ memory' \in [Range0 -> Pages \cup {NoPage}]
      /\ page_table'[p] = f /\ memory'[f] = p /\ PageTableSound'
  BY <1>1, <1>2, <1>3, LoadKeepsTable
<1>5. /\ page_TLB' \in [Slots -> Pages \cup {NoPage}]
      /\ frame_TLB' \in [Slots -> Range0 \cup {NOT_FOUND}]
      /\ TLB_entries' \in 0..TableSize
      /\ \A k \in Slots : \/ page_TLB'[k] = p /\ frame_TLB'[k] = f
                          \/ page_TLB'[k] = page_TLB[k] /\ frame_TLB'[k] = frame_TLB[k]
  BY <1>1, <1>3, UpdateKeeps DEF IInv
<1>6. f # NOT_FOUND /\ f \in Nat /\ f + 1 \in 0..FrameCount
  BY CountIsNat DEF Range0, NOT_FOUND
<1>7. TLBFilled'
  BY <1>5, <1>6 DEF IInv, TLBFilled
<1>8. TLB_hits' \in Nat /\ free_page \in Nat /\ free_page' \in Nat /\ page_faults' \in Nat
  BY <1>1, <1>2, <1>3 DEF IInv, TypeOK
<1>9. LruInOrder'
  <2> SUFFICES ASSUME strategy = "lru", free_page' < Frames PROVE free_frame' = free_page'
    BY DEF LruInOrder
  <2>1. Frames \in Nat /\ free_page' = free_page + 1
    BY <1>2, VirtualMemoryAssumption DEF VirtualMemoryAssumption
  <2>2. free_page < Frames
    BY <1>8, <2>1
  <2> QED BY <1>2, <1>3, <2>1, <2>2 DEF IInv, LruInOrder
<1>10. Part1InOrder'
  <2> SUFFICES ASSUME strategy = "part1"
               PROVE  /\ free_frame' = Cardinality(Resident')
                      /\ \A q \in Resident' : page_table'[q] < free_frame'
                      /\ \A k \in Slots : page_TLB'[k] # NoPage =>
                           page_table'[page_TLB'[k]] = frame_TLB'[k]
    BY DEF Part1InOrder
  <2>1. /\ free_frame = f /\ page_table' = [page_table EXCEPT ![p] = f]
        /\ page_table \in [Pages -> Range0 \cup {NOT_FOUND}]
    BY <1>2 DEF IInv, TypeOK, Range0
  <2>2. Resident' = Resident \cup {p} /\ p \notin Resident
    BY <1>1, <1>6, <2>1 DEF Resident
  <2>3. free_frame' = Cardinality(Resident')
    <3>1. IsFiniteSet(Resident)
      BY FS_Subset, VirtualMemoryAssumption DEF Resident, VirtualMemoryAssumption
    <3> QED BY <1>3, <2>1, <2>2, <3>1, FS_AddElement DEF IInv, Part1InOrder
  <2>4. ASSUME NEW q \in Resident' PROVE page_table'[q] < free_frame'
    <3>1. CASE q = p
      BY <1>3, <1>4, <1>6, <3>1
    <3>2. CASE q # p
      <4>1. q \in Resident /\ page_table'[q] = page_table[q] /\ page_table[q] < f
        BY <2>1, <2>2, <3>2 DEF IInv, Part1InOrder, Resident
      <4>2. page_table[q] \in Nat
        BY <2>1, <4>1, CountIsNat DEF Resident, Range0
      <4> QED BY <1>3, <1>6, <4>1, <4>2
    <3> QED BY <3>1, <3>2
  <2>5. ASSUME NEW k \in Slots, page_TLB'[k] # NoPage
        PROVE  page_table'[page_TLB'[k]] = frame_TLB'[k]
    <3>1. CASE page_TLB'[k] = p /\ frame_TLB'[k] = f
      BY <1>4, <3>1
    <3>2. CASE page_TLB'[k] = page_TLB[k] /\ frame_TLB'[k] = frame_TLB[k]
      <4>1. page_TLB[k] # p /\ page_TLB[k] \in Pages
        BY <1>1, <2>5, <3>2 DEF InTLB, IInv, TypeOK
      <4>2. page_table[page_TLB[k]] = frame_TLB[k]
        BY <2>5, <3>2 DEF IInv, Part1InOrder
      <4> QED BY <2>1, <3>2, <4>1, <4>2
    <3> QED BY <1>5, <3>1, <3>2
  <2> QED BY <2>3, <2>4, <2>5
<1> QED BY <1>3, <1>4, <1>5, <1>6, <1>7, <1>8, <1>9, <1>10 DEF Translated

-----------------------------------------------------------------------------
(* The programs                                                            *)

LEMMA AccessKeeps ==
  ASSUME IInv, NEW p \in Pages, Access(p)
  PROVE  IInv'
<1>1. /\ strategy' = strategy /\ trace' = Append(trace, p)
      /\ value' = memory'[frame_num'] /\ Touch(frame_num')
  BY DEF Access
<1>2. Translated(p)
  BY <1>1, TLBHitKeeps, PageTableHitKeeps, PageFaultKeeps DEF Access
<1>3. FrameCount' = FrameCount /\ strategy \in Strategies
  BY <1>1 DEF FrameCount, IInv, TypeOK
<1>4. trace \in Seq(Pages) /\ trace' \in Seq(Pages) /\ Len(trace) + 1 \in Nat
  BY <1>1 DEF IInv, TypeOK
<1>5. timer' \in [Range0 -> Nat]
  BY <1>1, <1>2, <1>4 DEF Translated, Touch, IInv, TypeOK, Range0
<1>6. value' \in Pages \cup {NoPage}
  BY <1>1, <1>2 DEF Translated
<1>7. TypeOK'
  BY <1>1, <1>2, <1>3, <1>4, <1>5, <1>6 DEF TypeOK, Translated, Range0
<1> QED BY <1>2, <1>7 DEF Translated, IInv

LEMMA StillKeeps == ASSUME IInv, UNCHANGED vars PROVE IInv'
<1> USE DEF IInv, vars, tlbVars, tableVars
<1>1. TypeOK'
  BY DEF TypeOK, FrameCount
<1> QED BY <1>1 DEF PageTableSound, TLBFilled, Part1InOrder, LruInOrder, Resident

\* IInv is inductive: it holds of every state the programs reach.
THEOREM Invariance == Spec => []IInv
<1>1. IInv /\ [Next]_vars => IInv'
  BY AccessKeeps, StillKeeps DEF Next
<1> QED BY <1>1, Initially, PTL DEF Spec

\* Every index lies within its array, and every variable has its type.
THEOREM TypeCorrect == Spec => []TypeOK
BY Invariance, PTL DEF IInv

\* The page table never points to a frame that holds another page.
THEOREM TableSound == Spec => []PageTableSound
BY Invariance, PTL DEF IInv

-----------------------------------------------------------------------------
(* LRU replacement: counting pages                                         *)

\* A set with at most one element more is at most one larger.
LEMMA CountWithOne ==
  ASSUME NEW A, IsFiniteSet(A), NEW x, NEW B, B \subseteq A \cup {x},
         NEW n \in Int, Cardinality(A) <= n
  PROVE  IsFiniteSet(B) /\ Cardinality(B) <= n + 1
<1>1. Cardinality(A) \in Nat
  BY FS_CardinalityType
<1>2. /\ IsFiniteSet(A \cup {x})
      /\ Cardinality(A \cup {x}) = IF x \in A THEN Cardinality(A) ELSE Cardinality(A) + 1
  BY FS_AddElement
<1>3. IsFiniteSet(B) /\ Cardinality(B) <= Cardinality(A \cup {x})
  BY <1>2, FS_Subset
<1>4. Cardinality(B) \in Nat
  BY <1>3, FS_CardinalityType
<1> QED BY <1>1, <1>2, <1>3, <1>4

\* A suffix of the trace is a set of pages.
LEMMA SinceIsPages ==
  ASSUME TypeOK, NEW k \in 1..Len(trace)
  PROVE  /\ Since(k) \subseteq Pages /\ IsFiniteSet(Since(k))
         /\ Cardinality(Since(k)) \in Nat
<1>1. Since(k) \subseteq Pages
  BY DEF Since, TypeOK
<1> QED BY <1>1, FS_Subset, FS_CardinalityType, VirtualMemoryAssumption
     DEF VirtualMemoryAssumption

\* The TLB holds at most TableSize pages.
LEMMA CachedIsSmall ==
  ASSUME TypeOK
  PROVE  IsFiniteSet(Cached) /\ Cardinality(Cached) <= TableSize
<1>1. TableSize \in Nat /\ IsFiniteSet(Slots) /\ Cardinality(Slots) = TableSize
  BY FS_Interval, VirtualMemoryAssumption DEF Slots, VirtualMemoryAssumption
<1>2. page_TLB \in [Slots -> Pages \cup {NoPage}]
  BY DEF TypeOK
<1>3. page_TLB \in Surjection(Slots, Cached)
  BY <1>2 DEF Surjection, Cached
<1> QED BY <1>1, <1>3, FS_Surjection

\* When memory is full there are as many resident pages as frames.
LEMMA FullMemory ==
  ASSUME IInv, FramesInUse, free_page >= Frames
  PROVE  IsFiniteSet(Resident) /\ Frames <= Cardinality(Resident)
<1> DEFINE I == 0..Frames - 1
           m == [f \in I |-> memory[f]]
<1>1. Frames \in Nat /\ IsFiniteSet(I) /\ Cardinality(I) = Frames
  BY FS_Interval, VirtualMemoryAssumption DEF VirtualMemoryAssumption
<1>2. IsFiniteSet(Resident)
  BY FS_Subset, VirtualMemoryAssumption DEF Resident, VirtualMemoryAssumption
<1>3. free_page \in Nat
  BY DEF IInv, TypeOK
<1>4. \A f \in I : memory[f] \in Resident /\ page_table[memory[f]] = f
  BY <1>1, <1>3 DEF FramesInUse
<1>5. m \in Injection(I, Resident)
  BY <1>4 DEF Injection, IsInjective
<1> HIDE DEF m, I
<1> QED BY <1>1, <1>2, <1>5, FS_Injection

\* handleLRU finds a frame no other frame of memory is older than.
LEMMA VictimIsOldest ==
  ASSUME TypeOK, strategy = "lru", \A f \in Range0 : timer[f] < Minimum
  PROVE  handleLRU \in Range0 /\ \A g \in Range0 : timer[handleLRU] <= timer[g]
<1>1. DOMAIN timer = Range0 /\ \A f \in Range0 : timer[f] \in Nat
  BY DEF TypeOK, Range0
<1>2. 0 \in Range0 /\ Range0 \subseteq Nat
  BY VirtualMemoryAssumption DEF TypeOK, FrameCount, Range0, VirtualMemoryAssumption
<1>3. {f \in DOMAIN timer : timer[f] < Minimum} = Range0
  BY <1>1
<1> DEFINE Least(f) == \A g \in Range0 : timer[f] < timer[g] \/ (timer[f] = timer[g] /\ f <= g)
<1>4. handleLRU = CHOOSE f \in Range0 : Least(f)
  BY <1>2, <1>3 DEF handleLRU
<1>5. \E f \in Range0 : Least(f)
  BY <1>1, <1>2, FirstLeast
<1>6. handleLRU \in Range0 /\ Least(handleLRU)
  BY <1>4, <1>5
<1> QED BY <1>1, <1>6

\* The timer of a resident page's frame.
LEMMA StampIs ==
  ASSUME TypeOK, NEW p \in Resident, Stamped(p)
  PROVE  /\ page_table[p] \in Range0 /\ timer[page_table[p]] \in 1..Len(trace)
         /\ trace[timer[page_table[p]]] = p /\ p \in Pages
         /\ \A j \in timer[page_table[p]] + 1..Len(trace) : trace[j] # p /\ trace[j] \in Resident
BY DEF Stamped, Resident, TypeOK, Range0

\* A page in the TLB is resident and the slot tells its frame.
LEMMA SlotIs ==
  ASSUME IInv, LruParts, NEW k \in Slots, page_TLB[k] # NoPage
  PROVE  /\ page_TLB[k] \in Resident /\ frame_TLB[k] = page_table[page_TLB[k]]
         /\ frame_TLB[k] \in Range0 /\ timer[frame_TLB[k]] \in 1..Len(trace)
         /\ memory[frame_TLB[k]] = page_TLB[k]
         /\ Cardinality(Since(timer[frame_TLB[k]]) \ Cached) <= Age(k)
<1>1. page_TLB[k] \in Pages /\ frame_TLB[k] = page_table[page_TLB[k]]
      /\ Cardinality(Since(timer[frame_TLB[k]]) \ Cached) <= Age(k)
  BY DEF LruParts, SlotFresh, IInv, TypeOK
<1>2. page_TLB[k] \in Resident
  BY <1>1 DEF IInv, TLBFilled, Resident
<1>3. memory[frame_TLB[k]] = page_TLB[k]
  BY <1>1, <1>2 DEF IInv, PageTableSound
<1>4. frame_TLB[k] \in Range0 /\ timer[frame_TLB[k]] \in 1..Len(trace)
  BY <1>1, <1>2, StampIs DEF LruParts, IInv
<1> QED BY <1>1, <1>2, <1>3, <1>4

\* With at least 2 * TableSize - 1 frames, a page that is in the TLB and stays
\* there is not the least recently used one.
LEMMA Spared ==
  ASSUME IInv, LruParts, strategy = "lru", Frames >= 2 * TableSize - 1,
         free_page >= Frames, NEW v \in Range0,
         \A g \in Range0 : timer[v] <= timer[g],
         NEW k \in Slots, page_TLB[k] # NoPage, Age(k) <= TableSize - 2
  PROVE  frame_TLB[k] # v
<1> SUFFICES ASSUME frame_TLB[k] = v PROVE FALSE
  OBVIOUS
<1> DEFINE S == Since(timer[v])
<1>0. TypeOK /\ timer[v] \in 1..Len(trace) /\ Cardinality(S \ Cached) <= Age(k)
  BY SlotIs DEF IInv
<1>1. IsFiniteSet(S)
  BY <1>0, SinceIsPages
<1>2. Resident \subseteq S
  <2> SUFFICES ASSUME NEW r \in Resident PROVE r \in S
    OBVIOUS
  <2>1. page_table[r] \in Range0 /\ timer[page_table[r]] \in 1..Len(trace)
        /\ trace[timer[page_table[r]]] = r
    BY <1>0, StampIs DEF LruParts
  <2>2. timer[v] <= timer[page_table[r]]
    BY <2>1
  <2>3. Len(trace) \in Nat
    BY <1>0 DEF TypeOK
  <2>4. timer[page_table[r]] \in timer[v]..Len(trace)
    BY <1>0, <2>1, <2>2, <2>3
  <2> QED BY <2>1, <2>4 DEF Since
<1>3. IsFiniteSet(Cached) /\ Cardinality(Cached) <= TableSize
  BY <1>0, CachedIsSmall
<1>4. IsFiniteSet(Resident) /\ Frames <= Cardinality(Resident)
  BY FullMemory DEF LruParts
<1>5. Cardinality(Resident) <= Cardinality(S)
  BY <1>1, <1>2, FS_Subset
<1> HIDE DEF S
<1>6. IsFiniteSet(S \cap Cached) /\ Cardinality(S \cap Cached) <= Cardinality(Cached)
      /\ Cardinality(S \ Cached) = Cardinality(S) - Cardinality(S \cap Cached)
  BY <1>1, <1>3, FS_Intersection, FS_Difference
<1>7. /\ Cardinality(S) \in Nat /\ Cardinality(Cached) \in Nat
      /\ Cardinality(Resident) \in Nat /\ Cardinality(S \cap Cached) \in Nat
  BY <1>1, <1>3, <1>4, <1>6, FS_CardinalityType
<1>8. TableSize \in Nat /\ Frames \in Nat /\ Age(k) \in Int
  BY <1>0, VirtualMemoryAssumption DEF VirtualMemoryAssumption, Age, Slots, TypeOK
<1> QED BY <1>0, <1>3, <1>4, <1>5, <1>6, <1>7, <1>8

-----------------------------------------------------------------------------

\* What an address of page p in frame f changes for LRU, whether p was there or
\* is read now: it is stamped, and every other page that stays keeps its frame.
Touched(p, f) ==
  /\ trace' = Append(trace, p) /\ strategy' = strategy
  /\ timer' = [timer EXCEPT ![f] = Len(trace) + 1]
  /\ page_table'[p] = f
  /\ \A q \in Resident' \ {p} : q \in Resident /\ page_table'[q] = page_table[q]
                                /\ page_table[q] # f
  /\ \A q \in Resident \ Resident' :
       \A r \in Resident' \ {p} : timer[page_table[q]] < timer[page_table[r]]

\* One more address; every suffix of the trace has its page, too.
LEMMA TraceGrows ==
  ASSUME trace \in Seq(Pages), NEW p \in Pages, trace' = Append(trace, p)
  PROVE  /\ Len(trace) \in Nat /\ Len(trace') = Len(trace) + 1
         /\ trace' \in Seq(Pages) /\ trace'[Len(trace) + 1] = p
         /\ \A j \in 1..Len(trace) : trace'[j] = trace[j]
         /\ \A k \in 1..Len(trace) : Since(k)' = Since(k) \cup {p}
         /\ \A k \in Nat : k = Len(trace) + 1 => Since(k)' = {p}
<1>1. /\ Len(trace) \in Nat /\ Len(trace') = Len(trace) + 1
      /\ trace' \in Seq(Pages) /\ trace'[Len(trace) + 1] = p
      /\ \A j \in 1..Len(trace) : trace'[j] = trace[j]
  OBVIOUS
<1>2. ASSUME NEW k \in 1..Len(trace) PROVE Since(k)' = Since(k) \cup {p}
  <2>1. k..Len(trace') = (k..Len(trace)) \cup {Len(trace) + 1}
    BY <1>1
  <2>2. \A j \in k..Len(trace) : trace'[j] = trace[j]
    BY <1>1
  <2> QED BY <1>1, <2>1, <2>2 DEF Since
<1>3. ASSUME NEW k \in Nat, k = Len(trace) + 1 PROVE Since(k)' = {p}
  <2>1. k..Len(trace') = {k}
    BY <1>1, <1>3
  <2> QED BY <1>1, <1>3, <2>1 DEF Since
<1> QED BY <1>1, <1>2, <1>3

\* Touching a frame stamps its page; a page that leaves was used last before every
\* other one that stays, so no suffix of theirs names it.
LEMMA StampsKept ==
  ASSUME IInv, LruParts, NEW p \in Pages, NEW f \in Range0, Touched(p, f), p \in Resident'
  PROVE  \A q \in Resident' : Stamped(q)'
<1> DEFINE n == Len(trace)
<1>0. TypeOK /\ trace \in Seq(Pages) /\ timer \in [Range0 -> Nat]
  BY DEF IInv, TypeOK, Range0
<1>1. /\ n \in Nat /\ Len(trace') = n + 1 /\ trace'[n + 1] = p
      /\ \A j \in 1..n : trace'[j] = trace[j]
  BY <1>0, TraceGrows DEF Touched
<1>2. timer' = [timer EXCEPT ![f] = n + 1] /\ page_table'[p] = f
  BY DEF Touched
<1> HIDE DEF n
<1> SUFFICES ASSUME NEW q \in Resident' PROVE Stamped(q)'
  OBVIOUS
<1>3. CASE q = p
  <2>1. timer'[page_table'[q]] = n + 1
    BY <1>0, <1>2, <1>3
  <2> QED BY <1>1, <1>3, <2>1 DEF Stamped
<1>4. CASE q # p
  <2>1. q \in Resident /\ page_table'[q] = page_table[q] /\ page_table[q] # f
    BY <1>4 DEF Touched
  <2>2. /\ page_table[q] \in Range0 /\ timer[page_table[q]] \in 1..n
        /\ trace[timer[page_table[q]]] = q
        /\ \A j \in timer[page_table[q]] + 1..n : trace[j] # q /\ trace[j] \in Resident
    BY <1>0, <2>1, StampIs DEF LruParts, n
  <2> DEFINE m == timer[page_table[q]]
  <2>3. timer'[page_table'[q]] = m
    BY <1>0, <1>2, <2>1, <2>2
  <2>4. ASSUME NEW j \in m + 1..n + 1 PROVE trace'[j] # q /\ trace'[j] \in Resident'
    <3>1. CASE j = n + 1
      BY <1>1, <1>4, <3>1
    <3>2. CASE j # n + 1
      <4>1. j \in m + 1..n /\ j \in 1..n /\ j > m /\ m \in Nat
        BY <1>1, <2>2, <3>2
      <4>2. trace'[j] = trace[j] /\ trace[j] # q /\ trace[j] \in Resident
        BY <1>1, <2>2, <4>1
      <4>3. trace[j] \in Resident'
        <5> SUFFICES ASSUME trace[j] \notin Resident' PROVE FALSE
          OBVIOUS
        <5> DEFINE u == trace[j]
        <5>1. timer[page_table[u]] < m
          BY <1>4, <4>2 DEF Touched
        <5>2. timer[page_table[u]] \in 1..n
              /\ \A l \in timer[page_table[u]] + 1..n : trace[l] # u
          BY <1>0, <4>2, StampIs DEF LruParts, n
        <5>3. j \in timer[page_table[u]] + 1..n
          BY <1>1, <4>1, <5>1, <5>2
        <5> QED BY <5>2, <5>3
      <4> QED BY <4>2, <4>3
    <3> QED BY <3>1, <3>2
  <2>5. m \in 1..n + 1 /\ trace'[m] = q
    BY <1>1, <2>2
  <2> HIDE DEF m
  <2> QED BY <1>1, <2>3, <2>4, <2>5 DEF Stamped
<1> QED BY <1>3, <1>4

\* A hit in the TLB: the suffixes grow by a page the TLB holds.
LEMMA SlotsKeptOnHit ==
  ASSUME IInv, LruParts, NEW p \in Pages, NEW f \in Range0, Touched(p, f),
         Resident' = Resident, page_table' = page_table, memory[f] = p,
         InTLB(p), UNCHANGED tlbVars
  PROVE  \A k \in Slots : page_TLB'[k] # NoPage => SlotFresh(k)'
<1> SUFFICES ASSUME NEW k \in Slots, page_TLB[k] # NoPage PROVE SlotFresh(k)'
  BY DEF tlbVars
<1> DEFINE n == Len(trace)
           g == frame_TLB[k]
<1>0. /\ Cached' = Cached /\ page_TLB' = page_TLB /\ frame_TLB' = frame_TLB
      /\ TLB_entries' = TLB_entries /\ p \in Cached
  BY DEF Cached, InTLB, tlbVars
<1>1. TypeOK /\ trace \in Seq(Pages) /\ timer \in [Range0 -> Nat]
      /\ TLB_entries \in 0..TableSize
  BY DEF IInv, TypeOK, Range0
<1>2. /\ g = page_table[page_TLB[k]] /\ g \in Range0 /\ timer[g] \in 1..n
      /\ memory[g] = page_TLB[k] /\ Cardinality(Since(timer[g]) \ Cached) <= Age(k)
  BY SlotIs
<1>3. timer' = [timer EXCEPT ![f] = n + 1] /\ n \in Nat
  BY <1>1 DEF Touched
<1>4. Age(k)' = Age(k) /\ Age(k) >= 0
  BY <1>0, <1>1, VirtualMemoryAssumption DEF Age, Slots, VirtualMemoryAssumption
<1>5. Cardinality((Since(timer[g]) \ Cached)') <= Age(k)
  <2>1. CASE g = f
    <3>1. timer'[g] = n + 1 /\ n + 1 \in Nat
      BY <1>1, <1>3, <2>1
    <3>2. Since(timer[g])' = {p}
      BY <1>0, <1>1, <3>1, TraceGrows DEF Touched
    <3>3. (Since(timer[g]) \ Cached)' = {}
      BY <1>0, <3>2
    <3> QED BY <1>4, <3>3, FS_EmptySet
  <2>2. CASE g # f
    <3> DEFINE m == timer[g]
    <3>1. timer'[g] = m
      BY <1>1, <1>2, <1>3, <2>2
    <3> HIDE DEF m
    <3>2. m \in 1..Len(trace) /\ trace' = Append(trace, p)
      BY <1>2 DEF m, Touched
    <3>3. \A j \in 1..Len(trace) : Since(j)' = Since(j) \cup {p}
      BY <1>1, <3>2, TraceGrows
    <3>4. \A j \in 1..Len(trace) :
             {trace'[l] : l \in j..Len(trace')} = Since(j) \cup {p}
      BY <3>3 DEF Since
    <3>5. {trace'[j] : j \in m..Len(trace')} = Since(m) \cup {p}
      BY <3>4, <3>2
    <3>6. Since(timer[g])' = Since(m) \cup {p}
      BY <1>0, <3>1, <3>5 DEF Since
    <3>7. (Since(timer[g]) \ Cached)' = Since(m) \ Cached
      BY <1>0, <3>6
    <3> USE DEF m
    <3> QED BY <1>2, <3>7
  <2> QED BY <2>1, <2>2
<1> QED BY <1>0, <1>2, <1>4, <1>5 DEF SlotFresh

\* A new entry in the TLB: the entries that stay age by one, and of the pages in
\* their suffixes one more may be out of the TLB, the one overwritten.
LEMMA SlotsKeptOnMiss ==
  ASSUME IInv, LruParts, NEW p \in Pages, NEW f \in Range0, Touched(p, f),
         ~InTLB(p), update_TLB(p, f),
         \A k \in Slots : /\ page_TLB[k] # NoPage
                          /\ Age(k) <= TableSize - 2
                          => page_TLB[k] \in Resident' /\ frame_TLB[k] # f
  PROVE  \A k \in Slots : page_TLB'[k] # NoPage => SlotFresh(k)'
<1> DEFINE n == Len(trace)
           slot == IF TLB_entries >= TableSize THEN 0 ELSE TLB_entries
<1>1. TypeOK /\ trace \in Seq(Pages) /\ timer \in [Range0 -> Nat]
      /\ TLB_entries \in 0..TableSize /\ TableSize \in Nat \ {0}
      /\ page_TLB \in [Slots -> Pages \cup {NoPage}]
      /\ frame_TLB \in [Slots -> Range0 \cup {NOT_FOUND}]
  BY VirtualMemoryAssumption DEF IInv, TypeOK, Range0, VirtualMemoryAssumption
<1>2. slot \in Slots /\ slot + 1 \in 0..TableSize
  BY <1>1 DEF Slots
<1>3. /\ page_TLB' = [page_TLB EXCEPT ![slot] = p]
      /\ frame_TLB' = [frame_TLB EXCEPT ![slot] = f]
      /\ TLB_entries' = slot + 1
  BY DEF update_TLB
<1>4. ASSUME NEW k \in Slots \ {slot}
      PROVE  Age(k)' = Age(k) + 1 /\ Age(k) <= TableSize - 2 /\ Age(k) \in Int
  BY <1>1, <1>3 DEF Age, Slots
<1>5. ASSUME NEW k \in Slots, k = slot PROVE Age(k)' = 0
  BY <1>1, <1>3, <1>5 DEF Age, Slots
<1> HIDE DEF slot
<1>6. timer' = [timer EXCEPT ![f] = n + 1] /\ n \in Nat /\ page_table'[p] = f
  BY <1>1 DEF Touched
<1>7. p \in Cached' /\ Cached \subseteq Cached' \cup {page_TLB[slot]}
  BY <1>1, <1>2, <1>3 DEF Cached
<1> SUFFICES ASSUME NEW k \in Slots, page_TLB'[k] # NoPage PROVE SlotFresh(k)'
  OBVIOUS
<1>8. CASE k = slot
  <2>1. page_TLB'[k] = p /\ frame_TLB'[k] = f /\ timer'[f] = n + 1
    BY <1>1, <1>2, <1>3, <1>6, <1>8
  <2>2. {trace'[j] : j \in n + 1..Len(trace')} = {p}
    BY <1>1, TraceGrows DEF Touched, Since
  <2>3. (Since(timer[frame_TLB[k]]) \ Cached)' = {}
    BY <1>7, <2>1, <2>2 DEF Since
  <2>4. Age(k)' = 0
    BY <1>5, <1>8
  <2>5. page_table'[page_TLB'[k]] = frame_TLB'[k]
    BY <1>6, <2>1
  <2>6. Cardinality((Since(timer[frame_TLB[k]]) \ Cached)') = 0
    BY <2>3, FS_EmptySet
  <2> QED BY <2>4, <2>5, <2>6 DEF SlotFresh
<1>9. CASE k # slot
  <2> DEFINE g == frame_TLB[k]
             m == timer[g]
  <2>1. page_TLB'[k] = page_TLB[k] /\ frame_TLB'[k] = g /\ page_TLB[k] # NoPage
    BY <1>1, <1>2, <1>3, <1>9
  <2>2. /\ g = page_table[page_TLB[k]] /\ g \in Range0 /\ m \in 1..n
        /\ Cardinality(Since(m) \ Cached) <= Age(k)
    BY <2>1, SlotIs
  <2>3. Age(k)' = Age(k) + 1 /\ Age(k) <= TableSize - 2 /\ Age(k) \in Int
    BY <1>4, <1>9
  <2>4. page_TLB[k] \in Resident' /\ g # f /\ page_TLB[k] # p
    BY <2>1, <2>3 DEF InTLB
  <2>5. page_table'[page_TLB[k]] = g
    BY <2>2, <2>4 DEF Touched
  <2>6. timer'[g] = m
    BY <1>1, <1>6, <2>2, <2>4
  <2>7. {trace'[j] : j \in m..Len(trace')} = Since(m) \cup {p}
    BY <1>1, <2>2, TraceGrows DEF Touched, Since
  <2>8. (Since(timer[frame_TLB[k]]) \ Cached)' \subseteq (Since(m) \ Cached) \cup {page_TLB[slot]}
    BY <1>7, <2>1, <2>6, <2>7 DEF Since
  <2>9. IsFiniteSet(Since(m) \ Cached)
    BY <1>1, <2>2, SinceIsPages, FS_Difference
  <2>10. Cardinality((Since(timer[frame_TLB[k]]) \ Cached)') <= Age(k) + 1
    <3> HIDE DEF m, g
    <3> QED BY <2>2, <2>3, <2>8, <2>9, CountWithOne
  <2> QED BY <2>1, <2>3, <2>5, <2>10 DEF SlotFresh
<1> QED BY <1>8, <1>9

\* A hit touches the frame of its page.
LEMMA TouchedOnHit ==
  ASSUME IInv, NEW p \in Resident, strategy = "lru", strategy' = strategy,
         trace' = Append(trace, p), frame_num' = page_table[p], Touch(frame_num'),
         UNCHANGED tableVars
  PROVE  /\ page_table[p] \in Range0 /\ Touched(p, page_table[p])
         /\ page_table' = page_table /\ Resident' = Resident
         /\ memory[page_table[p]] = p
<1> DEFINE f == page_table[p]
<1>1. f \in Range0 /\ p \in Pages
  BY DEF IInv, TypeOK, Resident, Range0
<1>2. page_table' = page_table /\ Resident' = Resident
  BY DEF tableVars, Resident
<1>3. timer' = [timer EXCEPT ![f] = Len(trace) + 1]
  BY DEF Touch
<1>4. \A q \in Resident : memory[page_table[q]] = q
  BY DEF IInv, PageTableSound
<1>5. \A q \in Resident \ {p} : page_table[q] # f
  BY <1>4
<1> QED BY <1>1, <1>2, <1>3, <1>4, <1>5 DEF Touched

\* A hit moves no page.
LEMMA FramesKeptOnHit ==
  ASSUME IInv, FramesInUse, NEW p \in Resident, trace' = Append(trace, p),
         UNCHANGED tableVars
  PROVE  FramesInUse'
<1>1. trace \in Seq(Pages) /\ p \in Pages
  BY DEF IInv, TypeOK, Resident
<1>2. DOMAIN trace' = 1..Len(trace) + 1 /\ DOMAIN trace = 1..Len(trace) /\ Len(trace) \in Nat
      /\ \A j \in DOMAIN trace' : trace'[j] = IF j <= Len(trace) THEN trace[j] ELSE p
  BY <1>1
<1>3. Resident' = Resident
  BY DEF Resident, tableVars
<1>4. (\A j \in DOMAIN trace : trace[j] \in Resident) => \A j \in DOMAIN trace' : trace'[j] \in Resident'
  BY <1>2, <1>3
<1> QED BY <1>3, <1>4 DEF FramesInUse, tableVars

\* The frame a page is read into.
LEMMA LoadedAt ==
  ASSUME IInv, NEW p \in Pages, strategy = "lru", ReplaceLru(p)
  PROVE  \E f \in Range0 : /\ f = IF free_page >= Frames THEN handleLRU ELSE free_page
                           /\ Replace(p, f)
<1>1. TypeOK /\ free_page \in Nat /\ Frames \in Nat /\ FrameCount = Frames
  BY VirtualMemoryAssumption DEF IInv, TypeOK, VirtualMemoryAssumption, FrameCount
<1>2. free_page < Frames => free_frame = free_page
  BY DEF IInv, LruInOrder
<1>3. handleLRU \in Range0
  BY <1>1, VictimIsFrame
<1> DEFINE f == IF free_page >= Frames THEN handleLRU ELSE free_page
<1>4. f \in Range0
  BY <1>1, <1>3 DEF Range0
<1>5. Replace(p, f)
  BY <1>1, <1>2 DEF ReplaceLru
<1> QED BY <1>4, <1>5

\* Only the page of the frame that is filled leaves memory, and none while there
\* are free frames.
LEMMA FramesKeptOnFault ==
  ASSUME IInv, FramesInUse, NEW p \in Pages \ Resident, strategy = "lru", NEW f \in Range0,
         free_page < Frames => f = free_page, Replace(p, f), trace' = Append(trace, p)
  PROVE  /\ p \in Resident' /\ page_table'[p] = f
         /\ \A q \in Resident' \ {p} : q \in Resident /\ page_table'[q] = page_table[q]
                                       /\ page_table[q] # f
         /\ \A q \in Resident \ Resident' : page_table[q] = f
         /\ \A q \in Resident : page_table[q] # f => q \in Resident'
         /\ free_page < Frames => Resident' = Resident \cup {p}
         /\ FramesInUse'
<1>1. /\ page_table \in [Pages -> Range0 \cup {NOT_FOUND}]
      /\ memory \in [Range0 -> Pages \cup {NoPage}]
      /\ free_page \in Nat /\ Frames \in Nat /\ Range0 = 0..Frames - 1
      /\ trace \in Seq(Pages) /\ NOT_FOUND \notin Range0
  BY VirtualMemoryAssumption
     DEF IInv, TypeOK, Range0, FrameCount, VirtualMemoryAssumption, NOT_FOUND
<1>2. /\ page_table' = [q \in Pages |-> IF q = p THEN f
                         ELSE IF page_table[q] = f THEN NOT_FOUND ELSE page_table[q]]
      /\ memory' = [memory EXCEPT ![f] = p] /\ free_page' = free_page + 1
  BY DEF Replace, LoadPage, Swept
<1>3. /\ p \in Resident' /\ page_table'[p] = f
      /\ \A q \in Resident' \ {p} : q \in Resident /\ page_table'[q] = page_table[q]
                                    /\ page_table[q] # f
      /\ \A q \in Resident \ Resident' : page_table[q] = f
      /\ \A q \in Resident : page_table[q] # f => q \in Resident'
  BY <1>1, <1>2 DEF Resident
<1>4. free_page < Frames => Resident' = Resident \cup {p}
  <2> SUFFICES ASSUME free_page < Frames PROVE Resident' = Resident \cup {p}
    OBVIOUS
  <2>1. \A q \in Resident : page_table[q] < f
    BY DEF FramesInUse
  <2>2. \A q \in Resident : page_table[q] # f
    BY <1>1, <2>1 DEF Resident
  <2> QED BY <1>3, <2>2
<1>5. ASSUME NEW g \in 0..Frames - 1, g < free_page'
      PROVE  memory'[g] \in Resident' /\ page_table'[memory'[g]] = g
  <2>1. CASE g = f
    BY <1>1, <1>2, <1>3, <2>1
  <2>2. CASE g # f
    <3>1. g < free_page
      BY <1>1, <1>2, <1>5, <2>2
    <3>2. memory[g] \in Resident /\ page_table[memory[g]] = g
      BY <3>1 DEF FramesInUse
    <3>3. memory'[g] = memory[g]
      BY <1>1, <1>2, <2>2
    <3>4. memory[g] \in Resident'
      BY <1>3, <2>2, <3>2
    <3>5. memory[g] # p
      BY <3>2
    <3> QED BY <1>3, <3>2, <3>3, <3>4, <3>5
  <2> QED BY <2>1, <2>2
<1>6. ASSUME free_page' < Frames
      PROVE  /\ \A q \in Resident' : page_table'[q] < free_page'
             /\ \A j \in DOMAIN trace' : trace'[j] \in Resident'
  <2>1. free_page < Frames /\ f = free_page /\ free_page' = free_page + 1
        /\ free_page \in Nat
    BY <1>1, <1>2, <1>6
  <2>2. \A q \in Resident : page_table[q] \in Nat /\ page_table[q] < free_page
    BY <1>1, <2>1 DEF FramesInUse, Resident
  <2>3. ASSUME NEW q \in Resident' PROVE page_table'[q] < free_page'
    <3>1. CASE q = p
      BY <1>1, <1>2, <1>3, <2>1, <3>1
    <3>2. CASE q # p
      <4>1. q \in Resident /\ page_table'[q] = page_table[q]
        BY <1>3, <3>2
      <4> QED BY <2>1, <2>2, <4>1
    <3> QED BY <3>1, <3>2
  <2>4. /\ DOMAIN trace' = 1..Len(trace) + 1 /\ DOMAIN trace = 1..Len(trace)
        /\ Len(trace) \in Nat
        /\ \A j \in DOMAIN trace' : trace'[j] = IF j <= Len(trace) THEN trace[j] ELSE p
    BY <1>1
  <2>5. \A j \in DOMAIN trace : trace[j] \in Resident
    BY <2>1 DEF FramesInUse
  <2> QED BY <1>4, <2>1, <2>3, <2>4, <2>5
<1>7. FramesInUse'
  BY <1>5, <1>6 DEF FramesInUse
<1> QED BY <1>3, <1>4, <1>7

\* Every access keeps LruExact.
LEMMA LruAccess ==
  ASSUME IInv, LruExact, NEW p \in Pages, Access(p)
  PROVE  LruExact'
<1> SUFFICES ASSUME strategy' = "lru", NeverStale'
             PROVE  LruParts'
  BY DEF LruExact, LruParts
<1>1. /\ strategy' = strategy /\ trace' = Append(trace, p) /\ Touch(frame_num')
      /\ strategy = "lru"
  BY DEF Access
<1>2. TypeOK /\ trace \in Seq(Pages) /\ Len(trace) \in Nat /\ Minimum \in Nat
      /\ TableSize \in Nat
  BY VirtualMemoryAssumption DEF IInv, TypeOK, VirtualMemoryAssumption
<1>3. Frames >= 2 * TableSize - 1 /\ Len(trace) < Minimum
  BY <1>1, <1>2 DEF NeverStale
<1>4. LruParts
  BY <1>1, <1>2, <1>3 DEF LruExact, NeverStale
<1>5. CASE TLBHit(p)
  <2>1. PICK k \in Slots : page_TLB[k] = p /\ frame_num' = frame_TLB[k]
    BY <1>5, FoundInTLB DEF TLBHit
  <2>2. p # NoPage
    BY VirtualMemoryAssumption DEF VirtualMemoryAssumption
  <2>3. p \in Resident /\ frame_num' = page_table[p]
    BY <1>4, <2>1, <2>2, SlotIs
  <2>4. UNCHANGED tlbVars /\ UNCHANGED tableVars /\ InTLB(p)
    BY <1>5 DEF TLBHit
  <2>5. /\ page_table[p] \in Range0 /\ Touched(p, page_table[p])
        /\ page_table' = page_table /\ Resident' = Resident /\ memory[page_table[p]] = p
    BY <1>1, <2>3, <2>4, TouchedOnHit
  <2>6. FramesInUse'
    BY <1>1, <1>4, <2>3, <2>4, FramesKeptOnHit DEF LruParts
  <2>7. \A q \in Resident' : Stamped(q)'
    BY <1>4, <2>3, <2>5, StampsKept
  <2>8. \A l \in Slots : page_TLB'[l] # NoPage => SlotFresh(l)'
    BY <1>4, <2>4, <2>5, SlotsKeptOnHit
  <2> QED BY <2>6, <2>7, <2>8 DEF LruParts
<1>6. CASE PageTableHit(p)
  <2>1. p \in Resident /\ frame_num' = page_table[p] /\ ~InTLB(p)
        /\ update_TLB(p, page_table[p]) /\ UNCHANGED tableVars
    BY <1>6 DEF PageTableHit, Resident
  <2>2. /\ page_table[p] \in Range0 /\ Touched(p, page_table[p])
        /\ page_table' = page_table /\ Resident' = Resident /\ memory[page_table[p]] = p
    BY <1>1, <2>1, TouchedOnHit
  <2>3. FramesInUse'
    BY <1>1, <1>4, <2>1, FramesKeptOnHit DEF LruParts
  <2>4. \A q \in Resident' : Stamped(q)'
    BY <1>4, <2>1, <2>2, StampsKept
  <2>5. ASSUME NEW k \in Slots, page_TLB[k] # NoPage
        PROVE  page_TLB[k] \in Resident' /\ frame_TLB[k] # page_table[p]
    BY <1>4, <2>1, <2>2, <2>5, SlotIs DEF InTLB
  <2>6. \A l \in Slots : page_TLB'[l] # NoPage => SlotFresh(l)'
    BY <1>4, <2>1, <2>2, <2>5, SlotsKeptOnMiss
  <2> QED BY <2>3, <2>4, <2>6 DEF LruParts
<1>7. CASE PageFault(p)
  <2>1. ~InTLB(p) /\ p \in Pages \ Resident /\ ReplaceLru(p) /\ update_TLB(p, frame_num')
    BY <1>1, <1>7 DEF PageFault, Resident, LoadIntoNew, ReplaceFifo
  <2>2. PICK f \in Range0 : /\ f = IF free_page >= Frames THEN handleLRU ELSE free_page
                            /\ Replace(p, f)
    BY <1>1, <2>1, LoadedAt
  <2>3. frame_num' = f /\ free_page \in Nat /\ Frames \in Nat
    BY <1>2, <2>2, VirtualMemoryAssumption DEF Replace, LoadPage, TypeOK, VirtualMemoryAssumption
  <2>4. /\ p \in Resident' /\ page_table'[p] = f
        /\ \A q \in Resident' \ {p} : q \in Resident /\ page_table'[q] = page_table[q]
                                      /\ page_table[q] # f
        /\ \A q \in Resident \ Resident' : page_table[q] = f
        /\ \A q \in Resident : page_table[q] # f => q \in Resident'
        /\ free_page < Frames => Resident' = Resident \cup {p}
        /\ FramesInUse'
    BY <1>1, <1>4, <2>1, <2>2, <2>3, FramesKeptOnFault DEF LruParts
  <2>5. ASSUME NEW q \in Resident
        PROVE  page_table[q] \in Range0 /\ timer[page_table[q]] \in 1..Len(trace)
               /\ trace[timer[page_table[q]]] = q
    BY <1>2, <1>4, StampIs DEF LruParts
  <2>6. free_page >= Frames => \A g \in Range0 : timer[f] <= timer[g]
    <3> SUFFICES ASSUME free_page >= Frames PROVE \A g \in Range0 : timer[f] <= timer[g]
      OBVIOUS
    <3>1. ASSUME NEW g \in Range0 PROVE timer[g] < Minimum
      <4>1. g \in 0..Frames - 1 /\ g < free_page
        BY <1>1, <2>3 DEF Range0, FrameCount
      <4>2. memory[g] \in Resident /\ page_table[memory[g]] = g
        BY <1>4, <4>1 DEF LruParts, FramesInUse
      <4>3. timer[g] \in 1..Len(trace)
        BY <2>5, <4>2
      <4> QED BY <1>2, <1>3, <4>3
    <3>2. f = handleLRU
      BY <2>2
    <3> QED BY <1>1, <1>2, <3>1, <3>2, VictimIsOldest
  <2>7. Touched(p, f)
    <3>1. timer' = [timer EXCEPT ![f] = Len(trace) + 1]
      BY <1>1, <2>3 DEF Touch
    <3>2. ASSUME NEW q \in Resident \ Resident', NEW r \in Resident' \ {p}
          PROVE  timer[page_table[q]] < timer[page_table[r]]
      <4>1. page_table[q] = f /\ r \in Resident /\ q # r
        BY <2>4
      <4>2. free_page >= Frames
        BY <2>3, <2>4
      <4>3. timer[f] <= timer[page_table[r]]
        BY <2>5, <2>6, <4>1, <4>2
      <4>4. timer[f] # timer[page_table[r]] /\ timer[f] \in Nat /\ timer[page_table[r]] \in Nat
        BY <1>2, <2>5, <4>1
      <4> QED BY <4>1, <4>3, <4>4
    <3> QED BY <1>1, <2>4, <3>1, <3>2 DEF Touched
  <2>8. \A q \in Resident' : Stamped(q)'
    BY <1>4, <2>4, <2>7, StampsKept
  <2>9. ASSUME NEW k \in Slots, page_TLB[k] # NoPage, Age(k) <= TableSize - 2
        PROVE  page_TLB[k] \in Resident' /\ frame_TLB[k] # f
    <3>1. page_TLB[k] \in Resident /\ frame_TLB[k] = page_table[page_TLB[k]]
          /\ frame_TLB[k] \in Range0
      BY <1>4, <2>9, SlotIs
    <3>2. frame_TLB[k] # f
      <4>1. CASE free_page >= Frames
        BY <1>1, <1>3, <1>4, <2>6, <2>9, <4>1, Spared
      <4>2. CASE free_page < Frames
        <5>1. page_table[page_TLB[k]] < free_page /\ f = free_page
          BY <1>4, <2>2, <2>3, <3>1, <4>2 DEF LruParts, FramesInUse
        <5> QED BY <2>3, <3>1, <5>1
      <4> QED BY <2>3, <4>1, <4>2
    <3> QED BY <2>4, <3>1, <3>2
  <2>10. \A l \in Slots : page_TLB'[l] # NoPage => SlotFresh(l)'
    BY <1>4, <2>1, <2>3, <2>7, <2>9, SlotsKeptOnMiss
  <2> QED BY <2>4, <2>8, <2>10 DEF LruParts
<1> QED BY <1>5, <1>6, <1>7 DEF Access

\* Part 1 keeps what it reads.
LEMMA PartOneAccess ==
  ASSUME IInv, KeepsAll, NEW p \in Pages, Access(p)
  PROVE  KeepsAll'
<1> SUFFICES ASSUME strategy' = "part1" PROVE Resident' = ToSet(trace')
  BY DEF KeepsAll
<1>1. strategy = "part1" /\ trace \in Seq(Pages) /\ trace' = Append(trace, p)
  BY DEF Access, IInv, TypeOK
<1>2. Resident = ToSet(trace)
  BY <1>1 DEF KeepsAll
<1>3. ToSet(trace') = ToSet(trace) \cup {p}
  BY <1>1 DEF ToSet
<1>4. Resident' = Resident \cup {p}
  <2>1. CASE TLBHit(p)
    <3>1. PICK k \in Slots : page_TLB[k] = p
      BY <2>1 DEF TLBHit, InTLB
    <3>2. p # NoPage
      BY VirtualMemoryAssumption DEF VirtualMemoryAssumption
    <3>3. p \in Resident
      BY <1>1, <3>1, <3>2 DEF IInv, Part1InOrder, TLBFilled, Resident
    <3>4. UNCHANGED tableVars
      BY <2>1 DEF TLBHit
    <3> QED BY <3>3, <3>4 DEF Resident, tableVars
  <2>2. CASE PageTableHit(p)
    BY <2>2 DEF PageTableHit, Resident, tableVars
  <2>3. CASE PageFault(p)
    <3>1. page_table[p] = NOT_FOUND /\ LoadIntoNew(p)
      BY <1>1, <2>3 DEF PageFault, ReplaceFifo, ReplaceLru
    <3>2. page_table' = [page_table EXCEPT ![p] = free_frame]
      BY <3>1 DEF LoadIntoNew
    <3>3. page_table \in [Pages -> Range0 \cup {NOT_FOUND}] /\ free_frame # NOT_FOUND
      BY CountIsNat DEF IInv, TypeOK, Range0, NOT_FOUND
    <3> QED BY <3>2, <3>3 DEF Resident
  <2> QED BY <2>1, <2>2, <2>3 DEF Access
<1> QED BY <1>2, <1>3, <1>4

-----------------------------------------------------------------------------
\* The resident pages are those of the longest suffix of the trace with no more
\* pages than frames: it holds what was used since a resident page was stamped,
\* and a suffix with a page that left would hold all resident pages as well.
LEMMA ResidentIsRecent ==
  ASSUME IInv, LruExact, KeepsAll, NeverStale
  PROVE  Resident = MostRecent(trace, FrameCount)
<1> DEFINE n == Len(trace)
<1>1. TypeOK /\ trace \in Seq(Pages) /\ n \in Nat /\ DOMAIN trace = 1..n
  BY DEF IInv, TypeOK
<1>2. MostRecent(trace, FrameCount)
        = {trace[k] : k \in {l \in 1..n : Cardinality(Since(l)) <= FrameCount}}
  BY <1>1 DEF MostRecent, Since
<1>3. CASE strategy = "part1"
  <2>1. FrameCount = Cardinality(Pages) /\ IsFiniteSet(Pages)
    BY <1>3, VirtualMemoryAssumption DEF FrameCount, VirtualMemoryAssumption
  <2>2. ASSUME NEW l \in 1..n PROVE Cardinality(Since(l)) <= FrameCount
    <3>1. Since(l) \subseteq Pages
      BY <1>1, SinceIsPages
    <3> QED BY <2>1, <3>1, FS_Subset
  <2>3. Resident = {trace[k] : k \in 1..n}
    BY <1>1, <1>3 DEF KeepsAll, ToSet
  <2> QED BY <1>2, <2>2, <2>3
<1>4. CASE strategy # "part1"
  <2>0. strategy = "lru" /\ FrameCount = Frames
    BY <1>4 DEF NeverStale, FrameCount
  <2>1. LruParts
    BY <2>0 DEF LruExact, LruParts
  <2>2. Frames \in Nat \ {0} /\ free_page \in Nat
    BY VirtualMemoryAssumption DEF IInv, TypeOK, VirtualMemoryAssumption
  <2>3. IsFiniteSet(Resident) /\ Cardinality(Resident) <= Frames
    <3> DEFINE I == 0..Frames - 1
               t == [q \in Resident |-> page_table[q]]
    <3>1. IsFiniteSet(I) /\ Cardinality(I) = Frames
      BY <2>2, FS_Interval
    <3>2. \A q \in Resident : page_table[q] \in I /\ memory[page_table[q]] = q
      BY <2>0 DEF IInv, TypeOK, PageTableSound, Resident
    <3>3. t \in Injection(Resident, I)
      BY <3>2 DEF Injection, IsInjective
    <3> HIDE DEF I, t
    <3> QED BY <3>1, <3>3, FS_Injection
  <2>4. ASSUME NEW q \in Resident
        PROVE  \E k \in 1..n : trace[k] = q /\ Cardinality(Since(k)) <= Frames
    <3> DEFINE k == timer[page_table[q]]
    <3>1. /\ k \in 1..n /\ trace[k] = q
          /\ \A j \in k + 1..n : trace[j] \in Resident
      BY <1>1, <2>1, StampIs DEF LruParts
    <3> HIDE DEF k
    <3>2. \A j \in k..n : trace[j] \in Resident
      BY <1>1, <3>1
    <3>3. Since(k) \subseteq Resident
      BY <3>2 DEF Since
    <3>4. Cardinality(Since(k)) <= Cardinality(Resident)
      BY <2>3, <3>3, FS_Subset
    <3>5. Cardinality(Since(k)) \in Nat /\ Cardinality(Resident) \in Nat
      BY <1>1, <2>3, <3>1, SinceIsPages, FS_CardinalityType
    <3> QED BY <2>2, <2>3, <3>1, <3>4, <3>5
  <2>5. ASSUME NEW l \in 1..n, Cardinality(Since(l)) <= Frames
        PROVE  trace[l] \in Resident
    <3> SUFFICES ASSUME trace[l] \notin Resident PROVE FALSE
      OBVIOUS
    <3>1. free_page >= Frames
      BY <1>1, <2>1, <2>2 DEF LruParts, FramesInUse
    <3>2. Frames <= Cardinality(Resident)
      BY <2>1, <3>1, FullMemory DEF LruParts
    <3>3. ASSUME NEW r \in Resident PROVE r \in Since(l)
      <4> DEFINE k == timer[page_table[r]]
      <4>1. /\ k \in 1..n /\ trace[k] = r
            /\ \A j \in k + 1..n : trace[j] \in Resident
        BY <1>1, <2>1, StampIs DEF LruParts
      <4> HIDE DEF k
      <4>2. k \in l..n
        BY <1>1, <4>1
      <4> QED BY <4>1, <4>2 DEF Since
    <3>4. Resident \cup {trace[l]} \subseteq Since(l)
      BY <1>1, <3>3 DEF Since
    <3>5. IsFiniteSet(Since(l)) /\ Cardinality(Since(l)) \in Nat
      BY <1>1, SinceIsPages
    <3>6. Cardinality(Resident \cup {trace[l]}) = Cardinality(Resident) + 1
      BY <2>3, FS_AddElement
    <3>7. Cardinality(Resident \cup {trace[l]}) <= Cardinality(Since(l))
      BY <3>4, <3>5, FS_Subset
    <3>8. Cardinality(Resident) \in Nat
      BY <2>3, FS_CardinalityType
    <3> QED BY <2>2, <2>5, <3>2, <3>5, <3>6, <3>7, <3>8
  <2>6. Resident \subseteq MostRecent(trace, FrameCount)
    BY <1>2, <2>0, <2>4
  <2>7. MostRecent(trace, FrameCount) \subseteq Resident
    BY <1>2, <2>0, <2>5
  <2> QED BY <2>6, <2>7
<1> QED BY <1>3, <1>4

-----------------------------------------------------------------------------
\* One more address leaves the prefixes as they were.
LEMMA PrefixKept ==
  ASSUME NEW S, NEW s \in Seq(S), NEW x \in S, NEW k \in 1..Len(s) + 1
  PROVE  SubSeq(Append(s, x), 1, k - 1) = SubSeq(s, 1, k - 1)
<1> DEFINE t == Append(s, x)
<1>1. /\ Len(s) \in Nat /\ t \in Seq(S) /\ Len(t) = Len(s) + 1
      /\ \A j \in 1..Len(s) : t[j] = s[j]
      /\ \A j \in 1..k - 1 : j \in 1..Len(s) /\ s[j] \in S
  OBVIOUS
<1> HIDE DEF t
<1>2. k - 1 \in Int /\ 1 \in Int /\ \A j \in 1..k - 1 : t[j] \in S /\ s[j] \in S
  BY <1>1
<1>3. /\ SubSeq(s, 1, k - 1) \in Seq(S)
      /\ Len(SubSeq(s, 1, k - 1)) = IF 1 <= k - 1 THEN k - 1 - 1 + 1 ELSE 0
      /\ \A j \in 1..k - 1 - 1 + 1 : SubSeq(s, 1, k - 1)[j] = s[1 + j - 1]
  BY <1>2, SubSeqProperties
<1>4. /\ SubSeq(t, 1, k - 1) \in Seq(S)
      /\ Len(SubSeq(t, 1, k - 1)) = IF 1 <= k - 1 THEN k - 1 - 1 + 1 ELSE 0
      /\ \A j \in 1..k - 1 - 1 + 1 : SubSeq(t, 1, k - 1)[j] = t[1 + j - 1]
  BY <1>2, SubSeqProperties
<1>5. \A j \in 1..Len(SubSeq(t, 1, k - 1)) : SubSeq(t, 1, k - 1)[j] = SubSeq(s, 1, k - 1)[j]
  BY <1>1, <1>3, <1>4
<1> QED BY <1>3, <1>4, <1>5, SeqEqual DEF t

\* The longest proper prefix.
LEMMA WholePrefix ==
  ASSUME NEW S, NEW s \in Seq(S), NEW x \in S
  PROVE  SubSeq(Append(s, x), 1, Len(s)) = s
<1>1. SubSeq(Append(s, x), 1, Len(s) + 1 - 1) = SubSeq(s, 1, Len(s) + 1 - 1)
  BY PrefixKept
<1>2. SubSeq(s, 1, Len(s)) = s
  BY SubSeqFull
<1> QED BY <1>1, <1>2

\* An access faults exactly if the reference does.
LEMMA FaultsCounted ==
  ASSUME IInv, LruExact, KeepsAll, FaultsExact, NEW p \in Pages, Access(p)
  PROVE  FaultsExact'
<1> SUFFICES ASSUME NeverStale' PROVE FaultsExact'
  BY DEF FaultsExact
<1> DEFINE n == Len(trace)
           R(s, k) == s[k] \notin MostRecent(SubSeq(s, 1, k - 1), FrameCount)
           old == {k \in 1..n : R(trace, k)}
           new == {k \in 1..n + 1 : R(trace', k)}
<1>1. /\ strategy' = strategy /\ FrameCount' = FrameCount
      /\ trace \in Seq(Pages) /\ trace' = Append(trace, p) /\ n \in Nat
      /\ DOMAIN trace = 1..n /\ DOMAIN trace' = 1..n + 1
      /\ trace'[n + 1] = p /\ \A k \in 1..n : trace'[k] = trace[k]
  BY DEF Access, IInv, TypeOK, FrameCount
<1>2. NeverStale
  BY <1>1, VirtualMemoryAssumption DEF NeverStale, VirtualMemoryAssumption
<1>3. Resident = MostRecent(trace, FrameCount)
  BY <1>2, ResidentIsRecent
<1>4. page_faults = Cardinality(old)
  BY <1>1, <1>2 DEF FaultsExact
<1>5. FaultsExact' <=> page_faults' = Cardinality(new)
  BY <1>1 DEF FaultsExact
<1>6. \A k \in 1..n : R(trace', k) <=> R(trace, k)
  <2> SUFFICES ASSUME NEW k \in 1..n PROVE R(trace', k) <=> R(trace, k)
    OBVIOUS
  <2>1. SubSeq(trace', 1, k - 1) = SubSeq(trace, 1, k - 1)
    BY <1>1, PrefixKept
  <2> QED BY <1>1, <2>1
<1>7. R(trace', n + 1) <=> p \notin Resident
  <2>1. SubSeq(trace', 1, n) = trace
    BY <1>1, WholePrefix
  <2>2. n + 1 - 1 = n
    BY <1>1
  <2>3. MostRecent(SubSeq(trace', 1, n + 1 - 1), FrameCount) = Resident
    BY <1>3, <2>1, <2>2
  <2> QED BY <1>1, <2>3
<1> HIDE DEF R
<1>8. new = IF p \in Resident THEN old ELSE old \cup {n + 1}
  BY <1>1, <1>6, <1>7
<1>9. page_faults' = IF p \in Resident THEN page_faults ELSE page_faults + 1
  <2>1. CASE TLBHit(p)
    <3>1. PICK k \in Slots : page_TLB[k] = p
      BY <2>1 DEF TLBHit, InTLB
    <3>2. p # NoPage
      BY VirtualMemoryAssumption DEF VirtualMemoryAssumption
    <3>3. p \in Resident
      BY <1>2, <3>1, <3>2
         DEF IInv, Part1InOrder, TLBFilled, Resident, LruExact, LruParts, SlotFresh, NeverStale
    <3> QED BY <2>1, <3>3 DEF TLBHit, tableVars
  <2>2. CASE PageTableHit(p)
    BY <2>2 DEF PageTableHit, Resident, tableVars
  <2>3. CASE PageFault(p)
    <3>1. p \notin Resident
      BY <2>3 DEF PageFault, Resident
    <3>2. page_faults' = page_faults + 1
      BY <2>3 DEF PageFault, LoadIntoNew, ReplaceFifo, ReplaceLru, Replace, LoadPage
    <3> QED BY <3>1, <3>2
  <2> QED BY <2>1, <2>2, <2>3 DEF Access
<1>10. IsFiniteSet(old) /\ n + 1 \notin old
  <2>1. old \subseteq 1..n /\ n + 1 \notin 1..n
    BY <1>1
  <2>2. IsFiniteSet(1..n)
    BY <1>1, FS_Interval
  <2> HIDE DEF old, n
  <2> QED BY <2>1, <2>2, FS_Subset
<1>11. Cardinality(old \cup {n + 1}) = Cardinality(old) + 1
  BY <1>10, FS_AddElement
<1> QED BY <1>4, <1>5, <1>8, <1>9, <1>11

-----------------------------------------------------------------------------
(* The TLB as a queue                                                      *)

\* g holds the queues after each of the first n pages of s.
AreQueues(g, s, n) ==
  g = [k \in 0..n |-> IF k = 0 THEN <<>> ELSE Enqueue(g[k - 1], s[k])]

\* AreQueues, element by element,
LEMMA QueuesAre ==
  ASSUME NEW g, NEW s, NEW n \in Nat, AreQueues(g, s, n)
  PROVE  /\ DOMAIN g = 0..n /\ g[0] = <<>>
         /\ \A k \in 1..n : g[k] = Enqueue(g[k - 1], s[k])
<1> DEFINE E(k) == IF k = 0 THEN <<>> ELSE Enqueue(g[k - 1], s[k])
<1>1. g = [k \in 0..n |-> E(k)]
  BY DEF AreQueues
<1>2. DOMAIN g = 0..n /\ \A k \in 0..n : g[k] = E(k)
  <2> HIDE DEF E
  <2>1. DOMAIN [k \in 0..n |-> E(k)] = 0..n
        /\ \A k \in 0..n : [l \in 0..n |-> E(l)][k] = E(k)
    OBVIOUS
  <2> QED BY <1>1, <2>1
<1>3. \A k \in 1..n : k \in 0..n /\ k # 0
  OBVIOUS
<1> QED BY <1>2, <1>3

\* and back.
LEMMA QueuesFrom ==
  ASSUME NEW g, NEW s, NEW n \in Nat, g = [k \in 0..n |-> g[k]], g[0] = <<>>,
         \A k \in 1..n : g[k] = Enqueue(g[k - 1], s[k])
  PROVE  AreQueues(g, s, n)
<1>1. ASSUME NEW k \in 0..n PROVE g[k] = IF k = 0 THEN <<>> ELSE Enqueue(g[k - 1], s[k])
  OBVIOUS
<1> DEFINE E(k) == IF k = 0 THEN <<>> ELSE Enqueue(g[k - 1], s[k])
<1>2. \A k \in 0..n : g[k] = E(k)
  BY <1>1
<1>3. g = [k \in 0..n |-> E(k)]
  <2> HIDE DEF E
  <2> QED BY <1>2
<1> QED BY <1>3 DEF AreQueues

\* There are such queues for every prefix; the least n without would follow one with.
LEMMA QueuesExist ==
  ASSUME NEW s, NEW n \in Nat
  PROVE  \E g : AreQueues(g, s, n)
<1> DEFINE Bad == {k \in Nat : ~\E g : AreQueues(g, s, k)}
<1> SUFFICES ASSUME Bad # {} PROVE FALSE
  OBVIOUS
<1>1. PICK m \in Bad : \A k \in Bad : m <= k
  <2>1. Bad \subseteq Nat
    OBVIOUS
  <2> HIDE DEF Bad
  <2> QED BY <2>1, LeastNatural
<1>2. m \in Nat /\ ~\E g : AreQueues(g, s, m)
  OBVIOUS
<1>3. CASE m = 0
  <2> DEFINE g == [k \in 0..0 |-> <<>>]
  <2>1. g = [k \in 0..0 |-> g[k]] /\ g[0] = <<>> /\ \A k \in 1..0 : g[k] = Enqueue(g[k - 1], s[k])
    OBVIOUS
  <2> HIDE DEF g
  <2>2. AreQueues(g, s, 0)
    BY <2>1, QueuesFrom
  <2> QED BY <1>2, <1>3, <2>2
<1>4. CASE m # 0
  <2>1. m - 1 \in Nat /\ ~(m <= m - 1)
    BY <1>2, <1>4
  <2>2. m - 1 \notin Bad
    BY <1>1, <2>1
  <2>3. PICK g : AreQueues(g, s, m - 1)
    BY <2>1, <2>2
  <2>4. /\ DOMAIN g = 0..m - 1 /\ g[0] = <<>>
        /\ \A k \in 1..m - 1 : g[k] = Enqueue(g[k - 1], s[k])
    BY <2>1, <2>3, QueuesAre
  <2> DEFINE h == [k \in 0..m |-> IF k < m THEN g[k] ELSE Enqueue(g[m - 1], s[m])]
  <2>5. h = [k \in 0..m |-> h[k]]
    OBVIOUS
  <2>6. \A k \in 0..m - 1 : h[k] = g[k]
    BY <1>2
  <2>7. h[m] = Enqueue(g[m - 1], s[m])
    BY <1>2
  <2> HIDE DEF h
  <2>8. h[0] = <<>>
    BY <1>2, <1>4, <2>4, <2>6
  <2>9. ASSUME NEW k \in 1..m PROVE h[k] = Enqueue(h[k - 1], s[k])
    <3>1. h[k - 1] = g[k - 1]
      <4>1. k - 1 \in 0..m - 1
        BY <1>2
      <4> QED BY <2>6, <4>1
    <3>2. CASE k = m
      BY <2>7, <3>1, <3>2
    <3>3. CASE k # m
      <4>1. k \in 1..m - 1 /\ k \in 0..m - 1
        BY <1>2, <3>3
      <4> QED BY <2>4, <2>6, <3>1, <4>1
    <3> QED BY <3>2, <3>3
  <2>10. AreQueues(h, s, m)
    BY <1>2, <2>5, <2>8, <2>9, QueuesFrom
  <2> QED BY <1>2, <2>10
<1> QED BY <1>3, <1>4

\* They depend on the pages they have taken only.
LEMMA QueuesAgree ==
  ASSUME NEW f, NEW g, NEW s, NEW t, NEW n \in Nat, NEW m \in Nat, n <= m,
         AreQueues(f, s, n), AreQueues(g, t, m), \A k \in 1..n : t[k] = s[k]
  PROVE  \A k \in 0..n : g[k] = f[k]
<1> DEFINE Bad == {k \in 0..n : g[k] # f[k]}
<1> SUFFICES ASSUME Bad # {} PROVE FALSE
  OBVIOUS
<1>1. PICK j \in Bad : \A k \in Bad : j <= k
  <2>1. Bad \subseteq Nat
    OBVIOUS
  <2> HIDE DEF Bad
  <2> QED BY <2>1, LeastNatural
<1>2. /\ f[0] = <<>> /\ g[0] = <<>>
      /\ \A k \in 1..n : f[k] = Enqueue(f[k - 1], s[k])
      /\ \A k \in 1..m : g[k] = Enqueue(g[k - 1], t[k])
  BY QueuesAre
<1>3. j \in 1..n /\ j \in 1..m /\ j - 1 \in 0..n /\ ~(j <= j - 1)
  BY <1>1, <1>2
<1>4. g[j - 1] = f[j - 1]
  BY <1>1, <1>3
<1> QED BY <1>1, <1>2, <1>3, <1>4

\* What TLBQueue computes.
LEMMA QueueIs ==
  ASSUME NEW s, Len(s) \in Nat
  PROVE  \E g : AreQueues(g, s, Len(s)) /\ TLBQueue(s) = g[Len(s)]
<1> DEFINE r == CHOOSE g : AreQueues(g, s, Len(s))
<1>1. AreQueues(r, s, Len(s))
  BY QueuesExist
<1>2. TLBQueue(s) = r[Len(s)]
  BY Zenon DEF TLBQueue, AreQueues
<1> QED BY <1>1, <1>2

\* The queue is empty at first
LEMMA QueueStarts == TLBQueue(<<>>) = <<>>
<1>1. Len(<<>>) = 0
  OBVIOUS
<1>2. PICK g : AreQueues(g, <<>>, 0) /\ TLBQueue(<<>>) = g[0]
  BY <1>1, QueueIs
<1> QED BY <1>2, QueuesAre

\* and takes one page per address.
LEMMA QueueGrows ==
  ASSUME NEW s \in Seq(Pages), NEW p \in Pages
  PROVE  TLBQueue(Append(s, p)) = Enqueue(TLBQueue(s), p)
<1> DEFINE t == Append(s, p)
           n == Len(s)
<1>1. n \in Nat /\ Len(t) = n + 1 /\ t[n + 1] = p /\ \A k \in 1..n : t[k] = s[k]
  OBVIOUS
<1> HIDE DEF t
<1>2. PICK f : AreQueues(f, s, n) /\ TLBQueue(s) = f[n]
  BY <1>1, QueueIs
<1>3. PICK g : AreQueues(g, t, n + 1) /\ TLBQueue(t) = g[n + 1]
  BY <1>1, QueueIs
<1> HIDE DEF n
<1>4. g[n] = f[n]
  BY <1>1, <1>2, <1>3, QueuesAgree
<1>5. g[n + 1] = Enqueue(g[n + 1 - 1], t[n + 1])
  BY <1>1, <1>3, QueuesAre
<1>6. n + 1 - 1 = n
  BY <1>1
<1> QED BY <1>1, <1>2, <1>3, <1>4, <1>5, <1>6 DEF t

\* SlotOf numbers the slots from the oldest entry on.
LEMMA SlotNumbers ==
  ASSUME TypeOK
  PROVE  /\ \A j \in 1..TableSize : SlotOf(j) \in Slots
         /\ \A k \in Slots : \E j \in 1..TableSize : SlotOf(j) = k
<1>1. TableSize \in Nat \ {0} /\ Oldest \in 0..TableSize - 1
  BY VirtualMemoryAssumption DEF VirtualMemoryAssumption, TypeOK, Oldest
<1>2. \A j \in 1..TableSize : SlotOf(j) \in Slots
  BY <1>1 DEF SlotOf, Slots
<1>3. ASSUME NEW k \in Slots PROVE \E j \in 1..TableSize : SlotOf(j) = k
  <2>1. CASE k >= Oldest
    <3>1. k - Oldest + 1 \in 1..TableSize /\ SlotOf(k - Oldest + 1) = k
      BY <1>1, <2>1 DEF SlotOf, Slots
    <3> QED BY <3>1
  <2>2. CASE k < Oldest
    <3>1. k - Oldest + 1 + TableSize \in 1..TableSize
          /\ SlotOf(k - Oldest + 1 + TableSize) = k
      BY <1>1, <2>2 DEF SlotOf, Slots
    <3> QED BY <3>1
  <2> QED BY <1>1, <2>1, <2>2 DEF Slots
<1> QED BY <1>2, <1>3

\* The pages in the TLB are those in the queue.
LEMMA TLBHoldsQueue ==
  ASSUME TypeOK, SlotsHoldQueue
  PROVE  Cached \ {NoPage} = ToSet(TLBQueue(trace))
<1> DEFINE q == TLBQueue(trace)
<1>1. /\ q \in Seq(Pages) /\ Len(q) <= TableSize
      /\ Len(q) < TableSize =>
           /\ TLB_entries = Len(q)
           /\ \A k \in Slots : page_TLB[k] = IF k < Len(q) THEN q[k + 1] ELSE NoPage
      /\ Len(q) = TableSize => \A j \in 1..TableSize : page_TLB[SlotOf(j)] = q[j]
  BY DEF SlotsHoldQueue
<1> HIDE DEF q
<1>2. /\ Len(q) \in Nat /\ TableSize \in Nat /\ DOMAIN q = 1..Len(q)
      /\ NoPage \notin Pages /\ \A j \in 1..Len(q) : q[j] \in Pages
  BY <1>1, VirtualMemoryAssumption DEF VirtualMemoryAssumption
<1>3. CASE Len(q) < TableSize
  <2>1. \A k \in Slots : page_TLB[k] = IF k < Len(q) THEN q[k + 1] ELSE NoPage
    BY <1>1, <1>3
  <2>2. ASSUME NEW k \in Slots, page_TLB[k] # NoPage PROVE page_TLB[k] \in ToSet(q)
    <3>1. k + 1 \in 1..Len(q) /\ page_TLB[k] = q[k + 1]
      BY <1>2, <2>1, <2>2 DEF Slots
    <3> QED BY <1>2, <3>1 DEF ToSet
  <2>3. ASSUME NEW j \in 1..Len(q) PROVE q[j] \in Cached \ {NoPage}
    <3>1. j - 1 \in Slots /\ j - 1 < Len(q) /\ j - 1 + 1 = j
      BY <1>2, <1>3 DEF Slots
    <3>2. page_TLB[j - 1] = q[j]
      BY <2>1, <3>1
    <3> QED BY <1>2, <3>1, <3>2 DEF Cached
  <2>4. Cached \ {NoPage} \subseteq ToSet(q)
    BY <2>2 DEF Cached
  <2>5. ToSet(q) \subseteq Cached \ {NoPage}
    BY <1>2, <2>3 DEF ToSet
  <2> QED BY <2>4, <2>5 DEF q
<1>4. CASE Len(q) = TableSize
  <2>1. \A j \in 1..TableSize : page_TLB[SlotOf(j)] = q[j]
    BY <1>1, <1>4
  <2>2. \A k \in Slots : page_TLB[k] \in ToSet(q)
    BY <1>2, <1>4, <2>1, SlotNumbers DEF ToSet
  <2>3. \A j \in 1..Len(q) : q[j] \in Cached \ {NoPage}
    BY <1>2, <1>4, <2>1, SlotNumbers DEF Cached
  <2>4. Cached \ {NoPage} \subseteq ToSet(q)
    BY <2>2 DEF Cached
  <2>5. ToSet(q) \subseteq Cached \ {NoPage}
    BY <1>2, <2>3 DEF ToSet
  <2> QED BY <2>4, <2>5 DEF q
<1> QED BY <1>1, <1>2, <1>3, <1>4

\* A page is found in the TLB exactly if it is in the queue.
LEMMA HitIsInQueue ==
  ASSUME TypeOK, SlotsHoldQueue, NEW p \in Pages
  PROVE  InTLB(p) <=> p \in ToSet(TLBQueue(trace))
<1>1. p # NoPage
  BY VirtualMemoryAssumption DEF VirtualMemoryAssumption
<1> QED BY <1>1, TLBHoldsQueue DEF InTLB, Cached

\* update_TLB appends to the queue, and drops its head when it is full.
LEMMA UpdateEnqueues ==
  ASSUME TypeOK, SlotsHoldQueue, NEW p \in Pages, NEW f, ~InTLB(p),
         update_TLB(p, f), trace' = Append(trace, p)
  PROVE  SlotsHoldQueue'
<1> DEFINE q == TLBQueue(trace)
           r == TLBQueue(trace')
           slot == IF TLB_entries >= TableSize THEN 0 ELSE TLB_entries
<1>1. /\ q \in Seq(Pages) /\ Len(q) <= TableSize
      /\ Len(q) < TableSize =>
           /\ TLB_entries = Len(q)
           /\ \A k \in Slots : page_TLB[k] = IF k < Len(q) THEN q[k + 1] ELSE NoPage
      /\ Len(q) = TableSize => \A j \in 1..TableSize : page_TLB[SlotOf(j)] = q[j]
  BY DEF SlotsHoldQueue
<1>2. r = Append(IF Len(q) = TableSize THEN Tail(q) ELSE q, p)
  <2>1. r = Enqueue(q, p)
    BY QueueGrows DEF TypeOK
  <2>2. p \notin ToSet(q)
    BY HitIsInQueue
  <2> QED BY <2>1, <2>2 DEF Enqueue
<1>3. /\ page_TLB \in [Slots -> Pages \cup {NoPage}] /\ TLB_entries \in 0..TableSize
      /\ TableSize \in Nat \ {0} /\ Len(q) \in Nat
  BY <1>1, VirtualMemoryAssumption DEF TypeOK, VirtualMemoryAssumption
<1>4. slot \in Slots /\ slot = Oldest
  BY <1>3 DEF Slots, Oldest
<1>5. page_TLB' = [page_TLB EXCEPT ![slot] = p] /\ TLB_entries' = slot + 1
  BY DEF update_TLB
<1>6. \A k \in Slots : page_TLB'[k] = IF k = slot THEN p ELSE page_TLB[k]
  BY <1>3, <1>4, <1>5
<1>7. /\ r \in Seq(Pages) /\ Len(r) <= TableSize
      /\ Len(r) < TableSize =>
           /\ TLB_entries' = Len(r)
           /\ \A k \in Slots : page_TLB'[k] = IF k < Len(r) THEN r[k + 1] ELSE NoPage
      /\ Len(r) = TableSize => \A j \in 1..TableSize : page_TLB'[SlotOf(j)'] = r[j]
  <2>1. CASE Len(q) < TableSize
    <3>1. /\ r \in Seq(Pages) /\ Len(r) = Len(q) + 1 /\ r[Len(q) + 1] = p
          /\ \A k \in 1..Len(q) : r[k] = q[k]
      BY <1>1, <1>2, <1>3, <2>1
    <3>2. slot = Len(q) /\ TLB_entries' = Len(q) + 1
      BY <1>1, <1>3, <1>5, <2>1
    <3>3. ASSUME NEW k \in Slots
          PROVE  page_TLB'[k] = IF k < Len(r) THEN r[k + 1] ELSE NoPage
      <4>1. page_TLB[k] = IF k < Len(q) THEN q[k + 1] ELSE NoPage
        BY <1>1, <2>1
      <4>2. CASE k = Len(q)
        BY <1>3, <1>6, <3>1, <3>2, <4>2
      <4>3. CASE k < Len(q)
        <5>1. k + 1 \in 1..Len(q) /\ k < Len(r) /\ k # slot
          BY <1>3, <3>1, <3>2, <4>3 DEF Slots
        <5> QED BY <1>6, <3>1, <4>1, <4>3, <5>1
      <4>4. CASE k > Len(q)
        <5>1. ~(k < Len(r)) /\ ~(k < Len(q)) /\ k # slot
          BY <1>3, <3>1, <3>2, <4>4 DEF Slots
        <5> QED BY <1>6, <4>1, <5>1
      <4> QED BY <1>3, <4>2, <4>3, <4>4 DEF Slots
    <3>4. ASSUME Len(r) = TableSize, NEW j \in 1..TableSize
          PROVE  page_TLB'[SlotOf(j)'] = r[j]
      <4>1. SlotOf(j)' = j - 1
        BY <1>3, <3>1, <3>2, <3>4 DEF SlotOf, Oldest
      <4>2. j - 1 \in Slots /\ j - 1 < Len(r) /\ j - 1 + 1 = j
        BY <1>3, <3>4 DEF Slots
      <4> QED BY <3>3, <4>1, <4>2
    <3> QED BY <1>3, <2>1, <3>1, <3>2, <3>3, <3>4
  <2>2. CASE Len(q) = TableSize
    <3>1. q # <<>> /\ Tail(q) \in Seq(Pages) /\ Len(Tail(q)) = TableSize - 1
          /\ \A k \in 1..TableSize - 1 : Tail(q)[k] = q[k + 1]
      BY <1>1, <1>3, <2>2, HeadTailProperties
    <3>2. /\ r \in Seq(Pages) /\ Len(r) = TableSize /\ r[TableSize] = p
          /\ \A k \in 1..TableSize - 1 : r[k] = q[k + 1]
      BY <1>2, <1>3, <2>2, <3>1
    <3>3. ASSUME NEW j \in 1..TableSize PROVE page_TLB'[SlotOf(j)'] = r[j]
      <4>1. CASE j = TableSize
        <5>1. SlotOf(j)' = slot
          BY <1>3, <1>5, <4>1 DEF SlotOf, Oldest
        <5> QED BY <1>4, <1>6, <3>2, <4>1, <5>1
      <4>2. CASE j < TableSize
        <5>1. j + 1 \in 1..TableSize /\ j \in 1..TableSize - 1
          BY <1>3, <4>2
        <5>2. SlotOf(j)' = SlotOf(j + 1) /\ SlotOf(j + 1) # slot /\ SlotOf(j + 1) \in Slots
          BY <1>3, <1>5, <4>2 DEF SlotOf, Oldest, Slots
        <5>3. page_TLB[SlotOf(j + 1)] = q[j + 1]
          BY <1>1, <2>2, <5>1
        <5> QED BY <1>6, <3>2, <5>1, <5>2, <5>3
      <4> QED BY <1>3, <4>1, <4>2
    <3> QED BY <1>3, <3>2, <3>3
  <2> QED BY <1>1, <1>3, <2>1, <2>2
<1> QED BY <1>7 DEF SlotsHoldQueue

\* Every access keeps SlotsHoldQueue.
LEMMA QueueAccess ==
  ASSUME TypeOK, SlotsHoldQueue, NEW p \in Pages, Access(p)
  PROVE  SlotsHoldQueue'
<1>1. trace' = Append(trace, p) /\ trace \in Seq(Pages)
  BY DEF Access, TypeOK
<1>2. CASE InTLB(p)
  <2>1. UNCHANGED tlbVars
    BY <1>2 DEF Access, TLBHit, PageTableHit, PageFault
  <2>2. TLBQueue(trace') = TLBQueue(trace)
    BY <1>1, <1>2, QueueGrows, HitIsInQueue DEF Enqueue
  <2> QED BY <2>1, <2>2 DEF SlotsHoldQueue, SlotOf, Oldest, tlbVars
<1>3. CASE ~InTLB(p)
  <2>1. \E f : update_TLB(p, f)
    BY <1>3 DEF Access, TLBHit, PageTableHit, PageFault
  <2> QED BY <1>1, <1>3, <2>1, UpdateEnqueues
<1> QED BY <1>2, <1>3

\* TLB_hits counts the addresses the queue held.
LEMMA HitsCounted ==
  ASSUME TypeOK, SlotsHoldQueue, TLBIsFifo, NEW p \in Pages, Access(p), TypeOK'
  PROVE  TLBIsFifo'
<1> DEFINE n == Len(trace)
           R(s, k) == s[k] \in ToSet(TLBQueue(SubSeq(s, 1, k - 1)))
           old == {k \in 1..n : R(trace, k)}
           new == {k \in 1..n + 1 : R(trace', k)}
<1>1. /\ trace \in Seq(Pages) /\ trace' = Append(trace, p) /\ n \in Nat
      /\ DOMAIN trace = 1..n /\ DOMAIN trace' = 1..n + 1
      /\ trace'[n + 1] = p /\ \A k \in 1..n : trace'[k] = trace[k]
  BY DEF Access, TypeOK
<1>2. TLB_hits = Cardinality(old)
  BY <1>1 DEF TLBIsFifo
<1>3. (Cached \ {NoPage})' = ToSet(TLBQueue(trace'))
  <2>1. SlotsHoldQueue'
    BY QueueAccess
  <2>2. ASSUME TypeOK', SlotsHoldQueue' PROVE (Cached \ {NoPage} = ToSet(TLBQueue(trace)))'
    BY <2>2, TLBHoldsQueue, PTL
  <2> QED BY <2>1, <2>2
<1>4. TLBIsFifo' <=> TLB_hits' = Cardinality(new)
  BY <1>1, <1>3 DEF TLBIsFifo, Cached
<1>5. \A k \in 1..n : R(trace', k) <=> R(trace, k)
  <2> SUFFICES ASSUME NEW k \in 1..n PROVE R(trace', k) <=> R(trace, k)
    OBVIOUS
  <2>1. SubSeq(trace', 1, k - 1) = SubSeq(trace, 1, k - 1)
    BY <1>1, PrefixKept
  <2> QED BY <1>1, <2>1
<1>6. R(trace', n + 1) <=> InTLB(p)
  <2>1. SubSeq(trace', 1, n) = trace
    BY <1>1, WholePrefix
  <2>2. n + 1 - 1 = n
    BY <1>1
  <2>3. TLBQueue(SubSeq(trace', 1, n + 1 - 1)) = TLBQueue(trace)
    BY <2>1, <2>2
  <2> QED BY <1>1, <2>3, HitIsInQueue
<1> HIDE DEF R
<1>7. new = IF InTLB(p) THEN old \cup {n + 1} ELSE old
  BY <1>1, <1>5, <1>6
<1>8. TLB_hits' = IF InTLB(p) THEN TLB_hits + 1 ELSE TLB_hits
  BY DEF Access, TLBHit, PageTableHit, PageFault
<1>9. IsFiniteSet(old) /\ n + 1 \notin old
  <2>1. old \subseteq 1..n /\ n + 1 \notin 1..n
    BY <1>1
  <2>2. IsFiniteSet(1..n)
    BY <1>1, FS_Interval
  <2> HIDE DEF old, n
  <2> QED BY <2>1, <2>2, FS_Subset
<1>10. Cardinality(old \cup {n + 1}) = Cardinality(old) + 1
  BY <1>9, FS_AddElement
<1> QED BY <1>2, <1>4, <1>7, <1>8, <1>10

-----------------------------------------------------------------------------

\* The references hold of the empty trace.
LEMMA RecentInitially ==
  ASSUME Init
  PROVE  LruExact /\ KeepsAll /\ FaultsExact /\ SlotsHoldQueue /\ TLBIsFifo
<1>1. Resident = {} /\ trace = <<>> /\ DOMAIN trace = {} /\ Len(trace) = 0
      /\ ToSet(trace) = {}
  BY DEF Init, Resident, ToSet
<1>2. KeepsAll
  BY <1>1 DEF KeepsAll
<1>3. LruExact
  <2>1. free_page = 0 /\ \A k \in Slots : page_TLB[k] = NoPage
    BY DEF Init
  <2>2. \A f \in 0..Frames - 1 : ~(f < 0)
    BY VirtualMemoryAssumption DEF VirtualMemoryAssumption
  <2> QED BY <1>1, <2>1, <2>2 DEF LruExact, LruParts, FramesInUse
<1>4. FaultsExact
  <2>1. {k \in DOMAIN trace : trace[k] \notin MostRecent(SubSeq(trace, 1, k - 1), FrameCount)} = {}
    BY <1>1
  <2>2. page_faults = 0
    BY DEF Init
  <2> QED BY <2>1, <2>2, FS_EmptySet DEF FaultsExact
<1>5. TLBQueue(trace) = <<>> /\ ToSet(<<>>) = {} /\ TableSize \in Nat \ {0}
  BY <1>1, QueueStarts, VirtualMemoryAssumption DEF ToSet, VirtualMemoryAssumption
<1>6. SlotsHoldQueue
  <2>1. Len(<<>>) = 0 /\ <<>> \in Seq(Pages)
    OBVIOUS
  <2>2. TLB_entries = 0 /\ \A k \in Slots : page_TLB[k] = IF k < 0 THEN <<>>[k + 1] ELSE NoPage
    BY <1>5 DEF Init, Slots
  <2> QED BY <1>5, <2>1, <2>2 DEF SlotsHoldQueue
<1>7. TLBIsFifo
  <2>1. {page_TLB[k] : k \in Slots} \ {NoPage} = {}
    BY DEF Init
  <2>2. {k \in DOMAIN trace : trace[k] \in ToSet(TLBQueue(SubSeq(trace, 1, k - 1)))} = {}
    BY <1>1
  <2>3. TLB_hits = 0
    BY DEF Init
  <2> QED BY <1>5, <2>1, <2>2, <2>3, FS_EmptySet DEF TLBIsFifo
<1> QED BY <1>2, <1>3, <1>4, <1>6, <1>7

\* The references' invariant.
RInv == LruExact /\ KeepsAll /\ FaultsExact /\ SlotsHoldQueue /\ TLBIsFifo

\* RInv holds of every state the programs reach.
THEOREM RecentInvariance == Spec => []RInv
<1>1. Init => RInv
  BY RecentInitially DEF RInv
<1>2. IInv /\ IInv' /\ RInv /\ [Next]_vars => RInv'
  <2> SUFFICES ASSUME IInv, IInv', RInv, [Next]_vars PROVE RInv'
    OBVIOUS
  <2>1. CASE UNCHANGED vars
    BY <2>1 DEF RInv, vars, tlbVars, tableVars, LruExact, KeepsAll, FaultsExact,
       LruParts, SlotsHoldQueue, TLBIsFifo, NeverStale, FramesInUse, Stamped, SlotFresh, Age,
       Since, Cached, Resident, FrameCount, SlotOf, Oldest
  <2>2. ASSUME NEW p \in Pages, Access(p) PROVE RInv'
    BY <2>2, LruAccess, PartOneAccess, FaultsCounted, QueueAccess, HitsCounted
       DEF RInv, IInv
  <2> QED BY <2>1, <2>2 DEF Next
<1> QED BY <1>1, <1>2, Invariance, PTL DEF Spec

\* The TLB agrees with the page table although nothing invalidates its entries, if
\* nothing is replaced or LRU has Frames >= 2 * TableSize - 1.
THEOREM TLBAlwaysCoherent == Spec => []TLBCoherent
<1>1. IInv /\ RInv => TLBCoherent
  BY DEF IInv, RInv, LruExact, LruParts, SlotFresh, Part1InOrder, TLBCoherent, NeverStale
<1> QED BY <1>1, RecentInvariance, Invariance, PTL

\* The least recently used page is the one replaced, and only when memory is full.
THEOREM LruIsExact == Spec => []MostRecentResident
<1>1. IInv /\ RInv => MostRecentResident
  BY ResidentIsRecent DEF RInv, MostRecentResident
<1> QED BY <1>1, RecentInvariance, Invariance, PTL

\* page_faults is what textbook LRU counts.
THEOREM FaultsAreExact == Spec => []FaultsExact
BY RecentInvariance, PTL DEF RInv

\* The TLB is a FIFO queue and TLB_hits counts what it holds, for all three programs.
THEOREM TLBIsAlwaysFifo == Spec => []TLBIsFifo
BY RecentInvariance, PTL DEF RInv

\* Part 1, and the LRU program with enough frames, print the byte of the page they
\* were asked for.
THEOREM ReadsRequested == Spec => [](NeverStale => ReadsRequestedPage)
<1> DEFINE Right == NeverStale => ReadsRequestedPage
<1>1. Init => Right
  BY DEF Init, ReadsRequestedPage
<1>2. IInv /\ IInv' /\ RInv /\ RInv' /\ Right /\ [Next]_vars => Right'
  <2> SUFFICES ASSUME IInv, IInv', RInv, RInv', Right, [Next]_vars, NeverStale'
               PROVE  ReadsRequestedPage'
    OBVIOUS
  <2>1. CASE UNCHANGED vars
    BY <2>1 DEF vars, ReadsRequestedPage, NeverStale
  <2>2. ASSUME NEW p \in Pages, Access(p) PROVE ReadsRequestedPage'
    <3>1. /\ strategy' = strategy /\ trace \in Seq(Pages) /\ trace' = Append(trace, p)
          /\ value' = memory'[frame_num'] /\ Last(trace') = p
      BY <2>2 DEF Access, IInv, TypeOK, Last
    <3>2. frame_num' = page_table'[p] /\ p \in Resident'
      <4>1. CASE TLBHit(p)
        <5>1. PICK k \in Slots : page_TLB[k] = p /\ frame_num' = frame_TLB[k]
          BY <4>1, FoundInTLB DEF TLBHit
        <5>2. UNCHANGED tlbVars /\ UNCHANGED tableVars /\ p # NoPage
          BY <4>1, VirtualMemoryAssumption DEF TLBHit, VirtualMemoryAssumption
        <5>3. TLBCoherent' /\ TLBFilled'
          BY DEF IInv, RInv, LruExact, LruParts, SlotFresh, Part1InOrder, TLBCoherent, NeverStale
        <5>4. page_TLB'[k] = p /\ frame_TLB'[k] = frame_num'
          BY <5>1, <5>2 DEF tlbVars
        <5>5. page_table'[p] = frame_num' /\ frame_num' # NOT_FOUND
          BY <5>2, <5>3, <5>4 DEF TLBCoherent, TLBFilled
        <5> QED BY <5>5 DEF Resident
      <4>2. CASE PageTableHit(p)
        BY <4>2 DEF PageTableHit, Resident, tableVars
      <4>3. CASE PageFault(p)
        <5>1. page_table \in [Pages -> Range0 \cup {NOT_FOUND}]
          BY DEF IInv, TypeOK, Range0
        <5>2. PICK f \in Range0 : LoadPage(p, f) /\
                (page_table' = [page_table EXCEPT ![p] = f] \/ page_table' = [Swept(f) EXCEPT ![p] = f])
          BY <4>3, LoadIs DEF PageFault
        <5>3. Swept(f) \in [Pages -> Range0 \cup {NOT_FOUND}] /\ f # NOT_FOUND
          BY <5>1, CountIsNat DEF Swept, Range0, NOT_FOUND
        <5>4. page_table'[p] = f /\ frame_num' = f
          BY <5>1, <5>2, <5>3 DEF LoadPage
        <5> QED BY <5>3, <5>4 DEF Resident
      <4> QED BY <2>2, <4>1, <4>2, <4>3 DEF Access
    <3>3. memory'[page_table'[p]] = p
      BY <3>2 DEF IInv, PageTableSound
    <3> QED BY <3>1, <3>2, <3>3 DEF ReadsRequestedPage
  <2> QED BY <2>1, <2>2 DEF Next
<1> QED BY <1>1, <1>2, RecentInvariance, Invariance, PTL DEF Spec

\* In particular, part 1 prints the byte of the page it was asked for.
THEOREM Part1ReadsRequested == Spec => [](strategy = "part1" => ReadsRequestedPage)
BY ReadsRequested, PTL DEF NeverStale
=============================================================================
