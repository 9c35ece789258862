---------------------------- MODULE VirtualMemory ----------------------------
(***************************************************************************)
(* The virtual memory simulators of PA5.  part1.cpp has a frame for every  *)
(* page; part2.cpp has fewer and replaces frames, in the order they were   *)
(* filled ("fifo") or least recently used first ("lru").  Both translate   *)
(* one address per iteration: look in the TLB, then in the page table,     *)
(* then read the page from the backing store.                              *)
(*                                                                         *)
(* An address stands for its page: the offset only selects a byte within   *)
(* the frame.  A frame's content stands for the page it was read from, so  *)
(* the byte printed is right exactly when that page is the requested one.  *)
(* The addresses are those of the 16-bit space the page table covers.      *)
(***************************************************************************)
EXTENDS Integers, Sequences, FiniteSets, SequencesExt

CONSTANTS
  Pages,       \* the pages of the address space, TABLE_ENTRIES of them
  Frames,      \* FRAMES of part2.cpp
  TableSize,   \* TABLE_SIZE: the slots of the TLB
  Minimum,     \* where handleLRU starts its search for a minimum: 9999
  Strategies,  \* the programs checked: "part1", "fifo", "lru"
  NoPage,      \* the -1 of a TLB slot or frame that holds no page
  MaxAccesses  \* bound: the address file has at most this many lines

ASSUME VirtualMemoryAssumption ==
  /\ IsFiniteSet(Pages) /\ NoPage \notin Pages
  /\ Frames \in Nat \ {0} /\ TableSize \in Nat \ {0}
  /\ Minimum \in Nat \ {0} /\ MaxAccesses \in Nat
  /\ Strategies \subseteq {"part1", "fifo", "lru"}

NOT_FOUND == -1
Slots == 0..TableSize - 1

VARIABLES
  strategy,                \* the program run, and argv[3] if it is part 2
  trace,                   \* the pages of the addresses read so far
  page_TLB, frame_TLB,     \* the TLB
  TLB_entries, TLB_hits,
  page_table, memory,
  free_frame, free_page, page_faults,
  timer,                   \* when each frame was last used
  frame_num,               \* the frame of the last address
  value                    \* what its byte was read from

tlbVars   == <<page_TLB, frame_TLB, TLB_entries>>
tableVars == <<page_table, memory, free_frame, free_page, page_faults>>
vars == <<strategy, trace, tlbVars, TLB_hits, tableVars, timer, frame_num,
          value>>

FrameCount == IF strategy = "part1" THEN Cardinality(Pages) ELSE Frames

Init ==
  /\ strategy \in Strategies
  /\ trace = <<>>
  /\ page_TLB = [k \in Slots |-> NoPage]
  /\ frame_TLB = [k \in Slots |-> NOT_FOUND]
  /\ TLB_entries = 0 /\ TLB_hits = 0
  /\ page_table = [p \in Pages |-> NOT_FOUND]
  /\ memory = [f \in 0..FrameCount - 1 |-> NoPage]
  /\ free_frame = 0 /\ free_page = 0 /\ page_faults = 0
  /\ timer = [f \in 0..FrameCount - 1 |-> 0]
  /\ frame_num = NOT_FOUND /\ value = NoPage

-----------------------------------------------------------------------------
InTLB(p) == \E k \in Slots : page_TLB[k] = p

\* The frame of the first slot that holds page p.
get_frame_TLB(p) ==
  frame_TLB[CHOOSE k \in Slots : /\ page_TLB[k] = p
                                 /\ \A l \in Slots : page_TLB[l] = p => k <= l]

\* Mutant: the index never wraps.
update_TLB_NoWrap(p, f) ==
  /\ page_TLB' = [page_TLB EXCEPT ![TLB_entries] = p]
  /\ frame_TLB' = [frame_TLB EXCEPT ![TLB_entries] = f]
  /\ TLB_entries' = TLB_entries + 1

\* The next slot, wrapping at the end of the table.
update_TLB(p, f) ==
  LET slot == IF TLB_entries >= TableSize THEN 0 ELSE TLB_entries
  IN  /\ page_TLB' = [page_TLB EXCEPT ![slot] = p]
      /\ frame_TLB' = [frame_TLB EXCEPT ![slot] = f]
      /\ TLB_entries' = slot + 1

\* Mutant: the frame with the greatest timer.
handleLRU_MostRecent ==
  CHOOSE f \in DOMAIN timer : \A g \in DOMAIN timer : timer[f] >= timer[g]

\* The first frame with the least timer below Minimum, or else frame 0.
handleLRU ==
  LET old == {f \in DOMAIN timer : timer[f] < Minimum}
  IN  IF old = {} THEN 0
      ELSE CHOOSE f \in old : \A g \in old :
             timer[f] < timer[g] \/ (timer[f] = timer[g] /\ f <= g)

\* Mutant: they stay in the page table, too.
Swept_Nothing(f) == page_table

\* The pages the victim frame held leave the page table, not the TLB.
Swept(f) == [p \in Pages |-> IF page_table[p] = f THEN NOT_FOUND
                                                  ELSE page_table[p]]

\* fread of page p into frame f, and what all three programs do then.
LoadPage(p, f) ==
  /\ memory' = [memory EXCEPT ![f] = p]
  /\ free_frame' = f + 1
  /\ page_faults' = page_faults + 1
  /\ frame_num' = f

\* update_page_table of part1.cpp.
LoadIntoNew(p) ==
  /\ strategy = "part1"
  /\ LoadPage(p, free_frame)
  /\ page_table' = [page_table EXCEPT ![p] = free_frame]
  /\ UNCHANGED free_page

Replace(p, f) ==
  /\ LoadPage(p, f)
  /\ page_table' = [Swept(f) EXCEPT ![p] = f]
  /\ free_page' = free_page + 1

ReplaceFifo(p) ==
  /\ strategy = "fifo"
  /\ Replace(p, IF free_frame >= Frames THEN 0 ELSE free_frame)

\* Mutant: the test for a full memory is that of FIFO.
ReplaceLru_ByFrame(p) ==
  /\ strategy = "lru"
  /\ Replace(p, IF free_frame >= Frames THEN handleLRU ELSE free_frame)

ReplaceLru(p) ==
  /\ strategy = "lru"
  /\ Replace(p, IF free_page >= Frames THEN handleLRU ELSE free_frame)

TLBHit(p) ==
  /\ InTLB(p)
  /\ frame_num' = get_frame_TLB(p)
  /\ TLB_hits' = TLB_hits + 1
  /\ UNCHANGED <<tlbVars, tableVars>>

\* Mutant: the TLB is not told of a page found in the page table.
PageTableHit_NoUpdate(p) ==
  /\ ~InTLB(p) /\ page_table[p] # NOT_FOUND
  /\ frame_num' = page_table[p]
  /\ UNCHANGED <<tlbVars, TLB_hits, tableVars>>

PageTableHit(p) ==
  /\ ~InTLB(p) /\ page_table[p] # NOT_FOUND
  /\ frame_num' = page_table[p]
  /\ update_TLB(p, page_table[p])
  /\ UNCHANGED <<TLB_hits, tableVars>>

PageFault(p) ==
  /\ ~InTLB(p) /\ page_table[p] = NOT_FOUND
  /\ LoadIntoNew(p) \/ ReplaceFifo(p) \/ ReplaceLru(p)
  /\ update_TLB(p, frame_num')
  /\ UNCHANGED TLB_hits

\* Mutant: only a page fault counts as a use of the frame.
Touch_OnFault(f) == timer' = IF strategy = "part1" \/ page_faults' = page_faults
                             THEN timer
                             ELSE [timer EXCEPT ![f] = Len(trace) + 1]

\* count++ and timer[frame_num] = count, in part 2 only.
Touch(f) == timer' = IF strategy = "part1" THEN timer
                     ELSE [timer EXCEPT ![f] = Len(trace) + 1]

\* One iteration of the loop over the address file.
Access(p) ==
  /\ Len(trace) < MaxAccesses
  /\ TLBHit(p) \/ PageTableHit(p) \/ PageFault(p)
  /\ Touch(frame_num')
  /\ value' = memory'[frame_num']
  /\ trace' = Append(trace, p)
  /\ UNCHANGED strategy

Next == \E p \in Pages : Access(p)

Spec == Init /\ [][Next]_vars

-----------------------------------------------------------------------------
(* Properties                                                              *)

\* The types of the variables; every index lies within its array.
TypeOK ==
  /\ strategy \in Strategies /\ trace \in Seq(Pages)
  /\ page_TLB \in [Slots -> Pages \cup {NoPage}]
  /\ frame_TLB \in [Slots -> 0..FrameCount - 1 \cup {NOT_FOUND}]
  /\ TLB_entries \in 0..TableSize /\ TLB_hits \in Nat
  /\ page_table \in [Pages -> 0..FrameCount - 1 \cup {NOT_FOUND}]
  /\ memory \in [0..FrameCount - 1 -> Pages \cup {NoPage}]
  /\ free_frame \in 0..FrameCount /\ free_page \in Nat /\ page_faults \in Nat
  /\ timer \in [0..FrameCount - 1 -> Nat]
  /\ frame_num \in 0..FrameCount - 1 \cup {NOT_FOUND}
  /\ value \in Pages \cup {NoPage}

Resident == {p \in Pages : page_table[p] # NOT_FOUND}

\* The page table never points to a frame that holds another page, whichever
\* frame was replaced last (so no two pages share a frame).
PageTableSound == \A p \in Resident : memory[page_table[p]] = p

\* Without replacement, and with LRU replacement if Frames >= 2 * TableSize - 1
\* and the timers have not passed Minimum, the TLB agrees with the page table
\* although nothing ever invalidates its entries: a page leaves the TLB before
\* it can be the least recently used.
NeverStale ==
  \/ strategy = "part1"
  \/ strategy = "lru" /\ Frames >= 2 * TableSize - 1 /\ Len(trace) <= Minimum

TLBCoherent ==
  NeverStale =>
    \A k \in Slots : page_TLB[k] # NoPage => page_table[page_TLB[k]] = frame_TLB[k]

\* The pages of the longest suffix of s with at most n different pages.
MostRecent(s, n) ==
  {s[k] : k \in {l \in DOMAIN s :
                   Cardinality({s[j] : j \in l..Len(s)}) <= n}}

\* The pages in memory are the most recently used ones: handleLRU replaces the
\* least recently used page, and only when memory is full.  A stale TLB entry
\* would touch the timer of another page's frame.
MostRecentResident ==
  NeverStale => Resident = MostRecent(trace, FrameCount)

\* page_faults is what textbook LRU would count on the same addresses (without
\* replacement: one for each page used).
FaultsExact ==
  NeverStale =>
    page_faults = Cardinality({k \in DOMAIN trace :
      trace[k] \notin MostRecent(SubSeq(trace, 1, k - 1), FrameCount)})

\* A bounded FIFO queue of pages that takes the pages it does not hold.
Enqueue(q, p) ==
  IF p \in ToSet(q) THEN q
  ELSE Append(IF Len(q) = TableSize THEN Tail(q) ELSE q, p)

\* The queue after the pages of s.
TLBQueue(s) ==
  LET queue[n \in 0..Len(s)] ==
        IF n = 0 THEN <<>> ELSE Enqueue(queue[n - 1], s[n])
  IN  queue[Len(s)]

\* The two arrays and the wrapping index implement a FIFO queue, and TLB_hits
\* counts the addresses it held, whatever happens to the frames.
TLBIsFifo ==
  /\ {page_TLB[k] : k \in Slots} \ {NoPage} = ToSet(TLBQueue(trace))
  /\ TLB_hits = Cardinality({k \in DOMAIN trace :
       trace[k] \in ToSet(TLBQueue(SubSeq(trace, 1, k - 1)))})

\* The byte printed for an address is the one of the page requested: "Value"
\* in the output is the value the backing store holds at that address.
ReadsRequestedPage == trace # <<>> => value = Last(trace)
=============================================================================
