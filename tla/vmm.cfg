\* Two TLB slots and three frames, the least for which LRU keeps the TLB right;
\* six pages and nine addresses, so that every structure overflows.
SPECIFICATION Spec
CONSTANTS
  Pages = {p1, p2, p3, p4, p5, p6}
  Frames = 3
  TableSize = 2
  Minimum = 9999
  Strategies = {"part1", "fifo", "lru"}
  NoPage = NoPage
  MaxAccesses = 9
INVARIANTS TypeOK PageTableSound TLBCoherent MostRecentResident FaultsExact TLBIsFifo
SYMMETRY Symmetry
CHECK_DEADLOCK FALSE
