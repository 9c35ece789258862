\* A frame is replaced while the TLB still maps its old page to it.
SPECIFICATION Spec
CONSTANTS
  Pages = {p1, p2, p3, p4, p5, p6}
  Frames = 3
  TableSize = 2
  Minimum = 9999
  Strategies = {"fifo"}
  NoPage = NoPage
  MaxAccesses = 9
INVARIANTS ReadsRequestedPage
SYMMETRY Symmetry
CHECK_DEADLOCK FALSE
