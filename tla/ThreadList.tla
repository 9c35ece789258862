----------------------------- MODULE ThreadList -----------------------------
(***************************************************************************)
(* The doubly linked list of PA4 (list.c), one assignment at a time.       *)
(* Every operation holds list->lock, but next_worker (scheduler.c) reads   *)
(* sched_queue.head without it, so what lies between two assignments can   *)
(* be seen.  `queue` is the list as Scheduler.tla has it, a sequence that  *)
(* changes in one step: with the assignment that makes the change visible  *)
(* to a reader that starts at head.                                        *)
(*                                                                         *)
(* An element that is in the list is not inserted again: the module covers *)
(* what happens up to the step RotateInAgain of Scheduler.tla.  Removing   *)
(* one that is not there is allowed (two handlers may both rotate a        *)
(* worker).  print_list is left out.                                       *)
(***************************************************************************)
EXTENDS Integers, Sequences

CONSTANTS
  Elements,   \* the list_elems of the workers
  NULL

ASSUME ThreadListAssumption == NULL \notin Elements

VARIABLES
  head, tail,   \* of the list
  next, prev,   \* of every element
  queue,        \* the list as a sequence
  pc,           \* where the operation that holds the lock is; "idle": unlocked
  elem, cnt     \* its locals: new, old or le; the count

links == <<next, prev>>
ends  == <<head, tail>>
vars  == <<ends, links, queue, pc, elem, cnt>>

\* What enter_scheduler_queue stores in a new element, and init_sched_queue.
Init ==
  /\ head = NULL /\ tail = NULL
  /\ next = [e \in Elements |-> NULL] /\ prev = [e \in Elements |-> NULL]
  /\ queue = <<>>
  /\ pc = "idle" /\ elem = NULL /\ cnt = 0

InQueue(e) == \E i \in 1..Len(queue) : queue[i] = e

Goto(from, to) == pc = from /\ pc' = to

-----------------------------------------------------------------------------
(* list_insert_tail                                                        *)

InsertTail(e) ==
  /\ ~InQueue(e)
  /\ Goto("idle", "tail_link") /\ elem' = e
  /\ prev' = [prev EXCEPT ![e] = tail] /\ next' = [next EXCEPT ![e] = NULL]
  /\ UNCHANGED <<ends, queue, cnt>>

LinkBehindLast ==
  /\ Goto("tail_link", "tail_set")
  /\ IF prev[elem] # NULL
     THEN next' = [next EXCEPT ![prev[elem]] = elem] /\ queue' = Append(queue, elem)
     ELSE UNCHANGED <<next, queue>>
  /\ UNCHANGED <<ends, prev, elem, cnt>>

SetTail ==
  /\ Goto("tail_set", "tail_head")
  /\ tail' = elem
  /\ UNCHANGED <<head, links, queue, elem, cnt>>

SetHeadIfEmpty ==
  /\ Goto("tail_head", "idle")
  /\ IF head = NULL THEN head' = elem /\ queue' = <<elem>>
                    ELSE UNCHANGED <<head, queue>>
  /\ elem' = NULL
  /\ UNCHANGED <<tail, links, cnt>>

-----------------------------------------------------------------------------
(* list_insert_head                                                        *)

InsertHead(e) ==
  /\ ~InQueue(e)
  /\ Goto("idle", "head_link") /\ elem' = e
  /\ next' = [next EXCEPT ![e] = head] /\ prev' = [prev EXCEPT ![e] = NULL]
  /\ UNCHANGED <<ends, queue, cnt>>

LinkBeforeFirst ==
  /\ Goto("head_link", "head_set")
  /\ prev' = IF next[elem] = NULL THEN prev ELSE [prev EXCEPT ![next[elem]] = elem]
  /\ UNCHANGED <<ends, next, queue, elem, cnt>>

SetHead ==
  /\ Goto("head_set", "head_tail")
  /\ head' = elem /\ queue' = <<elem>> \o queue
  /\ UNCHANGED <<tail, links, elem, cnt>>

SetTailIfEmpty ==
  /\ Goto("head_tail", "idle")
  /\ tail' = IF tail = NULL THEN elem ELSE tail
  /\ elem' = NULL
  /\ UNCHANGED <<head, links, queue, cnt>>

-----------------------------------------------------------------------------
(* list_remove                                                             *)

\* The sequence q without e, if it is there.
Without(q, e) ==
  IF \E i \in 1..Len(q) : q[i] = e
  THEN LET k == CHOOSE i \in 1..Len(q) : q[i] = e
       IN  [j \in 1..Len(q) - 1 |-> IF j < k THEN q[j] ELSE q[j + 1]]
  ELSE q

\* Mutant: the successor keeps its prev.
Remove_OneWay(e) ==
  /\ Goto("idle", "remove_link") /\ elem' = e
  /\ UNCHANGED <<ends, links, queue, cnt>>

Remove(e) ==
  /\ Goto("idle", "remove_link") /\ elem' = e
  /\ prev' = IF next[e] = NULL THEN prev ELSE [prev EXCEPT ![next[e]] = prev[e]]
  /\ UNCHANGED <<ends, next, queue, cnt>>

UnlinkForward ==
  /\ Goto("remove_link", "remove_tail")
  /\ IF prev[elem] # NULL
     THEN /\ next' = [next EXCEPT ![prev[elem]] = next[elem]]
          /\ queue' = Without(queue, elem)
     ELSE UNCHANGED <<next, queue>>
  /\ UNCHANGED <<ends, prev, elem, cnt>>

RetractTail ==
  /\ Goto("remove_tail", "remove_head")
  /\ tail' = IF tail = elem THEN prev[elem] ELSE tail
  /\ UNCHANGED <<head, links, queue, elem, cnt>>

AdvanceHead ==
  /\ Goto("remove_head", "remove_clear")
  /\ IF head = elem THEN head' = next[elem] /\ queue' = Without(queue, elem)
                    ELSE UNCHANGED <<head, queue>>
  /\ UNCHANGED <<tail, links, elem, cnt>>

\* Mutant: the element keeps its links.
ClearLinks_Kept ==
  /\ Goto("remove_clear", "idle") /\ elem' = NULL
  /\ UNCHANGED <<ends, links, queue, cnt>>

ClearLinks ==
  /\ Goto("remove_clear", "idle") /\ elem' = NULL
  /\ next' = [next EXCEPT ![elem] = NULL] /\ prev' = [prev EXCEPT ![elem] = NULL]
  /\ UNCHANGED <<ends, queue, cnt>>

-----------------------------------------------------------------------------
(* list_size                                                               *)

Size ==
  /\ Goto("idle", "size")
  /\ elem' = head /\ cnt' = 0
  /\ UNCHANGED <<ends, links, queue>>

\* Mutant: the walk stops at the last element.
CountOne_NotLast ==
  /\ pc = "size" /\ elem # NULL
  /\ cnt' = IF next[elem] = NULL THEN cnt ELSE cnt + 1
  /\ elem' = next[elem]
  /\ UNCHANGED <<ends, links, queue, pc>>

CountOne ==
  /\ pc = "size" /\ elem # NULL
  /\ cnt' = cnt + 1 /\ elem' = next[elem]
  /\ UNCHANGED <<ends, links, queue, pc>>

ReturnCount ==
  /\ elem = NULL /\ Goto("size", "idle") /\ cnt' = 0
  /\ UNCHANGED <<ends, links, queue, elem>>

-----------------------------------------------------------------------------
Next ==
  \/ \E e \in Elements : InsertTail(e) \/ InsertHead(e) \/ Remove(e)
  \/ LinkBehindLast \/ SetTail \/ SetHeadIfEmpty
  \/ LinkBeforeFirst \/ SetHead \/ SetTailIfEmpty
  \/ UnlinkForward \/ RetractTail \/ AdvanceHead \/ ClearLinks
  \/ Size \/ CountOne \/ ReturnCount

Spec == Init /\ [][Next]_vars

-----------------------------------------------------------------------------
(* Properties                                                              *)

At(i) == IF i \in 1..Len(queue) THEN queue[i] ELSE NULL

\* A reader that starts at head and follows next, with or without the lock,
\* always finds the whole list and nothing else, also halfway through an
\* operation: what next_worker's unlocked read of sched_queue.head relies on.
ForwardLinked ==
  head = At(1) /\ \A i \in 1..Len(queue) : next[queue[i]] = At(i + 1)

\* Whenever the lock is free the other direction agrees, and an element that is
\* not in the list has no links that a second list_remove could follow.
BackwardLinked ==
  pc = "idle" =>
    /\ tail = At(Len(queue))
    /\ \A i \in 1..Len(queue) : prev[queue[i]] = At(i - 1)
    /\ \A e \in Elements : ~InQueue(e) => next[e] = NULL /\ prev[e] = NULL

\* list_size returns the length of the list.
SizeExact == pc = "size" /\ elem = NULL => cnt = Len(queue)
=============================================================================
