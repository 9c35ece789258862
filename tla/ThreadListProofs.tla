--------------------------- MODULE ThreadListProofs ---------------------------
(***************************************************************************)
(* For any number of elements, the linked list of list.c is at every       *)
(* assignment the sequence that Scheduler.tla works with (ThreadList.tla). *)
(***************************************************************************)
EXTENDS ThreadList, TLAPS

Maybe == Elements \cup {NULL}

TypeOK ==
  /\ head \in Maybe /\ tail \in Maybe
  /\ next \in [Elements -> Maybe] /\ prev \in [Elements -> Maybe]
  /\ queue \in Seq(Elements)
  /\ pc \in {"idle", "size", "tail_link", "tail_set", "tail_head",
             "head_link", "head_set", "head_tail",
             "remove_link", "remove_tail", "remove_head", "remove_clear"}
  /\ elem \in Maybe /\ cnt \in Nat
  /\ pc \notin {"idle", "size"} => elem \in Elements

Distinct == \A k, l \in 1..Len(queue) : queue[k] = queue[l] => k = l

\* No element has links but those of the list and the one operated on.
OthersClear ==
  \A e \in Elements : ~InQueue(e) /\ e # elem => next[e] = NULL /\ prev[e] = NULL

\* The backward direction, except for element k.
BackBut(k) == \A j \in 1..Len(queue) : j # k => prev[queue[j]] = At(j - 1)
Back       == \A j \in 1..Len(queue) : prev[queue[j]] = At(j - 1)
TailLast   == tail = At(Len(queue))

-----------------------------------------------------------------------------
(* What is true between two assignments                                    *)

WhenIdle == elem = NULL /\ TailLast /\ Back

\* elem is the element after the first cnt.
WhenSize == elem = At(cnt + 1) /\ cnt <= Len(queue) /\ TailLast /\ Back

WhenTailLink == /\ ~InQueue(elem) /\ prev[elem] = tail /\ next[elem] = NULL
                /\ TailLast /\ Back

\* elem is linked behind the old last element, or the list is empty.
WhenTailSet ==
  /\ Back /\ next[elem] = NULL
  /\ \/ Len(queue) > 1 /\ queue[Len(queue)] = elem
     \/ queue = <<>> /\ prev[elem] = NULL

WhenTailHead == WhenTailSet /\ tail = elem

WhenHeadLink == /\ ~InQueue(elem) /\ next[elem] = head /\ prev[elem] = NULL
                /\ TailLast /\ Back

\* The old first element is linked to elem already.
WhenHeadSet ==
  /\ ~InQueue(elem) /\ next[elem] = head /\ prev[elem] = NULL
  /\ TailLast /\ BackBut(1)
  /\ queue # <<>> => prev[queue[1]] = elem

WhenHeadTail ==
  /\ Back /\ queue # <<>> /\ queue[1] = elem
  /\ IF Len(queue) = 1 THEN tail = NULL ELSE TailLast

\* The successor of elem, if any, is linked to its predecessor already.
WhenRemoveLink ==
  /\ TailLast
  /\ \/ ~InQueue(elem) /\ Back /\ prev[elem] = NULL /\ next[elem] = NULL
     \/ \E k \in 1..Len(queue) :
          /\ queue[k] = elem /\ BackBut(k + 1)
          /\ k < Len(queue) => prev[queue[k + 1]] = At(k - 1)

\* elem was first, and so still is: only head points to it.
First == /\ queue # <<>> /\ queue[1] = elem /\ BackBut(2) /\ prev[elem] = NULL
         /\ Len(queue) > 1 => prev[queue[2]] = NULL

WhenRemoveTail ==
  \/ ~InQueue(elem) /\ Back /\ (TailLast \/ (tail = elem /\ prev[elem] = At(Len(queue))))
  \/ First /\ TailLast

WhenRemoveHead ==
  \/ ~InQueue(elem) /\ Back /\ TailLast
  \/ First /\ IF Len(queue) = 1 THEN tail = NULL ELSE TailLast

WhenRemoveClear == ~InQueue(elem) /\ Back /\ TailLast

Phase ==
  /\ pc = "idle" => WhenIdle
  /\ pc = "size" => WhenSize
  /\ pc = "tail_link" => WhenTailLink
  /\ pc = "tail_set" => WhenTailSet
  /\ pc = "tail_head" => WhenTailHead
  /\ pc = "head_link" => WhenHeadLink
  /\ pc = "head_set" => WhenHeadSet
  /\ pc = "head_tail" => WhenHeadTail
  /\ pc = "remove_link" => WhenRemoveLink
  /\ pc = "remove_tail" => WhenRemoveTail
  /\ pc = "remove_head" => WhenRemoveHead
  /\ pc = "remove_clear" => WhenRemoveClear

\* The inductive invariant.
IInv == TypeOK /\ Distinct /\ ForwardLinked /\ OthersClear /\ Phase

-----------------------------------------------------------------------------
(* Facts about the sequence                                                *)

LEMMA Places ==
  ASSUME TypeOK
  PROVE  /\ Len(queue) \in Nat /\ NULL \notin Elements
         /\ \A k \in 1..Len(queue) : queue[k] \in Elements /\ At(k) = queue[k]
         /\ At(0) = NULL /\ At(Len(queue) + 1) = NULL
BY ThreadListAssumption DEF TypeOK, At, ThreadListAssumption

LEMMA Initially == Init => IInv
<1> SUFFICES ASSUME Init PROVE IInv
  OBVIOUS
<1>1. TypeOK
  BY DEF Init, TypeOK, Maybe
<1>2. Distinct /\ OthersClear
  BY DEF Init, Distinct, OthersClear
<1>3. ForwardLinked /\ Phase
  BY DEF Init, ForwardLinked, Phase, WhenIdle, TailLast, Back, At
<1> QED BY <1>1, <1>2, <1>3 DEF IInv

-----------------------------------------------------------------------------
(* list_insert_tail                                                        *)

LEMMA InsertTailKeeps ==
  ASSUME IInv, NEW e \in Elements, InsertTail(e)
  PROVE  IInv'
<1> USE DEF InsertTail, Goto
<1>0. TypeOK /\ WhenIdle /\ pc = "idle" /\ pc' = "tail_link" /\ elem' = e
  BY DEF IInv, Phase
<1>p. \A k \in 1..Len(queue) : queue[k] \in Elements /\ queue[k] # e
  BY <1>0, Places DEF InQueue
<1>1. TypeOK'
  BY <1>0 DEF TypeOK, Maybe, ends
<1>2. Distinct' /\ ForwardLinked'
  BY <1>0, <1>p DEF IInv, TypeOK, Distinct, ForwardLinked, At, ends
<1>3. OthersClear'
  BY <1>0, ThreadListAssumption DEF IInv, TypeOK, OthersClear, InQueue, WhenIdle, ThreadListAssumption
<1>4. WhenTailLink'
  BY <1>0, <1>p DEF TypeOK, WhenIdle, WhenTailLink, InQueue, TailLast, Back, At, ends
<1> QED BY <1>0, <1>1, <1>2, <1>3, <1>4 DEF IInv, Phase

LEMMA LinkBehindLastKeeps ==
  ASSUME IInv, LinkBehindLast
  PROVE  IInv'
<1> USE DEF LinkBehindLast, Goto
<1>0. TypeOK /\ WhenTailLink /\ pc = "tail_link" /\ pc' = "tail_set" /\ elem' = elem
      /\ elem \in Elements
  BY DEF IInv, Phase, TypeOK
<1>p. \A k \in 1..Len(queue) : queue[k] \in Elements /\ queue[k] # elem
  BY <1>0, Places DEF WhenTailLink, InQueue
<1>a. CASE queue = <<>>
  <2>1. prev[elem] = NULL
    BY <1>0, <1>a, Places DEF WhenTailLink, TailLast
  <2>2. UNCHANGED <<head, tail, next, prev, queue, elem, cnt>>
    BY <2>1 DEF ends
  <2>3. TypeOK' /\ Distinct' /\ ForwardLinked'
    BY <1>0, <2>2 DEF IInv, TypeOK, Distinct, ForwardLinked, At
  <2>4. OthersClear'
    BY <2>2 DEF IInv, OthersClear, InQueue
  <2>5. WhenTailSet'
    BY <1>0, <1>a, <2>1, <2>2 DEF WhenTailLink, WhenTailSet, Back, At
  <2> QED BY <1>0, <2>3, <2>4, <2>5 DEF IInv, Phase
<1>b. CASE queue # <<>>
  <2> DEFINE n == Len(queue)
  <2>1. n \in Nat /\ n > 0 /\ prev[elem] = queue[n] /\ prev[elem] # NULL
    BY <1>0, <1>b, <1>p, Places DEF TypeOK, WhenTailLink, TailLast
  <2>2. next' = [next EXCEPT ![queue[n]] = elem] /\ queue' = Append(queue, elem)
    BY <2>1
  <2>3. Len(queue') = n + 1 /\ queue'[n + 1] = elem
        /\ \A k \in 1..n : queue'[k] = queue[k]
    BY <1>0, <2>2 DEF TypeOK
  <2>4. TypeOK'
    BY <1>0, <2>1, <2>2, <1>p DEF TypeOK, Maybe, ends
  <2>5. Distinct'
    BY <1>p, <2>1, <2>3 DEF IInv, Distinct
  <2>6. ForwardLinked'
    BY <1>0, <1>p, <2>1, <2>2, <2>3 DEF IInv, TypeOK, Distinct, ForwardLinked, At, WhenTailLink, ends
  <2>7. OthersClear'
    BY <1>0, <1>p, <2>1, <2>2, <2>3 DEF IInv, TypeOK, OthersClear, InQueue
  <2>8. WhenTailSet'
    BY <1>0, <1>p, <2>1, <2>2, <2>3 DEF TypeOK, WhenTailLink, WhenTailSet, Back, At
  <2> QED BY <1>0, <2>4, <2>5, <2>6, <2>7, <2>8 DEF IInv, Phase
<1> QED BY <1>a, <1>b

LEMMA SetTailKeeps ==
  ASSUME IInv, SetTail
  PROVE  IInv'
<1>1. TypeOK' /\ pc = "tail_set" /\ pc' = "tail_head"
  BY DEF SetTail, Goto, links, IInv, TypeOK
<1>2. Distinct' /\ ForwardLinked' /\ OthersClear'
  BY DEF SetTail, Goto, links, IInv, Distinct, ForwardLinked, At, OthersClear, InQueue
<1>3. WhenTailHead'
  BY <1>1 DEF SetTail, links, IInv, Phase, WhenTailSet, WhenTailHead, Back, At
<1> QED BY <1>1, <1>2, <1>3 DEF IInv, Phase

LEMMA SetHeadIfEmptyKeeps ==
  ASSUME IInv, SetHeadIfEmpty
  PROVE  IInv'
<1> USE DEF SetHeadIfEmpty, Goto, links
<1>0. TypeOK /\ WhenTailHead /\ pc = "tail_head" /\ pc' = "idle" /\ elem' = NULL
      /\ elem \in Elements /\ head = At(1)
  BY DEF IInv, Phase, TypeOK, ForwardLinked
<1>a. CASE queue = <<>>
  <2>1. head = NULL /\ queue' = <<elem>> /\ head' = elem
        /\ UNCHANGED <<tail, next, prev, cnt>>
    BY <1>0, <1>a DEF At
  <2>2. TypeOK'
    BY <1>0, <2>1 DEF TypeOK, Maybe
  <2>3. Distinct' /\ ForwardLinked'
    BY <1>0, <1>a, <2>1 DEF WhenTailHead, WhenTailSet, Distinct, ForwardLinked, At
  <2>4. OthersClear'
    BY <1>a, <2>1 DEF IInv, OthersClear, InQueue
  <2>5. WhenIdle'
    BY <1>0, <1>a, <2>1 DEF WhenIdle, WhenTailHead, WhenTailSet, TailLast, Back, At
  <2> QED BY <1>0, <2>2, <2>3, <2>4, <2>5 DEF IInv, Phase
<1>b. CASE queue # <<>>
  <2>1. Len(queue) > 1 /\ queue[Len(queue)] = elem /\ tail = elem
    BY <1>0, <1>b DEF WhenTailHead, WhenTailSet
  <2>2. head # NULL
    BY <1>0, <2>1, Places DEF TypeOK
  <2>3. UNCHANGED <<head, tail, next, prev, queue, cnt>>
    BY <2>2
  <2>4. TypeOK' /\ Distinct' /\ ForwardLinked'
    BY <1>0, <2>3 DEF IInv, TypeOK, Maybe, Distinct, ForwardLinked, At
  <2>5. OthersClear'
    BY <1>0, <2>1, <2>3, Places DEF IInv, OthersClear, InQueue
  <2>6. WhenIdle'
    BY <1>0, <2>1, <2>3, Places DEF WhenIdle, WhenTailHead, WhenTailSet, TailLast, Back, At
  <2> QED BY <1>0, <2>4, <2>5, <2>6 DEF IInv, Phase
<1> QED BY <1>a, <1>b

-----------------------------------------------------------------------------
(* list_insert_head                                                        *)

LEMMA InsertHeadKeeps ==
  ASSUME IInv, NEW e \in Elements, InsertHead(e)
  PROVE  IInv'
<1> USE DEF InsertHead, Goto
<1>0. TypeOK /\ WhenIdle /\ pc = "idle" /\ pc' = "head_link" /\ elem' = e
  BY DEF IInv, Phase
<1>p. \A k \in 1..Len(queue) : queue[k] \in Elements /\ queue[k] # e
  BY <1>0, Places DEF InQueue
<1>1. TypeOK'
  BY <1>0 DEF TypeOK, Maybe, ends
<1>2. Distinct' /\ ForwardLinked'
  BY <1>0, <1>p DEF IInv, TypeOK, Distinct, ForwardLinked, At, ends
<1>3. OthersClear'
  BY <1>0, ThreadListAssumption
     DEF IInv, TypeOK, OthersClear, InQueue, WhenIdle, ThreadListAssumption
<1>4. WhenHeadLink'
  BY <1>0, <1>p DEF TypeOK, WhenIdle, WhenHeadLink, InQueue, TailLast, Back, At, ends
<1> QED BY <1>0, <1>1, <1>2, <1>3, <1>4 DEF IInv, Phase

LEMMA LinkBeforeFirstKeeps ==
  ASSUME IInv, LinkBeforeFirst
  PROVE  IInv'
<1> USE DEF LinkBeforeFirst, Goto, ends
<1>0. TypeOK /\ WhenHeadLink /\ pc = "head_link" /\ pc' = "head_set" /\ elem' = elem
      /\ elem \in Elements /\ head = At(1)
  BY DEF IInv, Phase, TypeOK, ForwardLinked
<1>p. \A k \in 1..Len(queue) : queue[k] \in Elements /\ queue[k] # elem
  BY <1>0, Places DEF WhenHeadLink, InQueue
<1>h. IF queue = <<>> THEN head = NULL ELSE head = queue[1] /\ head # NULL
  BY <1>0, <1>p, Places DEF TypeOK, At
<1>1. prev' = IF queue = <<>> THEN prev ELSE [prev EXCEPT ![queue[1]] = elem]
  <2>1. prev' = IF head = NULL THEN prev ELSE [prev EXCEPT ![head] = elem]
    BY <1>0 DEF WhenHeadLink
  <2> QED BY <1>h, <2>1
<1>2. TypeOK'
  BY <1>0, <1>1, <1>p DEF TypeOK, Maybe
<1>3. Distinct' /\ ForwardLinked'
  BY <1>0 DEF IInv, Distinct, ForwardLinked, At
<1>4. OthersClear'
  BY <1>0, <1>1, <1>p DEF IInv, TypeOK, OthersClear, InQueue
<1>5. WhenHeadSet'
  <2>1. UNCHANGED <<head, tail, next, queue, elem>>
    OBVIOUS
  <2>2. ~InQueue(elem)' /\ (next[elem] = head)' /\ TailLast'
    BY <1>0, <2>1 DEF WhenHeadLink, InQueue, TailLast, At
  <2>3. (prev[elem] = NULL)'
    BY <1>0, <1>1, <1>p, <2>1 DEF WhenHeadLink, TypeOK
  <2>4. BackBut(1)'
    BY <1>0, <1>1, <1>p, <2>1 DEF IInv, TypeOK, Distinct, WhenHeadLink, BackBut, Back, At
  <2>5. (queue # <<>> => prev[queue[1]] = elem)'
    BY <1>0, <1>1, <1>p, <2>1 DEF TypeOK
  <2> QED BY <2>2, <2>3, <2>4, <2>5 DEF WhenHeadSet
<1> QED BY <1>0, <1>2, <1>3, <1>4, <1>5 DEF IInv, Phase

LEMMA SetHeadKeeps ==
  ASSUME IInv, SetHead
  PROVE  IInv'
<1> USE DEF SetHead, Goto, links
<1> DEFINE n == Len(queue)
<1>0. TypeOK /\ WhenHeadSet /\ pc = "head_set" /\ pc' = "head_tail" /\ elem' = elem
      /\ elem \in Elements /\ head = At(1)
  BY DEF IInv, Phase, TypeOK, ForwardLinked
<1>p. \A k \in 1..n : queue[k] \in Elements /\ queue[k] # elem
  BY <1>0, Places DEF WhenHeadSet, InQueue
<1>1. queue' \in Seq(Elements) /\ n \in Nat /\ Len(queue') = n + 1 /\ queue'[1] = elem
      /\ \A k \in 2..n + 1 : queue'[k] = queue[k - 1]
  BY <1>0 DEF TypeOK
<1>2. TypeOK'
  BY <1>0, <1>1 DEF TypeOK, Maybe
<1>3. Distinct'
  BY <1>1, <1>p DEF IInv, Distinct
<1>4. ForwardLinked'
  <2>1. ASSUME NEW k \in 1..n + 1 PROVE next'[queue'[k]] = At(k + 1)'
    <3>1. CASE k = 1
      BY <1>0, <1>1, <3>1 DEF WhenHeadSet, At
    <3>2. CASE k > 1
      <4>1. queue'[k] = queue[k - 1] /\ k - 1 \in 1..n
        BY <1>1, <3>2
      <4>2. next[queue[k - 1]] = At(k)
        BY <4>1 DEF IInv, ForwardLinked
      <4> QED BY <1>1, <3>2, <4>1, <4>2 DEF At
    <3> QED BY <1>1, <3>1, <3>2
  <2>2. head' = At(1)'
    BY <1>0, <1>1 DEF At
  <2> HIDE DEF n
  <2> QED BY <1>1, <2>1, <2>2 DEF ForwardLinked
<1>5. OthersClear'
  BY <1>0, <1>1 DEF IInv, OthersClear, InQueue
<1>6. WhenHeadTail'
  <2>1. ASSUME NEW k \in 1..n + 1 PROVE prev'[queue'[k]] = At(k - 1)'
    <3>1. CASE k = 1
      BY <1>0, <1>1, <3>1 DEF WhenHeadSet, At
    <3>2. CASE k = 2
      BY <1>0, <1>1, <3>2 DEF WhenHeadSet, At
    <3>3. CASE k > 2
      BY SMTT(30), <1>0, <1>1, <3>3 DEF WhenHeadSet, BackBut, At
    <3> QED BY <1>1, <3>1, <3>2, <3>3
  <2>2. IF Len(queue') = 1 THEN tail' = NULL ELSE TailLast'
    BY <1>0, <1>1 DEF WhenHeadSet, TailLast, At
  <2> QED BY <1>0, <1>1, <2>1, <2>2 DEF WhenHeadTail, Back
<1> QED BY <1>0, <1>2, <1>3, <1>4, <1>5, <1>6 DEF IInv, Phase

LEMMA SetTailIfEmptyKeeps ==
  ASSUME IInv, SetTailIfEmpty
  PROVE  IInv'
<1> USE DEF SetTailIfEmpty, Goto, links
<1>0. TypeOK /\ WhenHeadTail /\ pc = "head_tail" /\ pc' = "idle" /\ elem' = NULL
      /\ elem \in Elements /\ UNCHANGED <<head, next, prev, queue, cnt>>
  BY DEF IInv, Phase, TypeOK
<1>1. tail' = At(Len(queue))
  BY <1>0, Places DEF TypeOK, WhenHeadTail, TailLast, At
<1>2. TypeOK' /\ Distinct' /\ ForwardLinked'
  BY <1>0 DEF IInv, TypeOK, Maybe, Distinct, ForwardLinked, At
<1>3. OthersClear'
  BY <1>0, Places DEF IInv, WhenHeadTail, OthersClear, InQueue
<1>4. WhenIdle'
  BY <1>0, <1>1 DEF WhenIdle, WhenHeadTail, TailLast, Back, At
<1> QED BY <1>0, <1>2, <1>3, <1>4 DEF IInv, Phase

-----------------------------------------------------------------------------
(* list_remove                                                             *)

\* Without takes out exactly the element at k, and closes the gap.
LEMMA WithoutIs ==
  ASSUME TypeOK, Distinct, NEW k \in 1..Len(queue), queue[k] = elem,
         queue' = Without(queue, elem)
  PROVE  /\ queue' \in Seq(Elements) /\ Len(queue') = Len(queue) - 1
         /\ \A j \in 1..k - 1 : queue'[j] = queue[j]
         /\ \A j \in k..Len(queue) - 1 : queue'[j] = queue[j + 1]
         /\ \A j \in 1..Len(queue) - 1 : queue'[j] # elem
         /\ Distinct'
<1> DEFINE n == Len(queue)
<1>1. n \in Nat /\ \A j \in 1..n : queue[j] \in Elements
  BY DEF TypeOK
<1>2. (CHOOSE m \in 1..n : queue[m] = elem) = k
  BY DEF Distinct
<1>3. queue' = [j \in 1..n - 1 |-> IF j < k THEN queue[j] ELSE queue[j + 1]]
  BY <1>2 DEF Without
<1>4. \A j \in 1..n - 1 : queue'[j] \in Elements
  BY <1>1, <1>3
<1>5. queue' \in Seq(Elements) /\ Len(queue') = n - 1
  BY <1>1, <1>3, <1>4
<1>6. \A j \in 1..n - 1 : queue'[j] = IF j < k THEN queue[j] ELSE queue[j + 1]
  BY <1>3
<1>7. \A j \in 1..n - 1 : queue'[j] # elem
  BY <1>1, <1>6 DEF Distinct
<1>8. Distinct'
  BY <1>1, <1>5, <1>6 DEF Distinct
<1> QED BY <1>1, <1>5, <1>6, <1>7, <1>8

LEMMA RemoveKeeps ==
  ASSUME IInv, NEW e \in Elements, Remove(e)
  PROVE  IInv'
<1> USE DEF Remove, Goto, ends
<1> DEFINE n == Len(queue)
<1>0. TypeOK /\ WhenIdle /\ pc = "idle" /\ pc' = "remove_link" /\ elem' = e
      /\ Distinct /\ ForwardLinked /\ UNCHANGED <<head, tail, next, queue, cnt>>
  BY DEF IInv, Phase
<1>1. TypeOK'
  BY <1>0 DEF TypeOK, Maybe
<1>2. Distinct' /\ ForwardLinked'
  BY <1>0 DEF Distinct, ForwardLinked, At
<1>a. CASE ~InQueue(e)
  <2>1. next[e] = NULL /\ prev[e] = NULL
    BY <1>0, <1>a, ThreadListAssumption DEF IInv, OthersClear, WhenIdle, ThreadListAssumption
  <2>2. prev' = prev
    BY <2>1
  <2>3. OthersClear'
    BY <1>0, <2>2, ThreadListAssumption
       DEF IInv, OthersClear, InQueue, WhenIdle, ThreadListAssumption
  <2>4. WhenRemoveLink'
    BY <1>0, <1>a, <2>1, <2>2 DEF WhenRemoveLink, WhenIdle, InQueue, TailLast, Back, At
  <2> QED BY <1>0, <1>1, <1>2, <2>3, <2>4 DEF IInv, Phase
<1>b. CASE InQueue(e)
  <2>1. PICK k \in 1..n : queue[k] = e
    BY <1>b DEF InQueue
  <2>2. next[e] = At(k + 1) /\ prev[e] = At(k - 1)
    BY <1>0, <2>1 DEF ForwardLinked, WhenIdle, Back
  <2>3. CASE k = n
    <3>1. prev' = prev
      BY <1>0, <2>1, <2>2, <2>3 DEF At
    <3>2. OthersClear'
      BY <1>0, <3>1, ThreadListAssumption
         DEF IInv, OthersClear, InQueue, WhenIdle, ThreadListAssumption
    <3>3. BackBut(k + 1)' /\ TailLast'
      BY <1>0, <3>1 DEF WhenIdle, Back, BackBut, TailLast, At
    <3>4. WhenRemoveLink'
      BY <1>0, <2>1, <2>3, <3>3 DEF WhenRemoveLink
    <3> QED BY <1>0, <1>1, <1>2, <3>2, <3>4 DEF IInv, Phase
  <2>4. CASE k < n
    <3>1. next[e] = queue[k + 1] /\ queue[k + 1] \in Elements /\ next[e] # NULL
      BY <1>0, <2>1, <2>2, <2>4, Places
    <3>2. prev' = [prev EXCEPT ![queue[k + 1]] = At(k - 1)]
      BY <2>2, <3>1
    <3>3. OthersClear'
      BY <1>0, <2>4, <3>1, <3>2, ThreadListAssumption
         DEF IInv, TypeOK, OthersClear, InQueue, WhenIdle, ThreadListAssumption
    <3>4. BackBut(k + 1)'
      <4>1. ASSUME NEW j \in 1..n, j # k + 1 PROVE prev'[queue[j]] = At(j - 1)
        <5>1. queue[j] \in Elements /\ queue[j] # queue[k + 1]
          BY <1>0, <2>4, <4>1, Places DEF Distinct
        <5> QED BY <1>0, <3>2, <5>1 DEF TypeOK, WhenIdle, Back
      <4> QED BY <1>0, <4>1 DEF BackBut, At
    <3>5. prev'[queue[k + 1]] = At(k - 1)
      BY <1>0, <3>1, <3>2 DEF TypeOK
    <3>6. WhenRemoveLink'
      BY <1>0, <2>1, <3>4, <3>5 DEF WhenRemoveLink, WhenIdle, TailLast, At
    <3> QED BY <1>0, <1>1, <1>2, <3>3, <3>6 DEF IInv, Phase
  <2> QED BY <1>0, <2>1, <2>3, <2>4, Places
<1> QED BY <1>a, <1>b

LEMMA UnlinkForwardKeeps ==
  ASSUME IInv, UnlinkForward
  PROVE  IInv'
<1> USE DEF UnlinkForward, Goto, ends
<1> DEFINE n == Len(queue)
<1>0. TypeOK /\ WhenRemoveLink /\ pc = "remove_link" /\ pc' = "remove_tail"
      /\ elem \in Elements /\ Distinct /\ ForwardLinked
      /\ UNCHANGED <<head, tail, prev, elem, cnt>>
  BY DEF IInv, Phase, TypeOK
<1>a. CASE prev[elem] = NULL
  <2>1. UNCHANGED <<next, queue>>
    BY <1>a
  <2>2. TypeOK' /\ Distinct' /\ ForwardLinked'
    BY <1>0, <2>1 DEF TypeOK, Distinct, ForwardLinked, At
  <2>3. OthersClear'
    BY <1>0, <2>1 DEF IInv, OthersClear, InQueue
  <2>4. WhenRemoveTail'
    <3>1. CASE ~InQueue(elem) /\ Back
      BY <1>0, <2>1, <3>1
         DEF WhenRemoveLink, WhenRemoveTail, InQueue, TailLast, Back, At
    <3>2. ASSUME NEW k \in 1..n, queue[k] = elem, BackBut(k + 1),
                 k < n => prev[queue[k + 1]] = At(k - 1)
          PROVE  First
      <4>0. n \in Nat /\ k # k + 1
        BY <1>0, Places
      <4>1. prev[queue[k]] = At(k - 1)
        BY <3>2, <4>0 DEF BackBut
      <4>2. k = 1
        BY <1>0, <1>a, <3>2, <4>0, <4>1, Places
      <4> QED BY <1>0, <1>a, <3>2, <4>0, <4>2, Places DEF First
    <3>3. First => WhenRemoveTail'
      BY <1>0, <2>1
         DEF WhenRemoveLink, WhenRemoveTail, First, TailLast, BackBut, At
    <3> QED BY <1>0, <3>1, <3>2, <3>3 DEF WhenRemoveLink
  <2> QED BY <1>0, <2>2, <2>3, <2>4 DEF IInv, Phase
<1>b. CASE prev[elem] # NULL
  <2>1. PICK k \in 1..n : /\ queue[k] = elem /\ BackBut(k + 1)
                          /\ k < n => prev[queue[k + 1]] = At(k - 1)
    BY <1>0, <1>b DEF WhenRemoveLink
  <2>a. n \in Nat /\ k # k + 1
    BY <1>0, Places
  <2>2. prev[elem] = At(k - 1) /\ n \in Nat
    BY <2>1, <2>a DEF BackBut
  <2>3. k > 1 /\ prev[elem] = queue[k - 1] /\ queue[k - 1] \in Elements
    BY <1>0, <1>b, <2>2, Places DEF At
  <2>4. next' = [next EXCEPT ![queue[k - 1]] = At(k + 1)] /\ queue' = Without(queue, elem)
    BY <1>0, <1>b, <2>1, <2>3 DEF ForwardLinked
  <2>5. /\ queue' \in Seq(Elements) /\ Len(queue') = n - 1
        /\ \A j \in 1..k - 1 : queue'[j] = queue[j]
        /\ \A j \in k..n - 1 : queue'[j] = queue[j + 1]
        /\ \A j \in 1..n - 1 : queue'[j] # elem
        /\ Distinct'
    BY <1>0, <2>1, <2>4, WithoutIs
  <2>6. TypeOK'
    BY <1>0, <2>3, <2>4, <2>5, Places DEF TypeOK, Maybe, At
  <2>7. ForwardLinked'
    <3>1. head' = At(1)'
      BY <1>0, <2>2, <2>3, <2>5 DEF ForwardLinked, At
    <3>2. ASSUME NEW j \in 1..n - 1 PROVE next'[queue'[j]] = At(j + 1)'
      <4>1. CASE j < k - 1
        <5>1. queue[j] # queue[k - 1] /\ next[queue[j]] = queue[j + 1]
          <6>1. j \in 1..n /\ j + 1 \in 1..n /\ k - 1 \in 1..n /\ j # k - 1
            BY <2>2, <2>3, <4>1
          <6>2. next[queue[j]] = At(j + 1)
            BY <1>0, <6>1 DEF ForwardLinked
          <6> QED BY <1>0, <6>1, <6>2, Places DEF Distinct
        <5>2. queue'[j] = queue[j] /\ queue[j] \in Elements
          BY <1>0, <2>2, <2>5, <4>1, Places
        <5>3. next'[queue[j]] = queue[j + 1]
          BY <1>0, <2>4, <5>1, <5>2 DEF TypeOK
        <5>4. At(j + 1)' = queue[j + 1]
          BY SMTT(30), <2>2, <2>5, <4>1 DEF At
        <5> QED BY <5>2, <5>3, <5>4
      <4>2. CASE j = k - 1
        BY <1>0, <2>2, <2>3, <2>4, <2>5, <4>2 DEF TypeOK, At
      <4>3. CASE j >= k
        <5>1. queue[j + 1] # queue[k - 1] /\ next[queue[j + 1]] = At(j + 2)
          BY SMTT(30), <1>0, <2>2, <2>3, <4>3 DEF Distinct, ForwardLinked
        <5> QED BY <1>0, <2>2, <2>4, <2>5, <4>3, <5>1, Places DEF TypeOK, At
      <4> QED BY <2>2, <4>1, <4>2, <4>3
    <3> QED BY <2>2, <2>5, <3>1, <3>2 DEF ForwardLinked
  <2>8. OthersClear'
    <3>1. ASSUME NEW e \in Elements, ~InQueue(e)', e # elem
          PROVE  ~InQueue(e) /\ e # queue[k - 1]
      <4>1. ASSUME NEW j \in 1..n, queue[j] = e PROVE FALSE
        <5>1. CASE j < k
          BY <2>2, <2>5, <3>1, <4>1, <5>1 DEF InQueue
        <5>2. CASE j > k
          <6>1. j - 1 \in k..n - 1 /\ queue'[j - 1] = e
            BY <2>2, <2>5, <4>1, <5>2
          <6> QED BY <2>2, <2>5, <3>1, <6>1 DEF InQueue
        <5>3. CASE j = k
          BY <2>1, <3>1, <4>1, <5>3
        <5> QED BY <2>2, <5>1, <5>2, <5>3
      <4> QED BY <2>2, <2>3, <4>1 DEF InQueue
    <3> QED BY <1>0, <2>4, <3>1 DEF IInv, TypeOK, OthersClear
  <2>9. Back'
    <3>1. ASSUME NEW j \in 1..n - 1 PROVE prev[queue'[j]] = At(j - 1)'
      <4>1. CASE j < k
        <5>1. queue'[j] = queue[j] /\ j \in 1..n /\ j # k + 1
          BY <2>2, <2>5, <4>1
        <5>2. prev[queue[j]] = At(j - 1)
          BY <2>1, <5>1 DEF BackBut
        <5>3. At(j - 1)' = At(j - 1)
          BY <2>2, <2>5, <4>1 DEF At
        <5> QED BY <5>1, <5>2, <5>3
      <4>2. CASE j = k
        BY <2>1, <2>2, <2>3, <2>5, <4>2 DEF At
      <4>3. CASE j > k
        <5>0. j \in k..n - 1 /\ j + 1 \in 1..n /\ j + 1 # k + 1
          BY <2>2, <4>3
        <5>1. queue'[j] = queue[j + 1] /\ j + 1 \in 1..n /\ j + 1 # k + 1
          BY <2>5, <5>0
        <5>2. prev[queue[j + 1]] = At(j)
          BY <2>1, <5>1 DEF BackBut
        <5>3. At(j - 1)' = At(j)
          BY <2>2, <2>5, <4>3 DEF At
        <5> QED BY <5>1, <5>2, <5>3
      <4> QED BY <2>2, <4>1, <4>2, <4>3
    <3> QED BY <1>0, <2>5, <3>1 DEF Back
  <2>10. WhenRemoveTail'
    <3>1. ~InQueue(elem)'
      BY <1>0, <2>5 DEF InQueue
    <3>2. CASE k = n
      BY <1>0, <2>1, <2>2, <2>3, <2>5, <2>9, <3>1, <3>2, Places
         DEF WhenRemoveLink, WhenRemoveTail, TailLast, At
    <3>3. CASE k < n
      <4>1. At(Len(queue))' = At(Len(queue))
        BY <2>2, <2>3, <2>5, <3>3 DEF At
      <4> QED BY <1>0, <2>9, <3>1, <4>1 DEF WhenRemoveLink, WhenRemoveTail, TailLast
    <3> QED BY <2>2, <3>2, <3>3
  <2> QED BY <1>0, <2>5, <2>6, <2>7, <2>8, <2>10 DEF IInv, Phase
<1> QED BY <1>a, <1>b

LEMMA RetractTailKeeps ==
  ASSUME IInv, RetractTail
  PROVE  IInv'
<1> USE DEF RetractTail, Goto, links
<1>0. TypeOK /\ WhenRemoveTail /\ pc = "remove_tail" /\ pc' = "remove_head"
      /\ elem \in Elements /\ Distinct /\ UNCHANGED <<head, next, prev, queue, elem, cnt>>
  BY DEF IInv, Phase, TypeOK
<1>1. TypeOK'
  BY <1>0 DEF TypeOK, Maybe
<1>2. Distinct' /\ ForwardLinked' /\ OthersClear'
  BY <1>0 DEF IInv, Distinct, ForwardLinked, OthersClear, InQueue, At
<1>3. WhenRemoveHead'
  <2>1. CASE ~InQueue(elem) /\ Back
                 /\ (TailLast \/ (tail = elem /\ prev[elem] = At(Len(queue))))
    <3>1. tail' = At(Len(queue))
      <4>1. At(Len(queue)) # elem
        BY <1>0, <2>1, Places, ThreadListAssumption
           DEF InQueue, At, ThreadListAssumption
      <4> QED BY <2>1, <4>1 DEF TailLast
    <3> QED BY <1>0, <2>1, <3>1 DEF WhenRemoveHead, InQueue, TailLast, Back, At
  <2>2. CASE First /\ TailLast
    <3>1. CASE Len(queue) = 1
      <4>1. tail' = NULL
        BY <1>0, <2>2, <3>1, Places DEF First, TailLast
      <4> QED BY <1>0, <2>2, <3>1, <4>1 DEF WhenRemoveHead, First, BackBut, At
    <3>2. CASE Len(queue) # 1
      <4>1. Len(queue) > 1
        <5>1. queue \in Seq(Elements) /\ queue # <<>>
          BY <1>0, <2>2 DEF First, TypeOK
        <5>2. Len(queue) \in Nat /\ Len(queue) # 0
          BY <5>1
        <5>3. \A m \in Nat : m # 0 /\ m # 1 => m > 1
          OBVIOUS
        <5> QED BY <3>2, <5>2, <5>3
      <4>2. tail # elem
        BY <1>0, <2>2, <4>1, Places DEF First, TailLast, Distinct
      <4>3. tail' = tail
        BY <4>2
      <4> QED BY <1>0, <2>2, <3>2, <4>3 DEF WhenRemoveHead, First, BackBut, TailLast, At
    <3> QED BY <3>1, <3>2
  <2> QED BY <1>0, <2>1, <2>2 DEF WhenRemoveTail
<1> QED BY <1>0, <1>1, <1>2, <1>3 DEF IInv, Phase

LEMMA AdvanceHeadKeeps ==
  ASSUME IInv, AdvanceHead
  PROVE  IInv'
<1> USE DEF AdvanceHead, Goto, links
<1> DEFINE n == Len(queue)
<1>0. TypeOK /\ WhenRemoveHead /\ pc = "remove_head" /\ pc' = "remove_clear"
      /\ elem \in Elements /\ Distinct /\ ForwardLinked
      /\ UNCHANGED <<tail, next, prev, elem, cnt>>
  BY DEF IInv, Phase, TypeOK
<1>a. CASE ~InQueue(elem) /\ Back /\ TailLast
  <2>1. head # elem
    BY <1>0, <1>a, Places DEF ForwardLinked, InQueue, At
  <2>2. UNCHANGED <<head, queue>>
    BY <2>1
  <2>3. TypeOK' /\ Distinct' /\ ForwardLinked'
    BY <1>0, <2>2 DEF TypeOK, Distinct, ForwardLinked, At
  <2>4. OthersClear'
    BY <1>0, <2>2 DEF IInv, OthersClear, InQueue
  <2>5. WhenRemoveClear'
    BY <1>0, <1>a, <2>2 DEF WhenRemoveClear, InQueue, TailLast, Back, At
  <2> QED BY <1>0, <2>3, <2>4, <2>5 DEF IInv, Phase
<1>b. CASE First /\ IF n = 1 THEN tail = NULL ELSE TailLast
  <2>1. n \in Nat /\ n >= 1 /\ 1 \in 1..n /\ queue[1] = elem
    BY <1>0, <1>b DEF First, TypeOK
  <2>2. head = elem /\ next[elem] = At(2)
    BY <1>0, <2>1 DEF ForwardLinked, At
  <2>3. head' = At(2) /\ queue' = Without(queue, elem)
    BY <2>2
  <2>4. /\ queue' \in Seq(Elements) /\ Len(queue') = n - 1
        /\ \A j \in 1..n - 1 : queue'[j] = queue[j + 1] /\ queue'[j] # elem
        /\ Distinct'
    BY <1>0, <2>1, <2>3, WithoutIs
  <2>5. TypeOK'
    BY <1>0, <2>3, <2>4, Places DEF TypeOK, Maybe, At
  <2>6. ForwardLinked'
    BY <1>0, <2>1, <2>3, <2>4 DEF ForwardLinked, At
  <2>7. OthersClear'
    <3>1. ASSUME NEW e \in Elements, ~InQueue(e)', e # elem PROVE ~InQueue(e)
      <4>1. ASSUME NEW j \in 1..n, queue[j] = e PROVE FALSE
        <5>1. j # 1 /\ j - 1 \in 1..n - 1 /\ queue'[j - 1] = e
          BY <2>1, <2>4, <3>1, <4>1
        <5> QED BY <2>4, <3>1, <5>1 DEF InQueue
      <4> QED BY <4>1 DEF InQueue
    <3> QED BY <1>0, <3>1 DEF IInv, OthersClear
  <2>8. WhenRemoveClear'
    <3>1. ~InQueue(elem)'
      BY <1>0, <2>4 DEF InQueue
    <3>2. ASSUME NEW j \in 1..n - 1 PROVE prev[queue'[j]] = At(j - 1)'
      <4>1. CASE j = 1
        BY <1>b, <2>1, <2>4, <4>1 DEF First, At
      <4>2. CASE j > 1
        BY <1>b, <2>1, <2>4, <4>2 DEF First, BackBut, At
      <4> QED BY <4>1, <4>2
    <3>3. tail = At(Len(queue))'
      <4>1. CASE n = 1
        BY <1>b, <2>4, <4>1 DEF At
      <4>2. CASE n > 1
        BY <1>b, <2>1, <2>4, <4>2 DEF TailLast, At
      <4> QED BY SMTT(30), <2>1, <4>1, <4>2
    <3> QED BY <1>0, <2>4, <3>1, <3>2, <3>3 DEF WhenRemoveClear, Back, TailLast
  <2> QED BY <1>0, <2>4, <2>5, <2>6, <2>7, <2>8 DEF IInv, Phase
<1> QED BY <1>0, <1>a, <1>b DEF WhenRemoveHead

LEMMA ClearLinksKeeps ==
  ASSUME IInv, ClearLinks
  PROVE  IInv'
<1> USE DEF ClearLinks, Goto, ends
<1>0. TypeOK /\ WhenRemoveClear /\ pc = "remove_clear" /\ pc' = "idle"
      /\ elem \in Elements /\ Distinct /\ UNCHANGED <<head, tail, queue, cnt>>
      /\ elem' = NULL
  BY DEF IInv, Phase, TypeOK
<1>1. \A k \in 1..Len(queue) : queue[k] \in Elements /\ queue[k] # elem
  BY <1>0, Places DEF WhenRemoveClear, InQueue
<1>2. TypeOK'
  BY <1>0 DEF TypeOK, Maybe
<1>3. Distinct' /\ ForwardLinked'
  BY <1>0, <1>1 DEF IInv, TypeOK, Distinct, ForwardLinked, At
<1>4. OthersClear'
  BY <1>0 DEF IInv, TypeOK, OthersClear, InQueue
<1>5. WhenIdle'
  BY <1>0, <1>1 DEF TypeOK, WhenIdle, WhenRemoveClear, TailLast, Back, At
<1> QED BY <1>0, <1>2, <1>3, <1>4, <1>5 DEF IInv, Phase

-----------------------------------------------------------------------------
(* list_size                                                               *)

LEMMA SizeKeeps ==
  ASSUME IInv, Size \/ CountOne \/ ReturnCount
  PROVE  IInv'
<1> USE DEF Goto, ends, links
<1>0. TypeOK /\ UNCHANGED <<head, tail, next, prev, queue>>
  BY DEF IInv, Size, CountOne, ReturnCount
<1>1. Distinct' /\ ForwardLinked' /\ Back' = Back /\ TailLast' = TailLast
  BY <1>0 DEF IInv, Distinct, ForwardLinked, At, Back, TailLast
<1>2. CASE Size
  <2>1. WhenIdle /\ pc' = "size" /\ elem' = At(1) /\ cnt' = 0 /\ elem' = head
    BY <1>2 DEF IInv, Phase, Size, ForwardLinked
  <2>2. TypeOK'
    BY <1>0, <2>1 DEF TypeOK
  <2>3. OthersClear'
    BY <1>0, <2>1, ThreadListAssumption
       DEF IInv, OthersClear, InQueue, WhenIdle, ThreadListAssumption
  <2>4. WhenSize'
    BY <1>0, <1>1, <2>1, Places DEF WhenIdle, WhenSize, At
  <2> QED BY <1>1, <2>1, <2>2, <2>3, <2>4 DEF IInv, Phase
<1>3. CASE CountOne
  <2>1. WhenSize /\ pc = "size" /\ pc' = "size" /\ elem # NULL /\ cnt' = cnt + 1
        /\ elem' = next[elem]
    BY <1>3 DEF IInv, Phase, CountOne
  <2>2. cnt \in Nat /\ cnt + 1 \in 1..Len(queue) /\ elem = queue[cnt + 1]
        /\ elem \in Elements
    BY <1>0, <2>1, Places DEF TypeOK, WhenSize, At
  <2>3. elem' = At(cnt + 2)
    BY <2>1, <2>2 DEF IInv, ForwardLinked
  <2>4. TypeOK'
    BY <1>0, <2>1, <2>2 DEF TypeOK
  <2>5. OthersClear'
    BY <1>0, <2>2 DEF IInv, OthersClear, InQueue
  <2>6. WhenSize'
    BY <1>0, <1>1, <2>1, <2>2, <2>3, Places DEF WhenSize, At
  <2> QED BY <1>1, <2>1, <2>4, <2>5, <2>6 DEF IInv, Phase
<1>4. CASE ReturnCount
  <2>1. WhenSize /\ pc' = "idle" /\ elem = NULL /\ elem' = NULL /\ cnt' = 0
    BY <1>4 DEF IInv, Phase, ReturnCount
  <2>2. TypeOK' /\ OthersClear'
    BY <1>0, <2>1 DEF IInv, TypeOK, OthersClear, InQueue
  <2>3. WhenIdle'
    BY <1>1, <2>1 DEF WhenIdle, WhenSize
  <2> QED BY <1>1, <2>1, <2>2, <2>3 DEF IInv, Phase
<1> QED BY <1>2, <1>3, <1>4

LEMMA StutterKeeps ==
  ASSUME IInv, UNCHANGED vars
  PROVE  IInv'
<1>1. UNCHANGED <<head, tail, next, prev, queue, pc, elem, cnt>>
  BY DEF vars, ends, links
<1>2. TypeOK' /\ Distinct' /\ ForwardLinked' /\ OthersClear'
  BY <1>1 DEF IInv, TypeOK, Distinct, ForwardLinked, OthersClear, InQueue, At
<1>3. Phase'
  BY <1>1 DEF IInv, Phase, WhenIdle, WhenSize, WhenTailLink, WhenTailSet, WhenTailHead,
     WhenHeadLink, WhenHeadSet, WhenHeadTail, WhenRemoveLink, First, WhenRemoveTail,
     WhenRemoveHead, WhenRemoveClear, Back, BackBut, TailLast, InQueue, At
<1> QED BY <1>2, <1>3 DEF IInv

-----------------------------------------------------------------------------
(* The theorems                                                            *)

\* The invariant the other theorems follow from: how far each operation of the
\* list has come, for every element it may be called with.
THEOREM Invariance == Spec => []IInv
<1>1. Init => IInv
  BY Initially
<1>2. IInv /\ [Next]_vars => IInv'
  BY InsertTailKeeps, LinkBehindLastKeeps, SetTailKeeps, SetHeadIfEmptyKeeps,
     InsertHeadKeeps, LinkBeforeFirstKeeps, SetHeadKeeps, SetTailIfEmptyKeeps,
     RemoveKeeps, UnlinkForwardKeeps, RetractTailKeeps, AdvanceHeadKeeps,
     ClearLinksKeeps, SizeKeeps, StutterKeeps DEF Next
<1> QED BY <1>1, <1>2, PTL DEF Spec

\* The unlocked reader of next_worker always finds the list.
THEOREM ReaderFindsList == Spec => []ForwardLinked
<1>1. IInv => ForwardLinked
  BY DEF IInv
<1> QED BY <1>1, Invariance, PTL

\* Under the lock both directions agree, and what is not in the list is clear.
THEOREM BothDirections == Spec => []BackwardLinked
<1>1. IInv => BackwardLinked
  BY ThreadListAssumption
     DEF IInv, Phase, WhenIdle, TailLast, Back, OthersClear, BackwardLinked,
         ThreadListAssumption
<1> QED BY <1>1, Invariance, PTL

\* list_size counts every element once.
THEOREM SizeCounts == Spec => []SizeExact
<1>1. ASSUME IInv, pc = "size", elem = NULL PROVE cnt = Len(queue)
  <2>1. TypeOK /\ WhenSize
    BY <1>1 DEF IInv, Phase
  <2>2. cnt + 1 \notin 1..Len(queue)
    BY <1>1, <2>1, Places DEF WhenSize
  <2> QED BY <2>1, <2>2, Places DEF TypeOK, WhenSize
<1> QED BY <1>1, Invariance, PTL DEF SizeExact
=============================================================================
