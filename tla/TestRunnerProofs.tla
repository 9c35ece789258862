--------------------------- MODULE TestRunnerProofs ---------------------------
(***************************************************************************)
(* For every number of tests and every choice of them, the PA4 harness     *)
(* gives each test its own verdict, has its alarm on only while child_pid  *)
(* is the child of the test at hand, and returns 0 from run_testrunner     *)
(* only if all tests chosen passed (TestRunner.tla).                       *)
(***************************************************************************)
EXTENDS TestRunner, TLAPS

Ways == {"ok", "fail", "signal", "killed"}

TypeOK ==
  /\ matching \in SUBSET Tests /\ max_errors_before_quit \in {0, 1}
  /\ i \in 1..TestCount + 1
  /\ ran \in Int /\ passed \in Int /\ failed \in Int
  /\ target_matched \in BOOLEAN
  /\ child_pid \in {"none", "child", "failed"}
  /\ sent_child_timeout_kill_signal \in BOOLEAN
  /\ alarm \in 0..TestCount
  /\ child \in {"none", "running"} \cup Ways /\ waited \in BOOLEAN
  /\ result \in 0..2
  /\ pc \in {"loop", "invoke", "inline", "arm", "wait", "judge", "stopped",
             "result", "done", "aborted", "exited"}
  /\ outcome \in [Tests -> {"none"} \cup Ways]
  /\ late \in SUBSET Tests

\* The test at i has been chosen, and is counted as failed until its verdict.
Busy == pc \in {"invoke", "inline", "arm", "wait", "judge", "stopped", "result"}

\* child_pid names the child from fork to the verdict, and the alarm is on only
\* between alarm(timeout_seconds) and alarm(0), for the test at i.
Control ==
  /\ Busy => i \in matching
  /\ child_pid = "child" <=> pc \in {"arm", "wait", "judge", "stopped"}
  /\ pc = "inline" => child_pid = "failed"
  /\ alarm # 0 => alarm = i /\ pc \in {"wait", "judge"}

\* How the child ended, and whether its time was up, is known to the parent.
Knowledge ==
  /\ child = "running" => pc \in {"arm", "wait"}
  /\ pc \in {"arm", "wait", "judge", "stopped"} =>
       child # "none" /\ (child # "running" => outcome[i] = child)
  /\ pc \in {"wait", "judge", "stopped"} => (sent_child_timeout_kill_signal <=> i \in late)
  /\ pc \in {"judge", "stopped"} => waited \/ i \in late
  /\ \A t \in late : t <= i /\ (t = i => pc \in {"wait", "judge", "stopped", "result"})

\* The verdict so far of a test that has had its turn.
Passed(t) == outcome[t] = "ok" /\ t \notin late

\* Nothing is counted as passed that has not: no failures, no failed test.
Tally ==
  /\ passed + failed = ran
  /\ failed >= IF Busy THEN 1 ELSE 0
  /\ failed = (IF Busy THEN 1 ELSE 0) =>
       \A t \in matching : t < i => Passed(t)
  /\ target_matched => matching # {}

\* The inductive invariant.
IInv == TypeOK /\ Control /\ Knowledge /\ Tally /\ VerdictExact /\ SuccessHonest

LEMMA Initially == Init => IInv
<1> SUFFICES ASSUME Init PROVE IInv
  OBVIOUS
<1>1. TypeOK
  <2>1. outcome \in [Tests -> {"none"} \cup Ways]
    BY DEF Init
  <2>2. i \in 1..TestCount + 1 /\ alarm \in 0..TestCount /\ late \in SUBSET Tests
    BY TestRunnerAssumption DEF Init, TestRunnerAssumption
  <2>3. target_matched \in BOOLEAN /\ sent_child_timeout_kill_signal \in BOOLEAN
        /\ waited \in BOOLEAN
    BY Zenon DEF Init
  <2> QED BY <2>1, <2>2, <2>3 DEF Init, TypeOK
<1>2. Control /\ Knowledge
  BY DEF Init, Control, Knowledge, Busy
<1>3. Tally
  BY DEF Init, Tally, Busy, Tests
<1>4. VerdictExact /\ SuccessHonest
  BY DEF Init, VerdictExact, SuccessHonest
<1> QED BY <1>1, <1>2, <1>3, <1>4 DEF IInv

USE TestRunnerAssumption DEF TestRunnerAssumption

-----------------------------------------------------------------------------
(* The loop and the verdict                                                *)

LEMMA LoopKeeps ==
  IInv /\ (Skip \/ RunOneTest \/ UpdateStats \/ Finish) => IInv'
<1> USE DEF IInv, TypeOK, Control, Knowledge, Tally, Busy, VerdictExact,
            SuccessHonest, Passed, Ways, Tests, Goto, GoesOn, setup, stats
<1>1. IInv /\ Skip => IInv'
  BY DEF Skip
<1>2. IInv /\ RunOneTest => IInv'
  BY DEF RunOneTest
<1>3. IInv /\ UpdateStats => IInv'
  BY DEF UpdateStats
<1>4. IInv /\ Finish => IInv'
  BY DEF Finish
<1> QED BY <1>1, <1>2, <1>3, <1>4

LEMMA ParentKeeps ==
  IInv /\ (ForkFails \/ AssertFails \/ Fork \/ Arm \/ Reap \/ StopAlarm \/ Conclude)
    => IInv'
<1> USE DEF IInv, TypeOK, Control, Knowledge, Tally, Busy, VerdictExact,
            SuccessHonest, Passed, Ways, Tests, Goto, setup, stats
<1>1. IInv /\ ForkFails => IInv'
  BY DEF ForkFails
<1>2. IInv /\ AssertFails => IInv'
  BY DEF AssertFails
<1>3. IInv /\ Fork => IInv'
  BY DEF Fork
<1>4. ASSUME IInv, Arm PROVE IInv'
  <2>a. sent_child_timeout_kill_signal' \in BOOLEAN
    BY <1>4, Zenon DEF Arm
  <2>b. i \in Tests /\ alarm' = i
    BY <1>4 DEF Arm
  <2>0. TypeOK'
    BY <1>4, <2>a, <2>b DEF Arm
  <2>1. Control'
    BY <1>4 DEF Arm
  <2>2. Knowledge' /\ Tally'
    BY <1>4 DEF Arm
  <2>3. VerdictExact' /\ SuccessHonest'
    BY <1>4 DEF Arm
  <2> QED BY <2>0, <2>1, <2>2, <2>3
<1>5. IInv /\ Reap => IInv'
  BY DEF Reap
<1>6. IInv /\ Conclude => IInv'
  BY DEF Conclude, KillChild
<1>7. IInv /\ StopAlarm => IInv'
  BY DEF StopAlarm
<1> QED BY <1>1, <1>2, <1>3, <1>4, <1>5, <1>6, <1>7

-----------------------------------------------------------------------------
(* The test itself and the alarm                                           *)

LEMMA TestKeeps ==
  ASSUME NEW end \in {"ok", "fail", "signal"}
  PROVE  IInv /\ (ChildEnds(end) \/ RunInline(end)) => IInv'
<1> USE DEF IInv, TypeOK, Control, Knowledge, Tally, Busy, VerdictExact,
            SuccessHonest, Passed, Ways, Tests, Goto, setup, stats
<1>1. IInv /\ ChildEnds(end) => IInv'
  BY DEF ChildEnds, Ends
<1>2. IInv /\ RunInline(end) => IInv'
  BY DEF RunInline
<1> QED BY <1>1, <1>2

LEMMA InlineExitsKeeps == IInv /\ InlineExits => IInv'
<1> SUFFICES ASSUME IInv, InlineExits PROVE IInv'
  OBVIOUS
<1>1. PICK end \in {"ok", "fail"} :
        /\ outcome' = [outcome EXCEPT ![i] = end]
        /\ result' = IF end = "ok" THEN 0 ELSE 1
  BY DEF InlineExits
<1> QED BY <1>1 DEF InlineExits, IInv, TypeOK, Control, Knowledge, Tally, Busy,
        VerdictExact, SuccessHonest, Passed, Ways, Tests, Goto, setup, stats

LEMMA AlarmKeeps == IInv /\ AlarmFires => IInv'
<1> SUFFICES ASSUME IInv, AlarmFires PROVE IInv'
  OBVIOUS
<1> USE DEF KillChild
<1>1. /\ alarm = i /\ alarm' = 0 /\ late' = late \cup {i} /\ i \in Tests
      /\ pc \in {"wait", "judge"} /\ child_pid = "child" /\ child_pid' = "child"
      /\ sent_child_timeout_kill_signal' = TRUE
      /\ pc' = pc \/ (child = "running" /\ pc = "wait" /\ pc' = "judge")
      /\ UNCHANGED <<matching, max_errors_before_quit, i, ran, passed, failed,
                     target_matched, result>>
      /\ i \in matching
  BY DEF AlarmFires, IInv, TypeOK, Control, Busy, Goto, setup, stats, Tests
<1>2. \/ /\ child = "running" /\ child' = "killed"
         /\ outcome' = [outcome EXCEPT ![i] = "killed"]
      \/ child # "running" /\ UNCHANGED <<child, outcome>>
  BY <1>1 DEF AlarmFires, Ends
<1>3. TypeOK'
  <2>1. outcome' \in [Tests -> {"none"} \cup Ways] /\ child' \in {"none", "running"} \cup Ways
    BY <1>1, <1>2 DEF IInv, TypeOK, Ways
  <2>2. waited' \in BOOLEAN
    BY DEF IInv, TypeOK, AlarmFires
  <2>3. late' \in SUBSET Tests /\ alarm' \in 0..TestCount /\ i' \in 1..TestCount + 1
    BY <1>1 DEF IInv, TypeOK
  <2> QED BY <1>1, <2>1, <2>2, <2>3 DEF IInv, TypeOK
<1>4. Control'
  BY <1>1 DEF Control, Busy, IInv
<1>5. Knowledge'
  BY <1>1, <1>2 DEF IInv, Knowledge, TypeOK, Tests
<1>6. \A t \in Tests : t # i => outcome'[t] = outcome[t]
  BY <1>2 DEF IInv, TypeOK
<1>7. Tally'
  BY <1>1, <1>6 DEF IInv, TypeOK, Tally, Busy, Passed
<1>8. VerdictExact'
  BY <1>1, <1>2, <1>6 DEF IInv, TypeOK, VerdictExact
<1>9. SuccessHonest'
  BY <1>1 DEF SuccessHonest
<1> QED BY <1>3, <1>4, <1>5, <1>7, <1>8, <1>9 DEF IInv

LEMMA StutterKeeps == IInv /\ UNCHANGED vars => IInv'
BY DEF vars, IInv, TypeOK, Control, Knowledge, Tally, Busy, VerdictExact,
       SuccessHonest, Passed, setup, stats

\* The invariant the other theorems follow from: what the parent knows of the
\* child, whose alarm is on, and what the counters stand for.
THEOREM Invariance == Spec => []IInv
<1>1. Init => IInv
  BY Initially
<1>2. IInv /\ [Next]_vars => IInv'
  BY LoopKeeps, ParentKeeps, TestKeeps, InlineExitsKeeps, AlarmKeeps, StutterKeeps
     DEF Next, Harness, Ended
<1> QED BY <1>1, <1>2, PTL DEF Spec

\* Every test gets its own verdict, wherever the alarm finds the parent.
THEOREM VerdictsExact == Spec => []VerdictExact
<1>1. IInv => VerdictExact
  BY DEF IInv
<1> QED BY <1>1, Invariance, PTL

\* The alarm is on only while child_pid is the child of the test at hand.
THEOREM AlarmSafe == Spec => []AlarmFindsChild
<1>1. IInv => AlarmFindsChild
  BY DEF IInv, Control, AlarmFindsChild
<1> QED BY <1>1, Invariance, PTL

\* run_testrunner returns 0 only if every test chosen ended with 0 in time, fork
\* failed or not.
THEOREM SuccessSound == Spec => []SuccessHonest
<1>1. IInv => SuccessHonest
  BY DEF IInv
<1> QED BY <1>1, Invariance, PTL
=============================================================================
