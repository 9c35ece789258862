------------------------------ MODULE TestRunner ------------------------------
(***************************************************************************)
(* The test harness of PA4 (testrunner.c): every test runs in a forked     *)
(* child under an alarm, whose handler kills the child at any point of the *)
(* parent: before, in or after waitpid.  sa_flags is never set, so a       *)
(* waitpid that the handler interrupts either goes on or returns -1.       *)
(*                                                                         *)
(* A test may end with exit code 0 or another, die of a signal or hang.    *)
(* (The tests of smp5_tests.c call smp5_main, which does not return: its   *)
(* pthread_exit(0) ends the process, so the code is 0 whenever the         *)
(* scheduler comes to its end.)  Left out: the reading of the command      *)
(* line, what is printed, and that the process id of a child already       *)
(* waited for might by now belong to another process.                      *)
(***************************************************************************)
EXTENDS Integers, FiniteSets

CONSTANT TestCount

ASSUME TestRunnerAssumption == TestCount \in Nat \ {0}

Tests == 1..TestCount

VARIABLES
  matching,                  \* the tests whose name or suite is the target
  max_errors_before_quit,
  i, ran, passed, failed,    \* the loop's index and the stats
  target_matched,
  child_pid,                 \* "none", "child" or "failed" (fork's -1)
  sent_child_timeout_kill_signal,
  alarm,                     \* the test that armed the alarm, 0 if none
  child,                     \* the child process, or how it ended
  waited,                    \* waitpid returned the child, not -1
  result,                    \* what invoke_test_with_timelimit returns, then
                             \* the exit code
  pc,                        \* "exited": a test has ended the harness
  outcome, late              \* per test, how it ended; those whose time was up

stats == <<ran, passed, failed>>
setup == <<matching, max_errors_before_quit>>
vars  == <<setup, i, stats, target_matched, child_pid, sent_child_timeout_kill_signal,
           alarm, child, waited, result, pc, outcome, late>>

\* One failure ends the run, unless there is an option -f<n>: atoi reads the "f"
\* as well, so it is 0, no limit, for every n.
Init ==
  /\ matching \in SUBSET Tests /\ max_errors_before_quit \in {0, 1}
  /\ i = 1 /\ ran = 0 /\ passed = 0 /\ failed = 0
  /\ target_matched = FALSE
  /\ child_pid = "none" /\ sent_child_timeout_kill_signal = FALSE
  /\ alarm = 0 /\ child = "none" /\ waited = FALSE /\ result = 0
  /\ pc = "loop"
  /\ outcome = [t \in Tests |-> "none"] /\ late = {}

Goto(from, to) == pc = from /\ pc' = to

-----------------------------------------------------------------------------
(* run_testrunner and run_one_test                                         *)

GoesOn == /\ i <= TestCount
          /\ max_errors_before_quit < 1 \/ failed # max_errors_before_quit

Skip ==
  /\ pc = "loop" /\ GoesOn /\ i \notin matching
  /\ i' = i + 1
  /\ UNCHANGED <<setup, stats, target_matched, child_pid, sent_child_timeout_kill_signal,
                 alarm, child, waited, result, pc, outcome, late>>

RunOneTest ==
  /\ GoesOn /\ i \in matching
  /\ Goto("loop", "invoke")
  /\ target_matched' = TRUE
  /\ ran' = ran + 1 /\ failed' = failed + 1
  /\ UNCHANGED <<setup, i, passed, child_pid, sent_child_timeout_kill_signal,
                 alarm, child, waited, result, outcome, late>>

UpdateStats ==
  /\ Goto("result", "loop")
  /\ IF result = 0 THEN failed' = failed - 1 /\ passed' = passed + 1
                   ELSE UNCHANGED <<failed, passed>>
  /\ i' = i + 1
  /\ UNCHANGED <<setup, ran, target_matched, child_pid, sent_child_timeout_kill_signal,
                 alarm, child, waited, result, outcome, late>>

\* run_testrunner returns; the exit code is in result.
Finish ==
  /\ ~GoesOn /\ Goto("loop", "done")
  /\ result' = IF passed = ran /\ target_matched THEN 0 ELSE 1
  /\ UNCHANGED <<setup, i, stats, target_matched, child_pid, sent_child_timeout_kill_signal,
                 alarm, child, waited, outcome, late>>

-----------------------------------------------------------------------------
(* invoke_test_with_timelimit                                              *)

\* fork fails: child_pid keeps the -1 ...
ForkFails ==
  /\ child_pid = "none"
  /\ Goto("invoke", "inline")
  /\ child_pid' = "failed"
  /\ UNCHANGED <<setup, i, stats, target_matched, sent_child_timeout_kill_signal,
                 alarm, child, waited, result, outcome, late>>

\* ... and assert(!child_pid) ends the harness at the next test.
AssertFails ==
  /\ child_pid # "none"
  /\ Goto("invoke", "aborted")
  /\ UNCHANGED <<setup, i, stats, target_matched, child_pid, sent_child_timeout_kill_signal,
                 alarm, child, waited, result, outcome, late>>

\* The test runs in the harness itself, without a limit: its value is the result,
\* a signal ends both ...
RunInline(end) ==
  /\ Goto("inline", IF end = "signal" THEN "aborted" ELSE "result")
  /\ outcome' = [outcome EXCEPT ![i] = end]
  /\ IF end = "ok" THEN result' = 0 ELSE result' \in {1, 2}
  /\ UNCHANGED <<setup, i, stats, target_matched, child_pid, sent_child_timeout_kill_signal,
                 alarm, child, waited, late>>

\* ... and so do smp5_main, whose pthread_exit leaves the exit code 0, and the
\* exit(1) of its errors and of quit_if.
InlineExits ==
  /\ Goto("inline", "exited")
  /\ \E end \in {"ok", "fail"} :
       /\ outcome' = [outcome EXCEPT ![i] = end]
       /\ result' = IF end = "ok" THEN 0 ELSE 1
  /\ UNCHANGED <<setup, i, stats, target_matched, child_pid, sent_child_timeout_kill_signal,
                 alarm, child, waited, late>>

Fork ==
  /\ child_pid = "none"
  /\ Goto("invoke", "arm")
  /\ child_pid' = "child" /\ child' = "running"
  /\ UNCHANGED <<setup, i, stats, target_matched, sent_child_timeout_kill_signal,
                 alarm, waited, result, outcome, late>>

\* Mutant: the alarm is not set.
Arm_NoAlarm ==
  /\ Goto("arm", "wait")
  /\ sent_child_timeout_kill_signal' = FALSE
  /\ UNCHANGED <<setup, i, stats, target_matched, child_pid, alarm, child, waited,
                 result, outcome, late>>

Arm ==
  /\ Goto("arm", "wait")
  /\ sent_child_timeout_kill_signal' = FALSE
  /\ alarm' = i
  /\ UNCHANGED <<setup, i, stats, target_matched, child_pid, child, waited, result,
                 outcome, late>>

\* waitpid returns the child.
Reap ==
  /\ child # "running"
  /\ Goto("wait", "judge") /\ waited' = TRUE
  /\ UNCHANGED <<setup, i, stats, target_matched, child_pid, sent_child_timeout_kill_signal,
                 alarm, child, result, outcome, late>>

\* Mutant: the alarm stays on.
StopAlarm_Omitted ==
  /\ Goto("judge", "stopped")
  /\ UNCHANGED <<setup, i, stats, target_matched, child_pid, sent_child_timeout_kill_signal,
                 alarm, child, waited, result, outcome, late>>

\* alarm(0).  What passed is computed from just before it, waited and the exit
\* code of the child, changes no more.
StopAlarm ==
  /\ Goto("judge", "stopped")
  /\ alarm' = 0
  /\ UNCHANGED <<setup, i, stats, target_matched, child_pid, sent_child_timeout_kill_signal,
                 child, waited, result, outcome, late>>

\* kill(child_pid, SIGKILL) ends a child, if one is left.
Ends(end) ==
  /\ child' = end
  /\ outcome' = [outcome EXCEPT ![i] = end]

KillChild == IF child = "running" THEN Ends("killed") ELSE UNCHANGED <<child, outcome>>

\* Mutant: death by a signal is not told from exit(0).
Conclude_ExitValueOnly ==
  /\ Goto("stopped", "result")
  /\ KillChild /\ child_pid' = "none"
  /\ result' = IF sent_child_timeout_kill_signal THEN 2
               ELSE IF waited /\ child # "fail" THEN 0 ELSE 1
  /\ UNCHANGED <<setup, i, stats, target_matched, sent_child_timeout_kill_signal,
                 alarm, waited, late>>

\* A second kill, whatever became of the child, child_pid = 0 and the verdict.
Conclude ==
  /\ Goto("stopped", "result")
  /\ KillChild /\ child_pid' = "none"
  /\ result' = IF sent_child_timeout_kill_signal THEN 2
               ELSE IF waited /\ child = "ok" THEN 0 ELSE 1
  /\ UNCHANGED <<setup, i, stats, target_matched, sent_child_timeout_kill_signal,
                 alarm, waited, late>>

-----------------------------------------------------------------------------
(* The child and the timer                                                 *)

ChildEnds(end) ==
  /\ child = "running" /\ Ends(end)
  /\ UNCHANGED <<setup, i, stats, target_matched, child_pid, sent_child_timeout_kill_signal,
                 alarm, waited, result, pc, late>>

\* SIGALRM and kill_child_signal_handler; a waitpid that blocks may return -1.
AlarmFires ==
  /\ alarm # 0
  /\ alarm' = 0 /\ late' = late \cup {alarm}
  /\ IF child_pid # "none"
     THEN sent_child_timeout_kill_signal' = TRUE /\ KillChild
     ELSE UNCHANGED <<sent_child_timeout_kill_signal, child, outcome>>
  /\ \/ UNCHANGED <<pc, waited>>
     \/ child = "running" /\ Goto("wait", "judge") /\ waited' = FALSE
  /\ UNCHANGED <<setup, i, stats, target_matched, child_pid, result>>

-----------------------------------------------------------------------------
Harness == Skip \/ RunOneTest \/ UpdateStats \/ Finish \/ ForkFails \/ AssertFails
           \/ Fork \/ Arm \/ Reap \/ StopAlarm \/ Conclude

Ended == pc \in {"done", "aborted", "exited"} /\ UNCHANGED vars

Next ==
  \/ Harness \/ InlineExits \/ AlarmFires \/ Ended
  \/ \E end \in {"ok", "fail", "signal"} : ChildEnds(end) \/ RunInline(end)

Spec == Init /\ [][Next]_vars

\* The harness runs and the timer expires; a test need not end.
FairSpec == Spec /\ WF_vars(Harness) /\ WF_vars(AlarmFires)

-----------------------------------------------------------------------------
(* Properties                                                              *)

\* What is printed for a test is what happened to it, and to no other: TIMEOUT
\* exactly if its own alarm fired (even if the test ended by itself just before
\* alarm(0); a test run inline may also return the 2 that stands for it), pass
\* exactly if it ended with exit code 0 in time.  No test is killed by the alarm, or judged
\* by the flag, of the test before it.
VerdictExact ==
  /\ pc = "result" =>
       /\ result = 0 <=> outcome[i] = "ok" /\ i \notin late
       /\ child_pid = "failed" \/ (result = 2 <=> i \in late)
  /\ \A t \in Tests : outcome[t] = "killed" => t \in late

\* The handler never runs while child_pid is 0, when the timeout would be lost,
\* or -1, when its kill would go to every process there is: it is the child of
\* the test at hand, running or already waited for (testrunner.c:65-73, 117-140).
AlarmFindsChild == alarm # 0 => child_pid = "child"

\* If run_testrunner returns 0 (testrunner.c:274), the target named some tests and
\* each of them ran and ended with 0 in time, although the loop may stop at the
\* first failure and a test may have run inline.  Of an exit code of 0 as such
\* this cannot be said: a test run inline after a failed fork may end the harness
\* with its own exit code, whatever the tests before it did (InlineExits).
SuccessHonest ==
  pc = "done" /\ result = 0 =>
    /\ matching # {}
    /\ \A t \in matching : outcome[t] = "ok" /\ t \notin late

\* A test that was forked gets its verdict though it may hang: wherever the
\* alarm finds the harness, waitpid does not block for ever.
TestDecided == pc \in {"arm", "wait"} ~> pc = "result"
=============================================================================
