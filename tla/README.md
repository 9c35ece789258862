# A verification project for CSCE451

TLA+ models of the programs in this repository (operating-systems assignments
PA0 to PA5, C and C++), model-checked with TLC and proved with TLAPS.

    tlc -workers 2 -config sched_prompt.cfg SchedulerMC
    tlapm SchedulerProofs.tla

`PROJECT.json` lists the runs, what each definition models, the hazards, the
findings and the theorems.

## 1. Inventory

| Part | State | Operations | What is hard | What makes it correct |
|---|---|---|---|---|
| PA4 scheduler (`scheduler.c`) | `quit`, `currentThread`, `completed`, `run_times`, `wait_times`, the timer | `create_workers`, `scheduler_run`, `timer_handler` (suspend or cancel the current worker, pick and resume the next), `clean_up` | a signal handler that may run in any thread and twice at once; signals that coalesce; memory freed by one thread and used by another | one worker computes at a time, in round-robin order; nothing freed is used; each quantum is charged once; it ends when all are done |
| PA4 workers (`worker.c`) | mask, pending signals, `queue_sem`, `thread_info_t` | `start_worker`, `enter_`/`leave_scheduler_queue`, handlers of SIGUSR1 and SIGTERM | the order of `sem_post`, `list_remove`, `free`; a signal sent before its receiver waits | tokens are conserved; at most `queue_size` workers are in the list |
| PA4 list (`list.c`) | head, tail, links, lock | insert at either end, remove, size | a reader without the lock; two operations in a row are not one; a second removal of the same element | at every assignment a reader finds the list; no element out of it keeps a link |
| PA4 harness (`testrunner.c`) | `child_pid`, `sent_child_timeout_kill_signal`, the alarm, the counters | fork, alarm, wait, verdict, the loop over the tests | the alarm fires before, in or after `waitpid`; `sa_flags` is never set; `fork` fails | each test gets its own verdict; no process but the child is killed; 0 is returned only if all passed |
| PA3 problem 1 (`part1.cpp`) | three semaphores, stack buffer | producer, consumer | tokens without an item at the end; `exit(0)` by the first consumer that finds nothing | buffer bounds; ends only when all was consumed, and does end |
| PA3 problem 2 (`part2.cpp`) | mutex, two condition variables of a counter and a semaphore | `wait`, `signal`, `mon_insert`, `mon_remove` | counters updated without the mutex | as above |
| PA5 (`part1.cpp`, `part2.cpp`) | TLB, page table, frames, timers, counters | one translation per address; FIFO and LRU replacement | a cache that is not invalidated; bounds of indices and timers | the byte printed belongs to the address; replacement and counters match the textbook policies |
| PA2 shell, parser (`parser.cpp`) | `parser_state`, `ending_semicolon`, the commands so far | one token, the end of the line | flags and modes carried from one command to the next | exactly the lines of the grammar are accepted, and mean what the grammar says |
| PA2 shell, executor (`main.cpp`) | `previousMode`, `child_status`, `pipe1`, the descriptors | read a line; pipe, fork, redirect, wait, choose the next command | state of one command used for another; pipes against waiting for each command in turn; write ends that stay open | `&&`, `\|\|`, `;` choose the right commands; a reader sees the end of its pipe; the line ends |
| PA0 | none | echo, cat | nothing | not modelled |

The programs do not call each other. Within PA4: main creates the scheduler
thread and the workers; workers and handlers share the list and the semaphore;
the timer interrupts any thread that does not block SIGALRM; the handler talks
to workers by SIGUSR1 (suspend), SIGUSR2 (resume) and SIGTERM (cancel). The
harness runs any `main` as a test in a child. Within PA2: `main` reads a line,
the parser turns it into commands, `runcmd` runs them in children that share
pipes.

## 2. Modules

| Module | Models | Role |
|---|---|---|
| `Scheduler` | `scheduler.c`, `worker.c`, `list.c` | the detailed specification and its properties |
| `RoundRobin` | - | what the scheduler promises, without threads or signals |
| `SchedulerMC` | - | instance for TLC and the refinement mapping to `RoundRobin` |
| `SchedulerProofs` | - | theorems about `Scheduler`, for any timing |
| `SchedulerPromptProofs` | - | theorems about `Scheduler` under `Prompt`, and the refinement |
| `ThreadList` | `list.c` | the pointers behind `Scheduler`'s sequence, one assignment at a time |
| `ThreadListProofs` | - | theorems about `ThreadList` |
| `TestRunner` | `testrunner.c` | the harness, its child and its alarm |
| `TestRunnerProofs` | - | theorems about `TestRunner` |
| `ProdCon` | PA3 problem 1 | the detailed specification and its properties |
| `BoundedBuffer` | - | what both programs of PA3 promise |
| `ProdConProofs` | - | theorems about `ProdCon` |
| `Monitor` | PA3 problem 2 | the monitor with its racing counters |
| `MonitorProofs` | - | theorems about `Monitor` |
| `VirtualMemory` | PA5 parts 1 and 2 | both simulators; reference definitions of LRU and of a FIFO cache |
| `VirtualMemoryMC` | - | instance for TLC, symmetry of pages |
| `VirtualMemoryProofs` | - | theorems about `VirtualMemory` |
| `ShellParser` | `parser.cpp`, `command.hpp` | the automaton of the parser; the reference grammar |
| `Shell` | `main.cpp` | the loop of `main`, `runcmd` and the children, behind `ShellParser` |
| `ShellProofs` | - | theorems about `Shell` |

Operators named `X_Something` after a comment that begins with *Mutant* are
deliberately wrong versions of `X`. They are not part of any specification; for
each property that a passing run checks, `PROJECT.json` names one that breaks it.

### Scheduler

*Threads.* Workers are `1..ThreadCount`, then `Main` and `Sched`. Each thread
has its own place in `timer_handler` (`hnd`, with the `thread_info_t` it holds
in `harg`), because the kernel delivers SIGALRM to any thread that does not
block it (`CanTakeAlarm`: main, the scheduler thread, a worker before its
`pthread_sigmask`) and `sa_mask` is empty, so a second thread may enter the
handler while the first is inside it. A thread inside the handler does nothing
else. A step ends where handlers, workers and the list meet: `Check` is
`list_size`, `suspend_worker` and `cancel_worker` go up to the next list operation,
`RotateOut` and `RotateIn` are the two list operations of a rotation, and so on.
What the code does in between is grouped with them: `update_run_time`, `quanta--`
and `pthread_kill` (`scheduler.c:122-132`), the signal, the totals and `completed++`
(94-98), the read of the head and the assignment of `currentThread` (156, 177), the
signal and `update_wait_time` (83-85). Two handlers inside one of these groups at once
may lose each other's updates in the code, not in the model. What is checked and proved
without `Prompt` does not depend on it: the invariant gives times, quanta, totals
and `completed` only their types, and its proof takes either branch of a test on them; of
`currentThread` it says only that it has entered. With `Prompt` there is one handler
at a time.

*Signals.* `sig[w]` is a set: standard signals do not queue, so a second SIGUSR2
sent while one is pending is lost. `Suspend` is the delivery of SIGUSR1 (not
while its handler runs), `FirstResume` and `Resume` are the two `sigwait`s, which
take SIGUSR2, and `cancel_thread` is the handler of SIGTERM.

*Time.* `now` counts timer periods (`QUANTUM`s) and time stamps have this
resolution. `Tick` raises SIGALRM; a pending one swallows it.

*Where the model stops.* Use of freed memory, of a dead thread's id or of a NULL
list head sets `status = "undefined"`. A second insertion of an element by an overlapping
handler is defined: `list_insert_tail` clears its `next`, or makes it its own neighbour if
it was the last. `RotateInAgain` takes this step, with what a walk from the head meets
afterwards, and sets `status = "broken"`; the workers behind the element are lost.
What the program does with such a list is not followed any further. The properties
checked without `Prompt` speak of everything up to these points; `NoUndefined`
says that neither is reached.

*Abstractions.* Library calls (`printf`, `malloc`, `free`, the list's mutex) are
atomic and succeed; the handler's calls that are not async-signal-safe are
therefore outside the model. A thread id is the thread itself. The list is a
sequence, which `ThreadList` justifies. `pthread_join` in main stores a pointer
into an `int`; that overrun is not modelled. The run starts where
`start_scheduler` has returned.

### ThreadList

The actions are the statements of `list_insert_tail`, `list_insert_head`,
`list_remove` and `list_size` that write a pointer, in the order of the code, with
the lock held from the first to the last. `queue` is the sequence the list stands
for; it changes with the one assignment that changes what a reader from `head`
sees. `ForwardLinked` then says that `next_worker`, which takes no lock, finds
head and successors of a list `Scheduler` has too, halfway through an
operation as well. An element in the list is not inserted again, so the module
reaches as far as `Scheduler` does before `RotateInAgain`; removing one that is not
there is allowed, since overlapping handlers do it.

### TestRunner

The parent, one child at a time, and the alarm. `AlarmFires` is the delivery and
the whole handler; it may come at any step of the parent, and if the parent blocks
in `waitpid` that call may or may not end with -1, because `sa_flags` is not
initialised. `StopAlarm` is `alarm(0)` and `Conclude` the second kill, `child_pid = 0`
and the return. A failed `fork` leaves -1 in `child_pid`: the test runs in the
harness, where it returns or dies (`RunInline`) or ends the process (`InlineExits`);
if it returns, the next one stops at the assertion. The tests of `smp5_tests.c` do end
it: they call `smp5_main`, which does not return but calls `pthread_exit(0)`
(`scheduler.c:378`), so after a failed `fork` the exit code of the harness is 0 if that
scheduler comes to its end, and the tests after it do not run. `SuccessHonest` is
therefore about what `run_testrunner` returns, not about the exit code. A
child ends with exit code 0 or another, dies of a signal, hangs, or is killed; for
the same reason its code says that the scheduler ended, not that its output was right.
The second kill and a late alarm are aimed at a process id that `waitpid` has already
given back; that it may have been used again is not represented.

### ShellParser and Shell

A token is its type and a word its position in the line, so that a word that ends
up in the wrong place shows; types have the names of `shell_token_type`. One action
per branch of the automaton; `Cuts`, `WellFormed` and `Meaning` say what a line means
without an automaton, segment by segment between the connectors.

`Shell` adds `main` and `runcmd`. A pipe is the number of the command that opened
it; `writers[k]` says whether the shell or the running child has its write end
open, `bytes[k]` what it holds. `Start` is pipe, fork and everything the child does
up to `execvp`, `Wait` is the end of the child with what the shell does after
`wait`. `Source` and `Sink` contain the terminal for a redirection to a file, since
the code goes on when `open` fails. Descriptors leak as in the code (`fds`), and
`StartFails` is the `exit(1)` after a `pipe` or `fork` that fails. A program is a number of
units to write and whether it reads its input to the end.

### ProdCon and Monitor

An action is one semaphore operation or one critical section. A thread that main
has not created yet is one that has not moved. In `Monitor` the `int` counters of
the condition variables are not protected: `ReadCount` and `WaitWrite` or
`SignalWrite` are separate steps, and the branch is taken on the value written,
as the optimised build does. The model stops at the first write past the buffer.
`main` joins the thread it created last as often as there are threads; what that does
from the second time on is undefined, and left out.

### VirtualMemory

An action is one address. `strategy` (the program and its third argument) is
chosen in `Init`. `trace` holds the pages requested so far: it is the part of the
address file that was read, its length is the code's `count` and `addresses`, and
the reference definitions (`MostRecent`, `TLBQueue`) are functions of it. `NeverStale`
says when no TLB entry can point to a frame that has been given away: in part 1, and in
the LRU program with `Frames >= 2 * TableSize - 1` and no more addresses than `Minimum`
(9999). A byte is represented by the page it belongs to.

## 3. Runs

| Run | Instance | Shows |
|---|---|---|
| `sched_prompt` | 3 workers, queue of 2, 0 to 2 quanta each, 8 ticks | With prompt threads: the types, no undefined behaviour, one runner, exact accounting, bounded waiting, `quit` only when all are done, termination, refinement of `RoundRobin` |
| `sched_async` | 2 workers, queue of 1, 1 or 3 quanta each, 3 ticks, no timing assumption | Through overlapping handlers and lost signals tokens are conserved, nobody is lost from the list, it holds nobody who is freed or stays for ever, and it is at most one element per leaving handler too long |
| `sched_capacity` | 2 workers, queue of 1 | **violated**: the list may hold `queue_size + 1` workers |
| `list` | 4 elements | At every assignment the pointers are the sequence; both directions agree when the lock is free; `list_size` counts it |
| `harness` | 3 tests, any of them selected | Verdicts and kills are right wherever the alarm strikes, `run_testrunner` returns 0 only for success, and every forked test is decided |
| `prodcon` | 2 producers, 3 consumers, 3 slots, 4 items | Every safety property, termination, refinement of `BoundedBuffer` |
| `monitor` | 2 producers, 2 consumers, 1 slot, 2 items | The mutex and the items survive the racing counters |
| `monitor_bound` | 1 producer, 1 consumer, 1 slot | **violated**: a producer inserts into a full buffer |
| `vmm` | 6 pages, 3 frames, 2 TLB slots, 9 addresses, all three programs | Page table, TLB, LRU and the fault and hit counters match their references |
| `vmm_stale` | the same, FIFO | **violated**: a byte of another page is printed |
| `shell` | 2 lines of up to 6 tokens, pipes of 2 units, 11 descriptors | The parser accepts the grammar; readers see the end of their pipes; commands are chosen by their predecessors; every line ends |
| `shell_always` | 1 line of up to 5 tokens | **violated**: in `a \|\| b ; c` the unconditional `c` does not run when `a` succeeds |

*`Prompt`.* `TRUE` says that a timer period (one second) is long enough for
every thread to handle what it was sent: `Tick` waits until no thread has
anything to do before another one acts (`Settled`). That is what the program
relies on and what nearly always happens. `FALSE` makes no assumption. Most
properties of interest hold only under `Prompt`; the difference between the two is
exactly the list of hazards of PA4. Without it a worker that is slow between
`sem_wait` and `list_insert_tail` lets the scheduler quit early (`Check` finds the
list empty), and so does a handler between two list operations: `QuitMeansDone` fails
with `Prompt = FALSE`, 2 workers, a queue of 1, one quantum each and 3 ticks. `NoUndefined`
fails with two handlers at once. So the properties checked under `Prompt` tell what the
design achieves when the timing holds; they do not guard against the hazards of
overlap and slow threads. Those without it (`TokenConservation`, `OverrunBound`,
`ListExact`) do.

*Bounds.* Three workers for two places make one wait for a token while the
others rotate, the smallest instance in which a new worker can meet a suspended
one. `HeapContents` holds two values that differ from every time of the run, so a
use of uninitialised memory shows in the accounting. `MaxTicks` in `sched_prompt`
is more than the sum of all quanta plus the first and last tick, so it never
stops a run (`Termination` holds with it). In `sched_async` it does stop the runs:
three ticks allow a rotation, a cancellation and three handlers at once, and with three
quanta two handlers rotate the same worker, so that `RotateInAgain` happens; where the
ticks end the model stops, so deadlock is not checked there. The same
properties hold with a queue of 2 (10.4 million states); there `NobodyLost` fails if its
hypothesis `status # "broken"` is dropped: the list `<<1, 2>>` becomes `<<1>>`. `vmm` and `monitor` do
not check deadlock either: the address file ends, and threads of the monitor may
all block or leave. Three frames for two TLB slots is the boundary of
`TLBCoherent`, `Frames >= 2 * TableSize - 1`: with two frames it fails, and with
three slots it fails for four frames and holds for five. PA5 has 128 and 16. Nine
addresses suffice for every structure to overflow more than once. Four elements of
`list` give a middle element with a neighbour on either side and one that is
outside. Three tests let an alarm of the first meet the second, and a failure end
the run before the last. Six tokens make three commands, so a status can be
used two commands later; five suffice for `a || b ; c`. Eleven
descriptors are enough for four commands, so two lines of
three exhaust them.

*`LineEnds` and the size of a pipe.* The shell waits for a writer before it starts
the reader. `LineEnds` is checked with `MaxOutput = PipeCapacity`; with one unit
more (`MaxOutput = 3`) TLC shows the writer blocked for ever. The handout promises
nothing on this point, so it is not a run.

*Fairness.* `Scheduler`: weak fairness of each thread, of each thread's handler,
of the delivery of a pending SIGALRM to some thread, and of the timer - what a
preemptive kernel and a running interval timer give; none for `CreateFails`.
`ProdCon`: weak fairness of each thread; a `sem_wait` may be overtaken any number of
times, so strong fairness is not used. `TestRunner`: weak fairness of the
harness and of an armed alarm; none for the test, which may hang. `Shell`: weak
fairness of `Run`, the shell between two prompts together with its child: while a child
runs the shell only waits for it, so one condition covers both; none for the
user who types lines. The others are checked for safety only.

## 4. What is proved

Each theorem holds for every value of the constants that satisfies the module's
named assumption. An inductive invariant (`IInv`; `PInv`, `Served` and `TInv` under
`Prompt`; `RInv` for the references of `VirtualMemory`; `GInv` for the grammar of the
shell) is preserved by each action, one lemma or step per action or per conjunct.

* `SchedulerProofs`, any number of workers, queue size, quanta and timing:
  `TypeCorrectness`, `TokensConserved`, `ListAlwaysExact`, `OverrunBounded`.
  `CreatedInOrder` is needed by `TokenConservation` (a worker that is created was not
  a holder before). `ListSound` is not inductive alone: that an element put back is
  not a freed one needs to know that pointers in handlers refer to workers that
  entered (`PointersEntered`), and that a worker that is in the list and no longer
  holds a token is about to be removed is `DoomedLeaving`. `ListAlwaysExact` says how
  exact the list stays: `NobodyLost` needs that a handler removes for good only a worker
  it has sent SIGTERM (`LeavingDoomed`) and that such a worker stays cancelled
  (`DoomedStays`). It claims nothing from the first second insertion on, which does
  lose workers. `OverrunBounded` then
  counts: list elements are distinct (`LengthIsCardinality`), each is a token
  holder or is being removed by a handler.
* `SchedulerPromptProofs`, under `Prompt`: `NothingUndefined`, `OneAtATime`,
  `QuitOnlyWhenDone` and `KeepsRoundRobin`. `PInv` says that there is one handler at a
  time (`OneHandler`), that the timer first expires when all workers are created
  (`Phases`), which signals a worker may have pending: one that is not the current
  is `Held`, the current one `Awake`, and all are `Held` while the turn passes from
  one to the next (`Signals`); that nothing moves between the timer and the first
  signal (`Still`); and that `completed` counts the cancelled workers. An empty list
  at a tick means that all workers are cancelled, since one that waits for a token
  would find one (`EmptyMeansDone`): this is why the code's test is right. `Served`
  adds that the current worker is at the head of the list; with it every step is a
  step of `RoundRobin` or a stutter (`KeepsRoundRobin`, the safety part of
  `RefinesRoundRobin`), and `RoomToEnter` shows from the tokens that an
  admission finds room although the list itself may be one too long.
  `WaitsBounded` and `AccountsExact` rest on `TInv`: the place of a suspended worker in
  the list and the quanta since its suspension add up to at most `QueueSize` (`Waits`),
  so each rotation takes it one place nearer to the head; the time stamps say where in a quantum each
  worker was last suspended or resumed (`Times`, `JustSuspended`, `First`); and the
  charges of all workers together follow the clock, with the one that is under way
  (`Totals`). Sums over the workers change with one summand: those lemmas are proved
  with the least counterexample, as an induction over the workers is out of reach.
* `ThreadListProofs`, any set of elements: `ReaderFindsList`, `BothDirections`,
  `SizeCounts`. The invariant has one predicate per statement of the code.
* `TestRunnerProofs`, any number of tests: `VerdictsExact`, `AlarmSafe`,
  `SuccessSound` (of the value `run_testrunner` returns). `Control` says when the alarm is on, `Knowledge` what flag and
  status tell about the child, `Tally` what the counters stand for.
* `ProdConProofs`, any number of threads, slots and items: `CriticalSectionsExclusive`,
  `TokensConserved`, `TokensMatchItems`, `InsertInBounds`, `BufferStack`,
  `NoEarlyExit`, and `Refinement`: the program implements `BoundedBuffer`.
* `MonitorProofs`, likewise: `TypeCorrect`, `CriticalSectionsExclusive`, `BufferStack`, and
  `Refinement`: up to an overflow, items move as in `BoundedBuffer`.
* `VirtualMemoryProofs`, any number of pages, frames and slots: `TypeCorrect` (every
  index within its array) and `TableSound`; `TLBAlwaysCoherent`, `LruIsExact`,
  `FaultsAreExact` and `ReadsRequested` under `NeverStale`; `TLBIsAlwaysFifo` for all three
  programs. Part 1 fills its frames in order (`Part1InOrder`), which is why no page
  loses its frame. With LRU the TLB and the replacement keep each other sound
  (`LruExact`): the pages used since a page of the TLB was are in the TLB with it, or are
  no more than have entered it since then (`SlotFresh`), so there are fewer than `Frames` of
  them if `Frames >= 2 * TableSize - 1` and a page in the TLB is never the least recently
  used. `SlotsHoldQueue` reads the two arrays and the wrapping index as
  a queue; that the queue of a longer trace is that of the shorter one and one page more is
  a statement about a recursive function, proved with the least counterexample.
* `ShellProofs`, any lines, programs, pipe sizes and limits: `TypeCorrect`, `PipesJoined`,
  `ReadersEnd`, `Selection`, `ParsesTheGrammar`. `Building` says what each parser state knows of the
  command in the making; `Chosen` that `previousMode` and `child_status`, although they
  may come from an earlier command, tell what the last one allows. For `ParsesTheGrammar`
  `GInv` relates the automaton to the line taken so far (`Parsed`): its closed segments are
  well-formed and mean their commands, and the last segment means the command in progress,
  but for a path that is still to come (`InProgress`). One lemma per kind of token says
  what the token adds to that meaning (`ArgumentAdded`, `InputRedirected`, `PathTaken`, ...),
  and `ShapeGrows` and `SameSegment` that it changes no segment before. `InOrder` defines
  the order of positions by counting; with a new greatest position it grows by one
  (`InOrderAppend`).

Only model-checked: liveness (`Termination`, `TestDecided`, `LineEnds`, the fairness of
`RefinesRoundRobin`), which is out of the prover's reach. Every invariant and every other
action property that a passing run checks has a theorem.

## 5. Findings

`sched_capacity`, `monitor_bound`, `vmm_stale` and `shell_always`: see the table above, and
`PROJECT.json` for the lines and the statements they contradict. Observations without a run
of their own: `clean_up` may destroy the semaphore before the last worker has posted
it; `handleLRU` starts its search at 9999, so an address file of more
lines than that is not replaced by LRU (`NeverStale` excludes it); the lost counter
updates of the monitor can end the process early or leave a thread suspended; and after a
failed `fork` the harness may end with exit code 0 although a test before had failed.
The option `-f<n>` of the harness always means 0, because `atoi` is given the `f` too;
`TestRunner!Init` has this value.

## 6. Not modelled

* PA0: `myecho` and `mycat` copy their input and keep no state.
* How characters become tokens (the lexing in `parser.cpp`) and `operator<<` of
  `command.hpp`, which prints: data without control.
* The command line of the harness and its listing of targets (`testrunner.c`), and
  `smp5_tests.c`, which compares printed output after `smp5_main`; `smp5_main` ends in
  `pthread_exit`, so the comparison is not reached.
* `print_list`, which nothing calls; the totals `cancel_worker` prints; the checks of
  `smp5_main` on its arguments.
* Signal safety of library calls; failures of `malloc`, `sem_init`, `timer_create`,
  `fopen`; addresses beyond 16 bits; descriptors of files a failed child leaves.
