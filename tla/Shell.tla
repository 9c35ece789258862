-------------------------------- MODULE Shell --------------------------------
(***************************************************************************)
(* The PA2 shell: main's loop over lines, and runcmd, which runs the       *)
(* commands of a line one after the other (main.cpp), behind the parser of *)
(* ShellParser.tla.  Every command gets a pipe, whether it needs one or    *)
(* not, and a child; the shell waits for the child before it goes on.      *)
(*                                                                         *)
(* A program is any process that may read its standard input to the end,   *)
(* may write, and exits with 0 or not; 1 stands for every nonzero status,  *)
(* and an execvp that fails is a program that only fails.  A write to a    *)
(* full pipe blocks, and a read of an empty one until no process has its   *)
(* write end open.  There is no SIGPIPE: the shell keeps every read end.   *)
(***************************************************************************)
EXTENDS ShellParser

CONSTANTS
  MaxLines,       \* MAX_ALLOWED_LINES
  PipeCapacity,   \* what a pipe holds, in units of output
  MaxOutput,      \* bound: units a program writes
  FdLimit         \* RLIMIT_NOFILE

ASSUME ShellAssumption ==
  /\ MaxLines \in Nat /\ MaxTokens \in Nat
  /\ PipeCapacity \in Nat /\ MaxOutput \in Nat /\ FdLimit \in Nat

VARIABLES
  lines,                      \* i of main's loop
  previousMode, child_status,
  pipe1,                      \* the command whose pipe it reads, 0 if none
  statuses,                   \* exit statuses of the commands waited for
  child,                      \* the running program
  bytes, writers,             \* per pipe: its content, who has its write end open
  fds                         \* descriptors the shell has open

runVars == <<previousMode, child_status, pipe1, statuses, child, bytes, writers>>
vars == <<mode, parserVars, lines, runVars, fds>>

NoChild == [alive |-> FALSE]

\* What a standard stream may be besides the pipe of command 1, 2, ...
Terminal == 0
File     == -1

RunStart ==
  /\ previousMode = "always" /\ child_status = 0 /\ pipe1 = 0
  /\ statuses = <<>> /\ child = NoChild
  /\ bytes = <<>> /\ writers = <<>>

RunReset ==
  /\ previousMode' = "always" /\ child_status' = 0 /\ pipe1' = 0
  /\ statuses' = <<>> /\ child' = NoChild
  /\ bytes' = <<>> /\ writers' = <<>>

Init == mode = "prompt" /\ ParserStart /\ RunStart /\ lines = 0 /\ fds = 3

\* The command the loop is at, and the one whose child runs.
Current == Len(statuses) + 1
Idle    == child = NoChild
Command == commands[Current]

-----------------------------------------------------------------------------
(* main                                                                    *)

ReadLine ==
  /\ mode = "prompt" /\ lines < MaxLines
  /\ mode' = "parsing" /\ lines' = lines + 1
  /\ UNCHANGED <<parserVars, runVars, fds>>

\* The line "exit", the end of the input, or the limit.
LeaveLoop ==
  /\ mode = "prompt"
  /\ mode' = "exited"
  /\ UNCHANGED <<parserVars, lines, runVars, fds>>

PrintError ==
  /\ mode = "error"
  /\ mode' = "prompt" /\ ParserReset
  /\ UNCHANGED <<lines, runVars, fds>>

-----------------------------------------------------------------------------
(* runcmd: the parent                                                      *)

\* The two tests that break out of the loop.
Refused ==
  \/ child_status # 0 /\ previousMode = "on_success"
  \/ child_status = 0 /\ previousMode = "on_fail"

AtCommand == mode = "running" /\ Idle /\ Current <= Len(commands) /\ ~Refused

\* pipe or fork fails, and exit(1).
StartFails ==
  /\ AtCommand
  /\ mode' = "exited"
  /\ UNCHANGED <<parserVars, lines, runVars, fds>>

\* The standard streams of the child: a file that cannot be opened, or an append to
\* one that does not exist, leaves what the shell has.
Source(c) == CASE c.cin_mode = "pipe" -> {pipe1}
               [] c.cin_mode = "file" -> {File, Terminal}
               [] c.cin_mode = "term" -> {Terminal}
Sink(c)   == CASE c.cout_mode = "pipe" -> {Current}
               [] c.cout_mode \in {"file", "append"} -> {File, Terminal}
               [] c.cout_mode = "term" -> {Terminal}

\* pipe, fork, the child up to execvp.  The child inherits every write end the
\* shell has open and its own, even if that is not its output.
Start(reads, output, stdin, stdout) ==
  /\ AtCommand /\ fds + 2 <= FdLimit
  /\ stdin \in Source(Command) /\ stdout \in Sink(Command)
  /\ child' = [alive |-> TRUE, reads |-> reads, output |-> output,
               stdin |-> stdin, stdout |-> stdout]
  /\ bytes' = Append(bytes, 0)
  /\ writers' = [k \in 1..Current |->
                   IF k = Current \/ "shell" \in writers[k]
                   THEN {"shell", "child"} ELSE writers[k]]
  /\ fds' = fds + 2
  /\ UNCHANGED <<mode, parserVars, lines, previousMode, child_status, pipe1, statuses>>

\* Mutants: the write end of a pipe is not closed; pipe1 is not updated; the
\* status is kept although the next command is unconditional.
Wait_KeepsWriteEnd(status) ==
  /\ child' = NoChild
  /\ statuses' = Append(statuses, status)
  /\ pipe1' = Current
  /\ IF Command.next_mode \in {"on_success", "on_fail"}
     THEN previousMode' = Command.next_mode /\ child_status' = status
     ELSE UNCHANGED <<previousMode, child_status>>
  /\ writers' = [k \in DOMAIN writers |-> writers[k] \ {"child"}]
  /\ UNCHANGED <<mode, parserVars, lines, bytes, fds>>

Wait_StalePipe(status) ==
  /\ child' = NoChild
  /\ statuses' = Append(statuses, status)
  /\ pipe1' = IF pipe1 = 0 THEN Current ELSE pipe1
  /\ IF Command.next_mode \in {"on_success", "on_fail"}
     THEN previousMode' = Command.next_mode /\ child_status' = status
     ELSE UNCHANGED <<previousMode, child_status>>
  /\ writers' = [k \in DOMAIN writers |->
       IF k = Current /\ Command.cout_mode # "term" THEN {} ELSE writers[k] \ {"child"}]
  /\ UNCHANGED <<mode, parserVars, lines, bytes, fds>>

Wait_StatusAlways(status) ==
  /\ child' = NoChild
  /\ statuses' = Append(statuses, status)
  /\ pipe1' = Current
  /\ IF Command.next_mode \in {"on_success", "on_fail"}
     THEN previousMode' = Command.next_mode ELSE UNCHANGED previousMode
  /\ child_status' = status
  /\ writers' = [k \in DOMAIN writers |->
       IF k = Current /\ Command.cout_mode # "term" THEN {} ELSE writers[k] \ {"child"}]
  /\ UNCHANGED <<mode, parserVars, lines, bytes, fds>>

\* The child has exited, and its descriptors with it; wait returns.  dup2(1,
\* pipe2) replaces the shell's write end if the command's output was redirected.
Wait(status) ==
  /\ child' = NoChild
  /\ statuses' = Append(statuses, status)
  /\ pipe1' = Current
  /\ IF Command.next_mode \in {"on_success", "on_fail"}
     THEN previousMode' = Command.next_mode /\ child_status' = status
     ELSE UNCHANGED <<previousMode, child_status>>
  /\ writers' = [k \in DOMAIN writers |->
       IF k = Current /\ Command.cout_mode # "term" THEN {} ELSE writers[k] \ {"child"}]
  /\ UNCHANGED <<mode, parserVars, lines, bytes, fds>>

\* runcmd returns; its variables are its own.
LineDone ==
  /\ mode = "running" /\ Idle
  /\ Current > Len(commands) \/ Refused
  /\ mode' = "prompt" /\ ParserReset /\ RunReset
  /\ UNCHANGED <<lines, fds>>

-----------------------------------------------------------------------------
(* The program                                                             *)

others == <<mode, parserVars, lines, previousMode, child_status, pipe1, statuses,
            writers, fds>>

Write ==
  /\ child.alive /\ child.output > 0
  /\ child' = [child EXCEPT !.output = @ - 1]
  /\ IF child.stdout \in DOMAIN bytes
     THEN /\ bytes[child.stdout] < PipeCapacity
          /\ bytes' = [bytes EXCEPT ![child.stdout] = @ + 1]
     ELSE UNCHANGED bytes
  /\ UNCHANGED others

Read ==
  /\ child.alive /\ child.reads /\ child.stdin \in DOMAIN bytes
  /\ bytes[child.stdin] > 0
  /\ bytes' = [bytes EXCEPT ![child.stdin] = @ - 1]
  /\ UNCHANGED <<child, others>>

ReadEnd ==
  /\ child.alive /\ child.reads
  /\ child.stdin \in DOMAIN bytes => bytes[child.stdin] = 0 /\ writers[child.stdin] = {}
  /\ child' = [child EXCEPT !.reads = FALSE]
  /\ UNCHANGED <<bytes, others>>

Exit(status) == child.alive /\ ~child.reads /\ child.output = 0 /\ Wait(status)

-----------------------------------------------------------------------------
Run ==
  \/ \E reads \in BOOLEAN, output \in 0..MaxOutput,
        stdin \in {Terminal, File, pipe1}, stdout \in {Terminal, File, Current} :
          Start(reads, output, stdin, stdout)
  \/ StartFails \/ LineDone
  \/ Write \/ Read \/ ReadEnd \/ \E status \in {0, 1} : Exit(status)

Ended == mode = "exited" /\ UNCHANGED vars

Next ==
  \/ ReadLine \/ LeaveLoop \/ PrintError \/ Ended
  \/ Parse /\ UNCHANGED <<lines, runVars, fds>>
  \/ Run

\* The kernel schedules the shell and its child, and programs end by themselves.
Spec == Init /\ [][Next]_vars
FairSpec == Spec /\ WF_vars(Run)

-----------------------------------------------------------------------------
(* Properties                                                              *)

\* The types of the variables.
Positions == 0..MaxTokens

CommandType ==
  [cmd : Positions, args : Seq(Positions), cin_mode : {"term", "file", "pipe"},
   cin_file : Positions, cout_mode : {"term", "file", "append", "pipe"},
   cout_file : Positions, next_mode : {"always", "on_success", "on_fail"}]

TypeOK ==
  /\ mode \in {"prompt", "parsing", "error", "running", "exited"}
  /\ line \in Seq(Tokens) /\ commands \in Seq(CommandType)
  /\ state \in {"need_any_token", "need_new_command", "need_in_path", "need_out_path"}
  /\ ending_semicolon \in BOOLEAN
  /\ lines \in 0..MaxLines /\ fds \in Nat
  /\ previousMode \in {"always", "on_success", "on_fail"} /\ child_status \in {0, 1}
  /\ pipe1 \in Nat /\ statuses \in Seq({0, 1})
  /\ Idle \/ child \in [alive : {TRUE}, reads : BOOLEAN, output : Nat,
                        stdin : Int, stdout : Int]
  /\ bytes \in Seq(Nat) /\ writers \in Seq(SUBSET {"shell", "child"})

\* A command reads from a pipe exactly if the one before it writes to one: no
\* reader without a writer, so no child reads what pipe1 was left at.  (While a
\* line runs this follows from ParsesGrammar; ShellProofs needs it by itself.)
PipesPaired ==
  /\ commands # <<>> => commands[1].cin_mode # "pipe"
  /\ \A k \in 1..Len(commands) - 1 :
       commands[k].cout_mode = "pipe" <=> commands[k + 1].cin_mode = "pipe"
  /\ mode = "running" => commands[Len(commands)].cout_mode # "pipe"

\* A child that reads from a pipe reads that of the command before it, which
\* wrote to it, and no process has the write end open: it will see the end.
ReaderSeesEnd ==
  child.alive /\ Command.cin_mode = "pipe" =>
    /\ child.stdin = Current - 1
    /\ commands[Current - 1].cout_mode = "pipe"
    /\ writers[Current - 1] = {}

Allows(m, status) == m = "always" \/ (m = "on_success" <=> status = 0)

\* previousMode and child_status survive the commands that do not set them, yet
\* every command started was allowed by the one before it, with the status that
\* one really had, and a line is cut short only where the last one run forbids.
SelectedByPredecessor ==
  mode = "running" =>
    /\ \A k \in 1..Len(bytes) - 1 : Allows(commands[k].next_mode, statuses[k])
    /\ Idle /\ statuses # <<>> =>
         (Refused <=> ~Allows(commands[Len(statuses)].next_mode, statuses[Len(statuses)]))

\* As long as no program writes more than a pipe holds, every line ends although
\* the shell starts a reader only after its writer has exited.
LineEnds == mode = "running" ~> mode \in {"prompt", "exited"}

\* command.hpp:41: next_command_mode::always is "Execute unconditionally", so a
\* line is not given up while a `;` is still to come (a `|` continues what is
\* skipped).
AlwaysRuns ==
  mode = "running" /\ Idle /\ Refused =>
    \A k \in Current..Len(commands) - 1 :
      commands[k].next_mode = "always" => commands[k].cout_mode = "pipe"
=============================================================================
