----------------------------- MODULE ShellProofs -----------------------------
(***************************************************************************)
(* For lines of any length, programs that write anything, pipes of any     *)
(* size and any limit on descriptors, the PA2 shell joins its pipes at     *)
(* both ends, lets every reader see the end of its input, and lets every   *)
(* command be chosen by the one before it (Shell.tla); and its parser      *)
(* rejects only lines with a segment that is not well-formed, runs only    *)
(* lines without, and turns these into the commands that their segments    *)
(* mean (ShellParser.tla).                                                 *)
(***************************************************************************)
EXTENDS Shell, TLAPS, FiniteSetTheorems, WellFoundedInduction

States == {"need_any_token", "need_new_command", "need_in_path", "need_out_path"}

\* The first two parts of PipesPaired, which hold while the line is parsed.
Paired ==
  /\ commands # <<>> => commands[1].cin_mode # "pipe"
  /\ \A k \in 1..Len(commands) - 1 :
       commands[k].cout_mode = "pipe" <=> commands[k + 1].cin_mode = "pipe"

\* What the states of the automaton say of the command being built.
Building ==
  mode = "parsing" =>
    /\ commands # <<>> /\ Back.cout_mode # "pipe"
    /\ state # "need_new_command" => Back.cmd # 0
    /\ ending_semicolon => Len(commands) > 1 /\ Back = NewCommand

\* Between two lines there is nothing left of a run.
Resting ==
  /\ mode \in {"prompt", "parsing", "error"} => RunStart
  /\ mode = "prompt" => ParserStart
  /\ mode = "exited" => Idle

\* The write end of a pipe whose command is done is closed if anybody reads it.
Closed == \A k \in 1..Len(statuses) :
            commands[k].cout_mode # "term" => writers[k] = {}

\* previousMode and child_status tell what the last command allows, although
\* they may come from an earlier one.
Chosen ==
  /\ \A k \in 1..Len(bytes) - 1 : Allows(commands[k].next_mode, statuses[k])
  /\ Idle /\ statuses # <<>> /\ commands[Len(statuses)].next_mode # "always" =>
       /\ previousMode = commands[Len(statuses)].next_mode
       /\ child_status = statuses[Len(statuses)]
  /\ Idle /\ statuses # <<>> /\ commands[Len(statuses)].next_mode = "always" => ~Refused
  /\ statuses = <<>> => ~Refused

Running ==
  mode = "running" =>
    /\ commands # <<>> /\ commands[Len(commands)].cout_mode # "pipe"
    /\ Len(statuses) <= Len(commands) /\ pipe1 = Len(statuses)
    /\ Len(bytes) = Len(writers)
    /\ Len(bytes) = IF Idle THEN Len(statuses) ELSE Current
    /\ ~Idle => /\ Current <= Len(commands) /\ ~Refused
                /\ child.stdin \in Source(Command)
    /\ Closed /\ Chosen

\* The inductive invariant.
IInv == TypeOK /\ Paired /\ Building /\ Resting /\ Running

LEMMA Initially == Init => IInv
<1> SUFFICES ASSUME Init PROVE IInv
  OBVIOUS
<1>1. NewCommand \in CommandType /\ commands = <<NewCommand>>
  BY ShellAssumption DEF NewCommand, CommandType, Positions, Init, ParserStart,
     ShellAssumption
<1>2. TypeOK
  <2>1. ending_semicolon \in BOOLEAN
    BY Zenon DEF Init, ParserStart
  <2>2. commands \in Seq(CommandType) /\ line \in Seq(Tokens)
    BY <1>1 DEF Init, ParserStart
  <2>3. bytes \in Seq(Nat) /\ writers \in Seq(SUBSET {"shell", "child"})
        /\ statuses \in Seq({0, 1})
    BY DEF Init, RunStart
  <2> QED BY <2>1, <2>2, <2>3, ShellAssumption
          DEF Init, ParserStart, RunStart, TypeOK, Idle, ShellAssumption
<1>3. Paired
  BY <1>1 DEF Paired, NewCommand
<1>4. Building /\ Resting /\ Running
  BY DEF Init, Building, Resting, Running
<1> QED BY <1>2, <1>3, <1>4 DEF IInv

-----------------------------------------------------------------------------
(* The parser                                                              *)

\* What every token leaves behind.
Built ==
  /\ commands \in Seq(CommandType) /\ state \in States
  /\ ending_semicolon \in BOOLEAN /\ mode \in {"parsing", "error"}
  /\ Paired /\ Building

LEMMA NewCommandType == NewCommand \in CommandType
BY ShellAssumption DEF NewCommand, CommandType, Positions, ShellAssumption

LEMMA SetBackIs ==
  ASSUME commands \in Seq(CommandType), commands # <<>>, NEW c \in CommandType
  PROVE  /\ Len(commands) \in Nat /\ Len(commands) > 0 /\ Back \in CommandType
         /\ SetBack(c) \in Seq(CommandType) /\ Len(SetBack(c)) = Len(commands)
         /\ SetBack(c)[Len(commands)] = c
         /\ \A k \in 1..Len(commands) - 1 : SetBack(c)[k] = commands[k]
BY DEF SetBack, Back

\* A command that keeps its input's mode, and its output's, keeps the pairs.
LEMMA ReplaceKeeps ==
  ASSUME commands \in Seq(CommandType), commands # <<>>, Paired,
         NEW c \in CommandType, c.cin_mode = "pipe" <=> Back.cin_mode = "pipe",
         commands' = SetBack(c)
  PROVE  /\ commands' \in Seq(CommandType) /\ commands' # <<>>
         /\ Len(commands') = Len(commands) /\ Back' = c /\ Paired'
<1> DEFINE n == Len(commands)
<1>1. /\ n \in Nat /\ n > 0 /\ commands' \in Seq(CommandType) /\ Len(commands') = n
      /\ commands'[n] = c /\ \A k \in 1..n - 1 : commands'[k] = commands[k]
  BY SetBackIs
<1>2. Back' = c /\ commands' # <<>>
  BY <1>1 DEF Back
<1>3. commands'[1].cin_mode # "pipe"
  BY <1>1 DEF Paired, Back
<1>4. ASSUME NEW k \in 1..n - 1
      PROVE  commands'[k].cout_mode = "pipe" <=> commands'[k + 1].cin_mode = "pipe"
  <2>1. commands'[k] = commands[k]
        /\ (commands[k].cout_mode = "pipe" <=> commands[k + 1].cin_mode = "pipe")
    BY <1>1 DEF Paired
  <2>2. CASE k + 1 = n
    BY <1>1, <2>1, <2>2 DEF Back
  <2>3. CASE k + 1 < n
    BY <1>1, <2>1, <2>3
  <2> QED BY <1>1, <2>2, <2>3
<1> QED BY <1>1, <1>2, <1>3, <1>4 DEF Paired

\* A new command is paired with the one before it.
LEMMA GrowKeeps ==
  ASSUME commands \in Seq(CommandType), commands # <<>>, Paired,
         NEW c \in CommandType, c.cin_mode = "pipe" <=> Back.cin_mode = "pipe",
         NEW d \in CommandType, c.cout_mode = "pipe" <=> d.cin_mode = "pipe",
         commands' = Append(SetBack(c), d)
  PROVE  /\ commands' \in Seq(CommandType) /\ commands' # <<>>
         /\ Len(commands') > 1 /\ Back' = d /\ Paired'
<1> DEFINE n == Len(commands)
<1>1. /\ n \in Nat /\ n > 0 /\ SetBack(c) \in Seq(CommandType) /\ Len(SetBack(c)) = n
      /\ SetBack(c)[n] = c /\ \A k \in 1..n - 1 : SetBack(c)[k] = commands[k]
  BY SetBackIs
<1>2. /\ commands' \in Seq(CommandType) /\ Len(commands') = n + 1
      /\ commands'[n + 1] = d /\ commands'[n] = c
      /\ \A k \in 1..n - 1 : commands'[k] = commands[k]
  <2>1. \A k \in 1..n : commands'[k] = SetBack(c)[k]
    BY <1>1
  <2> QED BY <1>1, <2>1
<1>3. Back' = d /\ commands' # <<>>
  BY <1>1, <1>2 DEF Back
<1>4. commands'[1].cin_mode # "pipe"
  BY <1>1, <1>2 DEF Paired, Back
<1>5. ASSUME NEW k \in 1..n
      PROVE  commands'[k].cout_mode = "pipe" <=> commands'[k + 1].cin_mode = "pipe"
  <2>1. CASE k = n
    BY <1>2, <2>1
  <2>2. CASE k < n
    <3>1. commands'[k] = commands[k]
          /\ (commands[k].cout_mode = "pipe" <=> commands[k + 1].cin_mode = "pipe")
      BY <1>1, <1>2, <2>2 DEF Paired
    <3>2. CASE k + 1 = n
      BY <1>1, <1>2, <3>1, <3>2 DEF Back
    <3>3. CASE k + 1 < n
      BY <1>1, <1>2, <3>1, <3>3
    <3> QED BY <1>1, <2>2, <3>2, <3>3
  <2> QED BY <1>1, <2>1, <2>2
<1> QED BY <1>1, <1>2, <1>3, <1>4, <1>5 DEF Paired

\* The operations on one command: what is set, and what stays.
LEMMA Updates ==
  ASSUME NEW c \in CommandType, Len(line) \in Nat, Len(line) < MaxTokens
  PROVE  /\ Word \in Positions /\ Word # 0
         /\ [c EXCEPT !.args = Append(@, Word)] \in CommandType
         /\ [c EXCEPT !.cin_mode = "file"] \in CommandType
         /\ \A m \in {"file", "append", "pipe"} : [c EXCEPT !.cout_mode = m] \in CommandType
         /\ \A m \in {"on_success", "on_fail"} : [c EXCEPT !.next_mode = m] \in CommandType
         /\ [c EXCEPT !.cmd = Word] \in CommandType
         /\ [c EXCEPT !.cin_file = Word] \in CommandType
         /\ [c EXCEPT !.cout_file = Word] \in CommandType
<1>1. Word \in Positions /\ Word # 0
  BY ShellAssumption DEF Word, Positions, ShellAssumption
<1>2. Append(c.args, Word) \in Seq(Positions)
  BY <1>1 DEF CommandType
<1>3. [c EXCEPT !.args = Append(@, Word)] \in CommandType
  BY <1>2 DEF CommandType
<1>4. /\ [c EXCEPT !.cin_mode = "file"] \in CommandType
      /\ \A m \in {"file", "append", "pipe"} : [c EXCEPT !.cout_mode = m] \in CommandType
      /\ \A m \in {"on_success", "on_fail"} : [c EXCEPT !.next_mode = m] \in CommandType
  BY DEF CommandType
<1>5. /\ [c EXCEPT !.cmd = Word] \in CommandType
      /\ [c EXCEPT !.cin_file = Word] \in CommandType
      /\ [c EXCEPT !.cout_file = Word] \in CommandType
  BY <1>1 DEF CommandType
<1> QED BY <1>1, <1>3, <1>4, <1>5

LEMMA ThrowKeeps ==
  ASSUME IInv, Throw
  PROVE  Built'
BY DEF IInv, TypeOK, Throw, Built, Paired, Building, States

\* The tokens that stay within a command.
LEMMA WithinCommand ==
  ASSUME IInv, mode = "parsing", Len(line) < MaxTokens, NEW t \in Tokens,
         state = "need_any_token",
         Argument(t) \/ RedirectIn(t) \/ RedirectOut(t)
  PROVE  Built'
<1>0. /\ commands \in Seq(CommandType) /\ commands # <<>> /\ Paired
      /\ Back \in CommandType /\ Back.cout_mode # "pipe" /\ Back.cmd # 0
      /\ Len(line) \in Nat /\ ending_semicolon \in BOOLEAN
  BY SetBackIs DEF IInv, TypeOK, Building, Back
<1>1. ~ending_semicolon
  BY <1>0 DEF IInv, Building, NewCommand
<1>2. CASE Argument(t)
  <2> DEFINE c == [Back EXCEPT !.args = Append(@, Word)]
  <2>1. c \in CommandType
    BY <1>0, Updates
  <2>2. c.cin_mode = Back.cin_mode /\ c.cout_mode = Back.cout_mode /\ c.cmd = Back.cmd
    BY <1>0 DEF CommandType
  <2>3. commands' = SetBack(c) /\ Continue("need_any_token")
    BY <1>2 DEF Argument
  <2> HIDE DEF c
  <2>4. commands' \in Seq(CommandType) /\ commands' # <<>> /\ Back' = c /\ Paired'
    BY <1>0, <2>1, <2>2, <2>3, ReplaceKeeps
  <2> QED BY <1>0, <1>1, <2>2, <2>3, <2>4 DEF Built, Building, Continue, States
<1>3. CASE RedirectIn(t) /\ Back.cin_mode # "pipe"
  <2> DEFINE c == [Back EXCEPT !.cin_mode = "file"]
  <2>1. c \in CommandType
    BY <1>0, Updates
  <2>2. c.cin_mode = "file" /\ c.cout_mode = Back.cout_mode /\ c.cmd = Back.cmd
    BY <1>0 DEF CommandType
  <2>3. commands' = SetBack(c) /\ Continue("need_in_path")
    BY <1>3 DEF RedirectIn
  <2> HIDE DEF c
  <2>4. commands' \in Seq(CommandType) /\ commands' # <<>> /\ Back' = c /\ Paired'
    BY <1>0, <1>3, <2>1, <2>2, <2>3, ReplaceKeeps
  <2> QED BY <1>0, <1>1, <2>2, <2>3, <2>4 DEF Built, Building, Continue, States
<1>4. CASE RedirectIn(t) /\ Back.cin_mode = "pipe"
  BY <1>4, ThrowKeeps DEF RedirectIn
<1>5. CASE RedirectOut(t)
  <2>1. PICK m \in {"file", "append"} :
          commands' = SetBack([Back EXCEPT !.cout_mode = m])
    BY <1>5 DEF RedirectOut
  <2> DEFINE c == [Back EXCEPT !.cout_mode = m]
  <2>2. c \in CommandType
    BY <1>0, Updates
  <2>3. c.cin_mode = Back.cin_mode /\ c.cout_mode # "pipe" /\ c.cmd = Back.cmd
    BY <1>0 DEF CommandType
  <2>4. commands' = SetBack(c) /\ Continue("need_out_path")
    BY <1>5, <2>1 DEF RedirectOut
  <2> HIDE DEF c
  <2>5. commands' \in Seq(CommandType) /\ commands' # <<>> /\ Back' = c /\ Paired'
    BY <1>0, <2>2, <2>3, <2>4, ReplaceKeeps
  <2> QED BY <1>0, <1>1, <2>3, <2>4, <2>5 DEF Built, Building, Continue, States
<1> QED BY <1>2, <1>3, <1>4, <1>5

\* The tokens that end a command.
LEMMA NextCommand ==
  ASSUME IInv, mode = "parsing", Len(line) < MaxTokens, NEW t \in Tokens,
         state = "need_any_token", Pipe(t) \/ AndOr(t) \/ Semicolon(t)
  PROVE  Built'
<1>0. /\ commands \in Seq(CommandType) /\ commands # <<>> /\ Paired
      /\ Back \in CommandType /\ Back.cout_mode # "pipe" /\ Back.cmd # 0
      /\ Len(line) \in Nat /\ ending_semicolon \in BOOLEAN
  BY SetBackIs DEF IInv, TypeOK, Building, Back
<1>1. ~ending_semicolon
  BY <1>0 DEF IInv, Building, NewCommand
<1>2. NewCommand \in CommandType /\ NewCommand.cin_mode = "term"
      /\ NewCommand.cout_mode = "term"
  BY NewCommandType DEF NewCommand
<1>3. CASE Pipe(t) /\ Back.cout_mode # "term"
  BY <1>3, ThrowKeeps DEF Pipe
<1>4. CASE Pipe(t) /\ Back.cout_mode = "term"
  <2> DEFINE c == [Back EXCEPT !.cout_mode = "pipe"]
             d == [NewCommand EXCEPT !.cin_mode = "pipe"]
  <2>1. c \in CommandType
    BY <1>0, Updates
  <2>2. d \in CommandType /\ d.cin_mode = "pipe" /\ d.cout_mode = "term"
    BY <1>2 DEF NewCommand, CommandType
  <2>3. c.cin_mode = Back.cin_mode /\ c.cout_mode = "pipe"
    BY <1>0 DEF CommandType
  <2>4. commands' = Append(SetBack(c), d) /\ Continue("need_new_command")
    BY <1>4 DEF Pipe
  <2> HIDE DEF c, d
  <2>5. commands' \in Seq(CommandType) /\ commands' # <<>> /\ Back' = d /\ Paired'
    BY <1>0, <2>1, <2>2, <2>3, <2>4, GrowKeeps
  <2> QED BY <1>0, <1>1, <2>2, <2>4, <2>5 DEF Built, Building, Continue, States
<1>5. CASE AndOr(t)
  <2>1. PICK m \in {"on_success", "on_fail"} :
          commands' = Append(SetBack([Back EXCEPT !.next_mode = m]), NewCommand)
    BY <1>5 DEF AndOr
  <2> DEFINE c == [Back EXCEPT !.next_mode = m]
  <2>2. c \in CommandType
    BY <1>0, Updates
  <2>3. c.cin_mode = Back.cin_mode /\ c.cout_mode = Back.cout_mode
    BY <1>0 DEF CommandType
  <2>4. commands' = Append(SetBack(c), NewCommand) /\ Continue("need_new_command")
    BY <1>5, <2>1 DEF AndOr
  <2> HIDE DEF c
  <2>5. commands' \in Seq(CommandType) /\ commands' # <<>> /\ Back' = NewCommand /\ Paired'
    BY <1>0, <1>2, <2>2, <2>3, <2>4, GrowKeeps
  <2> QED BY <1>0, <1>1, <1>2, <2>4, <2>5 DEF Built, Building, Continue, States
<1>6. CASE Semicolon(t)
  <2>1. SetBack(Back) = commands
    BY <1>0 DEF SetBack, Back
  <2>2. commands' = Append(SetBack(Back), NewCommand)
    BY <1>6, <2>1 DEF Semicolon
  <2>3. /\ commands' \in Seq(CommandType) /\ commands' # <<>> /\ Len(commands') > 1
        /\ Back' = NewCommand /\ Paired'
    BY <1>0, <1>2, <2>2, GrowKeeps
  <2>4. mode' = mode /\ state' = "need_new_command" /\ ending_semicolon' = TRUE
    BY <1>6 DEF Semicolon
  <2>5. ending_semicolon' \in BOOLEAN
    BY <2>4, Zenon
  <2>6. NewCommand' = NewCommand
    BY DEF NewCommand
  <2> QED BY <1>2, <2>3, <2>4, <2>5, <2>6 DEF Built, Building, States
<1> QED BY <1>3, <1>4, <1>5, <1>6

\* The words that are waited for.
LEMMA AwaitedWord ==
  ASSUME IInv, mode = "parsing", Len(line) < MaxTokens, NEW t \in Tokens,
         \/ state = "need_new_command" /\ CommandName(t)
         \/ state = "need_in_path" /\ InPath(t)
         \/ state = "need_out_path" /\ OutPath(t)
  PROVE  Built'
<1>0. /\ commands \in Seq(CommandType) /\ commands # <<>> /\ Paired
      /\ Back \in CommandType /\ Back.cout_mode # "pipe"
      /\ Len(line) \in Nat /\ ending_semicolon \in BOOLEAN
  BY SetBackIs DEF IInv, TypeOK, Building, Back
<1>w. Word # 0
  BY <1>0, Updates
<1>1. CASE t # "text"
  BY <1>1, ThrowKeeps DEF CommandName, InPath, OutPath
<1>2. CASE t = "text" /\ state = "need_new_command"
  <2> DEFINE c == [Back EXCEPT !.cmd = Word]
  <2>1. c \in CommandType
    BY <1>0, Updates
  <2>2. c.cin_mode = Back.cin_mode /\ c.cout_mode = Back.cout_mode /\ c.cmd = Word
    BY <1>0 DEF CommandType
  <2>3. commands' = SetBack(c) /\ state' = "need_any_token" /\ mode' = mode
        /\ ending_semicolon' = FALSE
    BY <1>2 DEF CommandName
  <2> HIDE DEF c
  <2>4. commands' \in Seq(CommandType) /\ commands' # <<>> /\ Back' = c /\ Paired'
    BY <1>0, <2>1, <2>2, <2>3, ReplaceKeeps
  <2>5. ending_semicolon' \in BOOLEAN
    BY <2>3, Zenon
  <2> QED BY <1>0, <1>w, <2>2, <2>3, <2>4, <2>5 DEF Built, Building, States
<1>3. ASSUME t = "text", state \in {"need_in_path", "need_out_path"} PROVE Built'
  <2>1. Back.cmd # 0 /\ ~ending_semicolon
    BY <1>0, <1>3 DEF IInv, Building, NewCommand
  <2>2. PICK c \in {[Back EXCEPT !.cin_file = Word], [Back EXCEPT !.cout_file = Word]} :
          commands' = SetBack(c) /\ Continue("need_any_token")
    BY <1>3 DEF InPath, OutPath
  <2>3. c \in CommandType
    BY <1>0, Updates
  <2>4. c.cin_mode = Back.cin_mode /\ c.cout_mode = Back.cout_mode /\ c.cmd = Back.cmd
    BY <1>0 DEF CommandType
  <2>5. commands' \in Seq(CommandType) /\ commands' # <<>> /\ Back' = c /\ Paired'
    BY <1>0, <2>2, <2>3, <2>4, ReplaceKeeps
  <2> QED BY <1>0, <2>1, <2>2, <2>4, <2>5 DEF Built, Building, Continue, States
<1> QED BY <1>1, <1>2, <1>3

LEMMA TokenKeeps ==
  ASSUME IInv, NEW t \in Tokens, Token(t), UNCHANGED <<lines, runVars, fds>>
  PROVE  IInv'
<1>1. mode = "parsing" /\ Len(line) < MaxTokens /\ line' = Append(line, t)
  BY DEF Token
<1>2. Built'
  BY <1>1, WithinCommand, NextCommand, AwaitedWord DEF Token
<1>3. TypeOK'
  <2>1. line' \in Seq(Tokens)
    BY <1>1 DEF IInv, TypeOK
  <2>2. /\ lines' \in 0..MaxLines /\ fds' \in Nat
        /\ previousMode' \in {"always", "on_success", "on_fail"} /\ child_status' \in {0, 1}
        /\ pipe1' \in Nat /\ statuses' \in Seq({0, 1})
        /\ bytes' \in Seq(Nat) /\ writers' \in Seq(SUBSET {"shell", "child"})
        /\ child' = child
    BY DEF IInv, TypeOK, runVars
  <2>3. Idle' \/ child' \in [alive : {TRUE}, reads : BOOLEAN, output : Nat,
                             stdin : Int, stdout : Int]
    BY <2>2 DEF IInv, TypeOK, Idle, NoChild
  <2> QED BY <1>2, <2>1, <2>2, <2>3 DEF TypeOK, Built, States
<1>4. Resting' /\ Running'
  BY <1>1, <1>2 DEF IInv, Built, Resting, Running, RunStart, runVars, NoChild
<1> QED BY <1>2, <1>3, <1>4 DEF Built, IInv

\* Before anything has run there is nothing to refuse.
LEMMA RunBegins ==
  ASSUME TypeOK', RunStart', (commands # <<>>)',
         (commands[Len(commands)].cout_mode # "pipe")'
  PROVE  Running'
<1>1. (Len(commands) \in Nat /\ Len(statuses) = 0 /\ Len(bytes) = 0 /\ Len(writers) = 0)'
  BY DEF TypeOK, RunStart
<1>2. ~Refused' /\ Idle'
  BY DEF RunStart, Refused, Idle
<1> QED BY <1>1, <1>2 DEF RunStart, Running, Closed, Chosen

LEMMA EndOfLineKeeps ==
  ASSUME IInv, EndOfLine, UNCHANGED <<lines, runVars, fds>>
  PROVE  IInv'
<1> DEFINE n == Len(commands)
<1>1. /\ mode = "parsing" /\ RunStart /\ RunStart' /\ Paired
      /\ commands \in Seq(CommandType) /\ n \in Nat /\ n > 0
      /\ Back \in CommandType /\ Back = commands[n] /\ Back.cout_mode # "pipe"
  BY SetBackIs DEF IInv, TypeOK, Building, Resting, EndOfLine, RunStart, runVars, NoChild,
     Back
<1>2. mode' \in {"error", "running"}
  BY DEF EndOfLine
<1> DEFINE Good == /\ commands \in Seq(CommandType) /\ Paired /\ commands # <<>>
                   /\ commands[Len(commands)].cout_mode # "pipe"
<1>3. ASSUME mode' = "running", Back.cmd = 0 PROVE Good'
  <2>1. state = "need_new_command"
    BY <1>1, <1>3 DEF IInv, Building
  <2>2. ending_semicolon
    BY <1>3, <2>1 DEF EndOfLine
  <2>3. n > 1 /\ Back.cin_mode = "term"
    BY <1>1, <2>2 DEF IInv, Building, NewCommand
  <2>4. commands' = SubSeq(commands, 1, n - 1)
    BY <1>3 DEF EndOfLine
  <2>5. /\ commands' \in Seq(CommandType) /\ Len(commands') = n - 1 /\ commands' # <<>>
        /\ \A k \in 1..n - 1 : commands'[k] = commands[k]
    <3> DEFINE q == commands
    <3>1. q \in Seq(CommandType) /\ n = Len(q) /\ n - 1 \in 1..n
      BY <1>1, <2>3
    <3>2. SubSeq(q, 1, n - 1) \in Seq(CommandType)
      BY <3>1, \A m \in 1..Len(q) : SubSeq(q, 1, m) \in Seq(CommandType)
    <3>3. Len(SubSeq(q, 1, n - 1)) = n - 1
      BY <1>1, <3>1
    <3>4. \A k \in 1..n - 1 : SubSeq(q, 1, n - 1)[k] = q[k]
      BY <1>1, <3>1
    <3>5. commands' \in Seq(CommandType) /\ Len(commands') = n - 1
          /\ \A k \in 1..n - 1 : commands'[k] = commands[k]
      BY <2>4, <3>2, <3>3, <3>4, Zenon
    <3>6. n - 1 # 0
      BY <1>1, <2>3
    <3>7. commands' # <<>>
      BY <3>5, <3>6
    <3> QED BY <3>5, <3>7
  <2>6. Paired'
    <3>1. commands'[1].cin_mode # "pipe"
      BY <1>1, <2>3, <2>5 DEF Paired
    <3>2. ASSUME NEW k \in 1..n - 2
          PROVE  commands'[k].cout_mode = "pipe" <=> commands'[k + 1].cin_mode = "pipe"
      <4>1. k \in 1..n - 1 /\ k + 1 \in 1..n - 1
        BY <1>1
      <4> QED BY <1>1, <2>5, <4>1 DEF Paired
    <3> QED BY <1>1, <2>5, <3>1, <3>2 DEF Paired
  <2>7. commands[n - 1].cout_mode # "pipe"
    <3>1. n - 1 \in 1..n - 1 /\ (n - 1) + 1 = n
      BY <1>1, <2>3
    <3> QED BY <1>1, <2>3, <3>1 DEF Paired
  <2>8. commands'[Len(commands')].cout_mode # "pipe"
    BY <1>1, <2>3, <2>5, <2>7
  <2> QED BY <2>5, <2>6, <2>8
<1>4. ASSUME ~(mode' = "running" /\ Back.cmd = 0) PROVE Good'
  <2>1. commands' = commands
    BY <1>4 DEF EndOfLine
  <2>2. commands # <<>>
    BY <1>1
  <2> QED BY <1>1, <2>1, <2>2 DEF Paired
<1>5. Good'
  BY <1>3, <1>4
<1>6. TypeOK'
  <2>1. /\ lines' \in 0..MaxLines /\ fds' \in Nat /\ line' \in Seq(Tokens)
        /\ state' \in States /\ ending_semicolon' = ending_semicolon
        /\ previousMode' \in {"always", "on_success", "on_fail"} /\ child_status' \in {0, 1}
        /\ pipe1' \in Nat /\ statuses' \in Seq({0, 1})
        /\ bytes' \in Seq(Nat) /\ writers' \in Seq(SUBSET {"shell", "child"})
    BY DEF IInv, TypeOK, runVars, EndOfLine, States
  <2>2. ending_semicolon' \in BOOLEAN
    BY <2>1, Zenon DEF IInv, TypeOK
  <2>3. Idle'
    BY <1>1 DEF RunStart, Idle
  <2> QED BY <1>2, <1>5, <2>1, <2>2, <2>3 DEF TypeOK, States
<1>7. Building' /\ Resting'
  BY <1>1, <1>2 DEF Building, Resting
<1>8. Running'
  BY <1>1, <1>5, <1>6, RunBegins
<1> QED BY <1>5, <1>6, <1>7, <1>8 DEF IInv

-----------------------------------------------------------------------------
(* main and runcmd                                                         *)

\* Between two lines, with the parser and runcmd's variables at their start.
LEMMA Afresh ==
  ASSUME IInv, ParserReset, RunStart', mode' = "prompt", UNCHANGED <<lines, fds>>
  PROVE  IInv'
<1>1. NewCommand \in CommandType /\ commands' = <<NewCommand>>
  BY NewCommandType DEF ParserReset
<1>2. TypeOK'
  <2>1. ending_semicolon' \in BOOLEAN
    BY Zenon DEF ParserReset
  <2>2. commands' \in Seq(CommandType) /\ line' \in Seq(Tokens)
    BY <1>1 DEF ParserReset
  <2>3. bytes' \in Seq(Nat) /\ writers' \in Seq(SUBSET {"shell", "child"})
        /\ statuses' \in Seq({0, 1})
    BY DEF RunStart
  <2> QED BY <2>1, <2>2, <2>3 DEF IInv, ParserReset, RunStart, TypeOK, Idle
<1>3. Paired'
  BY <1>1 DEF Paired, NewCommand
<1>4. Building' /\ Resting' /\ Running'
  BY DEF Building, Resting, Running, ParserReset, ParserStart, RunStart, Idle
<1> QED BY <1>2, <1>3, <1>4 DEF IInv

LEMMA ReadLineKeeps == ASSUME IInv, ReadLine PROVE IInv'
<1>1. RunStart' /\ ParserStart' /\ commands' = <<NewCommand>> /\ mode' = "parsing"
  BY DEF IInv, Resting, ReadLine, runVars, parserVars, RunStart, ParserStart, NoChild,
     NewCommand
<1>2. TypeOK'
  <2>1. lines' \in 0..MaxLines
    BY ShellAssumption DEF IInv, TypeOK, ReadLine, ShellAssumption
  <2> QED BY <1>1, <2>1 DEF IInv, TypeOK, ReadLine, runVars, parserVars, Idle, NoChild
<1>3. Paired'
  BY DEF IInv, Paired, ReadLine, parserVars
<1>4. Building'
  BY <1>1 DEF Building, ParserStart, NewCommand, Back
<1>5. Resting' /\ Running'
  BY <1>1 DEF Resting, Running
<1> QED BY <1>2, <1>3, <1>4, <1>5 DEF IInv

\* The shell exits between two commands.
LEMMA ExitKeeps ==
  ASSUME IInv, Idle, mode' = "exited", UNCHANGED <<parserVars, lines, runVars, fds>>
  PROVE  IInv'
BY DEF IInv, TypeOK, Paired, Building, Resting, Running, runVars, parserVars, Idle,
   NoChild

LEMMA StillKeeps == ASSUME IInv, UNCHANGED vars PROVE IInv'
<1> USE DEF IInv, vars, runVars, parserVars, Idle, NoChild
<1>1. TypeOK'
  BY DEF TypeOK
<1>2. Paired' /\ Building'
  BY DEF Paired, Building, Back, NewCommand
<1>3. Resting'
  BY DEF Resting, RunStart, ParserStart, NewCommand
<1>4. (Refused' <=> Refused) /\ Current' = Current /\ Source(Command)' = Source(Command)
  BY DEF Refused, Current, Source, Command, Terminal, File
<1>5. Closed' <=> Closed
  BY DEF Closed
<1>6. Chosen' <=> Chosen
  BY <1>4 DEF Chosen, Allows
<1>7. Running'
  BY <1>4, <1>5, <1>6 DEF Running
<1> QED BY <1>1, <1>2, <1>3, <1>7

\* What a state in which a child runs is like.
LEMMA ChildRuns ==
  ASSUME IInv, ~Idle
  PROVE  /\ mode = "running" /\ child.alive
         /\ Current \in 1..Len(commands) /\ Command \in CommandType
         /\ pipe1 = Len(statuses) /\ Len(bytes) = Current /\ Len(writers) = Current
         /\ Len(statuses) \in Nat /\ Current = Len(statuses) + 1
<1>1. mode = "running" /\ child.alive
  BY DEF IInv, TypeOK, Resting, RunStart, Idle
<1>2. Len(statuses) \in Nat /\ Len(commands) \in Nat
  BY DEF IInv, TypeOK
<1> QED BY <1>1, <1>2 DEF IInv, TypeOK, Running, Current, Command

\* A program reads or writes.
LEMMA ChildKeeps ==
  ASSUME IInv, Write \/ Read \/ ReadEnd
  PROVE  IInv'
<1>1. child.alive /\ UNCHANGED others
  BY DEF Write, Read, ReadEnd
<1>2. ~Idle
  BY <1>1 DEF Idle, NoChild
<1>3. child \in [alive : {TRUE}, reads : BOOLEAN, output : Nat, stdin : Int, stdout : Int]
  BY <1>2 DEF IInv, TypeOK
<1>4. child' \in [alive : {TRUE}, reads : BOOLEAN, output : Nat, stdin : Int, stdout : Int]
      /\ child'.stdin = child.stdin
  <2>0. child.output > 0 => child.output - 1 \in Nat
    BY <1>3
  <2>1. CASE Write
    BY <1>3, <2>0, <2>1 DEF Write
  <2>2. CASE Read
    BY <1>3, <2>2 DEF Read
  <2>3. CASE ReadEnd
    BY <1>3, <2>3 DEF ReadEnd
  <2> QED BY <2>1, <2>2, <2>3
<1>5. bytes' \in Seq(Nat) /\ Len(bytes') = Len(bytes)
  <2>0. bytes \in Seq(Nat)
    BY DEF IInv, TypeOK
  <2>1. CASE Write
    BY <2>0, <2>1 DEF Write
  <2>2. CASE Read
    BY <2>0, <2>2 DEF Read
  <2>3. CASE ReadEnd
    BY <2>0, <2>3 DEF ReadEnd
  <2> QED BY <2>1, <2>2, <2>3
<1>6. ~Idle' /\ mode = "running" /\ mode' = "running"
  <2>1. child'.alive = TRUE
    BY <1>4
  <2> QED BY <1>1, <1>2, <2>1, ChildRuns DEF Idle, NoChild, others
<1>7. TypeOK'
  <2>1. ending_semicolon' \in BOOLEAN
    BY <1>1 DEF IInv, TypeOK, others, parserVars
  <2> QED BY <1>1, <1>4, <1>5, <2>1 DEF IInv, TypeOK, others, parserVars
<1>8. Paired' /\ Building' /\ Resting'
  BY <1>1, <1>6 DEF IInv, Paired, Building, Resting, others, parserVars
<1>9. (Refused' <=> Refused) /\ Current' = Current /\ Source(Command)' = Source(Command)
  BY <1>1 DEF Refused, Current, Source, Command, Terminal, File, others, parserVars
<1>10. Closed'
  BY <1>1, <1>6 DEF IInv, Running, Closed, others, parserVars
<1>11. Chosen'
  BY <1>1, <1>5, <1>6, <1>9 DEF IInv, Running, Chosen, Allows, others, parserVars
<1>12. Running'
  BY <1>1, <1>2, <1>4, <1>5, <1>6, <1>9, <1>10, <1>11 DEF IInv, Running, others, parserVars
<1> QED BY <1>7, <1>8, <1>12 DEF IInv

\* The next command is started.
LEMMA StartKeeps ==
  ASSUME IInv, NEW reads \in BOOLEAN, NEW output \in 0..MaxOutput,
         NEW stdin \in {Terminal, File, pipe1}, NEW stdout \in {Terminal, File, Current},
         Start(reads, output, stdin, stdout)
  PROVE  IInv'
<1>1. /\ mode = "running" /\ mode' = "running" /\ Idle /\ Current <= Len(commands) /\ ~Refused
      /\ UNCHANGED <<parserVars, lines, previousMode, child_status, pipe1, statuses>>
      /\ stdin \in Source(Command)
  BY DEF Start, AtCommand
<1>2. /\ Len(statuses) \in Nat /\ Len(commands) \in Nat /\ pipe1 = Len(statuses)
      /\ Len(bytes) = Len(statuses) /\ Len(writers) = Len(statuses)
      /\ Current = Len(statuses) + 1 /\ Current \in 1..Len(commands)
      /\ bytes \in Seq(Nat) /\ writers \in Seq(SUBSET {"shell", "child"})
  BY <1>1 DEF IInv, TypeOK, Running, Current
<1>3. /\ child' \in [alive : {TRUE}, reads : BOOLEAN, output : Nat, stdin : Int, stdout : Int]
      /\ child'.stdin = stdin /\ ~Idle'
  <2>1. output \in Nat /\ stdin \in Int /\ stdout \in Int
    BY <1>2, ShellAssumption DEF ShellAssumption, Terminal, File
  <2>2. child' = [alive |-> TRUE, reads |-> reads, output |-> output,
                  stdin |-> stdin, stdout |-> stdout]
    BY DEF Start
  <2>3. child'.alive = TRUE
    BY <2>2
  <2> QED BY <2>1, <2>2, <2>3 DEF Idle, NoChild
<1>4. bytes' \in Seq(Nat) /\ Len(bytes') = Current
  <2>1. bytes' = Append(bytes, 0)
    BY DEF Start
  <2> QED BY <1>2, <2>1
<1>5. /\ writers' \in Seq(SUBSET {"shell", "child"}) /\ Len(writers') = Current
      /\ \A k \in 1..Len(statuses) : writers[k] = {} => writers'[k] = {}
  <2>1. writers' = [k \in 1..Current |->
                     IF k = Current \/ "shell" \in writers[k]
                     THEN {"shell", "child"} ELSE writers[k]]
    BY DEF Start
  <2>2. \A k \in 1..Current : writers'[k] \in SUBSET {"shell", "child"}
    BY <1>2, <2>1
  <2>3. writers' \in Seq(SUBSET {"shell", "child"}) /\ Len(writers') = Current
    BY <1>2, <2>1, <2>2
  <2> QED BY <1>2, <2>1, <2>3
<1>6. fds' \in Nat
  BY DEF Start, IInv, TypeOK
<1>7. TypeOK'
  <2>1. ending_semicolon' \in BOOLEAN
    BY <1>1 DEF IInv, TypeOK, parserVars
  <2> QED BY <1>1, <1>3, <1>4, <1>5, <1>6, <2>1 DEF IInv, TypeOK, parserVars
<1>8. Paired' /\ Building' /\ Resting'
  BY <1>1 DEF IInv, Paired, Building, Resting, parserVars
<1>9. (Refused' <=> Refused) /\ Current' = Current /\ Source(Command)' = Source(Command)
  BY <1>1 DEF Refused, Current, Source, Command, Terminal, File, parserVars
<1>10. Closed'
  BY <1>1, <1>5 DEF IInv, Running, Closed, parserVars
<1>11. Chosen'
  <2>1. ASSUME statuses # <<>>
        PROVE  Allows(commands[Len(statuses)].next_mode, statuses[Len(statuses)])
    <3>1. Len(statuses) \in 1..Len(commands) /\ commands[Len(statuses)] \in CommandType
          /\ statuses[Len(statuses)] \in {0, 1}
      BY <1>2, <2>1 DEF IInv, TypeOK
    <3>2. commands[Len(statuses)].next_mode \in {"always", "on_success", "on_fail"}
      BY <3>1 DEF CommandType
    <3>3. ASSUME commands[Len(statuses)].next_mode # "always"
          PROVE  /\ previousMode = commands[Len(statuses)].next_mode
                 /\ child_status = statuses[Len(statuses)]
      BY <1>1, <2>1, <3>3 DEF IInv, Running, Chosen
    <3> QED BY <1>1, <3>1, <3>2, <3>3 DEF Allows, Refused
  <2>2. \A k \in 1..Len(bytes') - 1 : Allows(commands[k].next_mode, statuses[k])
    <3> SUFFICES ASSUME NEW k \in 1..Len(statuses)
                 PROVE  Allows(commands[k].next_mode, statuses[k])
      BY <1>2, <1>4
    <3>1. CASE k = Len(statuses)
      BY <1>2, <2>1, <3>1
    <3>2. CASE k < Len(statuses)
      <4>1. \A l \in 1..Len(bytes) - 1 : Allows(commands[l].next_mode, statuses[l])
        BY <1>1 DEF IInv, Running, Chosen
      <4> QED BY <1>2, <3>2, <4>1
    <3> QED BY <1>2, <3>1, <3>2
  <2> QED BY <1>1, <1>3, <1>9, <2>2 DEF Chosen, Allows, parserVars
<1>12. Running'
  BY <1>1, <1>2, <1>3, <1>4, <1>5, <1>9, <1>10, <1>11 DEF IInv, Running, parserVars
<1> QED BY <1>7, <1>8, <1>12 DEF IInv

\* The child has exited and is waited for.
LEMMA WaitKeeps ==
  ASSUME IInv, NEW status \in {0, 1}, Exit(status)
  PROVE  IInv'
<1> DEFINE n == Len(statuses)
           next == commands[Len(statuses) + 1].next_mode
<1>1. ~Idle /\ Idle' /\ UNCHANGED <<mode, parserVars, lines, bytes, fds>>
  BY DEF Exit, Wait, Idle, NoChild
<1>2. /\ mode = "running" /\ mode' = "running" /\ n \in Nat /\ n + 1 \in 1..Len(commands)
      /\ Current = n + 1 /\ Command \in CommandType /\ Command = commands[n + 1]
      /\ Len(bytes) = n + 1 /\ Len(writers) = n + 1 /\ pipe1 = n
      /\ Len(commands) \in Nat
  <2>1. Len(commands) \in Nat
    BY DEF IInv, TypeOK
  <2>2. /\ mode = "running" /\ Current \in 1..Len(commands) /\ Command \in CommandType
        /\ pipe1 = n /\ Len(bytes) = Current /\ Len(writers) = Current
        /\ n \in Nat /\ Current = n + 1
    BY <1>1, ChildRuns
  <2>3. Command = commands[n + 1]
    BY <2>2 DEF Command
  <2> QED BY <1>1, <2>1, <2>2, <2>3
<1>3. /\ statuses' \in Seq({0, 1}) /\ Len(statuses') = n + 1 /\ statuses'[n + 1] = status
      /\ \A k \in 1..n : statuses'[k] = statuses[k]
      /\ pipe1' = n + 1 /\ pipe1' \in Nat
  <2>1. statuses' = Append(statuses, status) /\ statuses \in Seq({0, 1}) /\ pipe1' = n + 1
    BY <1>2 DEF IInv, TypeOK, Exit, Wait
  <2> QED BY <1>2, <2>1
<1>4. /\ writers' \in Seq(SUBSET {"shell", "child"}) /\ Len(writers') = n + 1
      /\ \A k \in 1..n : writers[k] = {} => writers'[k] = {}
      /\ commands[n + 1].cout_mode # "term" => writers'[n + 1] = {}
  <2>1. writers' = [k \in 1..n + 1 |->
          IF k = n + 1 /\ commands[n + 1].cout_mode # "term"
          THEN {} ELSE writers[k] \ {"child"}]
    BY <1>2 DEF IInv, TypeOK, Exit, Wait
  <2>2. \A k \in 1..n + 1 : writers'[k] \in SUBSET {"shell", "child"}
    BY <1>2, <2>1 DEF IInv, TypeOK
  <2>3. writers' \in Seq(SUBSET {"shell", "child"}) /\ Len(writers') = n + 1
    BY <1>2, <2>1, <2>2
  <2> QED BY <1>2, <2>1, <2>3
<1>5. /\ next \in {"always", "on_success", "on_fail"}
      /\ IF next = "always" THEN UNCHANGED <<previousMode, child_status>>
         ELSE previousMode' = next /\ child_status' = status
  BY <1>2 DEF CommandType, Exit, Wait
<1>6. TypeOK'
  <2>1. ending_semicolon' \in BOOLEAN
    BY <1>1 DEF IInv, TypeOK, parserVars
  <2>2. previousMode' \in {"always", "on_success", "on_fail"} /\ child_status' \in {0, 1}
    BY <1>5 DEF IInv, TypeOK
  <2> QED BY <1>1, <1>3, <1>4, <2>1, <2>2 DEF IInv, TypeOK, parserVars
<1>7. Paired' /\ Building' /\ Resting'
  BY <1>1, <1>2 DEF IInv, Paired, Building, Resting, parserVars
<1>8. Closed'
  <2> SUFFICES ASSUME NEW k \in 1..n + 1, commands[k].cout_mode # "term"
               PROVE  writers'[k] = {}
    BY <1>1, <1>3 DEF Closed, parserVars
  <2>1. CASE k = n + 1
    BY <1>4, <2>1
  <2>2. CASE k # n + 1
    <3>1. k \in 1..n /\ writers[k] = {}
      BY <1>2, <2>2 DEF IInv, Running, Closed
    <3> QED BY <1>4, <3>1
  <2> QED BY <1>2, <2>1, <2>2
<1>9. Chosen'
  <2>1. \A k \in 1..Len(bytes') - 1 : Allows(commands'[k].next_mode, statuses'[k])
    <3> SUFFICES ASSUME NEW k \in 1..n
                 PROVE  Allows(commands[k].next_mode, statuses'[k])
      BY <1>1, <1>2 DEF parserVars
    <3>1. Allows(commands[k].next_mode, statuses[k])
      BY <1>2 DEF IInv, Running, Chosen
    <3> QED BY <1>3, <3>1
  <2>2. ~Refused
    BY <1>1, <1>2 DEF IInv, Running
  <2>3. next = "always" => ~Refused'
    BY <1>5, <2>2 DEF Refused
  <2>4. statuses' # <<>> /\ Len(statuses') = n + 1 /\ commands'[n + 1].next_mode = next
    BY <1>1, <1>2, <1>3 DEF parserVars
  <2> HIDE DEF next
  <2> QED BY <1>3, <1>5, <2>1, <2>3, <2>4 DEF Chosen, Allows
<1>10. Running'
  BY <1>1, <1>2, <1>3, <1>4, <1>8, <1>9 DEF IInv, Running, parserVars
<1> QED BY <1>6, <1>7, <1>10 DEF IInv

-----------------------------------------------------------------------------
(* The shell                                                               *)

\* IInv is inductive: it holds of every state the shell reaches.
THEOREM Invariance == Spec => []IInv
<1>1. ASSUME IInv, [Next]_vars PROVE IInv'
  <2>1. CASE ReadLine
    BY <1>1, <2>1, ReadLineKeeps
  <2>2. CASE LeaveLoop
    <3>1. Idle
      BY <1>1, <2>2 DEF IInv, Resting, RunStart, Idle, LeaveLoop
    <3> QED BY <1>1, <2>2, <3>1, ExitKeeps DEF LeaveLoop
  <2>3. CASE PrintError
    <3>1. RunStart'
      BY <1>1, <2>3 DEF IInv, Resting, RunStart, PrintError, runVars, NoChild
    <3> QED BY <1>1, <2>3, <3>1, Afresh DEF PrintError
  <2>4. CASE Ended
    BY <1>1, <2>4, StillKeeps DEF Ended
  <2>5. CASE Parse /\ UNCHANGED <<lines, runVars, fds>>
    BY <1>1, <2>5, TokenKeeps, EndOfLineKeeps DEF Parse
  <2>6. CASE Run
    <3>1. ASSUME NEW reads \in BOOLEAN, NEW output \in 0..MaxOutput,
                 NEW stdin \in {Terminal, File, pipe1},
                 NEW stdout \in {Terminal, File, Current},
                 Start(reads, output, stdin, stdout)
          PROVE  IInv'
      BY <1>1, <3>1, StartKeeps
    <3>2. CASE StartFails
      BY <1>1, <3>2, ExitKeeps DEF StartFails, AtCommand
    <3>3. CASE LineDone
      <4>1. RunStart'
        BY <3>3 DEF LineDone, RunReset, RunStart, NoChild
      <4> QED BY <1>1, <3>3, <4>1, Afresh DEF LineDone
    <3>4. CASE Write \/ Read \/ ReadEnd
      BY <1>1, <3>4, ChildKeeps
    <3>5. ASSUME NEW status \in {0, 1}, Exit(status) PROVE IInv'
      BY <1>1, <3>5, WaitKeeps
    <3> QED BY <2>6, <3>1, <3>2, <3>3, <3>4, <3>5 DEF Run
  <2>7. CASE UNCHANGED vars
    BY <1>1, <2>7, StillKeeps
  <2> QED BY <1>1, <2>1, <2>2, <2>3, <2>4, <2>5, <2>6, <2>7 DEF Next
<1> QED BY <1>1, Initially, PTL DEF Spec

\* The variables of the parser and of runcmd keep their types.
THEOREM TypeCorrect == Spec => []TypeOK
<1>1. IInv => TypeOK
  BY DEF IInv
<1> QED BY <1>1, Invariance, PTL

\* A command reads from a pipe exactly if the one before it writes to one.
THEOREM PipesJoined == Spec => []PipesPaired
<1>1. IInv => PipesPaired
  BY DEF IInv, Paired, Running, PipesPaired
<1> QED BY <1>1, Invariance, PTL

\* A child that reads from a pipe has the pipe of the command before it, and will
\* see its end.
THEOREM ReadersEnd == Spec => []ReaderSeesEnd
<1>1. ASSUME IInv, child.alive, Command.cin_mode = "pipe"
      PROVE  /\ child.stdin = Current - 1
             /\ commands[Current - 1].cout_mode = "pipe"
             /\ writers[Current - 1] = {}
  <2>1. ~Idle
    BY <1>1 DEF Idle, NoChild
  <2>2. /\ mode = "running" /\ Current \in 1..Len(commands) /\ pipe1 = Len(statuses)
        /\ Len(statuses) \in Nat /\ Current = Len(statuses) + 1 /\ Len(commands) \in Nat
    <3>1. Len(commands) \in Nat
      BY <1>1 DEF IInv, TypeOK
    <3> QED BY <1>1, <2>1, <3>1, ChildRuns
  <2>3. child.stdin = pipe1
    <3>1. child.stdin \in Source(Command)
      BY <1>1, <2>1, <2>2 DEF IInv, Running
    <3>2. Source(Command) = {pipe1}
      BY <1>1 DEF Source
    <3> QED BY <3>1, <3>2
  <2>4. Current # 1
    BY <1>1, <2>2 DEF IInv, Paired, Command
  <2>5. commands[Current - 1].cout_mode = "pipe"
    <3>1. Current - 1 \in 1..Len(commands) - 1 /\ (Current - 1) + 1 = Current
      BY <2>2, <2>4
    <3> QED BY <1>1, <3>1 DEF IInv, Paired, Command
  <2>6. writers[Current - 1] = {}
    <3>1. Current - 1 \in 1..Len(statuses)
      BY <2>2, <2>4
    <3> QED BY <1>1, <2>2, <2>5, <3>1 DEF IInv, Running, Closed
  <2> QED BY <2>2, <2>3, <2>5, <2>6
<1>2. IInv => ReaderSeesEnd
  BY <1>1 DEF ReaderSeesEnd
<1> QED BY <1>2, Invariance, PTL

\* Every command is selected by the one before it, and the loop is left only where
\* that one forbids the next.
THEOREM Selection == Spec => []SelectedByPredecessor
<1>1. ASSUME IInv, mode = "running" PROVE
        \A k \in 1..Len(bytes) - 1 : Allows(commands[k].next_mode, statuses[k])
  BY <1>1 DEF IInv, Running, Chosen
<1>2. ASSUME IInv, mode = "running", Idle, statuses # <<>>
      PROVE  Refused <=> ~Allows(commands[Len(statuses)].next_mode, statuses[Len(statuses)])
  <2>1. /\ Len(statuses) \in 1..Len(commands) /\ statuses[Len(statuses)] \in {0, 1}
        /\ commands[Len(statuses)] \in CommandType
    BY <1>2 DEF IInv, TypeOK, Running
  <2>2. commands[Len(statuses)].next_mode \in {"always", "on_success", "on_fail"}
    BY <2>1 DEF CommandType
  <2>3. CASE commands[Len(statuses)].next_mode = "always"
    BY <1>2, <2>3 DEF IInv, Running, Chosen, Allows
  <2>4. CASE commands[Len(statuses)].next_mode # "always"
    BY <1>2, <2>1, <2>2, <2>4 DEF IInv, Running, Chosen, Allows, Refused
  <2> QED BY <2>3, <2>4
<1>3. IInv => SelectedByPredecessor
  BY <1>1, <1>2 DEF SelectedByPredecessor
<1> QED BY <1>3, Invariance, PTL

-----------------------------------------------------------------------------
(* Positions in order                                                      *)

\* Sequences with the same members are the same.
LEMMA SameSequence ==
  ASSUME NEW V, NEW s \in Seq(V), NEW r \in Seq(V), Len(r) = Len(s),
         \A k \in 1..Len(s) : r[k] = s[k]
  PROVE  r = s
OBVIOUS

\* Nothing, in order.
LEMMA InOrderEmpty == InOrder({}) = <<>>
<1>1. Cardinality({}) = 0
  BY FS_EmptySet
<1> QED BY <1>1 DEF InOrder

\* A number greater than all of S comes last.
LEMMA InOrderAppend ==
  ASSUME NEW S, IsFiniteSet(S), S \subseteq Nat, NEW i \in Nat, \A j \in S : j < i
  PROVE  /\ InOrder(S \cup {i}) = Append(InOrder(S), i)
         /\ \E V : InOrder(S) \in Seq(V)
<1> DEFINE T == S \cup {i}
           n == Cardinality(S)
           f(R) == [k \in 1..Cardinality(R) |-> CHOOSE j \in Nth(R, k) : TRUE]
           V == {InOrder(S)[k] : k \in 1..n} \cup {i}
<1>1. n \in Nat /\ Cardinality(T) = n + 1 /\ IsFiniteSet(T)
  BY FS_AddElement, FS_CardinalityType
<1>0. \A l \in T : l \in Nat /\ l <= i
  OBVIOUS
<1>a. {l \in T : l <= i} = T /\ i \in T /\ i \notin S
  <2>1. i \in T /\ i \notin S
    OBVIOUS
  <2> HIDE DEF T
  <2> QED BY <1>0, <2>1
<1>2. \A k \in 1..n : Nth(T, k) = Nth(S, k)
  <2> SUFFICES ASSUME NEW k \in 1..n, NEW j \in T PROVE j \in Nth(T, k) <=> j \in Nth(S, k)
    BY DEF Nth
  <2>1. CASE j \in S
    <3>1. {l \in T : l <= j} = {l \in S : l <= j}
      BY <2>1
    <3> QED BY <2>1, <3>1 DEF Nth
  <2>2. CASE j = i
    <3>1. Cardinality({l \in T : l <= j}) = n + 1 /\ j \notin S
      BY <1>1, <1>a, <2>2
    <3>2. n + 1 # k
      BY <1>1
    <3> QED BY <3>1, <3>2 DEF Nth
  <2> QED BY <2>1, <2>2
<1>3. Nth(T, n + 1) = {i}
  <2>1. \A j \in S : j \notin Nth(T, n + 1)
    <3> SUFFICES ASSUME NEW j \in S PROVE Cardinality({l \in T : l <= j}) # n + 1
      BY DEF Nth
    <3>1. {l \in T : l <= j} \subseteq S
      OBVIOUS
    <3>2. Cardinality({l \in T : l <= j}) <= n
      BY <3>1, FS_Subset
    <3>3. Cardinality({l \in T : l <= j}) \in Nat
      BY <3>1, FS_Subset, FS_CardinalityType
    <3> QED BY <1>1, <3>2, <3>3
  <2>2. i \in Nth(T, n + 1)
    BY <1>1, <1>a DEF Nth
  <2>3. Nth(T, n + 1) \subseteq T
    BY DEF Nth
  <2> QED BY <2>1, <2>2, <2>3
<1>4. /\ InOrder(S) = [k \in 1..n |-> CHOOSE j \in Nth(S, k) : TRUE]
      /\ InOrder(T) = [k \in 1..n + 1 |-> CHOOSE j \in Nth(T, k) : TRUE]
  BY <1>1 DEF InOrder
<1>5. /\ \A k \in 1..n : InOrder(T)[k] = InOrder(S)[k]
      /\ InOrder(T)[n + 1] = i
  <2>1. \A k \in 1..n : k \in 1..n + 1
    BY <1>1
  <2>2. n + 1 \in 1..n + 1 /\ (CHOOSE j \in {i} : TRUE) = i
    BY <1>1
  <2> HIDE DEF n, T
  <2> QED BY <1>2, <1>3, <1>4, <2>1, <2>2
<1>6. InOrder(S) \in Seq(V)
  <2>1. InOrder(S) \in [1..n -> V]
    <3> DEFINE g == InOrder(S)
    <3>1. DOMAIN g = 1..n /\ g = [k \in 1..n |-> g[k]]
      BY <1>4
    <3>2. \A k \in 1..n : g[k] \in V
      OBVIOUS
    <3> HIDE DEF g, V
    <3>3. g \in [1..n -> V]
      BY <3>1, <3>2
    <3> QED BY <3>3 DEF g
  <2> HIDE DEF V
  <2> QED BY <1>1, <2>1
<1>7. InOrder(T) = Append(InOrder(S), i)
  <2> DEFINE g == InOrder(S)
             h == InOrder(T)
  <2>1. h = [k \in 1..n + 1 |-> h[k]]
    BY <1>4
  <2>2. g \in Seq(V) /\ i \in V /\ Len(g) = n
    <3>1. DOMAIN g = 1..n
      BY <1>4
    <3>2. g \in Seq(V) /\ i \in V
      BY <1>6
    <3> HIDE DEF g, V
    <3> QED BY <1>1, <3>1, <3>2
  <2>3. (\A k \in 1..n : h[k] = g[k]) /\ h[n + 1] = i
    BY <1>5
  <2> HIDE DEF g, h, V
  <2>4. h = Append(g, i)
    <3> HIDE DEF n
    <3>1. /\ Append(g, i) \in Seq(V) /\ Len(Append(g, i)) = n + 1
          /\ Append(g, i)[n + 1] = i /\ \A k \in 1..n : Append(g, i)[k] = g[k]
      BY <1>1, <2>2
    <3>2. \A k \in 1..n + 1 : h[k] = Append(g, i)[k] /\ h[k] \in V
      BY <1>1, <2>2, <2>3, <3>1
    <3>3. h \in [1..n + 1 -> V] /\ n + 1 \in Nat
      BY <1>1, <2>1, <3>2
    <3>4. h \in Seq(V) /\ Len(h) = n + 1
      BY <3>3
    <3> QED BY <3>1, <3>2, <3>4, SameSequence
  <2> QED BY <2>4 DEF g, h
<1> QED BY <1>6, <1>7

\* Sets of positions have a greatest one.
LEMMA GreatestIn ==
  ASSUME NEW b \in Nat, NEW S, S \subseteq 1..b, S # {}
  PROVE  Greatest(S) \in S /\ \A j \in S : j <= Greatest(S)
<1> DEFINE D == {b - j : j \in S}
<1>1. PICK m \in D : \A k \in D : ~(<<k, m>> \in OpToRel(<, Nat))
  <2>0. \A j \in S : b - j \in Nat
    OBVIOUS
  <2>1. D \subseteq Nat /\ D # {}
    BY <2>0
  <2> HIDE DEF D
  <2> QED BY <2>1, NatLessThanWellFounded, WFMin
<1>2. PICK i \in S : m = b - i
  OBVIOUS
<1>3. \A j \in S : j <= i
  <2> SUFFICES ASSUME NEW j \in S PROVE j <= i
    OBVIOUS
  <2>1. b - j \in D /\ b - j \in Nat /\ m \in Nat
    BY <1>2
  <2>2. ~(b - j < m)
    <3> HIDE DEF D
    <3> QED BY <1>1, <2>1 DEF OpToRel
  <2> QED BY <1>2, <2>2
<1> QED BY <1>3 DEF Greatest

\* Of a set with a new greatest element it is that one.
LEMMA GreatestGrows ==
  ASSUME NEW S, S \subseteq Nat, NEW i \in Nat, \A j \in S : j < i
  PROVE  Greatest(S \cup {i}) = i
<1> DEFINE T == S \cup {i}
<1>1. i \in T /\ \A j \in T : j \in Nat /\ j <= i
  OBVIOUS
<1> HIDE DEF T
<1>2. \A k \in T : (\A j \in T : j <= k) => k = i
  BY <1>1
<1>3. Greatest(T) = i
  BY <1>1, <1>2 DEF Greatest
<1> QED BY <1>3 DEF T

-----------------------------------------------------------------------------
(* The cuts of a line that grows                                           *)

\* r is s with v at its end, and with v at w.
Longer(r, s, v, V) ==
  /\ r \in Seq(V) /\ Len(r) = Len(s) + 1 /\ r[Len(s) + 1] = v
  /\ \A k \in 1..Len(s) : r[k] = s[k]

Changed(r, s, w, v, V) ==
  /\ r \in Seq(V) /\ Len(r) = Len(s) /\ r[w] = v
  /\ \A k \in 1..Len(s) : k # w => r[k] = s[k]

\* What Append leaves and adds.
LEMMA Appended ==
  ASSUME NEW V, NEW s \in Seq(V), NEW v \in V
  PROVE  Longer(Append(s, v), s, v, V)
BY DEF Longer

\* What replacing a member leaves and changes.
LEMMA Replaced ==
  ASSUME NEW V, NEW s \in Seq(V), NEW w \in 1..Len(s), NEW v \in V
  PROVE  Changed([s EXCEPT ![w] = v], s, w, v, V)
BY DEF Changed

\* A sequence framed by x and y, when it grows and when its frame does.
LEMMA FramedSequences ==
  ASSUME NEW V, NEW q \in Seq(V), NEW x \in V, NEW y \in V, NEW z \in V
  PROVE  /\ <<x>> \o Append(q, y) \o <<z>> = Append(<<x>> \o q \o <<y>>, z)
         /\ <<x>> \o q \o <<z>> = [<<x>> \o q \o <<y>> EXCEPT ![Len(q) + 2] = z]
         /\ Len(<<x>> \o q \o <<y>>) = Len(q) + 2
         /\ <<x>> \o q \o <<y>> \in Seq(V)
<1> DEFINE n == Len(q)
           o == <<x>> \o q
           s == o \o <<y>>
<1>0. n \in Nat /\ <<x>> \in Seq(V) /\ <<y>> \in Seq(V) /\ <<z>> \in Seq(V)
  OBVIOUS
<1>1. /\ o \in Seq(V) /\ Len(o) = n + 1
      /\ o[1] = x /\ \A k \in 1..n : o[k + 1] = q[k]
  BY <1>0
<1>2. <<x>> \o Append(q, y) = s
  OBVIOUS
<1> HIDE DEF o
<1>3. s \in Seq(V) /\ Len(s) = n + 2
  BY <1>0, <1>1
<1>4. s \o <<z>> = Append(s, z)
  <2> HIDE DEF s
  <2> QED BY <1>3
<1>5. o \o <<z>> = [s EXCEPT ![n + 2] = z]
  <2>1. /\ o \o <<z>> \in Seq(V) /\ Len(o \o <<z>>) = n + 2
        /\ \A k \in 1..n + 2 : (o \o <<z>>)[k] = IF k = n + 2 THEN z ELSE o[k]
    BY <1>0, <1>1
  <2>2. \A k \in 1..n + 1 : s[k] = o[k]
    BY <1>0, <1>1
  <2> DEFINE e == [s EXCEPT ![n + 2] = z]
  <2>3. /\ e \in Seq(V) /\ Len(e) = n + 2
        /\ \A k \in 1..n + 2 : e[k] = IF k = n + 2 THEN z ELSE s[k]
    <3> HIDE DEF s
    <3>1. n + 2 \in 1..Len(s)
      BY <1>0, <1>3
    <3> DEFINE m == n + 2
    <3>2. m \in 1..Len(s) /\ e = [s EXCEPT ![m] = z]
      BY <3>1
    <3> HIDE DEF m
    <3>3. Changed(e, s, m, z, V)
      BY <1>3, <3>2, Replaced
    <3> QED BY <1>3, <3>3 DEF Changed, m
  <2> DEFINE f == o \o <<z>>
  <2>6. \A k \in 1..n + 2 : f[k] = IF k = n + 2 THEN z ELSE o[k]
    BY <2>1
  <2> HIDE DEF s, e, f
  <2>7. \A k \in 1..n + 2 : k = n + 2 \/ k \in 1..n + 1
    BY <1>0
  <2>8. \A k \in 1..n + 2 : f[k] = e[k]
    BY <2>2, <2>3, <2>6, <2>7
  <2>4. \A k \in 1..n + 2 : (o \o <<z>>)[k] = e[k]
    BY <2>8 DEF f
  <2>5. o \o <<z>> = e
    BY <2>1, <2>3, <2>4, SameSequence
  <2> QED BY <2>5 DEF e
<1> QED BY <1>2, <1>3, <1>4, <1>5 DEF o

\* A connector is one cut more; any other token moves the last one.
LEMMA CutsGrow ==
  ASSUME NEW L \in Seq(Tokens), NEW t \in Tokens
  PROVE  /\ t \in Connectors => Cuts(Append(L, t)) = Append(Cuts(L), Len(L) + 2)
         /\ t \notin Connectors =>
              Cuts(Append(L, t)) = [Cuts(L) EXCEPT ![Len(Cuts(L))] = Len(L) + 2]
<1> DEFINE n == Len(L)
           M == Append(L, t)
           S(N) == {i \in DOMAIN N : N[i] \in Connectors}
<1>1. /\ n \in Nat /\ DOMAIN L = 1..n /\ DOMAIN M = 1..n + 1 /\ Len(M) = n + 1
      /\ M[n + 1] = t /\ \A i \in 1..n : M[i] = L[i]
  OBVIOUS
<1>2. /\ S(L) \subseteq Nat /\ IsFiniteSet(S(L)) /\ \A i \in S(L) : i < n + 1
  <2>1. S(L) \subseteq 1..n
    BY <1>1
  <2>2. IsFiniteSet(1..n)
    BY <1>1, FS_Interval
  <2> HIDE DEF S
  <2>3. IsFiniteSet(S(L))
    BY <2>1, <2>2, FS_Subset
  <2> QED BY <1>1, <2>1, <2>3
<1>3. S(M) = IF t \in Connectors THEN S(L) \cup {n + 1} ELSE S(L)
  BY <1>1
<1> DEFINE q == InOrder(S(L))
<1>4. InOrder(S(L) \cup {n + 1}) = Append(q, n + 1) /\ \E V : q \in Seq(V)
  <2> HIDE DEF S
  <2> QED BY <1>1, <1>2, InOrderAppend
<1>5. PICK W : q \in Seq(W)
  BY <1>4
<1> DEFINE V == W \cup Nat
<1>6. q \in Seq(V) /\ 0 \in V /\ n + 1 \in V /\ n + 2 \in V /\ (n + 1) + 1 = n + 2
  <2>1. q \in Seq(V)
    <3> HIDE DEF q
    <3> QED BY <1>5
  <2> QED BY <1>1, <2>1
<1>7. Cuts(L) = <<0>> \o q \o <<n + 1>> /\ Cuts(M) = <<0>> \o InOrder(S(M)) \o <<n + 2>>
  BY <1>1, <1>6 DEF Cuts
<1> HIDE DEF q, n, M, S, V
<1>8. CASE t \in Connectors
  <2>1. Cuts(M) = <<0>> \o Append(q, n + 1) \o <<n + 2>>
    BY <1>3, <1>4, <1>7, <1>8
  <2>2. Cuts(M) = Append(Cuts(L), n + 2)
    BY <1>6, <1>7, <2>1, FramedSequences
  <2> QED BY <1>8, <2>2 DEF n, M
<1>9. CASE t \notin Connectors
  <2>1. Cuts(M) = <<0>> \o q \o <<n + 2>>
    BY <1>3, <1>7, <1>9 DEF q
  <2>2. Cuts(M) = [Cuts(L) EXCEPT ![Len(Cuts(L))] = n + 2]
    BY <1>6, <1>7, <2>1, FramedSequences
  <2> QED BY <1>9, <2>2 DEF n, M
<1> QED BY <1>8, <1>9

\* The two sentinels.
LEMMA CutsOfEmpty == Cuts(<<>>) = <<0, 1>>
<1>1. {i \in DOMAIN <<>> : <<>>[i] \in Connectors} = {} /\ Len(<<>>) = 0
  OBVIOUS
<1>2. Cuts(<<>>) = <<0>> \o <<>> \o <<1>>
  BY <1>1, InOrderEmpty DEF Cuts
<1> QED BY <1>2

-----------------------------------------------------------------------------
(* What a line means, of any line                                          *)

\* A command.
Record(name, args, inMode, in, outMode, out, next) ==
  [cmd |-> name, args |-> args, cin_mode |-> inMode, cin_file |-> in,
   cout_mode |-> outMode, cout_file |-> out, next_mode |-> next]

\* The meaning of a segment, field by field.
LEMMA MeaningIs ==
  ASSUME NEW L, NEW a, NEW b, NEW x, NEW y
  PROVE  MeaningOf(L, a, b, x, y) =
           Record(a + 1, InOrder(ArgsAt(L, a, b)),
                  InMode(At(L, a, b, Inputs), x), Path(At(L, a, b, Inputs)),
                  OutMode(L, At(L, a, b, Outputs), y), Path(At(L, a, b, Outputs)),
                  NextMode(y))
BY DEF MeaningOf, Record

\* The cuts increase from 0 to the end of the line.
Shape(L) ==
  /\ Cuts(L) \in Seq(Nat) /\ Count(L) \in Nat \ {0}
  /\ Cut(L, 1) = 0 /\ Cut(L, Count(L) + 1) = Len(L) + 1
  /\ \A k \in 1..Count(L) : Cut(L, k) < Cut(L, k + 1) /\ Cut(L, k) <= Len(L)

\* A line without tokens is one segment.
LEMMA ShapeOfEmpty == Shape(<<>>) /\ Count(<<>>) = 1
<1> DEFINE L == <<>>
           C == <<0, 1>>
<1>1. Len(L) = 0 /\ C \in Seq(Nat) /\ Len(C) = 2 /\ C[1] = 0 /\ C[2] = 1
  OBVIOUS
<1>2. Cuts(L) = C
  BY CutsOfEmpty
<1> HIDE DEF L, C
<1>3. Count(L) = 1 /\ Cut(L, 1) = 0 /\ Cut(L, 2) = 1
  BY <1>1, <1>2 DEF Count, Cut
<1>4. Shape(L)
  BY <1>1, <1>2, <1>3 DEF Shape
<1> QED BY <1>3, <1>4 DEF L

\* A connector opens a segment after the last one; another token is added to it.
LEMMA ShapeGrows ==
  ASSUME NEW L \in Seq(Tokens), NEW t \in Tokens, Shape(L)
  PROVE  LET M == Append(L, t) IN
         /\ Shape(M)
         /\ \A k \in 1..Count(L) : Cut(M, k) = Cut(L, k) /\ Before(M, k) = Before(L, k)
         /\ t \in Connectors => /\ Count(M) = Count(L) + 1
                                /\ Cut(M, Count(L) + 1) = Len(L) + 1
                                /\ Before(M, Count(M)) = t
         /\ t \notin Connectors => Count(M) = Count(L)
<1> DEFINE M == Append(L, t)
           n == Len(L)
           C == Cuts(L)
           D == Cuts(M)
           m == Count(L)
<1>1. /\ n \in Nat /\ M \in Seq(Tokens) /\ Len(M) = n + 1 /\ M[n + 1] = t
      /\ \A i \in 1..n : M[i] = L[i]
  OBVIOUS
<1>2. C \in Seq(Nat) /\ m \in Nat /\ m >= 1 /\ Len(C) = m + 1
  <2>1. C \in Seq(Nat) /\ m \in Nat \ {0}
    BY DEF Shape
  <2>2. Len(C) \in Nat /\ m = Len(C) - 1
    BY <2>1 DEF Count
  <2> HIDE DEF m, C
  <2> QED BY <2>1, <2>2
<1>3. /\ t \in Connectors => D = Append(C, n + 2)
      /\ t \notin Connectors => D = [C EXCEPT ![m + 1] = n + 2]
  BY <1>2, CutsGrow
<1>4. \A k \in 1..m : /\ Cut(L, k) \in Nat /\ Cut(L, k + 1) \in Nat
                       /\ Cut(L, k) <= n /\ Cut(L, k) < Cut(L, k + 1)
  <2> SUFFICES ASSUME NEW k \in 1..m
               PROVE  /\ Cut(L, k) \in Nat /\ Cut(L, k + 1) \in Nat
                      /\ Cut(L, k) <= n /\ Cut(L, k) < Cut(L, k + 1)
    OBVIOUS
  <2>1. C[k] \in Nat /\ C[k + 1] \in Nat
    BY <1>2
  <2> QED BY <2>1 DEF Cut, Shape
<1>5. Cut(L, 1) = 0 /\ Cut(L, m + 1) = n + 1
  BY DEF Shape
<1>6. \A k \in 2..m : Cut(L, k) \in 1..n
  <2> SUFFICES ASSUME NEW k \in 2..m PROVE Cut(L, k) \in 1..n
    OBVIOUS
  <2>1. k - 1 \in 1..m /\ (k - 1) + 1 = k /\ k \in 1..m
    BY <1>2
  <2> QED BY <1>1, <1>4, <2>1
<1> HIDE DEF C, D, m, M, n
<1>7. /\ D \in Seq(Nat) /\ \A k \in 1..m : D[k] = C[k]
      /\ t \in Connectors => Len(D) = m + 2 /\ D[m + 1] = C[m + 1] /\ D[m + 2] = n + 2
      /\ t \notin Connectors => Len(D) = m + 1 /\ D[m + 1] = n + 2
  <2>0. n + 2 \in Nat /\ (m + 1) + 1 = m + 2 /\ m + 1 \in 1..Len(C)
        /\ \A k \in 1..m : k \in 1..Len(C)
    BY <1>1, <1>2
  <2>1. CASE t \in Connectors
    <3>1. /\ D \in Seq(Nat) /\ Len(D) = Len(C) + 1 /\ D[Len(C) + 1] = n + 2
          /\ \A k \in 1..Len(C) : D[k] = C[k]
      <4>1. D = Append(C, n + 2)
        BY <1>3, <2>1
      <4> DEFINE v == n + 2
      <4>2. C \in Seq(Nat) /\ v \in Nat
        BY <1>2, <2>0
      <4> HIDE DEF v
      <4>3. D = Append(C, v)
        BY <4>1 DEF v
      <4>4. Longer(D, C, v, Nat)
        BY <4>2, <4>3, Appended
      <4> QED BY <4>4 DEF Longer, v
    <3> QED BY <1>2, <2>0, <2>1, <3>1
  <2>2. CASE t \notin Connectors
    <3>1. D = [C EXCEPT ![m + 1] = n + 2] /\ C \in Seq(Nat) /\ Len(C) = m + 1
      BY <1>2, <1>3, <2>2
    <3> DEFINE v == n + 2
               w == m + 1
    <3>2. v \in Nat /\ w \in 1..Len(C) /\ \A k \in 1..m : k \in 1..Len(C) /\ k # w
      BY <1>2, <2>0
    <3>3. D = [C EXCEPT ![w] = v]
      BY <3>1
    <3> HIDE DEF v, w
    <3>4. D \in Seq(Nat) /\ Len(D) = Len(C) /\ D[w] = v
          /\ \A k \in 1..Len(C) : k # w => D[k] = C[k]
      <4>1. C \in Seq(Nat) /\ w \in 1..Len(C) /\ v \in Nat
        BY <3>1, <3>2
      <4>2. Changed([C EXCEPT ![w] = v], C, w, v, Nat)
        BY <4>1, Replaced, Zenon
      <4>3. Changed(D, C, w, v, Nat)
        BY <3>3, <4>2, Zenon
      <4> QED BY <4>3 DEF Changed
    <3>5. D[m + 1] = n + 2
      BY <3>4 DEF v, w
    <3> QED BY <2>2, <3>1, <3>2, <3>4, <3>5
  <2> QED BY <2>1, <2>2
<1>8. /\ \A k \in 1..m : Cut(M, k) = Cut(L, k)
      /\ t \in Connectors => /\ Count(M) = m + 1 /\ Cut(M, m + 1) = n + 1
                             /\ Cut(M, m + 2) = n + 2
      /\ t \notin Connectors => Count(M) = m /\ Cut(M, m + 1) = n + 2
  <2>1. \A k \in 1..m + 2 : Cut(M, k) = D[k] /\ Cut(L, k) = C[k]
    BY DEF Cut, C, D
  <2>2. Count(M) = Len(D) - 1
    BY DEF Count, D
  <2>3. m + 1 \in 1..m + 2 /\ m + 2 \in 1..m + 2 /\ \A k \in 1..m : k \in 1..m + 2
    BY <1>2
  <2>4. /\ t \in Connectors => Count(M) = m + 1
        /\ t \notin Connectors => Count(M) = m
    BY <1>2, <1>7, <2>2
  <2> QED BY <1>5, <1>7, <2>1, <2>3, <2>4
<1>9. \A k \in 1..m : Before(M, k) = Before(L, k)
  <2> SUFFICES ASSUME NEW k \in 1..m, k # 1 PROVE M[Cut(M, k)] = L[Cut(L, k)]
    BY DEF Before
  <2>1. k \in 2..m
    BY <1>2
  <2> QED BY <1>1, <1>6, <1>8, <2>1
<1>10. t \in Connectors => Before(M, Count(M)) = t
  <2> SUFFICES ASSUME t \in Connectors PROVE Before(M, Count(M)) = t
    OBVIOUS
  <2>1. Count(M) = m + 1 /\ m + 1 # 1 /\ Cut(M, m + 1) = n + 1
    BY <1>2, <1>8
  <2>2. Before(M, m + 1) = M[Cut(M, m + 1)]
    BY <2>1 DEF Before
  <2> QED BY <1>1, <2>1, <2>2
<1>11. D = Cuts(M)
  BY DEF D
<1>12. Shape(M)
  <2>1. CASE t \in Connectors
    <3>1. \A k \in 1..m + 1 : k = m + 1 \/ k \in 1..m
      BY <1>2
    <3>2. Cut(M, 1) = 0 /\ (m + 1) + 1 = m + 2
      BY <1>2, <1>5, <1>8
    <3>3. \A k \in 1..m : Cut(M, k) < Cut(M, k + 1) /\ Cut(M, k) <= n + 1
      <4> SUFFICES ASSUME NEW k \in 1..m
                   PROVE  Cut(M, k) < Cut(M, k + 1) /\ Cut(M, k) <= n + 1
        OBVIOUS
      <4>1. Cut(M, k + 1) = Cut(L, k + 1)
        <5>1. k + 1 = m + 1 \/ k + 1 \in 1..m
          BY <1>2
        <5> QED BY <1>5, <1>8, <2>1, <5>1
      <4> QED BY <1>1, <1>4, <1>8, <4>1
    <3>4. \A k \in 1..m + 1 : Cut(M, k) < Cut(M, k + 1) /\ Cut(M, k) <= n + 1
      BY <1>1, <1>8, <2>1, <3>1, <3>2, <3>3
    <3> QED BY <1>1, <1>2, <1>7, <1>8, <1>11, <2>1, <3>2, <3>4 DEF Shape
  <2>2. CASE t \notin Connectors
    <3>1. Cut(M, 1) = 0
      BY <1>2, <1>5, <1>8
    <3>2. \A k \in 1..m : Cut(M, k) < Cut(M, k + 1) /\ Cut(M, k) <= n + 1
      <4> SUFFICES ASSUME NEW k \in 1..m
                   PROVE  Cut(M, k) < Cut(M, k + 1) /\ Cut(M, k) <= n + 1
        OBVIOUS
      <4>1. CASE k = m
        BY <1>1, <1>4, <1>8, <2>2, <4>1
      <4>2. CASE k # m
        <5>1. k + 1 \in 1..m
          BY <1>2, <4>2
        <5> QED BY <1>1, <1>4, <1>8, <5>1
      <4> QED BY <4>1, <4>2
    <3> QED BY <1>1, <1>2, <1>7, <1>8, <1>11, <2>2, <3>1, <3>2 DEF Shape
  <2> QED BY <2>1, <2>2
<1> QED BY <1>8, <1>9, <1>10, <1>12 DEF M, n, m

\* A segment means the same in every line that has it.
LEMMA SameSegment ==
  ASSUME NEW L, NEW M, NEW a \in Nat, NEW b \in Nat, NEW x, NEW y,
         \A i \in a + 1..b - 1 : M[i] = L[i]
  PROVE  /\ MeaningOf(M, a, b, x, y) = MeaningOf(L, a, b, x, y)
         /\ WellFormedOf(M, a, b, x, y) <=> WellFormedOf(L, a, b, x, y)
<1>1. \A R : At(M, a, b, R) = At(L, a, b, R)
  BY DEF At
<1>2. ArgsAt(M, a, b) = ArgsAt(L, a, b)
  <2>1. \A i \in At(L, a, b, {"text"}) :
          i > a + 1 => i - 1 \in a + 1..b - 1
    BY DEF At
  <2> QED BY <1>1, <2>1 DEF ArgsAt
<1>3. OutMode(M, At(L, a, b, Outputs), y) = OutMode(L, At(L, a, b, Outputs), y)
  <2> DEFINE S == At(L, a, b, Outputs)
  <2>1. S \subseteq 1..b /\ S \subseteq a + 1..b - 1
    BY DEF At
  <2> HIDE DEF S
  <2>2. S # {} => Greatest(S) \in S
    BY <2>1, GreatestIn
  <2>3. S # {} => M[Greatest(S)] = L[Greatest(S)]
    BY <2>1, <2>2
  <2>4. OutMode(M, S, y) = OutMode(L, S, y)
    BY <2>3 DEF OutMode
  <2> QED BY <2>4 DEF S
<1>4. MeaningOf(M, a, b, x, y) = MeaningOf(L, a, b, x, y)
  BY <1>1, <1>2, <1>3, MeaningIs
<1>5. WellFormedOf(M, a, b, x, y) <=> WellFormedOf(L, a, b, x, y)
  <2>1. a + 1..b - 1 # {} => M[a + 1] = L[a + 1]
    OBVIOUS
  <2>2. \A i \in At(L, a, b, Redirects) :
          i + 1 \in a + 1..b - 1 => M[i + 1] = L[i + 1]
    OBVIOUS
  <2> QED BY <1>1, <2>1, <2>2 DEF WellFormedOf
<1> QED BY <1>4, <1>5

-----------------------------------------------------------------------------
(* A segment that grows                                                    *)

\* The tokens of R in a segment to which t is added.
LEMMA SegmentGrows ==
  ASSUME NEW L \in Seq(Tokens), NEW t \in Tokens, NEW a \in 0..Len(L), NEW R
  PROVE  /\ At(Append(L, t), a, Len(L) + 2, R) =
              At(L, a, Len(L) + 1, R) \cup (IF t \in R THEN {Len(L) + 1} ELSE {})
         /\ At(L, a, Len(L) + 1, R) \subseteq a + 1..Len(L)
<1> DEFINE M == Append(L, t)
           n == Len(L)
<1>1. /\ n \in Nat /\ a \in Nat /\ a <= n /\ M[n + 1] = t /\ \A i \in 1..n : M[i] = L[i]
  OBVIOUS
<1> HIDE DEF M, n
<1>2. /\ \A i \in a + 1..(n + 2) - 1 : i = n + 1 \/ i \in a + 1..n
      /\ n + 1 \in a + 1..(n + 2) - 1 /\ a + 1..n \subseteq 1..n
      /\ \A i \in a + 1..n : i \in a + 1..(n + 2) - 1
      /\ a + 1..(n + 1) - 1 = a + 1..n
  BY <1>1
<1>3. At(M, a, n + 2, R) = At(L, a, n + 1, R) \cup (IF t \in R THEN {n + 1} ELSE {})
  BY <1>1, <1>2 DEF At
<1>4. At(L, a, n + 1, R) \subseteq a + 1..n
  BY <1>2 DEF At
<1> QED BY <1>3, <1>4 DEF M, n

\* Its arguments.
LEMMA ArgsGrow ==
  ASSUME NEW L \in Seq(Tokens), NEW t \in Tokens, NEW a \in 0..Len(L), a < Len(L)
  PROVE  /\ ArgsAt(Append(L, t), a, Len(L) + 2) =
              ArgsAt(L, a, Len(L) + 1)
                \cup (IF t = "text" /\ L[Len(L)] \notin Redirects THEN {Len(L) + 1} ELSE {})
         /\ ArgsAt(L, a, Len(L) + 1) \subseteq a + 1..Len(L)
<1> DEFINE M == Append(L, t)
           n == Len(L)
           S == At(L, a, n + 1, {"text"})
<1>1. /\ n \in Nat /\ a \in Nat /\ a < n /\ M[n + 1] = t /\ \A i \in 1..n : M[i] = L[i]
  OBVIOUS
<1>2. /\ At(M, a, n + 2, {"text"}) = S \cup (IF t = "text" THEN {n + 1} ELSE {})
      /\ S \subseteq a + 1..n
  <2> DEFINE R == {"text"}
  <2>1. t \in R <=> t = "text"
    OBVIOUS
  <2> HIDE DEF R
  <2>2. /\ At(M, a, n + 2, R) = At(L, a, n + 1, R) \cup (IF t \in R THEN {n + 1} ELSE {})
        /\ At(L, a, n + 1, R) \subseteq a + 1..n
    BY SegmentGrows
  <2> QED BY <2>1, <2>2 DEF R
<1> HIDE DEF M, n, S
<1>3. \A i \in S : i > a + 1 => M[i - 1] = L[i - 1]
  <2>1. \A i \in a + 1..n : i > a + 1 => i - 1 \in 1..n
    BY <1>1
  <2> QED BY <1>1, <1>2, <2>1
<1>4. n + 1 > a + 1 /\ M[(n + 1) - 1] = L[n] /\ n + 1 \notin S
  <2>1. (n + 1) - 1 = n /\ n \in 1..n /\ n + 1 \notin a + 1..n
    BY <1>1
  <2> QED BY <1>1, <1>2, <2>1
<1>5. /\ ArgsAt(L, a, n + 1) = {i \in S : i > a + 1 /\ L[i - 1] \notin Redirects}
      /\ ArgsAt(M, a, n + 2) = {i \in S \cup (IF t = "text" THEN {n + 1} ELSE {}) :
                                  i > a + 1 /\ M[i - 1] \notin Redirects}
  BY <1>2 DEF ArgsAt, S
<1>6. ArgsAt(M, a, n + 2) = ArgsAt(L, a, n + 1)
        \cup (IF t = "text" /\ L[n] \notin Redirects THEN {n + 1} ELSE {})
  BY <1>3, <1>4, <1>5
<1>7. ArgsAt(L, a, n + 1) \subseteq a + 1..n
  BY <1>2, <1>5
<1> QED BY <1>6, <1>7 DEF M, n

\* Of a set of positions in the line, the greatest is one, and a new one greater.
LEMMA GreatestOf ==
  ASSUME NEW n \in Nat, NEW a \in Nat, NEW S, S \subseteq a + 1..n
  PROVE  /\ S # {} => Greatest(S) \in S /\ Greatest(S) \in 1..n
         /\ Greatest(S \cup {n + 1}) = n + 1
         /\ InOrder(S \cup {n + 1}) = Append(InOrder(S), n + 1)
<1>1. S \subseteq 1..n /\ S \subseteq Nat /\ \A j \in S : j < n + 1
  OBVIOUS
<1>2. IsFiniteSet(S)
  <2>1. IsFiniteSet(1..n)
    BY FS_Interval
  <2> QED BY <1>1, <2>1, FS_Subset
<1>3. S # {} => Greatest(S) \in S
  BY <1>1, GreatestIn
<1>4. n + 1 \in Nat
  OBVIOUS
<1> QED BY <1>1, <1>2, <1>3, <1>4, GreatestGrows, InOrderAppend

\* The fields of a command, set one by one.
SetCmd(r, v) == [r EXCEPT !.cmd = v]
SetArgs(r, v) == [r EXCEPT !.args = v]
SetInMode(r, v) == [r EXCEPT !.cin_mode = v]
SetIn(r, v) == [r EXCEPT !.cin_file = v]
SetOutMode(r, v) == [r EXCEPT !.cout_mode = v]
SetOut(r, v) == [r EXCEPT !.cout_file = v]
SetNext(r, v) == [r EXCEPT !.next_mode = v]

\* All of them with these fields.
RecordOf(V1, V2, V3, V4, V5, V6, V7) ==
  [cmd : V1, args : V2, cin_mode : V3, cin_file : V4, cout_mode : V5,
   cout_file : V6, next_mode : V7]

\* What the fields of a command are.
LEMMA FieldsAre ==
  ASSUME NEW c, NEW ar, NEW im, NEW i, NEW om, NEW o, NEW nm
  PROVE  LET r == Record(c, ar, im, i, om, o, nm) IN
         /\ r.cmd = c /\ r.args = ar /\ r.cin_mode = im /\ r.cin_file = i
         /\ r.cout_mode = om /\ r.cout_file = o /\ r.next_mode = nm
BY DEF Record

\* What setting one of them gives.
LEMMA FieldsSet ==
  ASSUME NEW c, NEW ar, NEW im, NEW i, NEW om, NEW o, NEW nm, NEW v
  PROVE  LET r == Record(c, ar, im, i, om, o, nm) IN
         /\ SetCmd(r, v) = Record(v, ar, im, i, om, o, nm)
         /\ SetArgs(r, v) = Record(c, v, im, i, om, o, nm)
         /\ SetInMode(r, v) = Record(c, ar, v, i, om, o, nm)
         /\ SetIn(r, v) = Record(c, ar, im, v, om, o, nm)
         /\ SetOutMode(r, v) = Record(c, ar, im, i, v, o, nm)
         /\ SetOut(r, v) = Record(c, ar, im, i, om, v, nm)
         /\ SetNext(r, v) = Record(c, ar, im, i, om, o, v)
<1> DEFINE r == Record(c, ar, im, i, om, o, nm)
           V1 == {c, v}
           V2 == {ar, v}
           V3 == {im, v}
           V4 == {i, v}
           V5 == {om, v}
           V6 == {o, v}
           V7 == {nm, v}
<1>1. r \in RecordOf(V1, V2, V3, V4, V5, V6, V7)
  BY DEF Record, RecordOf
<1>r. /\ r.cmd = c /\ r.args = ar /\ r.cin_mode = im /\ r.cin_file = i
      /\ r.cout_mode = om /\ r.cout_file = o /\ r.next_mode = nm
  BY FieldsAre
<1>2. v \in V1 /\ v \in V2 /\ v \in V3 /\ v \in V4 /\ v \in V5
      /\ v \in V6 /\ v \in V7
  OBVIOUS
<1> HIDE DEF r, V1, V2, V3, V4, V5, V6, V7
<1>3. [r EXCEPT !.cmd = v] = Record(v, ar, im, i, om, o, nm)
  <2>1. [r EXCEPT !.cmd = v] =
          Record(v, r.args, r.cin_mode, r.cin_file, r.cout_mode, r.cout_file, r.next_mode)
    BY <1>1, <1>2 DEF Record, RecordOf
  <2> QED BY <1>r, <2>1
<1>4. [r EXCEPT !.args = v] = Record(c, v, im, i, om, o, nm)
  <2>1. [r EXCEPT !.args = v] =
          Record(r.cmd, v, r.cin_mode, r.cin_file, r.cout_mode, r.cout_file, r.next_mode)
    BY <1>1, <1>2 DEF Record, RecordOf
  <2> QED BY <1>r, <2>1
<1>5. [r EXCEPT !.cin_mode = v] = Record(c, ar, v, i, om, o, nm)
  <2>1. [r EXCEPT !.cin_mode = v] =
          Record(r.cmd, r.args, v, r.cin_file, r.cout_mode, r.cout_file, r.next_mode)
    BY <1>1, <1>2 DEF Record, RecordOf
  <2> QED BY <1>r, <2>1
<1>6. [r EXCEPT !.cin_file = v] = Record(c, ar, im, v, om, o, nm)
  <2>1. [r EXCEPT !.cin_file = v] =
          Record(r.cmd, r.args, r.cin_mode, v, r.cout_mode, r.cout_file, r.next_mode)
    BY <1>1, <1>2 DEF Record, RecordOf
  <2> QED BY <1>r, <2>1
<1>7. [r EXCEPT !.cout_mode = v] = Record(c, ar, im, i, v, o, nm)
  <2>1. [r EXCEPT !.cout_mode = v] =
          Record(r.cmd, r.args, r.cin_mode, r.cin_file, v, r.cout_file, r.next_mode)
    BY <1>1, <1>2 DEF Record, RecordOf
  <2> QED BY <1>r, <2>1
<1>8. [r EXCEPT !.cout_file = v] = Record(c, ar, im, i, om, v, nm)
  <2>1. [r EXCEPT !.cout_file = v] =
          Record(r.cmd, r.args, r.cin_mode, r.cin_file, r.cout_mode, v, r.next_mode)
    BY <1>1, <1>2 DEF Record, RecordOf
  <2> QED BY <1>r, <2>1
<1>9. [r EXCEPT !.next_mode = v] = Record(c, ar, im, i, om, o, v)
  <2>1. [r EXCEPT !.next_mode = v] =
          Record(r.cmd, r.args, r.cin_mode, r.cin_file, r.cout_mode, r.cout_file, v)
    BY <1>1, <1>2 DEF Record, RecordOf
  <2> QED BY <1>r, <2>1
<1> QED BY <1>3, <1>4, <1>5, <1>6, <1>7, <1>8, <1>9
       DEF r, SetCmd, SetArgs, SetInMode, SetIn, SetOutMode, SetOut, SetNext

-----------------------------------------------------------------------------
(* What the segment that grows means                                       *)

\* The kinds of tokens.
LEMMA Kinds ==
  /\ \A t \in Tokens : \/ t = "text" /\ t \notin Redirects /\ t \notin Connectors
                       \/ t \in Redirects /\ t # "text" /\ t \notin Connectors
                       \/ t \in Connectors /\ t # "text" /\ t \notin Redirects
  /\ \A t \in Redirects : \/ t \in Inputs /\ t \notin Outputs /\ t = "redirect_cin"
                          \/ t \in Outputs /\ t \notin Inputs /\ t # "redirect_cin"
  /\ Inputs \subseteq Redirects /\ Outputs \subseteq Redirects
  /\ "redirect_cin" \in Inputs /\ "text" \in Tokens /\ "text" \notin Redirects
  /\ Connectors = {"pipe", "logical_and", "logical_or", "semicolon"}
BY DEF Tokens, Connectors, Redirects, Inputs, Outputs

\* Its files: the last position of a redirection that is one of the line's.
LEMMA OutModeKept ==
  ASSUME NEW L \in Seq(Tokens), NEW t \in Tokens, NEW S, S \subseteq 1..Len(L), NEW y
  PROVE  OutMode(Append(L, t), S, y) = OutMode(L, S, y)
<1> DEFINE M == Append(L, t)
           n == Len(L)
<1>1. n \in Nat /\ \A i \in 1..n : M[i] = L[i]
  OBVIOUS
<1>2. S # {} => Greatest(S) \in 1..n
  <2>1. S # {} => Greatest(S) \in S
    BY <1>1, GreatestIn
  <2> QED BY <2>1
<1> HIDE DEF M, n
<1>3. S # {} => M[Greatest(S)] = L[Greatest(S)]
  BY <1>1, <1>2
<1>4. OutMode(M, S, y) = OutMode(L, S, y)
  BY <1>3 DEF OutMode
<1> QED BY <1>4 DEF M

\* The command that x opens.
Fresh(x) == Record(0, <<>>, IF x = "pipe" THEN "pipe" ELSE "term", 0, "term", 0, "always")

\* It is what the automaton appends.
LEMMA FreshIs ==
  /\ \A x : x # "pipe" => Fresh(x) = NewCommand
  /\ Fresh("pipe") = SetInMode(NewCommand, "pipe")
<1>1. NewCommand = Record(0, <<>>, "term", 0, "term", 0, "always")
  BY DEF NewCommand, Record
<1>2. SetInMode(NewCommand, "pipe") = Record(0, <<>>, "pipe", 0, "term", 0, "always")
  BY <1>1, FieldsSet
<1>3. /\ Fresh("pipe") = Record(0, <<>>, "pipe", 0, "term", 0, "always")
      /\ \A x : x # "pipe" => Fresh(x) = Record(0, <<>>, "term", 0, "term", 0, "always")
  BY DEF Fresh
<1> QED BY <1>1, <1>2, <1>3

\* A name is all of its segment.
LEMMA NameMeans ==
  ASSUME NEW L \in Seq(Tokens), NEW x
  PROVE  LET M == Append(L, "text") IN
         /\ MeaningOf(M, Len(L), Len(L) + 2, x, "end") = SetCmd(Fresh(x), Len(L) + 1)
         /\ \A R : "text" \notin R => At(M, Len(L), Len(L) + 2, R) = {}
<1> DEFINE M == Append(L, "text")
           n == Len(L)
<1>1. n \in Nat /\ n \in 0..Len(L) /\ "text" \in Tokens
  BY DEF Tokens
<1>2. \A R : At(L, n, n + 1, R) = {}
  BY <1>1 DEF At
<1>3. \A R : "text" \notin R => At(M, n, n + 2, R) = {}
  <2> SUFFICES ASSUME NEW R, "text" \notin R PROVE At(M, n, n + 2, R) = {}
    OBVIOUS
  <2>1. At(M, n, n + 2, R) =
          At(L, n, n + 1, R) \cup (IF "text" \in R THEN {n + 1} ELSE {})
    BY <1>1, SegmentGrows
  <2> QED BY <1>2, <2>1
<1>4. ArgsAt(M, n, n + 2) = {}
  <2>1. \A i \in n + 1..(n + 2) - 1 : ~(i > n + 1)
    BY <1>1
  <2> QED BY <2>1 DEF ArgsAt, At
<1>5. At(M, n, n + 2, Inputs) = {} /\ At(M, n, n + 2, Outputs) = {}
  BY <1>3, Kinds
<1>6. InMode({}, x) = (IF x = "pipe" THEN "pipe" ELSE "term") /\ Path({}) = 0
      /\ OutMode(M, {}, "end") = "term" /\ NextMode("end") = "always"
  BY DEF InMode, Path, OutMode, NextMode
<1>7. MeaningOf(M, n, n + 2, x, "end") =
        Record(n + 1, <<>>, IF x = "pipe" THEN "pipe" ELSE "term", 0, "term", 0, "always")
  BY <1>4, <1>5, <1>6, InOrderEmpty, MeaningIs
<1>8. SetCmd(Fresh(x), n + 1) =
        Record(n + 1, <<>>, IF x = "pipe" THEN "pipe" ELSE "term", 0, "term", 0, "always")
  BY FieldsSet DEF Fresh
<1> QED BY <1>3, <1>7, <1>8

\* An argument is added, a path is not; a redirection sets the mode and the file of
\* its stream, and a pipe on that stream keeps the mode.
LEMMA TokenMeans ==
  ASSUME NEW L \in Seq(Tokens), NEW t \in Tokens, NEW a \in 0..Len(L), a < Len(L), NEW x
  PROVE  LET n    == Len(L)
             old  == MeaningOf(L, a, n + 1, x, "end")
             new  == MeaningOf(Append(L, t), a, n + 2, x, "end")
         IN /\ t = "text" /\ L[n] \notin Redirects =>
                 new = SetArgs(old, Append(old.args, n + 1))
            /\ t = "text" /\ L[n] \in Redirects => new = old
            /\ t = "redirect_cin" /\ x # "pipe" =>
                 new = SetIn(SetInMode(old, "file"), n + 2)
            /\ t \in Outputs =>
                 new = SetOut(SetOutMode(old, IF t = "redirect_cout" THEN "file"
                                              ELSE "append"), n + 2)
<1> DEFINE n    == Len(L)
           M    == Append(L, t)
           ins  == At(L, a, n + 1, Inputs)
           outs == At(L, a, n + 1, Outputs)
           args == ArgsAt(L, a, n + 1)
           old  == MeaningOf(L, a, n + 1, x, "end")
           new  == MeaningOf(M, a, n + 2, x, "end")
<1>1. n \in Nat /\ a \in Nat /\ M[n + 1] = t /\ (n + 1) + 1 = n + 2 /\ n + 1 \in Nat
  OBVIOUS
<1>2. /\ ins \subseteq a + 1..n /\ outs \subseteq a + 1..n /\ args \subseteq a + 1..n
      /\ ins \subseteq 1..n /\ outs \subseteq 1..n
  <2>1. ins \subseteq a + 1..n /\ outs \subseteq a + 1..n /\ args \subseteq a + 1..n
    BY SegmentGrows, ArgsGrow
  <2>2. a + 1..n \subseteq 1..n
    BY <1>1
  <2> QED BY <2>1, <2>2
<1>3. /\ At(M, a, n + 2, Inputs) = ins \cup (IF t = "redirect_cin" THEN {n + 1} ELSE {})
      /\ At(M, a, n + 2, Outputs) =
           outs \cup (IF t \in Outputs THEN {n + 1} ELSE {})
      /\ ArgsAt(M, a, n + 2) =
           args \cup (IF t = "text" /\ L[n] \notin Redirects THEN {n + 1} ELSE {})
  <2>1. t \in Inputs <=> t = "redirect_cin"
    BY DEF Inputs
  <2> QED BY <2>1, SegmentGrows, ArgsGrow
<1>4. OutMode(M, outs, "end") = OutMode(L, outs, "end")
  BY <1>2, OutModeKept
<1>5. /\ old = Record(a + 1, InOrder(args), InMode(ins, x), Path(ins),
                      OutMode(L, outs, "end"), Path(outs), "always")
      /\ new = Record(a + 1, InOrder(ArgsAt(M, a, n + 2)),
                      InMode(At(M, a, n + 2, Inputs), x), Path(At(M, a, n + 2, Inputs)),
                      OutMode(M, At(M, a, n + 2, Outputs), "end"),
                      Path(At(M, a, n + 2, Outputs)), "always")
  BY MeaningIs DEF NextMode
<1> HIDE DEF n, M, ins, outs, args, old, new
<1>6. ASSUME t = "text", L[n] \notin Redirects
      PROVE  new = SetArgs(old, Append(old.args, n + 1))
  <2>1. /\ At(M, a, n + 2, Inputs) = ins /\ At(M, a, n + 2, Outputs) = outs
        /\ ArgsAt(M, a, n + 2) = args \cup {n + 1}
    BY <1>3, <1>6, Kinds
  <2>2. InOrder(args \cup {n + 1}) = Append(InOrder(args), n + 1)
    BY <1>1, <1>2, GreatestOf
  <2>3. new = Record(a + 1, Append(InOrder(args), n + 1), InMode(ins, x), Path(ins),
                     OutMode(L, outs, "end"), Path(outs), "always")
    BY <1>4, <1>5, <2>1, <2>2
  <2>4. old.args = InOrder(args)
    BY <1>5, FieldsAre
  <2>5. SetArgs(old, Append(InOrder(args), n + 1)) =
          Record(a + 1, Append(InOrder(args), n + 1), InMode(ins, x), Path(ins),
                 OutMode(L, outs, "end"), Path(outs), "always")
    BY <1>5, FieldsSet
  <2> QED BY <2>3, <2>4, <2>5
<1>7. ASSUME t = "text", L[n] \in Redirects PROVE new = old
  <2>1. /\ At(M, a, n + 2, Inputs) = ins /\ At(M, a, n + 2, Outputs) = outs
        /\ ArgsAt(M, a, n + 2) = args
    BY <1>3, <1>7, Kinds
  <2> QED BY <1>4, <1>5, <2>1
<1>8. ASSUME t = "redirect_cin", x # "pipe"
      PROVE  new = SetIn(SetInMode(old, "file"), n + 2)
  <2>1. /\ At(M, a, n + 2, Inputs) = ins \cup {n + 1}
        /\ At(M, a, n + 2, Outputs) = outs /\ ArgsAt(M, a, n + 2) = args
    BY <1>3, <1>8, Kinds
  <2>2. Path(ins \cup {n + 1}) = n + 2 /\ InMode(ins \cup {n + 1}, x) = "file"
    <3>1. Greatest(ins \cup {n + 1}) = n + 1 /\ ins \cup {n + 1} # {}
      BY <1>1, <1>2, GreatestOf
    <3> QED BY <1>1, <1>8, <3>1 DEF Path, InMode
  <2>3. new = Record(a + 1, InOrder(args), "file", n + 2,
                     OutMode(L, outs, "end"), Path(outs), "always")
    BY <1>4, <1>5, <2>1, <2>2
  <2>4. SetInMode(old, "file") =
          Record(a + 1, InOrder(args), "file", Path(ins),
                 OutMode(L, outs, "end"), Path(outs), "always")
    BY <1>5, FieldsSet
  <2>5. SetIn(SetInMode(old, "file"), n + 2) =
          Record(a + 1, InOrder(args), "file", n + 2,
                 OutMode(L, outs, "end"), Path(outs), "always")
    BY <2>4, FieldsSet
  <2> QED BY <2>3, <2>5
<1>9. ASSUME t \in Outputs
      PROVE  new = SetOut(SetOutMode(old, IF t = "redirect_cout" THEN "file" ELSE "append"), n + 2)
  <2> DEFINE m == IF t = "redirect_cout" THEN "file" ELSE "append"
  <2>1. /\ At(M, a, n + 2, Inputs) = ins
        /\ At(M, a, n + 2, Outputs) = outs \cup {n + 1}
        /\ ArgsAt(M, a, n + 2) = args
    BY <1>3, <1>9, Kinds
  <2>2. Path(outs \cup {n + 1}) = n + 2 /\ OutMode(M, outs \cup {n + 1}, "end") = m
    <3>1. Greatest(outs \cup {n + 1}) = n + 1 /\ outs \cup {n + 1} # {}
      BY <1>1, <1>2, GreatestOf
    <3> QED BY <1>1, <3>1 DEF Path, OutMode
  <2> HIDE DEF m
  <2>3. new = Record(a + 1, InOrder(args), InMode(ins, x), Path(ins), m, n + 2, "always")
    BY <1>5, <2>1, <2>2
  <2>4. SetOutMode(old, m) =
          Record(a + 1, InOrder(args), InMode(ins, x), Path(ins), m, Path(outs), "always")
    BY <1>5, FieldsSet
  <2>5. SetOut(SetOutMode(old, m), n + 2) =
          Record(a + 1, InOrder(args), InMode(ins, x), Path(ins), m, n + 2, "always")
    BY <2>4, FieldsSet
  <2>6. new = SetOut(SetOutMode(old, m), n + 2)
    BY <2>3, <2>5
  <2> QED BY <2>6 DEF m
<1> QED BY <1>6, <1>7, <1>8, <1>9 DEF n, M, old, new

\* What the connector after it adds to the meaning of a segment.
LEMMA ConnectorMeans ==
  ASSUME NEW L, NEW a, NEW b, NEW x
  PROVE  LET old == MeaningOf(L, a, b, x, "end") IN
         /\ MeaningOf(L, a, b, x, "pipe") = SetOutMode(old, "pipe")
         /\ MeaningOf(L, a, b, x, "logical_and") = SetNext(old, "on_success")
         /\ MeaningOf(L, a, b, x, "logical_or") = SetNext(old, "on_fail")
         /\ MeaningOf(L, a, b, x, "semicolon") = old
<1> DEFINE ins  == At(L, a, b, Inputs)
           outs == At(L, a, b, Outputs)
           mean(om, nm) == Record(a + 1, InOrder(ArgsAt(L, a, b)), InMode(ins, x),
                                  Path(ins), om, Path(outs), nm)
           old  == MeaningOf(L, a, b, x, "end")
<1>1. /\ old = mean(OutMode(L, outs, "end"), "always")
      /\ MeaningOf(L, a, b, x, "pipe") = mean("pipe", "always")
      /\ MeaningOf(L, a, b, x, "logical_and") = mean(OutMode(L, outs, "end"), "on_success")
      /\ MeaningOf(L, a, b, x, "logical_or") = mean(OutMode(L, outs, "end"), "on_fail")
      /\ MeaningOf(L, a, b, x, "semicolon") = mean(OutMode(L, outs, "end"), "always")
  BY MeaningIs DEF OutMode, NextMode
<1> HIDE DEF old
<1>2. SetOutMode(old, "pipe") = mean("pipe", "always")
  BY <1>1, FieldsSet
<1>3. /\ SetNext(old, "on_success") = mean(OutMode(L, outs, "end"), "on_success")
      /\ SetNext(old, "on_fail") = mean(OutMode(L, outs, "end"), "on_fail")
  BY <1>1, FieldsSet
<1> QED BY <1>1, <1>2, <1>3 DEF old

\* What the automaton tests of the command it builds.
LEMMA MeaningTests ==
  ASSUME NEW L, NEW a, NEW b, NEW x
  PROVE  LET old == MeaningOf(L, a, b, x, "end") IN
         /\ old.cmd = a + 1
         /\ x = "pipe" => old.cin_mode = "pipe"
         /\ x # "pipe" => old.cin_mode # "pipe"
         /\ old.cout_mode = "term" <=> At(L, a, b, Outputs) = {}
<1> DEFINE ins  == At(L, a, b, Inputs)
           outs == At(L, a, b, Outputs)
           old  == MeaningOf(L, a, b, x, "end")
<1>1. /\ old.cmd = a + 1 /\ old.cin_mode = InMode(ins, x)
      /\ old.cout_mode = OutMode(L, outs, "end")
  BY FieldsAre, MeaningIs DEF NextMode
<1> HIDE DEF old
<1> QED BY <1>1 DEF InMode, OutMode, old

-----------------------------------------------------------------------------
(* The command in progress                                                 *)

\* Nothing in the segment from a to the end of the line is wrong so far.
Sound(L, a, x) ==
  /\ a < Len(L) /\ L[a + 1] = "text"
  /\ \A i \in At(L, a, Len(L) + 1, Redirects) : i < Len(L) => L[i + 1] = "text"
  /\ x = "pipe" => At(L, a, Len(L) + 1, Inputs) = {}

\* The command c means that segment, but for a path to come.
InProgress(c, L, a, x, st) ==
  \/ st = "need_new_command" /\ a = Len(L) /\ c = Fresh(x)
  \/ /\ Sound(L, a, x)
     /\ \/ /\ st = "need_any_token" /\ L[Len(L)] \notin Redirects
           /\ c = MeaningOf(L, a, Len(L) + 1, x, "end")
        \/ /\ st = "need_in_path" /\ L[Len(L)] \in Redirects
           /\ SetIn(c, Len(L) + 1) = MeaningOf(L, a, Len(L) + 1, x, "end")
        \/ /\ st = "need_out_path" /\ L[Len(L)] \in Redirects
           /\ SetOut(c, Len(L) + 1) = MeaningOf(L, a, Len(L) + 1, x, "end")

\* The name of a command.
LEMMA Named ==
  ASSUME NEW L \in Seq(Tokens), NEW a, a = Len(L), NEW x
  PROVE  InProgress(SetCmd(Fresh(x), Len(L) + 1), Append(L, "text"), a, x, "need_any_token")
<1> DEFINE M == Append(L, "text")
           n == Len(L)
<1>1. /\ n \in Nat /\ Len(M) = n + 1 /\ (n + 1) + 1 = n + 2 /\ M[n + 1] = "text"
      /\ n < n + 1
  OBVIOUS
<1>2. /\ MeaningOf(M, n, n + 2, x, "end") = SetCmd(Fresh(x), n + 1)
      /\ \A R : "text" \notin R => At(M, n, n + 2, R) = {}
  BY NameMeans
<1> HIDE DEF M, n
<1>3. "text" \notin Redirects /\ "text" \notin Inputs
  BY Kinds
<1>4. At(M, n, n + 2, Redirects) = {} /\ At(M, n, n + 2, Inputs) = {}
  BY <1>2, <1>3
<1>5. Sound(M, n, x)
  BY <1>1, <1>4 DEF Sound
<1>6. InProgress(SetCmd(Fresh(x), n + 1), M, n, x, "need_any_token")
  BY <1>1, <1>2, <1>3, <1>5 DEF InProgress
<1> QED BY <1>6 DEF M, n

\* A token added to a sound segment keeps it so, if a path is a word and the input
\* is not a pipe.
LEMMA SoundGrows ==
  ASSUME NEW L \in Seq(Tokens), NEW t \in Tokens, NEW a \in Nat, NEW x, Sound(L, a, x),
         t \notin Connectors,
         L[Len(L)] \in Redirects => t = "text",
         t = "redirect_cin" => x # "pipe"
  PROVE  Sound(Append(L, t), a, x)
<1> DEFINE M == Append(L, t)
           n == Len(L)
<1>1. /\ n \in Nat /\ Len(M) = n + 1 /\ (n + 1) + 1 = n + 2 /\ M[n + 1] = t
      /\ \A i \in 1..n : M[i] = L[i]
  OBVIOUS
<1>2. a < n /\ L[a + 1] = "text"
  BY DEF Sound
<1>3. /\ \A i \in At(L, a, n + 1, Redirects) : i < n => L[i + 1] = "text"
      /\ x = "pipe" => At(L, a, n + 1, Inputs) = {}
  BY DEF Sound
<1>4. a \in 0..Len(L)
  BY <1>1, <1>2
<1>5. /\ At(M, a, n + 2, Redirects) =
           At(L, a, n + 1, Redirects) \cup (IF t \in Redirects THEN {n + 1} ELSE {})
      /\ At(M, a, n + 2, Inputs) =
           At(L, a, n + 1, Inputs) \cup (IF t \in Inputs THEN {n + 1} ELSE {})
      /\ At(L, a, n + 1, Redirects) \subseteq a + 1..n
  <2>1. \A R : /\ At(M, a, n + 2, R) =
                    At(L, a, n + 1, R) \cup (IF t \in R THEN {n + 1} ELSE {})
               /\ At(L, a, n + 1, R) \subseteq a + 1..n
    BY <1>4, SegmentGrows
  <2> HIDE DEF M, n
  <2> QED BY <2>1
<1>6. \A i \in At(L, a, n + 1, Redirects) : L[i] \in Redirects
  BY DEF At
<1> HIDE DEF M, n
<1>7. a < n + 1 /\ M[a + 1] = "text"
  BY <1>1, <1>2
<1>8. x = "pipe" => At(M, a, n + 2, Inputs) = {}
  <2>1. t \in Inputs => t = "redirect_cin"
    BY Kinds
  <2> QED BY <1>3, <1>5, <2>1
<1>9. \A i \in At(M, a, n + 2, Redirects) : i < n + 1 => M[i + 1] = "text"
  <2> SUFFICES ASSUME NEW i \in At(L, a, n + 1, Redirects) PROVE M[i + 1] = "text"
    BY <1>1, <1>5
  <2>1. i \in 1..n
    BY <1>1, <1>5
  <2>2. CASE i = n
    BY <1>1, <1>6, <2>2 DEF n
  <2>3. CASE i < n
    BY <1>1, <1>3, <2>1, <2>3
  <2> QED BY <1>1, <2>1, <2>2, <2>3
<1>10. Sound(M, a, x)
  BY <1>1, <1>7, <1>8, <1>9 DEF Sound
<1> QED BY <1>10 DEF M

\* An argument.
LEMMA ArgumentAdded ==
  ASSUME NEW L \in Seq(Tokens), NEW a \in Nat, NEW x, NEW c,
         InProgress(c, L, a, x, "need_any_token")
  PROVE  InProgress(SetArgs(c, Append(c.args, Len(L) + 1)), Append(L, "text"), a, x,
                    "need_any_token")
<1> DEFINE M == Append(L, "text")
           n == Len(L)
<1>1. /\ Sound(L, a, x) /\ L[n] \notin Redirects /\ c = MeaningOf(L, a, n + 1, x, "end")
  BY DEF InProgress
<1>2. /\ n \in Nat /\ Len(M) = n + 1 /\ (n + 1) + 1 = n + 2 /\ M[n + 1] = "text"
  OBVIOUS
<1>3. a \in 0..Len(L) /\ a < Len(L)
  BY <1>1, <1>2 DEF Sound
<1>4. Sound(M, a, x)
  BY <1>1, Kinds, SoundGrows
<1>5. MeaningOf(M, a, n + 2, x, "end") = SetArgs(c, Append(c.args, n + 1))
  BY <1>1, <1>3, Kinds, TokenMeans
<1> HIDE DEF M, n
<1>6. InProgress(SetArgs(c, Append(c.args, n + 1)), M, a, x, "need_any_token")
  BY <1>2, <1>4, <1>5, Kinds DEF InProgress
<1> QED BY <1>6 DEF M, n

\* A redirection of the input.
LEMMA InputRedirected ==
  ASSUME NEW L \in Seq(Tokens), NEW a \in Nat, NEW x, x # "pipe", NEW c,
         InProgress(c, L, a, x, "need_any_token")
  PROVE  InProgress(SetInMode(c, "file"), Append(L, "redirect_cin"), a, x, "need_in_path")
<1> DEFINE M == Append(L, "redirect_cin")
           n == Len(L)
<1>1. /\ Sound(L, a, x) /\ L[n] \notin Redirects /\ c = MeaningOf(L, a, n + 1, x, "end")
  BY DEF InProgress
<1>2. /\ n \in Nat /\ Len(M) = n + 1 /\ (n + 1) + 1 = n + 2 /\ M[n + 1] = "redirect_cin"
  OBVIOUS
<1>3. a \in 0..Len(L) /\ a < Len(L)
  BY <1>1, <1>2 DEF Sound
<1>0. /\ "redirect_cin" \in Tokens /\ "redirect_cin" \in Redirects
      /\ "redirect_cin" \notin Connectors
  BY DEF Tokens, Redirects, Inputs, Connectors
<1>4. Sound(M, a, x)
  BY <1>0, <1>1, SoundGrows
<1>5. MeaningOf(M, a, n + 2, x, "end") = SetIn(SetInMode(c, "file"), n + 2)
  BY <1>0, <1>1, <1>3, TokenMeans
<1> HIDE DEF M, n
<1>6. InProgress(SetInMode(c, "file"), M, a, x, "need_in_path")
  BY <1>0, <1>2, <1>4, <1>5 DEF InProgress
<1> QED BY <1>6 DEF M

\* A redirection of the output.
LEMMA OutputRedirected ==
  ASSUME NEW L \in Seq(Tokens), NEW t \in Outputs, NEW a \in Nat, NEW x, NEW c,
         InProgress(c, L, a, x, "need_any_token")
  PROVE  InProgress(SetOutMode(c, IF t = "redirect_cout" THEN "file" ELSE "append"),
                    Append(L, t), a, x, "need_out_path")
<1> DEFINE M == Append(L, t)
           n == Len(L)
           m == IF t = "redirect_cout" THEN "file" ELSE "append"
<1>0. t \in Tokens /\ t \in Redirects /\ t \notin Connectors /\ t # "redirect_cin"
  BY Kinds DEF Tokens, Redirects, Outputs, Connectors
<1>1. /\ Sound(L, a, x) /\ L[n] \notin Redirects /\ c = MeaningOf(L, a, n + 1, x, "end")
  BY DEF InProgress
<1>2. /\ n \in Nat /\ Len(M) = n + 1 /\ (n + 1) + 1 = n + 2 /\ M[n + 1] = t
  BY <1>0
<1>3. a \in 0..Len(L) /\ a < Len(L)
  BY <1>1, <1>2 DEF Sound
<1>4. Sound(M, a, x)
  BY <1>0, <1>1, SoundGrows
<1>5. MeaningOf(M, a, n + 2, x, "end") = SetOut(SetOutMode(c, m), n + 2)
  BY <1>0, <1>1, <1>3, TokenMeans
<1> HIDE DEF M, n, m
<1>6. InProgress(SetOutMode(c, m), M, a, x, "need_out_path")
  BY <1>0, <1>2, <1>4, <1>5 DEF InProgress
<1> QED BY <1>6 DEF M, m

\* The path that was waited for.
LEMMA PathTaken ==
  ASSUME NEW L \in Seq(Tokens), NEW a \in Nat, NEW x, NEW c, NEW d,
         \/ InProgress(c, L, a, x, "need_in_path") /\ d = SetIn(c, Len(L) + 1)
         \/ InProgress(c, L, a, x, "need_out_path") /\ d = SetOut(c, Len(L) + 1)
  PROVE  InProgress(d, Append(L, "text"), a, x, "need_any_token")
<1> DEFINE M == Append(L, "text")
           n == Len(L)
<1>1. /\ Sound(L, a, x) /\ L[n] \in Redirects /\ d = MeaningOf(L, a, n + 1, x, "end")
  BY DEF InProgress
<1>2. /\ n \in Nat /\ Len(M) = n + 1 /\ (n + 1) + 1 = n + 2 /\ M[n + 1] = "text"
  OBVIOUS
<1>3. a \in 0..Len(L) /\ a < Len(L)
  BY <1>1, <1>2 DEF Sound
<1>4. Sound(M, a, x)
  BY <1>1, Kinds, SoundGrows
<1>5. MeaningOf(M, a, n + 2, x, "end") = d
  BY <1>1, <1>3, Kinds, TokenMeans
<1> HIDE DEF M, n
<1>6. InProgress(d, M, a, x, "need_any_token")
  BY <1>2, <1>4, <1>5, Kinds DEF InProgress
<1> QED BY <1>6 DEF M

-----------------------------------------------------------------------------
(* Segments that are closed, and segments that are wrong                   *)

\* A segment in progress may end before any connector, but before a pipe only if its
\* output goes nowhere else.
LEMMA Closes ==
  ASSUME NEW L \in Seq(Tokens), NEW a \in Nat, NEW x, NEW c,
         InProgress(c, L, a, x, "need_any_token"), NEW y
  PROVE  /\ y # "pipe" => WellFormedOf(L, a, Len(L) + 1, x, y)
         /\ y = "pipe" => (WellFormedOf(L, a, Len(L) + 1, x, y) <=> c.cout_mode = "term")
<1> DEFINE n == Len(L)
<1>1. /\ Sound(L, a, x) /\ L[n] \notin Redirects /\ c = MeaningOf(L, a, n + 1, x, "end")
  BY DEF InProgress
<1>2. n \in Nat /\ (n + 1) - 1 = n
  OBVIOUS
<1>3. /\ a < n /\ L[a + 1] = "text"
      /\ \A i \in At(L, a, n + 1, Redirects) : i < n => L[i + 1] = "text"
      /\ x = "pipe" => At(L, a, n + 1, Inputs) = {}
  BY <1>1 DEF Sound
<1>4. \A i \in At(L, a, n + 1, Redirects) : i \in a + 1..n /\ L[i] \in Redirects
  BY <1>2 DEF At
<1> HIDE DEF n
<1>5. \A i \in At(L, a, n + 1, Redirects) : i + 1 <= n
  <2> SUFFICES ASSUME NEW i \in At(L, a, n + 1, Redirects) PROVE i + 1 <= n
    OBVIOUS
  <2>1. i \in a + 1..n /\ i # n
    BY <1>1, <1>4
  <2> QED BY <1>2, <2>1
<1>6. \A i \in At(L, a, n + 1, Redirects) : i + 1 <= n /\ L[i + 1] = "text"
  <2> SUFFICES ASSUME NEW i \in At(L, a, n + 1, Redirects) PROVE L[i + 1] = "text"
    BY <1>5
  <2>1. i \in a + 1..n /\ i + 1 <= n
    BY <1>4, <1>5
  <2> QED BY <1>2, <1>3, <2>1
<1>7. /\ a + 1..(n + 1) - 1 # {}
      /\ \A i \in At(L, a, n + 1, Redirects) : i + 1 \in a + 1..(n + 1) - 1
  <2>1. a + 1 \in a + 1..(n + 1) - 1
    BY <1>2, <1>3
  <2>2. \A i \in a + 1..n : i + 1 <= n => i + 1 \in a + 1..(n + 1) - 1
    BY <1>2
  <2> QED BY <1>4, <1>6, <2>1, <2>2
<1>8. WellFormedOf(L, a, n + 1, x, y) <=> (y = "pipe" => At(L, a, n + 1, Outputs) = {})
  BY <1>2, <1>3, <1>6, <1>7 DEF WellFormedOf
<1>9. c.cout_mode = "term" <=> At(L, a, n + 1, Outputs) = {}
  BY <1>1, MeaningTests
<1> QED BY <1>8, <1>9 DEF n

\* The commands of the line so far, the last one in progress.
Parsed(L, cs, st, es) ==
  /\ Shape(L) /\ Len(cs) = Count(L)
  /\ \A k \in 1..Count(L) - 1 : cs[k] = Meaning(L, k) /\ WellFormed(L, k)
  /\ InProgress(cs[Count(L)], L, Cut(L, Count(L)), Before(L, Count(L)), st)
  /\ es <=> st = "need_new_command" /\ Before(L, Count(L)) = "semicolon"

\* The cuts of a segment.
LEMMA CutsWithin ==
  ASSUME NEW L \in Seq(Tokens), Shape(L), NEW k \in 1..Count(L)
  PROVE  /\ Count(L) \in Nat /\ Count(L) >= 1
         /\ Cut(L, k) \in 0..Len(L) /\ Cut(L, k + 1) \in Nat /\ Cut(L, k) < Cut(L, k + 1)
         /\ k # Count(L) => Cut(L, k + 1) \in 1..Len(L)
<1> DEFINE C == Cuts(L)
           m == Count(L)
           n == Len(L)
<1>1. C \in Seq(Nat) /\ m \in Nat \ {0} /\ n \in Nat
  BY DEF Shape
<1>2. m = Len(C) - 1 /\ Cut(L, k) = C[k] /\ Cut(L, k + 1) = C[k + 1]
  BY DEF Count, Cut
<1>3. /\ Cut(L, k) < Cut(L, k + 1) /\ Cut(L, k) <= n
      /\ k # m => Cut(L, k + 1) <= n
  <2>1. k # m => k + 1 \in 1..m
    BY <1>1
  <2> QED BY <2>1 DEF Shape
<1> HIDE DEF C, m, n
<1>4. C[k] \in Nat /\ C[k + 1] \in Nat
  <2>1. Len(C) = m + 1 /\ k \in 1..m
    BY <1>1, <1>2 DEF m
  <2> QED BY <1>1, <2>1
<1>5. Cut(L, k) \in Nat /\ Cut(L, k + 1) \in Nat /\ m >= 1 /\ m \in Nat
  BY <1>1, <1>2, <1>4
<1> QED BY <1>1, <1>3, <1>5 DEF m, n

\* A closed segment stays what it is.
LEMMA ClosedKept ==
  ASSUME NEW L \in Seq(Tokens), NEW t \in Tokens, Shape(L), NEW k \in 1..Count(L) - 1
  PROVE  /\ Meaning(Append(L, t), k) = Meaning(L, k)
         /\ WellFormed(Append(L, t), k) <=> WellFormed(L, k)
<1> DEFINE M == Append(L, t)
           n == Len(L)
           m == Count(L)
<1>1. n \in Nat /\ \A i \in 1..n : M[i] = L[i]
  OBVIOUS
<1>2. m \in Nat /\ k \in 1..m /\ k + 1 \in 1..m /\ k # m
  BY DEF Shape
<1>3. /\ Cut(L, k) \in Nat /\ Cut(L, k + 1) \in 1..n
  BY <1>2, CutsWithin
<1>4. /\ Cut(M, k) = Cut(L, k) /\ Cut(M, k + 1) = Cut(L, k + 1)
      /\ Before(M, k) = Before(L, k)
      /\ Count(M) = m \/ Count(M) = m + 1
  BY <1>2, ShapeGrows
<1> HIDE DEF M, n, m
<1>5. After(M, k) = After(L, k)
  <2>1. k # Count(M)
    BY <1>2, <1>4
  <2> QED BY <1>1, <1>2, <1>3, <1>4, <2>1 DEF After, m
<1>6. \A i \in Cut(L, k) + 1..Cut(L, k + 1) - 1 : M[i] = L[i]
  BY <1>1, <1>3
<1>7. /\ MeaningOf(M, Cut(L, k), Cut(L, k + 1), Before(L, k), After(L, k)) = Meaning(L, k)
      /\ WellFormedOf(M, Cut(L, k), Cut(L, k + 1), Before(L, k), After(L, k))
           <=> WellFormed(L, k)
  <2>1. Cut(L, k + 1) \in Nat
    BY <1>3
  <2> QED BY <1>3, <1>6, <2>1, SameSegment DEF Meaning, WellFormed
<1>8. Meaning(M, k) = Meaning(L, k) /\ (WellFormed(M, k) <=> WellFormed(L, k))
  BY <1>4, <1>5, <1>7 DEF Meaning, WellFormed
<1> QED BY <1>8 DEF M

\* The last segment, of a line that has grown within it and of one that has not.
LEMMA LastSegment ==
  ASSUME NEW L \in Seq(Tokens), NEW t \in Tokens, Shape(L)
  PROVE  LET M == Append(L, t)
             m == Count(L)
             a == Cut(L, m)
             x == Before(L, m)
             n == Len(L)
         IN /\ Meaning(L, m) = MeaningOf(L, a, n + 1, x, "end")
            /\ WellFormed(L, m) <=> WellFormedOf(L, a, n + 1, x, "end")
            /\ t \in Connectors => /\ Meaning(M, m) = MeaningOf(L, a, n + 1, x, t)
                                   /\ WellFormed(M, m) <=> WellFormedOf(L, a, n + 1, x, t)
            /\ t \notin Connectors =>
                 (WellFormed(M, m) <=> WellFormedOf(M, a, n + 2, x, "end"))
<1> DEFINE M == Append(L, t)
           n == Len(L)
           m == Count(L)
           a == Cut(L, m)
           x == Before(L, m)
<1>1. n \in Nat /\ M[n + 1] = t /\ Len(M) = n + 1 /\ \A i \in 1..n : M[i] = L[i]
  OBVIOUS
<1>2. m \in Nat /\ m \in 1..m /\ m # m + 1 /\ m >= 1
  BY DEF Shape
<1>3. a \in 0..n
  BY <1>2, CutsWithin
<1>4. Cut(L, m + 1) = n + 1 /\ After(L, m) = "end"
  BY DEF Shape, After
<1>5. Cut(M, m) = a /\ Before(M, m) = x
  BY <1>2, ShapeGrows
<1>6. ASSUME t \in Connectors
      PROVE  Cut(M, m + 1) = n + 1 /\ After(M, m) = t
  <2>1. Count(M) = m + 1 /\ Cut(M, m + 1) = n + 1
    BY <1>6, ShapeGrows
  <2>2. After(M, m) = M[Cut(M, m + 1)]
    BY <1>2, <2>1 DEF After
  <2> QED BY <1>1, <2>1, <2>2
<1>7. ASSUME t \notin Connectors
      PROVE  Cut(M, m + 1) = n + 2 /\ After(M, m) = "end"
  <2>1. Count(M) = m /\ Shape(M)
    BY <1>7, ShapeGrows
  <2>2. After(M, m) = "end"
    BY <2>1 DEF After
  <2>3. Cut(M, m + 1) = Len(M) + 1
    BY <2>1 DEF Shape
  <2> QED BY <1>1, <2>2, <2>3
<1>8. /\ Meaning(L, m) = MeaningOf(L, a, n + 1, x, "end")
      /\ WellFormed(L, m) <=> WellFormedOf(L, a, n + 1, x, "end")
  BY <1>4 DEF Meaning, WellFormed
<1> HIDE DEF M, n, m, a, x
<1>9. ASSUME t \in Connectors
      PROVE  /\ Meaning(M, m) = MeaningOf(L, a, n + 1, x, t)
             /\ WellFormed(M, m) <=> WellFormedOf(L, a, n + 1, x, t)
  <2>1. /\ Meaning(M, m) = MeaningOf(M, a, n + 1, x, t)
        /\ WellFormed(M, m) <=> WellFormedOf(M, a, n + 1, x, t)
    BY <1>5, <1>6, <1>9 DEF Meaning, WellFormed
  <2> DEFINE b == n + 1
  <2>2. a \in Nat /\ b \in Nat /\ \A i \in a + 1..b - 1 : M[i] = L[i]
    BY <1>1, <1>3
  <2> HIDE DEF b
  <2>3. /\ MeaningOf(M, a, b, x, t) = MeaningOf(L, a, b, x, t)
        /\ WellFormedOf(M, a, b, x, t) <=> WellFormedOf(L, a, b, x, t)
    BY <2>2, SameSegment
  <2> QED BY <2>1, <2>3 DEF b
<1>10. t \notin Connectors => (WellFormed(M, m) <=> WellFormedOf(M, a, n + 2, x, "end"))
  BY <1>5, <1>7 DEF WellFormed
<1> QED BY <1>8, <1>9, <1>10 DEF M, n, m, a, x

\* A token within the last segment.
LEMMA ParsedWithin ==
  ASSUME NEW L \in Seq(Tokens), NEW t \in Tokens, t \notin Connectors,
         NEW V, NEW cs \in Seq(V), NEW st, NEW es, Parsed(L, cs, st, es), NEW ds \in Seq(V),
         Len(ds) = Len(cs), \A k \in 1..Len(cs) - 1 : ds[k] = cs[k],
         NEW s, s # "need_new_command",
         InProgress(ds[Len(cs)], Append(L, t), Cut(L, Count(L)), Before(L, Count(L)), s)
  PROVE  Parsed(Append(L, t), ds, s, FALSE)
<1> DEFINE M == Append(L, t)
           m == Count(L)
<1>1. /\ Shape(L) /\ Len(cs) = m
      /\ \A k \in 1..m - 1 : cs[k] = Meaning(L, k) /\ WellFormed(L, k)
  BY DEF Parsed
<1>2. m \in Nat /\ m \in 1..m
  BY <1>1 DEF Shape
<1>3. /\ Shape(M) /\ Count(M) = m
      /\ Cut(M, m) = Cut(L, m) /\ Before(M, m) = Before(L, m)
  BY <1>1, <1>2, ShapeGrows
<1>4. \A k \in 1..m - 1 : ds[k] = Meaning(M, k) /\ WellFormed(M, k)
  BY <1>1, ClosedKept
<1> HIDE DEF M, m
<1>5. InProgress(ds[m], M, Cut(M, m), Before(M, m), s)
  BY <1>1, <1>3 DEF M, m
<1>6. Parsed(M, ds, s, FALSE)
  BY <1>1, <1>3, <1>4, <1>5 DEF Parsed
<1> QED BY <1>6 DEF M

\* A connector closes the last segment and opens another.
LEMMA ParsedNext ==
  ASSUME NEW L \in Seq(Tokens), NEW t \in Connectors,
         NEW V, NEW cs \in Seq(V), NEW st, NEW es, Parsed(L, cs, st, es), NEW ds \in Seq(V),
         Len(ds) = Len(cs) + 1, \A k \in 1..Len(cs) - 1 : ds[k] = cs[k],
         ds[Len(cs)] = MeaningOf(L, Cut(L, Count(L)), Len(L) + 1, Before(L, Count(L)), t),
         WellFormedOf(L, Cut(L, Count(L)), Len(L) + 1, Before(L, Count(L)), t),
         ds[Len(cs) + 1] = Fresh(t)
  PROVE  Parsed(Append(L, t), ds, "need_new_command", t = "semicolon")
<1> DEFINE M == Append(L, t)
           m == Count(L)
           n == Len(L)
<1>0. t \in Tokens
  BY DEF Tokens
<1>1. /\ Shape(L) /\ Len(cs) = m
      /\ \A k \in 1..m - 1 : cs[k] = Meaning(L, k) /\ WellFormed(L, k)
  BY DEF Parsed
<1>2. m \in Nat /\ m \in 1..m /\ (m + 1) - 1 = m /\ n \in Nat /\ Len(M) = n + 1
      /\ \A k \in 1..m : k = m \/ k \in 1..m - 1
  BY <1>1 DEF Shape
<1>3. /\ Shape(M) /\ Count(M) = m + 1 /\ Cut(M, m + 1) = n + 1 /\ Before(M, m + 1) = t
  BY <1>0, <1>1, <1>2, ShapeGrows
<1>4. \A k \in 1..m - 1 : ds[k] = Meaning(M, k) /\ WellFormed(M, k)
  BY <1>0, <1>1, ClosedKept
<1>5. ds[m] = Meaning(M, m) /\ WellFormed(M, m)
  BY <1>0, <1>1, LastSegment
<1> HIDE DEF M, m, n
<1>6. InProgress(ds[m + 1], M, n + 1, t, "need_new_command")
  BY <1>1, <1>2 DEF InProgress, m
<1>7. \A k \in 1..m : ds[k] = Meaning(M, k) /\ WellFormed(M, k)
  BY <1>2, <1>4, <1>5
<1>8. Parsed(M, ds, "need_new_command", t = "semicolon")
  BY <1>1, <1>2, <1>3, <1>6, <1>7 DEF Parsed
<1> QED BY <1>8 DEF M

\* The line has a segment that is not well-formed.
Wrong(L) == \E k \in 1..Meant(L) : ~WellFormed(L, k)

\* ParsesGrammar, of any mode, line and commands.
Grammar(md, L, cs) ==
  /\ md = "running" =>
       /\ \A k \in 1..Meant(L) : WellFormed(L, k)
       /\ cs = [k \in 1..Meant(L) |-> Meaning(L, k)]
  /\ md = "error" => Wrong(L)

\* A last segment that is not empty is meant.
LEMMA MeantIs ==
  ASSUME NEW L \in Seq(Tokens), Shape(L)
  PROVE  /\ Cut(L, Count(L)) < Len(L) => Meant(L) = Count(L)
         /\ Before(L, Count(L)) # "semicolon" => Meant(L) = Count(L)
         /\ Cut(L, Count(L)) = Len(L) /\ Before(L, Count(L)) = "semicolon" =>
              Meant(L) = Count(L) - 1
<1> DEFINE n == Len(L)
           m == Count(L)
           a == Cut(L, m)
<1>1. n \in Nat /\ m \in Nat /\ m \in 1..m /\ Cut(L, m + 1) = n + 1
  BY DEF Shape
<1>2. a \in 0..n
  BY <1>1, CutsWithin
<1> HIDE DEF n, a
<1>3. a < n => a + 1 \in a + 1..(n + 1) - 1
  BY <1>1, <1>2
<1>4. a = n => a + 1..(n + 1) - 1 = {}
  BY <1>1, <1>2
<1> QED BY <1>1, <1>3, <1>4 DEF Meant, n, a

\* The last segment is wrong already.
LEMMA WrongFound ==
  ASSUME NEW L \in Seq(Tokens), NEW t \in Tokens, Shape(L),
         t \in Connectors => ~WellFormedOf(L, Cut(L, Count(L)), Len(L) + 1,
                                           Before(L, Count(L)), t),
         t \notin Connectors => ~WellFormedOf(Append(L, t), Cut(L, Count(L)), Len(L) + 2,
                                              Before(L, Count(L)), "end")
  PROVE  Wrong(Append(L, t))
<1> DEFINE M == Append(L, t)
           m == Count(L)
           n == Len(L)
<1>1. m \in Nat /\ m >= 1 /\ n \in Nat /\ M \in Seq(Tokens) /\ Len(M) = n + 1
  BY DEF Shape
<1>2. ~WellFormed(M, m)
  BY LastSegment
<1>3. /\ Shape(M) /\ Cut(M, m) = Cut(L, m)
      /\ t \in Connectors => Count(M) = m + 1
      /\ t \notin Connectors => Count(M) = m
  <2>1. m \in 1..m
    BY <1>1
  <2> QED BY <2>1, ShapeGrows
<1>4. Cut(L, m) \in 0..n
  <2>1. m \in 1..m
    BY <1>1
  <2> QED BY <2>1, CutsWithin
<1> HIDE DEF M, m, n
<1>5. CASE t \in Connectors
  <2>1. Meant(M) \in {m, m + 1}
    <3>1. Count(M) = m + 1 /\ (m + 1) - 1 = m
      BY <1>1, <1>3, <1>5
    <3> QED BY <3>1 DEF Meant
  <2>2. m \in 1..Meant(M)
    BY <1>1, <2>1
  <2> QED BY <1>2, <2>2 DEF Wrong, M
<1>6. CASE t \notin Connectors
  <2>1. Cut(M, m) < Len(M)
    BY <1>1, <1>3, <1>4
  <2>2. Meant(M) = m
    BY <1>1, <1>3, <1>6, <2>1, MeantIs
  <2>3. m \in 1..Meant(M)
    BY <1>1, <2>2
  <2> QED BY <1>2, <2>3 DEF Wrong, M
<1> QED BY <1>5, <1>6

\* A segment that has no name yet, or waits for a path, is not well-formed.
LEMMA WordMissing ==
  ASSUME NEW L \in Seq(Tokens), NEW t \in Tokens, t # "text", NEW a \in 0..Len(L),
         NEW x, NEW y,
         \/ a = Len(L)
         \/ a < Len(L) /\ L[Len(L)] \in Redirects
  PROVE  /\ ~WellFormedOf(L, a, Len(L) + 1, x, y)
         /\ ~WellFormedOf(Append(L, t), a, Len(L) + 2, x, y)
<1> DEFINE M == Append(L, t)
           n == Len(L)
<1>1. /\ n \in Nat /\ a \in Nat /\ a <= n /\ M[n + 1] = t /\ \A i \in 1..n : M[i] = L[i]
      /\ (n + 1) - 1 = n
  OBVIOUS
<1> HIDE DEF M, n
<1>2. CASE a = n
  <2>1. a + 1..(n + 1) - 1 = {}
    BY <1>1, <1>2
  <2>2. M[a + 1] # "text"
    BY <1>1, <1>2
  <2> QED BY <2>1, <2>2 DEF WellFormedOf, M, n
<1>3. CASE a < n /\ L[n] \in Redirects
  <2>1. n \in At(L, a, n + 1, Redirects) /\ n + 1 \notin a + 1..(n + 1) - 1
    BY <1>1, <1>3 DEF At
  <2>2. n \in At(M, a, n + 2, Redirects)
    <3>1. n \in a + 1..(n + 2) - 1 /\ n \in 1..n
      BY <1>1, <1>3
    <3> QED BY <1>1, <1>3, <3>1 DEF At
  <2>3. M[n + 1] # "text"
    BY <1>1
  <2> QED BY <2>1, <2>2, <2>3 DEF WellFormedOf, M, n
<1> QED BY <1>2, <1>3 DEF n

\* The tokens at which the automaton throws.
LEMMA Rejected ==
  ASSUME NEW L \in Seq(Tokens), NEW t \in Tokens,
         NEW cs, NEW st, NEW es, Parsed(L, cs, st, es),
         \/ st \in {"need_new_command", "need_in_path", "need_out_path"} /\ t # "text"
         \/ st = "need_any_token" /\ t = "redirect_cin" /\ cs[Len(cs)].cin_mode = "pipe"
         \/ st = "need_any_token" /\ t = "pipe" /\ cs[Len(cs)].cout_mode # "term"
  PROVE  Wrong(Append(L, t))
<1> DEFINE M == Append(L, t)
           m == Count(L)
           n == Len(L)
           a == Cut(L, m)
           x == Before(L, m)
           c == cs[m]
<1>1. Shape(L) /\ Len(cs) = m /\ InProgress(c, L, a, x, st)
  BY DEF Parsed
<1>2. a \in 0..n /\ a \in Nat /\ n \in Nat
  <2>1. m \in 1..m
    BY <1>1 DEF Shape
  <2>2. a \in 0..n /\ n \in Nat
    BY <1>1, <2>1, CutsWithin
  <2> QED BY <2>2
<1> HIDE DEF M, m, n, a, x, c
<1>3. CASE st \in {"need_new_command", "need_in_path", "need_out_path"} /\ t # "text"
  <2>1. \/ a = n
        \/ a < n /\ L[n] \in Redirects
    BY <1>1, <1>3 DEF InProgress, Sound, n
  <2>2. /\ ~WellFormedOf(L, a, n + 1, x, t)
        /\ ~WellFormedOf(M, a, n + 2, x, "end")
    BY <1>2, <1>3, <2>1, WordMissing DEF M, n
  <2> QED BY <1>1, <2>2, WrongFound DEF M, m, n, a, x
<1>4. CASE st = "need_any_token" /\ t = "redirect_cin" /\ c.cin_mode = "pipe"
  <2>1. c = MeaningOf(L, a, n + 1, x, "end")
    BY <1>1, <1>4 DEF InProgress, n
  <2>2. x = "pipe"
    BY <1>4, <2>1, MeaningTests
  <2>3. t \notin Connectors /\ t \in Inputs
    BY <1>4, Kinds
  <2>4. At(M, a, n + 2, Inputs) = At(L, a, n + 1, Inputs) \cup {n + 1}
    BY <1>2, <2>3, SegmentGrows DEF M, n
  <2>5. ~WellFormedOf(M, a, n + 2, x, "end")
    BY <2>2, <2>4 DEF WellFormedOf
  <2> QED BY <1>1, <2>3, <2>5, WrongFound DEF M, m, n, a, x
<1>5. CASE st = "need_any_token" /\ t = "pipe" /\ c.cout_mode # "term"
  <2>1. t \in Connectors
    BY <1>5, Kinds
  <2>2. ~WellFormedOf(L, a, n + 1, x, t)
    BY <1>1, <1>2, <1>5, Closes DEF n
  <2> QED BY <1>1, <2>1, <2>2, WrongFound DEF M, m, n, a, x
<1> QED BY <1>1, <1>3, <1>4, <1>5 DEF c

-----------------------------------------------------------------------------
(* The end of the line                                                     *)

\* At the end of the line a name or a path is missing.
LEMMA EndsRejected ==
  ASSUME NEW L \in Seq(Tokens), NEW cs, NEW st, NEW es, Parsed(L, cs, st, es),
         \/ st = "need_new_command" /\ ~es
         \/ st \in {"need_in_path", "need_out_path"}
  PROVE  Wrong(L)
<1> DEFINE m == Count(L)
           n == Len(L)
           a == Cut(L, m)
           x == Before(L, m)
<1>1. Shape(L) /\ InProgress(cs[m], L, a, x, st)
  BY DEF Parsed
<1>2. a \in 0..n /\ a \in Nat /\ n \in Nat /\ m \in 1..m
  <2>1. m \in 1..m
    BY <1>1 DEF Shape
  <2>2. a \in 0..n /\ n \in Nat
    BY <1>1, <2>1, CutsWithin
  <2> QED BY <2>1, <2>2
<1>3. "redirect_cin" \in Tokens /\ "redirect_cin" # "text"
  BY Kinds DEF Tokens, Redirects
<1>4. \/ a = n /\ x # "semicolon"
      \/ a < n /\ L[n] \in Redirects
  <2>1. CASE st = "need_new_command" /\ ~es
    <3>1. x # "semicolon"
      BY <2>1, Zenon DEF Parsed
    <3>2. a = n
      BY <1>1, <2>1 DEF InProgress, Sound
    <3> QED BY <3>1, <3>2
  <2>2. CASE st \in {"need_in_path", "need_out_path"}
    BY <1>1, <2>2 DEF InProgress, Sound
  <2> QED BY <2>1, <2>2
<1>5. ~WellFormedOf(L, a, n + 1, x, "end")
  BY <1>2, <1>3, <1>4, WordMissing
<1>6. ~WellFormed(L, m)
  BY <1>1, <1>3, <1>5, LastSegment
<1>7. Meant(L) = m
  BY <1>1, <1>4, MeantIs
<1> QED BY <1>2, <1>6, <1>7 DEF Wrong

\* The last command is complete.
LEMMA EndsAccepted ==
  ASSUME NEW L \in Seq(Tokens), NEW V, NEW cs \in Seq(V), NEW es,
         Parsed(L, cs, "need_any_token", es)
  PROVE  Grammar("running", L, cs) /\ cs[Len(cs)].cmd # 0
<1> DEFINE m == Count(L)
           n == Len(L)
           a == Cut(L, m)
           x == Before(L, m)
<1>1. /\ Shape(L) /\ InProgress(cs[m], L, a, x, "need_any_token") /\ Len(cs) = m
      /\ \A k \in 1..m - 1 : cs[k] = Meaning(L, k) /\ WellFormed(L, k)
  BY DEF Parsed
<1>2. /\ a \in Nat /\ n \in Nat /\ m \in Nat /\ \A k \in 1..m : k = m \/ k \in 1..m - 1
  <2>1. m \in 1..m /\ m \in Nat
    BY <1>1 DEF Shape
  <2>2. a \in 0..n /\ n \in Nat
    BY <1>1, <2>1, CutsWithin
  <2> QED BY <2>1, <2>2
<1>3. a < n /\ cs[m] = MeaningOf(L, a, n + 1, x, "end")
  BY <1>1 DEF InProgress, Sound
<1>4. WellFormedOf(L, a, n + 1, x, "end")
  BY <1>1, <1>2, Closes
<1>5. Meaning(L, m) = MeaningOf(L, a, n + 1, x, "end") /\ WellFormed(L, m)
  BY <1>1, <1>4, Kinds, LastSegment
<1>6. Meant(L) = m
  BY <1>1, <1>3, MeantIs
<1>7. cs[m].cmd = a + 1 /\ a + 1 # 0
  BY <1>2, <1>3, MeaningTests
<1> HIDE DEF m, n, a, x
<1>8. \A k \in 1..m : cs[k] = Meaning(L, k) /\ WellFormed(L, k)
  BY <1>1, <1>2, <1>3, <1>5
<1>9. cs = [k \in 1..m |-> Meaning(L, k)]
  BY <1>1, <1>2, <1>8
<1> QED BY <1>1, <1>6, <1>7, <1>8, <1>9 DEF Grammar

\* The last command was never begun.
LEMMA EndsAfterSemicolon ==
  ASSUME NEW L \in Seq(Tokens), NEW V, NEW cs \in Seq(V), NEW es,
         Parsed(L, cs, "need_new_command", es), es
  PROVE  /\ Grammar("running", L, SubSeq(cs, 1, Len(cs) - 1)) /\ cs[Len(cs)].cmd = 0
<1> DEFINE m == Count(L)
           n == Len(L)
           a == Cut(L, m)
           x == Before(L, m)
           ds == SubSeq(cs, 1, Len(cs) - 1)
<1>1. /\ Shape(L) /\ InProgress(cs[m], L, a, x, "need_new_command") /\ Len(cs) = m
      /\ \A k \in 1..m - 1 : cs[k] = Meaning(L, k) /\ WellFormed(L, k)
  BY DEF Parsed
<1>2. x = "semicolon"
  BY Zenon DEF Parsed
<1>3. a = n /\ cs[m] = Fresh(x)
  BY <1>1 DEF InProgress, Sound
<1>4. Meant(L) = m - 1
  BY <1>1, <1>2, <1>3, MeantIs
<1>5. cs[m].cmd = 0
  BY <1>3, FieldsAre DEF Fresh
<1>6. m \in Nat /\ m >= 1
  BY <1>1 DEF Shape
<1> HIDE DEF m, n, a, x
<1>7. ds = [k \in 1..m - 1 |-> Meaning(L, k)]
  <2>1. ds = [k \in 1..m - 1 |-> cs[k]]
    BY <1>1, <1>6
  <2> QED BY <1>1, <2>1
<1>8. Grammar("running", L, ds)
  BY <1>1, <1>4, <1>7 DEF Grammar
<1> QED BY <1>1, <1>5, <1>8

-----------------------------------------------------------------------------
(* The automaton                                                           *)

\* The inductive invariant: while a line is parsed, its closed segments are
\* well-formed and mean their commands, and the last one is in progress.
GInv ==
  /\ Grammar(mode, line, commands)
  /\ mode = "parsing" => Parsed(line, commands, state, ending_semicolon)

\* Nothing is parsed yet.
LEMMA ParsedEmpty == Parsed(<<>>, <<NewCommand>>, "need_new_command", FALSE)
<1> DEFINE L == <<>>
           cs == <<NewCommand>>
<1>1. Shape(L) /\ Count(L) = 1 /\ L \in Seq(Tokens) /\ Len(L) = 0
  BY ShapeOfEmpty
<1>2. Cut(L, 1) = 0
  BY <1>1 DEF Shape
<1>3. Before(L, 1) = "end"
  BY DEF Before
<1>4. Len(cs) = 1 /\ cs[1] = Fresh("end")
  BY FreshIs
<1> HIDE DEF L, cs
<1>5. InProgress(cs[1], L, 0, "end", "need_new_command")
  BY <1>1, <1>4 DEF InProgress
<1>6. \A k \in 1..Count(L) - 1 : cs[k] = Meaning(L, k) /\ WellFormed(L, k)
  BY <1>1
<1>7. Parsed(L, cs, "need_new_command", FALSE)
  BY <1>1, <1>2, <1>3, <1>4, <1>5, <1>6 DEF Parsed
<1> QED BY <1>7 DEF L, cs

\* Before the first line.
LEMMA GInitially == Init => GInv
<1>1. Init => mode = "prompt"
  BY DEF Init
<1> QED BY <1>1 DEF GInv, Grammar

\* The last command is set to one that the line with t added has in progress.
LEMMA TokenWithin ==
  ASSUME IInv, NEW t \in Tokens, t \notin Connectors, line' = Append(line, t),
         Parsed(line, commands, state, ending_semicolon),
         NEW c \in CommandType, commands' = SetBack(c), mode' = "parsing",
         state' # "need_new_command", ending_semicolon' = FALSE,
         InProgress(c, Append(line, t), Cut(line, Count(line)),
                    Before(line, Count(line)), state')
  PROVE  GInv'
<1>1. commands \in Seq(CommandType) /\ line \in Seq(Tokens)
  BY DEF IInv, TypeOK
<1>2. commands # <<>>
  <2>1. Len(commands) # 0
    BY DEF Parsed, Shape
  <2> QED BY <2>1
<1> DEFINE ds == SetBack(c)
           n == Len(commands)
<1>3. ds \in Seq(CommandType) /\ Len(ds) = n /\ ds[n] = c
      /\ \A k \in 1..n - 1 : ds[k] = commands[k]
  BY <1>1, <1>2, SetBackIs
<1> DEFINE s == state'
           M == Append(line, t)
<1> HIDE DEF ds, s
<1>4. /\ s # "need_new_command"
      /\ InProgress(ds[n], M, Cut(line, Count(line)), Before(line, Count(line)), s)
  BY <1>3 DEF s
<1>5. Parsed(M, ds, s, FALSE)
  BY <1>1, <1>3, <1>4, ParsedWithin
<1>6. Parsed(line', commands', state', ending_semicolon')
  BY <1>5 DEF s, ds
<1>7. Grammar(mode', line', commands')
  BY DEF Grammar
<1> QED BY <1>6, <1>7 DEF GInv

\* The last command is closed by the connector t, and another follows.
LEMMA CommandOpened ==
  ASSUME NEW L \in Seq(Tokens), NEW t \in Connectors,
         NEW V, NEW cs \in Seq(V), NEW st, NEW es, Parsed(L, cs, st, es),
         NEW bs \in Seq(V), Len(bs) = Len(cs), \A k \in 1..Len(cs) - 1 : bs[k] = cs[k],
         bs[Len(cs)] = MeaningOf(L, Cut(L, Count(L)), Len(L) + 1, Before(L, Count(L)), t),
         WellFormedOf(L, Cut(L, Count(L)), Len(L) + 1, Before(L, Count(L)), t),
         Fresh(t) \in V
  PROVE  Parsed(Append(L, t), Append(bs, Fresh(t)), "need_new_command", t = "semicolon")
<1> DEFINE d == Fresh(t)
           ds == Append(bs, d)
           n == Len(cs)
<1>1. d \in V /\ n = Len(bs)
  OBVIOUS
<1>2. n \in Nat /\ n >= 1
  <2>1. n = Count(L) /\ Count(L) \in Nat \ {0}
    BY DEF Parsed, Shape
  <2> QED BY <2>1
<1> HIDE DEF d, n
<1>3. /\ ds \in Seq(V) /\ Len(ds) = n + 1 /\ ds[n + 1] = d
      /\ \A k \in 1..n : ds[k] = bs[k]
  <2>1. /\ ds \in Seq(V) /\ Len(ds) = Len(bs) + 1 /\ ds[Len(bs) + 1] = d
        /\ \A k \in 1..Len(bs) : ds[k] = bs[k]
    <3>1. Longer(ds, bs, d, V)
      BY <1>1, Appended
    <3> QED BY <3>1 DEF Longer
  <2> HIDE DEF ds
  <2> QED BY <1>1, <2>1
<1> HIDE DEF ds
<1>4. \A k \in 1..n - 1 : ds[k] = bs[k]
  BY <1>2, <1>3
<1>5. ds[n] = bs[n]
  BY <1>2, <1>3
<1>6. /\ ds \in Seq(V) /\ Len(ds) = Len(cs) + 1 /\ ds[Len(cs) + 1] = Fresh(t)
      /\ \A k \in 1..Len(cs) - 1 : ds[k] = cs[k]
      /\ ds[Len(cs)] = MeaningOf(L, Cut(L, Count(L)), Len(L) + 1, Before(L, Count(L)), t)
  BY <1>3, <1>4, <1>5 DEF d, n
<1>7. Parsed(Append(L, t), ds, "need_new_command", t = "semicolon")
  BY <1>6, ParsedNext
<1> QED BY <1>7 DEF d, ds

\* The same of the automaton.
LEMMA TokenNext ==
  ASSUME IInv, NEW t \in Connectors, line' = Append(line, t),
         Parsed(line, commands, state, ending_semicolon),
         NEW c \in CommandType, commands' = Append(SetBack(c), Fresh(t)),
         Fresh(t) \in CommandType, mode' = "parsing",
         state' = "need_new_command", ending_semicolon' = (t = "semicolon"),
         c = MeaningOf(line, Cut(line, Count(line)), Len(line) + 1,
                       Before(line, Count(line)), t),
         WellFormedOf(line, Cut(line, Count(line)), Len(line) + 1,
                      Before(line, Count(line)), t)
  PROVE  GInv'
<1>1. commands \in Seq(CommandType) /\ line \in Seq(Tokens)
  BY DEF IInv, TypeOK
<1>2. commands # <<>>
  <2>1. Len(commands) # 0
    BY DEF Parsed, Shape
  <2> QED BY <2>1
<1> DEFINE bs == SetBack(c)
<1>3. /\ bs \in Seq(CommandType) /\ Len(bs) = Len(commands) /\ bs[Len(commands)] = c
      /\ \A k \in 1..Len(commands) - 1 : bs[k] = commands[k]
  BY <1>1, <1>2, SetBackIs
<1> HIDE DEF bs
<1>4. Parsed(Append(line, t), Append(bs, Fresh(t)), "need_new_command", t = "semicolon")
  BY <1>1, <1>3, CommandOpened
<1>5. Parsed(line', commands', state', ending_semicolon')
  BY <1>4 DEF bs
<1>6. Grammar(mode', line', commands')
  BY DEF Grammar
<1> QED BY <1>5, <1>6 DEF GInv

\* The line is rejected at t.
LEMMA TokenThrown ==
  ASSUME NEW t \in Tokens, line' = Append(line, t), Throw, Wrong(Append(line, t))
  PROVE  GInv'
<1>1. mode' = "error" /\ mode' # "parsing" /\ mode' # "running"
  BY DEF Throw
<1> QED BY <1>1 DEF GInv, Grammar

\* What the automaton knows of the command in progress.
LEMMA Progress ==
  ASSUME IInv, mode = "parsing", GInv
  PROVE  /\ Parsed(line, commands, state, ending_semicolon)
         /\ commands \in Seq(CommandType) /\ commands # <<>>
         /\ line \in Seq(Tokens) /\ Len(line) \in Nat /\ Word = Len(line) + 1
         /\ Cut(line, Count(line)) \in Nat
         /\ Back = commands[Len(commands)] /\ Back \in CommandType
         /\ InProgress(Back, line, Cut(line, Count(line)), Before(line, Count(line)), state)
         /\ state # "need_new_command" => ending_semicolon = FALSE
<1>1. /\ Parsed(line, commands, state, ending_semicolon)
      /\ commands \in Seq(CommandType) /\ line \in Seq(Tokens)
  BY DEF GInv, IInv, TypeOK
<1>2. commands # <<>> /\ Back \in CommandType
  BY SetBackIs, <1>1 DEF IInv, Building
<1>3. /\ Shape(line) /\ Len(commands) = Count(line)
      /\ InProgress(commands[Count(line)], line, Cut(line, Count(line)),
                    Before(line, Count(line)), state)
  BY <1>1 DEF Parsed
<1>4. Cut(line, Count(line)) \in Nat
  <2>1. Count(line) \in 1..Count(line)
    BY <1>3 DEF Shape
  <2>2. Cut(line, Count(line)) \in 0..Len(line)
    BY <1>1, <1>3, <2>1, CutsWithin
  <2> QED BY <2>2
<1>5. ending_semicolon \in BOOLEAN
  BY DEF IInv, TypeOK
<1>6. state # "need_new_command" => ending_semicolon = FALSE
  BY <1>1, <1>5, Zenon DEF Parsed
<1> QED BY <1>1, <1>2, <1>3, <1>4, <1>6 DEF Back, Word

\* The tokens that stay within a command.
LEMMA WithinParses ==
  ASSUME IInv, GInv, mode = "parsing", Len(line) < MaxTokens, NEW t \in Tokens,
         line' = Append(line, t), state = "need_any_token",
         Argument(t) \/ RedirectIn(t) \/ RedirectOut(t)
  PROVE  GInv'
<1> DEFINE a == Cut(line, Count(line))
           x == Before(line, Count(line))
<1>1. /\ Parsed(line, commands, state, ending_semicolon)
      /\ line \in Seq(Tokens) /\ Len(line) \in Nat /\ Word = Len(line) + 1 /\ a \in Nat
      /\ Back = commands[Len(commands)] /\ Back \in CommandType
      /\ InProgress(Back, line, a, x, "need_any_token") /\ ending_semicolon = FALSE
  BY Progress
<1> HIDE DEF a, x
<1>2. CASE Argument(t)
  <2> DEFINE c == SetArgs(Back, Append(Back.args, Word))
  <2>1. c = [Back EXCEPT !.args = Append(@, Word)]
    BY DEF SetArgs
  <2>2. c \in CommandType
    BY <1>1, <2>1, Updates
  <2>3. /\ commands' = SetBack(c) /\ state' = "need_any_token" /\ mode' = "parsing"
        /\ t = "text"
    BY <1>2, <2>1 DEF Argument, Continue
  <2>4. ending_semicolon' = FALSE
    BY <1>1, <1>2 DEF Argument, Continue
  <2>5. InProgress(c, Append(line, t), a, x, "need_any_token")
    BY <1>1, <2>3, ArgumentAdded
  <2> HIDE DEF c
  <2> QED BY <1>1, <2>2, <2>3, <2>4, <2>5, Kinds, TokenWithin DEF a, x
<1>3. CASE RedirectIn(t) /\ Back.cin_mode = "pipe"
  <2>1. Throw /\ t = "redirect_cin"
    BY <1>3 DEF RedirectIn
  <2>2. Wrong(Append(line, t))
    BY <1>1, <1>3, <2>1, Rejected
  <2> QED BY <2>1, <2>2, TokenThrown
<1>4. CASE RedirectIn(t) /\ Back.cin_mode # "pipe"
  <2> DEFINE c == SetInMode(Back, "file")
  <2>1. c = [Back EXCEPT !.cin_mode = "file"]
    BY DEF SetInMode
  <2>2. c \in CommandType
    BY <1>1, <2>1, Updates
  <2>3. /\ commands' = SetBack(c) /\ state' = "need_in_path" /\ mode' = "parsing"
        /\ t = "redirect_cin"
    BY <1>4, <2>1 DEF RedirectIn, Continue
  <2>4. ending_semicolon' = FALSE
    BY <1>1, <1>4 DEF RedirectIn, Continue
  <2>5. x # "pipe"
    <3>1. Back = MeaningOf(line, a, Len(line) + 1, x, "end")
      BY <1>1 DEF InProgress
    <3> QED BY <1>4, <3>1, MeaningTests
  <2>6. InProgress(c, Append(line, t), a, x, "need_in_path")
    BY <1>1, <2>3, <2>5, InputRedirected
  <2>7. t \notin Connectors
    BY <2>3, Kinds
  <2> HIDE DEF c
  <2> QED BY <1>1, <2>2, <2>3, <2>4, <2>6, <2>7, TokenWithin DEF a, x
<1>5. CASE RedirectOut(t)
  <2> DEFINE m == IF t = "redirect_cout" THEN "file" ELSE "append"
             c == SetOutMode(Back, m)
  <2>1. c = [Back EXCEPT !.cout_mode = m]
    BY DEF SetOutMode
  <2>2. c \in CommandType
    BY <1>1, <2>1, Updates
  <2>3. /\ commands' = SetBack(c) /\ state' = "need_out_path" /\ mode' = "parsing"
        /\ t \in Outputs
    BY <1>5, <2>1 DEF RedirectOut, Continue
  <2>4. ending_semicolon' = FALSE
    BY <1>1, <1>5 DEF RedirectOut, Continue
  <2>5. InProgress(c, Append(line, t), a, x, "need_out_path")
    BY <1>1, <2>3, OutputRedirected
  <2>6. t \notin Connectors
    BY <2>3, Kinds
  <2> HIDE DEF c, m
  <2> QED BY <1>1, <2>2, <2>3, <2>4, <2>5, <2>6, TokenWithin DEF a, x
<1> QED BY <1>2, <1>3, <1>4, <1>5

\* The tokens that end a command.
LEMMA NextParses ==
  ASSUME IInv, GInv, mode = "parsing", Len(line) < MaxTokens, NEW t \in Tokens,
         line' = Append(line, t), state = "need_any_token",
         Pipe(t) \/ AndOr(t) \/ Semicolon(t)
  PROVE  GInv'
<1> DEFINE a == Cut(line, Count(line))
           x == Before(line, Count(line))
           old == MeaningOf(line, a, Len(line) + 1, x, "end")
           new == MeaningOf(line, a, Len(line) + 1, x, t)
<1>1. /\ Parsed(line, commands, state, ending_semicolon)
      /\ line \in Seq(Tokens) /\ Len(line) \in Nat /\ a \in Nat
      /\ commands \in Seq(CommandType) /\ commands # <<>>
      /\ Back = commands[Len(commands)] /\ Back \in CommandType
      /\ InProgress(Back, line, a, x, "need_any_token") /\ ending_semicolon = FALSE
  BY Progress
<1>2. Back = old
  BY <1>1 DEF InProgress
<1>3. /\ t = "pipe" => new = SetOutMode(Back, "pipe")
      /\ t = "logical_and" => new = SetNext(Back, "on_success")
      /\ t = "logical_or" => new = SetNext(Back, "on_fail")
      /\ t = "semicolon" => new = Back
  BY <1>2, ConnectorMeans
<1>4. /\ t # "pipe" => WellFormedOf(line, a, Len(line) + 1, x, t)
      /\ t = "pipe" =>
           (WellFormedOf(line, a, Len(line) + 1, x, t) <=> Back.cout_mode = "term")
  BY <1>1, Closes
<1>5. NewCommand \in CommandType /\ [NewCommand EXCEPT !.cin_mode = "pipe"] \in CommandType
  BY NewCommandType DEF CommandType
<1>6. t # "pipe" => Fresh(t) = NewCommand
  BY FreshIs
<1>7. t = "pipe" => Fresh(t) = [NewCommand EXCEPT !.cin_mode = "pipe"]
  BY FreshIs DEF SetInMode
<1> HIDE DEF a, x, old
<1>8. CASE Pipe(t) /\ Back.cout_mode # "term"
  <2>1. Throw /\ t = "pipe"
    BY <1>8 DEF Pipe
  <2>2. Wrong(Append(line, t))
    BY <1>1, <1>8, <2>1, Rejected
  <2> QED BY <2>1, <2>2, TokenThrown
<1> HIDE DEF new
<1> SUFFICES ASSUME ~(Pipe(t) /\ Back.cout_mode # "term")
             PROVE  /\ t \in Connectors /\ new \in CommandType
                    /\ commands' = Append(SetBack(new), Fresh(t))
                    /\ Fresh(t) \in CommandType
                    /\ mode' = "parsing" /\ state' = "need_new_command"
                    /\ ending_semicolon' = (t = "semicolon")
                    /\ WellFormedOf(line, a, Len(line) + 1, x, t)
  BY <1>1, <1>8, TokenNext DEF a, x, new
<1>9. CASE Pipe(t)
  <2>1. t = "pipe" /\ Back.cout_mode = "term"
    BY <1>9 DEF Pipe
  <2>2. new = [Back EXCEPT !.cout_mode = "pipe"]
    BY <1>3, <2>1 DEF SetOutMode
  <2>3. new \in CommandType
    BY <1>1, <2>2, Updates
  <2>4. commands' = Append(SetBack(new), Fresh(t))
    BY <1>7, <1>9, <2>1, <2>2 DEF Pipe
  <2>5. mode' = "parsing" /\ state' = "need_new_command"
    BY <1>9, <2>1 DEF Pipe, Continue
  <2>6. ending_semicolon' = (t = "semicolon")
    <3>1. ending_semicolon' = FALSE /\ (t = "semicolon") = FALSE
      BY <1>1, <1>9, <2>1 DEF Pipe, Continue
    <3> QED BY <3>1
  <2> QED BY <1>4, <1>5, <1>7, <2>1, <2>3, <2>4, <2>5, <2>6, Kinds
<1>10. CASE AndOr(t)
  <2>1. t \in {"logical_and", "logical_or"}
    BY <1>10 DEF AndOr
  <2>2. new = [Back EXCEPT !.next_mode =
                 IF t = "logical_and" THEN "on_success" ELSE "on_fail"]
    BY <1>3, <2>1 DEF SetNext
  <2>3. new \in CommandType
    BY <1>1, <2>2, Updates
  <2>4. commands' = Append(SetBack(new), Fresh(t))
    BY <1>6, <1>10, <2>1, <2>2 DEF AndOr
  <2>5. mode' = "parsing" /\ state' = "need_new_command"
    BY <1>10 DEF AndOr, Continue
  <2>6. ending_semicolon' = (t = "semicolon")
    <3>1. ending_semicolon' = FALSE /\ (t = "semicolon") = FALSE
      BY <1>1, <1>10, <2>1 DEF AndOr, Continue
    <3> QED BY <3>1
  <2> QED BY <1>4, <1>5, <1>6, <2>1, <2>3, <2>4, <2>5, <2>6, Kinds
<1>11. CASE Semicolon(t)
  <2>1. t = "semicolon"
    BY <1>11 DEF Semicolon
  <2>2. SetBack(Back) = commands
    BY <1>1 DEF SetBack, Back
  <2>3. new = Back
    BY <1>3, <2>1
  <2>4. commands' = Append(SetBack(new), Fresh(t))
    BY <1>6, <1>11, <2>1, <2>2, <2>3 DEF Semicolon
  <2>5. mode' = "parsing" /\ state' = "need_new_command" /\ ending_semicolon' = TRUE
    BY <1>11 DEF Semicolon
  <2>6. ending_semicolon' = (t = "semicolon")
    BY <2>1, <2>5
  <2> QED BY <1>1, <1>4, <1>5, <1>6, <2>1, <2>3, <2>4, <2>5, <2>6, Kinds
<1> QED BY <1>9, <1>10, <1>11

\* The words that are waited for.
LEMMA AwaitedParses ==
  ASSUME IInv, GInv, mode = "parsing", Len(line) < MaxTokens, NEW t \in Tokens,
         line' = Append(line, t),
         \/ state = "need_new_command" /\ CommandName(t)
         \/ state = "need_in_path" /\ InPath(t)
         \/ state = "need_out_path" /\ OutPath(t)
  PROVE  GInv'
<1> DEFINE a == Cut(line, Count(line))
           x == Before(line, Count(line))
<1>1. /\ Parsed(line, commands, state, ending_semicolon)
      /\ line \in Seq(Tokens) /\ Len(line) \in Nat /\ Word = Len(line) + 1 /\ a \in Nat
      /\ Back \in CommandType /\ InProgress(Back, line, a, x, state)
      /\ state # "need_new_command" => ending_semicolon = FALSE
  BY Progress
<1>2. t \notin Connectors <=> t = "text" \/ t \in Redirects
  BY Kinds
<1> HIDE DEF a, x
<1>3. CASE t # "text"
  <2>1. Throw
    BY <1>3 DEF CommandName, InPath, OutPath
  <2>2. Wrong(Append(line, t))
    BY <1>1, <1>3, Rejected
  <2> QED BY <2>1, <2>2, TokenThrown
<1>4. CASE t = "text" /\ state = "need_new_command"
  <2> DEFINE c == SetCmd(Back, Word)
  <2>1. c = [Back EXCEPT !.cmd = Word]
    BY DEF SetCmd
  <2>2. c \in CommandType
    BY <1>1, <2>1, Updates
  <2>3. CommandName(t)
    BY <1>4
  <2>4. commands' = SetBack(c) /\ state' = "need_any_token" /\ mode' = "parsing"
    BY <1>4, <2>1, <2>3 DEF CommandName
  <2>5. ending_semicolon' = FALSE
    BY <1>4, <2>3 DEF CommandName
  <2>6. Back = Fresh(x) /\ a = Len(line)
    BY <1>1, <1>4 DEF InProgress
  <2>7. InProgress(c, Append(line, t), a, x, "need_any_token")
    BY <1>1, <1>4, <2>6, Named
  <2> HIDE DEF c
  <2> QED BY <1>1, <1>2, <1>4, <2>2, <2>4, <2>5, <2>7, TokenWithin DEF a, x
<1>5. ASSUME t = "text", state \in {"need_in_path", "need_out_path"} PROVE GInv'
  <2>1. PICK c : /\ commands' = SetBack(c) /\ c \in CommandType
                 /\ \/ state = "need_in_path" /\ c = SetIn(Back, Word)
                    \/ state = "need_out_path" /\ c = SetOut(Back, Word)
    <3>1. SetIn(Back, Word) \in CommandType /\ SetOut(Back, Word) \in CommandType
      BY <1>1, Updates DEF SetIn, SetOut
    <3> QED BY <1>5, <3>1 DEF InPath, OutPath, SetIn, SetOut
  <2>2. state' = "need_any_token" /\ mode' = "parsing"
    BY <1>5 DEF InPath, OutPath, Continue
  <2>3. ending_semicolon' = FALSE
    BY <1>1, <1>5 DEF InPath, OutPath, Continue
  <2>4. InProgress(c, Append(line, t), a, x, "need_any_token")
    BY <1>1, <1>5, <2>1, PathTaken
  <2> QED BY <1>1, <1>2, <1>5, <2>1, <2>2, <2>3, <2>4, TokenWithin DEF a, x
<1> QED BY <1>3, <1>4, <1>5

\* The end of the line.
LEMMA EndOfLineParses ==
  ASSUME IInv, GInv, EndOfLine
  PROVE  GInv'
<1>1. mode = "parsing" /\ line' = line
  BY DEF EndOfLine
<1>2. /\ Parsed(line, commands, state, ending_semicolon)
      /\ commands \in Seq(CommandType) /\ line \in Seq(Tokens)
      /\ Back = commands[Len(commands)]
      /\ InProgress(Back, line, Cut(line, Count(line)), Before(line, Count(line)), state)
  BY <1>1, Progress
<1>3. state \in States /\ mode' # "parsing"
  BY DEF IInv, TypeOK, States, EndOfLine
<1>4. CASE \/ state = "need_new_command" /\ ~ending_semicolon
           \/ state \in {"need_in_path", "need_out_path"}
  <2>1. mode' = "error"
    BY <1>4 DEF EndOfLine
  <2>2. Wrong(line)
    BY <1>2, <1>4, EndsRejected
  <2> QED BY <1>1, <2>1, <2>2 DEF GInv, Grammar
<1>5. CASE state = "need_any_token"
  <2>1. Grammar("running", line, commands) /\ Back.cmd # 0
    BY <1>2, <1>5, EndsAccepted
  <2>2. mode' = "running" /\ commands' = commands
    BY <1>5, <2>1 DEF EndOfLine
  <2> QED BY <1>1, <2>1, <2>2 DEF GInv
<1>6. CASE state = "need_new_command" /\ ending_semicolon
  <2>1. /\ Grammar("running", line, SubSeq(commands, 1, Len(commands) - 1))
        /\ Back.cmd = 0
    BY <1>2, <1>6, EndsAfterSemicolon
  <2>2. mode' = "running" /\ commands' = SubSeq(commands, 1, Len(commands) - 1)
    BY <1>6, <2>1 DEF EndOfLine
  <2> QED BY <1>1, <2>1, <2>2 DEF GInv
<1> QED BY <1>3, <1>4, <1>5, <1>6 DEF States

\* A line that is rejected has a segment that is not well-formed, and one that is
\* run has none and is run as the commands that its segments mean.
THEOREM ParsesTheGrammar == Spec => []ParsesGrammar
<1>1. ASSUME IInv, GInv, [Next]_vars PROVE GInv'
  <2>1. ASSUME mode' \notin {"parsing", "running", "error"} PROVE GInv'
    BY <2>1 DEF GInv, Grammar
  <2>2. CASE ReadLine
    <3>1. /\ mode' = "parsing" /\ line' = <<>> /\ commands' = <<NewCommand>>
          /\ state' = "need_new_command" /\ ending_semicolon' = FALSE
      BY <1>1, <2>2 DEF ReadLine, IInv, Resting, ParserStart, parserVars
    <3>2. Parsed(line', commands', state', ending_semicolon')
      BY <3>1, ParsedEmpty
    <3> QED BY <3>1, <3>2 DEF GInv, Grammar
  <2>3. CASE LeaveLoop \/ PrintError \/ StartFails \/ LineDone
    BY <2>1, <2>3 DEF LeaveLoop, PrintError, StartFails, LineDone
  <2>4. CASE Parse
    <3>1. ASSUME NEW t \in Tokens, Token(t) PROVE GInv'
      <4>1. /\ mode = "parsing" /\ Len(line) < MaxTokens /\ line' = Append(line, t)
        BY <3>1 DEF Token
      <4> QED BY <1>1, <3>1, <4>1, WithinParses, NextParses, AwaitedParses DEF Token
    <3> QED BY <1>1, <2>4, <3>1, EndOfLineParses DEF Parse
  <2>5. ASSUME mode' = mode, UNCHANGED parserVars PROVE GInv'
    BY <1>1, <2>5 DEF GInv, parserVars
  <2>6. CASE Run
    <3>1. ASSUME NEW reads \in BOOLEAN, NEW output \in 0..MaxOutput,
                 NEW stdin \in {Terminal, File, pipe1},
                 NEW stdout \in {Terminal, File, Current},
                 Start(reads, output, stdin, stdout)
          PROVE  GInv'
      BY <2>5, <3>1 DEF Start
    <3>2. ASSUME NEW status \in {0, 1}, Exit(status) PROVE GInv'
      BY <2>5, <3>2 DEF Exit, Wait
    <3>3. CASE Write \/ Read \/ ReadEnd
      BY <2>5, <3>3 DEF Write, Read, ReadEnd, others
    <3> QED BY <2>3, <2>6, <3>1, <3>2, <3>3 DEF Run
  <2>7. CASE Ended \/ UNCHANGED vars
    BY <2>5, <2>7 DEF Ended, vars
  <2> QED BY <1>1, <2>2, <2>3, <2>4, <2>6, <2>7 DEF Next
<1>2. GInv => ParsesGrammar
  BY DEF GInv, Grammar, Wrong, ParsesGrammar
<1> QED BY <1>1, <1>2, GInitially, Invariance, PTL DEF Spec
=============================================================================
