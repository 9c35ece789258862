----------------------------- MODULE ShellParser -----------------------------
(***************************************************************************)
(* The parser of the PA2 shell (parser.cpp): an automaton that takes the   *)
(* tokens of a line one by one and builds the commands.  A token is its    *)
(* type; a word stands for its position in the line, so that any two words *)
(* differ.  How characters become tokens is not modelled.                  *)
(***************************************************************************)
EXTENDS Integers, Sequences, FiniteSets

CONSTANT MaxTokens   \* bound: tokens of a line

\* shell_token_type.
Inputs     == {"redirect_cin"}
Outputs    == {"redirect_cout", "append_cout"}
Redirects  == Inputs \cup Outputs
Connectors == {"pipe", "logical_and", "logical_or", "semicolon"}
Tokens     == {"text"} \cup Redirects \cup Connectors

VARIABLES
  mode,               \* "prompt", "parsing", "error", "running" or "exited"
  line,               \* the tokens taken so far
  commands,
  state,              \* parser_state
  ending_semicolon

parserVars == <<line, commands, state, ending_semicolon>>

\* A default-constructed shell_command; 0 is the empty string.
NewCommand == [cmd |-> 0, args |-> <<>>, cin_mode |-> "term", cin_file |-> 0,
               cout_mode |-> "term", cout_file |-> 0, next_mode |-> "always"]

ParserStart ==
  /\ line = <<>> /\ commands = <<NewCommand>>
  /\ state = "need_new_command" /\ ending_semicolon = FALSE

\* The same, on entry to parse_command_string.
ParserReset ==
  /\ line' = <<>> /\ commands' = <<NewCommand>>
  /\ state' = "need_new_command" /\ ending_semicolon' = FALSE

Back == commands[Len(commands)]
SetBack(c) == [commands EXCEPT ![Len(commands)] = c]
Word == Len(line) + 1

\* throw parsing_error.
Throw == mode' = "error" /\ UNCHANGED <<commands, state, ending_semicolon>>

Continue(to) == state' = to /\ UNCHANGED <<mode, ending_semicolon>>

-----------------------------------------------------------------------------
(* need_any_token                                                          *)

Argument(t) ==
  /\ t = "text"
  /\ commands' = SetBack([Back EXCEPT !.args = Append(@, Word)])
  /\ Continue("need_any_token")

RedirectIn(t) ==
  /\ t = "redirect_cin"
  /\ IF Back.cin_mode = "pipe" THEN Throw
     ELSE /\ commands' = SetBack([Back EXCEPT !.cin_mode = "file"])
          /\ Continue("need_in_path")

RedirectOut(t) ==
  /\ t \in Outputs
  /\ commands' = SetBack([Back EXCEPT !.cout_mode =
                            IF t = "redirect_cout" THEN "file" ELSE "append"])
  /\ Continue("need_out_path")

Pipe(t) ==
  /\ t = "pipe"
  /\ IF Back.cout_mode # "term" THEN Throw
     ELSE /\ commands' = Append(SetBack([Back EXCEPT !.cout_mode = "pipe"]),
                                [NewCommand EXCEPT !.cin_mode = "pipe"])
          /\ Continue("need_new_command")

AndOr(t) ==
  /\ t \in {"logical_and", "logical_or"}
  /\ commands' = Append(SetBack([Back EXCEPT !.next_mode =
                            IF t = "logical_and" THEN "on_success" ELSE "on_fail"]),
                         NewCommand)
  /\ Continue("need_new_command")

Semicolon(t) ==
  /\ t = "semicolon"
  /\ commands' = Append(commands, NewCommand)
  /\ state' = "need_new_command" /\ ending_semicolon' = TRUE
  /\ UNCHANGED mode

-----------------------------------------------------------------------------
(* The other states, and the end of the line                               *)

\* Mutant: the flag stays.
CommandName_StaleFlag(t) ==
  IF t # "text" THEN Throw
  ELSE /\ commands' = SetBack([Back EXCEPT !.cmd = Word])
       /\ state' = "need_any_token"
       /\ UNCHANGED <<mode, ending_semicolon>>

CommandName(t) ==
  IF t # "text" THEN Throw
  ELSE /\ commands' = SetBack([Back EXCEPT !.cmd = Word])
       /\ state' = "need_any_token" /\ ending_semicolon' = FALSE
       /\ UNCHANGED mode

InPath(t) ==
  IF t # "text" THEN Throw
  ELSE /\ commands' = SetBack([Back EXCEPT !.cin_file = Word])
       /\ Continue("need_any_token")

OutPath(t) ==
  IF t # "text" THEN Throw
  ELSE /\ commands' = SetBack([Back EXCEPT !.cout_file = Word])
       /\ Continue("need_any_token")

\* One iteration of the loop over the tokens.
Token(t) ==
  /\ mode = "parsing" /\ Len(line) < MaxTokens
  /\ line' = Append(line, t)
  /\ \/ /\ state = "need_any_token"
        /\ \/ Argument(t) \/ RedirectIn(t) \/ RedirectOut(t)
           \/ Pipe(t) \/ AndOr(t) \/ Semicolon(t)
     \/ state = "need_new_command" /\ CommandName(t)
     \/ state = "need_in_path" /\ InPath(t)
     \/ state = "need_out_path" /\ OutPath(t)

EndOfLine ==
  /\ mode = "parsing"
  /\ mode' = IF \/ state = "need_new_command" /\ ~ending_semicolon
                \/ state \in {"need_in_path", "need_out_path"}
             THEN "error" ELSE "running"
  /\ commands' = IF mode' = "running" /\ Back.cmd = 0
                 THEN SubSeq(commands, 1, Len(commands) - 1) ELSE commands
  /\ UNCHANGED <<line, state, ending_semicolon>>

Parse == EndOfLine \/ \E t \in Tokens : Token(t)

-----------------------------------------------------------------------------
(* What a line L means, segment by segment                                 *)

\* The numbers of S with k numbers of S up to them: its k-th number, if it has k.
Nth(S, k) == {i \in S : Cardinality({j \in S : j <= i}) = k}

\* The numbers of S from the least to the greatest, and the greatest.
InOrder(S)  == [k \in 1..Cardinality(S) |-> CHOOSE i \in Nth(S, k) : TRUE]
Greatest(S) == CHOOSE i \in S : \A j \in S : j <= i

\* The positions of the connectors, with a sentinel at either end; segment k lies
\* between cut k and cut k + 1.
Cuts(L)      == <<0>> \o InOrder({i \in DOMAIN L : L[i] \in Connectors}) \o <<Len(L) + 1>>
Count(L)     == Len(Cuts(L)) - 1
Cut(L, k)    == Cuts(L)[k]
Before(L, k) == IF k = 1 THEN "end" ELSE L[Cut(L, k)]
After(L, k)  == IF k = Count(L) THEN "end" ELSE L[Cut(L, k + 1)]

\* In the segment between a and b: the tokens of R, and the words that are neither
\* its first nor a path.
At(L, a, b, R)  == {i \in a + 1..b - 1 : L[i] \in R}
ArgsAt(L, a, b) == {i \in At(L, a, b, {"text"}) : i > a + 1 /\ L[i - 1] \notin Redirects}

\* That segment, with x before it and y after: a name first, a path after each
\* redirection, and not both a redirection and a pipe for the same stream.
WellFormedOf(L, a, b, x, y) ==
  /\ a + 1..b - 1 # {} /\ L[a + 1] = "text"
  /\ \A i \in At(L, a, b, Redirects) : i + 1 \in a + 1..b - 1 /\ L[i + 1] = "text"
  /\ x = "pipe" => At(L, a, b, Inputs) = {}
  /\ y = "pipe" => At(L, a, b, Outputs) = {}

InMode(ins, x)      == IF x = "pipe" THEN "pipe" ELSE IF ins # {} THEN "file" ELSE "term"
OutMode(L, outs, y) == IF y = "pipe" THEN "pipe" ELSE IF outs = {} THEN "term"
                       ELSE IF L[Greatest(outs)] = "redirect_cout" THEN "file"
                       ELSE "append"
Path(S)             == IF S = {} THEN 0 ELSE Greatest(S) + 1
NextMode(y)         == CASE y = "logical_and" -> "on_success"
                         [] y = "logical_or" -> "on_fail"
                         [] OTHER -> "always"

MeaningOf(L, a, b, x, y) ==
  [cmd |-> a + 1, args |-> InOrder(ArgsAt(L, a, b)),
   cin_mode |-> InMode(At(L, a, b, Inputs), x), cin_file |-> Path(At(L, a, b, Inputs)),
   cout_mode |-> OutMode(L, At(L, a, b, Outputs), y),
   cout_file |-> Path(At(L, a, b, Outputs)), next_mode |-> NextMode(y)]

Meaning(L, k)    == MeaningOf(L, Cut(L, k), Cut(L, k + 1), Before(L, k), After(L, k))
WellFormed(L, k) == WellFormedOf(L, Cut(L, k), Cut(L, k + 1), Before(L, k), After(L, k))

\* Nothing may follow a final semicolon.
Meant(L) == IF /\ Cut(L, Count(L)) + 1..Cut(L, Count(L) + 1) - 1 = {}
               /\ Before(L, Count(L)) = "semicolon"
            THEN Count(L) - 1 ELSE Count(L)

\* A line is run exactly if every segment is well-formed, and then as the
\* commands its segments mean: no stale flag or state of the automaton lets a
\* line through, cuts a command off, or moves a word or a mode to another one.
\* (A rejected line may have been rejected before its end.)
ParsesGrammar ==
  /\ mode = "running" =>
       /\ \A k \in 1..Meant(line) : WellFormed(line, k)
       /\ commands = [k \in 1..Meant(line) |-> Meaning(line, k)]
  /\ mode = "error" => \E k \in 1..Meant(line) : ~WellFormed(line, k)
=============================================================================
