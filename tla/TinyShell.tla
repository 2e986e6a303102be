----------------------------- MODULE TinyShell -----------------------------
(***************************************************************************)
(* Linux/Lab3/3-tiny and Windows/Lab3/2-tiny: the shell, the processes it  *)
(* starts, and on Windows the pipe between two of them.                    *)
(*                                                                         *)
(* On Linux a child whose execvp fails goes back into main's loop: it is   *)
(* one more shell, with a copy of everything its parent had, the lines in  *)
(* the buffer of stdin included, while the parent waits for it to end.     *)
(***************************************************************************)
EXTENDS ShellLine, FiniteSets

CONSTANTS
  Inputs,       \* what may be typed or piped in: sequences of lines
  Systems,      \* "linux" | "windows"
  Stdins,       \* "terminal": one line per read | "pipe": all there is
  PIPE_SIZE,    \* bound: what the pipe holds
  MaxProcesses  \* bound: processes ever started

ASSUME ShellAssumption ==
  /\ Inputs \subseteq Seq(Lines)
  /\ Systems \subseteq {"linux", "windows"} /\ Stdins \subseteq {"terminal", "pipe"}

VARIABLES
  os, stdin,    \* chosen once
  input,        \* the lines
  next,         \* the lines taken from stdin by some process: 1..next - 1
  procs,        \* the processes ever started, the first shell first
  pipe,         \* [bytes, readers, writers]: the processes that hold an end
  ran,          \* per line: how often a shell has fetched it
  failed        \* the lines whose command could not be executed

vars == <<os, stdin, input, next, procs, pipe, ran, failed>>

\* What the commands do: exist, write so many bytes, read to the end or once.
Program(args) ==
  LET name == IF args = <<>> THEN "" ELSE args[1]
  IN [exists |-> name \in {"true", "yes", "cat", "head"},
      writes |-> IF name = "yes" THEN PIPE_SIZE + 1 ELSE 0,
      reads  |-> CASE name = "cat" -> "all" [] name = "head" -> "one" [] OTHER -> "none"]

\* role: "shell" at the top of its loop, or waiting | "dispatch" in main's
\* switch | "piping" between its two CreateProcess |
\* "forked" between fork and execvp | "command" | "ended".  waits: the
\* processes a shell waits for, one after the other.  cmd is the line being
\* run, left what a command still does; its stdin or stdout may be the pipe.
Shell0 ==
  [role |-> "shell", stdin |-> "tty", stdout |-> "tty", env |-> <<>>, buffer |-> <<>>,
   waits |-> <<>>, cmd |-> Parsed("ERROR", <<>>, NoFile), line |-> 0,
   left |-> Program(<<>>)]

Init ==
  /\ os \in Systems /\ stdin \in Stdins /\ input \in Inputs
  /\ next = 1
  /\ procs = <<Shell0>>
  /\ pipe = [bytes |-> 0, readers |-> {}, writers |-> {}]
  /\ ran = [n \in DOMAIN input |-> 0]
  /\ failed = {}

Pids == DOMAIN procs
NewPid == Len(procs) + 1
Reads(p) == procs[p].role = "shell" /\ procs[p].waits = <<>>

\* fgets: from the buffer, which a terminal fills with one line, a pipe with all.
Buffered(p) ==
  IF procs[p].buffer # <<>> \/ next > Len(input) THEN procs[p].buffer
  ELSE IF stdin = "terminal" THEN <<next>>
  ELSE [k \in 1..Len(input) - next + 1 |-> next + k - 1]

Parse(l, env) == IF os = "linux" THEN parse_line(l, env) ELSE ParseLine(l, env)

\* What becomes of a process that ends, and of its ends of the pipe.
Ended(r) == [Shell0 EXCEPT !.role = "ended", !.stdout = r.stdout]
WithoutEnds(p) == [pipe EXCEPT !.readers = @ \ {p}, !.writers = @ \ {p}]

-----------------------------------------------------------------------------
\* fgets returned NULL.
EndOfInput(p) ==
  /\ Reads(p) /\ Buffered(p) = <<>>
  /\ procs' = [procs EXCEPT ![p] = Ended(@)]
  /\ UNCHANGED <<os, stdin, input, next, pipe, ran, failed>>

\* The shell gets its next line and parses it.
FetchLine(p) ==
  /\ Reads(p) /\ Buffered(p) # <<>>
  /\ LET n == Head(Buffered(p)) IN
       /\ procs' = [procs EXCEPT ![p].role = "dispatch", ![p].line = n,
                       ![p].buffer = Tail(Buffered(p)),
                       ![p].cmd = Parse(input[n], procs[p].env)]
       /\ ran' = [ran EXCEPT ![n] = @ + 1]
  /\ next' = IF procs[p].buffer = <<>> THEN Last(Buffered(p)) + 1 ELSE next
  /\ UNCHANGED <<os, stdin, input, pipe, failed>>

\* main's switch on the type of the line.
Type(p, types) == procs[p].role = "dispatch" /\ procs[p].cmd.type \in types
Looping(p) == [procs[p] EXCEPT !.role = "shell"]
Unread == UNCHANGED <<os, stdin, input, next, ran>>

\* exit, or an error the parser does not survive.
ShellExits(p) ==
  /\ Type(p, {"EXIT", "CRASH"}) /\ Unread
  /\ procs' = [procs EXCEPT ![p] = Ended(@)]
  /\ UNCHANGED <<pipe, failed>>

NothingToDo(p) ==
  /\ Type(p, {"ERROR"}) /\ Unread
  /\ procs' = [procs EXCEPT ![p] = Looping(p)]
  /\ UNCHANGED <<pipe, failed>>

\* set_var; the value is a word, which may begin with '>'.
SetVar(p) ==
  /\ Type(p, {"SET_VAR"}) /\ Unread
  /\ LET parts == input[procs[p].line].parts
     IN procs' = [procs EXCEPT ![p] =
                    [Looping(p) EXCEPT !.env = (parts[1].s :> parts[2]) @@ @]]
  /\ UNCHANGED <<pipe, failed>>

\* Mutants of Forks: the parent does not wait for the child.
ForksWithoutWait(p) ==
  /\ Type(p, {"SIMPLE"}) /\ Unread /\ os = "linux" /\ NewPid <= MaxProcesses
  /\ procs' = Append([procs EXCEPT ![p] = Looping(p)], [Looping(p) EXCEPT !.role = "forked"])
  /\ UNCHANGED <<pipe, failed>>
\* The output is redirected before the fork.
ForksRedirected(p) ==
  /\ Type(p, {"SIMPLE"}) /\ Unread /\ os = "linux" /\ NewPid <= MaxProcesses
  /\ LET own == IF procs[p].cmd.stdout = NoFile THEN Looping(p)
                ELSE [Looping(p) EXCEPT !.stdout = procs[p].cmd.stdout]
     IN procs' = Append([procs EXCEPT ![p] = [own EXCEPT !.waits = <<NewPid>>]],
                        [own EXCEPT !.role = "forked"])
  /\ UNCHANGED <<pipe, failed>>
\* The child's buffer still has the line it runs.
ForksBeforeFetch(p) ==
  /\ Type(p, {"SIMPLE"}) /\ Unread /\ os = "linux" /\ NewPid <= MaxProcesses
  /\ procs' = Append([procs EXCEPT ![p] = [Looping(p) EXCEPT !.waits = <<NewPid>>]],
                     [Looping(p) EXCEPT !.role = "forked", !.buffer = <<procs[p].line>> \o @])
  /\ UNCHANGED <<pipe, failed>>

\* simple_cmd on Linux: the child is a copy of the shell, which waits for it;
\* or fork fails.
Forks(p) ==
  /\ Type(p, {"SIMPLE"}) /\ Unread /\ os = "linux"
  /\ \/ /\ NewPid <= MaxProcesses
        /\ procs' = Append([procs EXCEPT ![p] = [Looping(p) EXCEPT !.waits = <<NewPid>>]],
                           [Looping(p) EXCEPT !.role = "forked"])
     \/ procs' = [procs EXCEPT ![p] = Looping(p)]
  /\ UNCHANGED <<pipe, failed>>

\* The child: do_redirect, whose failure ends it, then execvp.  Without a name
\* execvp ends it; with a name that does not exist it returns, and the child
\* goes back into main's loop.
ChildExecs(q) ==
  /\ procs[q].role = "forked"
  /\ LET cmd == procs[q].cmd
         out == IF cmd.stdout = NoFile THEN procs[q].stdout ELSE cmd.stdout
     IN \/ /\ cmd.stdout # NoFile \/ cmd.args = <<>>
           /\ procs' = [procs EXCEPT ![q] = Ended(@)] /\ UNCHANGED failed
        \/ /\ Program(cmd.args).exists
           /\ procs' = [procs EXCEPT ![q] = [Shell0 EXCEPT !.role = "command", !.stdout = out]]
           /\ UNCHANGED failed
        \/ /\ cmd.args # <<>> /\ ~Program(cmd.args).exists
           /\ procs' = [procs EXCEPT ![q].role = "shell", ![q].stdout = out]
           /\ failed' = failed \cup {procs[q].line}
  /\ UNCHANGED <<os, stdin, input, next, pipe, ran>>

\* On Windows a file that cannot be created is an invalid handle, with which
\* RedirectHandle does nothing.
MyOpenFile(file) == {file, "invalid"}
RedirectHandle(own, handle) == IF handle = "invalid" THEN own ELSE handle
Outputs(p) ==
  IF procs[p].cmd.stdout = NoFile THEN {procs[p].stdout}
  ELSE {RedirectHandle(procs[p].stdout, h) : h \in MyOpenFile(procs[p].cmd.stdout)}

\* RunSimpleCommand on Windows; without such a program the shell dies.
RunSimpleCommand(p) ==
  /\ Type(p, {"SIMPLE"}) /\ Unread /\ os = "windows" /\ NewPid <= MaxProcesses
  /\ IF Program(procs[p].cmd.args).exists
     THEN /\ \E out \in Outputs(p) :
               procs' = Append([procs EXCEPT ![p] = [Looping(p) EXCEPT !.waits = <<NewPid>>]],
                               [Shell0 EXCEPT !.role = "command", !.stdout = out])
          /\ UNCHANGED failed
     ELSE /\ procs' = [procs EXCEPT ![p] = Ended(@)]
          /\ failed' = failed \cup {procs[p].line}
  /\ UNCHANGED pipe

-----------------------------------------------------------------------------
\* PipeCommands: the pipe and the first process, which inherits both ends.
StartFirst(p) ==
  /\ Type(p, {"PIPE"}) /\ Unread /\ NewPid < MaxProcesses
  /\ IF Program(procs[p].cmd.args).exists
     THEN /\ pipe' = [bytes |-> 0, readers |-> {p, NewPid}, writers |-> {p, NewPid}]
          /\ procs' = Append([procs EXCEPT ![p] =
                                [Looping(p) EXCEPT !.role = "piping", !.waits = <<NewPid>>]],
                             [Shell0 EXCEPT !.role = "command",
                                            !.stdout = RedirectHandle(procs[p].stdout, "pipe"),
                                            !.left = Program(procs[p].cmd.args)])
          /\ UNCHANGED failed
     ELSE /\ procs' = [procs EXCEPT ![p] = Ended(@)]
          /\ failed' = failed \cup {procs[p].line}
          /\ UNCHANGED pipe

Second(p) ==
  [Shell0 EXCEPT !.role = "command", !.stdin = "pipe", !.stdout = procs[p].stdout,
                 !.left = Program(procs[p].cmd.args2)]

\* Mutant of StartSecond: hWrite is closed after the second process is created.
StartSecondKeepsWrite(p) ==
  /\ procs[p].role = "piping" /\ Program(procs[p].cmd.args2).exists
  /\ pipe' = [pipe EXCEPT !.readers = (@ \ {p}) \cup {NewPid},
                          !.writers = (@ \ {p}) \cup {NewPid}]
  /\ procs' = Append([procs EXCEPT ![p].role = "shell", ![p].waits = Append(@, NewPid)],
                     Second(p))
  /\ Unread /\ UNCHANGED failed

\* hWrite is closed, the second process is created, which inherits hRead, and
\* hRead is closed; or the shell dies.  The file of a '>' is never opened.
StartSecond(p) ==
  /\ procs[p].role = "piping"
  /\ IF Program(procs[p].cmd.args2).exists
     THEN /\ pipe' = [pipe EXCEPT !.readers = (@ \ {p}) \cup {NewPid}, !.writers = @ \ {p}]
          /\ procs' = Append([procs EXCEPT ![p].role = "shell", ![p].waits = Append(@, NewPid)],
                             Second(p))
          /\ UNCHANGED failed
     ELSE /\ pipe' = WithoutEnds(p)
          /\ procs' = [procs EXCEPT ![p] = Ended(@)]
          /\ failed' = failed \cup {procs[p].line}
  /\ Unread

\* A command of a pipeline writes, which blocks when the pipe is full.
Writes(q) ==
  /\ procs[q].role = "command" /\ procs[q].stdout = "pipe" /\ procs[q].left.writes > 0
  /\ pipe.readers # {} /\ pipe.bytes < PIPE_SIZE
  /\ pipe' = [pipe EXCEPT !.bytes = @ + 1]
  /\ procs' = [procs EXCEPT ![q].left.writes = @ - 1]
  /\ Unread /\ UNCHANGED failed

\* It reads, which at the end of the data blocks as long as anybody can write.
ReadsPipe(q) ==
  /\ procs[q].role = "command" /\ procs[q].stdin = "pipe" /\ procs[q].left.reads # "none"
  /\ \/ /\ pipe.bytes > 0
        /\ pipe' = [pipe EXCEPT !.bytes = @ - 1]
        /\ procs' = [procs EXCEPT ![q].left.reads = IF @ = "one" THEN "none" ELSE @]
     \/ /\ pipe.bytes = 0 /\ pipe.writers = {}
        /\ procs' = [procs EXCEPT ![q].left.reads = "none"]
        /\ UNCHANGED pipe
  /\ Unread /\ UNCHANGED failed

\* It ends when it has done everything, or cannot write for want of a reader.
CommandEnds(q) ==
  /\ procs[q].role = "command"
  /\ procs[q].stdout = "pipe" => procs[q].left.writes = 0 \/ pipe.readers = {}
  /\ procs[q].stdin = "pipe" => procs[q].left.reads = "none"
  /\ procs' = [procs EXCEPT ![q] = Ended(@)]
  /\ pipe' = WithoutEnds(q)
  /\ Unread /\ UNCHANGED failed

\* waitpid, WaitForSingleObject: the processes in the order they were started.
Waited(p) ==
  /\ procs[p].role = "shell" /\ procs[p].waits # <<>>
  /\ procs[Head(procs[p].waits)].role = "ended"
  /\ procs' = [procs EXCEPT ![p].waits = Tail(@)]
  /\ UNCHANGED <<os, stdin, input, next, pipe, ran, failed>>

ProcessStep(p) ==
  \/ EndOfInput(p) \/ FetchLine(p) \/ ShellExits(p) \/ NothingToDo(p) \/ SetVar(p)
  \/ Forks(p) \/ ChildExecs(p) \/ RunSimpleCommand(p)
  \/ StartFirst(p) \/ StartSecond(p) \/ Waited(p)
  \/ Writes(p) \/ ReadsPipe(p) \/ CommandEnds(p)

Next == \E p \in Pids : ProcessStep(p)

\* As long as some process can go on, one does.
Spec == Init /\ [][Next]_vars /\ WF_vars(Next)

-----------------------------------------------------------------------------
\* However many shells failed commands have left behind, at most one of them
\* is at its prompt or on its way there: all others wait for their child.
OneReader ==
  Cardinality({p \in Pids : Reads(p) \/ procs[p].role \in {"dispatch", "forked"}}) <= 1

\* Typed at a terminal every line is run once, by the innermost shell.  When
\* the lines come through a pipe the child of a failed command has a copy of
\* those that follow and runs them, and the parent runs them again: one line
\* at most twice as often for each command before it that failed.
RepeatBound ==
  \A n \in DOMAIN input :
    ran[n] <= IF os = "linux" /\ stdin = "pipe"
              THEN 2^Cardinality({k \in failed : k < n}) ELSE 1

\* Where the output of the line that shell p runs goes.
Redirected(p) ==
  IF procs[p].cmd.stdout = NoFile THEN procs[p].stdout ELSE procs[p].cmd.stdout

\* Shell q is a copy of shell p, left by a line whose command does not exist.
LeftBehind(p, q) ==
  /\ procs[p].role = "shell" /\ procs[p].waits # <<>> /\ Head(procs[p].waits) = q
  /\ procs[p].line \in failed

\* A '>' is for one command, with one exception.  The first shell never loses
\* the terminal, whatever the commands and the copies of it redirect.  On Linux
\* a copy left behind by a '>' line that could not be executed keeps the file
\* of that line: its prompts and all the lines it runs go there.  It does not
\* reach further: each copy has the output of the very line that left it, and
\* the shell below it, which waits, has its own.
RedirectionsExplained ==
  \A q \in Pids : procs[q].role \in {"shell", "dispatch", "piping"} =>
    IF q = 1 THEN procs[q].stdout = "tty"
    ELSE /\ os = "linux"
         /\ \E p \in Pids : LeftBehind(p, q) /\ procs[q].stdout = Redirected(p)

\* The first command of a pipeline is blocked on a full pipe that nobody else
\* can read.  It holds a read end itself, so that the write never fails.
Hung ==
  \E q \in Pids :
    /\ procs[q].role = "command" /\ procs[q].stdout = "pipe" /\ procs[q].left.writes > 0
    /\ pipe.bytes = PIPE_SIZE /\ pipe.readers = {q}

\* The first shell comes back to its prompt or ends, unless a pipeline hangs
\* because its second command ended, or never started, with data unread.
Answers == ~Reads(1) ~> Reads(1) \/ procs[1].role = "ended" \/ Hung
=============================================================================
