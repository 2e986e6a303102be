----------------------------- MODULE ShellLine -----------------------------
(***************************************************************************)
(* What the tiny shells of lab 3 make of one line.  A line is given by     *)
(* what its parser asks about it: is it "\n" alone, does it begin with     *)
(* "exit", what stands around its '=', and its words up to and behind a    *)
(* '|'.  A word is [pre, s]: pre is "$", ">" or "" when the word begins    *)
(* with neither, s the rest of it.                                         *)
(***************************************************************************)
EXTENDS Integers, Sequences, SequencesExt

CONSTANT MAX_CMD_WORDS  \* bound: the words that fit in a command of 32 bytes

Word(s)  == [pre |-> "", s |-> s]
Gt(s)    == [pre |-> ">", s |-> s]
Var(s)   == [pre |-> "$", s |-> s]

Tokens == [pre : {"", ">", "$"}, s : STRING]
Lines  == [form : {"exit", "newline", "assign", "words", "pipe"},
           parts : Seq(Tokens), words : Seq(Tokens), behind : Seq(Tokens)]
Line(form, parts, words, behind) ==
  [form |-> form, parts |-> parts, words |-> words, behind |-> behind]
ExitLine       == Line("exit", <<>>, <<>>, <<>>)
EmptyLine      == Line("newline", <<>>, <<>>, <<>>)
AssignLine(ps) == Line("assign", ps, <<>>, <<>>)
Command(ws)    == Line("words", <<>>, ws, <<>>)
Pipeline(ws, vs) == Line("pipe", <<>>, ws, vs)

Parsed(type, args, out) ==
  [type |-> type, args |-> args, args2 |-> <<>>, stdout |-> out]
NoFile == "none"

\* The loop over the words: a variable is expanded first, so that its value
\* may be a redirection; a ">" alone takes the next word as it stands.
Expand(w, env) == IF w.pre = "$" /\ w.s \in DOMAIN env THEN env[w.s] ELSE w
Words(ws, env) ==
  LET xs    == [n \in DOMAIN ws |-> Expand(ws[n], env)]
      file[n \in 0..Len(ws)] == n > 1 /\ ~file[n - 1] /\ xs[n - 1] = Gt("")
      names == {n \in DOMAIN ws : file[n] \/ (xs[n].pre = ">" /\ xs[n].s # "")}
      args  == SelectSeq([n \in DOMAIN ws |-> n], LAMBDA n : ~file[n] /\ xs[n].pre # ">")
      last  == CHOOSE n \in names : \A k \in names : k <= n
      unset == \E n \in DOMAIN ws : ~file[n] /\ ws[n].pre = "$" /\ ws[n].s \notin DOMAIN env
      open  == ws # <<>> /\ ~file[Len(ws)] /\ xs[Len(ws)] = Gt("")
  IN Parsed(CASE unset -> "UNSET" [] ~unset /\ open -> "NOFILE" [] OTHER -> "SIMPLE",
            [k \in DOMAIN args |-> xs[args[k]].pre \o xs[args[k]].s],
            CASE names = {} -> NoFile
              [] names # {} /\ file[last] -> ws[last].pre \o ws[last].s
              [] OTHER -> xs[last].s)

Assignment(l) ==
  Parsed(IF Len(l.parts) < 2 THEN "ERROR" ELSE "SET_VAR", <<>>, NoFile)

\* Linux: parse_line.  There is no pipe; a '|' is a word like any other.
\* strdup(NULL), for a ">" with nothing behind it, ends the process.
parse_line(l, env) ==
  CASE l.form = "exit"   -> Parsed("EXIT", <<>>, NoFile)
    [] l.form = "assign" -> Assignment(l)
    [] OTHER ->
         LET ws == IF l.form = "pipe" THEN l.words \o <<Word("|")>> \o l.behind ELSE l.words
             p  == Words(ws, env)
         IN IF ws = <<>> \/ p.type = "UNSET" THEN Parsed("ERROR", <<>>, NoFile)
            ELSE IF p.type = "NOFILE" THEN Parsed("CRASH", <<>>, NoFile) ELSE p

Raw(ws) == [n \in DOMAIN ws |-> ws[n].pre \o ws[n].s]

\* Windows: ParseLine and ParseSimpleCommand.  What stands before the '|' is
\* taken as it is, with neither expansion nor redirection.  A variable that is
\* not set ends the shell, and so does a command longer than its buffer.
\* _strdup(NULL) is NULL: a ">" with nothing behind it redirects nothing.
ParseLine(l, env) ==
  LET last == Words(IF l.form = "pipe" THEN l.behind ELSE l.words, env)
      file == IF last.type = "NOFILE" THEN NoFile ELSE last.stdout
      long == \/ Len(last.args) > MAX_CMD_WORDS
              \/ l.form = "pipe" /\ Len(l.words) > MAX_CMD_WORDS
  IN CASE l.form = "newline" -> Parsed("ERROR", <<>>, NoFile)
       [] l.form = "exit"    -> Parsed("EXIT", <<>>, NoFile)
       [] l.form = "assign"  -> Assignment(l)
       [] OTHER ->
            IF last.type = "UNSET" \/ long THEN Parsed("CRASH", <<>>, NoFile)
            ELSE IF l.form = "pipe"
            THEN [Parsed("PIPE", Raw(l.words), file) EXCEPT !.args2 = last.args]
            ELSE Parsed("SIMPLE", last.args, file)
=============================================================================
