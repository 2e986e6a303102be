---------------------------- MODULE Preprocessor ----------------------------
(***************************************************************************)
(* Tema1-Preprocesor: main.c and configText.c.  The program reads its      *)
(* arguments, the input and the included files, and then goes over the     *)
(* text once per kind of directive before it writes what is left.          *)
(* The phase "undefined" stands for a write or read outside of an object   *)
(* or of an uninitialised pointer; nothing is said of what follows.        *)
(***************************************************************************)
EXTENDS PpText

CONSTANTS
  Inputs,    \* the invocations: [argv, stdin, files, dirs], see Init
  MaxDepth   \* nested solveInclude calls that fit on the stack

ASSUME DepthAssumption == MaxDepth \in Nat \ {0}

VARIABLES
  input,     \* the invocation
  phase,     \* where the program is
  argi,      \* main: the argument it looks at
  H,         \* the symbol table
  paths,     \* main: the directories given with -I
  filename,  \* main: filenameIn, <<>> for the standard input
  texts,     \* the text of main and of each solveInclude call in progress
  solved,    \* has the innermost solveInclude found no more includes?
  appears,   \* per line: flagAppers
  stale,     \* was the memory of a line with flagUndef = 1 freed?
  junk,      \* the lines whose uninitialised flagUndef is 1
  next,      \* solveTextFile: the line it writes next
  out        \* the lines written

vars == <<input, phase, argi, H, paths, filename, texts, solved, appears, stale, junk, next, out>>

Text == texts[1]

-----------------------------------------------------------------------------
(* Lines and their flags.                                                  *)

\* makeLinesFromText: feof is only noticed after one more fgets, so that a
\* file that ends in a newline has an empty line at its end.  On stdin fgets
\* itself ends the loop.
FileLines(content) ==
  IF FromEnd(Last(content), 1) = NL THEN Append(content, <<>>) ELSE content

\* What putFlagsLines takes each line for.  A line behind an open or inside
\* line of a #define over several lines is never looked at otherwise.
Roles(text) ==
  LET role[i \in 1..Len(text)] ==
        LET L == text[i]
        IN  IF checkDefine(L) THEN "define"
            ELSE IF checkIncludes(L) THEN "include"
            ELSE IF checkMultipleDefine(L) THEN "open"
            ELSE IF i > 1 /\ role[i - 1] \in {"open", "inside"}
            THEN IF checkInsideMultipleDefine(L) THEN "inside"
                 ELSE IF checkEndMultipleDefine(L) THEN "end" ELSE "none"
            ELSE IF condition(L).type # "" THEN condition(L).type
            ELSE IF checkUndef(L) THEN "undef" ELSE "text"
  IN  [i \in 1..Len(text) |-> role[i]]

\* putFlagsLines: flagAppers by the kind of line.
FlagAppears(role) ==
  CASE role \in {"text", "undef"} -> 1
    [] role = "none"              -> -1
    [] OTHER                      -> 0

\* posBeginIf, posElse, ...: the last line of that kind, 0 for -1.
LastOf(roles, role) == SelectLastInSeq(roles, LAMBDA r : r = role)

\* putFlagsLines marks the line behind each conditional; behind the last line
\* there is none.
MarksBeyond(text) == text # <<>> /\ Last(Roles(text)) \in Conditionals

FirstInclude(roles) == SelectInSeq(roles, LAMBDA r : r = "include")

\* Mutant of addSubtextToText: nrLines is counted down once more than lines go.
addSubtextLosesLine(text, sub, pos) ==
  SubSeq(text, 1, pos - 1) \o sub \o Chop(After(text, pos))

addSubtextToText(text, sub, pos) == SubSeq(text, 1, pos - 1) \o sub \o After(text, pos)

\* What comes of opening a file and reading it: a name with a slash is copied
\* over a string literal, and of an empty file an uninitialised line is read.
Reading(name) ==
  CASE Contains(name, "/")             -> "undefined"
    [] name \notin DOMAIN input.files  -> "exit"
    [] input.files[name] = <<>>        -> "undefined"
    [] MarksBeyond(FileLines(input.files[name])) -> "undefined"
    [] OTHER                           -> "ok"

\* The file is looked for in every -I directory and in the current one.
validPath(name) ==
  name \in DOMAIN input.files \/ \E d \in paths : <<d, name>> \in input.dirs

-----------------------------------------------------------------------------

\* argv is a sequence of [opt, val], where val is empty for an option that
\* stands alone and opt is empty for other words; files are the contents of
\* the files one can open from the current directory, dirs the files found in
\* other directories.
Init ==
  /\ input \in Inputs
  /\ phase = "args" /\ argi = 1
  /\ H = <<>>
  /\ paths = {} /\ filename = <<>>
  /\ texts = <<>> /\ solved = FALSE
  /\ appears = <<>> /\ stale = FALSE /\ junk = {}
  /\ next = 1 /\ out = <<>>

argv == input.argv
Alone(arg) == arg.opt # "" /\ arg.val = <<>>
Written(arg) == IF arg.opt = "" THEN arg.val ELSE <<arg.opt>> \o arg.val

\* A word is the input file unless it follows an option that stands alone.
Interpret(arg) ==
  LET value == IF Alone(arg) THEN Written(argv[argi + 1]) ELSE arg.val
      skip == argi > 1 /\ Alone(argv[argi - 1])
  IN  /\ H' = IF arg.opt = "-D" THEN makeSymbol(H, value) ELSE H
      /\ paths' = IF arg.opt = "-I" THEN paths \cup {value} ELSE paths
      /\ filename' = IF arg.opt = "" /\ ~skip THEN arg.val ELSE filename

\* One round of the loop over argv.  -Idir and -ofile free a pointer they have
\* moved, and an option that comes last takes argv[argc].
ParseArg ==
  /\ phase = "args" /\ argi <= Len(argv)
  /\ LET arg == argv[argi]
         bad == \/ Alone(arg) /\ argi = Len(argv)
                \/ arg.opt \in {"-I", "-o"} /\ ~Alone(arg)
     IN  IF bad
         THEN phase' = "undefined" /\ UNCHANGED <<H, paths, filename>>
         ELSE /\ Interpret(arg)
              /\ phase' = IF Overrun(H') THEN "undefined" ELSE "args"
  /\ argi' = argi + 1
  /\ UNCHANGED <<input, texts, solved, appears, stale, junk, next, out>>

\* makeLinesFromText and the first putFlagsLines.
MakeLines ==
  /\ phase = "args" /\ argi > Len(argv)
  /\ LET read == IF filename # <<>> THEN Reading(filename)
                 ELSE IF MarksBeyond(input.stdin) THEN "undefined" ELSE "ok"
     IN  /\ phase' = IF read = "ok" THEN "include" ELSE read
         /\ texts' = IF read # "ok" THEN texts
                     ELSE <<IF filename = <<>> THEN input.stdin
                            ELSE FileLines(input.files[filename])>>
  /\ UNCHANGED <<input, argi, H, paths, filename, solved, appears, stale, junk, next, out>>

\* solveInclude finds an #include and reads the file; it calls itself if there
\* is an #include in it.
OpenInclude ==
  /\ phase = "include" /\ ~solved
  /\ \E pos \in {FirstInclude(Roles(Last(texts)))} :
       IF pos = 0
       THEN solved' = TRUE /\ UNCHANGED <<phase, texts>>
       ELSE \E name \in {getIncludeFile(Last(texts)[pos])} :
            \E read \in {IF ~validPath(name) THEN "exit"
                         ELSE IF Len(texts) > MaxDepth THEN "undefined" ELSE Reading(name)} :
              /\ phase' = IF read = "ok" THEN phase ELSE read
              /\ texts' = IF read = "ok" THEN Append(texts, FileLines(input.files[name])) ELSE texts
              /\ UNCHANGED solved
  /\ UNCHANGED <<input, argi, H, paths, filename, appears, stale, junk, next, out>>

\* The included text takes the place of its #include.  All lines from there on
\* are new and have no flags, so that the loop finds no further #include.
\* flagUndef is not among the flags setFlags clears.
AddSubtext ==
  /\ phase = "include" /\ solved /\ Len(texts) > 1
  /\ LET n == Len(texts)
         sub == texts[n]
         pos == FirstInclude(Roles(texts[n - 1]))
         text == addSubtextToText(texts[n - 1], sub, pos)
     IN  /\ texts' = Append(SubSeq(texts, 1, n - 2), text)
         /\ stale' = (stale \/ (n > 2 /\ Contains(Roles(sub), "undef")))
         /\ IF n = 2 /\ stale
            THEN \E i \in (pos - 1)..Len(text) : junk' = {i} \ {pos - 1}
            ELSE junk' = {}
  /\ UNCHANGED <<input, phase, argi, H, paths, filename, solved, appears, next, out>>

-----------------------------------------------------------------------------
(* solveTextFile                                                           *)

OnlyFlags == UNCHANGED <<input, argi, H, paths, filename, texts, solved, stale, junk, next, out>>
OnlyTable == UNCHANGED <<input, argi, paths, filename, texts, solved, appears, stale, junk, next, out>>

\* resetPositions and the second putFlagsLines.
PutFlags ==
  /\ phase = "include" /\ solved /\ Len(texts) = 1
  /\ phase' = IF MarksBeyond(Text) THEN "undefined" ELSE "define"
  /\ \E roles \in {Roles(Text)} : appears' = [i \in DOMAIN roles |-> FlagAppears(roles[i])]
  /\ OnlyFlags

\* interpretSimpleDefine: wherever the #define stands, and without its last
\* character, which need not be a newline.
SimpleDefines ==
  phase = "define" /\
  LET defines == SelectSeq(Text, LAMBDA L : checkDefine(L))
      Define(h, L) == LET s == Chop(L)
                      IN  makeSymbol(h, After(s, SelectInSeq(s, LAMBDA c : c = " ")))
  IN  /\ H' = FoldLeft(Define, H, defines)
      /\ phase' = IF Overrun(H') THEN "undefined" ELSE "if"
      /\ OnlyTable

\* Mutant of Behind: the line of the directive itself.
BehindItself(flags, pos, value) == IF pos = 0 THEN flags ELSE [flags EXCEPT ![pos] = value]

\* The flags with that of the line behind pos, if there is a pos, set to value.
Behind(flags, pos, value) == IF pos = 0 THEN flags ELSE [flags EXCEPT ![pos + 1] = value]

\* interpretIf_EndifBlock: the last #if, #elif, #else and #endif of the text,
\* and one line behind each of them.
IfBlock ==
  phase = "if" /\ \E roles \in {Roles(Text)} :
  \E pIf \in {LastOf(roles, "#if")}, pElif \in {LastOf(roles, "#elif")},
     pElse \in {LastOf(roles, "#else")}, pEnd \in {LastOf(roles, "#endif")} :
  LET Truths(p) == IF p = 0 THEN {0} ELSE Truth(H, condition(Text[p]).expr)
      Flag(truth) == IF truth = 1 THEN 1 ELSE 0
      ElseFlag(flags, if, elif) ==
        IF if # 0 \/ elif = 1 THEN 0 ELSE IF pElif = 0 THEN 1 ELSE flags[pElse + 1]
  IN  /\ phase' = "multiple"
      /\ IF pIf = 0 \/ pEnd = 0 THEN UNCHANGED appears
         ELSE \E if \in Truths(pIf), elif \in Truths(pElif) :
                LET branches == Behind(Behind(appears, pIf, Flag(if)), pElif, Flag(elif))
                    else == IF pElse = 0 THEN branches
                            ELSE Behind(branches, pElse, ElseFlag(branches, if, elif))
                IN  appears' = Behind(else, pEnd, 1)
      /\ OnlyFlags

\* interpretMulDefine: the last #define over several lines; one word of its
\* first line, two of every other.
Continuation(line) ==
  LET s == IF FromEnd(line, 2) = Backslash THEN Chop(Chop(line))
           ELSE IF FromEnd(line, 1) = NL THEN Chop(line) ELSE line
      w == Tokens(s, {" "})
  IN  FlattenSeq([i \in 1..Len(w) |-> IF i <= 2 THEN <<" ">> \o w[i] ELSE <<>>])

MulDefine ==
  phase = "multiple" /\ \E roles \in {Roles(Text)} :
  \E pOpen \in {LastOf(roles, "open")}, pEnd \in {LastOf(roles, "end")} :
  LET first == Chop(Text[pOpen])
      rest == FlattenSeq([i \in 1..(pEnd - pOpen) |-> Continuation(Text[pOpen + i])])
      unset == pOpen # 0 /\ pEnd # 0 /\ Word(first, 3) = <<>>
  IN  /\ H' = IF pOpen = 0 \/ pEnd = 0 THEN H
              ELSE makeSymbol(H, Word(first, 2) \o <<" ">> \o Word(first, 3) \o rest)
      /\ phase' = IF Overrun(H') \/ unset THEN "undefined" ELSE "ifdef"
      /\ OnlyTable

\* interpretIfdef_IfndefBlock.  A #define behind either is not printed.
IfdefBlock ==
  phase = "ifdef" /\ \E roles \in {Roles(Text)} :
  \E pIfdef \in {LastOf(roles, "#ifdef")}, pIfndef \in {LastOf(roles, "#ifndef")},
     pEnd \in {LastOf(roles, "#endif")} :
  LET Known(p) == found(H, condition(Text[p]).expr)
      Flag(p) == IF p # 0 /\ Known(p) /\ ~checkDefine(Text[p + 1]) THEN 1 ELSE 0
      blocks == Behind(Behind(appears, pIfdef, Flag(pIfdef)), pIfndef, Flag(pIfndef))
  IN  /\ phase' = "output"
      /\ appears' = IF pEnd = 0 THEN appears
                    ELSE IF pIfndef = 0 THEN blocks ELSE Behind(blocks, pEnd, 1)
      /\ OnlyFlags

\* One round of the loop that writes the lines.
OutputLine ==
  /\ phase = "output" /\ next <= Len(Text)
  /\ LET line == Text[next]
         flagUndef == Roles(Text)[next] = "undef" \/ next \in junk
         new == interpretSymbols(H', line)
     IN  /\ H' = IF appears[next] = 1 /\ checkUndef(line) THEN undefSymbol(H, line) ELSE H
         /\ IF appears[next] # 1 \/ flagUndef THEN UNCHANGED <<out, phase>>
            ELSE IF ~new.ok THEN phase' = "undefined" /\ UNCHANGED out
            ELSE /\ out' = Append(out, IF FromEnd(new.text, 1) = NL THEN Chop(new.text) ELSE new.text)
                 /\ UNCHANGED phase
  /\ next' = next + 1
  /\ UNCHANGED <<input, argi, paths, filename, texts, solved, appears, stale, junk>>

Finish ==
  /\ phase = "output" /\ next > Len(Text)
  /\ phase' = "done"
  /\ UNCHANGED <<input, argi, H, paths, filename, texts, solved, appears, stale, junk, next, out>>

Next ==
  \/ ParseArg \/ MakeLines \/ OpenInclude \/ AddSubtext
  \/ PutFlags \/ SimpleDefines \/ IfBlock \/ MulDefine \/ IfdefBlock
  \/ OutputLine \/ Finish

Spec == Init /\ [][Next]_vars
=============================================================================
