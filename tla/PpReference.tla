---------------------------- MODULE PpReference ----------------------------
(***************************************************************************)
(* What Preprocessor promises: for the inputs it supports, the lines it    *)
(* writes are those of a C preprocessor, up to empty lines.                *)
(***************************************************************************)
EXTENDS Preprocessor, FiniteSets, Functions

Main == IF filename = <<>> THEN input.stdin ELSE input.files[filename]
AllTexts == {Main} \cup {input.files[f] : f \in DOMAIN input.files}

\* A text with every #include replaced by the text of its file.
Expanded ==
  LET Lines(text, of) ==
        FlattenSeq([i \in 1..Len(text) |->
          LET name == getIncludeFile(text[i])
          IN  IF checkIncludes(text[i]) /\ name \in DOMAIN of THEN of[name] ELSE <<text[i]>>])
      all[n \in 0..MaxDepth] ==
        IF n = 0 THEN input.files
        ELSE [f \in DOMAIN input.files |-> Lines(input.files[f], all[n - 1])]
  IN  Lines(Main, all[MaxDepth])

\* Lines that end in a backslash are joined to the next.
Joined(text) ==
  LET Join(a, L) == IF a # <<>> /\ FromEnd(Last(a), 2) = Backslash
                    THEN Append(Front(a), Chop(Chop(Last(a))) \o L) ELSE Append(a, L)
  IN  FoldLeft(Join, <<>>, text)

Words(L) == Tokens(L, {" ", NL})
Directive(L) == IF Words(L) = <<>> THEN <<>> ELSE Words(L)[1]
IsDirective(L) == Directive(L) \in {<<d>> : d \in Conditionals \cup {"#define", "#undef", "#include"}}

\* The words of a line from the nth, one space apart.
From(L, n) ==
  LET w == Words(L)
  IN  IF n > Len(w) THEN <<>>
      ELSE Chop(FlattenSeq([i \in 1..(Len(w) - n + 1) |-> Append(w[n + i - 1], " ")]))

\* A line with every token that is a name replaced.
Substitute(defs, L) ==
  LET Value(w) == IF w \in DOMAIN defs THEN defs[w] ELSE w
      Add(a, c) == IF c \in Delims \cup {NL}
                   THEN [line |-> Append(a.line \o Value(a.word), c), word |-> <<>>]
                   ELSE [a EXCEPT !.word = Append(@, c)]
      all == FoldLeft(Add, [line |-> <<>>, word |-> <<>>], L)
  IN  all.line \o Value(all.word)

\* The symbols given with -D name=value.
CommandLine ==
  LET Defines(i) == \/ argv[i].opt = "-D" /\ ~Alone(argv[i])
                    \/ argv[i].opt = "" /\ i > 1 /\ argv[i - 1] = [opt |-> "-D", val |-> <<>>]
      Add(defs, i) ==
        LET s == argv[i].val   n == SelectInSeq(s, LAMBDA c : c = "=")
        IN  IF n = 0 \/ ~Defines(i) THEN defs ELSE (SubSeq(s, 1, n - 1) :> After(s, n)) @@ defs
  IN  FoldLeftDomain(Add, <<>>, argv)

\* A C preprocessor: the symbols, the open #if groups, innermost last (is this
\* branch active, was one taken), and the lines written.
Cpp ==
  LET Active(a) == \A g \in Range(a.groups) : g.active
      Holds(a, L) == Substitute(a.defs, Words(L)[2]) = <<"1">>
      Branch(b, before) == [active |-> b /\ ~before, taken |-> b \/ before]
      Top(a, g) == [a EXCEPT !.groups = Append(Front(@), g)]
      Push(a, b) == [a EXCEPT !.groups = Append(@, Branch(b, FALSE))]
      Step(a, L) ==
        CASE Directive(L) = <<"#if">>     -> Push(a, Holds(a, L))
          [] Directive(L) = <<"#ifdef">>  -> Push(a, Words(L)[2] \in DOMAIN a.defs)
          [] Directive(L) = <<"#ifndef">> -> Push(a, Words(L)[2] \notin DOMAIN a.defs)
          [] Directive(L) = <<"#elif">>   -> Top(a, Branch(Holds(a, L), Last(a.groups).taken))
          [] Directive(L) = <<"#else">>   -> Top(a, Branch(TRUE, Last(a.groups).taken))
          [] Directive(L) = <<"#endif">>  -> [a EXCEPT !.groups = Front(@)]
          [] ~Active(a)                   -> a
          [] OTHER ->
             CASE Directive(L) = <<"#define">> -> [a EXCEPT !.defs = (Words(L)[2] :> From(L, 3)) @@ @]
               [] Directive(L) = <<"#undef">>  ->
                    [a EXCEPT !.defs = [k \in DOMAIN @ \ {Words(L)[2]} |-> @[k]]]
               [] OTHER -> [a EXCEPT !.out = Append(@, Chop(Substitute(a.defs, L)))]
  IN  FoldLeft(Step, [defs |-> CommandLine, groups |-> <<>>, out |-> <<>>], Joined(Expanded)).out

NotBlank(text) == SelectSeq(text, LAMBDA L : L # <<>>)

-----------------------------------------------------------------------------
(* The inputs the program supports.  raw is the text with its inclusions,  *)
(* text the same with its lines joined, given the symbols of -D.           *)

Is(L, d) == Directive(L) = <<d>>
LinesWith(text, d) == {i \in DOMAIN text : Is(text[i], d)}
Occurrences(name, L) == {i \in 0..(Len(L) - Len(name)) : SubSeq(L, i + 1, i + Len(name)) = name}

\* Options with their value, one input, every file can be opened here.
PlainInvocation ==
  LET operands == {i \in DOMAIN argv : argv[i].opt = "" /\ (i = 1 \/ ~Alone(argv[i - 1]))}
  IN  /\ \A i \in DOMAIN argv :
           /\ Alone(argv[i]) => i < Len(argv) /\ argv[i + 1].opt = ""
           /\ argv[i].opt \in {"-I", "-o"} => Alone(argv[i])
           /\ argv[i].opt = "-D" => Contains(argv[IF Alone(argv[i]) THEN i + 1 ELSE i].val, "=")
      /\ \A i \in operands : argv[i].val \in DOMAIN input.files
      /\ Cardinality(operands) <= 1

\* Every line ends in a newline, and at most one of a file is an #include; no
\* file is empty, and the standard input does not end with a conditional.
PlainFiles ==
  /\ \A f \in DOMAIN input.files : input.files[f] # <<>>
  /\ filename = <<>> => ~MarksBeyond(input.stdin)
  /\ \A text \in AllTexts :
       /\ \A i \in DOMAIN text : FromEnd(text[i], 1) = NL
       /\ Cardinality(LinesWith(text, "#include")) <= 1
  /\ LinesWith(Expanded, "#include") = {}

\* A name is defined once, to something without a name in it; only one
\* #define has several lines, with one word in the first and at most two in
\* the others.
PlainDefines(raw, text, given) ==
  LET defines == LinesWith(text, "#define")
      Count(L) == Len(Words(SelectSeq(L, LAMBDA c : c # Backslash)))
      names == DOMAIN given \cup {Words(text[i])[2] : i \in defines}
      values == {given[k] : k \in DOMAIN given} \cup {From(text[i], 3) : i \in defines}
  IN  /\ \A i, j \in defines : Words(text[i])[2] = Words(text[j])[2] => i = j
      /\ \A i \in defines : Words(text[i])[2] \notin DOMAIN given
      /\ \A k \in names, v \in values : ~IsInside(k, v)
      /\ \E roles \in {Roles(raw)} :
           /\ \A i \in DOMAIN raw :
                /\ roles[i] = "open" => Count(raw[i]) = 3 /\ i < Len(raw)
                /\ roles[i] \in {"inside", "end"} => Count(raw[i]) <= 2
                /\ roles[i] # "none"
           /\ Cardinality({i \in DOMAIN raw : roles[i] = "open"}) <= 1

\* Where the lines of the text that define or undefine name stand.
DefinedAt(text, name) == {i \in LinesWith(text, "#define") : Words(text[i])[2] = name}
UndefinedAt(text, name) == {i \in LinesWith(text, "#undef") : Words(text[i])[2] = name}
KnownAt(text, name, n) ==
  /\ \A i \in DefinedAt(text, name) : i < n
  /\ \A i \in UndefinedAt(text, name) : i > n

\* A line holds at most one name, once, with a delimiter behind it, and not
\* after its #undef.
PlainUses(text, given) ==
  LET names == DOMAIN given \cup {Words(text[i])[2] : i \in LinesWith(text, "#define")}
  IN  \A n \in DOMAIN text :
        LET L == text[n]
            used == {t \in Range(Tokens(L, Delims \cup {NL})) : t \in names}
        IN  ~IsDirective(L) /\ used # {} =>
              \E name \in used :
                 /\ used = {name} /\ Cardinality(Occurrences(name, L)) = 1
                 /\ FromEnd(L, 2) \in Delims /\ ~Contains(L, Quote)
                 /\ KnownAt(text, name, n)

\* One #if with one line in each branch, of which the #if and the #elif are
\* not both taken, or one #ifdef; no #ifndef; text, if anything, behind it.
PlainCondition(raw, text, given) ==
  LET at(d) == LinesWith(text, d)
      groups == at("#if") \cup at("#ifdef") \cup at("#ifndef")
      value(e) == IF e \in DOMAIN given THEN given[e]
                  ELSE IF DefinedAt(text, e) = {} THEN e
                  ELSE From(text[CHOOSE i \in DefinedAt(text, e) : TRUE], 3)
      expr(i) == Words(text[i])[2]
      simple(e) == \A i \in DOMAIN raw : Roles(raw)[i] = "open" => Words(raw[i])[2] # e
      middle == at("#if") \cup at("#elif") \cup at("#else") \cup at("#ifdef")
  IN  /\ Cardinality(groups) <= 1 /\ at("#ifndef") = {}
      /\ \A d \in {"#elif", "#else", "#endif"} : Cardinality(at(d)) <= Cardinality(groups)
      /\ Cardinality(at("#endif")) = Cardinality(groups)
      /\ at("#ifdef") # {} => at("#elif") \cup at("#else") = {}
      /\ \A i \in middle : i + 2 <= Len(text) /\ ~IsDirective(text[i + 1]) /\ i + 2 \in middle \cup at("#endif")
      /\ \A i \in at("#elif") : \E j \in groups : j < i
      /\ \A i \in at("#else") : (\E j \in groups : j < i) /\ \A j \in at("#elif") : j < i
      /\ \A i \in at("#endif") : \A j \in middle : j < i
      /\ \A i \in at("#endif") : i < Len(text) => ~IsDirective(text[i + 1])
      /\ \A i \in at("#if") \cup at("#elif") :
           /\ value(expr(i)) \in {<<"0">>, <<"1">>} /\ KnownAt(text, expr(i), i) /\ simple(expr(i))
      /\ \A i \in at("#if"), j \in at("#elif") : value(expr(i)) = <<"0">> \/ value(expr(j)) = <<"0">>
      /\ \A i \in at("#ifdef") : KnownAt(text, expr(i), i)

Supported ==
  /\ PlainInvocation /\ PlainFiles
  /\ \E raw \in {Expanded}, given \in {CommandLine} : \E text \in {Joined(raw)} :
       /\ PlainDefines(raw, text, given)
       /\ PlainUses(text, given)
       /\ PlainCondition(raw, text, given)

\* For every supported input the program ends well, and what it writes is the
\* output of a C preprocessor: each pass over the whole text (definitions,
\* conditionals, definitions over several lines, #ifdef) does what a reading
\* from top to bottom does.  The flag that nothing initialises can still drop
\* a line of an included file (junk).
OutputIsCpp ==
  (phase \in {"done", "exit", "undefined"} /\ Supported /\ junk = {}) =>
     phase = "done" /\ NotBlank(out) = NotBlank(Cpp)

\* A text with its first #include, and only that, replaced by the text of its
\* file, in which the same has been done.
FirstExpanded ==
  LET Splice(text, of) ==
        LET pos == FirstInclude(Roles(text))
            name == getIncludeFile(text[pos])
        IN  IF pos = 0 \/ name \notin DOMAIN of THEN text
            ELSE FlattenSeq([i \in DOMAIN text |-> IF i = pos THEN of[name] ELSE <<text[i]>>])
      readable == {f \in DOMAIN input.files : input.files[f] # <<>>}
      files == [f \in readable |-> FileLines(input.files[f])]
      all[n \in 0..MaxDepth] ==
        IF n = 0 THEN files ELSE [f \in DOMAIN files |-> Splice(files[f], all[n - 1])]
  IN  Splice(IF filename = <<>> THEN input.stdin ELSE files[filename], all[MaxDepth])

\* However the files include each other, the text that is interpreted holds
\* every line of every file that was spliced in, in order; none is lost or
\* overwritten by the splicing in place, at any depth.
IncludesSpliced ==
  phase \in {"define", "done"} => Text = FirstExpanded
=============================================================================
