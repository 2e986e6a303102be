--------------------------- MODULE MCPreprocessor ---------------------------
(***************************************************************************)
(* Invocations of the preprocessor, in families that each explore one part *)
(* of it: conditionals, definitions and uses, definitions over several     *)
(* lines, included files, and the command line.                            *)
(***************************************************************************)
EXTENDS PpReference

\* Lines; A, B and AB are names, x a word that is none.
Define(name, value) == <<"#define", " ">> \o name \o <<" ">> \o value \o <<NL>>
Undef(name) == <<"#undef", " ">> \o name \o <<NL>>
Include(file) == <<"#include", " ", Quote, file, Quote, NL>>
If(d, expr) == <<d, " ">> \o expr \o <<NL>>
Bare(d) == <<d, NL>>
Said(word) == <<word, ";", NL>>

A == <<"A">>
B == <<"B">>
AB == <<"A", "B">>
One == <<"1">>
Zero == <<"0">>

File(f) == [opt |-> "", val |-> <<f>>]
Dash(o) == [opt |-> o, val |-> <<>>]
Word1(s) == [opt |-> "", val |-> s]
Attached(o, s) == [opt |-> o, val |-> s]

\* One file given as an argument, or the standard input.
OneFile(text) == [argv |-> <<File("main")>>, stdin |-> <<>>,
                  files |-> <<"main">> :> text, dirs |-> {}]
Piped(args, text) == [argv |-> args, stdin |-> text, files |-> <<>>, dirs |-> {}]
Unended(text) == Append(Front(text), Chop(Last(text)))

Optional(S) == {<<>>} \cup {<<s>> : s \in S}

\* Up to one definition, a group of branches, and what may follow it.
Ifs ==
  {d \o <<If("#if", e)>> \o <<Said("p")>> \o f \o g \o <<Bare("#endif")>> \o t :
     d \in Optional({Define(A, One), Define(A, Zero), Define(A, B)}),
     e \in {One, Zero, A},
     f \in {<<>>} \cup {<<If("#elif", c), Said("q")>> : c \in {One, Zero, A, B}},
     g \in {<<>>, <<Bare("#else"), Said("r")>>},
     t \in {<<>>, <<Said("A")>>, <<Undef(A)>>, <<If("#if", One), Said("s"), Bare("#endif")>>}}
Ifdefs ==
  {d \o <<If(c, A)>> \o b \o g \o <<Bare("#endif")>> \o t :
     d \in {<<>>, <<Define(A, One)>>, <<Define(A, One), Undef(A)>>},
     c \in {"#ifdef", "#ifndef"},
     b \in {<<Said("p")>>, <<Define(A, One)>>, <<Define(B, One)>>},
     g \in {<<>>, <<Bare("#else"), Said("r")>>, <<Said("q")>>},
     t \in {<<>>, <<Said("A")>>, <<Said("B")>>, <<Undef(A)>>}}

\* Definitions, and lines that use a name in every way.
Uses ==
  {Said("A"), <<"A", NL>>, <<"x", "A", ";", NL>>, <<"x", " ", "A", "+", "B", ";", NL>>,
   <<"x", "A", " ", "A", ";", NL>>, <<Quote, "A", Quote, " ", "A", ";", NL>>, <<"A", "B", "+", NL>>}
Definitions ==
  {Define(A, <<"1", "0">>), Define(A, One), Define(B, A), Define(B, <<"x", " ", "A">>),
   Define(AB, <<"x">>), Define(B, <<"1", "0", "0">>), Undef(A), Undef(B)}
Programs == {<<a, b, c>> : a \in Definitions \cup {Said("A")}, b, c \in Definitions \cup Uses}

\* Definitions over several lines.
Multiples ==
  {b \o <<<<"#define", " ", "A", " ", "1", " ", Backslash, NL>>>> \o i \o e \o <<Said("A")>> :
     b \in {<<>>, <<Define(A, One)>>, <<<<"#define", " ", "B", " ", Backslash, NL>>, <<" ", "x", NL>>>>},
     i \in Optional({<<" ", "x", " ", "x", " ", Backslash, NL>>, <<" ", "x", " ", "y", " ", "z", Backslash, NL>>}),
     e \in {<<<<" ", "1", NL>>>>, <<<<" ", "A", NL>>>>, <<<<"x", NL>>>>, <<>>}}

\* Files that include each other.
Texts(t) == {<<Said(t)>>, <<Include("h1")>>, <<Include("h2"), Said(t)>>,
             <<Said(t), Include("h2"), Include("h1")>>, <<Undef(A), Said(t)>>,
             <<Said("B"), If("#if", One), Said(t), Bare("#endif")>>}
Inclusions ==
  {[argv |-> <<File("main")>>, stdin |-> <<>>, dirs |-> {},
    files |-> (<<"main">> :> <<Define(B, One)>> \o m) @@ (<<"h1">> :> a) @@ (<<"h2">> :> b)] :
     m \in Texts("p"), a \in Texts("q") \cup {<<>>, Unended(<<Said("q"), Define(A, <<"1", "0">>)>>)},
     b \in Texts("r")}

\* A file that is only found with -I, one in a subdirectory, one that includes
\* itself, none at all.
Elsewhere ==
  {[argv |-> <<Dash("-I"), File("d")>> \o m, stdin |-> <<>>, dirs |-> {<< <<"d">>, <<"h2">> >>},
    files |-> (<<"main">> :> <<Include(h), Said("p")>>)] :
     h \in {"h1", "h2", "main"}, m \in {<<File("main")>>, <<File("none")>>}}
  \cup {OneFile(<<<<"#include", " ", Quote, "d", "/", "h", Quote, NL>>>>)}

\* Arguments in every order, for one text.
Arguments == {Dash("-D"), Dash("-o"), Attached("-D", <<"A", "=", "1">>), Attached("-D", A),
              Attached("-I", <<"d">>), Attached("-o", <<"f">>), File("main"), Word1(<<"A", "=", "0">>)}
Invocations ==
  {[argv |-> args, stdin |-> <<Said("A")>>, dirs |-> {},
    files |-> (<<"main">> :> <<If("#if", A), Said("A"), Bare("#else"), Said("q"), Bare("#endif")>>)] :
     args \in BoundedSeq(Arguments, 3)}

MCInputs ==
  {OneFile(t) : t \in Ifs \cup Ifdefs \cup Multiples \cup Programs}
  \cup {Piped(<<Attached("-D", <<"A", "=", "1">>)>>, t) : t \in Ifdefs}
  \cup {Piped(<<>>, Unended(t)) : t \in Programs}
  \cup Inclusions \cup Elsewhere \cup Invocations
=============================================================================
