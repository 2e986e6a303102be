---------------------------- MODULE MCTinyShell ----------------------------
(***************************************************************************)
(* TinyShell for TLC: every sequence of up to three of the lines below,    *)
(* for both shells, typed at a terminal or piped in.                       *)
(***************************************************************************)
EXTENDS TinyShell

SomeLines ==
  { ExitLine,
    EmptyLine,
    Command(<<>>),                                      \* blanks only
    AssignLine(<<Word("X"), Gt("f")>>),
    AssignLine(<<Word("X")>>),
    Command(<<Word("nosuch")>>),
    Command(<<Word("nosuch"), Gt("f")>>),
    Command(<<Word("true"), Var("X")>>),
    Command(<<Word("true"), Gt(""), Var("X"), Word("a")>>),
    Command(<<Gt("f")>>),
    Command(<<Word("true"), Gt("")>>),
    Command(<<Word("true"), Word("a"), Word("b"), Word("c")>>),
    Pipeline(<<Word("yes")>>, <<Word("cat"), Gt("f")>>),
    Pipeline(<<Word("yes")>>, <<Word("head")>>),
    Pipeline(<<Word("yes")>>, <<Word("true")>>),        \* hangs
    Pipeline(<<Word("yes"), Gt("f")>>, <<>>),
    Pipeline(<<Var("X")>>, <<Word("cat")>>) }

MCInputs == UNION {[1..n -> SomeLines] : n \in 0..3}
=============================================================================
