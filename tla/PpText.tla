------------------------------- MODULE PpText -------------------------------
(***************************************************************************)
(* Tema1-Preprocesor: the symbol table (hashmap.c, makeSymbol) and what    *)
(* defines.c, conditions.c, includes.c and interpretSymbols do to a line.  *)
(* A line is a sequence of characters; the name of a directive, the name   *)
(* of a file and a word nobody looks into count as one character each.     *)
(***************************************************************************)
EXTENDS Integers, Sequences, SequencesExt, TLC

NL == "\n"
Backslash == "\\"
Quote == "\""

\* strtok over s: the longest runs of characters that are not delimiters.
Tokens(s, delims) ==
  LET Take(a, c) == IF c \notin delims THEN [a EXCEPT !.word = Append(@, c)]
                    ELSE IF a.word = <<>> THEN a
                    ELSE [words |-> Append(a.words, a.word), word |-> <<>>]
      upTo[i \in 0..Len(s)] ==
        IF i = 0 THEN [words |-> <<>>, word |-> <<>>] ELSE Take(upTo[i - 1], s[i])
      all == upTo[Len(s)]
  IN  IF all.word = <<>> THEN all.words ELSE Append(all.words, all.word)

\* The nth word of s; nothing if it has fewer.
Word(s, n) == LET w == Tokens(s, {" "}) IN IF n <= Len(w) THEN w[n] ELSE <<>>

\* The nth character of s from its end.
FromEnd(s, n) == IF n <= Len(s) THEN s[Len(s) - n + 1] ELSE ""

\* s[strlen(s) - 1] = '\0'
Chop(s) == IF s = <<>> THEN s ELSE Front(s)

After(s, i) == SubSeq(s, i + 1, Len(s))

-----------------------------------------------------------------------------
(* The kinds of lines.                                                     *)

checkDefine(line) ==
  Word(line, 1) = <<"#define">> /\ FromEnd(line, 2) # Backslash

checkMultipleDefine(line) ==
  /\ Word(line, 1) = <<"#define">>
  /\ FromEnd(line, 2) = Backslash /\ FromEnd(line, 1) = NL

checkInsideMultipleDefine(line) ==
  line # <<>> /\ line[1] = " " /\ FromEnd(line, 2) = Backslash

checkEndMultipleDefine(line) ==
  /\ line # <<>> /\ line[1] = " "
  /\ FromEnd(line, 2) # Backslash /\ FromEnd(line, 1) = NL

checkUndef(line) == Word(line, 1) = <<"#undef">>

\* The closing quote is looked for before the last character, so that an
\* #include without a newline behind it is not one.
checkIncludes(line) ==
  LET name == Word(Chop(line), 2)
  IN  /\ Word(Chop(line), 1) = <<"#include">>
      /\ name # <<>> /\ name[1] = Quote /\ FromEnd(name, 1) = Quote

getIncludeFile(line) == LET w == Word(line, 2) IN SubSeq(w, 2, Len(w) - 2)

Conditionals == {"#if", "#else", "#elif", "#ifdef", "#ifndef", "#endif"}

\* setType: the first and second word of a line, which also end at a newline.
condition(line) ==
  LET w == Tokens(line, {" ", NL})
  IN  [type |-> IF w # <<>> /\ w[1] \in {<<c>> : c \in Conditionals} THEN w[1][1] ELSE "",
       expr |-> IF Len(w) > 1 THEN w[2] ELSE <<>>]

-----------------------------------------------------------------------------
(* The symbol table: a function from names to their value and the room     *)
(* that was allocated for the first one.  room is -1 once a longer value   *)
(* was copied there.                                                       *)

Store(H, key, value) ==
  LET new == [value |-> value, room |-> Len(value)]
  IN  IF key \notin DOMAIN H THEN (key :> new) @@ H
      ELSE [H EXCEPT ![key] =
              [value |-> value, room |-> IF Len(value) > @.room THEN -1 ELSE @.room]]

Overrun(H) == \E key \in DOMAIN H : H[key].room = -1

\* "name value" or "name=value", cut at the first of the two characters.
makeSymbol(H, s) ==
  LET i == SelectInSeq(s, LAMBDA c : c \in {" ", "="})
  IN  IF i = 0 THEN Store(H, s, <<>>) ELSE Store(H, SubSeq(s, 1, i - 1), After(s, i))

found(H, key) == key \in DOMAIN H

\* strstr
IsInside(t, s) == \E i \in 0..(Len(s) - Len(t)) : SubSeq(s, i + 1, i + Len(t)) = t

\* A value that holds a name somewhere is interpreted word by word: a name
\* replaces everything collected so far, any other word is appended.
getValue(H, key) ==
  LET value == H[key].value
      Collect(v, w) == IF found(H, w) THEN H[w].value ELSE v \o <<" ">> \o w
  IN  IF \E k \in DOMAIN H : IsInside(k, value)
      THEN FoldLeft(Collect, value, Tokens(value, {" "}))
      ELSE value

\* undefSymbol: the name stays in the table, with an empty value.
undefSymbol(H, line) ==
  LET key == Word(Chop(line), 2)
  IN  IF found(H, key) THEN [H EXCEPT ![key].value = <<>>] ELSE H

\* evaluateCondition of an #if or #elif: what trueOrFalse may be.  It is not
\* initialised, and nothing sets it unless the value is 0 or 1; 2 stands for
\* every value that is neither.
Truth(H, expr) ==
  LET literal == expr \in {<<"0">>, <<"1">>} \/ ~found(H, expr)
      value == IF literal THEN expr ELSE getValue(H, expr)
  IN  CASE value = <<"1">> -> {1}
        [] value = <<"0">> -> {0}
        [] OTHER -> {0, 1, 2}

-----------------------------------------------------------------------------
(* interpretSymbols                                                        *)

Delims == {"\t", " ", "[", "]", "{", "}", "<", ">", "=", "+", "-", "*", "/",
           "%", "!", "&", "|", "^", ".", ",", ":", ";", "(", ")"}

\* Where name is found in s, 0 if it is not: a character behind a quote never
\* matches, and after a mismatch the search goes on with the next one.
Search(s, name) ==
  LET Look(a, i) ==
        IF a.j = Len(name) THEN a
        ELSE IF s[i] = name[a.j + 1] /\ (i = 1 \/ s[i - 1] # Quote)
             THEN [start |-> IF a.j = 0 THEN i ELSE a.start, j |-> a.j + 1]
             ELSE [start |-> 0, j |-> 0]
      end == FoldLeftDomain(Look, [start |-> 0, j |-> 0], s)
  IN  IF end.j = Len(name) THEN end.start ELSE 0

\* Each name among the tokens of the line replaces its first occurrence in the
\* line so far, whose last character is dropped each time.  new is [ok, text]:
\* not ok while nothing has been written to _newLine, or once a line did not
\* fit in oldLine.
interpretSymbols(H, line) ==
  LET names == SelectSeq(Tokens(line, Delims), LAMBDA t : found(H, t))
      Replace(new, n) ==
        LET name == names[n]
            old == Chop(IF n = 1 THEN line ELSE new.text)
            at == Search(old, name)
            fits == n = 1 \/ (new.ok /\ Len(new.text) <= Len(line) + 1)
        IN  IF ~fits THEN [ok |-> FALSE, text |-> <<>>]
            ELSE IF at = 0 THEN new
            ELSE [ok |-> TRUE,
                  text |-> SubSeq(old, 1, at - 1) \o getValue(H, name)
                             \o After(old, at - 1 + Len(name))]
  IN  IF names = <<>> THEN [ok |-> TRUE, text |-> line]
      ELSE FoldLeftDomain(Replace, [ok |-> FALSE, text |-> <<>>], names)
=============================================================================
