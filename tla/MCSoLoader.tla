----------------------------- MODULE MCSoLoader -----------------------------
EXTENDS SoLoader

\* Text of one page and a bit that starts inside a page; data whose image
\* ends in the middle of a page and is followed by a page of bss.  WriteOnly
\* ends with a page, and behind the end of a file that was cut short.
Text == [load |-> TRUE, vaddr |-> 1, offset |-> 1, filesz |-> 2, memsz |-> 2,
         flags |-> {"r", "x"}]
Data == [load |-> TRUE, vaddr |-> 5, offset |-> 3, filesz |-> 2, memsz |-> 4,
         flags |-> {"r", "w"}]
Note == [load |-> FALSE, vaddr |-> 0, offset |-> 0, filesz |-> 2, memsz |-> 2,
         flags |-> {"r"}]
ReadOnly == [Text EXCEPT !.flags = {"r"}]
WriteOnly == [Data EXCEPT !.flags = {"w"}, !.offset = 5, !.memsz = 3]

Executables ==
  {[valid |-> TRUE, phdrs |-> <<Note, Text, Data>>],
   [valid |-> TRUE, phdrs |-> <<WriteOnly, ReadOnly>>],
   [valid |-> TRUE, phdrs |-> <<Note>>],
   [valid |-> FALSE, phdrs |-> <<Text>>]}
=============================================================================
