--------------------------- MODULE ParallelFgrep ---------------------------
(***************************************************************************)
(* Linux/Lab8/4-pfgrep: how parallel_fgrep cuts a file into one chunk per  *)
(* thread and what each thread counts in its chunk.  The file is mapped,   *)
(* so the bytes behind its end, up to the end of the page, read as 0.      *)
(* size_t is unsigned: a difference below 0 wraps round.                   *)
(***************************************************************************)
EXTENDS Integers, Sequences, FiniteSets

CONSTANT NUM_THREADS
ASSUME NUM_THREADS_Assumption == NUM_THREADS \in Nat \ {0, 1}

SIZE_MOD == 2^30        \* bound: stands for 2^64, above any size used here
size_t(n) == n % SIZE_MOD
ChunkMin(a, b) == IF a < b THEN a ELSE b

\* memcmp at offset i of the mapping; the bytes behind the file are no letters.
MatchAt(text, string, i) ==
  i + Len(string) <= Len(text) /\ SubSeq(text, i + 1, i + Len(string)) = string

\* count over the where_size bytes from mem: the loop goes on from i with the
\* matches found so far.  -1 when the loop's bound wrapped round: i then runs
\* out of the mapping.
count(text, string, mem, where_size) ==
  LET bound == size_t(where_size - Len(string) + 1)
      from[i \in 0..where_size + Len(string)] ==
        IF i >= bound THEN 0
        ELSE IF MatchAt(text, string, mem + i) THEN 1 + from[i + Len(string)]
        ELSE from[i + 1]
  IN IF bound > where_size + 1 THEN -1 ELSE from[0]

\* Mutant of th_params: a chunk ends where the next one begins.
NoOverlap(text, string) ==
  LET chunk == (Len(text) + NUM_THREADS - 1) \div NUM_THREADS
  IN [i \in 0..NUM_THREADS - 1 |-> [mem |-> i * chunk,
        size |-> IF i = NUM_THREADS - 1
                 THEN ChunkMin(chunk, size_t(Len(text) - i * chunk)) ELSE chunk]]

\* split_file_mapping: every chunk but the last reaches string_size - 1 bytes
\* into the next; the one before a short last chunk ends with the file.
th_params(text, string) ==
  LET chunk == (Len(text) + NUM_THREADS - 1) \div NUM_THREADS
      last  == NUM_THREADS - 1
      rest  == ChunkMin(chunk, size_t(Len(text) - last * chunk))
      size(i) == CASE i = last -> rest
                   [] i = last - 1 /\ Len(string) - 1 > rest -> chunk + rest
                   [] OTHER -> chunk + Len(string) - 1
  IN [i \in 0..last |-> [mem |-> i * chunk, size |-> size(i)]]

\* thread_code
chunk_result(text, string, i) ==
  LET p == th_params(text, string)[i] IN count(text, string, p.mem, p.size)

\* serial_fgrep: the whole file in one go.
serial_total(text, string) == count(text, string, 0, Len(text))

\* Can two occurrences of the string share bytes?  The serial count skips the
\* second, a chunk that begins in between counts it.
SelfOverlaps(string) ==
  \E k \in 1..Len(string) - 1 :
    SubSeq(string, 1, k) = SubSeq(string, Len(string) - k + 1, Len(string))

\* The chunks start inside the file, and the last has room for the string but
\* for one byte: otherwise count's bound wraps round in the last thread.
Fits(text, string) ==
  LET p == th_params(text, string)[NUM_THREADS - 1]
  IN /\ p.mem <= Len(text) /\ p.size >= Len(string) - 1
     /\ Len(text) >= Len(string)
=============================================================================
