# Models and proofs of the operating-systems labs and assignments

The repository holds the C solutions of one operating-systems course: three
assignments (`Tema1` a preprocessor, `Tema2` a buffered I/O library, `Tema3` an
on-demand ELF loader) and the weekly labs for Linux and Windows. There are no
tests. The parts with something to get wrong are the preprocessor's passes over
its text, the stdio library with its child processes, the loader's page-fault
handler, and the labs on threads, processes and event notification. This
directory holds TLA+ models of those parts, the TLC configurations that check
them and TLAPS proofs about eight of them: the streams of Linux and of Windows,
their child processes, the loader, producer and consumer, the epoll server, the
barrier and the tiny shells.

## 1. Inventory

| component | state | operations | interacts through | what is hard |
|---|---|---|---|---|
| `so_stdio` stream (`Tema2/tema_linux`) | `SO_FILE`: buffer, position in it, position in the file, bytes read ahead, last operation, eof and error flags; the kernel's file and offset | `so_fopen`, `so_fgetc`, `so_fputc`, `so_fread`, `so_fwrite`, `so_fflush`, `so_fseek`, `so_fclose` | system calls that fail or are short | one buffer used for reading and writing; cached positions; failures half way |
| `so_stdio` stream (`Tema2/tema_windows`) | the same, with the count of bytes in the buffer | the same calls over a `HANDLE` | `ReadFile`, `WriteFile`, `SetFilePointer` | reads and writes mixed without a flush; append without `O_APPEND` |
| `so_popen`/`so_pclose` (both) | a stream per child, its pipe, inherited pipe ends | open, close, the write in `so_fflush` | pipes, fork, wait, SIGPIPE | blocking on a child that blocks on another child |
| ELF loader (`Tema3`) | segments, page protections, memory | `so_parse_exec`, `so_execute`, `segv_handler`, `mappingPage` | SIGSEGV and retried accesses | page arithmetic at both ends of a segment; faults in mapped pages |
| producer/consumer (`Linux/Lab8/7-prodcons`) | buffer, count, mutex, two condition variables | the loop bodies of the two threads | mutex, conditions | lost wakeups: signals at two counts only |
| epoll server (`Linux/Lab11/2-epollpipe`) | eventfd counter, pipes, `recv_msgs` | client, server loop | eventfd, pipes, epoll, wait | order of events; several writers of one counter |
| threshold barrier (`Windows/Lab9/6-barrier`) | count, mutex, event | `WaitThresholdBarrier` | mutex, pulsed event | missed pulses; threads of two rounds at once |
| preprocessor (`Tema1`) | the text as lines with flags, the symbol table, the include paths | `main`'s arguments, inclusion, one pass per kind of directive, output | files | passes over the whole text instead of one from top to bottom; splicing of lines |
| thread labs (`Linux/Lab8`, `Lab11/1`, `Lab11/4`, `Windows/Lab9`, `Lab10`) | mutexes, semaphores, counters, pipes, pending writes | chefs, one-time initialisation, blocked searches, spin lock, shared statics, interlocked counter, timer, parallel fgrep, poll server, three kinds of asynchronous writes | the same | deadlock by lock order, unlocked access, completions in any order, borders of chunks |
| tiny shells (`Linux/Lab3/3-tiny`, `Windows/Lab3/2-tiny`) | variables, the line being run, children, the pipe | parse, set, run, redirect, pipe | fork, exec, wait, inherited handles | a failed exec leaves a second shell; who holds an end of the pipe |
| not modelled | | | | fifo/pipe/signal labs, copy loops, the TransmitFile server (section 6) |
| left out | | | | memory demonstrations, hello-world and debugging exercises, `dorm_room.c` and `sort.c` (the synchronisation is an empty exercise), IDE project files |

What makes each part correct is listed with its module below, and each hazard
at its line in `PROJECT.json`.

## 2. Modules

| module | models | kind |
|---|---|---|
| `SoUtils` | `utils.c`, and files, for both versions of `so_stdio` | operators |
| `SoStdio` | one `SO_FILE` over one file, calls in any order | state machine |
| `ByteStream` | what a caller relies on: a file and a position, no buffer | abstract specification |
| `SoStdioClient` | `SoStdio` under a caller that keeps stdio's rules; refines `ByteStream` | composition, refinement |
| `SoStdioProofs` | what holds for any caller; the refinement | proofs |
| `SoStdioWin` | the Windows `SO_FILE`, calls in any order | state machine |
| `SoStdioWinClient` | `SoStdioWin` under a caller that mixes reads and writes; implements `ByteStream` | composition, refinement |
| `SoStdioWinProofs` | type, position, appending, the refinement | proofs |
| `SoPopen`, `SoPopenProofs` | several piped children at once, on either system; proofs | state machine with fairness |
| `SoLoader`, `SoLoaderProofs` | parsing of program headers and demand paging; proofs | state machine with fairness |
| `ProdCons`, `ProdConsProofs` | the two threads; proofs | state machine with fairness |
| `EpollServer`, `EpollServerProofs` | clients and server; proofs | state machine with fairness |
| `Barrier`, `BarrierProofs` | the barrier and its threads; proofs | state machine with fairness |
| `PpText` | the text helpers of the preprocessor: what a line is, the symbol table, substitution | operators |
| `Preprocessor` | `main` and the passes of `configText.c`, one action each | state machine |
| `PpReference` | a line-by-line preprocessor, and when `Preprocessor` must agree with it | reference definition |
| `ParallelFgrep` | the chunks of `parallel_fgrep.c` and the counts of both greps | operators |
| `LabPrograms` | the threads of thirteen labs as sequences of steps | programs as data |
| `ThreadLabs` | the meaning of each kind of step; one lab per behaviour | state machine |
| `ShellLine` | what the two shells make of a line | operators |
| `TinyShell`, `TinyShellProofs` | the shells, the processes they start, the pipe; proofs | state machine with fairness |
| `MC*` | constants TLC cannot take from a `.cfg` | |

### so_stdio

One action per call; `so_fread` and `so_fwrite` take one step per byte because
each byte may make a system call of its own outcome. Each call is first written
as the set of its outcomes (`Fgetc`, `Fputc`, `Fflush`, `Fseek`), so that calls
which call each other compose as in the C code. `read`, `write` and `lseek` are
external: `SysRead` and the others give every result POSIX allows, errors for
the calls in `Faults` and short counts if `ShortIO`. `_lastOperation` keeps only what
`strstr` looks for in it. A process that dereferences the stream after freeing
it (a failed flush or close in `so_fclose`) is `crashed`.

Without any rule for the caller (`SoStdio_any`) the model shows that `_buffer` is never indexed out of its bounds (`TypeOK`), that streams of
mode `r`, `a` and `a+` never damage what the file held (`FilePreserved`), and
which calls can end the process (`CrashOnlyOnMisuse`; `close` does not fail in
this run, because a failed one always does). That property lists the crashes
the code has, a division by an item size of 0 and a stream used after `so_fclose`
freed it, and shows that there are no others. The code keeps positions in `int`;
files here are shorter than 2 GB, where that changes nothing.

For a caller that puts a flush or seek between reading and writing
(`SoStdioClient`) the buffer is invisible: `ImplementsByteStream`. The mapping
takes the file to be the kernel's file with the unwritten bytes laid over it,
and the position to be `so_ftell`. Three more conditions were needed for it to
hold, each of which is a limit of the library: `so_fread` only directly after
repositioning, no `SEEK_CUR` after a read (run `SoStdio_seekcur` shows what
happens then), and writes that are never short (`so_fflush` takes a short write
for a complete one). `TellAgrees` and `ReadAheadIsFile` say why the refinement
holds.

### so_stdio for Windows

The outcomes of a call are written as in `SoStdio`, with one more: a call that
hangs. `WriteFile`, `ReadFile` and `CloseHandle` return a `BOOL`, which the code
compares with -1, so that it sees none of their failures: a failed write is
tried for ever, a failed read looks like the end of the file. Unlike Linux,
`so_fgetc` and `so_fputc` may follow each other: one writes what is pending, the
other moves the file pointer back over the bytes read ahead. `TypeOK`,
`TellAgrees` and `ImplementsByteStream` show that any alternation of the two
works. `so_fputc` moves to the end of an append stream by hand, and
`FilePreserved` shows that this is in time. The refinement of `ByteStream` is
stated for the streams that do not append, whose position is where the next
byte goes.

The conditions it needs: no `so_fread` after a byte put (it forgets the pending
bytes), no `so_fwrite` of zero items after a byte taken or on `a+` (it records a
write; `so_fwrite` of one item or more ends the process, because line 237 calls
`so_fgetc` with the byte as the stream), no failing read, no byte 255 (`so_fread`
takes it for the end), and an uninitialised `seek` (line 310) that does not
happen to hold 1: with `JunkSeek` the next byte can go anywhere.

### so_popen

Streams are numbered in order of creation; the system is chosen at the start.
A child keeps a copy of every pipe end its parent had open (`inherits`): on Linux
nothing is close-on-exec, on Windows `SetHandleInformation` takes the caller's
end out. Bytes are counted. Each command reads its input to the end or not
(`patient`). `HeldOnlyByLater` and `PcloseReturns` together say when `so_pclose`
returns: on Linux closing in last-in-first-out order always works and another
order can block, on Windows every order works. On Windows the results of
`CreateProcess` and `WriteFile` are compared with -1, which a `BOOL` never is: a
stream may have no process behind it, and `so_fflush` to a command that has gone
never ends (`caller = "looping"`). A failing `CreatePipe` leaves the handles
uninitialised and is left out. Fairness: the calls in progress and the commands
run; nobody has to open, close or end early.

### Loader

Addresses count cells, a few to a page, and the file's cell at offset `i` holds
`i`, so that `ImageIsFile` compares the mapped memory with the program headers
directly, independent of the page arithmetic of `so_parse_exec` and
`mappingPage`. `sigaction` is called without `SA_SIGINFO`; what the handler
receives is then undefined, so each fault may also kill the process
(`HandlerDies`, which is not fair: a fault that the handler never resolves
counts as an access that never completes). `ParseExec` is the set of the
segment tables `so_parse_exec` can build, which has one element; `segs` is
chosen from it.
`WritesAreAllowed`: although each page is mapped writable to be filled, the
program never gets to change one that its headers make read-only. (Executable
pages stay writable, `loader.c:72-73`.) `WritesSurvive` is limited to accesses the
headers permit: a forbidden access to a mapped page makes the handler map it
afresh for ever, and what the program wrote there is lost. What `read` gives
behind the end of the file (`FileCell`) is external.

### Producer and consumer

Each thread's loop body is `Lock`, `Test` (the `while` with
`pthread_cond_wait`), `Insert` or `Remove`, `Signal`, `Unlock`; `Join` is the
end of `run_threads` and the start of the next. `pthread_cond_wait` may wake
spuriously. Fairness: weak for every step, strong for taking the mutex, because
a thread that asks for a mutex that is released again and again gets it in the
end. Spurious wakeups are not fair: liveness does not lean on them.

### epoll server

The eventfd counter keeps its width: `2 * Half - 2` is its maximum, `Half` is
`MAGIC_EXIT`. A write that would exceed it blocks, which is why two exits can
never be added up. `epoll_wait` may report any ready source. Fairness: every
process runs; each writer of the eventfd gets its turn in the end.

`CountIsClosed` is about exits. The code's own comment calls `recv_msgs` the
number of received messages, which it is not (section 5).
The 0 that line 119 stores behind a message, one byte past `msg`, is left out.

### Barrier

`SignalObjectAndWait` is two steps, as Windows does not promise that it is one,
and `PulseEvent` may pass over a waiting thread, which a kernel APC can take out
of its wait for a moment: `Pulse` lets any set of waiting threads be away. A
thread that misses the pulse in one of these two ways may stay for ever, and
there is no other way to be stuck (`OnlyMissedPulses`, with the history variable
`missed`); nobody leaves early. Fairness: threads run, and a mutex is
granted in the order of requests. (The comment on `hEvent`
at `barrier.c:13` calls the event auto-resetting; line 36 creates a manual-reset
one, and the model follows the code.)

### Preprocessor

A line is a sequence of characters, because the program works on characters: it
cuts, searches and overwrites them, and the properties are about the lines that
come out. `Preprocessor` has one action for each step of `main` (`ParseArg`,
`MakeLines`), for the recursion of `solveInclude` (`OpenInclude`, `AddSubtext`),
and for each pass of `solveTextFile` (`PutFlags`, `SimpleDefines`, `IfBlock`,
`MulDefine`, `IfdefBlock`, `OutputLine`). The phase `undefined` stands for a
write outside of an object or the use of an uninitialised pointer; nothing is
said of what follows it. A value read uninitialised is a choice (`junk`,
`Truth`).

`OutputIsCpp` compares the lines written with those of a preprocessor that goes
through the text once from top to bottom (`Cpp` in `PpReference`), for inputs
within the limits found on the way, which `PpReference` states as conditions.
The limits are facts about the code:

- every simple `#define` takes effect before any other directive, also behind
  its use and in a branch that is not taken;
- the last character of a `#define` line is dropped, newline or not;
- only the last `#if`, `#elif`, `#else` and `#endif` of a text count, and one
  line per branch; the lines of `#if` and of `#elif` can both be written;
- `#ifndef` does what `#ifdef` does (`configText.c:450-455`);
- a symbol in a condition that is not defined leaves `trueOrFalse` uninitialised;
- only the first `#include` of each text is expanded, and a file that is found
  only by `-I` is not opened; files that include each other recurse without end;
- `-Idir` and `-ofile` in one word free a moved pointer; a file name with a `/`
  writes to a string literal;
- an empty file, or a text that ends with a conditional, is read past its end;
- `#undef` leaves the name with an empty value; a second symbol in one line
  costs a character; a symbol directly before the newline is not replaced.

`IncludesSpliced` has no such limits: after any nesting of inclusions the text
is the one in which every expanded `#include` is replaced by its file.

### Thread labs

The labs are small and alike: a few threads, each a straight line of steps on
shared objects. `LabPrograms` therefore gives each thread as a sequence of
steps, translated from its function, and `ThreadLabs` gives each kind of step
one action. `v++` is a read and a write, so that a missing lock shows. A lab is
chosen at the start of a behaviour. External are the scheduler, the semaphores
of Windows, the completions of writes and the timer queue.

`OneHolder` and `OnlyKnownDeadlocks` are about the chefs and the locks: cake
against marshmallows (`2-debug.c:90` asks the reader to "Fix the order"), and the
two searches of `blocked2.c` can get stuck, and the run reaches both. So can
`kaio.c`: it waits for all its writes although `io_submit` may have accepted only
some (`SubmitWrites`), since it tests for a negative result only. There is no
other way.

`RaceFree` says that no two threads are ever about to touch one variable, one of
them writing. It says nothing of the timer, whose callback uses its count without
a lock (two of them may release the semaphore twice, which ends the process), nor
of `found` in the searches: `factorial` is always 0, so that nothing is ever
found and the unlocked write of `blocked.c:117-119` is never reached.

`Outcomes` says what each program has done when it ends. `parallel_fgrep` agrees
with `serial_fgrep` for strings that cannot overlap themselves (`SelfOverlaps`)
and files that fill their chunks (`Fits`). For others a subtraction of `size_t`
wraps round and the loop leaves the mapping; of these the property says nothing.
Nothing is claimed of what `once.c` does in the end, which contradicts its
comments (section 5); the lock around its count is part of `RaceFree`.

### Tiny shells

A process is a record; `Forks` copies the shell's as `fork` does, with the lines
buffered in its `stdin`. When `execvp` fails the child returns into `main`'s
loop (`ChildExecs`): there is one more shell while the first waits for it.
`OneReader` and `RepeatBound` say what this can and cannot do: the shells never
compete for a line, a line typed is run once, but lines that come through a pipe
are run again by each of the shells, up to `2^failed` times.
A `>` is for one command, but not always: the child of `nosuch > f` redirects
its own output before `execvp` fails, and as a shell it writes its prompts, and
runs the lines that follow, into `f`. `RedirectionsExplained` says that this is
the only exception: the first shell keeps the terminal, and every other shell
has the output of the line that left it behind, while the shell that waits for
it has its own.

The Windows shell ends when a variable is not set, when a line has only blanks,
when a command is too long or does not exist. The words before a `|` are neither
expanded nor redirected, and a redirection of the second command is ignored.
`Answers`: the shell comes back to its prompt, except from a pipeline whose
second command ended (`yes | true`), or never started, while the first has more
to write than the pipe holds: the first inherited `hRead`, so its write blocks instead of
failing (`Hung`). Fairness is weak for the next-state relation as a whole: as
long as some process can go on, one does, and all runs of commands are finite.

## 3. Runs and bounds

`PROJECT.json` lists every run with what it shows. The bounds:

| run | bounds | why they are enough |
|---|---|---|
| `SoStdio_*`, `SoStdioClient` | buffer of 2 bytes, files and positions up to 3 or 4, two byte values | every boundary of the buffer (empty, partly full, full, refilled) and positions before, inside and behind the file occur; byte 200 shows the sign of `char` |
| `SoStdioWin` | buffer of 2 bytes, files and positions up to 4, all modes | the same boundaries |
| `SoPopen` | 2 streams, pipe of 1 byte, 2 bytes each way | full pipes and an inherited end need no more; 3 streams with 1 byte each way hold as well |
| `SoLoader` | pages of 2 cells, 6 pages, 4 executables | segments that start and end inside a page, one that ends with a page, a bss page, a truncated file |
| `ProdCons` | the code's own sizes | |
| `EpollServer` | 5 clients | an event merged needs two |
| `Barrier` | the code's 5 threads and 2 rounds | |
| `Preprocessor` | the texts of `MCPreprocessor`: up to nine lines, three names, three files; inclusions up to `MaxDepth` deep | families that each vary one kind of directive: every branch of a group, every order of three definitions and uses, three files including one another, up to three arguments |
| `ThreadLabs` | 3 threads, 2 rounds, `LIMIT` 4, 5 timer periods, files of 3 to 6 letters and strings of 1 to 3 | every pair of threads and a bystander; counters that wrap; chunks with and without a short last one |
| `TinyShell` | every sequence of up to 3 of 17 lines, commands of 3 words, a pipe of 1 byte, 8 processes | two failed commands and a line behind them; a pipe too small for its writer, with a second command that reads all, some or none of it |

Deadlock checking is off in all of them, since each program ends, and an
unending caller of a library may stop.

## 4. Proofs

`ProdConsProofs` proves `TypeOK`, `MutualExclusion`, `ItemsConserved` and
`NoLostWakeup` for every `BUFFER_SIZE > 0`, every `NR_ITERATIONS` and every
number of rounds. The four together are not inductive: `Knows` adds what each
thread knows at its place in the loop (a thread about to insert knows that the
buffer is not full, a sleeping thread is at its wait). `InsertConserves` and
`RemoveConserves` are the two steps that move items; the buffer holds
increasing items, so the one on top is in no other slot.

`EpollServerProofs` proves `TypeOK`, `ExitsNeverMerge`, `ExitsAccounted` and
`CountIsClosed` for every number of clients and every width of the counter,
from the assumption that `MAGIC_EXIT` has none of the mask's bits. The four are
inductive together. `Events` holds the arithmetic; the count of closed pipes
uses the library's facts about cardinality.

`BarrierProofs` proves `NobodyLeavesEarly` for any number of threads and rounds.
The property compares two threads; the invariant behind it says how often the
barrier has opened (`Opened(n)`: everybody has arrived `n` or `n + 1` times, the
count is the number of the latter, nobody has left more than `n` times), which
takes the mutex (`Guarded`), the place of each thread (`Counted`) and the
library's facts about cardinality.

The first part of `SoStdioProofs` is about a caller that keeps no rules: `TypeOK` (no index outside
`_buffer`), `FilePreserved` and `CrashOnlyOnMisuse`, for every buffer size, file
and set of failing system calls. `TypeOK` is nearly inductive: `so_fread` divides
by the size of an item, so `DividesByItems` adds that a call that is still
running has a size that is not zero. Each of `Fgetc`, `Fputc`, `Fflush` and
`Fseek` has a lemma that all its outcomes are well-formed, and one per property;
a step of `Next` is a case of one of them.

Its second part is about `SoStdioClient` and proves `TellAgrees`, `ReadAheadIsFile` and the whole
refinement `ImplementsByteStream`, initial states and steps. It assumes
`Supported`, the condition under which the run checks the same three: no short
reads and writes, and no append streams. Outside of it they are false: a short
read is reported as the end of the file, a short write loses bytes, and the
`so_ftell` of an append stream does not follow the descriptor to the end. The
invariant `CInv` says that an open stream is `Settled`: the buffer is used in one
direction, a buffer being read lies directly before the descriptor's offset and
holds the file's bytes, and `so_ftell` is the offset plus what waits to be
written or minus what waits to be read. `MappedFile` computes the abstract file
from the concrete one, and the bridging lemmas (`IsGet`, `IsPut`, `IsFlush`, ...)
turn an equation between concrete streams into a step of `ByteStream`.

`SoStdioWinProofs` does the same for the Windows stream, with all four properties
of its run. `TypeOK` and `TellAgrees` hold whatever `so_fputc` finds in its
uninitialised variable and whichever calls fail; `FilePreserved` assumes
`~JunkSeek`; the refinement assumes `Reliable` (no junk, no failing read, no byte
255), the three conditions named above. The invariant `WInv` says that an open
stream is `Standing`: it is `Settled`, now with reads and writes in any order;
`so_ftell` is where the next byte goes (`AtTell`); what waits in an append stream
will go to the end (`Appending`); and after each kind of call something is known
of the buffer that makes the caller's next one safe (before a `so_fread` nothing
is pending, before an empty `so_fwrite` nothing was read ahead). A call that
hangs in `so_fflush` keeps the file as well. `so_fputc` is proved in its two
halves: `BeforePutSettled`, the move of the file pointer, and `StoreSettled`.

`SoLoaderProofs` proves `WritesAreAllowed` and `OnlyLoadedPages` for every page
size, file and set of headers, and `ImageIsFile` and `WritesSurvive` under `SeparatePages`:
no page holds cells of two loaded segments. Without it they are false, because
`mappingPage` fills a page that two segments share for one of them only (linkers
align segments so that this does not happen, and nothing in `so_parse_exec`
checks it). The invariant relates the run-time segments to the program headers
(`SegsAreLoads`) and each page to one header (`PagesAreImages`: it is not mapped,
or holds the image of that header with its protection). `MappedPage` is the page
arithmetic of the fault handler done once: the page it maps is the header's
image of that page, whether it starts before, ends behind or lies inside the
segment. That a base address exists is well-founded induction over the
addresses (`MinimumExists`).

`SoPopenProofs` proves `ClosedIsDelivered` and `HeldOnlyByLater` for any number
of streams, any size of pipe and any amount of data. The invariant follows the
bytes of each pipe (`BytesKept`: written is read plus what is in the pipe;
`FlushedFirst`: nothing is pending in a stream that waits) and the inherited
ends (`InOrder`, `FromOlder`: a child only holds what was open when it started,
and streams are numbered in the order they are opened).

`TinyShellProofs` proves `OneReader`, `RedirectionsExplained` and `RepeatBound` for
every set of inputs of any length, any number of processes and any size of the
pipe.

`OneReader` counts processes, and is inductive only with their order. Each
process that waits waits for a younger one (`WaitsForYounger`), and of two shells
that live the older waits for the one that comes next (`Chain`): so only the
youngest can be at its prompt, and a `fork` whose `execvp` failed adds one shell
at the end of the chain.

`RedirectionsExplained` uses the chain: a shell that waits for another shell does
not take a step, so it keeps the line, the redirection and the output that its
copy was made with (`CopyOf`) until the copy has come back and ended.

`RepeatBound` needs to know how often a line may still be run, by all shells
together. `Runs(a, n)` is the bound on line `n` that only counts failed commands
from line `a` on. Each live shell that still has line `n` before it has a share
of the runs (`Share`): what it may do itself, `Runs` from where it stands;
`Budget(n)` says that what has run and all shares together fit into `Runs(1, n)`.
A line that is fetched moves its run out of the share (`OwnShare`, `Spends`). A
`fork` of line `m` divides the share of the shell: what the parent keeps is
`Runs` from `m + 1` on, and the child gets as much only if `m` is known to have
failed, since otherwise it ends without coming back (`CopiesBudget`). The first
failure of `m` doubles the bound and the shares that start at or before `m`;
those behind it, of the shell that forked and of the copy, are what the doubling
has to pay for (`FailureBudget`). The sum of the shares is stated along the
chain, by a function `g` with what each shell and those it waits for may still
do, so that no recursion is needed; a power of two is the number of subsets
(`Doubled`) for the same reason. That a copy starts where its parent stands
comes from the buffers, each of which is the rest of the input from some line on
(`Piped`). Lines typed at a terminal are not buffered: each that has been read
has run once (`Typed`).

`ShellAssumption` says that inputs are sequences of lines and names the two
systems and the two kinds of standard input; nothing is assumed of the number of
processes or of the pipe.

What stays with TLC:

- liveness (`AllRoundsEnd`, `ServerExits`, `PcloseReturns`, `AccessCompletes`,
  `OnlyMissedPulses`, `Answers`) and `OnlyKnownDeadlocks`, which is about
  `ENABLED`: out of reach of the installed provers;
- `OutputIsCpp` and `IncludesSpliced`: both sides are recursive over the text,
  and recursion needs induction theorems that the provers cannot instantiate;
- `RaceFree` and `Outcomes` of `ThreadLabs`, whose thirteen programs are data, so that
  a proof would be a run of each program;
- `OneHolder` of `ThreadLabs`: the chefs are one program without a parameter, and
  none of the bounds touches it, so TLC's exploration covers all its states and a
  proof would add none;
- `SeekCurIsRelative`, which is false (section 5).

## 5. What the code does against its comments

`SoStdio_seekcur` ends in a violation: `so_fseek` with `SEEK_CUR` after a read
does not do what the header says; `findings` in `PROJECT.json` quotes the lines.
Other comments that the code contradicts, each by a few lines that can be read
without a model:

- `once.c`: the comments want `init_func` to run once, for the first thread, and
  `deinit_func` once, for the last (lines 34, 49, 76, 91). `init_func` never
  runs, since the count is tested for 0 after it was increased (lines 79-80).
  `deinit_func` runs for a thread that leaves one other behind (lines 95-96): not
  at all or up to `NUM_THREADS - 1` times, never for the last.
- `epoll.c`: `recv_msgs` is declared as the "number of received messages" (line
  89) but counts exits. When a client's exit is reported first its pipe is
  closed and its message is lost.

Other facts are limits of the code that no comment contradicts: a thread can
miss the pulse of `barrier.c`, `kaio.c` does not look at how many requests were
accepted, and those of the preprocessor are listed above. The properties of
those modules name these exceptions.

## 6. Not modelled, and plan

- Fifo, pipe and signal labs: one message, or a handler that prints. Copy, crc
  and cat: sequential loops over `read` and `write`. The TransmitFile server:
  one call of the system. TLS: nothing is shared.
- Preprocessor lines beyond 255 characters, texts beyond 256 lines, failing
  allocations; shell lines beyond their buffers, more than seven arguments, and
  commands that read the shell's own standard input.
- The lab programs for any number of threads: `LabPrograms` unrolls loops and
  names three workers, so `RaceFree` and `Outcomes` are checked at that size only.
