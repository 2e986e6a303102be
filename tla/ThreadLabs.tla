----------------------------- MODULE ThreadLabs -----------------------------
(***************************************************************************)
(* One of the laboratory programs of LabPrograms, its threads interleaved  *)
(* step by step.  todo[t] is what thread t still has to do; each action    *)
(* below is the meaning of one kind of step.  v++ is two steps, a read and *)
(* a write, so that a missing lock shows.                                  *)
(***************************************************************************)
EXTENDS LabPrograms

CONSTANT Labs    \* the programs a behaviour may run

VARIABLES
  lab,      \* the program this behaviour runs
  todo,     \* per thread: the steps it still has to take
  started,  \* the threads that exist
  owner,    \* the held mutexes -> the thread that holds them
  sem,      \* per semaphore, event, port, pipe or eventfd: its count
  mem,      \* the shared and reported variables; absent means 0
  io,       \* per file: "idle" | "pending" | "done" | "disposed" | "lost"
  process   \* "running" | "died": has a DIE ended the process?

vars == <<lab, todo, started, owner, sem, mem, io, process>>

Threads == DOMAIN todo
Semaphores == Ingredients \cup ToSet(Pipes) \cup {Event(f) : f \in ToSet(Files)}
                \cup {"barrier", "finished", "iocp", "efd"}
Value(v) == IF v \in DOMAIN mem THEN mem[v] ELSE 0
With(f, x, y) == (x :> y) @@ f

Init ==
  /\ lab \in Labs
  /\ todo = Code(lab)
  /\ started = {"main"}
  /\ owner = <<>>
  /\ sem = [s \in Semaphores |-> Initially(s)]
  /\ mem = <<>>
  /\ io = [f \in ToSet(Files) |-> "idle"]
  /\ process = "running"

\* The process runs until main returns or a DIE ends it.
Running == process = "running" /\ todo["main"] # <<>>

\* Thread t is at a step of this kind, takes it, and goes on with these steps.
Now(t) == Head(todo[t])
At(t, op) == Running /\ t \in started /\ todo[t] # <<>> /\ Now(t).op = op
Go(t, steps) == todo' = [todo EXCEPT ![t] = steps \o Tail(@)] /\ UNCHANGED lab

LockMutex(t) ==
  /\ At(t, "lock") /\ Go(t, <<>>)
  /\ Now(t).on \notin DOMAIN owner
  /\ owner' = With(owner, Now(t).on, t)
  /\ UNCHANGED <<started, sem, mem, io, process>>

\* glibc's default mutex does not check who unlocks it.
UnlockMutex(t) ==
  /\ At(t, "unlock") /\ Go(t, <<>>)
  /\ owner' = [m \in DOMAIN owner \ {Now(t).on} |-> owner[m]]
  /\ UNCHANGED <<started, sem, mem, io, process>>

DownSemaphore(t) ==
  /\ At(t, "down") /\ Go(t, <<>>)
  /\ sem[Now(t).on] >= Now(t).n
  /\ sem' = [sem EXCEPT ![Now(t).on] = @ - Now(t).n]
  /\ UNCHANGED <<started, owner, mem, io, process>>

UpSemaphore(t) ==
  /\ At(t, "up") /\ Go(t, <<>>)
  /\ IF sem[Now(t).on] + Now(t).n > Maximum(Now(t).on)
       THEN process' = "died" /\ UNCHANGED sem
       ELSE sem' = [sem EXCEPT ![Now(t).on] = @ + Now(t).n] /\ UNCHANGED process
  /\ UNCHANGED <<started, owner, mem, io>>

\* The second half of pthread_barrier_wait.
AwaitBarrier(t) ==
  /\ At(t, "await") /\ Go(t, <<>>)
  /\ sem[Now(t).on] >= Now(t).n
  /\ UNCHANGED <<started, owner, sem, mem, io, process>>

\* read on an eventfd: blocks at 0, returns the counter and resets it; the
\* loop around it goes on until Now(t).n completions were seen.
ReadEventfd(t) ==
  /\ At(t, "takeall")
  /\ sem[Now(t).on] > 0
  /\ Go(t, IF sem[Now(t).on] >= Now(t).n THEN <<>> ELSE <<TakeAll(Now(t).on, Now(t).n - sem[Now(t).on])>>)
  /\ sem' = [sem EXCEPT ![Now(t).on] = 0]
  /\ UNCHANGED <<started, owner, mem, io, process>>

AddToVariable(t) ==
  /\ At(t, "add") /\ Go(t, <<Put(Now(t).on, Value(Now(t).on) + Now(t).n)>>)
  /\ UNCHANGED <<started, owner, sem, mem, io, process>>

PutVariable(t) ==
  /\ At(t, "put") /\ Go(t, <<>>)
  /\ mem' = With(mem, Now(t).on, Now(t).n)
  /\ UNCHANGED <<started, owner, sem, io, process>>

TestVariable(t) ==
  /\ At(t, "if") /\ Go(t, IF Value(Now(t).on) = Now(t).n THEN Now(t).then ELSE Now(t).else)
  /\ UNCHANGED <<started, owner, sem, mem, io, process>>

GatherVariable(t) ==
  /\ At(t, "gather") /\ Go(t, <<>>)
  /\ mem' = With(mem, Now(t).on, Value(Now(t).on) + Value(Now(t).then[1]))
  /\ UNCHANGED <<started, owner, sem, io, process>>

SpawnThread(t) ==
  /\ At(t, "spawn") /\ Go(t, <<>>)
  /\ started' = started \cup {Now(t).on}
  /\ UNCHANGED <<owner, sem, mem, io, process>>

JoinThread(t) ==
  /\ At(t, "join") /\ Go(t, <<>>)
  /\ Now(t).on \in started /\ todo[Now(t).on] = <<>>
  /\ UNCHANGED <<started, owner, sem, mem, io, process>>

\* poll returns the pipes that can be read now; each is read, and the loop's
\* condition is tested again.  A pipe whose writers are gone and that is empty
\* reports POLLHUP, not POLLIN, and is passed over.
PollPipes(t) ==
  /\ At(t, "poll")
  /\ LET readable == SelectSeq(Now(t).then, LAMBDA p : sem[p] > 0)
     IN /\ readable # <<>>
        /\ Go(t, FlattenSeq(Each(readable, Receive)) \o <<ServerLoop>>)
  /\ UNCHANGED <<started, owner, sem, mem, io, process>>

SubmitWrite(t) ==
  /\ At(t, "submit") /\ Go(t, <<>>)
  /\ io' = [io EXCEPT ![Now(t).on] = "pending"]
  /\ UNCHANGED <<started, owner, sem, mem, process>>

\* io_submit takes as many of the requests as the system has room for, from the
\* first on; do_io_async only tests that it took any (rc < 0 ends in DIE).
SubmitWrites(t) ==
  /\ At(t, "submitall") /\ Go(t, <<>>)
  /\ \E n \in DOMAIN Now(t).then :
       io' = [f \in DOMAIN io |-> IF f \in ToSet(SubSeq(Now(t).then, 1, n))
                                 THEN "pending" ELSE io[f]]
  /\ UNCHANGED <<started, owner, sem, mem, process>>

\* The file is closed, its OVERLAPPED structure freed.
DisposeWrite(t) ==
  /\ At(t, "dispose") /\ Go(t, <<>>)
  /\ io' = [io EXCEPT ![Now(t).on] = IF @ = "pending" THEN "lost" ELSE "disposed"]
  /\ UNCHANGED <<started, owner, sem, mem, process>>

\* The system finishes a write and tells the program.
CompleteWrite(f) ==
  /\ Running /\ io[f] = "pending"
  /\ io' = [io EXCEPT ![f] = "done"]
  /\ sem' = [sem EXCEPT ![NotifiedBy(lab.name, f)] = @ + 1]
  /\ UNCHANGED <<lab, todo, started, owner, mem, process>>

\* A period of the timer is over: the pool runs the callback once more.
TimerFires(k) ==
  /\ Running /\ Value("timer") = 1
  /\ Ticks[k] \in Threads \ started
  /\ \A j \in 1..k - 1 : Ticks[j] \in started
  /\ started' = started \cup {Ticks[k]}
  /\ UNCHANGED <<lab, todo, owner, sem, mem, io, process>>

ThreadStep(t) ==
  \/ LockMutex(t) \/ UnlockMutex(t) \/ DownSemaphore(t) \/ UpSemaphore(t)
  \/ AwaitBarrier(t) \/ ReadEventfd(t)
  \/ AddToVariable(t) \/ PutVariable(t) \/ TestVariable(t) \/ GatherVariable(t)
  \/ SpawnThread(t) \/ JoinThread(t) \/ PollPipes(t)
  \/ SubmitWrite(t) \/ SubmitWrites(t) \/ DisposeWrite(t)

Next ==
  \/ \E t \in Threads : ThreadStep(t)
  \/ \E f \in ToSet(Files) : CompleteWrite(f)
  \/ \E k \in DOMAIN Ticks : TimerFires(k)

Spec == Init /\ [][Next]_vars

-----------------------------------------------------------------------------
\* A chef holds what it still has to give back and no longer has to take.
Holds(t, s) == Contains(todo[t], Up(s)) /\ ~Contains(todo[t], Down(s))

\* An ingredient is on the table or in the hands of one chef, never both and
\* never of two, although the chefs give back in another order than they take;
\* so no ReleaseSemaphore goes beyond the maximum and ends the process.
OneHolder ==
  lab.name = "chefs" =>
    /\ process = "running"
    /\ \A s \in Ingredients :
         sem[s] + Cardinality({t \in ToSet(Chefs) : Holds(t, s)}) = 1

\* The variables the next step of a thread changes, and those it reads.
Writing(t) == IF Now(t).op \in {"add", "put"} THEN {Now(t).on} ELSE {}
Reading(t) ==
  CASE Now(t).op = "if" -> {Now(t).on}
    [] Now(t).op = "gather" -> ToSet(Now(t).then)
    [] OTHER -> {}

\* No two threads are about to touch the same variable, one of them writing
\* it: the locks, the joins and the barrier order all accesses, of the counters
\* and of main's report.  Two limits.  The timer's callback is left out: its
\* static count has no lock, and two callbacks may overlap.  And of `found' in
\* blocked.c and blocked2.c this says nothing: is_super_number is never true, so
\* that found is only read, and the write of blocked.c:117-119, behind the
\* unlock, which would race, is dead code.
RaceFree ==
  Running /\ lab.name # "timer" =>
    \A t, u \in {v \in started : todo[v] # <<>>} :
      t # u => Writing(t) \cap (Writing(u) \cup Reading(u)) = {}

\* Three programs can block for ever, each in one way only: the cake has the
\* sugar and waits for the milk while the marshmallows have all but the sugar
\* (the order of tiramisu goes with both); in blocked2 each search has its own
\* mutex and wants the other's; and kaio waits for all its writes when io_submit
\* took only some of them, and those are done.  No other lab gets stuck, whatever
\* the scheduling and the order of the completions.  The timer stops at the bound
\* on its periods, or ends in DIE when two callbacks release the semaphore, which
\* this allows.
OnlyKnownDeadlocks ==
  Running /\ ~ENABLED Next =>
    \/ /\ lab.name = "chefs"
       /\ \A s \in Ingredients :
            /\ Holds("MakeCake", s) <=> s = "Sugar"
            /\ Holds("MakeMarshmallows", s) <=> s # "Sugar"
            /\ ~Holds("MakeTiramisu", s)
    \/ /\ lab.name = "blocked2"
       /\ owner = [data_x |-> "routine_x", data_y |-> "routine_y"]
    \/ /\ lab.name = "kaio" /\ Now("main").op = "takeall"
       /\ {io[f] : f \in ToSet(Files)} = {"idle", "done"}
    \/ lab.name = "timer" /\ ToSet(Ticks) \subseteq started   \* the bound

\* What each program has done when main returns.  blocked: factorial is 0, so
\* nothing is found.  The counters are what one thread after the other would
\* leave.  pfgrep: the count of serial_fgrep, for a string that cannot overlap
\* itself and a file whose last chunk has room for it (Fits); a shorter last
\* chunk makes count's bound wrap round and is not judged.  pollpipe: each client
\* counted once, every pipe read.  Asynchronous writes: all finished before their
\* files were closed, and each completion was consumed.  once.c is not judged: what
\* it does is not what its comments ask for.
Outcomes ==
  todo["main"] = <<>> /\ process = "running" =>
    CASE lab.name \in {"blocked", "blocked2"} ->
           Value("data_x.found") = 0 /\ Value("data_y.found") = 0
      [] lab.name = "spin" -> Value("shared") = NW * Rounds
      [] lab.name = "safety" ->
           /\ Value("global_storage") = (NW + 1) * Rounds
           /\ Value("thread_function.static") = NW * Rounds
           /\ Value("main.static") = Rounds
      [] lab.name = "interlocked" -> Value("count") = (NW * Rounds) % LIMIT
      [] lab.name = "timer" -> Cardinality(started) > TIMES
      [] lab.name = "pfgrep" ->
           ~SelfOverlaps(lab.string) /\ Fits(lab.text, lab.string) =>
             Value("total") = serial_total(lab.text, lab.string)
      [] lab.name = "pollpipe" ->
           Value("recv_msgs") = NW /\ \A p \in ToSet(Pipes) : sem[p] = 0
      [] lab.name \in {"overlapped", "iocp", "kaio"} ->
           /\ \A f \in ToSet(Files) : io[f] = "disposed"
           /\ \A f \in ToSet(Files) : sem[NotifiedBy(lab.name, f)] = 0
      [] OTHER -> TRUE

=============================================================================
