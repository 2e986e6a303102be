---------------------------- MODULE LabPrograms ----------------------------
(***************************************************************************)
(* The threads of the laboratory programs, as data.  Each thread is the    *)
(* sequence of the steps it takes on what it shares with others: locks,    *)
(* semaphores, variables, other threads, asynchronous writes.  Conditions  *)
(* carry both branches; loops are unrolled up to the bounds below.         *)
(* ThreadLabs gives the steps their meaning and runs one program.          *)
(***************************************************************************)
EXTENDS Integers, Sequences, SequencesExt, ParallelFgrep

Workers == <<"th1", "th2", "th3">>  \* bound: 3 for NUM_THREADS 10, NO_THREADS 23
Rounds  == 2                        \* bound: 2 for NUM_ROUNDS, NO_ITER, NO_ROUNDS
LIMIT   == 4                        \* bound: 4 for interlocked.c's 10
Ticks   == <<"tick1", "tick2", "tick3", "tick4", "tick5">> \* bound: timer periods
Files   == <<"slo", "oer", "rse", "ufver">>
NW      == Len(Workers)

-----------------------------------------------------------------------------
\* Steps.
Step(op, on, n, a, b) == [op |-> op, on |-> on, n |-> n, then |-> a, else |-> b]

Lock(m)      == Step("lock", m, 0, <<>>, <<>>)
Unlock(m)    == Step("unlock", m, 0, <<>>, <<>>)
Down(s)      == Step("down", s, 1, <<>>, <<>>)
Up(s)        == Step("up", s, 1, <<>>, <<>>)
Await(s, n)  == Step("await", s, n, <<>>, <<>>)
TakeAll(s,n) == Step("takeall", s, n, <<>>, <<>>)
Add(v, d)    == Step("add", v, d, <<>>, <<>>)
Put(v, x)    == Step("put", v, x, <<>>, <<>>)
If(v, x, a, b) == Step("if", v, x, a, b)
Read(v)      == If(v, 0, <<>>, <<>>)
Gather(v, w) == Step("gather", v, 0, <<w>>, <<>>)
Spawn(t)     == Step("spawn", t, 0, <<>>, <<>>)
Join(t)      == Step("join", t, 0, <<>>, <<>>)
Submit(f)    == Step("submit", f, 0, <<>>, <<>>)
SubmitAll(fs) == Step("submitall", "io_submit", 0, fs, <<>>)
Dispose(f)   == Step("dispose", f, 0, <<>>, <<>>)
Poll(ps)     == Step("poll", "pipes", 0, ps, <<>>)

Each(s, Op(_)) == [n \in DOMAIN s |-> Op(s[n])]
Times(n, s)    == FlattenSeq([k \in 1..n |-> s])
Locked(m, s)   == <<Lock(m)>> \o s \o <<Unlock(m)>>

\* main creates the threads in order and waits for them in order.
Start(ts)   == Each(ts, Spawn)
WaitFor(ts) == Each(ts, Join)
Process(mainCode, ts, code(_)) ==
  ("main" :> mainCode) @@ [t \in ToSet(ts) |-> code(t)]
-----------------------------------------------------------------------------
\* Windows/Lab9/2-debug: three chefs, a semaphore per ingredient, created with
\* the count 1 and the maximum 1.
Ingredients == {"Sugar", "Milk", "Eggs", "Flour"}
Chefs == <<"MakeCake", "MakeMarshmallows", "MakeTiramisu">>

\* Mutant of Recipe: tiramisu takes the milk before the sugar.
RecipeMilkFirst(chef) ==
  CASE chef = "MakeCake" -> Each(<<"Sugar", "Milk", "Eggs">>, Down)
         \o Each(<<"Eggs", "Milk", "Sugar">>, Up)
    [] chef = "MakeMarshmallows" -> Each(<<"Flour", "Milk", "Eggs", "Sugar">>, Down)
         \o Each(<<"Sugar", "Eggs", "Milk", "Flour">>, Up)
    [] chef = "MakeTiramisu" -> Each(<<"Flour", "Milk", "Eggs", "Sugar">>, Down)
         \o Each(<<"Flour", "Eggs", "Sugar", "Milk">>, Up)

\* Mutant of Recipe: the cake gives back flour, which it never took.
RecipeGivesFlour(chef) ==
  CASE chef = "MakeCake" -> Each(<<"Sugar", "Milk", "Eggs">>, Down)
         \o Each(<<"Eggs", "Milk", "Flour">>, Up)
    [] chef = "MakeMarshmallows" -> Each(<<"Flour", "Milk", "Eggs", "Sugar">>, Down)
         \o Each(<<"Sugar", "Eggs", "Milk", "Flour">>, Up)
    [] chef = "MakeTiramisu" -> Each(<<"Flour", "Sugar", "Eggs", "Milk">>, Down)
         \o Each(<<"Flour", "Eggs", "Sugar", "Milk">>, Up)

Recipe(chef) ==
  CASE chef = "MakeCake" -> Each(<<"Sugar", "Milk", "Eggs">>, Down)
         \o Each(<<"Eggs", "Milk", "Sugar">>, Up)
    [] chef = "MakeMarshmallows" -> Each(<<"Flour", "Milk", "Eggs", "Sugar">>, Down)
         \o Each(<<"Sugar", "Eggs", "Milk", "Flour">>, Up)
    [] chef = "MakeTiramisu" -> Each(<<"Flour", "Sugar", "Eggs", "Milk">>, Down)
         \o Each(<<"Flour", "Eggs", "Sugar", "Milk">>, Up)

ChefsCode == Process(Start(Chefs) \o WaitFor(Chefs), Chefs, Recipe)

-----------------------------------------------------------------------------
\* Linux/Lab8/6-once.  f is run under the mutex; its runs are counted.
one_time_init ==
  Locked("once.mutex", <<Add("once.refcount", 1),
    If("once.refcount", 0, <<Add("init_func", 1)>>, <<>>)>>)
one_time_deinit ==
  Locked("once.mutex", <<Add("once.refcount", -1),
    If("once.refcount", 1, <<Add("deinit_func", 1)>>, <<>>)>>)
OnceThread(t) == one_time_init \o one_time_deinit
OnceCode == Process(Start(Workers) \o WaitFor(Workers), Workers, OnceThread)

-----------------------------------------------------------------------------
\* Linux/Lab8/5-blocked.  The product of factorial starts at 0, so that it is
\* 0 for every n but 0.
factorial(n) == IF n = 0 THEN 1 ELSE 0
is_super_number(n) == factorial(n) % 123123 = 12345
StartX == 10000
StartY == 20000
Searchers == <<"routine_x", "routine_y">>

\* One iteration; the loop ends when `finished' is set.
While(me, body) == If(me \o ".finished", 0, body, <<>>)
Search(me, bodies) == [k \in DOMAIN bodies |-> While(me, bodies[k])]
\* data_x's or data_y's found, read by the other thread under its mutex.
CheckOther(me, data) ==
  Locked(data, <<If(data \o ".found", 1, <<Put(me \o ".finished", 1)>>, <<>>)>>)

\* blocked.c: the own mutex is given back before the other is taken.
BlockedY(i) ==
  <<Lock("data_y")>> \o
  IF is_super_number(i)
  THEN <<Put("routine_y.finished", 1), Put("data_y.found", 1), Put("data_y.val", i),
         Unlock("data_y")>>
  ELSE <<Unlock("data_y")>> \o CheckOther("routine_y", "data_x")
BlockedX(i) ==
  <<Lock("data_x")>> \o
  IF is_super_number(i)
  THEN <<Put("routine_x.finished", 1), Unlock("data_x"), Put("data_x.found", 1),
         Put("data_x.val", i)>>
  ELSE <<Unlock("data_x")>> \o CheckOther("routine_x", "data_y")

\* blocked2.c: it is kept; when the number is found it is given back twice.
Blocked2(me, data, other, i) ==
  <<Lock(data)>> \o
  (IF is_super_number(i)
   THEN <<Put(me \o ".finished", 1), Put(data \o ".found", 1), Put(data \o ".val", i),
          Unlock(data)>>
   ELSE CheckOther(me, other))
  \o <<Unlock(data)>>
Blocked2Y(i) == Blocked2("routine_y", "data_y", "data_x", i)
Blocked2X(i) == Blocked2("routine_x", "data_x", "data_y", i)

\* main: x is started first, y is waited for first.
BlockedMain ==
  <<Spawn("routine_x"), Spawn("routine_y"), Join("routine_y"), Join("routine_x"),
    If("data_x.found", 1, <<Read("data_x.val")>>,
       <<If("data_y.found", 1, <<Read("data_y.val")>>, <<>>)>>)>>
BlockedCode ==
  LET code(t) == IF t = "routine_x"
                 THEN Search(t, [k \in 1..Rounds |-> BlockedX(StartX + k - 1)])
                 ELSE Search(t, [k \in 1..Rounds |-> BlockedY(StartY + k - 1)])
  IN Process(BlockedMain, Searchers, code)
Blocked2Code ==
  LET code(t) == IF t = "routine_x"
                 THEN Search(t, [k \in 1..Rounds |-> Blocked2X(StartX + k - 1)])
                 ELSE Search(t, [k \in 1..Rounds |-> Blocked2Y(StartY + k - 1)])
  IN Process(BlockedMain, Searchers, code)

-----------------------------------------------------------------------------
\* Linux/Lab8/10-spin: a barrier for all threads, then increments under the lock.
SpinThread(t) ==
  <<Up("barrier"), Await("barrier", NW)>> \o Times(Rounds, Locked("lock", <<Add("shared", 1)>>))
SpinCode ==
  Process(Start(Workers) \o WaitFor(Workers) \o <<Read("shared")>>, Workers, SpinThread)

\* Linux/Lab8/3-safety.  The two statics named function_global_storage, the
\* one of thread_function and the one of main, are different variables.
\* Mutant of Increase: the numbers are increased before the lock is taken.
IncreaseUnlocked(static, own) ==
  <<Add("global_storage", 1), Add(static, 1), Add(own, 1)>> \o Locked("lock", <<>>)
Increase(static, own) ==
  Locked("lock", <<Add("global_storage", 1), Add(static, 1), Add(own, 1)>>)
print_stats(static, own) ==
  Locked("lock", <<Read("global_storage"), Read(static), Read(own)>>)
SafetyThread(t) ==
  Times(Rounds, Increase("thread_function.static", t)) \o print_stats("thread_function.static", t)
SafetyCode ==
  Process(Start(Workers) \o Times(Rounds, Increase("main.static", "main"))
            \o WaitFor(Workers) \o print_stats("main.static", "main"),
          Workers, SafetyThread)

\* Windows/Lab9/3-interlocked, the version main runs.
InterlockedThread(t) ==
  Times(Rounds, Locked("hMutex", <<Add("count", 1), If("count", LIMIT, <<Put("count", 0)>>, <<>>)>>))
InterlockedCode ==
  Process(Start(Workers) \o WaitFor(Workers) \o <<Read("count")>>, Workers, InterlockedThread)

-----------------------------------------------------------------------------
\* Windows/Lab9/5-timer.  Each period runs TimerFunction on a thread of the
\* pool; two runs may overlap.
TIMES == 3
TimerFunction(t) == <<If("count", TIMES - 1, <<Up("finished")>>, <<Add("count", 1)>>)>>
TimerCode ==
  Process(<<Put("timer", 1), Down("finished"), Put("timer", 0)>>, Ticks, TimerFunction)

-----------------------------------------------------------------------------
\* Linux/Lab8/4-pfgrep: each thread leaves its count, main adds them.
FgrepCode(text, string) ==
  LET result(t) == t \o ".result"
      code(t) == <<Put(result(t), chunk_result(text, string, CHOOSE i \in 0..NW - 1 :
                         Workers[i + 1] = t))>>
      sum(t) == Gather("total", result(t))
  IN Process(Start(Workers) \o WaitFor(Workers) \o Each(Workers, sum), Workers, code)

-----------------------------------------------------------------------------
\* Linux/Lab11/1-pollpipe: one message per client and pipe.
Pipes == <<"pipe1", "pipe2", "pipe3">>
PipeOf(t) == Pipes[CHOOSE n \in 1..NW : Workers[n] = t]
Client(t) == <<Up(PipeOf(t))>>
\* The loop of the server, and what it does with one readable pipe.
Receive(p) == <<Add("recv_msgs", 1), Down(p)>>
ServerLoop == If("recv_msgs", NW, <<>>, <<Poll(Pipes)>>)
PollCode == Process(Start(Workers) \o <<ServerLoop>> \o WaitFor(Workers), Workers, Client)

-----------------------------------------------------------------------------
\* Asynchronous writes, one per file.  The event of the OVERLAPPED structure,
\* the completion port or the eventfd is a semaphore the completion counts up.
Event(f) == f \o ".hEvent"
NotifiedBy(name, f) ==
  CASE name = "overlapped" -> Event(f) [] name = "iocp" -> "iocp" [] OTHER -> "efd"
NoWorkers == <<>>
Nothing(t) == <<>>

OverlappedCode ==
  LET wait(f) == Down(Event(f))
  IN Process(Each(Files, Submit) \o Each(Files, wait) \o Each(Files, Dispose), NoWorkers, Nothing)

\* Mutant of wait_io_async: one completion fewer is waited for.
WaitsOneFewer == Times(Len(Files) - 1, <<Down("iocp")>>)
\* One iocp_wait per file, whichever file it was for; then ov is freed.
wait_io_async == Times(Len(Files), <<Down("iocp")>>)
IocpCode ==
  Process(Each(Files, Submit) \o wait_io_async \o Each(Files, Dispose), NoWorkers, Nothing)

\* kaio.c: each read of the eventfd returns the completions since the last.
wait_aio == <<TakeAll("efd", Len(Files))>>
\* All writes are handed over in one call.
KaioCode ==
  Process(<<SubmitAll(Files)>> \o wait_aio \o Each(Files, Dispose), NoWorkers, Nothing)

-----------------------------------------------------------------------------
\* A lab is a program and, for pfgrep, its two arguments.
Code(lab) ==
  CASE lab.name = "chefs" -> ChefsCode
    [] lab.name = "once" -> OnceCode
    [] lab.name = "blocked" -> BlockedCode
    [] lab.name = "blocked2" -> Blocked2Code
    [] lab.name = "spin" -> SpinCode
    [] lab.name = "safety" -> SafetyCode
    [] lab.name = "interlocked" -> InterlockedCode
    [] lab.name = "timer" -> TimerCode
    [] lab.name = "pfgrep" -> FgrepCode(lab.text, lab.string)
    [] lab.name = "pollpipe" -> PollCode
    [] lab.name = "overlapped" -> OverlappedCode
    [] lab.name = "iocp" -> IocpCode
    [] lab.name = "kaio" -> KaioCode

\* What the semaphores start with, and how far they count.
Initially(s) == IF s \in Ingredients THEN 1 ELSE 0
Maximum(s) ==
  CASE s \in Ingredients \cup {"finished"} -> 1
    [] s = "barrier" -> NW
    [] OTHER -> Len(Files)
=============================================================================
