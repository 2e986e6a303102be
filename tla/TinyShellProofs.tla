--------------------------- MODULE TinyShellProofs ---------------------------
(***************************************************************************)
(* Proofs about the tiny shells, for every input, any number of processes  *)
(* and any size of the pipe.                                               *)
(***************************************************************************)
EXTENDS TinyShell, SequenceTheorems, FiniteSetTheorems, TLAPS

N == Len(input)
IsSequence(s) == Len(s) \in Nat /\ s = [k \in 1..Len(s) |-> s[k]]

Fields == {"role", "stdin", "stdout", "env", "buffer", "waits", "cmd", "line", "left"}

\* The processes that are shells, or copies of one that may become shells.
Live == {p \in Pids : procs[p].role \in {"shell", "dispatch", "piping", "forked"}}

\* Process p is a shell that waits for another one.
Waiting(p) ==
  procs[p].role = "shell" /\ procs[p].waits # <<>> /\ Head(procs[p].waits) \in Live

Formed ==
  /\ os \in {"linux", "windows"} /\ stdin \in {"terminal", "pipe"}
  /\ N \in Nat /\ DOMAIN input = 1..N
  /\ IsSequence(procs)
  /\ \A p \in Pids : DOMAIN procs[p] = Fields

\* A process only waits for processes that were started after it, and a copy of
\* a shell waits for nobody.
WaitsForYounger ==
  \A p \in Pids :
    /\ procs[p].waits \in Seq(Nat)
    /\ \A k \in DOMAIN procs[p].waits : procs[p].waits[k] \in (p + 1)..Len(procs)
    /\ procs[p].role \in {"dispatch", "forked"} => procs[p].waits = <<>>

\* The shells form a chain: each but the youngest waits for a younger one,
\* with no other shell between the two.
Chain ==
  \A p, q \in Live : p < q => Waiting(p) /\ Head(procs[p].waits) <= q

-----------------------------------------------------------------------------
\* Replacing a process, and adding one.
LEMMA Replaced ==
  ASSUME NEW s, IsSequence(s), NEW p \in 1..Len(s), NEW r
  PROVE  /\ IsSequence([s EXCEPT ![p] = r]) /\ Len([s EXCEPT ![p] = r]) = Len(s)
         /\ \A q \in 1..Len(s) : [s EXCEPT ![p] = r][q] = IF q = p THEN r ELSE s[q]
  <1> DEFINE S == {s[k] : k \in 1..Len(s)} \cup {r}
  <1>1. s \in Seq(S)
    BY DEF IsSequence
  <1>2. [s EXCEPT ![p] = r] \in Seq(S)
    BY <1>1, ExceptSeq
  <1>3. Len([s EXCEPT ![p] = r]) = Len(s)
    BY <1>1, ExceptSeq
  <1>4. \A q \in 1..Len(s) : [s EXCEPT ![p] = r][q] = IF q = p THEN r ELSE s[q]
    BY DEF IsSequence
  <1>5. IsSequence([s EXCEPT ![p] = r])
    BY <1>2, <1>3 DEF IsSequence
  <1> QED BY <1>3, <1>4, <1>5

LEMMA Added ==
  ASSUME NEW s, IsSequence(s), NEW e
  PROVE  /\ IsSequence(Append(s, e)) /\ Len(Append(s, e)) = Len(s) + 1
         /\ \A q \in 1..Len(s) + 1 : Append(s, e)[q] = IF q = Len(s) + 1 THEN e ELSE s[q]
  <1> DEFINE S == {s[k] : k \in 1..Len(s)} \cup {e}
  <1>1. s \in Seq(S) /\ e \in S
    BY DEF IsSequence
  <1>2. /\ Append(s, e) \in Seq(S) /\ Len(Append(s, e)) = Len(s) + 1
        /\ \A q \in 1..Len(s) + 1 : Append(s, e)[q] = IF q = Len(s) + 1 THEN e ELSE s[q]
    BY <1>1
  <1> HIDE DEF S
  <1>3. \A t \in Seq(S) : IsSequence(t)
    BY DEF IsSequence
  <1>4. IsSequence(Append(s, e))
    BY <1>2, <1>3
  <1> QED BY <1>2, <1>4


-----------------------------------------------------------------------------
\* What each action does to the processes: they are the old ones but for p,
\* and the new one, if there is one, is a command or the copy Forks makes.

Only(p) ==
  /\ Len(procs') >= Len(procs)
  /\ \A q \in Pids : q # p => procs'[q] = procs[q]

Kept(p) ==
  /\ procs'[p].buffer = procs[p].buffer /\ procs'[p].line = procs[p].line
  /\ UNCHANGED <<os, stdin, input, next, ran>>

\* A shell does not change where its own output goes.
Local(p) ==
  procs[p].role \in {"shell", "dispatch", "piping"} => procs'[p].stdout = procs[p].stdout

\* p gives up being a shell: it ends, or becomes a command.
Stops(p) ==
  /\ Only(p) /\ Len(procs') = Len(procs)
  /\ procs'[p].role \in {"ended", "command"} /\ procs'[p].waits = <<>>
  /\ procs'[p].line = 0
  /\ UNCHANGED <<os, stdin, input, next, ran>>

\* p goes on with its loop, and has started at most one command.
Loops(p) ==
  /\ Only(p) /\ Kept(p) /\ procs'[p].role \in {"shell", "piping"}
  /\ \/ Len(procs') = Len(procs) /\ procs'[p].waits = procs[p].waits
     \/ /\ Len(procs') = NewPid
        /\ procs'[p].waits \in {<<NewPid>>, Append(procs[p].waits, NewPid)}
        /\ procs'[NewPid].role = "command" /\ procs'[NewPid].waits = <<>>
        /\ procs'[NewPid].line = 0

\* p has started a copy of itself, for which it waits.
Copies(p) ==
  /\ Only(p) /\ Kept(p) /\ procs'[p].role = "shell" /\ procs'[p].waits = <<NewPid>>
  /\ Len(procs') = NewPid
  /\ procs'[NewPid].role = "forked" /\ procs'[NewPid].waits = procs[p].waits
  /\ procs'[NewPid].buffer = procs[p].buffer /\ procs'[NewPid].line = procs[p].line
  /\ procs'[NewPid].stdout = procs'[p].stdout /\ procs'[NewPid].cmd = procs'[p].cmd

\* The copy p is a shell from now on, with the output of the line that failed.
Returns(p) ==
  /\ Only(p) /\ Kept(p) /\ Len(procs') = Len(procs)
  /\ procs'[p].stdout = Redirected(p)
  /\ procs'[p].role = "shell" /\ procs'[p].waits = procs[p].waits

\* The command p goes on or ends.
Works(p) ==
  /\ procs[p].role = "command" /\ Only(p) /\ Len(procs') = Len(procs)
  /\ procs'[p].role \in {"command", "ended"}
  /\ procs'[p].waits \in {procs[p].waits, <<>>} /\ procs'[p].line \in {procs[p].line, 0}
  /\ UNCHANGED <<os, stdin, input, next, ran, failed>>

\* All processes are records of the same fields again.
Formed1 == IsSequence(procs') /\ \A q \in 1..Len(procs') : DOMAIN procs'[q] = Fields

LEMMA Changes ==
  ASSUME Formed, NEW p \in Pids, NEW r, DOMAIN r = Fields
  PROVE  procs' = [procs EXCEPT ![p] = r]
           => Formed1 /\ Only(p) /\ Len(procs') = Len(procs) /\ procs'[p] = r
  <1> DEFINE t == [procs EXCEPT ![p] = r]
  <1>1. IsSequence(procs) /\ Pids = 1..Len(procs) /\ p \in 1..Len(procs) /\ Len(procs) \in Nat
    BY DEF Formed, Pids, IsSequence
  <1>2. /\ IsSequence(t) /\ Len(t) = Len(procs)
        /\ \A q \in 1..Len(procs) : t[q] = IF q = p THEN r ELSE procs[q]
    BY <1>1, Replaced
  <1> HIDE DEF t
  <1> SUFFICES ASSUME procs' = t
               PROVE  Formed1 /\ Only(p) /\ Len(procs') = Len(procs) /\ procs'[p] = r
    BY DEF t
  <1>3. \A q \in Pids : procs'[q] = IF q = p THEN r ELSE procs[q]
    BY <1>1, <1>2
  <1>4. Len(procs') = Len(procs) /\ IsSequence(procs')
    BY <1>2
  <1>5. Only(p) /\ procs'[p] = r
    BY <1>1, <1>3, <1>4 DEF Only
  <1>6. \A q \in 1..Len(procs') : DOMAIN procs'[q] = Fields
    BY <1>1, <1>3, <1>4 DEF Formed
  <1> QED BY <1>4, <1>5, <1>6 DEF Formed1

LEMMA Starts ==
  ASSUME Formed, NEW p \in Pids, NEW r, DOMAIN r = Fields, NEW k, DOMAIN k = Fields,
         procs' = Append([procs EXCEPT ![p] = r], k)
  PROVE  /\ Formed1 /\ Only(p) /\ Len(procs') = NewPid
         /\ procs'[p] = r /\ procs'[NewPid] = k
  <1> DEFINE t == [procs EXCEPT ![p] = r]
             u == Append(t, k)
  <1>1. IsSequence(procs) /\ Pids = 1..Len(procs) /\ p \in 1..Len(procs) /\ Len(procs) \in Nat
    BY DEF Formed, Pids, IsSequence
  <1>2. /\ IsSequence(t) /\ Len(t) = Len(procs)
        /\ \A q \in 1..Len(procs) : t[q] = IF q = p THEN r ELSE procs[q]
    BY <1>1, Replaced
  <1> HIDE DEF t
  <1>3. /\ IsSequence(u) /\ Len(u) = Len(t) + 1
        /\ \A q \in 1..Len(t) + 1 : u[q] = IF q = Len(t) + 1 THEN k ELSE t[q]
    BY <1>2, Added
  <1>4. procs' = u
    BY DEF t
  <1> HIDE DEF u
  <1>5. Len(procs') = Len(procs) + 1 /\ IsSequence(procs')
    BY <1>2, <1>3, <1>4
  <1>6. \A q \in 1..Len(procs) + 1 :
          procs'[q] = IF q = Len(procs) + 1 THEN k ELSE IF q = p THEN r ELSE procs[q]
    BY <1>1, <1>2, <1>3, <1>4
  <1>7. Only(p) /\ procs'[p] = r /\ procs'[NewPid] = k /\ Len(procs') = NewPid
    BY <1>1, <1>5, <1>6 DEF Only, NewPid
  <1>8. \A q \in 1..Len(procs') : DOMAIN procs'[q] = Fields
    BY <1>1, <1>5, <1>6 DEF Formed
  <1> QED BY <1>5, <1>7, <1>8 DEF Formed1

\* A process that ends, and a new command.
LEMMA Records ==
  /\ DOMAIN Shell0 = Fields /\ Shell0.waits = <<>> /\ Shell0.line = 0
  /\ \A r : /\ DOMAIN Ended(r) = Fields /\ Ended(r).role = "ended" /\ Ended(r).waits = <<>>
            /\ Ended(r).line = 0 /\ Ended(r).stdout = r.stdout
  BY DEF Shell0, Fields, Ended

LEMMA EndsFacts ==
  ASSUME Formed, NEW p \in Pids
  PROVE  procs' = [procs EXCEPT ![p] = Ended(@)] /\ UNCHANGED <<os, stdin, input, next, ran>>
           => Formed1 /\ Stops(p) /\ Local(p)
  <1> DEFINE r == Ended(procs[p])
  <1>1. /\ DOMAIN r = Fields /\ r.role = "ended" /\ r.waits = <<>> /\ r.line = 0
        /\ r.stdout = procs[p].stdout
    BY Records
  <1> HIDE DEF r
  <1>2. procs' = [procs EXCEPT ![p] = r]
          => Formed1 /\ Only(p) /\ Len(procs') = Len(procs) /\ procs'[p] = r
    BY <1>1, Changes
  <1>3. procs' = [procs EXCEPT ![p] = Ended(@)] => procs' = [procs EXCEPT ![p] = r]
    BY DEF r
  <1> QED BY <1>1, <1>2, <1>3 DEF Stops, Local

\* The next line: it comes from the buffer, the rest of which stays there.
LEMMA FetchFacts ==
  ASSUME Formed, NEW p \in Pids, FetchLine(p)
  PROVE  /\ Formed1 /\ Only(p) /\ Len(procs') = Len(procs)
         /\ procs'[p].role = "dispatch" /\ procs'[p].waits = procs[p].waits
         /\ procs'[p].line = Head(Buffered(p)) /\ procs'[p].buffer = Tail(Buffered(p))
         /\ procs'[p].stdout = procs[p].stdout
  <1> DEFINE n == Head(Buffered(p))
             b == Tail(Buffered(p))
             c == Parse(input[n], procs[p].env)
             r == [[[[procs[p] EXCEPT !.role = "dispatch"] EXCEPT !.line = n] EXCEPT !.buffer = b]
                      EXCEPT !.cmd = c]
  <1>1. procs' = [procs EXCEPT ![p].role = "dispatch", ![p].line = n, ![p].buffer = b,
                               ![p].cmd = c]
    BY DEF FetchLine
  <1>2. DOMAIN procs[p] = Fields
    BY DEF Formed
  <1> HIDE DEF n, b, c
  <1>3. procs' = [procs EXCEPT ![p] = r]
    BY <1>1
  <1>4. /\ DOMAIN r = Fields /\ r.role = "dispatch" /\ r.waits = procs[p].waits /\ r.line = n
        /\ r.buffer = b /\ r.stdout = procs[p].stdout
    BY <1>2 DEF Fields
  <1> HIDE DEF r
  <1>5. Formed1 /\ Only(p) /\ Len(procs') = Len(procs) /\ procs'[p] = r
    BY <1>3, <1>4, Changes
  <1> QED BY <1>4, <1>5 DEF n, b


LEMMA NothingToDoFacts ==
  ASSUME Formed, NEW p \in Pids, NothingToDo(p)
  PROVE  Formed1 /\ Loops(p) /\ Local(p) /\ failed' = failed
  <1> DEFINE r == Looping(p)
  <1>1. /\ DOMAIN r = Fields /\ r.role = "shell" /\ r.waits = procs[p].waits
        /\ r.line = procs[p].line /\ r.buffer = procs[p].buffer
        /\ r.stdout = procs[p].stdout
    BY DEF Formed, Fields, Looping
  <1>2. procs' = [procs EXCEPT ![p] = r]
    BY DEF NothingToDo
  <1> HIDE DEF r
  <1>3. Formed1 /\ Only(p) /\ Len(procs') = Len(procs) /\ procs'[p] = r
    BY <1>1, <1>2, Changes
  <1> QED BY <1>1, <1>3 DEF Loops, Kept, Local, NothingToDo, Unread

LEMMA SetVarFacts ==
  ASSUME Formed, NEW p \in Pids, SetVar(p)
  PROVE  Formed1 /\ Loops(p) /\ Local(p) /\ failed' = failed
  <1> DEFINE parts == input[procs[p].line].parts
             e == (parts[1].s :> parts[2]) @@ Looping(p).env
             r == [Looping(p) EXCEPT !.env = e]
  <1>1. procs' = [procs EXCEPT ![p] = r]
    BY DEF SetVar
  <1> HIDE DEF e
  <1>2. /\ DOMAIN r = Fields /\ r.role = "shell" /\ r.waits = procs[p].waits
        /\ r.line = procs[p].line /\ r.buffer = procs[p].buffer
        /\ r.stdout = procs[p].stdout
    BY DEF Formed, Fields, Looping
  <1> HIDE DEF r
  <1>3. Formed1 /\ Only(p) /\ Len(procs') = Len(procs) /\ procs'[p] = r
    BY <1>1, <1>2, Changes
  <1> QED BY <1>2, <1>3 DEF Loops, Kept, Local, SetVar, Unread, Type

LEMMA ForksFacts ==
  ASSUME Formed, NEW p \in Pids, Forks(p)
  PROVE  Formed1 /\ (Loops(p) \/ Copies(p)) /\ Local(p) /\ failed' = failed
  <1> DEFINE r == Looping(p)
             w == [Looping(p) EXCEPT !.waits = <<NewPid>>]
             k == [Looping(p) EXCEPT !.role = "forked"]
  <1>1. /\ DOMAIN r = Fields /\ r.role = "shell" /\ r.waits = procs[p].waits
        /\ r.line = procs[p].line /\ r.buffer = procs[p].buffer
        /\ r.stdout = procs[p].stdout
    BY DEF Formed, Fields, Looping
  <1>2. /\ DOMAIN w = Fields /\ w.role = "shell" /\ w.waits = <<NewPid>>
        /\ w.line = procs[p].line /\ w.buffer = procs[p].buffer
        /\ w.stdout = procs[p].stdout /\ w.cmd = procs[p].cmd
    BY DEF Formed, Fields, Looping
  <1>3. /\ DOMAIN k = Fields /\ k.role = "forked" /\ k.waits = procs[p].waits
        /\ k.line = procs[p].line /\ k.buffer = procs[p].buffer
        /\ k.stdout = procs[p].stdout /\ k.cmd = procs[p].cmd
    BY DEF Formed, Fields, Looping
  <1>4. \/ procs' = [procs EXCEPT ![p] = r]
        \/ procs' = Append([procs EXCEPT ![p] = w], k)
    BY DEF Forks
  <1> HIDE DEF r, w, k
  <1>5. CASE procs' = [procs EXCEPT ![p] = r]
    <2>1. Formed1 /\ Only(p) /\ Len(procs') = Len(procs) /\ procs'[p] = r
      BY <1>1, <1>5, Changes
    <2> QED BY <1>1, <2>1 DEF Loops, Kept, Local, Forks, Unread
  <1>6. CASE procs' = Append([procs EXCEPT ![p] = w], k)
    <2>1. /\ Formed1 /\ Only(p) /\ Len(procs') = NewPid
          /\ procs'[p] = w /\ procs'[NewPid] = k
      BY <1>2, <1>3, <1>6, Starts
    <2> QED BY <1>2, <1>3, <2>1 DEF Copies, Kept, Local, Forks, Unread
  <1> QED BY <1>4, <1>5, <1>6

LEMMA ChildExecsFacts ==
  ASSUME Formed, NEW p \in Pids, ChildExecs(p)
  PROVE  /\ Formed1 /\ Local(p)
         /\ \/ Stops(p) /\ failed' = failed
            \/ Returns(p) /\ failed' = failed \cup {procs[p].line}
  <1> DEFINE out == IF procs[p].cmd.stdout = NoFile THEN procs[p].stdout ELSE procs[p].cmd.stdout
             c == [[Shell0 EXCEPT !.role = "command"] EXCEPT !.stdout = out]
             r == [[procs[p] EXCEPT !.role = "shell"] EXCEPT !.stdout = out]
  <1>1. Local(p)
    BY DEF Local, ChildExecs
  <1>2. \/ procs' = [procs EXCEPT ![p] = Ended(@)] /\ failed' = failed
        \/ procs' = [procs EXCEPT ![p] = c] /\ failed' = failed
        \/ procs' = [procs EXCEPT ![p] = r] /\ failed' = failed \cup {procs[p].line}
    BY DEF ChildExecs
  <1>3. UNCHANGED <<os, stdin, input, next, ran>>
    BY DEF ChildExecs
  <1> HIDE DEF out
  <1>4. DOMAIN c = Fields /\ c.role = "command" /\ c.waits = <<>> /\ c.line = 0
    BY DEF Shell0, Fields
  <1>5. /\ DOMAIN r = Fields /\ r.role = "shell" /\ r.waits = procs[p].waits
        /\ r.line = procs[p].line /\ r.buffer = procs[p].buffer /\ r.stdout = out
    BY DEF Formed, Fields
  <1> HIDE DEF c, r
  <1>6. CASE procs' = [procs EXCEPT ![p] = Ended(@)] /\ failed' = failed
    BY <1>3, <1>6, EndsFacts
  <1>7. CASE procs' = [procs EXCEPT ![p] = c] /\ failed' = failed
    <2>1. Formed1 /\ Only(p) /\ Len(procs') = Len(procs) /\ procs'[p] = c
      BY <1>4, <1>7, Changes
    <2> QED BY <1>1, <1>3, <1>4, <1>7, <2>1 DEF Stops
  <1>8. CASE procs' = [procs EXCEPT ![p] = r] /\ failed' = failed \cup {procs[p].line}
    <2>1. Formed1 /\ Only(p) /\ Len(procs') = Len(procs) /\ procs'[p] = r
      BY <1>5, <1>8, Changes
    <2>2. out = Redirected(p)
      BY DEF out, Redirected
    <2> QED BY <1>1, <1>3, <1>5, <1>8, <2>1, <2>2 DEF Returns, Kept
  <1> QED BY <1>2, <1>6, <1>7, <1>8


\* A shell that dies when there is no such program, and one that starts it.
DiesOrLoops(p) ==
  \/ Stops(p) /\ failed' = failed \cup {procs[p].line}
  \/ Loops(p) /\ failed' = failed

LEMMA RunSimpleCommandFacts ==
  ASSUME Formed, NEW p \in Pids, RunSimpleCommand(p)
  PROVE  Formed1 /\ Local(p) /\ DiesOrLoops(p)
  <1>1. UNCHANGED <<os, stdin, input, next, ran>>
    BY DEF RunSimpleCommand, Unread
  <1>2. CASE procs' = [procs EXCEPT ![p] = Ended(@)] /\ failed' = failed \cup {procs[p].line}
    BY <1>1, <1>2, EndsFacts DEF DiesOrLoops
  <1>3. ASSUME NEW out,
               procs' = Append([procs EXCEPT ![p] = [Looping(p) EXCEPT !.waits = <<NewPid>>]],
                               [[Shell0 EXCEPT !.role = "command"] EXCEPT !.stdout = out]),
               failed' = failed
        PROVE  Formed1 /\ Local(p) /\ DiesOrLoops(p)
    <2> DEFINE w == [Looping(p) EXCEPT !.waits = <<NewPid>>]
               k == [[Shell0 EXCEPT !.role = "command"] EXCEPT !.stdout = out]
    <2>1. /\ DOMAIN w = Fields /\ w.role = "shell" /\ w.waits = <<NewPid>>
          /\ w.line = procs[p].line /\ w.buffer = procs[p].buffer
          /\ w.stdout = procs[p].stdout
      BY DEF Formed, Fields, Looping
    <2>2. DOMAIN k = Fields /\ k.role = "command" /\ k.waits = <<>> /\ k.line = 0
      BY DEF Shell0, Fields
    <2>3. procs' = Append([procs EXCEPT ![p] = w], k)
      BY <1>3
    <2> HIDE DEF w, k
    <2>4. /\ Formed1 /\ Only(p) /\ Len(procs') = NewPid
          /\ procs'[p] = w /\ procs'[NewPid] = k
      BY <2>1, <2>2, <2>3, Starts
    <2> QED BY <1>1, <1>3, <2>1, <2>2, <2>4 DEF Loops, Kept, Local, DiesOrLoops
  <1> QED BY <1>2, <1>3 DEF RunSimpleCommand

LEMMA StartFirstFacts ==
  ASSUME Formed, NEW p \in Pids, StartFirst(p)
  PROVE  Formed1 /\ Local(p) /\ DiesOrLoops(p)
  <1> DEFINE w == [[Looping(p) EXCEPT !.role = "piping"] EXCEPT !.waits = <<NewPid>>]
             o == RedirectHandle(procs[p].stdout, "pipe")
             l == Program(procs[p].cmd.args)
             k == [[[Shell0 EXCEPT !.role = "command"] EXCEPT !.stdout = o] EXCEPT !.left = l]
  <1>1. UNCHANGED <<os, stdin, input, next, ran>>
    BY DEF StartFirst, Unread
  <1>2. \/ procs' = [procs EXCEPT ![p] = Ended(@)] /\ failed' = failed \cup {procs[p].line}
        \/ procs' = Append([procs EXCEPT ![p] = w], k) /\ failed' = failed
    BY DEF StartFirst
  <1> HIDE DEF o, l
  <1>3. CASE procs' = [procs EXCEPT ![p] = Ended(@)] /\ failed' = failed \cup {procs[p].line}
    BY <1>1, <1>3, EndsFacts DEF DiesOrLoops
  <1>4. /\ DOMAIN w = Fields /\ w.role = "piping" /\ w.waits = <<NewPid>>
        /\ w.line = procs[p].line /\ w.buffer = procs[p].buffer
        /\ w.stdout = procs[p].stdout
    BY DEF Formed, Fields, Looping
  <1>5. DOMAIN k = Fields /\ k.role = "command" /\ k.waits = <<>> /\ k.line = 0
    BY DEF Shell0, Fields
  <1> HIDE DEF w, k
  <1>6. CASE procs' = Append([procs EXCEPT ![p] = w], k) /\ failed' = failed
    <2>1. /\ Formed1 /\ Only(p) /\ Len(procs') = NewPid
          /\ procs'[p] = w /\ procs'[NewPid] = k
      BY <1>4, <1>5, <1>6, Starts
    <2> QED BY <1>1, <1>4, <1>5, <1>6, <2>1 DEF Loops, Kept, Local, DiesOrLoops
  <1> QED BY <1>2, <1>3, <1>6

LEMMA StartSecondFacts ==
  ASSUME Formed, NEW p \in Pids, StartSecond(p)
  PROVE  Formed1 /\ Local(p) /\ DiesOrLoops(p)
  <1> DEFINE a == Append(procs[p].waits, NewPid)
             w == [[procs[p] EXCEPT !.role = "shell"] EXCEPT !.waits = a]
             k == Second(p)
  <1>1. UNCHANGED <<os, stdin, input, next, ran>>
    BY DEF StartSecond, Unread
  <1>2. \/ procs' = [procs EXCEPT ![p] = Ended(@)] /\ failed' = failed \cup {procs[p].line}
        \/ procs' = Append([procs EXCEPT ![p] = w], k) /\ failed' = failed
    <2>1. CASE Program(procs[p].cmd.args2).exists
      <3>1. procs' = Append([procs EXCEPT ![p].role = "shell",
                                          ![p].waits = Append(@, NewPid)], k)
        BY <2>1 DEF StartSecond
      <3>2. [procs EXCEPT ![p].role = "shell", ![p].waits = Append(@, NewPid)]
              = [procs EXCEPT ![p] = w]
        BY DEF Formed, Fields
      <3> QED BY <2>1, <3>1, <3>2 DEF StartSecond
    <2>2. CASE ~Program(procs[p].cmd.args2).exists
      BY <2>2 DEF StartSecond
    <2> QED BY <2>1, <2>2
  <1>3. CASE procs' = [procs EXCEPT ![p] = Ended(@)] /\ failed' = failed \cup {procs[p].line}
    BY <1>1, <1>3, EndsFacts DEF DiesOrLoops
  <1>4. /\ DOMAIN w = Fields /\ w.role = "shell" /\ w.waits = Append(procs[p].waits, NewPid)
        /\ w.line = procs[p].line /\ w.buffer = procs[p].buffer
        /\ w.stdout = procs[p].stdout
    BY DEF Formed, Fields
  <1>5. DOMAIN k = Fields /\ k.role = "command" /\ k.waits = <<>> /\ k.line = 0
    BY DEF Second, Shell0, Fields
  <1> HIDE DEF w, k
  <1>6. CASE procs' = Append([procs EXCEPT ![p] = w], k) /\ failed' = failed
    <2>1. /\ Formed1 /\ Only(p) /\ Len(procs') = NewPid
          /\ procs'[p] = w /\ procs'[NewPid] = k
      BY <1>4, <1>5, <1>6, Starts
    <2> QED BY <1>1, <1>4, <1>5, <1>6, <2>1 DEF Loops, Kept, Local, DiesOrLoops
  <1> QED BY <1>2, <1>3, <1>6

LEMMA WaitedFacts ==
  ASSUME Formed, NEW p \in Pids, Waited(p)
  PROVE  /\ Formed1 /\ Only(p) /\ Kept(p) /\ Local(p) /\ Len(procs') = Len(procs)
         /\ procs'[p].role = "shell" /\ procs'[p].waits = Tail(procs[p].waits)
         /\ failed' = failed
  <1> DEFINE r == [procs[p] EXCEPT !.waits = Tail(@)]
  <1>1. procs' = [procs EXCEPT ![p] = r]
    BY DEF Waited
  <1>2. /\ DOMAIN r = Fields /\ r.role = procs[p].role /\ r.waits = Tail(procs[p].waits)
        /\ r.line = procs[p].line /\ r.buffer = procs[p].buffer
        /\ r.stdout = procs[p].stdout
    BY DEF Formed, Fields
  <1> HIDE DEF r
  <1>3. Formed1 /\ Only(p) /\ Len(procs') = Len(procs) /\ procs'[p] = r
    BY <1>1, <1>2, Changes
  <1> QED BY <1>2, <1>3 DEF Kept, Local, Waited

\* A step of a command that only changes what it still has to do.
LEMMA LeftFacts ==
  ASSUME Formed, NEW p \in Pids, procs[p].role = "command", NEW l
  PROVE  procs' = [procs EXCEPT ![p].left = l] /\ UNCHANGED <<os, stdin, input, next, ran, failed>>
           => Formed1 /\ Works(p) /\ Local(p)
  <1> DEFINE r == [procs[p] EXCEPT !.left = l]
  <1>1. DOMAIN r = Fields /\ r.role = "command" /\ r.waits = procs[p].waits
          /\ r.line = procs[p].line
    BY DEF Formed, Fields
  <1>2. procs' = [procs EXCEPT ![p].left = l] => procs' = [procs EXCEPT ![p] = r]
    OBVIOUS
  <1> HIDE DEF r
  <1>3. procs' = [procs EXCEPT ![p] = r]
          => Formed1 /\ Only(p) /\ Len(procs') = Len(procs) /\ procs'[p] = r
    BY <1>1, Changes
  <1> QED BY <1>1, <1>2, <1>3 DEF Works, Local

LEMMA CommandFacts ==
  ASSUME Formed, NEW p \in Pids, Writes(p) \/ ReadsPipe(p) \/ CommandEnds(p)
  PROVE  Formed1 /\ Works(p) /\ Local(p)
  <1>1. CASE Writes(p)
    <2> DEFINE l == [procs[p].left EXCEPT !.writes = @ - 1]
    <2>1. procs' = [procs EXCEPT ![p].left = l]
      BY <1>1 DEF Writes
    <2> HIDE DEF l
    <2> QED BY <1>1, <2>1, LeftFacts DEF Writes, Unread
  <1>2. CASE ReadsPipe(p)
    <2> DEFINE l == [procs[p].left EXCEPT !.reads = IF @ = "one" THEN "none" ELSE @]
               m == [procs[p].left EXCEPT !.reads = "none"]
    <2>1. procs' = [procs EXCEPT ![p].left = l] \/ procs' = [procs EXCEPT ![p].left = m]
      BY <1>2 DEF ReadsPipe
    <2> HIDE DEF l, m
    <2> QED BY <1>2, <2>1, LeftFacts DEF ReadsPipe, Unread
  <1>3. CASE CommandEnds(p)
    <2>1. Formed1 /\ Stops(p) /\ Local(p)
      BY <1>3, EndsFacts DEF CommandEnds, Unread
    <2>2. procs' = [procs EXCEPT ![p] = Ended(@)]
      BY <1>3 DEF CommandEnds
    <2> QED BY <1>3, <2>1 DEF CommandEnds, Unread, Works, Stops
  <1> QED BY <1>1, <1>2, <1>3


-----------------------------------------------------------------------------
\* The steps, by what they do to the shells.

\* p is a shell, or a copy of one, that waits for no process.
Free(p) == p \in Live /\ (procs[p].role = "shell" => procs[p].waits = <<>>)

Fetches(p) ==
  /\ FetchLine(p) /\ Free(p) /\ Only(p) /\ Len(procs') = Len(procs)
  /\ procs'[p].role = "dispatch" /\ procs'[p].waits = <<>>
  /\ procs'[p].line = Head(Buffered(p)) /\ procs'[p].buffer = Tail(Buffered(p))

Resumes(p) ==
  /\ Only(p) /\ Kept(p) /\ Len(procs') = Len(procs)
  /\ procs[p].role = "shell" /\ procs[p].waits # <<>>
  /\ procs[Head(procs[p].waits)].role = "ended"
  /\ procs'[p].role = "shell" /\ procs'[p].waits = Tail(procs[p].waits)
  /\ failed' = failed

ShellStep(p) ==
  \/ Works(p)
  \/ Free(p) /\ Stops(p) /\ failed' = failed
  \/ Free(p) /\ Stops(p) /\ failed' = failed \cup {procs[p].line}
       /\ procs[p].role \in {"dispatch", "piping"}
  \/ Free(p) /\ Loops(p) /\ failed' = failed /\ procs[p].role \in {"dispatch", "piping"}
  \/ Copies(p) /\ failed' = failed /\ procs[p].role = "dispatch" /\ os = "linux"
  \/ Returns(p) /\ failed' = failed \cup {procs[p].line} /\ procs[p].role = "forked"
  \/ Fetches(p)
  \/ Resumes(p)

LEMMA StepKinds ==
  ASSUME Formed, NEW p \in Pids, ProcessStep(p)
  PROVE  Formed' /\ Local(p) /\ Only(p) /\ ShellStep(p)
  <1>1. /\ Formed1 /\ Local(p) /\ ShellStep(p)
        /\ UNCHANGED <<os, stdin, input>>
    <2>1. CASE EndOfInput(p) \/ ShellExits(p)
      <3>1. procs' = [procs EXCEPT ![p] = Ended(@)] /\ UNCHANGED <<os, stdin, input, next, ran>>
        BY <2>1 DEF EndOfInput, ShellExits, Unread
      <3>2. Free(p) /\ failed' = failed
        BY <2>1 DEF EndOfInput, ShellExits, Reads, Type, Free, Live
      <3> QED BY <3>1, <3>2, EndsFacts DEF ShellStep
    <2>2. CASE FetchLine(p)
      <3>1. Free(p) /\ procs[p].waits = <<>>
        BY <2>2 DEF FetchLine, Reads, Free, Live
      <3>2. Local(p)
        BY <2>2, FetchFacts DEF Local
      <3>3. UNCHANGED <<os, stdin, input>>
        BY <2>2 DEF FetchLine
      <3> QED BY <2>2, <3>1, <3>2, <3>3, FetchFacts DEF ShellStep, Fetches
    <2>3. CASE NothingToDo(p) \/ SetVar(p)
      <3>1. Formed1 /\ Loops(p) /\ Local(p) /\ failed' = failed
        BY <2>3, NothingToDoFacts, SetVarFacts
      <3>2. Free(p) /\ procs[p].role = "dispatch" /\ UNCHANGED <<os, stdin, input>>
        BY <2>3 DEF NothingToDo, SetVar, Type, Unread, Free, Live
      <3> QED BY <3>1, <3>2 DEF ShellStep
    <2>4. CASE Forks(p)
      <3>1. Free(p) /\ procs[p].role = "dispatch" /\ os = "linux" /\ UNCHANGED <<os, stdin, input>>
        BY <2>4 DEF Forks, Type, Unread, Free, Live
      <3> QED BY <2>4, <3>1, ForksFacts DEF ShellStep
    <2>5. CASE ChildExecs(p)
      <3>1. Free(p) /\ procs[p].role = "forked" /\ UNCHANGED <<os, stdin, input>>
        BY <2>5 DEF ChildExecs, Free, Live
      <3> QED BY <2>5, <3>1, ChildExecsFacts DEF ShellStep
    <2>6. CASE RunSimpleCommand(p) \/ StartFirst(p) \/ StartSecond(p)
      <3>1. Formed1 /\ Local(p) /\ DiesOrLoops(p)
        BY <2>6, RunSimpleCommandFacts, StartFirstFacts, StartSecondFacts
      <3>2. Free(p) /\ procs[p].role \in {"dispatch", "piping"} /\ UNCHANGED <<os, stdin, input>>
        BY <2>6 DEF RunSimpleCommand, StartFirst, StartSecond, Type, Unread, Free, Live
      <3> QED BY <3>1, <3>2 DEF ShellStep, DiesOrLoops
    <2>7. CASE Waited(p)
      <3>1. UNCHANGED <<os, stdin, input>>
        BY <2>7 DEF Waited
      <3> QED BY <2>7, <3>1, WaitedFacts DEF ShellStep, Resumes, Waited
    <2>8. CASE Writes(p) \/ ReadsPipe(p) \/ CommandEnds(p)
      <3>1. UNCHANGED <<os, stdin, input>>
        BY <2>8, CommandFacts DEF Works
      <3> QED BY <2>8, <3>1, CommandFacts DEF ShellStep
    <2> QED BY <2>1, <2>2, <2>3, <2>4, <2>5, <2>6, <2>7, <2>8 DEF ProcessStep
  <1>2. Pids' = 1..Len(procs')
    BY <1>1 DEF Formed1, IsSequence, Pids
  <1>3. Formed'
    BY <1>1, <1>2 DEF Formed, Formed1, N
  <1>4. Only(p)
    BY <1>1 DEF ShellStep, Works, Stops, Loops, Copies, Returns, Fetches, Resumes
  <1> QED BY <1>1, <1>3, <1>4

LEMMA InitFormed == Init => Formed /\ Pids = {1} /\ procs[1] = Shell0 /\ Len(procs) = 1
  <1> SUFFICES ASSUME Init PROVE Formed /\ Pids = {1} /\ procs[1] = Shell0 /\ Len(procs) = 1
    OBVIOUS
  <1>1. procs = <<Shell0>> /\ Len(procs) = 1 /\ procs[1] = Shell0
    BY DEF Init
  <1>2. DOMAIN procs = 1..1
    BY <1>1
  <1>3. IsSequence(procs)
    BY <1>1 DEF IsSequence
  <1>4. N \in Nat /\ DOMAIN input = 1..N
    BY ShellAssumption DEF Init, N
  <1>5. os \in {"linux", "windows"} /\ stdin \in {"terminal", "pipe"}
    BY ShellAssumption DEF Init
  <1>6. Pids = {1}
    BY <1>2 DEF Pids
  <1>7. \A p \in Pids : DOMAIN procs[p] = Fields
    BY <1>1, <1>6, Records
  <1> QED BY <1>1, <1>3, <1>4, <1>5, <1>6, <1>7 DEF Formed


-----------------------------------------------------------------------------
\* The chain of the shells.

LEMMA PidsAre ==
  ASSUME Formed
  PROVE  /\ Len(procs) \in Nat /\ Pids = 1..Len(procs)
         /\ NewPid = Len(procs) + 1 /\ Live \subseteq Pids
  BY DEF Formed, IsSequence, Pids, NewPid, Live

\* A process that is no longer there, or was not yet, waits for nobody; the
\* others wait for a younger one.
Waits1(q) ==
  /\ procs'[q].waits \in Seq(Nat)
  /\ \A k \in DOMAIN procs'[q].waits : procs'[q].waits[k] \in (q + 1)..Len(procs')
  /\ procs'[q].role \in {"dispatch", "forked"} => procs'[q].waits = <<>>

LEMMA StepYounger ==
  ASSUME Formed, Formed', WaitsForYounger, NEW p \in Pids, Only(p), ShellStep(p)
  PROVE  WaitsForYounger'
  <1>1. /\ Len(procs) \in Nat /\ Pids = 1..Len(procs) /\ NewPid = Len(procs) + 1
        /\ Len(procs') \in Nat /\ Pids' = 1..Len(procs') /\ Len(procs') >= Len(procs)
    BY PidsAre DEF Formed, IsSequence, Pids, Only
  <1>2. ASSUME NEW q \in Pids, q # p PROVE Waits1(q)
    <2>1. procs'[q] = procs[q]
      BY <1>2 DEF Only
    <2>2. /\ procs[q].waits \in Seq(Nat)
          /\ \A k \in DOMAIN procs[q].waits : procs[q].waits[k] \in (q + 1)..Len(procs)
          /\ procs[q].role \in {"dispatch", "forked"} => procs[q].waits = <<>>
      BY DEF WaitsForYounger
    <2> QED BY <1>1, <2>1, <2>2 DEF Waits1
  <1>3. Waits1(p)
    <2> DEFINE w == procs[p].waits
    <2>1. /\ w \in Seq(Nat) /\ \A k \in DOMAIN w : w[k] \in (p + 1)..Len(procs)
          /\ procs[p].role \in {"dispatch", "forked"} => w = <<>>
      BY DEF WaitsForYounger
    <2>2. /\ <<>> \in Seq(Nat) /\ DOMAIN <<>> = {}
          /\ <<NewPid>> \in Seq(Nat) /\ DOMAIN <<NewPid>> = {1} /\ <<NewPid>>[1] = NewPid
      BY <1>1
    <2>3. /\ Append(w, NewPid) \in Seq(Nat)
          /\ \A k \in DOMAIN Append(w, NewPid) :
               \/ Append(w, NewPid)[k] = NewPid
               \/ k \in DOMAIN w /\ Append(w, NewPid)[k] = w[k]
      BY <1>1, <2>1
    <2>4. w # <<>> => /\ Tail(w) \in Seq(Nat)
                      /\ \A k \in DOMAIN Tail(w) : k + 1 \in DOMAIN w /\ Tail(w)[k] = w[k + 1]
      BY <2>1
    <2> DEFINE v == procs'[p].waits
    <2>5. \/ v = w
          \/ v = <<>>
          \/ v = <<NewPid>> /\ Len(procs') = NewPid
          \/ v = Append(w, NewPid) /\ Len(procs') = NewPid
          \/ w # <<>> /\ v = Tail(w)
      BY DEF ShellStep, Works, Stops, Loops, Copies, Returns, Fetches, Resumes
    <2>6. procs'[p].role \in {"dispatch", "forked"} => v = <<>>
      BY <2>1 DEF ShellStep, Works, Stops, Loops, Copies, Returns, Fetches, Resumes
    <2> HIDE DEF v, w
    <2>7. v \in Seq(Nat)
      BY <2>1, <2>2, <2>3, <2>4, <2>5
    <2>8. \A k \in DOMAIN v : v[k] \in (p + 1)..Len(procs')
      <3>1. \A k \in DOMAIN w : w[k] \in (p + 1)..Len(procs')
        BY <1>1, <2>1
      <3>2. CASE v = w \/ v = <<>>
        BY <2>2, <3>1, <3>2
      <3>3. CASE Len(procs') = NewPid /\ v = <<NewPid>>
        BY <1>1, <2>2, <3>3
      <3>4. CASE Len(procs') = NewPid /\ v = Append(w, NewPid)
        <4>1. NewPid \in (p + 1)..Len(procs')
          BY <1>1, <3>4
        <4> QED BY <2>3, <3>1, <3>4, <4>1
      <3>5. CASE w # <<>> /\ v = Tail(w)
        BY <2>4, <3>1, <3>5
      <3> QED BY <2>5, <3>2, <3>3, <3>4, <3>5
    <2> QED BY <2>6, <2>7, <2>8 DEF v, Waits1
  <1>4. ASSUME NEW q \in Pids', q \notin Pids PROVE Waits1(q)
    <2>1. q = NewPid /\ Len(procs') = NewPid
      BY <1>1, <1>4 DEF ShellStep, Works, Stops, Loops, Copies, Returns, Fetches, Resumes
    <2>2. procs'[q].waits = <<>>
      <3>1. procs[p].role = "dispatch" => procs[p].waits = <<>>
        BY DEF WaitsForYounger
      <3> QED BY <1>1, <2>1, <3>1
               DEF ShellStep, Works, Stops, Loops, Copies, Returns, Fetches, Resumes
    <2> QED BY <2>2 DEF Waits1
  <1> QED BY <1>1, <1>2, <1>3, <1>4 DEF WaitsForYounger, Waits1

LEMMA LiveAfter ==
  ASSUME Formed, Formed', NEW p \in Pids, Only(p), ShellStep(p)
  PROVE  /\ Works(p) => p \notin Live /\ Live' = Live
         /\ ~Works(p) => p \in Live
         /\ Stops(p) /\ ~Works(p) => Live' = Live \ {p}
         /\ Loops(p) \/ Returns(p) \/ Fetches(p) \/ Resumes(p) => Live' = Live
         /\ Copies(p) => Live' = Live \cup {NewPid} /\ NewPid \notin Live
         /\ \A q \in Live : q # p => procs'[q] = procs[q] /\ q \in Live'
  <1>1. /\ Len(procs) \in Nat /\ Pids = 1..Len(procs) /\ NewPid = Len(procs) + 1
        /\ Len(procs') \in Nat /\ Pids' = 1..Len(procs') /\ Len(procs') >= Len(procs)
    BY PidsAre DEF Formed, IsSequence, Pids, Only
  <1>2. \A q \in Pids : q # p => procs'[q] = procs[q] /\ q \in Pids'
    BY <1>1 DEF Only
  <1>3. \A q \in Pids : q # p => (q \in Live' <=> q \in Live)
    BY <1>2 DEF Live
  <1>4. \A q \in Live' : q \in Pids \/ (q = NewPid /\ Len(procs') = NewPid)
    BY <1>1 DEF ShellStep, Works, Stops, Loops, Copies, Returns, Fetches, Resumes, Live
  <1>5. p \in Pids' /\ NewPid \notin Pids
    BY <1>1
  <1>6. ~Works(p) => p \in Live
    BY DEF ShellStep, Free, Copies, Returns, Fetches, Resumes, Live
  <1>7. ASSUME Works(p) PROVE p \notin Live /\ Live' = Live
    <2>1. p \notin Live /\ p \notin Live' /\ Len(procs') = Len(procs)
      BY <1>7 DEF Works, Live
    <2> QED BY <1>1, <1>3, <1>4, <2>1 DEF Live
  <1>8. ASSUME Stops(p) PROVE Live' \subseteq Live \ {p} /\ Live \ {p} \subseteq Live'
    <2>1. p \notin Live' /\ Len(procs') = Len(procs)
      BY <1>8 DEF Stops, Live
    <2> QED BY <1>1, <1>3, <1>4, <2>1 DEF Live
  <1>9. ASSUME Loops(p) \/ Returns(p) \/ Fetches(p) \/ Resumes(p) PROVE Live' = Live
    <2>1. p \in Live' /\ p \in Live
      <3>1. ~Works(p)
        BY <1>9 DEF Works, Loops, Returns, Fetches, Resumes, ShellStep, Free, Live
      <3> QED BY <1>5, <1>6, <1>9, <3>1 DEF Loops, Returns, Fetches, Resumes, Live
    <2>2. NewPid \notin Live'
      BY <1>1, <1>9 DEF Loops, Returns, Fetches, Resumes, Live
    <2> QED BY <1>3, <1>4, <2>1, <2>2 DEF Live
  <1>10. ASSUME Copies(p) PROVE Live' = Live \cup {NewPid} /\ NewPid \notin Live
    <2>1. p \in Live' /\ NewPid \in Live'
      BY <1>1, <1>5, <1>10 DEF Copies, Live
    <2>2. p \in Live
      <3>1. ~Works(p)
        BY <1>1, <1>10 DEF Copies, Works
      <3> QED BY <1>6, <3>1
    <2> QED BY <1>3, <1>4, <1>5, <2>1, <2>2 DEF Live
  <1> QED BY <1>2, <1>3, <1>6, <1>7, <1>8, <1>9, <1>10 DEF Live


\* Only the youngest shell does anything; the others wait.
LEMMA Youngest ==
  ASSUME Formed, WaitsForYounger, Chain, NEW p \in Pids, ShellStep(p), ~Works(p)
  PROVE  /\ p \in Live /\ p \in Nat /\ ~Waiting(p)
         /\ \A q \in Live : q # p =>
              /\ q \in Nat /\ q < p /\ Waiting(q)
              /\ Head(procs[q].waits) \in Live /\ q < Head(procs[q].waits)
              /\ Head(procs[q].waits) <= p
  <1>1. Len(procs) \in Nat /\ Pids = 1..Len(procs) /\ Live \subseteq Pids
    BY PidsAre
  <1>2. p \in Live /\ p \in Nat
    BY <1>1 DEF ShellStep, Free, Copies, Returns, Fetches, Resumes, Live
  <1>3. ~Waiting(p)
    BY DEF ShellStep, Free, Copies, Returns, Fetches, Resumes, Live, Waiting
  <1>4. ASSUME NEW q \in Live, q # p
        PROVE  /\ q \in Nat /\ q < p /\ Waiting(q)
               /\ Head(procs[q].waits) \in Live /\ q < Head(procs[q].waits)
               /\ Head(procs[q].waits) <= p
    <2>1. q \in Nat /\ q < p /\ Waiting(q) /\ Head(procs[q].waits) <= p
      BY <1>1, <1>2, <1>3, <1>4 DEF Chain
    <2>2. procs[q].waits # <<>> /\ Head(procs[q].waits) \in Live
      BY <2>1 DEF Waiting
    <2>3. /\ procs[q].waits \in Seq(Nat)
          /\ \A k \in DOMAIN procs[q].waits : procs[q].waits[k] \in (q + 1)..Len(procs)
      BY <1>1 DEF WaitsForYounger
    <2>4. q < Head(procs[q].waits)
      BY <1>1, <2>1, <2>2, <2>3
    <2> QED BY <2>1, <2>2, <2>4
  <1> QED BY <1>2, <1>3, <1>4

LEMMA StepChain ==
  ASSUME Formed, Formed', WaitsForYounger, Chain, NEW p \in Pids, Only(p), ShellStep(p)
  PROVE  Chain'
  <1>1. SUFFICES ASSUME NEW a \in Live', NEW b \in Live', a < b
                 PROVE  Waiting(a)' /\ Head(procs[a].waits)' <= b
    BY DEF Chain
  <1>2. Len(procs) \in Nat /\ Pids = 1..Len(procs) /\ NewPid = Len(procs) + 1 /\ Live \subseteq Pids
    BY PidsAre
  <1>3. CASE Works(p)
    <2>1. Live' = Live /\ procs'[a] = procs[a]
      BY <1>3, LiveAfter
    <2> QED BY <1>1, <2>1 DEF Chain, Waiting
  <1>4. ASSUME ~Works(p), a \in Live, b \in Live, a # p
        PROVE  Waiting(a) /\ Head(procs[a].waits) <= b /\ procs'[a] = procs[a]
    BY <1>1, <1>4, LiveAfter DEF Chain
  <1>5. CASE ~Works(p) /\ Stops(p)
    <2>1. Live' = Live \ {p}
      BY <1>5, LiveAfter
    <2>2. Waiting(a) /\ Head(procs[a].waits) <= b /\ procs'[a] = procs[a]
      BY <1>4, <1>5, <2>1
    <2>3. b < p /\ b \in Nat /\ p \in Nat
      BY <1>5, <2>1, Youngest
    <2>4. Head(procs[a].waits) \in Live'
      BY <1>2, <2>1, <2>2, <2>3 DEF Waiting
    <2> QED BY <2>2, <2>4 DEF Waiting
  <1>6. CASE ~Works(p) /\ (Loops(p) \/ Returns(p) \/ Fetches(p) \/ Resumes(p))
    <2>1. Live' = Live
      BY <1>6, LiveAfter
    <2>2. a # p
      <3>1. b = p \/ b < p
        BY <1>6, <2>1, Youngest
      <3>2. a \in Nat /\ b \in Nat /\ p \in Nat
        BY <1>2, <2>1
      <3> QED BY <1>1, <3>1, <3>2
    <2> QED BY <1>4, <1>6, <2>1, <2>2 DEF Waiting
  <1>7. CASE ~Works(p) /\ Copies(p)
    <2>1. Live' = Live \cup {NewPid} /\ NewPid \notin Live
      BY <1>7, LiveAfter
    <2>2. p \in Live /\ p \in Nat /\ p < NewPid
      BY <1>2, <1>7, Youngest
    <2>3. \A q \in Live : q # p => q < p
      BY <1>7, Youngest
    <2>4. a # NewPid /\ a \in Live
      BY <1>1, <1>2, <2>1
    <2>5. CASE a = p
      <3>1. b = NewPid
        BY <1>1, <1>2, <2>1, <2>3, <2>5
      <3>2. procs'[a].role = "shell" /\ procs'[a].waits = <<NewPid>>
        BY <1>7, <2>5 DEF Copies
      <3> QED BY <1>2, <2>1, <3>1, <3>2 DEF Waiting
    <2>6. CASE a # p
      <3>1. Waiting(a) /\ Head(procs[a].waits) <= p /\ procs'[a] = procs[a]
        BY <1>7, <2>4, <2>6, Youngest, LiveAfter
      <3>2. Head(procs[a].waits) <= b /\ Head(procs[a].waits) \in Live
        <4>1. Head(procs[a].waits) \in Live /\ Live \subseteq Nat
          BY <1>2, <1>7, <2>4, <2>6, Youngest
        <4>2. CASE b = NewPid
          <5> DEFINE h == Head(procs[a].waits)
          <5>1. h \in Nat /\ h <= p
            BY <3>1, <4>1
          <5> HIDE DEF h
          <5>2. h <= NewPid
            BY <1>2, <2>2, <5>1
          <5> QED BY <4>1, <4>2, <5>2 DEF h
        <4>3. CASE b # NewPid
          BY <1>4, <1>7, <2>1, <2>4, <2>6, <4>1, <4>3
        <4> QED BY <4>2, <4>3
      <3> QED BY <2>1, <3>1, <3>2 DEF Waiting
    <2> QED BY <2>5, <2>6
  <1> QED BY <1>3, <1>5, <1>6, <1>7 DEF ShellStep

\* The shells and their chain.
ShellsInv == Formed /\ WaitsForYounger /\ Chain

LEMMA InitShells == Init => ShellsInv
  <1> SUFFICES ASSUME Init PROVE ShellsInv
    OBVIOUS
  <1>1. Formed /\ Pids = {1} /\ procs[1] = Shell0 /\ Shell0.waits = <<>>
    BY InitFormed, Records
  <1>2. WaitsForYounger
    <2>1. procs[1].waits = <<>> /\ <<>> \in Seq(Nat) /\ DOMAIN <<>> = {}
      BY <1>1
    <2> QED BY <1>1, <2>1 DEF WaitsForYounger
  <1>3. Chain
    BY <1>1 DEF Chain, Live
  <1> QED BY <1>1, <1>2, <1>3 DEF ShellsInv

LEMMA StepShells == ShellsInv /\ [Next]_vars => ShellsInv'
  <1> SUFFICES ASSUME ShellsInv, [Next]_vars PROVE ShellsInv'
    OBVIOUS
  <1>1. ASSUME NEW p \in Pids, ProcessStep(p) PROVE ShellsInv'
    <2>1. Formed' /\ Only(p) /\ ShellStep(p)
      BY <1>1, StepKinds DEF ShellsInv
    <2> QED BY <2>1, StepYounger, StepChain DEF ShellsInv
  <1>2. CASE UNCHANGED vars
    BY <1>2 DEF vars, ShellsInv, Formed, Pids, N, WaitsForYounger, Chain, Live, Waiting
  <1> QED BY <1>1, <1>2 DEF Next

\* At most one shell reads the standard input, or has just read from it, for
\* any input and any number of failed commands: of two in the chain the older
\* one waits.
THEOREM OnlyOneReads == Spec => []OneReader
  <1>1. ShellsInv => OneReader
    <2> SUFFICES ASSUME ShellsInv PROVE OneReader
      OBVIOUS
    <2> DEFINE S == {p \in Pids : Reads(p) \/ procs[p].role \in {"dispatch", "forked"}}
    <2>1. \A p \in S : p \in Live /\ ~Waiting(p) /\ p \in Nat
      BY PidsAre DEF ShellsInv, Live, Waiting, Reads
    <2>2. \A p, q \in S : p = q
      BY <2>1 DEF ShellsInv, Chain
    <2>3. S = {} \/ \E p \in S : S = {p}
      BY <2>2
    <2>4. Cardinality(S) <= 1
      BY <2>3, FS_EmptySet, FS_Singleton
    <2> QED BY <2>4 DEF OneReader
  <1> QED BY <1>1, InitShells, StepShells, PTL DEF Spec

-----------------------------------------------------------------------------
\* How often a line may run: once, and twice as often for each failed command
\* before it, counted from line a on.  A copy of a shell is only made on Linux.
Failed(a, n) == {k \in failed : os = "linux" /\ a <= k /\ k < n}
Runs(a, n) == Cardinality(SUBSET Failed(a, n))

\* One more element doubles the number of subsets.
LEMMA Doubled ==
  ASSUME NEW S, IsFiniteSet(S), NEW x, x \notin S
  PROVE  Cardinality(SUBSET (S \cup {x})) = 2 * Cardinality(SUBSET S)
  <1> DEFINE T == {A \cup {x} : A \in SUBSET S}
             f == [A \in SUBSET S |-> A \cup {x}]
  <1>1. IsFiniteSet(SUBSET S) /\ Cardinality(SUBSET S) \in Nat
    BY FS_SUBSET, FS_CardinalityType
  <1>2. f \in Bijection(SUBSET S, T)
    <2>1. f \in [SUBSET S -> T]
      OBVIOUS
    <2>2. ASSUME NEW A \in SUBSET S, NEW B \in SUBSET S, f[A] = f[B] PROVE A = B
      BY <2>2
    <2>3. \A t \in T : \E A \in SUBSET S : f[A] = t
      OBVIOUS
    <2> QED BY <2>1, <2>2, <2>3 DEF Bijection, Injection, Surjection, IsInjective
  <1>3. IsFiniteSet(T) /\ Cardinality(T) = Cardinality(SUBSET S)
    <2>1. ExistsBijection(SUBSET S, T)
      BY <1>2 DEF ExistsBijection
    <2> QED BY <1>1, <2>1, FS_Bijection
  <1>4. SUBSET (S \cup {x}) = (SUBSET S) \cup T
    <2>1. ASSUME NEW A \in SUBSET (S \cup {x}) PROVE A \in (SUBSET S) \cup T
      <3>1. CASE x \in A
        <4>1. A \ {x} \in SUBSET S /\ A = (A \ {x}) \cup {x}
          BY <3>1
        <4> QED BY <4>1
      <3>2. CASE x \notin A
        BY <3>2
      <3> QED BY <3>1, <3>2
    <2>2. ASSUME NEW A \in (SUBSET S) \cup T PROVE A \in SUBSET (S \cup {x})
      OBVIOUS
    <2> QED BY <2>1, <2>2
  <1>5. (SUBSET S) \cap T = {}
    OBVIOUS
  <1> HIDE DEF T
  <1> DEFINE U == SUBSET S
  <1>6. IsFiniteSet(U) /\ Cardinality(U) \in Nat /\ U \cap T = {}
    BY <1>1, <1>5
  <1>7. Cardinality(U \cup T) = Cardinality(U) + Cardinality(U)
    <2> HIDE DEF U
    <2>1. Cardinality(U \cup T) = Cardinality(U) + Cardinality(T) - Cardinality(U \cap T)
      BY <1>3, <1>6, FS_Union
    <2>2. Cardinality(U \cap T) = 0 /\ Cardinality(T) = Cardinality(U)
      <3>1. Cardinality(T) = Cardinality(U)
        BY <1>3 DEF U
      <3> QED BY <1>6, <3>1, FS_EmptySet
    <2> QED BY <1>6, <2>1, <2>2
  <1> DEFINE c == Cardinality(U)
  <1>8. Cardinality(SUBSET (S \cup {x})) = c + c /\ c \in Nat /\ c = Cardinality(SUBSET S)
    BY <1>4, <1>6, <1>7
  <1> HIDE DEF c
  <1> QED BY <1>8

\* The failed lines are lines, or the 0 of a process without one.
FailedLines == failed \subseteq 0..N

LEMMA RunsType ==
  ASSUME Formed, FailedLines, NEW a, NEW n
  PROVE  IsFiniteSet(Failed(a, n)) /\ Runs(a, n) \in Nat
  <1>1. N \in Nat /\ 0 \in Int /\ N \in Int
    BY DEF Formed
  <1>2. IsFiniteSet(0..N)
    BY <1>1, FS_Interval
  <1>3. Failed(a, n) \in SUBSET (0..N)
    BY DEF Failed, FailedLines
  <1>4. IsFiniteSet(Failed(a, n))
    BY <1>2, <1>3, FS_Subset
  <1>5. IsFiniteSet(SUBSET Failed(a, n))
    BY <1>4, FS_SUBSET
  <1>6. Runs(a, n) \in Nat
    BY <1>5, FS_CardinalityType DEF Runs
  <1> QED BY <1>4, <1>6

LEMMA RunsOnce ==
  ASSUME NEW a, Failed(a, a) = {}
  PROVE  Runs(a, a) = 1
  <1>1. SUBSET Failed(a, a) = {{}}
    OBVIOUS
  <1> QED BY <1>1, FS_Singleton DEF Runs

\* From line a on as often as from the next one on, or twice as often.
LEMMA RunsFrom ==
  ASSUME Formed, FailedLines, NEW a \in Nat, NEW n \in Nat, a < n
  PROVE  Runs(a, n) = IF os = "linux" /\ a \in failed THEN 2 * Runs(a + 1, n)
                      ELSE Runs(a + 1, n)
  <1>1. /\ ~(a + 1 <= a)
        /\ \A k \in failed : a <= k /\ k < n <=> k = a \/ (a + 1 <= k /\ k < n)
    <2>1. failed \subseteq Nat
      BY DEF Formed, FailedLines
    <2> QED BY <2>1
  <1>2. CASE os = "linux" /\ a \in failed
    <2>1. Failed(a, n) = Failed(a + 1, n) \cup {a} /\ a \notin Failed(a + 1, n)
      BY <1>1, <1>2, Zenon DEF Failed
    <2>2. IsFiniteSet(Failed(a + 1, n))
      BY RunsType
    <2> QED BY <1>2, <2>1, <2>2, Doubled DEF Runs
  <1>3. CASE ~(os = "linux" /\ a \in failed)
    <2>1. Failed(a, n) = Failed(a + 1, n)
      BY <1>1, <1>3, Zenon DEF Failed
    <2> QED BY <1>3, <2>1 DEF Runs
  <1> QED BY <1>2, <1>3

\* One more command has failed, that of line m.
LEMMA RunsGrow ==
  ASSUME Formed, FailedLines, NEW m \in 0..N, NEW n \in Nat,
         os' = os, failed' = failed \cup {m}
  PROVE  \A a \in Nat :
           Runs(a, n)' = IF os = "linux" /\ m \notin failed /\ m < n /\ a <= m
                         THEN 2 * Runs(a, n) ELSE Runs(a, n)
  <1> TAKE a \in Nat
  <1>1. failed \subseteq Nat /\ m \in Nat
    BY DEF Formed, FailedLines
  <1>2. CASE os = "linux" /\ m \notin failed /\ m < n /\ a <= m
    <2>1. Failed(a, n)' = Failed(a, n) \cup {m} /\ m \notin Failed(a, n)
      BY <1>1, <1>2 DEF Failed
    <2>2. IsFiniteSet(Failed(a, n))
      BY RunsType
    <2> QED BY <1>2, <2>1, <2>2, Doubled DEF Runs
  <1>3. CASE ~(os = "linux" /\ m \notin failed /\ m < n /\ a <= m)
    <2>1. Failed(a, n)' = Failed(a, n)
      BY <1>1, <1>3 DEF Failed
    <2> QED BY <1>3, <2>1 DEF Runs
  <1> QED BY <1>2, <1>3

-----------------------------------------------------------------------------
\* What is in the buffers when the lines come through a pipe: what follows some
\* line, up to the end of the input.

\* The lines from line a on.
Rest(a) == [k \in 1..N + 1 - a |-> a + k - 1]

\* The line that process p would fetch next.
Pos(p) == N + 1 - Len(Buffered(p))

\* The first read takes everything there is.
FirstRead ==
  \/ next = N + 1
  \/ /\ next = 1 /\ Pids = {1}
     /\ 1 \in Live => procs[1].role = "shell" /\ procs[1].buffer = <<>>

Placed(p) ==
  /\ Pos(p) \in 1..N + 1 /\ Buffered(p) = Rest(Pos(p))
  /\ procs[p].role \in {"dispatch", "forked"} => procs[p].line = Pos(p) - 1 /\ procs[p].line >= 1

\* A copy of a shell is as far as the shell that waits for it.
Followed(q) ==
  /\ os = "linux"
  /\ \E p \in Live :
       Waiting(p) /\ Head(procs[p].waits) = q /\ procs[p].buffer = procs[q].buffer

Piped ==
  /\ FirstRead
  /\ \A p \in Pids : procs[p].line \in 0..N
  /\ FailedLines
  /\ \A p \in Live : Placed(p)
  /\ \A q \in Live : procs[q].role = "forked" => Followed(q)

LEMMA RestFacts ==
  ASSUME Formed, NEW a \in 1..N + 1
  PROVE  /\ Len(Rest(a)) = N + 1 - a
         /\ Rest(a) = <<>> <=> a = N + 1
         /\ a <= N => /\ Head(Rest(a)) = a /\ Tail(Rest(a)) = Rest(a + 1)
                      /\ Last(Rest(a)) = N
  <1>1. N \in Nat /\ a \in Nat /\ N + 1 - a \in Nat
    BY DEF Formed
  <1>2. /\ Rest(a) \in Seq(Int) /\ Len(Rest(a)) = N + 1 - a
        /\ \A k \in 1..N + 1 - a : Rest(a)[k] = a + k - 1
    BY <1>1 DEF Rest
  <1>3. Rest(a) = <<>> <=> a = N + 1
    BY <1>1, <1>2
  <1>4. ASSUME a <= N
        PROVE  Head(Rest(a)) = a /\ Tail(Rest(a)) = Rest(a + 1) /\ Last(Rest(a)) = N
    <2>1. Head(Rest(a)) = a /\ Last(Rest(a)) = N
      BY <1>1, <1>2, <1>4 DEF Last
    <2>2. /\ Tail(Rest(a)) \in Seq(Int) /\ Len(Tail(Rest(a))) = N - a
          /\ \A k \in 1..N - a : Tail(Rest(a))[k] = a + k
      BY <1>1, <1>2, <1>4
    <2>3. /\ Rest(a + 1) \in Seq(Int) /\ Len(Rest(a + 1)) = N - a
          /\ \A k \in 1..N - a : Rest(a + 1)[k] = a + k
      <3>1. N + 1 - (a + 1) = N - a /\ N - a \in Nat /\ \A k \in 1..N - a : a + 1 + k - 1 = a + k
        BY <1>1, <1>4
      <3> DEFINE M == N - a
      <3>2. Rest(a + 1) = [k \in 1..M |-> a + 1 + k - 1] /\ M \in Nat
        BY <3>1 DEF Rest
      <3> HIDE DEF M
      <3>3. /\ Rest(a + 1) \in Seq(Int) /\ Len(Rest(a + 1)) = M
            /\ \A k \in 1..M : Rest(a + 1)[k] = a + k
        BY <1>1, <3>2
      <3> QED BY <3>3 DEF M
    <2>4. Tail(Rest(a)) = Rest(a + 1)
      BY <2>2, <2>3, SeqEqual
    <2> QED BY <2>1, <2>4
  <1> QED BY <1>2, <1>3, <1>4

LEMMA Unread1 ==
  ASSUME Formed, stdin = "pipe", NEW p
  PROVE  /\ next = N + 1 => Buffered(p) = procs[p].buffer
         /\ next = 1 /\ N >= 1 /\ procs[p].buffer = <<>> => Buffered(p) = Rest(1)
  <1>1. N \in Nat /\ N = Len(input) /\ N + 1 > N
    BY DEF Formed, N
  <1>2. next = N + 1 => Buffered(p) = procs[p].buffer
    BY <1>1 DEF Buffered
  <1>3. ASSUME next = 1, N >= 1, procs[p].buffer = <<>>
        PROVE  Buffered(p) = Rest(1)
    <2>1. ~(1 > N) /\ N - 1 + 1 = N + 1 - 1
      BY <1>1, <1>3
    <2>2. Buffered(p) = [k \in 1..N + 1 - 1 |-> 1 + k - 1]
      BY <1>1, <1>3, <2>1 DEF Buffered
    <2> QED BY <2>2 DEF Rest
  <1> QED BY <1>2, <1>3

LEMMA Constant ==
  ASSUME NEW p, ShellStep(p)
  PROVE  os' = os /\ stdin' = stdin /\ input' = input /\ N' = N
  BY DEF ShellStep, Works, Stops, Loops, Copies, Returns, Fetches, FetchLine, Resumes, Kept, N

\* The shells after a step: those before it, p, and the copy p has made.
LEMMA Survivors ==
  ASSUME Formed, Formed', NEW p \in Pids, Only(p), ShellStep(p), NEW q \in Live'
  PROVE  \/ q \in Live /\ q # p /\ procs'[q] = procs[q]
         \/ /\ q = p /\ p \in Live /\ ~Works(p)
            /\ Loops(p) \/ Copies(p) \/ Returns(p) \/ Fetches(p) \/ Resumes(p)
         \/ q = NewPid /\ NewPid \notin Live /\ Copies(p) /\ ~Works(p)
  <1>1. Works(p) => q \in Live /\ q # p
    BY LiveAfter
  <1>2. q \in Live /\ q # p => procs'[q] = procs[q]
    BY LiveAfter
  <1>3. ASSUME ~Works(p), ~Stops(p)
                PROVE  Loops(p) \/ Copies(p) \/ Returns(p) \/ Fetches(p) \/ Resumes(p)
    BY <1>3 DEF ShellStep
  <1>4. ~Works(p) /\ Stops(p) => q \in Live /\ q # p
    BY LiveAfter
  <1> QED BY <1>1, <1>2, <1>3, <1>4, LiveAfter

\* Where the shells are after a step: only the one that fetches a line goes on.
LEMMA StepPos ==
  ASSUME ShellsInv, Formed', stdin = "pipe", Piped, NEW p \in Pids, Only(p), ShellStep(p)
  PROVE  /\ FirstRead'
         /\ \A q \in Live : q # p => Buffered(q)' = Buffered(q)
         /\ p \in Live /\ Kept(p) => Buffered(p)' = Buffered(p)
         /\ Copies(p) => \A q : q = NewPid => Buffered(q)' = Buffered(p)
         /\ Fetches(p) => /\ Pos(p) \in 1..N /\ procs'[p].line = Pos(p)
                          /\ Buffered(p)' = Rest(Pos(p) + 1)
  <1>1. /\ N \in Nat /\ Formed /\ FirstRead /\ \A q \in Live : Placed(q)
        /\ Len(procs) \in Nat /\ Pids = 1..Len(procs) /\ Live \subseteq Pids
    BY PidsAre DEF ShellsInv, Formed, Piped
  <1>2. stdin' = "pipe" /\ N' = N /\ input' = input
    BY Constant
  <1>3. next' = N + 1 => \A q : Buffered(q)' = procs'[q].buffer
    <2>1. N = Len(input') /\ N + 1 > N
      BY <1>1, <1>2 DEF N
    <2> QED BY <2>1 DEF Buffered
  <1>4. CASE next = N + 1 /\ next' = N + 1
    <2>1. \A q : Buffered(q) = procs[q].buffer /\ Buffered(q)' = procs'[q].buffer
      BY <1>1, <1>4, <1>3, Unread1
    <2>2. FirstRead'
      BY <1>2, <1>4 DEF FirstRead
    <2>3. \A q \in Live : q # p => procs'[q] = procs[q]
      BY <1>1 DEF Only
    <2>4. ASSUME Fetches(p)
          PROVE  /\ Pos(p) \in 1..N /\ procs'[p].line = Pos(p)
                 /\ Buffered(p)' = Rest(Pos(p) + 1)
      <3>1. /\ Placed(p) /\ Buffered(p) # <<>>
            /\ procs'[p].line = Head(Buffered(p)) /\ procs'[p].buffer = Tail(Buffered(p))
        BY <1>1, <2>4 DEF Fetches, FetchLine, Free
      <3>2. Pos(p) \in 1..N + 1 /\ Buffered(p) = Rest(Pos(p)) /\ Pos(p) # N + 1
        BY <1>1, <3>1, RestFacts DEF Placed
      <3>3. Pos(p) \in 1..N /\ Pos(p) <= N
        BY <1>1, <3>2
      <3> QED BY <1>1, <2>1, <3>1, <3>2, <3>3, RestFacts
    <2>5. \A q \in Live : q # p => Buffered(q)' = Buffered(q)
      BY <2>1, <2>3
    <2>6. Kept(p) => Buffered(p)' = Buffered(p)
      BY <2>1 DEF Kept
    <2>7. Copies(p) => \A q : q = NewPid => Buffered(q)' = Buffered(p)
      BY <2>1 DEF Copies
    <2> QED BY <2>2, <2>4, <2>5, <2>6, <2>7
  <1>5. CASE Fetches(p) /\ next # N + 1
    <2>1. next = 1 /\ Pids = {1} /\ p = 1 /\ p \in Live /\ procs[1].buffer = <<>>
      BY <1>1, <1>5 DEF FirstRead, Fetches, Free
    <2>2. N >= 1 /\ Buffered(p) = Rest(1)
      BY <1>1, <1>5, <2>1, Unread1
    <2>3. /\ Len(Rest(1)) = N /\ Head(Rest(1)) = 1 /\ Tail(Rest(1)) = Rest(2) /\ Last(Rest(1)) = N
          /\ Rest(1) # <<>>
      <3>1. 1 \in 1..N + 1 /\ 1 <= N /\ N + 1 - 1 = N /\ 1 + 1 = 2 /\ 1 # N + 1
        BY <1>1, <2>2
      <3> QED BY <1>1, <3>1, RestFacts
    <2>4. next' = N + 1
      BY <1>5, <2>1, <2>2, <2>3 DEF Fetches, FetchLine
    <2>5. Buffered(p)' = procs'[p].buffer
      BY <1>3, <2>4
    <2>6. Pos(p) = 1
      BY <1>1, <2>2, <2>3 DEF Pos
    <2>7. /\ Pos(p) \in 1..N /\ procs'[p].line = Pos(p)
          /\ Buffered(p)' = Rest(Pos(p) + 1)
      BY <1>1, <1>5, <2>2, <2>3, <2>5, <2>6 DEF Fetches
    <2>8. FirstRead'
      BY <1>2, <2>4 DEF FirstRead
    <2>9. ~Copies(p) /\ ~Kept(p)
      BY <1>1, <1>5, <2>1, <2>4 DEF Copies, Fetches, Kept
    <2>10. \A q \in Live : q = p
      BY <1>1, <2>1
    <2> QED BY <2>7, <2>8, <2>9, <2>10
  <1>6. CASE next # N + 1 /\ ~Fetches(p)
    <2>1. next = 1 /\ Pids = {1} /\ p = 1 /\ next' = next
      BY <1>1, <1>6 DEF FirstRead, ShellStep, Works, Stops, Loops, Copies, Returns, Resumes, Kept
    <2>2. p \in Live => procs[p].role = "shell" /\ procs[p].buffer = <<>>
      BY <1>1, <1>6, <2>1 DEF FirstRead
    <2>3. ~Copies(p) /\ Len(procs') = Len(procs)
      BY <1>1, <1>6, <2>2
         DEF ShellStep, Free, Works, Stops, Loops, Copies, Returns, Resumes, NewPid, Live
    <2>4. Pids' = {1}
      BY <2>1, <2>3 DEF Formed, IsSequence, Pids, ShellsInv
    <2>5. p \in Live' => procs'[p].role = "shell" /\ procs'[p].buffer = <<>>
      BY <1>6, <2>2, <2>3
         DEF ShellStep, Free, Works, Stops, Loops, Returns, Resumes, Kept, Live
    <2>6. FirstRead'
      BY <2>1, <2>4, <2>5 DEF FirstRead
    <2>7. procs'[p].buffer = procs[p].buffer => Buffered(p)' = Buffered(p)
      BY <1>2, <2>1 DEF Buffered
    <2>8. \A q \in Live : q = p
      BY <1>1, <2>1
    <2> QED BY <1>6, <2>3, <2>6, <2>7, <2>8 DEF Kept
  <1>7. next = N + 1 => next' = N + 1
    <2>1. CASE Fetches(p)
      <3>1. next = N + 1 => Buffered(p) = procs[p].buffer
        BY <1>1, Unread1
      <3> QED BY <2>1, <3>1 DEF Fetches, FetchLine
    <2>2. CASE ~Fetches(p)
      BY <2>2 DEF ShellStep, Works, Stops, Loops, Copies, Returns, Resumes, Kept
    <2> QED BY <2>1, <2>2
  <1> QED BY <1>4, <1>5, <1>6, <1>7

\* A step that makes a copy is a fork.
LEMMA CopyStep ==
  ASSUME Formed, NEW p \in Pids, ShellStep(p), Copies(p)
  PROVE  ~Works(p) /\ failed' = failed /\ procs[p].role = "dispatch" /\ os = "linux"
  <1>1. Len(procs') = NewPid /\ NewPid = Len(procs) + 1 /\ Len(procs) \in Nat
    BY PidsAre DEF Copies
  <1>2. procs'[NewPid].role = "forked" /\ procs'[p].role = "shell"
    BY DEF Copies
  <1> QED BY <1>1, <1>2 DEF ShellStep, Works, Loops, Returns, Fetches, Resumes, Stops

\* What Piped says of one process after the step.
LEMMA StepPlaced ==
  ASSUME ShellsInv, Formed', stdin = "pipe", Piped, NEW p \in Pids, Only(p), ShellStep(p),
         NEW q \in Live'
  PROVE  Placed(q)'
  <1>1. N \in Nat /\ Formed /\ N' = N /\ \A x : Rest(x)' = Rest(x)
    BY Constant DEF ShellsInv, Formed, Rest
  <1>2. /\ \A x \in Live : x # p => Buffered(x)' = Buffered(x)
        /\ p \in Live /\ Kept(p) => Buffered(p)' = Buffered(p)
        /\ Copies(p) => \A x : x = NewPid => Buffered(x)' = Buffered(p)
        /\ Fetches(p) => /\ Pos(p) \in 1..N /\ procs'[p].line = Pos(p)
                         /\ Buffered(p)' = Rest(Pos(p) + 1)
    BY StepPos
  <1>3. \A x \in Live : Placed(x)
    BY DEF Piped
  <1>4. ASSUME NEW x \in Live, Buffered(q)' = Buffered(x), procs'[q].line = procs[x].line,
               procs'[q].role \in {"dispatch", "forked"} =>
                 procs[x].role \in {"dispatch", "forked"}
        PROVE  Placed(q)'
    <2>1. Pos(q)' = Pos(x)
      BY <1>1, <1>4 DEF Pos
    <2>2. Placed(x)
      BY <1>3
    <2> QED BY <1>1, <1>4, <2>1, <2>2 DEF Placed, Rest
  <1>5. CASE q \in Live /\ q # p /\ procs'[q] = procs[q]
    BY <1>2, <1>4, <1>5
  <1>6. CASE q = p /\ p \in Live /\ Fetches(p)
    <2> DEFINE a == Pos(p)
    <2>1. a \in 1..N /\ procs'[p].line = a /\ Buffered(p)' = Rest(a + 1)
      BY <1>2, <1>6
    <2> HIDE DEF a
    <2>2. a + 1 \in 1..N + 1 /\ Len(Rest(a + 1)) = N + 1 - (a + 1)
      BY <1>1, <2>1, RestFacts
    <2>3. Pos(p)' = a + 1
      BY <1>1, <2>1, <2>2 DEF Pos
    <2>4. a + 1 - 1 = a /\ a >= 1
      BY <1>1, <2>1
    <2> QED BY <1>1, <1>6, <2>1, <2>2, <2>3, <2>4 DEF Placed, Rest
  <1>7. CASE q = p /\ p \in Live /\ (Loops(p) \/ Copies(p) \/ Returns(p) \/ Resumes(p))
    <2>1. Kept(p) /\ procs'[p].role \in {"shell", "piping"}
      BY <1>7 DEF Loops, Copies, Returns, Resumes
    <2> QED BY <1>2, <1>4, <1>7, <2>1 DEF Kept
  <1>8. CASE q = NewPid /\ Copies(p) /\ ~Works(p)
    <2>1. p \in Live
      BY <1>1, <1>8, LiveAfter
    <2>2. procs[p].role = "dispatch"
      BY <1>1, <1>8, CopyStep
    <2> QED BY <1>2, <1>4, <1>8, <2>1, <2>2 DEF Copies
  <1> QED BY <1>1, <1>5, <1>6, <1>7, <1>8, Survivors

LEMMA StepFollowed ==
  ASSUME ShellsInv, Formed', stdin = "pipe", Piped, NEW p \in Pids, Only(p), ShellStep(p),
         NEW q \in Live', procs'[q].role = "forked"
  PROVE  Followed(q)'
  <1>1. Formed /\ WaitsForYounger /\ Chain /\ Live \subseteq Pids
    BY PidsAre DEF ShellsInv
  <1>2. CASE q \in Live /\ q # p /\ procs'[q] = procs[q]
    <2>1. Works(p)
      <3> SUFFICES ASSUME ~Works(p) PROVE FALSE
        OBVIOUS
      <3>1. Waiting(q)
        BY <1>1, <1>2, Youngest
      <3> QED BY <1>2, <3>1 DEF Waiting
    <2>2. Live' = Live /\ p \notin Live
      BY <1>1, <2>1, LiveAfter
    <2>3. PICK x \in Live : /\ Waiting(x) /\ Head(procs[x].waits) = q
                            /\ procs[x].buffer = procs[q].buffer /\ os = "linux"
      BY <1>2 DEF Piped, Followed
    <2>4. procs'[x] = procs[x]
      BY <1>1, <2>2 DEF Only
    <2> QED BY <1>2, <2>2, <2>3, <2>4, Constant DEF Followed, Waiting
  <1>3. CASE q = p /\ (Loops(p) \/ Copies(p) \/ Returns(p) \/ Fetches(p) \/ Resumes(p))
    BY <1>3 DEF Loops, Copies, Returns, Fetches, Resumes
  <1>4. CASE q = NewPid /\ Copies(p) /\ ~Works(p)
    <2>1. p \in Live' /\ q \in Live'
      BY <1>1, <1>4, LiveAfter
    <2>2. procs'[p].role = "shell" /\ procs'[p].waits = <<q>> /\ procs'[p].buffer = procs[p].buffer
      BY <1>4 DEF Copies, Kept
    <2>3. procs'[q].buffer = procs[p].buffer
      BY <1>4 DEF Copies
    <2>4. <<q>> # <<>> /\ Head(<<q>>) = q
      OBVIOUS
    <2>5. os' = "linux"
      BY <1>1, <1>4, CopyStep, Constant
    <2> QED BY <2>1, <2>2, <2>3, <2>4, <2>5 DEF Followed, Waiting
  <1> QED BY <1>1, <1>2, <1>3, <1>4, Survivors

LEMMA StepPiped ==
  ASSUME ShellsInv, Formed', stdin = "pipe", Piped, NEW p \in Pids, Only(p), ShellStep(p)
  PROVE  Piped'
  <1>1. /\ N \in Nat /\ Formed /\ N' = N /\ Len(procs) \in Nat
        /\ Pids = 1..Len(procs) /\ NewPid = Len(procs) + 1
        /\ Len(procs') \in Nat /\ Pids' = 1..Len(procs')
    BY Constant, PidsAre DEF ShellsInv, Formed, IsSequence, Pids
  <1>2. \A q \in Pids : procs[q].line \in 0..N
    BY DEF Piped
  <1>3. FirstRead' /\ (Fetches(p) => Pos(p) \in 1..N /\ procs'[p].line = Pos(p))
    BY StepPos
  <1>4. ASSUME NEW q \in Pids' PROVE procs'[q].line \in 0..N
    <2>1. CASE q \in Pids /\ q # p
      BY <1>2, <2>1 DEF Only
    <2>2. CASE q = p
      <3>1. procs'[p].line \in {0, procs[p].line} \/ Fetches(p)
        BY DEF ShellStep, Works, Stops, Loops, Copies, Returns, Resumes, Kept
      <3> QED BY <1>1, <1>2, <1>3, <2>2, <3>1
    <2>3. CASE q \notin Pids
      <3>1. q = NewPid /\ Len(procs') = NewPid
        BY <1>1, <2>3 DEF ShellStep, Works, Stops, Loops, Copies, Returns, Fetches, Resumes
      <3>2. procs'[q].line \in {0, procs[p].line}
        BY <1>1, <3>1 DEF ShellStep, Works, Stops, Loops, Copies, Returns, Fetches, Resumes
      <3> QED BY <1>1, <1>2, <3>2
    <2> QED BY <2>1, <2>2, <2>3
  <1>5. FailedLines'
    <2>1. failed' = failed \/ failed' = failed \cup {procs[p].line}
      BY DEF ShellStep, Works, Fetches, FetchLine, Resumes
    <2> QED BY <1>1, <1>2, <2>1 DEF Piped, FailedLines
  <1> QED BY <1>1, <1>3, <1>4, <1>5, StepPlaced, StepFollowed DEF Piped

LEMMA InitPiped == Init /\ stdin = "pipe" => Piped
  <1> SUFFICES ASSUME Init, stdin = "pipe" PROVE Piped
    OBVIOUS
  <1>1. /\ Formed /\ Pids = {1} /\ procs[1] = Shell0 /\ next = 1 /\ failed = {}
        /\ N \in Nat /\ N + 1 - 1 = N /\ 0 \in 0..N
    BY InitFormed DEF Init, Formed
  <1>2. /\ procs[1].role = "shell" /\ procs[1].buffer = <<>> /\ procs[1].line = 0
    BY <1>1 DEF Shell0
  <1>3. FirstRead
    BY <1>1, <1>2 DEF FirstRead
  <1>4. Buffered(1) = Rest(1)
    <2>1. CASE N = 0
      <3>1. Buffered(1) = <<>>
        BY <1>1, <1>2, <2>1, Unread1
      <3>2. 1 \in 1..N + 1 /\ 1 = N + 1
        BY <2>1
      <3> QED BY <1>1, <3>1, <3>2, RestFacts
    <2>2. CASE N >= 1
      BY <1>1, <1>2, <2>2, Unread1
    <2> QED BY <1>1, <2>1, <2>2
  <1>5. Placed(1)
    <2>1. 1 \in 1..N + 1 /\ Len(Rest(1)) = N
      BY <1>1, RestFacts
    <2>2. Pos(1) = 1
      BY <1>1, <1>4, <2>1 DEF Pos
    <2> QED BY <1>2, <1>4, <2>1, <2>2 DEF Placed
  <1>6. Live \subseteq {1}
    BY <1>1 DEF Live
  <1> QED BY <1>1, <1>2, <1>3, <1>5, <1>6 DEF Piped, FailedLines

-----------------------------------------------------------------------------
\* Where the output goes.

\* The copy q was made by a shell that waits for it, to run the same line.
CopyOf(p, q) ==
  /\ procs[p].role = "shell" /\ procs[p].waits # <<>> /\ Head(procs[p].waits) = q
  /\ procs[q].stdout = procs[p].stdout
  /\ procs[q].cmd = procs[p].cmd /\ procs[q].line = procs[p].line

\* RedirectionsExplained, of one process, or what it will need as a shell.
Explained(q) ==
  IF procs[q].role = "forked"
  THEN q # 1 /\ os = "linux" /\ \E p \in Pids : CopyOf(p, q)
  ELSE IF q = 1 THEN procs[q].stdout = "tty"
  ELSE /\ os = "linux"
       /\ \E p \in Pids : LeftBehind(p, q) /\ procs[q].stdout = Redirected(p)

AllExplained == \A q \in Live : Explained(q)

\* The process that waits for a shell is not the one that takes a step.
LEMMA StepExplainedOthers ==
  ASSUME ShellsInv, Formed', AllExplained, NEW p \in Pids, Only(p), ShellStep(p),
         NEW q \in Live, q # p
  PROVE  Explained(q)'
  <1>1. Formed /\ Live \subseteq Pids /\ Pids \subseteq Pids'
    BY PidsAre DEF ShellsInv, Formed, IsSequence, Pids, Only
  <1>2. procs'[q] = procs[q] /\ os' = os /\ failed \subseteq failed'
    <2>1. failed' = failed \/ failed' = failed \cup {procs[p].line}
      BY DEF ShellStep, Works, Fetches, FetchLine, Resumes
    <2> QED BY <1>1, <2>1, Constant DEF Only
  <1>3. ASSUME NEW w \in Pids, procs[w].role = "shell", procs[w].waits # <<>>,
               Head(procs[w].waits) = q
        PROVE  w \in Pids' /\ procs'[w] = procs[w]
    <2>1. Waiting(w)
      BY <1>3 DEF Waiting
    <2>2. ~Works(p) => ~Waiting(p)
      BY Youngest DEF ShellsInv
    <2>3. Works(p) => w # p
      BY <1>3 DEF Works
    <2> QED BY <1>1, <2>1, <2>2, <2>3 DEF Only
  <1>4. ASSUME NEW w \in Pids, CopyOf(w, q) PROVE w \in Pids' /\ CopyOf(w, q)'
    BY <1>2, <1>3, <1>4 DEF CopyOf
  <1>5. ASSUME NEW w \in Pids, LeftBehind(w, q), procs[q].stdout = Redirected(w)
        PROVE  w \in Pids' /\ LeftBehind(w, q)' /\ procs'[q].stdout = Redirected(w)'
    BY <1>2, <1>3, <1>5 DEF LeftBehind, Redirected
  <1>6. Explained(q)
    BY DEF AllExplained
  <1> QED BY <1>2, <1>4, <1>5, <1>6 DEF Explained

LEMMA StepExplainedSelf ==
  ASSUME ShellsInv, Formed', AllExplained, NEW p \in Pids, Only(p), ShellStep(p), Local(p),
         p \in Live, p \in Live'
  PROVE  Explained(p)'
  <1>1. Formed /\ Live \subseteq Pids /\ Pids \subseteq Pids' /\ ~Works(p) /\ ~Waiting(p)
    <2>1. ~Works(p)
      BY DEF Works, Live
    <2> QED BY <2>1, PidsAre, Youngest DEF ShellsInv, Formed, IsSequence, Pids, Only
  <1>2. os' = os /\ Explained(p) /\ failed \subseteq failed'
    <2>1. failed' = failed \/ failed' = failed \cup {procs[p].line}
      BY DEF ShellStep, Works, Fetches, FetchLine, Resumes
    <2> QED BY <2>1, Constant DEF AllExplained
  <1>3. ~Stops(p)
    BY DEF Stops, Live
  <1>4. ASSUME NEW w \in Pids, procs[w].role = "shell", procs[w].waits # <<>>,
               Head(procs[w].waits) = p
        PROVE  w \in Pids' /\ procs'[w] = procs[w]
    BY <1>1, <1>4 DEF Waiting, Only
  <1>5. CASE procs[p].role = "forked"
    <2>1. Returns(p) /\ failed' = failed \cup {procs[p].line}
      BY <1>1, <1>3, <1>5 DEF ShellStep, Copies, Fetches, FetchLine, Reads, Resumes
    <2>2. PICK w \in Pids : CopyOf(w, p)
      BY <1>2, <1>5 DEF Explained
    <2>3. w \in Pids' /\ procs'[w] = procs[w]
      BY <1>4, <2>2 DEF CopyOf
    <2>4. LeftBehind(w, p)'
      BY <2>1, <2>2, <2>3 DEF CopyOf, LeftBehind
    <2>5. procs'[p].stdout = Redirected(w)'
      BY <2>1, <2>2, <2>3 DEF CopyOf, Returns, Redirected
    <2>6. procs'[p].role # "forked" /\ p # 1 /\ os' = "linux"
      BY <1>2, <1>5, <2>1 DEF Returns, Explained
    <2> QED BY <2>3, <2>4, <2>5, <2>6 DEF Explained
  <1>6. CASE procs[p].role # "forked"
    <2>1. procs'[p].role # "forked"
      BY <1>1, <1>3 DEF ShellStep, Loops, Copies, Returns, Fetches, Resumes
    <2>2. procs'[p].stdout = procs[p].stdout
      BY <1>6 DEF Local, Live
    <2>3. ASSUME NEW w \in Pids, LeftBehind(w, p), procs[p].stdout = Redirected(w)
          PROVE  w \in Pids' /\ LeftBehind(w, p)' /\ procs'[p].stdout = Redirected(w)'
      BY <1>2, <1>4, <2>2, <2>3 DEF LeftBehind, Redirected
    <2> QED BY <1>2, <1>6, <2>1, <2>2, <2>3 DEF Explained
  <1> QED BY <1>5, <1>6

LEMMA StepExplained ==
  ASSUME ShellsInv, Formed', AllExplained, NEW p \in Pids, Only(p), ShellStep(p), Local(p)
  PROVE  AllExplained'
  <1> SUFFICES ASSUME NEW q \in Live' PROVE Explained(q)'
    BY DEF AllExplained
  <1>1. Formed /\ Len(procs) \in Nat /\ Pids = 1..Len(procs) /\ NewPid = Len(procs) + 1
    BY PidsAre DEF ShellsInv
  <1>2. CASE q \in Live /\ q # p
    BY <1>2, StepExplainedOthers
  <1>3. CASE q = p /\ p \in Live
    BY <1>3, StepExplainedSelf
  <1>4. CASE q = NewPid /\ Copies(p)
    <2>1. procs'[q].role = "forked" /\ q # 1 /\ os' = "linux"
      BY <1>1, <1>4, CopyStep, Constant DEF Copies
    <2>2. p \in Pids'
      BY <1>1 DEF Formed, IsSequence, Pids, Only
    <2>3. CopyOf(p, q)'
      <3>1. <<q>> # <<>> /\ Head(<<q>>) = q
        OBVIOUS
      <3> QED BY <1>4, <3>1 DEF CopyOf, Copies, Kept
    <2> QED BY <2>1, <2>2, <2>3 DEF Explained
  <1> QED BY <1>1, <1>2, <1>3, <1>4, Survivors

\* A '>' is for one command, but for the copies that commands which could not
\* be executed leave behind, for any input and any number of failed commands.
\* A copy is made with the output and the line of the shell that waits for it;
\* when it comes back it has the redirection of that line, and the shell that
\* waits stays as it is until the copy has ended.
THEOREM Redirections == Spec => []RedirectionsExplained
  <1> DEFINE Inv == ShellsInv /\ AllExplained
  <1>1. Init => Inv
    <2> SUFFICES ASSUME Init PROVE AllExplained
      BY InitShells
    <2>1. Pids = {1} /\ procs[1] = Shell0
      BY InitFormed
    <2>2. Shell0.role = "shell" /\ Shell0.stdout = "tty"
      BY DEF Shell0
    <2> QED BY <2>1, <2>2 DEF AllExplained, Explained, Live
  <1>2. Inv /\ [Next]_vars => Inv'
    <2> SUFFICES ASSUME Inv, [Next]_vars PROVE AllExplained'
      BY StepShells
    <2>1. ASSUME NEW p \in Pids, ProcessStep(p) PROVE AllExplained'
      <3>1. Formed' /\ Local(p) /\ Only(p) /\ ShellStep(p)
        BY <2>1, StepKinds DEF ShellsInv
      <3> QED BY <3>1, StepExplained
    <2>2. CASE UNCHANGED vars
      BY <2>2 DEF vars, AllExplained, Explained, Live, Pids, CopyOf, LeftBehind, Redirected
    <2> QED BY <2>1, <2>2 DEF Next
  <1>3. Inv => RedirectionsExplained
    BY DEF AllExplained, Explained, Live, RedirectionsExplained
  <1> HIDE DEF Inv
  <1> QED BY <1>1, <1>2, <1>3, PTL DEF Spec

-----------------------------------------------------------------------------
\* How often a line can still run.  Every shell has a share: what it may still
\* do itself, not counting what it waits for.  What has run and all the shares
\* together never exceed Runs(1, n).

Share(p, n) ==
  IF procs[p].role = "dispatch"
  THEN IF procs[p].line < n THEN Runs(procs[p].line, n) ELSE 0
  ELSE IF procs[p].role = "forked"
  THEN IF procs[p].line < n /\ procs[p].line \in failed THEN Runs(procs[p].line + 1, n) ELSE 0
  ELSE IF Pos(p) <= n THEN Runs(Pos(p), n) ELSE 0

\* g[p] is enough for p, and for all the shells it waits for.
Covers(p, n, g) ==
  IF Waiting(p) THEN g[Head(procs[p].waits)] + Share(p, n) <= g[p]
  ELSE ran[n] + Share(p, n) <= g[p]

Budget(n) ==
  /\ ran[n] <= Runs(1, n)
  /\ \E g \in [Nat -> Nat] : \A p \in Live : g[p] <= Runs(1, n) /\ Covers(p, n, g)

LEMMA ShareType ==
  ASSUME Formed, FailedLines, NEW p, NEW n
  PROVE  Share(p, n) \in Nat
  BY RunsType DEF Share

\* After a step every bound is what it was or, if a command before line n has
\* failed for the first time, at most twice that; the bound of all is.
LEMMA RunsScale ==
  ASSUME Formed, Piped, NEW p \in Pids, ShellStep(p), NEW n \in 1..N
  PROVE  \E c \in {1, 2} :
           /\ Runs(1, n)' = c * Runs(1, n)
           /\ \A a \in Nat \ {0} : Runs(a, n)' \in Nat /\ Runs(a, n)' <= c * Runs(a, n)
           /\ failed' = failed => c = 1 /\ \A a \in Nat : Runs(a, n)' = Runs(a, n)
  <1>1. FailedLines /\ procs[p].line \in 0..N /\ os' = os /\ n \in Nat /\ N \in Nat
    BY Constant DEF Piped, Formed
  <1>2. \A a \in Nat : Runs(a, n) \in Nat
    BY <1>1, RunsType
  <1>3. CASE failed' = failed
    <2>1. \A a \in Nat : Runs(a, n)' = Runs(a, n)
      BY <1>1, <1>3 DEF Runs, Failed
    <2> QED BY <1>2, <2>1
  <1>4. CASE failed' = failed \cup {procs[p].line} /\ failed' # failed
    <2> DEFINE m == procs[p].line
    <2>1. \A a \in Nat : Runs(a, n)' = IF os = "linux" /\ m \notin failed /\ m < n /\ a <= m
                                       THEN 2 * Runs(a, n) ELSE Runs(a, n)
      BY <1>1, <1>4, RunsGrow
    <2>2. m \in Nat
      BY <1>1
    <2> HIDE DEF m
    <2>3. CASE os = "linux" /\ m \notin failed /\ m < n /\ 1 <= m
      <3>1. Runs(1, n)' = 2 * Runs(1, n)
        BY <2>1, <2>3
      <3>2. \A a \in Nat \ {0} : Runs(a, n)' \in Nat /\ Runs(a, n)' <= 2 * Runs(a, n)
        BY <1>2, <2>1
      <3> QED BY <1>4, <3>1, <3>2
    <2>4. CASE ~(os = "linux" /\ m \notin failed /\ m < n /\ 1 <= m)
      <3>1. \A a \in Nat \ {0} : Runs(a, n)' = Runs(a, n)
        BY <2>1, <2>2, <2>4
      <3>2. Runs(1, n)' = 1 * Runs(1, n)
        BY <1>2, <3>1
      <3>3. \A a \in Nat \ {0} : Runs(a, n)' \in Nat /\ Runs(a, n)' <= 1 * Runs(a, n)
        BY <1>2, <3>1
      <3> QED BY <1>4, <3>2, <3>3
    <2> QED BY <2>3, <2>4
  <1>5. failed' = failed \/ failed' = failed \cup {procs[p].line}
    BY DEF ShellStep, Works, Fetches, FetchLine, Resumes
  <1> QED BY <1>3, <1>4, <1>5

\* The shares of the shells that wait.
LEMMA OtherShares ==
  ASSUME ShellsInv, Formed', stdin = "pipe", Piped, NEW p \in Pids, Only(p), ShellStep(p),
         ~Works(p), NEW n \in 1..N, NEW q \in Live, q # p, NEW c \in {1, 2},
         \A a \in Nat \ {0} : Runs(a, n)' \in Nat /\ Runs(a, n)' <= c * Runs(a, n)
  PROVE  Share(q, n)' \in Nat /\ Share(q, n)' <= c * Share(q, n)
  <1>1. Formed /\ N \in Nat /\ N' = N /\ FailedLines /\ WaitsForYounger /\ Chain
    BY Constant DEF ShellsInv, Formed, Piped
  <1>2. Waiting(q) /\ procs'[q] = procs[q] /\ Buffered(q)' = Buffered(q)
    BY <1>1, Youngest, StepPos, LiveAfter
  <1>3. Pos(q)' = Pos(q) /\ Pos(q) \in Nat \ {0}
    BY <1>1, <1>2 DEF Pos, Piped, Placed
  <1>4. /\ Share(q, n) = IF Pos(q) <= n THEN Runs(Pos(q), n) ELSE 0
        /\ Share(q, n)' = IF Pos(q) <= n THEN Runs(Pos(q), n)' ELSE 0
    BY <1>2, <1>3 DEF Share, Waiting, Runs, Failed
  <1>5. \A a \in Nat : Runs(a, n) \in Nat
    BY <1>1, RunsType
  <1> QED BY <1>3, <1>4, <1>5

LEMMA Scaled ==
  ASSUME NEW c \in {1, 2}, NEW a \in Nat, NEW b \in Nat, NEW s \in Nat, NEW t \in Nat
  PROVE  /\ c * a \in Nat /\ (a <= b => c * a <= c * b) /\ a <= c * a
         /\ a + s <= b /\ t <= c * s => c * a + t <= c * b
  <1>1. CASE c = 1
    BY <1>1
  <1>2. CASE c = 2
    BY <1>2
  <1> QED BY <1>1, <1>2

\* After a step that makes no copy the youngest shell still waits for no shell.
LEMMA StillYoungest ==
  ASSUME ShellsInv, Formed', WaitsForYounger', NEW p \in Pids, Only(p), ShellStep(p),
         ~Works(p), ~Copies(p)
  PROVE  /\ Live' \subseteq Live
         /\ p \in Live' => ~Waiting(p)'
         /\ p \notin Live' => /\ Live' = Live \ {p}
                             /\ ran' = ran
                             /\ failed' \in {failed, failed \cup {procs[p].line}}
  <1>1. /\ Formed /\ WaitsForYounger /\ Chain /\ Live \subseteq Pids /\ Pids = 1..Len(procs)
        /\ Len(procs) \in Nat /\ Len(procs') \in Nat /\ Pids' = 1..Len(procs')
    BY PidsAre DEF ShellsInv, Formed, IsSequence, Pids
  <1>2. Live' = Live \/ (Stops(p) /\ Live' = Live \ {p})
    BY <1>1, LiveAfter DEF ShellStep
  <1>3. ASSUME p \in Live', Waiting(p)' PROVE FALSE
    <2> DEFINE w == procs'[p].waits
    <2>1. w # <<>> /\ Head(w) \in Live
      BY <1>2, <1>3 DEF Waiting
    <2>2. w \in Seq(Nat) /\ \A k \in DOMAIN w : w[k] \in (p + 1)..Len(procs')
      BY <1>1, <1>3 DEF WaitsForYounger, Live
    <2>3. Head(w) > p /\ Head(w) \in Nat /\ p \in Nat
      BY <1>1, <2>1, <2>2
    <2>4. Head(w) = p \/ Head(w) < p
      BY <1>1, <2>1, Youngest
    <2> QED BY <2>3, <2>4
  <1>4. p \notin Live' => Stops(p)
    BY <1>1, <1>2, LiveAfter
  <1>5. Stops(p) => ran' = ran
    BY DEF Stops
  <1>6. failed' \in {failed, failed \cup {procs[p].line}}
    BY DEF ShellStep, Works, Fetches, FetchLine, Resumes
  <1> QED BY <1>1, <1>2, <1>3, <1>4, <1>5, <1>6

\* The budget after a step that makes no copy and in which the share of p, and
\* what runs, do not grow but by the common factor.
LEMMA Spends ==
  ASSUME ShellsInv, Formed', WaitsForYounger', stdin = "pipe", Piped,
         NEW p \in Pids, Only(p), ShellStep(p), ~Works(p), ~Copies(p),
         NEW n \in 1..N, ran[n] \in Nat, ran'[n] \in Nat, Budget(n),
         NEW c \in {1, 2}, Runs(1, n)' = c * Runs(1, n),
         \A a \in Nat \ {0} : Runs(a, n)' \in Nat /\ Runs(a, n)' <= c * Runs(a, n),
         p \in Live' => Share(p, n)' \in Nat /\ ran'[n] + Share(p, n)' <= c * (ran[n] + Share(p, n))
  PROVE  Budget(n)'
  <1>1. /\ Formed /\ WaitsForYounger /\ Chain /\ FailedLines /\ Live \subseteq Nat
        /\ n \in Nat /\ N \in Nat
    BY PidsAre DEF ShellsInv, Formed, Piped
  <1>2. /\ Live' \subseteq Live /\ (p \in Live' => ~Waiting(p)')
        /\ (p \notin Live' => Live' = Live \ {p} /\ ran' = ran)
    BY StillYoungest
  <1>3. /\ p \in Live /\ p \in Nat /\ ~Waiting(p)
        /\ \A q \in Live : q # p => /\ Waiting(q) /\ Head(procs[q].waits) \in Live
                                   /\ procs'[q] = procs[q] /\ q \in Live'
    BY <1>1, Youngest, LiveAfter
  <1>4. \A q : Share(q, n) \in Nat
    BY <1>1, ShareType
  <1>5. Runs(1, n) \in Nat
    BY <1>1, RunsType
  <1>6. PICK g \in [Nat -> Nat] : \A q \in Live : g[q] <= Runs(1, n) /\ Covers(q, n, g)
    BY DEF Budget
  <1>7. PICK h \in [Nat -> Nat] : \A x \in Nat : h[x] = c * g[x]
    <2> DEFINE f == [x \in Nat |-> c * g[x]]
    <2>1. \A x \in Nat : c * g[x] \in Nat
      BY Scaled
    <2>2. f \in [Nat -> Nat] /\ \A x \in Nat : f[x] = c * g[x]
      BY <2>1
    <2> QED BY <2>2
  <1>8. ran[n] + Share(p, n) <= g[p]
    BY <1>3, <1>6 DEF Covers
  <1>9. ASSUME NEW q \in Live' PROVE h[q] <= Runs(1, n)' /\ Covers(q, n, h)'
    <2>1. q \in Live /\ q \in Nat /\ g[q] \in Nat /\ g[q] <= Runs(1, n) /\ h[q] = c * g[q]
      BY <1>1, <1>2, <1>6, <1>7
    <2>2. h[q] <= Runs(1, n)'
      BY <1>5, <2>1, Scaled
    <2>3. CASE q = p
      <3>1. ran[n] + Share(p, n) \in Nat /\ g[p] \in Nat
        BY <1>3, <1>4
      <3>2. c * (ran[n] + Share(p, n)) <= h[p]
        BY <1>3, <1>7, <1>8, <3>1, Scaled
      <3>3. c * (ran[n] + Share(p, n)) \in Nat
        BY <3>1, Scaled
      <3>4. ran'[n] + Share(p, n)' <= h[p]
        BY <1>3, <1>7, <2>3, <3>2, <3>3
      <3> QED BY <1>2, <2>2, <2>3, <3>4 DEF Covers
    <2>4. CASE q # p
      <3> DEFINE d == Head(procs[q].waits)
      <3>1. /\ Waiting(q) /\ d \in Live /\ d \in Nat /\ procs'[q] = procs[q]
            /\ g[d] + Share(q, n) <= g[q] /\ g[d] \in Nat
        BY <1>1, <1>3, <1>6, <2>1, <2>4 DEF Covers
      <3>2. Share(q, n)' \in Nat /\ Share(q, n)' <= c * Share(q, n)
        BY <2>1, <2>4, OtherShares
      <3>3. c * g[d] + Share(q, n)' <= c * g[q]
        BY <1>4, <2>1, <3>1, <3>2, Scaled
      <3>4. CASE d \in Live'
        <4>1. h[d] + Share(q, n)' <= h[q]
          BY <1>7, <2>1, <3>1, <3>3
        <4>2. Waiting(q)' /\ Head(procs'[q].waits) = d
          BY <3>1, <3>4 DEF Waiting
        <4> QED BY <2>2, <4>1, <4>2 DEF Covers
      <3>5. CASE d \notin Live'
        <4>1. d = p /\ ran' = ran
          BY <1>2, <1>3, <3>1, <3>5
        <4>2. ran[n] <= c * g[p]
          BY <1>3, <1>4, <1>8, Scaled
        <4>3. c * g[p] \in Nat /\ c * g[q] \in Nat
          BY <1>3, <2>1, Scaled
        <4>4. ran'[n] + Share(q, n)' <= h[q]
          BY <1>7, <2>1, <3>2, <3>3, <4>1, <4>2, <4>3
        <4>5. ~Waiting(q)'
          BY <3>1, <3>5 DEF Waiting
        <4> QED BY <2>2, <4>4, <4>5 DEF Covers
      <3> QED BY <3>4, <3>5
    <2> QED BY <2>3, <2>4
  <1>10. ran'[n] <= Runs(1, n)'
    <2>1. CASE p \in Live'
      <3>1. ran'[n] + Share(p, n)' <= h[p] /\ h[p] <= Runs(1, n)' /\ h[p] \in Nat
        BY <1>2, <1>3, <1>7, <1>9, <2>1 DEF Covers
      <3>2. Runs(1, n)' \in Nat
        OBVIOUS
      <3> QED BY <2>1, <3>1, <3>2
    <2>2. CASE p \notin Live'
      <3>1. ran'[n] <= Runs(1, n) /\ Runs(1, n) <= c * Runs(1, n)
        BY <1>2, <1>5, <2>2, Scaled DEF Budget
      <3> QED BY <1>5, <3>1
    <2> QED BY <2>1, <2>2
  <1> QED BY <1>9, <1>10 DEF Budget

\* The share of the youngest shell, when no further command has failed.
LEMMA OwnShare ==
  ASSUME ShellsInv, Formed', stdin = "pipe", Piped, NEW p \in Pids, Only(p), ShellStep(p),
         ~Works(p), ~Copies(p), p \in Live', NEW n \in 1..N, ran \in [1..N -> Nat],
         \A a \in Nat : Runs(a, n)' = Runs(a, n),
         procs[p].role = "forked" /\ procs[p].line < n => procs[p].line \in failed
  PROVE  /\ Share(p, n)' \in Nat /\ ran'[n] \in Nat
         /\ ran'[n] + Share(p, n)' <= ran[n] + Share(p, n)
  <1>1. Formed /\ FailedLines /\ N \in Nat /\ N' = N /\ n \in Nat /\ ran[n] \in Nat
    BY Constant DEF ShellsInv, Formed, Piped
  <1>2. p \in Live /\ ~Stops(p) /\ Placed(p)
    BY <1>1, LiveAfter DEF Piped
  <1>3. \A a \in Nat : Runs(a, n) \in Nat
    BY <1>1, RunsType
  <1> DEFINE a == Pos(p)
  <1>4. /\ a \in Nat /\ a >= 1
        /\ procs[p].role \in {"dispatch", "forked"} =>
             procs[p].line = a - 1 /\ procs[p].line \in Nat /\ procs[p].line + 1 = a
    BY <1>1, <1>2 DEF Placed
  <1>5. Kept(p) => Pos(p)' = a
    BY <1>1, <1>2, StepPos DEF Pos
  <1> HIDE DEF a
  <1>6. Share(p, n) \in Nat
    BY <1>1, ShareType
  <1>7. ASSUME ran' = ran, Share(p, n)' = Share(p, n)
         PROVE  /\ Share(p, n)' \in Nat /\ ran'[n] \in Nat
                /\ ran'[n] + Share(p, n)' <= ran[n] + Share(p, n)
    BY <1>1, <1>6, <1>7
  <1>8. CASE Loops(p) /\ procs[p].role \in {"dispatch", "piping"}
    <2>1. Kept(p) /\ procs'[p].role \in {"shell", "piping"} /\ ran' = ran
      BY <1>8 DEF Loops, Kept
    <2>2. Share(p, n)' = IF a <= n THEN Runs(a, n) ELSE 0
      <3>1. Share(p, n)' = IF Pos(p)' <= n THEN Runs(Pos(p), n)' ELSE 0
        BY <2>1 DEF Share
      <3> QED BY <1>4, <1>5, <2>1, <3>1 DEF Runs, Failed
    <2>3. CASE procs[p].role = "piping"
      <3>1. Share(p, n) = IF a <= n THEN Runs(a, n) ELSE 0
        BY <2>3 DEF Share, a
      <3> QED BY <1>7, <2>1, <2>2, <3>1
    <2>4. CASE procs[p].role = "dispatch"
      <3> DEFINE m == procs[p].line
      <3>1. Share(p, n) = IF m < n THEN Runs(m, n) ELSE 0
        BY <2>4 DEF Share
      <3>2. m \in Nat /\ m + 1 = a
        BY <1>4, <2>4
      <3> HIDE DEF m
      <3>3. m < n => Runs(m, n) = Runs(a, n) \/ Runs(m, n) = 2 * Runs(a, n)
        BY <1>1, <3>2, RunsFrom
      <3>4. Runs(a, n) \in Nat /\ Runs(m, n) \in Nat
        BY <1>3, <1>4, <3>2
      <3>5. m < n <=> a <= n
        BY <1>1, <3>2
      <3> QED BY <1>1, <2>1, <2>2, <3>1, <3>3, <3>4, <3>5
    <2> QED BY <1>8, <2>3, <2>4
  <1>9. CASE Returns(p) /\ procs[p].role = "forked"
    <2>1. Kept(p) /\ procs'[p].role = "shell" /\ ran' = ran
      BY <1>9 DEF Returns, Kept
    <2>2. Share(p, n)' = IF a <= n THEN Runs(a, n) ELSE 0
      <3>1. Share(p, n)' = IF Pos(p)' <= n THEN Runs(Pos(p), n)' ELSE 0
        BY <2>1 DEF Share
      <3> QED BY <1>4, <1>5, <2>1, <3>1 DEF Runs, Failed
    <2>3. /\ procs[p].line < n <=> a <= n
          /\ procs[p].line + 1 = a
      BY <1>1, <1>4, <1>9
    <2>4. Share(p, n) = IF a <= n THEN Runs(a, n) ELSE 0
      BY <1>9, <2>3 DEF Share
    <2> QED BY <1>7, <2>1, <2>2, <2>4
  <1>10. CASE Resumes(p)
    <2>1. Kept(p) /\ procs[p].role = "shell" /\ procs'[p].role = "shell" /\ ran' = ran
      BY <1>10 DEF Resumes, Kept
    <2>2. Share(p, n)' = IF a <= n THEN Runs(a, n) ELSE 0
      <3>1. Share(p, n)' = IF Pos(p)' <= n THEN Runs(Pos(p), n)' ELSE 0
        BY <2>1 DEF Share
      <3> QED BY <1>4, <1>5, <2>1, <3>1 DEF Runs, Failed
    <2>3. Share(p, n) = IF a <= n THEN Runs(a, n) ELSE 0
      BY <2>1 DEF Share, a
    <2> QED BY <1>7, <2>1, <2>2, <2>3
  <1>11. CASE Fetches(p)
    <2>1. procs[p].role = "shell" /\ procs'[p].role = "dispatch"
      BY <1>11 DEF Fetches, FetchLine, Reads
    <2>2. a \in 1..N /\ procs'[p].line = a /\ Head(Buffered(p)) = a
      BY <1>11, StepPos DEF a, Fetches
    <2>3. ran' = [ran EXCEPT ![a] = @ + 1]
      BY <1>11, <2>2 DEF Fetches, FetchLine
    <2>4. ran'[n] = IF n = a THEN ran[n] + 1 ELSE ran[n]
      BY <2>2, <2>3
    <2>5. Share(p, n) = IF a <= n THEN Runs(a, n) ELSE 0
      BY <2>1 DEF Share, a
    <2>6. Share(p, n)' = IF a < n THEN Runs(a, n) ELSE 0
      <3>1. failed' = failed /\ os' = os
        BY <1>11 DEF Fetches, FetchLine
      <3> QED BY <2>1, <2>2, <3>1 DEF Share, Runs, Failed
    <2>7. Runs(n, n) = 1
      <3>1. Failed(n, n) = {}
        <4>1. failed \subseteq Nat
          BY <1>1 DEF FailedLines
        <4>2. \A k \in failed : ~(n <= k /\ k < n)
          BY <1>1, <4>1
        <4> QED BY <4>2 DEF Failed
      <3> QED BY <3>1, RunsOnce
    <2>8. CASE n = a
      BY <1>1, <2>4, <2>5, <2>6, <2>7, <2>8
    <2>9. CASE n # a
      <3> DEFINE R == Runs(a, n)
                 S == Share(p, n)
      <3>1. R \in Nat /\ ran'[n] = ran[n] /\ a \in Nat
        BY <1>3, <1>4, <2>4, <2>9
      <3>2. (S = IF a <= n THEN R ELSE 0) /\ (Share(p, n)' = IF a < n THEN R ELSE 0)
        BY <2>5, <2>6
      <3> HIDE DEF R, S
      <3>3. S \in Nat /\ Share(p, n)' \in Nat /\ Share(p, n)' <= S
        BY <1>1, <3>1, <3>2
      <3> QED BY <1>1, <3>1, <3>3 DEF S
    <2> QED BY <2>8, <2>9
  <1> QED BY <1>2, <1>8, <1>9, <1>10, <1>11 DEF ShellStep

\* A command does not touch the budget.
LEMMA WorksBudget ==
  ASSUME ShellsInv, Formed', stdin = "pipe", Piped, NEW p \in Pids, Only(p), ShellStep(p),
         Works(p), NEW n \in 1..N, Budget(n)
  PROVE  Budget(n)'
  <1>1. /\ Formed /\ N' = N /\ p \notin Live /\ Live' = Live /\ ran' = ran
        /\ failed' = failed /\ os' = os
    BY Constant, LiveAfter DEF ShellsInv, Works
  <1>2. Runs(1, n)' = Runs(1, n)
    BY <1>1 DEF Runs, Failed
  <1>3. PICK g \in [Nat -> Nat] : \A q \in Live : g[q] <= Runs(1, n) /\ Covers(q, n, g)
    BY DEF Budget
  <1>4. ASSUME NEW q \in Live PROVE Covers(q, n, g)'
    <2>1. procs'[q] = procs[q] /\ Buffered(q)' = Buffered(q)
      BY <1>1, LiveAfter, StepPos
    <2>2. Pos(q)' = Pos(q)
      BY <1>1, <2>1 DEF Pos
    <2>3. Share(q, n)' = Share(q, n)
      BY <1>1, <2>1, <2>2 DEF Share, Runs, Failed
    <2>4. Covers(q, n, g)
      BY <1>3
    <2> QED BY <1>1, <2>1, <2>3, <2>4 DEF Covers, Waiting
  <1> QED BY <1>1, <1>2, <1>3, <1>4 DEF Budget

\* A fork divides the share of the shell between it and the copy.
LEMMA CopiesBudget ==
  ASSUME ShellsInv, Formed', stdin = "pipe", Piped, NEW p \in Pids, Only(p), ShellStep(p),
         Copies(p), NEW n \in 1..N, ran[n] \in Nat, Budget(n)
  PROVE  Budget(n)'
  <1>1. /\ Formed /\ WaitsForYounger /\ Chain /\ FailedLines /\ Live \subseteq Nat
        /\ n \in Nat /\ N \in Nat /\ N' = N /\ Len(procs) \in Nat
    BY PidsAre, Constant DEF ShellsInv, Formed, Piped
  <1>2. ~Works(p) /\ failed' = failed /\ procs[p].role = "dispatch" /\ os = "linux" /\ os' = os
    BY <1>1, CopyStep, Constant
  <1>3. PICK v \in Nat : v = NewPid
    BY <1>1, PidsAre
  <1>4. /\ p \in Live /\ p \in Nat /\ ~Waiting(p) /\ v \notin Live /\ Live' = Live \cup {v}
        /\ \A q \in Live : q # p =>
             Waiting(q) /\ Head(procs[q].waits) \in Live /\ procs'[q] = procs[q]
    BY <1>1, <1>2, <1>3, Youngest, LiveAfter
  <1>5. /\ ran' = ran /\ procs'[p].role = "shell" /\ procs'[p].waits = <<v>>
        /\ procs'[v].role = "forked" /\ procs'[v].line = procs[p].line
        /\ Buffered(p)' = Buffered(p)
    BY <1>3, <1>4, StepPos DEF Copies, Kept
  <1>6. \A a \in Nat : Runs(a, n) \in Nat /\ Runs(a, n)' = Runs(a, n)
    BY <1>1, <1>2, RunsType DEF Runs, Failed
  <1>7. PICK g \in [Nat -> Nat] : \A q \in Live : g[q] <= Runs(1, n) /\ Covers(q, n, g)
    BY DEF Budget
  <1>8. PICK m \in Nat : m = procs[p].line /\ m >= 1 /\ Pos(p) = m + 1
    <2>1. Pos(p) \in Nat /\ procs[p].line = Pos(p) - 1 /\ procs[p].line >= 1
      <3>1. Placed(p)
        BY <1>4 DEF Piped
      <3>2. Pos(p) \in 1..N + 1 /\ N + 1 \in Nat
        BY <1>1, <3>1 DEF Placed
      <3> QED BY <1>2, <3>1, <3>2 DEF Placed
    <2>2. procs[p].line \in Nat /\ Pos(p) = procs[p].line + 1
      BY <2>1
    <2> QED BY <2>1, <2>2
  <1>9. PICK R \in Nat : R = Runs(m + 1, n)
    BY <1>6, <1>8
  <1>10. PICK s \in Nat : s = IF m < n THEN R ELSE 0
    BY <1>9
  <1>11. PICK t \in Nat : t = IF m < n /\ m \in failed THEN R ELSE 0
    BY <1>9
  <1>12. Share(p, n)' = s
    <2>1. Pos(p)' = m + 1
      BY <1>1, <1>5, <1>8 DEF Pos
    <2>2. m < n <=> m + 1 <= n
      <3>1. m \in Nat /\ n \in Nat
        BY <1>1
      <3> QED BY <3>1
    <2>3. Share(p, n)' = IF m + 1 <= n THEN Runs(m + 1, n) ELSE 0
      BY <1>2, <1>5, <2>1 DEF Share, Runs, Failed
    <2> QED BY <1>9, <1>10, <2>2, <2>3
  <1>13. Share(v, n)' = t
    BY <1>2, <1>5, <1>8, <1>9, <1>11 DEF Share, Runs, Failed
  <1>14. s + t <= Share(p, n) /\ Share(p, n) \in Nat
    <2>1. Share(p, n) = IF m < n THEN Runs(m, n) ELSE 0
      BY <1>2, <1>8 DEF Share
    <2>2. m < n => Runs(m, n) = IF m \in failed THEN 2 * R ELSE R
      BY <1>1, <1>2, <1>8, <1>9, RunsFrom
    <2> QED BY <1>9, <1>10, <1>11, <2>1, <2>2
  <1>15. ran[n] + Share(p, n) <= g[p] /\ g[p] \in Nat /\ g[p] <= Runs(1, n)
    BY <1>4, <1>7 DEF Covers
  <1>16. PICK h \in [Nat -> Nat] : h[v] = g[p] - s /\ \A x \in Nat : x # v => h[x] = g[x]
    <2> DEFINE f == [g EXCEPT ![v] = g[p] - s]
    <2>1. g[p] - s \in Nat
      BY <1>14, <1>15
    <2>2. f \in [Nat -> Nat] /\ f[v] = g[p] - s /\ \A x \in Nat : x # v => f[x] = g[x]
      BY <1>3, <2>1
    <2> QED BY <2>2
  <1>17. h[v] \in Nat /\ h[v] = g[p] - s /\ h[p] = g[p]
    BY <1>4, <1>16
  <1>18. Runs(1, n)' = Runs(1, n) /\ Runs(1, n) \in Nat
    BY <1>6
  <1>19. ASSUME NEW q \in Live' PROVE h[q] <= Runs(1, n)' /\ Covers(q, n, h)'
    <2>1. CASE q = p
      <3>1. h[v] + s <= h[p]
        BY <1>15, <1>17
      <3>2. Waiting(p)' /\ Head(procs'[p].waits) = v
        BY <1>4, <1>5 DEF Waiting
      <3> QED BY <1>12, <1>15, <1>17, <1>18, <2>1, <3>1, <3>2 DEF Covers
    <2>2. CASE q = v
      <3>1. ran'[n] + t <= h[v] /\ h[v] <= Runs(1, n)
        BY <1>5, <1>14, <1>15, <1>17, <1>18
      <3>2. ~Waiting(v)'
        BY <1>5 DEF Waiting
      <3> QED BY <1>13, <1>18, <2>2, <3>1, <3>2 DEF Covers
    <2>3. CASE q # p /\ q # v
      <3> DEFINE d == Head(procs[q].waits)
      <3>1. /\ q \in Live /\ Waiting(q) /\ d \in Live /\ procs'[q] = procs[q]
            /\ g[d] + Share(q, n) <= g[q] /\ g[d] \in Nat /\ g[q] \in Nat
            /\ g[q] <= Runs(1, n) /\ h[q] = g[q] /\ h[d] = g[d]
        BY <1>1, <1>4, <1>7, <1>16, <2>3 DEF Covers
      <3>2. \A a \in Nat \ {0} : Runs(a, n)' \in Nat /\ Runs(a, n)' <= 1 * Runs(a, n)
        BY <1>6
      <3>3. Share(q, n)' \in Nat /\ Share(q, n)' <= 1 * Share(q, n)
        BY <1>2, <2>3, <3>1, <3>2, OtherShares
      <3>4. Share(q, n) \in Nat
        BY <1>1, ShareType
      <3>5. h[d] + Share(q, n)' <= h[q]
        BY <3>1, <3>3, <3>4
      <3>6. Waiting(q)' /\ Head(procs'[q].waits) = d
        BY <1>4, <3>1 DEF Waiting
      <3> QED BY <1>18, <3>1, <3>5, <3>6 DEF Covers
    <2> QED BY <2>1, <2>2, <2>3
  <1> QED BY <1>5, <1>18, <1>19 DEF Budget

\* The first failure of a command before line n: the copy that goes back into
\* the loop will run what its parent has left, once more.
FirstFailure(p, n) ==
  /\ Returns(p) /\ procs[p].role = "forked" /\ failed' = failed \cup {procs[p].line}
  /\ procs[p].line < n /\ procs[p].line \notin failed

LEMMA FailureBudget ==
  ASSUME ShellsInv, Formed', WaitsForYounger', stdin = "pipe", Piped, NEW p \in Pids,
         Only(p), ShellStep(p), ~Works(p), ~Copies(p),
         NEW n \in 1..N, FirstFailure(p, n), ran[n] \in Nat, Budget(n)
  PROVE  Budget(n)'
  <1>1. /\ Formed /\ WaitsForYounger /\ Chain /\ FailedLines /\ Live \subseteq Nat
        /\ n \in Nat /\ N \in Nat /\ N' = N
    BY PidsAre, Constant DEF ShellsInv, Formed, Piped
  <1>2. /\ p \in Live /\ p \in Nat /\ ~Waiting(p) /\ Live' = Live /\ ~Waiting(p)'
        /\ \A q \in Live : q # p =>
             Waiting(q) /\ Head(procs[q].waits) \in Live /\ procs'[q] = procs[q] /\ q < p
    BY <1>1, Youngest, LiveAfter, StillYoungest DEF FirstFailure
  <1>3. /\ ran' = ran /\ procs'[p].role = "shell" /\ Buffered(p)' = Buffered(p)
        /\ procs[p].role = "forked" /\ failed' = failed \cup {procs[p].line}
    BY <1>2, StepPos DEF FirstFailure, Returns, Kept
  <1>4. PICK m \in Nat : /\ m = procs[p].line /\ m >= 1 /\ Pos(p) = m + 1
                         /\ m \in 0..N /\ m < n /\ m \notin failed
    BY <1>1, <1>2, <1>3 DEF Piped, Placed, FirstFailure
  <1>5. PICK b \in Live : /\ os = "linux" /\ Waiting(b) /\ Head(procs[b].waits) = p
                          /\ procs[b].buffer = procs[p].buffer
    BY <1>2, <1>3 DEF Piped, Followed
  <1>6. b # p /\ b < p /\ b \in Nat /\ procs'[b] = procs[b]
    BY <1>1, <1>2, <1>5
  <1>7. /\ \A a \in Nat : Runs(a, n)' = IF a <= m THEN 2 * Runs(a, n) ELSE Runs(a, n)
        /\ \A a \in Nat : Runs(a, n) \in Nat
    <2>1. failed' = failed \cup {m} /\ os' = os
      BY <1>3, <1>4, Constant
    <2> QED BY <1>1, <1>4, <1>5, <2>1, RunsGrow, RunsType
  <1>8. Runs(1, n)' = 2 * Runs(1, n) /\ Runs(1, n) \in Nat
    BY <1>4, <1>7
  <1>9. PICK R \in Nat : R = Runs(m + 1, n) /\ Runs(m + 1, n)' = R
    <2>1. ~(m + 1 <= m) /\ m + 1 \in Nat
      BY <1>4
    <2> QED BY <1>7, <2>1
  <1>10. m + 1 <= n
    BY <1>1, <1>4
  <1>11. Share(p, n) = 0 /\ Share(p, n)' = R
    <2>1. Pos(p)' = m + 1
      BY <1>1, <1>3, <1>4 DEF Pos
    <2>2. Share(p, n)' = Runs(m + 1, n)'
      BY <1>3, <1>10, <2>1 DEF Share, Runs, Failed
    <2> QED BY <1>3, <1>4, <1>9, <2>2 DEF Share
  <1>12. Share(b, n) = R /\ Share(b, n)' = R
    <2>1. Pos(b) = m + 1 /\ Pos(b)' = m + 1
      <3>1. Buffered(b) = Buffered(p) /\ Buffered(b)' = Buffered(b)
        BY <1>5, <1>6, StepPos DEF Buffered
      <3> QED BY <1>1, <1>4, <3>1 DEF Pos
    <2>2. procs[b].role = "shell"
      BY <1>5 DEF Waiting
    <2>3. Share(b, n) = Runs(m + 1, n)
      BY <1>10, <2>1, <2>2 DEF Share
    <2>4. Share(b, n)' = Runs(m + 1, n)'
      BY <1>6, <1>10, <2>1, <2>2 DEF Share, Runs, Failed
    <2> QED BY <1>9, <2>3, <2>4
  <1>13. PICK g \in [Nat -> Nat] : \A q \in Live : g[q] <= Runs(1, n) /\ Covers(q, n, g)
    BY DEF Budget
  <1>14. /\ g[p] \in Nat /\ g[b] \in Nat /\ g[b] <= Runs(1, n)
         /\ ran[n] <= g[p] /\ g[p] + R <= g[b]
    <2>1. ran[n] + Share(p, n) <= g[p]
      BY <1>2, <1>13 DEF Covers
    <2>2. g[p] + Share(b, n) <= g[b]
      BY <1>5, <1>13 DEF Covers
    <2> QED BY <1>2, <1>6, <1>11, <1>12, <1>13, <2>1, <2>2
  <1>15. PICK h \in [Nat -> Nat] :
           h[p] = 2 * g[b] - R /\ \A x \in Nat : x # p => h[x] = 2 * g[x]
    <2> DEFINE f == [x \in Nat |-> IF x = p THEN 2 * g[b] - R ELSE 2 * g[x]]
    <2>1. 2 * g[b] - R \in Nat /\ \A x \in Nat : 2 * g[x] \in Nat
      BY <1>14
    <2>2. /\ f \in [Nat -> Nat] /\ f[p] = 2 * g[b] - R
          /\ \A x \in Nat : x # p => f[x] = 2 * g[x]
      BY <1>2, <2>1
    <2> QED BY <2>2
  <1>16. h[p] \in Nat /\ h[p] = 2 * g[b] - R /\ h[b] = 2 * g[b]
    BY <1>2, <1>6, <1>15
  <1>17. ASSUME NEW q \in Live' PROVE h[q] <= Runs(1, n)' /\ Covers(q, n, h)'
    <2>1. CASE q = p
      <3>1. ran'[n] + R <= h[p] /\ h[p] <= 2 * Runs(1, n)
        BY <1>3, <1>8, <1>14, <1>16
      <3> QED BY <1>2, <1>8, <1>11, <2>1, <3>1 DEF Covers
    <2>2. CASE q = b
      <3>1. h[p] + R <= h[b] /\ h[b] <= 2 * Runs(1, n)
        BY <1>8, <1>14, <1>16
      <3>2. Waiting(b)' /\ Head(procs'[b].waits) = p
        BY <1>2, <1>5, <1>6 DEF Waiting
      <3> QED BY <1>8, <1>12, <2>2, <3>1, <3>2 DEF Covers
    <2>3. CASE q # p /\ q # b
      <3> DEFINE d == Head(procs[q].waits)
      <3>1. q \in Live /\ q \in Nat /\ q < p /\ Waiting(q) /\ d \in Live /\ d \in Nat
        BY <1>1, <1>2, <2>3
      <3>2. d # p
        <4>1. q < b => d <= b
          BY <1>1, <3>1 DEF Chain
        <4>2. b < q => p <= q
          BY <1>1, <1>5, <3>1 DEF Chain
        <4> QED BY <1>2, <1>6, <2>3, <3>1, <4>1, <4>2
      <3>3. /\ procs'[q] = procs[q] /\ g[d] + Share(q, n) <= g[q]
            /\ g[d] \in Nat /\ g[q] \in Nat /\ g[q] <= Runs(1, n)
            /\ h[q] = 2 * g[q] /\ h[d] = 2 * g[d]
        BY <1>2, <1>13, <1>15, <2>3, <3>1, <3>2 DEF Covers
      <3>4. \A a \in Nat \ {0} : Runs(a, n)' \in Nat /\ Runs(a, n)' <= 2 * Runs(a, n)
        BY <1>7
      <3>5. Share(q, n)' \in Nat /\ Share(q, n)' <= 2 * Share(q, n)
        BY <2>3, <3>1, <3>4, OtherShares
      <3>6. Share(q, n) \in Nat
        BY <1>1, ShareType
      <3>7. h[d] + Share(q, n)' <= h[q] /\ h[q] <= 2 * Runs(1, n)
        BY <1>8, <3>3, <3>5, <3>6
      <3>8. Waiting(q)' /\ Head(procs'[q].waits) = d
        BY <1>2, <3>1, <3>3 DEF Waiting
      <3> QED BY <1>8, <3>7, <3>8 DEF Covers
    <2> QED BY <2>1, <2>2, <2>3
  <1>18. ran'[n] <= Runs(1, n)'
    BY <1>3, <1>8, <1>14
  <1> QED BY <1>17, <1>18 DEF Budget

LEMMA StepBudget ==
  ASSUME ShellsInv, Formed', WaitsForYounger', stdin = "pipe", Piped, NEW p \in Pids,
         Only(p), ShellStep(p), NEW n \in 1..N, ran \in [1..N -> Nat], ran' \in [1..N -> Nat],
         Budget(n)
  PROVE  Budget(n)'
  <1>1. /\ Formed /\ FailedLines /\ n \in Nat /\ N \in Nat /\ os' = os
        /\ procs[p].line \in 0..N /\ ran[n] \in Nat /\ ran'[n] \in Nat
    BY Constant DEF ShellsInv, Formed, Piped
  <1>2. CASE Works(p)
    BY <1>2, WorksBudget
  <1>3. CASE Copies(p)
    BY <1>1, <1>3, CopiesBudget
  <1>4. CASE ~Works(p) /\ ~Copies(p) /\ p \in Live' /\ FirstFailure(p, n)
    BY <1>1, <1>4, FailureBudget
  <1>5. CASE ~Works(p) /\ ~Copies(p) /\ p \in Live' /\ ~FirstFailure(p, n)
    <2>1. ~Stops(p)
      BY <1>1, <1>5, LiveAfter
    <2>2. failed' = failed \/ (/\ Returns(p) /\ procs[p].role = "forked"
                               /\ failed' = failed \cup {procs[p].line})
      BY <1>5, <2>1 DEF ShellStep, Fetches, FetchLine, Resumes
    <2>3. procs[p].role = "forked" => Returns(p) /\ failed' = failed \cup {procs[p].line}
      BY <1>5, <2>1 DEF ShellStep, Fetches, FetchLine, Reads, Resumes
    <2>4. \A a \in Nat : Runs(a, n)' = Runs(a, n)
      <3>1. CASE failed' = failed
        BY <1>1, <3>1 DEF Runs, Failed
      <3>2. CASE failed' = failed \cup {procs[p].line}
        <4>1. procs[p].line \in failed \/ ~(procs[p].line < n) \/ failed' = failed
          BY <1>5, <2>2 DEF FirstFailure
        <4> QED BY <1>1, <3>1, <3>2, <4>1, RunsGrow
      <3> QED BY <2>2, <3>1, <3>2
    <2>5. procs[p].role = "forked" /\ procs[p].line < n => procs[p].line \in failed
      BY <1>5, <2>3 DEF FirstFailure
    <2>6. Share(p, n)' \in Nat /\ ran'[n] + Share(p, n)' <= ran[n] + Share(p, n)
      BY <1>5, <2>4, <2>5, OwnShare
    <2>7. Share(p, n) \in Nat /\ \A a \in Nat : Runs(a, n) \in Nat
      BY <1>1, ShareType, RunsType
    <2>8. ran'[n] + Share(p, n)' <= 1 * (ran[n] + Share(p, n))
      BY <1>1, <2>6, <2>7
    <2>9. /\ Runs(1, n)' = 1 * Runs(1, n)
          /\ \A a \in Nat \ {0} : Runs(a, n)' \in Nat /\ Runs(a, n)' <= 1 * Runs(a, n)
      <3>1. ASSUME NEW a \in Nat
            PROVE  /\ Runs(a, n)' \in Nat /\ Runs(a, n)' <= 1 * Runs(a, n)
                   /\ Runs(a, n)' = 1 * Runs(a, n)
        <4>1. PICK x \in Nat : Runs(a, n)' = x /\ Runs(a, n) = x
          BY <2>4, <2>7
        <4> QED BY <4>1
      <3> QED BY <3>1
    <2> QED BY <1>1, <1>5, <2>6, <2>8, <2>9, Spends
  <1>6. CASE ~Works(p) /\ ~Copies(p) /\ p \notin Live'
    <2>1. PICK c \in {1, 2} :
            /\ Runs(1, n)' = c * Runs(1, n)
            /\ \A a \in Nat \ {0} : Runs(a, n)' \in Nat /\ Runs(a, n)' <= c * Runs(a, n)
      BY <1>1, RunsScale
    <2> QED BY <1>1, <1>6, <2>1, Spends
  <1> QED BY <1>2, <1>3, <1>4, <1>5, <1>6

-----------------------------------------------------------------------------
\* At a terminal nothing is left in a buffer, and every line that has been read
\* has run once.

Typed ==
  /\ next \in 1..N + 1
  /\ \A p \in Live : procs[p].buffer = <<>>
  /\ \A n \in 1..N : ran[n] = IF n < next THEN 1 ELSE 0

LEMMA StepTyped ==
  ASSUME ShellsInv, Formed', stdin = "terminal", Typed, ran \in [1..N -> Nat],
         NEW p \in Pids, Only(p), ShellStep(p)
  PROVE  Typed'
  <1>1. /\ Formed /\ N \in Nat /\ N' = N /\ N = Len(input) /\ next \in 1..N + 1
        /\ \A n \in 1..N : ran[n] = IF n < next THEN 1 ELSE 0
    BY Constant DEF ShellsInv, Formed, Typed, N
  <1>2. CASE Fetches(p)
    <2>1. p \in Live /\ procs[p].buffer = <<>>
      BY <1>2 DEF Fetches, Free, Typed
    <2>2. next <= N /\ Buffered(p) = <<next>>
      BY <1>1, <1>2, <2>1 DEF Fetches, FetchLine, Buffered
    <2>3. Head(<<next>>) = next /\ Tail(<<next>>) = <<>> /\ Last(<<next>>) = next
      BY <1>1 DEF Last
    <2>4. procs'[p].buffer = <<>> /\ next' = next + 1 /\ ran' = [ran EXCEPT ![next] = @ + 1]
      BY <1>2, <2>1, <2>2, <2>3 DEF Fetches, FetchLine
    <2>5. Live' = Live /\ \A q \in Live : q # p => procs'[q] = procs[q]
      <3>1. ~Works(p)
        BY <2>1 DEF Works, Live
      <3> QED BY <1>1, <1>2, LiveAfter
    <2>6. ASSUME NEW n \in 1..N PROVE ran'[n] = IF n < next + 1 THEN 1 ELSE 0
      <3>1. ran'[n] = IF n = next THEN ran[n] + 1 ELSE ran[n]
        BY <1>1, <2>2, <2>4
      <3> QED BY <1>1, <2>2, <3>1
    <2>7. next + 1 \in 1..N + 1
      BY <1>1, <2>2
    <2> QED BY <1>1, <2>4, <2>5, <2>6, <2>7 DEF Typed
  <1>3. CASE ~Fetches(p)
    <2>1. next' = next /\ ran' = ran
      BY <1>3 DEF ShellStep, Works, Stops, Loops, Copies, Returns, Resumes, Kept
    <2>2. ASSUME NEW q \in Live' PROVE procs'[q].buffer = <<>>
      <3>1. CASE q \in Live /\ q # p /\ procs'[q] = procs[q]
        BY <3>1 DEF Typed
      <3>2. CASE q = p /\ p \in Live /\ (Loops(p) \/ Copies(p) \/ Returns(p) \/ Resumes(p))
        BY <3>2 DEF Typed, Loops, Copies, Returns, Resumes, Kept
      <3>3. CASE q = NewPid /\ Copies(p) /\ ~Works(p)
        BY <1>1, <3>3, LiveAfter DEF Typed, Copies
      <3> QED BY <1>1, <1>3, <3>1, <3>2, <3>3, Survivors
    <2> QED BY <1>1, <2>1, <2>2 DEF Typed
  <1> QED BY <1>2, <1>3

\* The inductive invariant behind RepeatBound.
RepeatInv ==
  /\ ShellsInv
  /\ ran \in [1..N -> Nat]
  /\ stdin = "pipe" => Piped /\ \A n \in 1..N : Budget(n)
  /\ stdin = "terminal" => Typed

LEMMA InitRepeat == Init => RepeatInv
  <1> SUFFICES ASSUME Init PROVE RepeatInv
    OBVIOUS
  <1>1. /\ ShellsInv /\ Formed /\ Pids = {1} /\ procs[1] = Shell0 /\ next = 1 /\ failed = {}
        /\ N \in Nat /\ DOMAIN input = 1..N /\ 0 \in Nat
    BY InitFormed, InitShells DEF Init, Formed
  <1>2. ran = [n \in 1..N |-> 0]
    BY <1>1 DEF Init
  <1>3. ran \in [1..N -> Nat] /\ \A n \in 1..N : ran[n] = 0
    BY <1>1, <1>2
  <1>4. /\ procs[1].role = "shell" /\ procs[1].buffer = <<>> /\ procs[1].waits = <<>>
        /\ Live \subseteq {1}
    BY <1>1 DEF Shell0, Live
  <1>5. ASSUME stdin = "pipe", NEW n \in 1..N PROVE Budget(n)
    <2>1. Piped /\ FailedLines
      BY <1>5, InitPiped DEF Piped
    <2>2. Runs(1, n) \in Nat /\ ran[n] = 0 /\ n \in Nat
      BY <1>1, <1>3, <2>1, RunsType
    <2>3. 1 \in Live => Share(1, n) <= Runs(1, n) /\ ~Waiting(1) /\ Share(1, n) \in Nat
      <3>1. Share(1, n) \in Nat
        BY <1>1, <2>1, ShareType
      <3>2. Share(1, n) = IF Pos(1) <= n THEN Runs(Pos(1), n) ELSE 0
        BY <1>4 DEF Share
      <3>3. Failed(Pos(1), n) = {} /\ Failed(1, n) = {}
        BY <1>1 DEF Failed
      <3>4. Runs(Pos(1), n) = Runs(1, n)
        BY <3>3 DEF Runs
      <3> QED BY <1>4, <2>2, <3>1, <3>2, <3>4 DEF Waiting
    <2>4. PICK g \in [Nat -> Nat] : g[1] = Runs(1, n)
      <3>1. [x \in Nat |-> Runs(1, n)] \in [Nat -> Nat] /\ 1 \in Nat
        BY <2>2
      <3> QED BY <3>1
    <2>5. \A q \in Live : g[q] <= Runs(1, n) /\ Covers(q, n, g)
      <3>1. 1 \in Live => Covers(1, n, g) /\ g[1] <= Runs(1, n)
        BY <2>2, <2>3, <2>4 DEF Covers
      <3> QED BY <1>4, <3>1
    <2> QED BY <2>2, <2>5 DEF Budget
  <1>6. Typed
    <2>1. \A n \in 1..N : ~(n < 1)
      BY <1>1
    <2> QED BY <1>1, <1>3, <1>4, <2>1 DEF Typed
  <1> QED BY <1>1, <1>3, <1>5, <1>6, InitPiped DEF RepeatInv

LEMMA StepRan ==
  ASSUME Formed, ran \in [1..N -> Nat], NEW p \in Pids, ShellStep(p),
         Fetches(p) => Head(Buffered(p)) \in 1..N
  PROVE  ran' \in [1..N -> Nat]
  <1>1. CASE Fetches(p)
    <2> DEFINE a == Head(Buffered(p))
    <2>1. a \in 1..N /\ ran' = [ran EXCEPT ![a] = @ + 1]
      BY <1>1 DEF Fetches, FetchLine
    <2> HIDE DEF a
    <2>2. ran[a] + 1 \in Nat
      BY <2>1
    <2> QED BY <2>1, <2>2
  <1>2. CASE ~Fetches(p)
    <2>1. ran' = ran
      BY <1>2 DEF ShellStep, Works, Stops, Loops, Copies, Returns, Resumes, Kept
    <2> QED BY <2>1
  <1> QED BY <1>1, <1>2

LEMMA StepRepeat == RepeatInv /\ [Next]_vars => RepeatInv'
  <1> SUFFICES ASSUME RepeatInv, [Next]_vars PROVE RepeatInv'
    OBVIOUS
  <1>1. ShellsInv /\ Formed /\ ran \in [1..N -> Nat] /\ N \in Nat /\ ShellsInv'
    BY StepShells DEF RepeatInv, ShellsInv, Formed
  <1>2. ASSUME NEW p \in Pids, ProcessStep(p) PROVE RepeatInv'
    <2>1. /\ Formed' /\ WaitsForYounger' /\ Only(p) /\ ShellStep(p)
          /\ N' = N /\ stdin' = stdin
      BY <1>1, <1>2, StepKinds, Constant DEF ShellsInv
    <2>2. ASSUME Fetches(p) PROVE Head(Buffered(p)) \in 1..N
      <3>1. stdin \in {"terminal", "pipe"}
        BY <1>1 DEF Formed
      <3>2. CASE stdin = "pipe"
        <4>1. Pos(p) \in 1..N /\ procs'[p].line = Pos(p)
          BY <1>1, <2>1, <2>2, <3>2, StepPos DEF RepeatInv
        <4> QED BY <2>2, <4>1 DEF Fetches
      <3>3. CASE stdin = "terminal"
        <4>1. Typed /\ procs[p].buffer = <<>> /\ next \in 1..N + 1 /\ Buffered(p) # <<>>
          BY <2>2, <3>3 DEF RepeatInv, Typed, Fetches, FetchLine, Free
        <4>2. next \in 1..N /\ Buffered(p) = <<next>>
          BY <1>1, <3>3, <4>1 DEF Buffered, N
        <4>3. Head(<<next>>) = next
          BY <4>2
        <4> QED BY <4>2, <4>3
      <3> QED BY <3>1, <3>2, <3>3
    <2>3. ran' \in [1..N -> Nat]
      BY <1>1, <2>1, <2>2, StepRan
    <2>4. ASSUME stdin = "pipe" PROVE Piped' /\ \A n \in 1..N : Budget(n)'
      <3>1. Piped /\ \A n \in 1..N : Budget(n)
        BY <2>4 DEF RepeatInv
      <3> QED BY <1>1, <2>1, <2>3, <2>4, <3>1, StepPiped, StepBudget
    <2>5. ASSUME stdin = "terminal" PROVE Typed'
      BY <1>1, <2>1, <2>5, StepTyped DEF RepeatInv
    <2> QED BY <1>1, <2>1, <2>3, <2>4, <2>5 DEF RepeatInv
  <1>3. CASE UNCHANGED vars
    <2>1. /\ N' = N /\ Live' = Live /\ stdin' = stdin /\ ran' = ran /\ Pids' = Pids
          /\ next' = next /\ procs' = procs /\ failed' = failed /\ os' = os
      BY <1>3 DEF vars, N, Live, Pids
    <2>2. /\ \A p : Buffered(p)' = Buffered(p)
          /\ \A p : Waiting(p)' = Waiting(p)
      BY <1>3 DEF vars, Buffered, Waiting, Live, Pids
    <2>3. /\ \A p : Pos(p)' = Pos(p)
          /\ \A a, n : Runs(a, n)' = Runs(a, n)
          /\ \A a : Rest(a)' = Rest(a)
      BY <2>1, <2>2 DEF Pos, Runs, Failed, Rest
    <2>4. /\ \A p : Placed(p)' = Placed(p)
          /\ \A p : Followed(p)' = Followed(p)
          /\ FirstRead' = FirstRead /\ FailedLines' = FailedLines
      BY <2>1, <2>2, <2>3 DEF Placed, Pos, Rest, Followed, FirstRead, FailedLines, Waiting
    <2>5. ASSUME NEW p, NEW n PROVE Share(p, n)' = Share(p, n)
      <3>1. Pos(p)' = Pos(p)
        BY <2>3
      <3> QED BY <2>1, <3>1 DEF Share, Runs, Failed
    <2>6. \A p, n, g : Covers(p, n, g)' = Covers(p, n, g)
      BY <2>1, <2>2, <2>5 DEF Covers
    <2>7. \A n : Budget(n)' = Budget(n)
      BY <2>1, <2>3, <2>6 DEF Budget
    <2>8. Piped' = Piped /\ Typed' = Typed
      BY <2>1, <2>4 DEF Piped, Typed
    <2> QED BY <1>1, <2>1, <2>7, <2>8 DEF RepeatInv
  <1> QED BY <1>2, <1>3 DEF Next

\* A line runs once, or, when the lines come through a pipe, at most twice as
\* often for each command before it that could not be executed: whatever the
\* input and however many copies of the shell there are.
THEOREM LinesRepeat == Spec => []RepeatBound
  <1>1. RepeatInv => RepeatBound
    <2> SUFFICES ASSUME RepeatInv, NEW n \in DOMAIN input
                 PROVE  ran[n] <= IF os = "linux" /\ stdin = "pipe"
                                  THEN 2^Cardinality({k \in failed : k < n}) ELSE 1
      BY DEF RepeatBound
    <2>1. Formed /\ n \in 1..N /\ n \in Nat /\ N \in Nat /\ ran[n] \in Nat
      BY DEF RepeatInv, ShellsInv, Formed
    <2>2. CASE stdin = "terminal"
      <3>1. ran[n] = IF n < next THEN 1 ELSE 0
        BY <2>1, <2>2 DEF RepeatInv, Typed
      <3> QED BY <2>2, <3>1
    <2>3. CASE stdin = "pipe"
      <3>1. FailedLines /\ ran[n] <= Runs(1, n) /\ Runs(1, n) \in Nat
        BY <2>1, <2>3, RunsType DEF RepeatInv, Piped, Budget
      <3>2. CASE os # "linux"
        <4>1. SUBSET Failed(1, n) = {{}}
          BY <3>2 DEF Failed
        <4>2. Runs(1, n) = 1
          BY <4>1, FS_Singleton DEF Runs
        <4> QED BY <3>1, <3>2, <4>2
      <3>3. CASE os = "linux"
        <4> DEFINE F == {k \in failed : k < n}
        <4>1. IsFiniteSet(F)
          <5>1. 0 \in Int /\ N \in Int
            BY <2>1
          <5>2. IsFiniteSet(0..N) /\ F \in SUBSET (0..N)
            BY <3>1, <5>1, FS_Interval DEF FailedLines
          <5> QED BY <5>2, FS_Subset
        <4>2. SUBSET Failed(1, n) \in SUBSET (SUBSET F)
          BY DEF Failed
        <4>3. IsFiniteSet(SUBSET F) /\ Cardinality(SUBSET F) = 2^Cardinality(F)
          BY <4>1, FS_SUBSET
        <4>4. Cardinality(SUBSET F) \in Nat
          BY <4>3, FS_CardinalityType
        <4>5. Runs(1, n) <= Cardinality(SUBSET F)
          BY <4>2, <4>3, FS_Subset DEF Runs
        <4> DEFINE C == Cardinality(SUBSET F)
        <4>6. ran[n] <= C
          <5>1. C \in Nat /\ Runs(1, n) <= C
            BY <4>4, <4>5
          <5> HIDE DEF C
          <5> QED BY <2>1, <3>1, <5>1
        <4>7. C = 2^Cardinality({k \in failed : k < n})
          BY <4>3
        <4> HIDE DEF C
        <4> QED BY <2>3, <3>3, <4>6, <4>7
      <3> QED BY <3>2, <3>3
    <2> QED BY <2>1, <2>2, <2>3 DEF Formed
  <1> QED BY <1>1, InitRepeat, StepRepeat, PTL DEF Spec
=============================================================================
