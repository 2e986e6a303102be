---------------------------- MODULE MCThreadLabs ----------------------------
(***************************************************************************)
(* ThreadLabs for TLC: every program once, pfgrep with each text and       *)
(* string below.                                                           *)
(***************************************************************************)
EXTENDS ThreadLabs

Letters == {"a", "b"}
Texts   == UNION {[1..n -> Letters] : n \in 3..6}
Strings == UNION {[1..n -> Letters] : n \in 1..3}

MCLabs ==
  {[name |-> n, text |-> <<>>, string |-> <<>>] :
     n \in {"chefs", "once", "blocked", "blocked2", "spin", "safety", "interlocked",
            "timer", "pollpipe", "overlapped", "iocp", "kaio"}}
  \cup {[name |-> "pfgrep", text |-> t, string |-> s] : t \in Texts, s \in Strings}
=============================================================================
