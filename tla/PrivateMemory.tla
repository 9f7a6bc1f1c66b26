---------------------------- MODULE PrivateMemory ----------------------------
(***************************************************************************)
(* What the virtual memory system promises to user programs: every process *)
(* has pages of its own, which start as zeros, change only when the        *)
(* process itself writes them, and are copied as a whole by fork.  There   *)
(* are no frames, no swap file and no TLB here.                            *)
(***************************************************************************)
CONSTANTS Procs, Pages, Values, Zero

VARIABLES
  live,   \* the processes that run
  memory  \* memory[p][q]: what process p reads in its page q

Blank == [q \in Pages |-> Zero]

Init ==
  /\ live = {}
  /\ memory = [p \in Procs |-> Blank]

Start(p) ==
  /\ live = {}
  /\ live' = {p}
  /\ UNCHANGED memory

Write(p, q, v) ==
  /\ p \in live
  /\ memory' = [memory EXCEPT ![p][q] = v]
  /\ UNCHANGED live

Fork(p, c) ==
  /\ p \in live /\ c \notin live
  /\ live' = live \cup {c}
  /\ memory' = [memory EXCEPT ![c] = memory[p]]

Exit(p) ==
  /\ p \in live
  /\ live' = live \ {p}
  /\ memory' = [memory EXCEPT ![p] = Blank]

Next ==
  \E p \in Procs :
    \/ \E q \in Pages, v \in Values : Write(p, q, v)
    \/ \E c \in Procs : Fork(p, c)
    \/ Start(p) \/ Exit(p)

Spec == Init /\ [][Next]_<<live, memory>>
=============================================================================
