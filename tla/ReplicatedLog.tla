---------------------------- MODULE ReplicatedLog ----------------------------
(***************************************************************************)
(* What a replicated log promises the state machines on top of it, with    *)
(* nothing of how: each member holds a prefix of one sequence of writes,   *)
(* and what was reported done stays in that sequence.  StoreNode is built  *)
(* on this promise; RaftProperties shows that Raft keeps it.               *)
(***************************************************************************)
EXTENDS Naturals

CONSTANTS Node, Write   \* writes are records with the index they stand at

VARIABLES held,         \* the writes each member has applied
          reported      \* the writes some caller was told are done

vars == <<held, reported>>

\* One of two members holds all that the other does.
OneSequence(h) == \A i, j \in Node : h[i] \subseteq h[j] \/ h[j] \subseteq h[i]

\* Nothing is held at or past the index of a reported write without it.
KeepsReported(h) ==
  \A i \in Node : \A r \in reported :
    (\E w \in h[i] : w.index >= r.index) => r \in h[i]

Init == held = [i \in Node |-> {}] /\ reported = {}

\* A member applies more writes, all past those it holds, and may report
\* writes it holds.
Apply(i) ==
  \E W \in SUBSET Write :
    /\ \A w \in W, old \in held[i] : w.index > old.index
    /\ held' = [held EXCEPT ![i] = @ \cup W]
    /\ OneSequence(held') /\ KeepsReported(held')
    /\ reported \subseteq reported' /\ reported' \ reported \subseteq held'[i]

\* A member restarts with what it had saved.
Restart(i) ==
  /\ \E W \in SUBSET held[i] : held' = [held EXCEPT ![i] = W]
  /\ OneSequence(held') /\ KeepsReported(held')
  /\ UNCHANGED reported

Next == \E i \in Node : Apply(i) \/ Restart(i)

Spec == Init /\ [][Next]_vars
=============================================================================
