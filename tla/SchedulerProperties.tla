------------------------- MODULE SchedulerProperties -------------------------
(***************************************************************************)
(* What the scheduler and the bindings owe their clients.                  *)
(***************************************************************************)
EXTENDS Scheduler

\* Of all the schedulings and bindings that race for a pod one wins, for good:
\* nothing moves a pod that is assigned to a node (bindPod, scheduler.js:317).
BoundOnce ==
  [][\A p \in Pod : pods[p].node # None => pods'[p].node = pods[p].node]_vars

\* A client that is told 201 is told the truth about whose placement won, and
\* the pod's events report one placement (binding.js:69).
OnePlacement ==
  /\ \A a \in answers : pods[a[1]].node = a[2]
  /\ \A p \in Pod : /\ pods[p].reports <= 1
                    /\ pods[p].reports = 1 => pods[p].node # None

\* A node takes more pods than it has room for only when a bind rests on a
\* reading that another bind or a change of the node has overtaken, or on a
\* client's word: up to the first such bind the usage the scheduler counts is
\* the usage there is (usageByNode, filterNodes).
Overfull(n) ==
  \/ Exceeds(nodes[n], "pods", Cardinality(Placed[n]))
  \/ \E r \in {"cpu", "memory"} : Exceeds(nodes[n], r, Used(Placed[n], r))

FitsUnlessCrossed ==
  [][\A p \in Pod, n \in NodeName :
       (pods[p].node = None /\ pods'[p].node = n /\ ~crossed')
         => n \in DOMAIN nodes' /\ ~Overfull(n)']_vars

\* The retry loop leaves no pod waiting for ever beside a node that could take
\* it: whatever happened to the pod before, a pod created while the server was
\* down or refused when nothing fitted included (start, scheduler.js:345).
Placeable(p) ==
  Wanted(p) /\ Fit(p, nodes, Placed) # {}

NoneLeftPlaceable == \A p \in Pod : []<>~Placeable(p)

\* "Replace any existing PodScheduled rather than appending a second one"
\* (scheduler.js:263).
OneScheduledCondition == \A p \in Pod : Len(pods[p].conditions) <= 1
=============================================================================
