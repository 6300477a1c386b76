------------------------------ MODULE Placement ------------------------------
(***************************************************************************)
(* Where a pod may go and where it goes best: the pure part of             *)
(* src/controllers/scheduler.js.  Quantities are whole numbers, an absent  *)
(* limit is one that nothing exceeds, and scores are compared as           *)
(* fractions, since the code divides.                                      *)
(***************************************************************************)
EXTENDS Integers, Sequences, FiniteSetsExt, TLC

CONSTANTS PodSpec,  \* what each pod asks for
          Number    \* the label values that Number() reads, and as what

\* What the containers ask for are whole numbers.
Asked == [cpu : Int, memory : Int]
ASSUME RequestAssumption ==
  \A p \in DOMAIN PodSpec :
    PodSpec[p].containers \in Seq(Asked) /\ PodSpec[p].inits \in Seq(Asked)

\* A label that is not there compares as the text of undefined.
Label(labels, key) ==
  IF key \in DOMAIN labels THEN labels[key] ELSE "undefined"

Larger(a, b) == IF a > b THEN a ELSE b

\* podRequests: the containers run together, the init containers one by one.
Requests(pod, resource) ==
  Larger(MapThenSumSet(LAMBDA i : pod.containers[i][resource],
                       DOMAIN pod.containers),
         Max({0} \cup {pod.inits[i][resource] : i \in DOMAIN pod.inits}))

Demand == [p \in DOMAIN PodSpec |->
             [r \in {"cpu", "memory"} |-> Requests(PodSpec[p], r)]]

\* nodeAllocatable: what the node allows, or its capacity, or anything.
Limited(node, resource) ==
  resource \in DOMAIN node.allocatable \cup DOMAIN node.capacity
Limit(node, resource) ==
  IF resource \in DOMAIN node.allocatable
  THEN node.allocatable[resource] ELSE node.capacity[resource]
Exceeds(node, resource, amount) ==
  Limited(node, resource) /\ amount > Limit(node, resource)

\* usageByNode, of the pods placed on one node and not finished.
Used(placed, resource) ==
  MapThenSumSet(LAMBDA p : Demand[p][resource], placed)

MatchesSelector(labels, selector) ==
  \A key \in DOMAIN selector : Label(labels, key) = selector[key]

IsNumber(text) == text \in DOMAIN Number

\* Gt and Lt look at one value.
Satisfies(labels, e) ==
  LET value == Label(labels, e.key) IN
  CASE e.operator = "In" -> value \in e.values
    [] e.operator = "NotIn" -> value \notin e.values
    [] e.operator = "Exists" -> e.key \in DOMAIN labels
    [] e.operator = "DoesNotExist" -> e.key \notin DOMAIN labels
    [] e.operator = "Gt" -> \E v \in e.values : /\ IsNumber(value) /\ IsNumber(v)
                                                /\ Number[value] > Number[v]
    [] e.operator = "Lt" -> \E v \in e.values : /\ IsNumber(value) /\ IsNumber(v)
                                                /\ Number[value] < Number[v]
    [] OTHER -> FALSE

MatchesNodeAffinity(labels, pod) ==
  \/ pod.required = {}
  \/ \E term \in pod.required : \A e \in term : Satisfies(labels, e)

\* Empty fields are absent ones.
Tolerates(t, taint) ==
  /\ t.effect \in {"", taint.effect}
  /\ IF t.operator = "Exists" THEN t.key \in {"", taint.key}
                              ELSE t.key = taint.key /\ t.value = taint.value

\* untoleratedTaint: PreferNoSchedule does not keep a pod away.
Repels(node, pod) ==
  \E taint \in node.taints :
    /\ taint.effect \in {"NoSchedule", "NoExecute"}
    /\ \A t \in pod.tolerations : ~Tolerates(t, taint)

\* Fault: a full node takes one more.
RoomIgnoringItself(node, placed) == ~Exceeds(node, "pods", Cardinality(placed))

RoomForOne(node, placed) == ~Exceeds(node, "pods", Cardinality(placed) + 1)

\* filterNodes: the node passes every filter.
Feasible(p, node, placed) ==
  LET pod == PodSpec[p] IN
  /\ node.ready /\ ~node.unschedulable
  /\ ~Repels(node, pod)
  /\ MatchesSelector(node.labels, pod.selector)
  /\ MatchesNodeAffinity(node.labels, pod)
  /\ RoomForOne(node, placed)
  /\ \A r \in {"cpu", "memory"} :
       ~Exceeds(node, r, Used(placed, r) + Demand[p][r])

\* scoreNode: the share of a resource that stays free, as <<part, whole>>.
Share(p, node, placed, r) ==
  IF Limited(node, r) /\ Limit(node, r) > 0
  THEN <<Larger(0, Limit(node, r) - Used(placed, r) - Demand[p][r]),
         Limit(node, r)>>
  ELSE <<1, 1>>

\* A preferred term that is not an In asks only for the label.
Prefers(labels, term) ==
  \A e \in term.expressions :
    IF e.operator = "In" THEN Label(labels, e.key) \in e.values
                         ELSE e.key \in DOMAIN labels

Weight(pod, node) ==
  MapThenSumSet(LAMBDA i : IF Prefers(node.labels, pod.preferred[i])
                           THEN pod.preferred[i].weight ELSE 0,
                DOMAIN pod.preferred)

\* The mean of two shares out of a hundred, and the weights, as a fraction.
Score(p, node, placed) ==
  LET c == Share(p, node, placed, "cpu")
      m == Share(p, node, placed, "memory")
  IN <<50 * c[1] * m[2] + 50 * m[1] * c[2] + Weight(PodSpec[p], node) * c[2] * m[2],
       c[2] * m[2]>>

ScoresMore(a, b) == a[1] * b[2] > b[1] * a[2]

Fit(p, nodes, placed) ==
  {n \in DOMAIN nodes : Feasible(p, nodes[n], placed[n])}

\* The nodes that pass and that no other outscores; which of several, by the
\* order of their names, is left open.
Best(p, nodes, placed) ==
  LET score(n) == Score(p, nodes[n], placed[n])
      fit == Fit(p, nodes, placed)
  IN {n \in fit : \A o \in fit : ~ScoresMore(score(o), score(n))}
=============================================================================
