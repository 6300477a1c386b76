------------------------------ MODULE Scheduler ------------------------------
(***************************************************************************)
(* The scheduler of src/controllers/scheduler.js, the bindings of          *)
(* src/routes/binding.js, which go through the same bindPod, and the       *)
(* simulated fleet of src/controllers/nodes.js.                            *)
(*                                                                         *)
(* Every database call is a step.  A pod is scheduled from three places    *)
(* that overlap: the handler of its created event, a tick that goes        *)
(* through the pending pods one after the other, and a client's binding.   *)
(* Events of type FailedScheduling leave no trace here.                    *)
(***************************************************************************)
EXTENDS Placement

CONSTANTS Pod,         \* the pods that are ever created, by uid
          Early,       \* those created before the scheduler was started
          Foreign,     \* those that name another scheduler
          NodeName,
          Zone,        \* SIM_NODE_ZONES, by node
          Capacity,    \* SIM_NODE_CPU, SIM_NODE_MEMORY and SIM_NODE_PODS
          Variants,    \* what a client may make of a node
          Tick,        \* runs of the retry loop that overlap
          Client,      \* clients that post bindings
          None,
          MaxOutside   \* bound: steps of clients, nodes and crashes

\* Schedulings of events, runs of the loop and clients are different things,
\* and None is none of the others.
ASSUME WorkersDiffer ==
  /\ Pod \cap (Tick \cup Client) = {} /\ Tick \cap Client = {}
  /\ None \notin Pod \cup NodeName

ASSUME PodsAreDescribed == Pod \subseteq DOMAIN PodSpec

VARIABLES
  pods,      \* the stored pods
  nodes,     \* the stored nodes, a function of the names there are
  attempt,   \* the schedulings and bindings in progress
  announced, \* pods created while the scheduler listens, not yet handled
  ensured,   \* the names ensure() has yet to look at
  answers,   \* history: the 201s, as <<pod, node>>
  crossed,   \* history: binds made on a reading that was out of date
  outside    \* steps counted against MaxOutside

vars == <<pods, nodes, attempt, announced, ensured, answers, crossed, outside>>

-----------------------------------------------------------------------------
\* The stored pod: conditions are the statuses of type PodScheduled, reports
\* the Scheduled events, whether or not they can be stored.
Absent == [exists |-> FALSE, node |-> None, finished |-> FALSE,
           conditions |-> <<>>, reports |-> 0]
New == [exists |-> TRUE, node |-> None, finished |-> FALSE,
        conditions |-> <<>>, reports |-> 0]
\* A uid does not come back: its node stays for the history.
Gone(d) == [exists |-> FALSE, node |-> d.node, finished |-> TRUE,
            conditions |-> <<>>, reports |-> d.reports]
Reported(d, says) ==
  [exists |-> d.exists, node |-> d.node, finished |-> d.finished,
   conditions |-> IF d.exists THEN Append(d.conditions, says) ELSE d.conditions,
   reports |-> IF says = "True" THEN d.reports + 1 ELSE d.reports]

Unbound(p) == pods[p].exists /\ pods[p].node = None
Placed == [n \in NodeName |->
             {p \in Pod : pods[p].node = n /\ ~pods[p].finished}]

Worker == Pod \cup Tick \cup Client

\* A scheduling at work on pod: the nodes and the placement it has read, the
\* node it chose, what it will say, and the pods after this one.
Blank(step, p, queue) ==
  [step |-> step, pod |-> p, queue |-> queue, nodes |-> None,
   placed |-> None, node |-> None, says |-> None]
Idle == Blank("idle", None, {})
Between(queue) == Blank("next", None, queue)
Reading(p, queue) == Blank("read", p, queue)
Chosen(a, n) ==
  [step |-> "bind", pod |-> a.pod, queue |-> a.queue, nodes |-> a.nodes,
   placed |-> a.placed, node |-> n, says |-> None]
\* What it has read serves no more.
Report(a, status) ==
  [step |-> "pull", pod |-> a.pod, queue |-> a.queue, nodes |-> None,
   placed |-> None, node |-> a.node, says |-> status]

At(w, step) == attempt[w].step = step
Become(w, a) == attempt' = [attempt EXCEPT ![w] = a]
MoveTo(w, step) == attempt' = [attempt EXCEPT ![w].step = step]
Done(w) == Become(w, IF w \in Tick THEN Between(attempt[w].queue) ELSE Idle)

Init ==
  /\ pods = [p \in Pod |-> IF p \in Early THEN New ELSE Absent]
  /\ nodes = <<>>
  /\ attempt = [w \in Worker |-> Idle]
  /\ announced = {} /\ ensured = NodeName
  /\ answers = {} /\ crossed = FALSE
  /\ outside = 0

-----------------------------------------------------------------------------
(* What goes on around the scheduler.                                      *)

FromOutside == outside < MaxOutside /\ outside' = outside + 1

\* A pod is stored, and its created event reaches the listener.
CreatePod(p) ==
  /\ pods[p] = Absent
  /\ pods' = [pods EXCEPT ![p] = New]
  /\ announced' = announced \cup {p}
  /\ UNCHANGED <<nodes, attempt, ensured, answers, crossed, outside>>

DeletePod(p) ==
  /\ pods[p].exists /\ FromOutside
  /\ pods' = [pods EXCEPT ![p] = Gone(pods[p])]
  /\ UNCHANGED <<nodes, attempt, announced, ensured, answers, crossed>>

\* The containers of a bound pod are done.
Finish(p) ==
  /\ pods[p].exists /\ pods[p].node # None /\ ~pods[p].finished
  /\ FromOutside
  /\ pods' = [pods EXCEPT ![p].finished = TRUE]
  /\ UNCHANGED <<nodes, attempt, announced, ensured, answers, crossed>>

\* A node of the simulated fleet, as it is asked for and as Node.create
\* registers it: all of the capacity allocatable, and ready.
NodeSpec(n) ==
  [ready |-> FALSE, unschedulable |-> FALSE, taints |-> {},
   labels |-> [os |-> "linux", zone |-> Zone[n]],
   allocatable |-> <<>>, capacity |-> Capacity]
Registered(node) ==
  [node EXCEPT !.ready = TRUE, !.allocatable = node.capacity]

\* ensure: a node that is there is left alone.
EnsureNode(n) ==
  /\ n \in ensured /\ ensured' = ensured \ {n}
  /\ nodes' = IF n \in DOMAIN nodes THEN nodes
             ELSE [m \in DOMAIN nodes \cup {n} |->
                     IF m = n THEN Registered(NodeSpec(n)) ELSE nodes[m]]
  /\ UNCHANGED <<pods, attempt, announced, answers, crossed, outside>>

\* A client cordons, taints, labels or resizes a node, or its state changes.
ChangeNode(n) ==
  /\ n \in DOMAIN nodes /\ FromOutside
  /\ \E node \in Variants[n] \ {nodes[n]} :
       nodes' = [nodes EXCEPT ![n] = node]
  /\ UNCHANGED <<pods, attempt, announced, ensured, answers, crossed>>

DeleteNode(n) ==
  /\ n \in DOMAIN nodes /\ FromOutside
  /\ nodes' = [o \in DOMAIN nodes \ {n} |-> nodes[o]]
  /\ UNCHANGED <<pods, attempt, announced, ensured, answers, crossed>>

Restart ==
  /\ FromOutside
  /\ attempt' = [w \in Worker |-> Idle]
  /\ announced' = {} /\ ensured' = NodeName
  /\ UNCHANGED <<pods, nodes, answers, crossed>>

-----------------------------------------------------------------------------
(* schedulePod.                                                            *)

\* The early returns, decided on the pod as it was found.
Wanted(p) == Unbound(p) /\ p \notin Foreign /\ ~pods[p].finished

\* The created event, with the pod as it was created.
OnCreated(p) ==
  /\ p \in announced /\ announced' = announced \ {p}
  /\ IF p \in Foreign THEN UNCHANGED attempt ELSE Become(p, Reading(p, {}))
  /\ UNCHANGED <<pods, nodes, ensured, answers, crossed, outside>>

\* Fault: the loop looks only at pods no scheduling has reported on.
Unreported == {p \in Pod : Wanted(p) /\ pods[p].conditions = <<>>}

Pending == {p \in Pod : Wanted(p)}

StartTick(t) ==
  /\ At(t, "idle")
  /\ Become(t, Between(Pending))
  /\ UNCHANGED <<pods, nodes, announced, ensured, answers, crossed, outside>>

\* The next of the pods found, or the end of the run.
NextPending(t) ==
  /\ At(t, "next")
  /\ \/ attempt[t].queue = {} /\ Become(t, Idle)
     \/ \E p \in attempt[t].queue :
          Become(t, Reading(p, attempt[t].queue \ {p}))
  /\ UNCHANGED <<pods, nodes, announced, ensured, answers, crossed, outside>>

\* The two finds are answered, in either order.
ReadNodes(w) ==
  /\ At(w, "read") /\ attempt[w].nodes = None
  /\ attempt' = [attempt EXCEPT ![w].nodes = nodes]
  /\ UNCHANGED <<pods, nodes, announced, ensured, answers, crossed, outside>>

ReadPods(w) ==
  /\ At(w, "read") /\ attempt[w].placed = None
  /\ attempt' = [attempt EXCEPT ![w].placed = Placed]
  /\ UNCHANGED <<pods, nodes, announced, ensured, answers, crossed, outside>>

\* Filter, score, and bind or say that nothing fits.
Decide(w) ==
  LET a == attempt[w]
      best == Best(a.pod, a.nodes, a.placed)
  IN
  /\ At(w, "read") /\ a.nodes # None /\ a.placed # None
  /\ CASE a.nodes = <<>> -> Done(w)
       [] a.nodes # <<>> /\ best = {} ->
            Become(w, Report(a, "False"))
       [] OTHER -> \E n \in best :
            Become(w, Chosen(a, n))
  /\ UNCHANGED <<pods, nodes, announced, ensured, answers, crossed, outside>>

-----------------------------------------------------------------------------
(* bindPod, and the binding endpoint.                                      *)

\* The pod is found unbound; any name will do for a node.
PostBinding(c) ==
  /\ At(c, "idle") /\ FromOutside
  /\ \E p \in Pod, n \in NodeName :
       Unbound(p) /\ Become(c, Chosen(Reading(p, {}), n))
  /\ UNCHANGED <<pods, nodes, announced, ensured, answers, crossed>>

\* What the decision to bind was made on has changed since, or was not made
\* on the state of the node at all.
OutOfDate(w) ==
  \/ w \in Client
  \/ attempt[w].nodes # nodes
  \/ attempt[w].placed # Placed

\* Fault: read then write.
BindRegardless(w) == pods[attempt[w].pod].exists

\* The filter of the findOneAndUpdate.
StillUnbound(w) == Unbound(attempt[w].pod)

Bind(w) ==
  /\ At(w, "bind")
  /\ IF StillUnbound(w)
     THEN /\ pods' = [pods EXCEPT ![attempt[w].pod].node = attempt[w].node]
          /\ Become(w, Report(attempt[w], "True"))
          /\ crossed' = (crossed \/ OutOfDate(w))
     ELSE Done(w) /\ UNCHANGED <<pods, crossed>>
  /\ UNCHANGED <<nodes, announced, ensured, answers, outside>>

\* setScheduledCondition: two updates.
Pull(w) ==
  /\ At(w, "pull") /\ MoveTo(w, "push")
  /\ pods' = IF pods[attempt[w].pod].exists
             THEN [pods EXCEPT ![attempt[w].pod].conditions = <<>>] ELSE pods
  /\ UNCHANGED <<nodes, announced, ensured, answers, crossed, outside>>

\* What follows the second, the event and a client's 201, is read by nobody
\* here and is part of the step.
Push(w) ==
  LET a == attempt[w] IN
  /\ At(w, "push") /\ Done(w)
  /\ pods' = [pods EXCEPT ![a.pod] = Reported(pods[a.pod], a.says)]
  /\ answers' = IF w \in Client THEN answers \cup {<<a.pod, a.node>>} ELSE answers
  /\ UNCHANGED <<nodes, announced, ensured, crossed, outside>>

-----------------------------------------------------------------------------
Schedule(w) ==
  \/ ReadNodes(w) \/ ReadPods(w) \/ Decide(w)
  \/ Bind(w) \/ Pull(w) \/ Push(w)

Run(t) == StartTick(t) \/ NextPending(t)

Next ==
  \/ \E p \in Pod : CreatePod(p) \/ DeletePod(p) \/ Finish(p) \/ OnCreated(p)
  \/ \E n \in NodeName : EnsureNode(n) \/ ChangeNode(n) \/ DeleteNode(n)
  \/ \E t \in Tick : Run(t)
  \/ \E c \in Client : PostBinding(c)
  \/ \E w \in Worker : Schedule(w)
  \/ Restart

Spec == Init /\ [][Next]_vars

\* setInterval starts the loop again and again, and the database answers it.
\* Nothing is asked of the event handlers and the clients.
Fairness == \A t \in Tick : WF_vars(Run(t) \/ Schedule(t))

FairSpec == Spec /\ Fairness
=============================================================================
