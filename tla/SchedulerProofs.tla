--------------------------- MODULE SchedulerProofs ---------------------------
(***************************************************************************)
(* That a pod is placed once, and that what the loop binds on a reading    *)
(* still true keeps a node within its limits, for any pods, nodes,         *)
(* overlapping runs of the loop, clients, deletions and restarts.          *)
(*                                                                         *)
(* The invariant says what connects a report to the bind it is about: who  *)
(* owes a report on a pod is the only one, has found the pod unbound and   *)
(* bound it to the node it will name, and nobody has reported on it yet.   *)
(* OnePlacement alone is not inductive: it does not say where the worker   *)
(* that writes an answer has its node from.                                *)
(*                                                                         *)
(* For the limits, RoomInv says that the node a pass has chosen has room   *)
(* for the pod beside the pods it has read; a bind that nothing crossed    *)
(* adds the pod to just these, or to fewer.                                *)
(***************************************************************************)
EXTENDS SchedulerProperties, FiniteSetTheorems, WellFoundedInduction, TLAPS

IsPod(d) ==
  /\ d = [exists |-> d.exists, node |-> d.node, finished |-> d.finished,
          conditions |-> d.conditions, reports |-> d.reports]
  /\ d.node \in NodeName \cup {None}
  /\ d.reports \in {0, 1}
  /\ d.reports = 1 => d.node # None

IsAttempt(a) ==
  /\ a = [step |-> a.step, pod |-> a.pod, queue |-> a.queue, nodes |-> a.nodes,
          placed |-> a.placed, node |-> a.node, says |-> a.says]
  /\ a.queue \subseteq Pod
  /\ a.nodes # None => DOMAIN a.nodes \subseteq NodeName
  /\ a.step \in {"read", "bind", "pull", "push"} => a.pod \in Pod
  /\ a.step = "bind" => a.node \in NodeName

\* A client has read nothing; it binds, and reports on the pod it has bound.
IsClients(a) ==
  /\ a.step \in {"idle", "bind", "pull", "push"}
  /\ a.step \in {"pull", "push"} => a.says = "True"

Owes(a) == a.step \in {"pull", "push"} /\ a.says = "True"

\* What a worker that owes a report knows of its pod.
Backed(a, ps) ==
  /\ a.node \in NodeName
  /\ ps[a.pod].node = a.node
  /\ ps[a.pod].reports = 0

PodsOK == DOMAIN pods = Pod /\ \A p \in Pod : IsPod(pods[p])
NodesOK == DOMAIN nodes \subseteq NodeName
AttemptsOK ==
  /\ attempt = [w \in Worker |-> attempt[w]]
  /\ \A w \in Worker : IsAttempt(attempt[w])
  /\ \A c \in Client : IsClients(attempt[c])
AnnouncedOK == announced \subseteq Pod
ReportsOK ==
  /\ \A w \in Worker : Owes(attempt[w]) => Backed(attempt[w], pods)
  /\ \A v, w \in Worker :
       Owes(attempt[v]) /\ Owes(attempt[w]) /\ attempt[v].pod = attempt[w].pod => v = w
AnswersOK ==
  \A a \in answers : a[1] \in Pod /\ a[2] \in NodeName /\ pods[a[1]].node = a[2]

Inv == PodsOK /\ NodesOK /\ AttemptsOK /\ AnnouncedOK /\ ReportsOK /\ AnswersOK

-----------------------------------------------------------------------------
(* The attempts that the steps make.                                       *)

LEMMA IdleOK == IsAttempt(Idle) /\ IsClients(Idle) /\ ~Owes(Idle)
  BY DEF IsAttempt, IsClients, Owes, Idle, Blank

LEMMA ReadingOK ==
  ASSUME NEW p \in Pod, NEW queue \in SUBSET Pod
  PROVE  IsAttempt(Reading(p, queue)) /\ ~Owes(Reading(p, queue))
  BY DEF IsAttempt, Owes, Reading, Blank

LEMMA BetweenOK ==
  ASSUME NEW q \in SUBSET Pod
  PROVE  IsAttempt(Between(q)) /\ ~Owes(Between(q))
  BY DEF IsAttempt, Owes, Between, Blank

LEMMA PodOK ==
  /\ IsPod(Absent) /\ IsPod(New)
  /\ New.node = Absent.node /\ New.reports = Absent.reports
  BY DEF IsPod, New, Absent

LEMMA GoneOK ==
  ASSUME NEW d, IsPod(d)
  PROVE  IsPod(Gone(d)) /\ Gone(d).node = d.node /\ Gone(d).reports = d.reports
  BY DEF IsPod, Gone

LEMMA FinishedOK ==
  ASSUME NEW d, IsPod(d), NEW finished
  PROVE  LET e == [d EXCEPT !.finished = finished]
         IN IsPod(e) /\ e.node = d.node /\ e.reports = d.reports
  BY DEF IsPod

\* The pods keep what the reports and the answers are about.
PodsKeep ==
  /\ DOMAIN pods' = Pod
  /\ \A p \in Pod : /\ IsPod(pods'[p])
                    /\ pods'[p].node = pods[p].node
                    /\ pods'[p].reports = pods[p].reports

\* A worker that comes to owe no report it did not owe leaves the reports
\* as they are.
LEMMA Moves ==
  ASSUME PodsOK, AttemptsOK, ReportsOK, PodsKeep,
         NEW w \in Worker, NEW a, attempt' = [attempt EXCEPT ![w] = a],
         IsAttempt(a), w \in Client => IsClients(a),
         Owes(a) => /\ Owes(attempt[w])
                    /\ a.pod = attempt[w].pod /\ a.node = attempt[w].node
  PROVE  PodsOK' /\ AttemptsOK' /\ ReportsOK'
<1>1. PodsOK'
  BY DEF PodsKeep, PodsOK
<1>2. DOMAIN attempt' = Worker /\ attempt'[w] = a
      /\ \A v \in Worker : v # w => attempt'[v] = attempt[v]
  BY DEF AttemptsOK
<1>3. AttemptsOK'
  <2>1. attempt' = [v \in Worker |-> attempt'[v]]
    BY <1>2 DEF AttemptsOK
  <2>2. \A v \in Worker : IsAttempt(attempt'[v])
    BY <1>2 DEF AttemptsOK
  <2>3. \A c \in Client : IsClients(attempt'[c])
    BY <1>2 DEF AttemptsOK, Worker
  <2> QED
    BY <2>1, <2>2, <2>3 DEF AttemptsOK
<1>4. \A v \in Worker :
        Owes(attempt'[v]) => /\ Owes(attempt[v])
                             /\ attempt'[v].pod = attempt[v].pod
                             /\ attempt'[v].node = attempt[v].node
  BY <1>2
<1>5. \A v \in Worker : Owes(attempt[v]) => attempt[v].pod \in Pod
  BY DEF AttemptsOK, IsAttempt, Owes
<1>6. ReportsOK'
  BY <1>4, <1>5 DEF ReportsOK, Backed, PodsKeep
<1> QED
  BY <1>1, <1>3, <1>6

\* Steps that move no worker.
LEMMA Stays ==
  ASSUME PodsOK, AttemptsOK, ReportsOK, PodsKeep, UNCHANGED attempt
  PROVE  PodsOK' /\ AttemptsOK' /\ ReportsOK'
<1>1. PodsOK' /\ AttemptsOK'
  BY DEF PodsKeep, PodsOK, AttemptsOK
<1>2. \A v \in Worker : Owes(attempt[v]) => attempt[v].pod \in Pod
  BY DEF AttemptsOK, IsAttempt, Owes
<1>3. ReportsOK'
  BY <1>2 DEF ReportsOK, Backed, PodsKeep
<1> QED
  BY <1>1, <1>3

LEMMA AnswersStay ==
  ASSUME AnswersOK, PodsKeep, UNCHANGED answers
  PROVE  AnswersOK'
  BY DEF AnswersOK, PodsKeep

LEMMA Untouched ==
  ASSUME PodsOK, UNCHANGED pods
  PROVE  PodsKeep
  BY DEF PodsOK, PodsKeep

-----------------------------------------------------------------------------
(* The steps.                                                              *)

LEMMA InitOK == Init => Inv
<1> SUFFICES ASSUME Init PROVE Inv
  OBVIOUS
<1>1. PodsOK
  BY PodOK DEF Init, PodsOK
<1>2. NodesOK /\ AnnouncedOK /\ AnswersOK
  BY DEF Init, NodesOK, AnnouncedOK, AnswersOK
<1>3. \A w \in Worker : attempt[w] = Idle
  BY DEF Init
<1>4. AttemptsOK
  BY <1>3, IdleOK DEF Init, AttemptsOK, Worker
<1>5. ReportsOK
  BY <1>3, IdleOK DEF ReportsOK
<1> QED
  BY <1>1, <1>2, <1>4, <1>5 DEF Inv

\* What others do to the pods.
LEMMA PodSteps ==
  ASSUME Inv, NEW p \in Pod, CreatePod(p) \/ DeletePod(p) \/ Finish(p)
  PROVE  Inv'
<1>1. PodsKeep
  <2>1. CASE CreatePod(p)
    BY <2>1, PodOK DEF Inv, PodsOK, PodsKeep, CreatePod
  <2>2. CASE DeletePod(p)
    <3>1. /\ DOMAIN pods' = Pod
          /\ pods'[p] = Gone(pods[p])
          /\ \A q \in Pod : q # p => pods'[q] = pods[q]
      BY <2>2 DEF Inv, PodsOK, DeletePod
    <3>2. \A q \in Pod : IsPod(pods[q])
      BY DEF Inv, PodsOK
    <3>3. /\ IsPod(Gone(pods[p]))
          /\ Gone(pods[p]).node = pods[p].node
          /\ Gone(pods[p]).reports = pods[p].reports
      BY <3>2, GoneOK
    <3> QED
      BY <3>1, <3>2, <3>3 DEF PodsKeep
  <2>3. CASE Finish(p)
    <3> DEFINE d == [pods[p] EXCEPT !.finished = TRUE]
    <3>1. /\ DOMAIN pods' = Pod
          /\ pods'[p] = d
          /\ \A q \in Pod : q # p => pods'[q] = pods[q]
      BY <2>3 DEF Inv, PodsOK, Finish
    <3>2. \A q \in Pod : IsPod(pods[q])
      BY DEF Inv, PodsOK
    <3>3. IsPod(pods[p])
      BY <3>2
    <3>4. IsPod(d) /\ d.node = pods[p].node /\ d.reports = pods[p].reports
      BY <3>3, FinishedOK, Zenon
    <3> HIDE DEF d
    <3> QED
      BY <3>1, <3>2, <3>4 DEF PodsKeep
  <2> QED
    BY <2>1, <2>2, <2>3
<1>2. /\ UNCHANGED <<attempt, answers, nodes>>
      /\ announced' = announced \/ announced' = announced \cup {p}
  BY DEF CreatePod, DeletePod, Finish
<1> QED
  BY <1>1, <1>2, Stays, AnswersStay DEF Inv, NodesOK, AnnouncedOK

\* What becomes of the nodes.
LEMMA NodeSteps ==
  ASSUME Inv, NEW n \in NodeName, EnsureNode(n) \/ ChangeNode(n) \/ DeleteNode(n)
  PROVE  Inv'
<1>1. PodsKeep
  BY Untouched DEF Inv, EnsureNode, ChangeNode, DeleteNode
<1>2. UNCHANGED <<attempt, answers, announced>>
  BY DEF EnsureNode, ChangeNode, DeleteNode
<1>3. NodesOK'
  <2>1. CASE EnsureNode(n)
    <3>1. DOMAIN nodes' = DOMAIN nodes \cup {n} \/ nodes' = nodes
      BY <2>1 DEF EnsureNode
    <3> QED
      BY <3>1 DEF Inv, NodesOK
  <2>2. CASE ChangeNode(n)
    BY <2>2 DEF Inv, NodesOK, ChangeNode
  <2>3. CASE DeleteNode(n)
    BY <2>3 DEF Inv, NodesOK, DeleteNode
  <2> QED
    BY <2>1, <2>2, <2>3
<1> QED
  BY <1>1, <1>2, <1>3, Stays, AnswersStay DEF Inv, AnnouncedOK

LEMMA RestartStep ==
  ASSUME Inv, Restart
  PROVE  Inv'
<1>1. PodsOK' /\ NodesOK' /\ AnnouncedOK' /\ AnswersOK'
  BY DEF Inv, Restart, PodsOK, NodesOK, AnnouncedOK, AnswersOK
<1>2. \A w \in Worker : attempt'[w] = Idle
  BY DEF Restart
<1>3. AttemptsOK'
  BY <1>2, IdleOK DEF Restart, AttemptsOK, Worker
<1>4. ReportsOK'
  BY <1>2, IdleOK DEF ReportsOK
<1> QED
  BY <1>1, <1>3, <1>4 DEF Inv

\* The end of an attempt.
LEMMA DoneOK ==
  ASSUME AttemptsOK, NEW w \in Worker, Done(w)
  PROVE  \E a : /\ attempt' = [attempt EXCEPT ![w] = a]
                /\ IsAttempt(a) /\ (w \in Client => IsClients(a)) /\ ~Owes(a)
<1>1. CASE w \in Tick
  <2> DEFINE a == Between(attempt[w].queue)
  <2>1. attempt' = [attempt EXCEPT ![w] = a]
    BY <1>1 DEF Done, Become
  <2>2. attempt[w].queue \in SUBSET Pod
    BY DEF AttemptsOK, IsAttempt
  <2>4. IsAttempt(a) /\ ~Owes(a)
    BY <2>2, BetweenOK
  <2>3. w \notin Client
    BY <1>1, WorkersDiffer
  <2> QED
    BY <2>1, <2>3, <2>4
<1>2. CASE w \notin Tick
  BY <1>2, IdleOK DEF Done, Become
<1> QED
  BY <1>1, <1>2

\* What a worker takes up: a pod it has heard of or found.
LEMMA Taken ==
  ASSUME Inv, NEW w \in Worker,
         \/ OnCreated(w) /\ w \in Pod
         \/ Run(w) /\ w \in Tick
  PROVE  Inv'
<1>1. PodsKeep /\ UNCHANGED <<answers, nodes>> /\ announced' \subseteq announced
  BY Untouched DEF Inv, OnCreated, Run, StartTick, NextPending
<1>2. PodsOK' /\ AttemptsOK' /\ ReportsOK'
  <2>1. CASE OnCreated(w) /\ w \in Pod
    <3>1. w \notin Client
      BY <2>1, WorkersDiffer
    <3>2. attempt' = attempt \/ attempt' = [attempt EXCEPT ![w] = Reading(w, {})]
      BY <2>1 DEF OnCreated, Become
    <3> QED
      BY <1>1, <2>1, <3>1, <3>2, ReadingOK, Moves, Stays DEF Inv
  <2>2. CASE StartTick(w) /\ w \in Tick
    <3> DEFINE a == Between(Pending)
    <3>1. attempt' = [attempt EXCEPT ![w] = a]
      BY <2>2 DEF StartTick, Become
    <3>2. IsAttempt(a) /\ ~Owes(a)
      BY BetweenOK DEF Pending
    <3>3. w \notin Client
      BY <2>2, WorkersDiffer
    <3> HIDE DEF a
    <3> QED
      BY <1>1, <3>1, <3>2, <3>3, Moves DEF Inv
  <2>3. CASE NextPending(w) /\ w \in Tick
    <3>1. \E a : /\ attempt' = [attempt EXCEPT ![w] = a]
                 /\ IsAttempt(a) /\ ~Owes(a)
      <4>1. CASE Become(w, Idle)
        BY <4>1, IdleOK DEF Become
      <4>2. ASSUME NEW p \in attempt[w].queue, Become(w, Reading(p, attempt[w].queue \ {p}))
            PROVE  \E a : /\ attempt' = [attempt EXCEPT ![w] = a]
                          /\ IsAttempt(a) /\ ~Owes(a)
        <5>1. attempt[w].queue \subseteq Pod
          BY DEF Inv, AttemptsOK, IsAttempt
        <5>2. p \in Pod /\ attempt[w].queue \ {p} \in SUBSET Pod
          BY <5>1
        <5> QED
          BY <4>2, <5>2, ReadingOK DEF Become
      <4> QED
        BY <2>3, <4>1, <4>2 DEF NextPending
    <3>2. w \notin Client
      BY <2>3, WorkersDiffer
    <3> QED
      BY <1>1, <3>1, <3>2, Moves DEF Inv
  <2> QED
    BY <2>1, <2>2, <2>3 DEF Run
<1>3. AnswersOK'
  BY <1>1, AnswersStay DEF Inv
<1> QED
  BY <1>1, <1>2, <1>3 DEF Inv, NodesOK, AnnouncedOK

\* The two reads of a scheduling; clients do without.
LEMMA ReadSteps ==
  ASSUME Inv, NEW w \in Worker, ReadNodes(w) \/ ReadPods(w)
  PROVE  Inv'
<1>1. PodsKeep /\ UNCHANGED <<answers, nodes, announced>>
  BY Untouched DEF Inv, ReadNodes, ReadPods
<1>2. IsAttempt(attempt[w]) /\ attempt[w].step = "read"
  BY DEF Inv, AttemptsOK, ReadNodes, ReadPods, At
<1>3. w \notin Client
  BY <1>2 DEF Inv, AttemptsOK, IsClients
<1>4. \E a : /\ attempt' = [attempt EXCEPT ![w] = a]
             /\ IsAttempt(a) /\ ~Owes(a)
  <2>1. CASE ReadNodes(w)
    <3> DEFINE a == [attempt[w] EXCEPT !.nodes = nodes]
    <3>1. attempt' = [attempt EXCEPT ![w] = a]
      BY <2>1 DEF ReadNodes
    <3>2. IsAttempt(a) /\ ~Owes(a)
      BY <1>2 DEF Inv, NodesOK, IsAttempt, Owes
    <3> QED
      BY <3>1, <3>2
  <2>2. CASE ReadPods(w)
    <3> DEFINE a == [attempt[w] EXCEPT !.placed = Placed]
    <3>1. attempt' = [attempt EXCEPT ![w] = a]
      BY <2>2 DEF ReadPods
    <3>2. IsAttempt(a) /\ ~Owes(a)
      BY <1>2 DEF IsAttempt, Owes
    <3> QED
      BY <3>1, <3>2
  <2> QED
    BY <2>1, <2>2
<1>5. PodsOK' /\ AttemptsOK' /\ ReportsOK'
  BY <1>1, <1>3, <1>4, Moves DEF Inv
<1>6. AnswersOK'
  BY <1>1, AnswersStay DEF Inv
<1> QED
  BY <1>1, <1>5, <1>6 DEF Inv, NodesOK, AnnouncedOK

LEMMA BestIsANode ==
  ASSUME NEW p, NEW ns, NEW placed
  PROVE  Best(p, ns, placed) \subseteq DOMAIN ns
  BY DEF Best, Fit

LEMMA DecideStep ==
  ASSUME Inv, NEW w \in Worker, Decide(w)
  PROVE  Inv'
<1>1. PodsKeep /\ UNCHANGED <<answers, nodes, announced>>
  BY Untouched DEF Inv, Decide
<1>2. /\ IsAttempt(attempt[w]) /\ attempt[w].step = "read"
      /\ attempt[w].nodes # None
  BY DEF Inv, AttemptsOK, Decide, At
<1>3. w \notin Client
  BY <1>2 DEF Inv, AttemptsOK, IsClients
<1>4. \E a : /\ attempt' = [attempt EXCEPT ![w] = a]
             /\ IsAttempt(a) /\ ~Owes(a)
  <2> DEFINE best == Best(attempt[w].pod, attempt[w].nodes, attempt[w].placed)
  <2>1. \/ Done(w)
        \/ Become(w, Report(attempt[w], "False"))
        \/ \E n \in best : Become(w, Chosen(attempt[w], n))
    BY DEF Decide
  <2>2. CASE Done(w)
    BY <2>2, <1>3, DoneOK DEF Inv
  <2>3. CASE Become(w, Report(attempt[w], "False"))
    <3>1. IsAttempt(Report(attempt[w], "False")) /\ ~Owes(Report(attempt[w], "False"))
      BY <1>2 DEF IsAttempt, Owes, Report
    <3> QED
      BY <2>3, <3>1 DEF Become
  <2>4. ASSUME NEW n \in best, Become(w, Chosen(attempt[w], n))
        PROVE  \E a : /\ attempt' = [attempt EXCEPT ![w] = a]
                      /\ IsAttempt(a) /\ ~Owes(a)
    <3>1. n \in DOMAIN attempt[w].nodes
      BY BestIsANode
    <3>2. n \in NodeName
      BY <1>2, <3>1 DEF IsAttempt
    <3>3. IsAttempt(Chosen(attempt[w], n)) /\ ~Owes(Chosen(attempt[w], n))
      BY <1>2, <3>2 DEF IsAttempt, Owes, Chosen
    <3> QED
      BY <2>4, <3>3 DEF Become
  <2> QED
    BY <2>1, <2>2, <2>3, <2>4
<1>5. PodsOK' /\ AttemptsOK' /\ ReportsOK'
  BY <1>1, <1>3, <1>4, Moves DEF Inv
<1>6. AnswersOK'
  BY <1>1, AnswersStay DEF Inv
<1> QED
  BY <1>1, <1>5, <1>6 DEF Inv, NodesOK, AnnouncedOK

LEMMA PostStep ==
  ASSUME Inv, NEW c \in Client, PostBinding(c)
  PROVE  Inv'
<1>1. PodsKeep /\ UNCHANGED <<answers, nodes, announced>>
  BY Untouched DEF Inv, PostBinding
<1>2. PICK p \in Pod, n \in NodeName : Become(c, Chosen(Reading(p, {}), n))
  BY DEF PostBinding
<1> DEFINE a == Chosen(Reading(p, {}), n)
<1>3. attempt' = [attempt EXCEPT ![c] = a]
  BY <1>2 DEF Become
<1>4. IsAttempt(a) /\ IsClients(a) /\ ~Owes(a)
  BY DEF IsAttempt, IsClients, Owes, Chosen, Reading, Blank
<1>5. c \in Worker
  BY DEF Worker
<1> HIDE DEF a
<1>6. PodsOK' /\ AttemptsOK' /\ ReportsOK'
  BY <1>1, <1>3, <1>4, <1>5, Moves DEF Inv
<1>7. AnswersOK'
  BY <1>1, AnswersStay DEF Inv
<1> QED
  BY <1>1, <1>6, <1>7 DEF Inv, NodesOK, AnnouncedOK

\* The only step that sets a node: it is the first for the pod, so no worker
\* and no answer has spoken of the pod before.
LEMMA BindsTheUnbound ==
  ASSUME Inv, NEW w \in Worker, Bind(w), StillUnbound(w)
  PROVE  Inv'
<1> DEFINE p == attempt[w].pod
           n == attempt[w].node
           a == Report(attempt[w], "True")
<1>1. /\ attempt[w].step = "bind"
      /\ IsAttempt(attempt[w])
      /\ attempt = [v \in Worker |-> attempt[v]]
  BY DEF Bind, At, Inv, AttemptsOK
<1>2. p \in Pod /\ n \in NodeName /\ n # None
  BY <1>1, WorkersDiffer DEF IsAttempt
<1>3. \A q \in Pod : IsPod(pods[q])
  BY DEF Inv, PodsOK
<1>4. pods[p].node = None
  BY DEF StillUnbound, Unbound
<1>5. pods[p].reports = 0
  BY <1>2, <1>3, <1>4 DEF IsPod
<1> DEFINE d == [pods[p] EXCEPT !.node = n]
<1>6. IsPod(pods[p])
  BY <1>2, <1>3
<1>7. IsPod(d) /\ d.node = n /\ d.reports = 0
  BY <1>2, <1>5, <1>6 DEF IsPod
<1>8. /\ attempt' = [attempt EXCEPT ![w] = a]
      /\ pods' = [pods EXCEPT ![p] = d]
      /\ UNCHANGED <<answers, nodes, announced>>
  BY DEF Bind, Become
<1>9. /\ IsAttempt(a) /\ IsClients(a) /\ Owes(a)
      /\ a.pod = p /\ a.node = n
  BY <1>1, <1>2 DEF IsAttempt, IsClients, Owes, Report
<1> HIDE DEF d, a, p, n
<1>10. /\ DOMAIN pods' = Pod /\ pods'[p] = d
       /\ \A q \in Pod : q # p => pods'[q] = pods[q]
  BY <1>2, <1>8 DEF Inv, PodsOK
<1>11. PodsOK'
  BY <1>3, <1>7, <1>10 DEF PodsOK
<1>12. /\ attempt'[w] = a
       /\ \A v \in Worker : v # w => attempt'[v] = attempt[v]
       /\ attempt' = [v \in Worker |-> attempt'[v]]
  BY <1>1, <1>8
<1>13. AttemptsOK'
  <2>1. \A v \in Worker : IsAttempt(attempt'[v])
    BY <1>9, <1>12 DEF Inv, AttemptsOK
  <2>2. \A c \in Client : IsClients(attempt'[c])
    BY <1>9, <1>12 DEF Inv, AttemptsOK, Worker
  <2> QED
    BY <1>12, <2>1, <2>2 DEF AttemptsOK
<1>14. \A v \in Worker : v # w /\ Owes(attempt'[v]) =>
         /\ Owes(attempt[v]) /\ attempt'[v] = attempt[v]
         /\ attempt[v].pod \in Pod /\ attempt[v].pod # p
  <2>1. \A v \in Worker : Owes(attempt[v]) =>
          attempt[v].pod \in Pod /\ Backed(attempt[v], pods)
    BY DEF Inv, AttemptsOK, IsAttempt, Owes, ReportsOK
  <2> QED
    BY <1>4, <1>12, <2>1, WorkersDiffer DEF Backed
<1>15. Backed(attempt'[w], pods')
  BY <1>2, <1>7, <1>9, <1>10, <1>12 DEF Backed
<1>16. ReportsOK'
  <2>1. \A v \in Worker : Owes(attempt'[v]) => Backed(attempt'[v], pods')
    BY <1>10, <1>14, <1>15 DEF Inv, ReportsOK, Backed
  <2>2. ASSUME NEW u \in Worker, NEW v \in Worker, Owes(attempt'[u]), Owes(attempt'[v]),
               attempt'[u].pod = attempt'[v].pod
        PROVE  u = v
    BY <1>9, <1>12, <1>14, <2>2 DEF Inv, ReportsOK
  <2> QED
    BY <2>1, <2>2 DEF ReportsOK
<1>17. AnswersOK'
  BY <1>4, <1>8, <1>10, WorkersDiffer DEF Inv, AnswersOK
<1> QED
  BY <1>8, <1>11, <1>13, <1>16, <1>17 DEF Inv, NodesOK, AnnouncedOK

LEMMA FindsItBound ==
  ASSUME Inv, NEW w \in Worker, Bind(w), ~StillUnbound(w)
  PROVE  Inv'
<1>1. Done(w) /\ UNCHANGED <<pods, answers, nodes, announced>>
  BY DEF Bind
<1>2. PodsKeep
  BY <1>1, Untouched DEF Inv
<1>3. PodsOK' /\ AttemptsOK' /\ ReportsOK'
  BY <1>1, <1>2, DoneOK, Moves DEF Inv
<1>4. AnswersOK'
  BY <1>1, <1>2, AnswersStay DEF Inv
<1> QED
  BY <1>1, <1>3, <1>4 DEF Inv, NodesOK, AnnouncedOK

LEMMA ClearedOK ==
  ASSUME NEW d, IsPod(d)
  PROVE  LET e == [d EXCEPT !.conditions = <<>>]
         IN IsPod(e) /\ e.node = d.node /\ e.reports = d.reports
  BY DEF IsPod

LEMMA PullStep ==
  ASSUME Inv, NEW w \in Worker, Pull(w)
  PROVE  Inv'
<1>1. IsAttempt(attempt[w]) /\ attempt[w].step = "pull"
      /\ (w \in Client => attempt[w].says = "True")
  BY DEF Inv, AttemptsOK, IsClients, Pull, At
<1> DEFINE p == attempt[w].pod
           d == [pods[p] EXCEPT !.conditions = <<>>]
           a == [attempt[w] EXCEPT !.step = "push"]
<1>2. p \in Pod
  BY <1>1 DEF IsAttempt
<1>3. \A q \in Pod : IsPod(pods[q])
  BY DEF Inv, PodsOK
<1>4. IsPod(d) /\ d.node = pods[p].node /\ d.reports = pods[p].reports
  <2>1. IsPod(pods[p])
    BY <1>2, <1>3
  <2> QED
    BY <2>1, ClearedOK, Zenon
<1>5. /\ pods' = pods \/ pods' = [pods EXCEPT ![p] = d]
      /\ attempt' = [attempt EXCEPT ![w] = a]
      /\ UNCHANGED <<answers, nodes, announced>>
  BY DEF Pull, MoveTo
<1>6. /\ IsAttempt(a) /\ (w \in Client => IsClients(a))
      /\ Owes(a) => /\ Owes(attempt[w])
                    /\ a.pod = attempt[w].pod /\ a.node = attempt[w].node
  BY <1>1 DEF IsAttempt, IsClients, Owes
<1> HIDE DEF d, a, p
<1>7. PodsKeep
  BY <1>2, <1>3, <1>4, <1>5 DEF Inv, PodsOK, PodsKeep
<1>8. PodsOK' /\ AttemptsOK' /\ ReportsOK'
  BY <1>5, <1>6, <1>7, Moves DEF Inv
<1>9. AnswersOK'
  BY <1>5, <1>7, AnswersStay DEF Inv
<1> QED
  BY <1>5, <1>8, <1>9 DEF Inv, NodesOK, AnnouncedOK

LEMMA ReportedOK ==
  ASSUME NEW d, NEW says, IsPod(d),
         says = "True" => d.reports = 0 /\ d.node # None
  PROVE  LET e == Reported(d, says)
         IN /\ IsPod(e) /\ e.node = d.node
            /\ says # "True" => e.reports = d.reports
  BY DEF IsPod, Reported

\* Who writes the report owed it: it is the first on the pod.
LEMMA PushStep ==
  ASSUME Inv, NEW w \in Worker, Push(w)
  PROVE  Inv'
<1>1. /\ IsAttempt(attempt[w]) /\ attempt[w].step = "push"
      /\ (w \in Client => attempt[w].says = "True")
  BY DEF Inv, AttemptsOK, IsClients, Push, At
<1> DEFINE p == attempt[w].pod
           says == attempt[w].says
           d == Reported(pods[p], says)
<1>2. p \in Pod
  BY <1>1 DEF IsAttempt
<1>3. \A q \in Pod : IsPod(pods[q])
  BY DEF Inv, PodsOK
<1>4. says = "True" => Owes(attempt[w]) /\ Backed(attempt[w], pods)
  BY <1>1 DEF Owes, Inv, ReportsOK
<1>5. /\ IsPod(d) /\ d.node = pods[p].node
      /\ says # "True" => d.reports = pods[p].reports
  <2>1. IsPod(pods[p])
    BY <1>2, <1>3
  <2>2. says = "True" => pods[p].reports = 0 /\ pods[p].node # None
    BY <1>4, WorkersDiffer DEF Backed
  <2> QED
    BY <2>1, <2>2, ReportedOK
<1>6. /\ Done(w)
      /\ pods' = [pods EXCEPT ![p] = d]
      /\ answers' = IF w \in Client THEN answers \cup {<<p, attempt[w].node>>} ELSE answers
      /\ UNCHANGED <<nodes, announced>>
  BY DEF Push
<1>7. PICK a : /\ attempt' = [attempt EXCEPT ![w] = a]
               /\ IsAttempt(a) /\ (w \in Client => IsClients(a)) /\ ~Owes(a)
  BY <1>6, DoneOK DEF Inv
<1>8. w \in Client => /\ pods[p].node = attempt[w].node
                      /\ attempt[w].node \in NodeName
  BY <1>1, <1>4 DEF Backed
<1> HIDE DEF d, p, says
<1>9. /\ DOMAIN pods' = Pod /\ pods'[p] = d
      /\ \A q \in Pod : q # p => pods'[q] = pods[q]
  BY <1>2, <1>6 DEF Inv, PodsOK
<1>10. \A q \in Pod : pods'[q].node = pods[q].node
  BY <1>5, <1>9
<1>11. AnswersOK'
  BY <1>2, <1>6, <1>8, <1>10 DEF Inv, AnswersOK
<1>12. PodsOK' /\ AttemptsOK' /\ ReportsOK'
  <2>1. CASE says # "True"
    <3>1. PodsKeep
      BY <1>3, <1>5, <1>9, <2>1 DEF PodsKeep
    <3> QED
      BY <1>7, <3>1, Moves DEF Inv
  <2>2. CASE says = "True"
    <3>1. PodsOK'
      BY <1>3, <1>5, <1>9 DEF PodsOK
    <3>2. /\ attempt'[w] = a
          /\ \A v \in Worker : v # w => attempt'[v] = attempt[v]
          /\ attempt' = [v \in Worker |-> attempt'[v]]
      BY <1>7 DEF Inv, AttemptsOK
    <3>3. AttemptsOK'
      <4>1. \A v \in Worker : IsAttempt(attempt'[v])
        BY <1>7, <3>2 DEF Inv, AttemptsOK
      <4>2. \A c \in Client : IsClients(attempt'[c])
        BY <1>7, <3>2 DEF Inv, AttemptsOK, Worker
      <4> QED
        BY <3>2, <4>1, <4>2 DEF AttemptsOK
    <3>4. \A v \in Worker : Owes(attempt'[v]) =>
            /\ v # w /\ Owes(attempt[v]) /\ attempt'[v] = attempt[v]
            /\ attempt[v].pod \in Pod /\ attempt[v].pod # p
      <4>1. \A v \in Worker : Owes(attempt[v]) => attempt[v].pod \in Pod
        BY DEF Inv, AttemptsOK, IsAttempt, Owes
      <4>2. \A v \in Worker : Owes(attempt[v]) /\ attempt[v].pod = p => v = w
        BY <1>4, <2>2 DEF Inv, ReportsOK, p
      <4> QED
        BY <1>7, <3>2, <4>1, <4>2
    <3>5. ReportsOK'
      BY <1>9, <3>4 DEF Inv, ReportsOK, Backed
    <3> QED
      BY <3>1, <3>3, <3>5
  <2> QED
    BY <2>1, <2>2
<1> QED
  BY <1>6, <1>11, <1>12 DEF Inv, NodesOK, AnnouncedOK

LEMMA ScheduleStep ==
  ASSUME Inv, NEW w \in Worker, Schedule(w)
  PROVE  Inv'
<1>1. CASE ReadNodes(w) \/ ReadPods(w)
  BY <1>1, ReadSteps
<1>2. CASE Decide(w)
  BY <1>2, DecideStep
<1>3. CASE Bind(w)
  BY <1>3, BindsTheUnbound, FindsItBound
<1>4. CASE Pull(w)
  BY <1>4, PullStep
<1>5. CASE Push(w)
  BY <1>5, PushStep
<1> QED
  BY <1>1, <1>2, <1>3, <1>4, <1>5 DEF Schedule

LEMMA StutterStep ==
  ASSUME Inv, UNCHANGED vars
  PROVE  Inv'
  BY DEF vars, Inv, PodsOK, NodesOK, AttemptsOK, AnnouncedOK, ReportsOK, AnswersOK

LEMMA NextStep ==
  ASSUME Inv, [Next]_vars
  PROVE  Inv'
<1>1. ASSUME NEW p \in Pod, CreatePod(p) \/ DeletePod(p) \/ Finish(p) \/ OnCreated(p)
      PROVE  Inv'
  <2>1. p \in Worker
    BY DEF Worker
  <2> QED
    BY <1>1, <2>1, PodSteps, Taken
<1>2. ASSUME NEW n \in NodeName, EnsureNode(n) \/ ChangeNode(n) \/ DeleteNode(n)
      PROVE  Inv'
  BY <1>2, NodeSteps
<1>3. ASSUME NEW t \in Tick, Run(t)
      PROVE  Inv'
  <2>1. t \in Worker
    BY DEF Worker
  <2> QED
    BY <1>3, <2>1, Taken
<1> QED
  BY <1>1, <1>2, <1>3, PostStep, ScheduleStep, RestartStep, StutterStep DEF Next

-----------------------------------------------------------------------------
(* The theorems.                                                           *)

\* The inductive invariant: whoever owes a report on a pod owes it alone, for
\* a bind of its own that nobody has reported yet.
THEOREM Reports == Spec => []Inv
<1>1. Init => Inv
  BY InitOK
<1>2. Inv /\ [Next]_vars => Inv'
  BY NextStep
<1> QED
  BY <1>1, <1>2, PTL DEF Spec

\* A pod is reported as scheduled once at most, and only if it is placed; a
\* client that was told 201 has its pod on the node it named (bindPod and the
\* binding endpoint, for any number of schedulings of one pod).
THEOREM PlacedOnce == Spec => []OnePlacement
<1>1. Inv => OnePlacement
  BY DEF Inv, PodsOK, AnswersOK, IsPod, OnePlacement
<1> QED
  BY <1>1, Reports, PTL

-----------------------------------------------------------------------------
(* Sums over finite sets, whatever order their members are taken in.       *)

LEMMA LeastNatural ==
  ASSUME NEW T \in SUBSET Nat, T # {}
  PROVE  \E n \in T : \A m \in T : n <= m
<1> DEFINE R == OpToRel(<, Nat)
<1>1. IsWellFoundedOn(R, Nat)
  BY NatLessThanWellFounded
<1>2. PICK n \in T : \A m \in T : ~(<<m, n>> \in R)
  <2> HIDE DEF R
  <2> QED BY <1>1, WFMin
<1>3. \A m \in T : ~(m < n)
  BY <1>2 DEF OpToRel
<1> QED BY <1>3

\* What holds of a subset when it holds of it without any one of its members
\* holds of all subsets of a finite set.
LEMMA SubsetInduct ==
  ASSUME NEW S, IsFiniteSet(S), NEW P \in SUBSET (SUBSET S),
         \A s \in SUBSET S : (\A x \in s : s \ {x} \in P) => s \in P
  PROVE  P = SUBSET S
<1> DEFINE Bad == (SUBSET S) \ P
           Sizes == {Cardinality(s) : s \in Bad}
<1>1. ASSUME NEW s \in SUBSET S
      PROVE  IsFiniteSet(s) /\ Cardinality(s) \in Nat
  BY FS_Subset, FS_CardinalityType
<1>2. CASE Bad # {}
  <2>1. Sizes \in SUBSET Nat /\ Sizes # {}
    BY <1>1, <1>2
  <2>2. PICK n \in Sizes : \A m \in Sizes : n <= m
    <3> HIDE DEF Sizes
    <3> QED BY <2>1, LeastNatural
  <2>3. PICK s \in Bad : n = Cardinality(s)
    OBVIOUS
  <2>4. PICK x \in s : s \ {x} \notin P
    BY <2>3
  <2>5. IsFiniteSet(s) /\ Cardinality(s) \in Nat
    BY <1>1, <2>3
  <2>6. Cardinality(s \ {x}) = Cardinality(s) - 1
    BY <2>4, <2>5, FS_RemoveElement
  <2>7. Cardinality(s \ {x}) \in Sizes
    <3>1. s \ {x} \in Bad
      BY <2>3, <2>4
    <3> QED BY <3>1
  <2> HIDE DEF Sizes, Bad
  <2>8. Cardinality(s) <= Cardinality(s) - 1
    BY <2>2, <2>3, <2>6, <2>7
  <2> QED BY <2>5, <2>8
<1>3. CASE Bad = {}
  BY <1>3
<1> QED BY <1>2, <1>3

SumStep(it, F, r, s) ==
  IF s = {} THEN 0
  ELSE LET x == CHOOSE x \in s : TRUE IN F[x][r] + it[s \ {x}]
SumWalk(it, F, r, S) == it = [s \in SUBSET S |-> SumStep(it, F, r, s)]
Total(F, r, S) == (CHOOSE it : SumWalk(it, F, r, S))[S]

\* The walk over the subsets of a size at a time.
LEMMA SumWalkExists ==
  ASSUME NEW F, NEW r, NEW S, IsFiniteSet(S)
  PROVE  \E it : SumWalk(it, F, r, S)
<1> DEFINE Upto(n) == {s \in SUBSET S : Cardinality(s) <= n}
           Walk(it, n) == it = [s \in Upto(n) |-> SumStep(it, F, r, s)]
           T == {n \in Nat : ~ \E it : Walk(it, n)}
<1>1. ASSUME NEW s \in SUBSET S
      PROVE  /\ IsFiniteSet(s) /\ Cardinality(s) \in Nat
             /\ Cardinality(s) = 0 => s = {}
             /\ \A x \in s : Cardinality(s \ {x}) = Cardinality(s) - 1
  BY FS_Subset, FS_CardinalityType, FS_RemoveElement, FS_EmptySet
<1>2. 0 \notin T
  <2> DEFINE g == [s \in Upto(0) |-> 0]
  <2>1. \A s \in Upto(0) : s = {}
    BY <1>1
  <2>2. Walk(g, 0)
    <3> HIDE DEF Upto
    <3> QED BY <2>1 DEF SumStep
  <2> HIDE DEF g, Walk
  <2> QED BY <2>2
<1>3. ASSUME NEW n \in Nat, n \notin T PROVE n + 1 \notin T
  <2>1. PICK f : Walk(f, n)
    BY <1>3
  <2> DEFINE g == [s \in Upto(n + 1) |-> SumStep(f, F, r, s)]
  <2>2. \A s \in Upto(n) : g[s] = f[s]
    <3>1. \A s \in Upto(n) : s \in Upto(n + 1)
      BY <1>1
    <3> HIDE DEF Upto
    <3> QED BY <2>1, <3>1
  <2>3. ASSUME NEW s \in Upto(n + 1), s # {}
        PROVE  s \ {CHOOSE x \in s : TRUE} \in Upto(n)
    <3>1. PICK x : x = CHOOSE y \in s : TRUE
      OBVIOUS
    <3>2. x \in s
      BY <2>3, <3>1
    <3>3. Cardinality(s \ {x}) = Cardinality(s) - 1 /\ Cardinality(s) <= n + 1
          /\ Cardinality(s) \in Nat /\ s \ {x} \in SUBSET S
      BY <1>1, <3>2
    <3> QED BY <3>1, <3>3
  <2>4. \A s \in Upto(n + 1) : SumStep(f, F, r, s) = SumStep(g, F, r, s)
    <3> SUFFICES ASSUME NEW s \in Upto(n + 1), s # {}
                 PROVE  SumStep(f, F, r, s) = SumStep(g, F, r, s)
      BY DEF SumStep
    <3> DEFINE u == s \ {CHOOSE x \in s : TRUE}
    <3>1. u \in Upto(n)
      BY <2>3
    <3> HIDE DEF g, Upto
    <3>2. f[u] = g[u]
      BY <2>2, <3>1
    <3> QED BY <3>2 DEF SumStep
  <2>5. Walk(g, n + 1)
    <3>1. g = [s \in Upto(n + 1) |-> SumStep(f, F, r, s)]
      OBVIOUS
    <3> HIDE DEF g, Upto
    <3> QED BY <2>4, <3>1
  <2> HIDE DEF g, Walk
  <2> QED BY <2>5
<1>4. T = {}
  <2> SUFFICES ASSUME T # {} PROVE FALSE
    OBVIOUS
  <2>1. T \in SUBSET Nat
    OBVIOUS
  <2> HIDE DEF T
  <2>2. PICK n \in T : \A m \in T : n <= m
    BY <2>1, LeastNatural
  <2>3. n \in Nat /\ n # 0 /\ n - 1 \in Nat /\ n = (n - 1) + 1
    BY <1>2, <2>1
  <2>4. n - 1 \notin T
    BY <2>2, <2>3
  <2> QED BY <1>3, <2>3, <2>4
<1>5. Cardinality(S) \in Nat /\ \A s \in SUBSET S : Cardinality(s) <= Cardinality(S)
  BY FS_Subset, FS_CardinalityType
<1>6. PICK it : Walk(it, Cardinality(S))
  <2>1. Cardinality(S) \notin T
    BY <1>4
  <2> HIDE DEF Walk
  <2> QED BY <1>5, <2>1
<1>7. Upto(Cardinality(S)) = SUBSET S
  BY <1>5
<1>8. SumWalk(it, F, r, S)
  <2> HIDE DEF Upto
  <2> QED BY <1>6, <1>7 DEF SumWalk
<1> QED BY <1>8

LEMMA TotalWalk ==
  ASSUME NEW F, NEW r, NEW S, IsFiniteSet(S)
  PROVE  \E it : SumWalk(it, F, r, S) /\ Total(F, r, S) = it[S]
<1> DEFINE it == CHOOSE i : SumWalk(i, F, r, S)
<1>1. SumWalk(it, F, r, S)
  BY SumWalkExists
<1> QED BY <1>1 DEF Total

\* Walks over two sets agree on the subsets of both.
LEMMA WalksAgree ==
  ASSUME NEW F, NEW r, NEW S, NEW T \in SUBSET S, IsFiniteSet(T),
         NEW f, SumWalk(f, F, r, S), NEW g, SumWalk(g, F, r, T)
  PROVE  f[T] = g[T]
<1> DEFINE P == {s \in SUBSET T : f[s] = g[s]}
<1>1. ASSUME NEW s \in SUBSET T, \A x \in s : s \ {x} \in P PROVE s \in P
  <2>1. f[s] = SumStep(f, F, r, s) /\ g[s] = SumStep(g, F, r, s)
    BY DEF SumWalk
  <2>2. CASE s = {}
    BY <2>1, <2>2 DEF SumStep
  <2>3. CASE s # {}
    <3>1. PICK x : x = CHOOSE y \in s : TRUE
      OBVIOUS
    <3>2. x \in s
      BY <2>3, <3>1
    <3>3. f[s] = F[x][r] + f[s \ {x}] /\ g[s] = F[x][r] + g[s \ {x}]
      BY <2>1, <2>3, <3>1 DEF SumStep
    <3>4. f[s \ {x}] = g[s \ {x}]
      BY <1>1, <3>2
    <3> QED BY <3>3, <3>4
  <2> QED BY <2>2, <2>3
<1>2. P = SUBSET T
  <2>1. P \in SUBSET (SUBSET T)
    OBVIOUS
  <2> HIDE DEF P
  <2> QED BY <1>1, <2>1, SubsetInduct
<1>3. T \in P
  BY <1>2
<1> QED BY <1>3

LEMMA SumIsInt ==
  ASSUME NEW F, NEW r, NEW S, IsFiniteSet(S), NEW it, SumWalk(it, F, r, S),
         \A x \in S : F[x][r] \in Int
  PROVE  \A s \in SUBSET S : it[s] \in Int
<1> DEFINE P == {s \in SUBSET S : it[s] \in Int}
<1>1. ASSUME NEW s \in SUBSET S, \A x \in s : s \ {x} \in P PROVE s \in P
  <2>1. it[s] = SumStep(it, F, r, s)
    BY DEF SumWalk
  <2>2. CASE s = {}
    BY <2>1, <2>2 DEF SumStep
  <2>3. CASE s # {}
    <3>1. PICK y : y = CHOOSE z \in s : TRUE
      OBVIOUS
    <3>2. y \in s /\ y \in S
      BY <2>3, <3>1
    <3>3. it[s] = F[y][r] + it[s \ {y}]
      BY <2>1, <2>3, <3>1 DEF SumStep
    <3>4. it[s \ {y}] \in Int /\ F[y][r] \in Int
      BY <1>1, <3>2
    <3>5. it[s] \in Int
      BY <3>3, <3>4
    <3> QED BY <3>5
  <2> QED BY <2>2, <2>3
<1>2. P = SUBSET S
  <2>1. P \in SUBSET (SUBSET S)
    OBVIOUS
  <2> HIDE DEF P
  <2> QED BY <1>1, <2>1, SubsetInduct
<1> QED BY <1>2

\* Any member may be counted last.
LEMMA SumPick ==
  ASSUME NEW F, NEW r, NEW S, IsFiniteSet(S), NEW it, SumWalk(it, F, r, S),
         \A x \in S : F[x][r] \in Int
  PROVE  \A s \in SUBSET S : \A x \in s : it[s] = F[x][r] + it[s \ {x}]
<1> DEFINE Last(s, x) == it[s] = F[x][r] + it[s \ {x}]
           P == {s \in SUBSET S : \A x \in s : Last(s, x)}
<1>0. \A s \in SUBSET S : it[s] \in Int
  BY SumIsInt
<1>1. ASSUME NEW s \in SUBSET S, \A x \in s : s \ {x} \in P,
             NEW x \in s
      PROVE  Last(s, x)
  <2>1. PICK y : y = CHOOSE z \in s : TRUE
    OBVIOUS
  <2>2. y \in s
    BY <2>1
  <2>3. it[s] = F[y][r] + it[s \ {y}]
    BY <2>1 DEF SumWalk, SumStep
  <2>4. CASE x = y
    BY <2>3, <2>4
  <2>5. CASE x # y
    <3> DEFINE rest == (s \ {y}) \ {x}
    <3>1. rest = (s \ {x}) \ {y} /\ x \in s \ {y} /\ y \in s \ {x}
      BY <2>2, <2>5
    <3>2. Last(s \ {y}, x) /\ Last(s \ {x}, y)
      BY <1>1, <2>2, <3>1
    <3>3. it[s \ {y}] = F[x][r] + it[rest] /\ it[s \ {x}] = F[y][r] + it[rest]
      BY <3>1, <3>2
    <3>4. it[rest] \in Int /\ F[x][r] \in Int /\ F[y][r] \in Int
      BY <1>0, <2>2
    <3> HIDE DEF rest
    <3> QED BY <2>3, <3>3, <3>4
  <2> QED BY <2>4, <2>5
<1>2. P = SUBSET S
  <2>1. P \in SUBSET (SUBSET S)
    OBVIOUS
  <2>2. \A s \in SUBSET S : (\A x \in s : s \ {x} \in P) => s \in P
    <3> HIDE DEF Last
    <3> QED BY <1>1
  <2> HIDE DEF P
  <2> QED BY <2>1, <2>2, SubsetInduct
<1> QED BY <1>2

LEMMA TotalType ==
  ASSUME NEW F, NEW r, NEW S, IsFiniteSet(S), \A x \in S : F[x][r] \in Int
  PROVE  Total(F, r, S) \in Int
<1>1. PICK it : SumWalk(it, F, r, S) /\ Total(F, r, S) = it[S]
  BY TotalWalk
<1>2. \A s \in SUBSET S : it[s] \in Int
  BY <1>1, SumIsInt
<1> QED BY <1>1, <1>2

LEMMA TotalAdd ==
  ASSUME NEW F, NEW r, NEW S, IsFiniteSet(S), NEW x, x \notin S,
         \A y \in S \cup {x} : F[y][r] \in Int
  PROVE  Total(F, r, S \cup {x}) = Total(F, r, S) + F[x][r]
<1> DEFINE more == S \cup {x}
<1>1. IsFiniteSet(more) /\ S \in SUBSET more /\ x \in more /\ more \ {x} = S
  BY FS_AddElement
<1>2. \A y \in more : F[y][r] \in Int
  OBVIOUS
<1> HIDE DEF more
<1>3. PICK f : SumWalk(f, F, r, more) /\ Total(F, r, more) = f[more]
  BY <1>1, TotalWalk
<1>4. PICK g : SumWalk(g, F, r, S) /\ Total(F, r, S) = g[S]
  BY TotalWalk
<1>5. f[S] = g[S]
  BY <1>1, <1>3, <1>4, WalksAgree
<1>6. f[more] = F[x][r] + f[more \ {x}]
  BY <1>1, <1>2, <1>3, SumPick
<1>7. f[more] = F[x][r] + f[S] /\ f[S] \in Int /\ F[x][r] \in Int
  BY <1>1, <1>2, <1>3, <1>6, SumIsInt
<1>8. Total(F, r, more) = Total(F, r, S) + F[x][r]
  BY <1>3, <1>4, <1>5, <1>7
<1> QED BY <1>8 DEF more

LEMMA UsedIs ==
  ASSUME NEW placed, NEW r
  PROVE  Used(placed, r) = Total(Demand, r, placed)
BY DEF Used, MapThenSumSet, MapThenFoldSet, Total, SumWalk, SumStep

-----------------------------------------------------------------------------
(* What a pod asks for, and what is asked of a node.                       *)

LEMMA MaxIsOne ==
  ASSUME NEW S \in SUBSET Int, IsFiniteSet(S), S # {}
  PROVE  Max(S) \in S
<1> DEFINE Topped(s) == \E x \in s : \A y \in s : x >= y
           P == {s \in SUBSET S : s = {} \/ Topped(s)}
<1>1. ASSUME NEW s \in SUBSET S, \A x \in s : s \ {x} \in P PROVE s \in P
  <2>1. CASE s # {}
    <3>1. PICK x \in s : x \in Int
      BY <2>1
    <3>2. s \ {x} \in P
      BY <1>1
    <3>3. CASE s \ {x} = {}
      <4>1. \A y \in s : x >= y
        BY <3>1, <3>3
      <4> QED BY <4>1
    <3>4. CASE Topped(s \ {x})
      <4>1. PICK m \in s \ {x} : \A y \in s \ {x} : m >= y
        BY <3>4
      <4>2. \A y \in s : y \in Int
        OBVIOUS
      <4>3. CASE m >= x
        <5>1. \A y \in s : m >= y
          BY <4>1, <4>3
        <5> QED BY <5>1
      <4>4. CASE ~(m >= x)
        <5>1. \A y \in s : x >= y
          BY <4>1, <4>2, <4>4
        <5> QED BY <5>1
      <4> QED BY <4>3, <4>4
    <3> QED BY <3>2, <3>3, <3>4
  <2> QED BY <2>1
<1>2. P = SUBSET S
  <2>1. P \in SUBSET (SUBSET S)
    OBVIOUS
  <2> HIDE DEF P
  <2> QED BY <1>1, <2>1, SubsetInduct
<1>3. \E x \in S : \A y \in S : x >= y
  <2>1. S \in P
    BY <1>2
  <2> QED BY <2>1
<1> QED BY <1>3 DEF Max

LEMMA RequestsType ==
  ASSUME NEW p \in DOMAIN PodSpec, NEW r \in {"cpu", "memory"}
  PROVE  Requests(PodSpec[p], r) \in Int
<1> DEFINE cs == PodSpec[p].containers
           is == PodSpec[p].inits
           S == {0} \cup {is[i][r] : i \in DOMAIN is}
           sum == Total(cs, r, DOMAIN cs)
<1>1. Requests(PodSpec[p], r) = Larger(sum, Max(S))
  BY DEF Requests, MapThenSumSet, MapThenFoldSet, Total, SumWalk, SumStep
<1>2. cs \in Seq(Asked) /\ is \in Seq(Asked)
  BY RequestAssumption
<1> HIDE DEF cs, is
<1>3. /\ \A i \in DOMAIN cs : cs[i] \in Asked /\ cs[i][r] \in Int
      /\ \A i \in DOMAIN is : is[i] \in Asked /\ is[i][r] \in Int
  <2>1. \A e \in Asked : e[r] \in Int
    BY DEF Asked
  <2>2. /\ \A i \in DOMAIN cs : cs[i] \in Asked
        /\ \A i \in DOMAIN is : is[i] \in Asked
    BY <1>2
  <2> QED BY <2>1, <2>2
<1>4. IsFiniteSet(DOMAIN cs) /\ IsFiniteSet(DOMAIN is)
  <2>1. \A n \in Nat : IsFiniteSet(1..n)
    BY FS_Interval
  <2> QED BY <1>2, <2>1
<1>5. sum \in Int
  BY <1>3, <1>4, TotalType
<1>6. Max(S) \in Int
  <2>1. IsFiniteSet({is[i][r] : i \in DOMAIN is})
    <3> DEFINE f == [i \in DOMAIN is |-> is[i][r]]
               X == {is[i][r] : i \in DOMAIN is}
    <3>1. f \in Surjection(DOMAIN is, X)
      BY DEF Surjection
    <3> HIDE DEF f, X
    <3>2. IsFiniteSet(X)
      BY <1>4, <3>1, FS_Surjection
    <3> QED BY <3>2 DEF X
  <2>2. IsFiniteSet({0} \cup {is[i][r] : i \in DOMAIN is})
    <3> DEFINE X == {is[i][r] : i \in DOMAIN is}
    <3>1. IsFiniteSet(X)
      BY <2>1
    <3> HIDE DEF X
    <3>2. IsFiniteSet(X \cup {0}) /\ X \cup {0} = {0} \cup X
      BY <3>1, FS_AddElement
    <3> QED BY <3>2 DEF X
  <2>3. S \in SUBSET Int /\ IsFiniteSet(S) /\ S # {}
    BY <1>3, <2>2
  <2> HIDE DEF S
  <2> QED BY <2>3, MaxIsOne
<1> HIDE DEF sum, S
<1> QED BY <1>1, <1>5, <1>6 DEF Larger

LEMMA DemandType ==
  ASSUME NEW p \in Pod, NEW r \in {"cpu", "memory"}
  PROVE  Demand[p][r] \in Int
BY PodsAreDescribed, RequestsType DEF Demand

\* One more pod on a node asks for so much more of it.
LEMMA OneMore ==
  ASSUME NEW placed \in SUBSET Pod, IsFiniteSet(placed),
         NEW p \in Pod, p \notin placed
  PROVE  /\ Cardinality(placed \cup {p}) = Cardinality(placed) + 1
         /\ \A r \in {"cpu", "memory"} :
              Used(placed \cup {p}, r) = Used(placed, r) + Demand[p][r]
<1>1. Cardinality(placed \cup {p}) = Cardinality(placed) + 1
  BY FS_AddElement
<1>2. ASSUME NEW r \in {"cpu", "memory"}
      PROVE  Used(placed \cup {p}, r) = Used(placed, r) + Demand[p][r]
  <2>1. \A q \in placed \cup {p} : Demand[q][r] \in Int
    BY DemandType
  <2>2. Total(Demand, r, placed \cup {p}) = Total(Demand, r, placed) + Demand[p][r]
    BY <2>1, TotalAdd
  <2> QED BY <2>2, UsedIs
<1> QED BY <1>1, <1>2

-----------------------------------------------------------------------------
(* Only a bind gives a pod its node.                                       *)

\* The pod stays where it is, and if it is nowhere it does not end.
StaysPut(p) ==
  /\ pods'[p].node = pods[p].node
  /\ pods'[p].exists /\ pods'[p].node = None /\ pods'[p].finished
       => pods[p].exists /\ pods[p].finished

Wins(w) == Bind(w) /\ StillUnbound(w)

LEMMA NodeMoves ==
  ASSUME Inv, Next, NEW p \in Pod
  PROVE  \/ StaysPut(p)
         \/ \E w \in Worker : Wins(w) /\ attempt[w].pod = p
<1>1. DOMAIN pods = Pod /\ IsPod(pods[p]) /\ \A q \in Pod : IsPod(pods[q])
  BY DEF Inv, PodsOK
<1>2. ASSUME UNCHANGED pods PROVE StaysPut(p)
  BY <1>2 DEF StaysPut
<1>3. ASSUME NEW q \in Pod, CreatePod(q) \/ DeletePod(q) \/ Finish(q)
      PROVE  StaysPut(p)
  <2>1. CASE CreatePod(q)
    BY <1>1, <2>1 DEF CreatePod, Absent, New, StaysPut
  <2>2. CASE DeletePod(q)
    BY <1>1, <2>2 DEF DeletePod, Gone, StaysPut
  <2>3. CASE Finish(q)
    <3> DEFINE d == [pods[q] EXCEPT !.finished = TRUE]
    <3>1. pods' = [pods EXCEPT ![q] = d] /\ pods[q].node # None
      BY <2>3 DEF Finish
    <3>2. d.node = pods[q].node
      BY <1>1, FinishedOK, Zenon
    <3> HIDE DEF d
    <3> QED BY <1>1, <3>1, <3>2 DEF StaysPut
  <2> QED BY <1>3, <2>1, <2>2, <2>3
<1>4. ASSUME NEW w \in Worker, Bind(w)
      PROVE  StaysPut(p) \/ (Wins(w) /\ attempt[w].pod = p)
  <2>1. CASE ~StillUnbound(w)
    <3>1. UNCHANGED pods
      BY <1>4, <2>1 DEF Bind
    <3> QED BY <1>2, <3>1
  <2>2. CASE StillUnbound(w) /\ attempt[w].pod # p
    <3> DEFINE d == [pods[attempt[w].pod] EXCEPT !.node = attempt[w].node]
    <3>1. pods' = [pods EXCEPT ![attempt[w].pod] = d]
      BY <1>4, <2>2 DEF Bind
    <3> HIDE DEF d
    <3> QED BY <1>1, <2>2, <3>1 DEF StaysPut
  <2> QED BY <1>4, <2>1, <2>2 DEF Wins
<1>5. ASSUME NEW w \in Worker, Pull(w)
      PROVE  StaysPut(p)
  <2> DEFINE d == [pods[p] EXCEPT !.conditions = <<>>]
  <2>1. attempt[w].pod \in Pod
    BY <1>5 DEF Inv, AttemptsOK, IsAttempt, Pull, At
  <2>2. pods'[p] = pods[p] \/ pods'[p] = d
    BY <1>1, <1>5 DEF Pull
  <2>3. d.node = pods[p].node /\ d.exists = pods[p].exists
        /\ d.finished = pods[p].finished
    BY <1>1 DEF IsPod
  <2> HIDE DEF d
  <2> QED BY <2>2, <2>3 DEF StaysPut
<1>6. ASSUME NEW w \in Worker, Push(w)
      PROVE  StaysPut(p)
  <2> DEFINE d == Reported(pods[p], attempt[w].says)
  <2>1. pods'[p] = pods[p] \/ pods'[p] = d
    BY <1>1, <1>6 DEF Push
  <2>2. d.node = pods[p].node /\ d.exists = pods[p].exists
        /\ d.finished = pods[p].finished
    BY DEF Reported
  <2> HIDE DEF d
  <2> QED BY <2>1, <2>2 DEF StaysPut
<1>7. CASE \/ \E q \in Pod : OnCreated(q)
           \/ \E n \in NodeName : EnsureNode(n) \/ ChangeNode(n) \/ DeleteNode(n)
           \/ \E t \in Tick : Run(t)
           \/ \E c \in Client : PostBinding(c)
           \/ \E w \in Worker : ReadNodes(w) \/ ReadPods(w) \/ Decide(w)
           \/ Restart
  <2>1. UNCHANGED pods
    BY <1>7 DEF OnCreated, EnsureNode, ChangeNode, DeleteNode, Run, StartTick,
                NextPending, PostBinding, ReadNodes, ReadPods, Decide, Restart
  <2> QED BY <1>2, <2>1
<1> QED BY <1>3, <1>4, <1>5, <1>6, <1>7 DEF Next, Schedule

\* What the winning step writes.
LEMMA WinnerWrites ==
  ASSUME Inv, NEW w \in Worker, Wins(w)
  PROVE  /\ attempt[w].pod \in Pod /\ attempt[w].node \in NodeName
         /\ pods[attempt[w].pod].exists /\ pods[attempt[w].pod].node = None
         /\ pods'[attempt[w].pod].node = attempt[w].node
         /\ pods'[attempt[w].pod].finished = pods[attempt[w].pod].finished
         /\ \A q \in Pod : q # attempt[w].pod => pods'[q] = pods[q]
         /\ nodes' = nodes /\ crossed' = (crossed \/ OutOfDate(w))
         /\ attempt' = [attempt EXCEPT ![w] = Report(attempt[w], "True")]
<1> DEFINE p == attempt[w].pod
           n == attempt[w].node
           d == [pods[p] EXCEPT !.node = n]
<1>1. p \in Pod /\ n \in NodeName
  BY DEF Inv, AttemptsOK, IsAttempt, Wins, Bind, At
<1>2. pods' = [pods EXCEPT ![p] = d] /\ nodes' = nodes
      /\ crossed' = (crossed \/ OutOfDate(w))
      /\ attempt' = [attempt EXCEPT ![w] = Report(attempt[w], "True")]
  BY DEF Wins, Bind, Become
<1>3. pods[p].exists /\ pods[p].node = None
  BY DEF Wins, StillUnbound, Unbound
<1>4. d.node = n /\ d.finished = pods[p].finished
  <2>1. IsPod(pods[p])
    BY <1>1 DEF Inv, PodsOK
  <2> QED BY <2>1 DEF IsPod
<1> HIDE DEF d, p, n
<1>5. DOMAIN pods = Pod
  BY DEF Inv, PodsOK
<1>6. pods'[p] = d /\ \A q \in Pod : q # p => pods'[q] = pods[q]
  BY <1>1, <1>2, <1>5
<1> QED BY <1>1, <1>2, <1>3, <1>4, <1>6 DEF p, n

\* Once set, the node of a pod stays: no reschedule, no second bind and no
\* deletion replaces it (the filter of bindPod's findOneAndUpdate).
THEOREM NodeStays == Spec => BoundOnce
<1> DEFINE Keeps == \A p \in Pod : pods[p].node # None => pods'[p].node = pods[p].node
<1>1. Inv /\ [Next]_vars => [Keeps]_vars
  <2> SUFFICES ASSUME Inv, Next, NEW p \in Pod, pods[p].node # None
               PROVE  pods'[p].node = pods[p].node
    OBVIOUS
  <2>1. ASSUME NEW w \in Worker, Wins(w) PROVE attempt[w].pod # p
    BY <2>1, WinnerWrites
  <2> QED BY <2>1, NodeMoves DEF StaysPut
<1> QED BY <1>1, Reports, PTL DEF Spec, BoundOnce

-----------------------------------------------------------------------------
(* Room.                                                                   *)

\* Which pods sit on a node, as far as a bind must know; and what a scheduling
\* has chosen fits what it has read.
FreshOK ==
  \A p \in Pod : pods[p].exists /\ pods[p].node = None => ~pods[p].finished
FewOK == IsFiniteSet({p \in Pod : pods[p].node # None})
Fits(a) == a.node \in Fit(a.pod, a.nodes, a.placed)
ChoicesOK ==
  \A w \in Worker : w \notin Client /\ attempt[w].step = "bind" => Fits(attempt[w])

RoomInv == FreshOK /\ FewOK /\ ChoicesOK

LEMMA PodsLeaveRoom ==
  ASSUME Inv, RoomInv, [Next]_vars
  PROVE  FreshOK' /\ FewOK'
<1>1. CASE UNCHANGED vars
  BY <1>1 DEF vars, RoomInv, FreshOK, FewOK
<1>2. CASE Next /\ \E w \in Worker : Wins(w)
  <2>1. PICK w \in Worker : Wins(w)
    BY <1>2
  <2>2. PICK p : p = attempt[w].pod
    OBVIOUS
  <2>3. /\ p \in Pod /\ pods'[p].node \in NodeName
        /\ \A q \in Pod : q # p => pods'[q] = pods[q]
    BY <2>1, <2>2, WinnerWrites
  <2>4. FreshOK'
    BY <2>3, WorkersDiffer DEF RoomInv, FreshOK
  <2>5. PICK S : S = {q \in Pod : pods[q].node # None}
    OBVIOUS
  <2>6. {q \in Pod : pods'[q].node # None} = S \cup {p}
    BY <2>3, <2>5, WorkersDiffer
  <2>7. IsFiniteSet(S \cup {p})
    BY <2>5, FS_AddElement DEF RoomInv, FewOK
  <2> QED BY <2>4, <2>6, <2>7 DEF FewOK
<1>3. CASE Next /\ ~ \E w \in Worker : Wins(w)
  <2>1. \A p \in Pod : StaysPut(p)
    BY <1>3, NodeMoves
  <2>2. FreshOK'
    BY <2>1 DEF RoomInv, FreshOK, StaysPut
  <2>3. {q \in Pod : pods'[q].node # None} = {q \in Pod : pods[q].node # None}
    BY <2>1 DEF StaysPut
  <2> QED BY <2>2, <2>3 DEF RoomInv, FewOK
<1> QED BY <1>1, <1>2, <1>3

LEMMA ChoiceMoves ==
  ASSUME Inv, RoomInv, NEW w \in Worker, NEW a,
         attempt' = [attempt EXCEPT ![w] = a],
         a.step = "bind" => w \in Client \/ Fits(a)
  PROVE  ChoicesOK'
<1>1. DOMAIN attempt = Worker
  BY DEF Inv, AttemptsOK
<1>2. \A v \in Worker : attempt'[v] = IF v = w THEN a ELSE attempt[v]
  BY <1>1
<1> QED BY <1>2 DEF RoomInv, ChoicesOK

LEMMA OtherAttempts ==
  /\ Idle.step # "bind"
  /\ \A q : Between(q).step # "bind"
  /\ \A p, q : Reading(p, q).step # "bind"
  /\ \A a, s : Report(a, s).step # "bind"
  /\ \A a, n : LET c == Chosen(a, n)
               IN c.node = n /\ c.pod = a.pod /\ c.nodes = a.nodes
                  /\ c.placed = a.placed
BY DEF Idle, Between, Reading, Report, Chosen, Blank

LEMMA ChoicesFit ==
  ASSUME Inv, RoomInv, [Next]_vars
  PROVE  ChoicesOK'
<1>1. CASE UNCHANGED attempt
  BY <1>1 DEF RoomInv, ChoicesOK
<1>2. ASSUME NEW w \in Worker, NEW a, Become(w, a),
             a.step = "bind" => w \in Client \/ Fits(a)
      PROVE  ChoicesOK'
  BY <1>2, ChoiceMoves DEF Become
<1>3. ASSUME NEW w \in Worker, Done(w) PROVE ChoicesOK'
  <2>1. \E a : Become(w, a) /\ a.step # "bind"
    BY <1>3, OtherAttempts DEF Done
  <2> QED BY <1>2, <2>1
<1>4. ASSUME NEW p \in Pod, OnCreated(p) PROVE ChoicesOK'
  <2>1. p \in Worker
    BY DEF Worker
  <2>2. UNCHANGED attempt \/ Become(p, Reading(p, {}))
    BY <1>4 DEF OnCreated
  <2> QED BY <1>1, <1>2, <2>1, <2>2, OtherAttempts
<1>5. ASSUME NEW t \in Tick, Run(t) PROVE ChoicesOK'
  <2>1. t \in Worker
    BY DEF Worker
  <2>2. \E a : Become(t, a) /\ a.step # "bind"
    BY <1>5, OtherAttempts DEF Run, StartTick, NextPending
  <2> QED BY <1>2, <2>1, <2>2
<1>6. ASSUME NEW c \in Client, PostBinding(c) PROVE ChoicesOK'
  <2>1. c \in Worker
    BY DEF Worker
  <2>2. \E a : Become(c, a)
    BY <1>6 DEF PostBinding
  <2> QED BY <1>2, <2>1, <2>2
<1>7. ASSUME NEW w \in Worker, ReadNodes(w) \/ ReadPods(w) PROVE ChoicesOK'
  <2>1. attempt[w].step = "read" /\ IsAttempt(attempt[w])
    BY <1>7 DEF Inv, AttemptsOK, ReadNodes, ReadPods, At
  <2>2. \E a : attempt' = [attempt EXCEPT ![w] = a] /\ a.step # "bind"
    <3>1. CASE ReadNodes(w)
      <4> DEFINE a == [attempt[w] EXCEPT !.nodes = nodes]
      <4>1. attempt' = [attempt EXCEPT ![w] = a]
        BY <3>1 DEF ReadNodes
      <4>2. a.step # "bind"
        BY <2>1 DEF IsAttempt
      <4> HIDE DEF a
      <4> QED BY <4>1, <4>2
    <3>2. CASE ReadPods(w)
      <4> DEFINE a == [attempt[w] EXCEPT !.placed = Placed]
      <4>1. attempt' = [attempt EXCEPT ![w] = a]
        BY <3>2 DEF ReadPods
      <4>2. a.step # "bind"
        BY <2>1 DEF IsAttempt
      <4> HIDE DEF a
      <4> QED BY <4>1, <4>2
    <3> QED BY <1>7, <3>1, <3>2
  <2> QED BY <2>2, ChoiceMoves
<1>8. ASSUME NEW w \in Worker, Decide(w) PROVE ChoicesOK'
  <2> DEFINE a == attempt[w]
             best == Best(a.pod, a.nodes, a.placed)
  <2>1. \/ Done(w) \/ Become(w, Report(a, "False"))
        \/ \E n \in best : Become(w, Chosen(a, n))
    BY <1>8 DEF Decide
  <2>2. ASSUME NEW n \in best PROVE Fits(Chosen(a, n))
    <3>1. n \in Fit(a.pod, a.nodes, a.placed)
      BY DEF Best
    <3> QED BY <3>1, OtherAttempts DEF Fits
  <2> HIDE DEF a, best
  <2> QED BY <1>2, <1>3, <2>1, <2>2, OtherAttempts
<1>9. ASSUME NEW w \in Worker, Bind(w) PROVE ChoicesOK'
  <2>1. Done(w) \/ Become(w, Report(attempt[w], "True"))
    BY <1>9 DEF Bind
  <2> QED BY <1>2, <1>3, <2>1, OtherAttempts
<1>10. ASSUME NEW w \in Worker, Pull(w) PROVE ChoicesOK'
  <2> DEFINE a == [attempt[w] EXCEPT !.step = "push"]
  <2>1. attempt' = [attempt EXCEPT ![w] = a]
    BY <1>10 DEF Pull, MoveTo
  <2>2. a.step # "bind"
    BY DEF Inv, AttemptsOK, IsAttempt
  <2> HIDE DEF a
  <2> QED BY <2>1, <2>2, ChoiceMoves
<1>11. ASSUME NEW w \in Worker, Push(w) PROVE ChoicesOK'
  BY <1>3, <1>11 DEF Push
<1>12. CASE Restart
  BY <1>12, OtherAttempts DEF Restart, ChoicesOK
<1>13. CASE \/ \E p \in Pod : CreatePod(p) \/ DeletePod(p) \/ Finish(p)
            \/ \E n \in NodeName : EnsureNode(n) \/ ChangeNode(n) \/ DeleteNode(n)
            \/ UNCHANGED vars
  <2>1. UNCHANGED attempt
    BY <1>13 DEF CreatePod, DeletePod, Finish, EnsureNode, ChangeNode, DeleteNode, vars
  <2> QED BY <1>1, <2>1
<1> QED
  BY <1>4, <1>5, <1>6, <1>7, <1>8, <1>9, <1>10, <1>11, <1>12, <1>13 DEF Next, Schedule

\* A bind made on a reading that still holds leaves the node within its limits.
LEMMA WinnerFits ==
  ASSUME Inv, RoomInv, NEW w \in Worker, Wins(w), ~OutOfDate(w),
         NEW n \in NodeName, n = attempt[w].node
  PROVE  n \in DOMAIN nodes' /\ ~Overfull(n)'
<1>1. PICK p : p = attempt[w].pod
  OBVIOUS
<1>2. /\ p \in Pod /\ pods[p].exists /\ pods[p].node = None
      /\ pods'[p].node = n /\ pods'[p].finished = pods[p].finished
      /\ \A q \in Pod : q # p => pods'[q] = pods[q]
      /\ nodes' = nodes
  BY <1>1, WinnerWrites
<1>3. ~pods[p].finished
  BY <1>2 DEF RoomInv, FreshOK
<1>4. PICK on : on = Placed[n]
  OBVIOUS
<1>5. on = {q \in Pod : pods[q].node = n /\ ~pods[q].finished}
  BY <1>2, <1>4 DEF Placed
<1>6. on \in SUBSET Pod /\ p \notin on /\ IsFiniteSet(on)
  <2>1. on \in SUBSET {q \in Pod : pods[q].node # None} /\ p \notin on
    BY <1>2, <1>5, WorkersDiffer
  <2>2. IsFiniteSet({q \in Pod : pods[q].node # None})
    BY DEF RoomInv, FewOK
  <2>3. IsFiniteSet(on)
    BY <2>1, <2>2, FS_Subset
  <2> QED BY <1>5, <2>1, <2>3
<1>7. Placed'[n] = on \cup {p}
  <2>1. Placed'[n] = {q \in Pod : pods'[q].node = n /\ ~pods'[q].finished}
    BY <1>2 DEF Placed
  <2> QED BY <1>2, <1>3, <1>5, <2>1
<1>8. n \in DOMAIN nodes /\ Feasible(p, nodes[n], on)
  <2>1. w \notin Client /\ attempt[w].nodes = nodes /\ attempt[w].placed = Placed
    BY DEF OutOfDate
  <2>2. Fits(attempt[w])
    BY <2>1 DEF RoomInv, ChoicesOK, Wins, Bind, At
  <2>3. n \in Fit(p, nodes, Placed)
    BY <1>1, <2>1, <2>2 DEF Fits
  <2> QED BY <1>4, <2>3 DEF Fit
<1>9. ~Exceeds(nodes[n], "pods", Cardinality(on) + 1)
      /\ \A r \in {"cpu", "memory"} :
           ~Exceeds(nodes[n], r, Used(on, r) + Demand[p][r])
  BY <1>8 DEF Feasible, RoomForOne
<1>10. /\ Cardinality(on \cup {p}) = Cardinality(on) + 1
       /\ \A r \in {"cpu", "memory"} :
            Used(on \cup {p}, r) = Used(on, r) + Demand[p][r]
  BY <1>2, <1>6, OneMore
<1>11. ~Overfull(n)'
  BY <1>2, <1>7, <1>9, <1>10 DEF Overfull
<1> QED BY <1>1, <1>2, <1>8, <1>11

\* However the schedulings, the loop and the clients interleave, a pod is put
\* on a node that has room for it, unless the bind rests on a reading that is
\* out of date or on a client's word (filterNodes and bindPod).
THEOREM RoomIsKept == Spec => FitsUnlessCrossed
<1> DEFINE A == \A p \in Pod, n \in NodeName :
                  (pods[p].node = None /\ pods'[p].node = n /\ ~crossed')
                    => n \in DOMAIN nodes' /\ ~Overfull(n)'
<1>1. Init => RoomInv
  <2> SUFFICES ASSUME Init PROVE RoomInv
    OBVIOUS
  <2>1. \A p \in Pod : pods[p].node = None /\ ~pods[p].finished
    BY DEF Init, New, Absent
  <2>2. FewOK
    <3>1. {p \in Pod : pods[p].node # None} = {}
      BY <2>1
    <3> QED BY <3>1, FS_EmptySet DEF FewOK
  <2>3. ChoicesOK
    BY OtherAttempts DEF Init, ChoicesOK
  <2> QED BY <2>1, <2>2, <2>3 DEF RoomInv, FreshOK
<1>2. Inv /\ RoomInv /\ [Next]_vars => RoomInv'
  BY PodsLeaveRoom, ChoicesFit DEF RoomInv
<1>3. Inv /\ RoomInv /\ [Next]_vars => [A]_vars
  <2> SUFFICES ASSUME Inv, RoomInv, Next, NEW p \in Pod, NEW n \in NodeName,
                      pods[p].node = None, pods'[p].node = n, ~crossed'
               PROVE  n \in DOMAIN nodes' /\ ~Overfull(n)'
    OBVIOUS
  <2>1. ~StaysPut(p)
    BY WorkersDiffer DEF StaysPut
  <2>2. PICK w \in Worker : Wins(w) /\ attempt[w].pod = p
    BY <2>1, NodeMoves
  <2>3. n = attempt[w].node /\ ~OutOfDate(w)
    BY <2>2, WinnerWrites
  <2> QED BY <2>2, <2>3, WinnerFits
<1> QED BY <1>1, <1>2, <1>3, Reports, PTL DEF Spec, FitsUnlessCrossed
=============================================================================
