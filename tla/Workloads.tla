----------------------------- MODULE Workloads ------------------------------
(***************************************************************************)
(* A Deployment, the ReplicationControllers it makes (one for each         *)
(* generation), their pods, a ReplicaSet beside them, and the namespace    *)
(* they all live in: src/objects/deployment.js, replicationController.js,  *)
(* replicaSet.js and namespace.js.                                         *)
(*                                                                         *)
(* A request is the set of calls it has under way: each call of the        *)
(* database is a task, and its answer may start others.  Creating an       *)
(* object is two tasks, the look for its name and the insertion, so that   *)
(* two creations of one name may both succeed; and a task names an object  *)
(* as the code does: by name, which finds the one stored first.            *)
(*                                                                         *)
(* Deployments may carry finalizers, and the controllers made of them copy *)
(* them; ReplicaSets, pods and namespaces are posted without.  A Service   *)
(* of the Deployment's own name is left out.                               *)
(***************************************************************************)
EXTENDS Integers, Sequences, FiniteSets

CONSTANTS Request,       \* requests of clients in progress
          Operation,     \* what each asks for
          Finalized,     \* whether clients post Deployments without finalizers,
                         \* with them, or both
          Replicas,      \* spec.replicas
          MaxUnavailable,\* of the strategy, in percent
          Strategy,      \* "RollingUpdate" or "Recreate"
          None,
          MaxRequests    \* bound: requests altogether

VARIABLES
  namespace,    \* whether the namespace is stored
  deployment,   \* the stored Deployment: uid, status and finalizers, or Gone
  controllers,  \* the stored ReplicationControllers, in the order of storing
  replicaSet,   \* the stored ReplicaSet, or Gone
  behind,       \* the Deployments and ReplicaSets stored after one of their name
  pods,         \* the stored pods
  tasks,        \* what each request has under way
  issued,       \* the uids of Deployments and of ReplicaSets used up
  doing,        \* history: the operation each request in progress is for
  asked,        \* history: how many requests there were
  deleted,      \* history: one of them was a deletion
  excuses       \* history: what there was that keeps a deletion from being whole

stored == <<namespace, deployment, controllers, replicaSet, behind, pods>>
history == <<doing, asked, deleted, excuses>>
vars == <<stored, tasks, issued, history>>

ASSUME BoundsAssumption ==
  /\ IsFiniteSet(Request) /\ {Replicas, MaxUnavailable, MaxRequests} \subseteq Nat
  /\ Finalized \subseteq BOOLEAN

-----------------------------------------------------------------------------
\* held: it has finalizers; marked: it has been asked to go.
Doc(uid, held) == [uid |-> uid, replicas |-> 0, held |-> held, marked |-> FALSE]
Gone == Doc(0, FALSE)

Creations == {"createDeployment", "updateDeployment", "patchDeployment", "createReplicaSet",
              "createNamespace"}
Deletions == {"deleteDeployment", "deleteController", "deleteReplicaSet", "deleteNamespace"}

\* Clients ask for these, and None is nothing else.
ASSUME OperationAssumption ==
  /\ \A r \in Request : Operation[r] \subseteq Creations \cup Deletions
  /\ None \notin Creations \cup Deletions /\ None \notin Int

\* made and id make the name of a pod: the generation of the controller that
\* made it and a number drawn (a pod by itself: 0), or, below 0, its ordinal
\* in the ReplicaSet.
Pod(id, made, owner) == [id |-> id, made |-> made, owner |-> owner]
SameName(p, q) == p.made = q.made /\ p.id = q.id
\* What a controller takes of the metadata of its Deployment.
Meta(doc) == [uid |-> doc.uid, held |-> doc.held, marked |-> doc.marked]
Controller(gen, meta) ==
  [gen |-> gen, uid |-> meta.uid, replicas |-> 0, held |-> meta.held, marked |-> meta.marked]

\* A controller somebody posted under a name of its own, which has no uid: it
\* was stored past the schema.  A pod by itself has no owner.
Lone == Controller(0, Doc(None, FALSE))
Bystander == Pod(0, 0, None)

Init ==
  /\ namespace = TRUE
  /\ deployment = Gone /\ replicaSet = Gone
  /\ behind = [deployment |-> <<>>, replicaSet |-> <<>>]
  /\ controllers = <<Lone>> /\ pods = {Bystander}
  /\ tasks = [r \in Request |-> {}]
  /\ issued = [deployment |-> 0, replicaSet |-> 0]
  /\ doing = [r \in Request |-> None] /\ asked = 0
  /\ deleted = FALSE /\ excuses = {}

Quiet == \A r \in Request : tasks[r] = {}

-----------------------------------------------------------------------------
(* Tasks.                                                                  *)

Task(op, of) == [op |-> op, of |-> of]

\* Request r does task t, which starts the tasks in next.
Do(r, t, next) == tasks' = [tasks EXCEPT ![r] = (@ \ {t}) \cup next]

\* ownedControllers: by name, and the generation.  A stored controller is
\* taken out or counted on by its name, the one stored first.
OfDeployment == {i \in 1..Len(controllers) : controllers[i].gen > 0}
Named(gen) == {i \in 1..Len(controllers) : controllers[i].gen = gen}
FirstNamed(gen) == CHOOSE i \in Named(gen) : \A j \in Named(gen) : i <= j

CutAt(s, i) == SubSeq(s, 1, i - 1) \o SubSeq(s, i + 1, Len(s))
Without(gen) ==
  IF Named(gen) = {} THEN controllers ELSE CutAt(controllers, FirstNamed(gen))

\* finalizeIfReleased: what was to go when its finalizers do (at once here).
IsReleased(doc) == doc.marked /\ ~doc.held

\* The other three counters of a controller follow this one.
Count(gen, n) ==
  IF Named(gen) = {} THEN controllers
  ELSE IF IsReleased(controllers[FirstNamed(gen)]) THEN Without(gen)
  ELSE [controllers EXCEPT ![FirstNamed(gen)].replicas = @ + n]

\* What a name finds after the one stored first has gone.
Second(kind) == IF behind[kind] = <<>> THEN Gone ELSE Head(behind[kind])
FirstGoes(kind) ==
  behind' = [behind EXCEPT ![kind] = IF @ = <<>> THEN <<>> ELSE Tail(@)]

\* K8Object.delete, by what was read of the object: with finalizers it is only
\* marked, and once it is marked nothing happens.
Act(doc) == IF ~doc.held THEN "remove" ELSE IF doc.marked THEN "leave" ELSE "mark"
Target(doc) == [uid |-> doc.uid, act |-> Act(doc)]

\* Fault: the owner is asked about although there is none to ask about.
OwnedByAnyone(c) == {p \in pods : p.owner = c.uid \/ (p.made = c.gen /\ c.gen > 0)}

\* ownedPods, by owner if the controller has a uid, and by the name of the pod.
OwnedPods(c) ==
  {p \in pods : \/ c.uid # None /\ p.owner = c.uid
                \/ c.gen > 0 /\ p.made = c.gen}

\* ReplicationController.delete: itself and its pods at the same time.  Two
\* controllers of one name are deleted by two calls for that name: nth tells
\* the calls of one deletion apart, by tells the deletions apart.
Call(op, of, act, by, nth) == [op |-> op, of |-> of, act |-> act, by |-> by, nth |-> nth]

\* Fault: one call for each name.
DeleteNameOnce(c, by, nth) ==
  {Call("removeController", c.gen, Act(c), by, 0), Call("listPods", c, "remove", by, nth)}

DeleteController(c, by, nth) ==
  {Call("removeController", c.gen, Act(c), by, nth), Call("listPods", c, "remove", by, nth)}

\* Pod.delete goes by the name, and takes one of that name.
WithoutPod(p) ==
  LET ps == {q \in pods : SameName(p, q)} IN
  IF ps = {} THEN {pods} ELSE {pods \ {q} : q \in ps}

-----------------------------------------------------------------------------
(* Deployments.                                                            *)

FreshUid == issued.deployment + 1
\* A number that no pod of the generation has, nor one being deleted.
FreshPod(gen, owner) ==
  LET deleting == {t.of.pod : t \in {u \in UNION {tasks[r] : r \in Request} :
                                      u.op = "deletePod"}}
      taken == {p.id : p \in {q \in pods \cup deleting : q.made = gen}} IN
  Pod(CHOOSE n \in 1..Cardinality(taken) + 1 : n \notin taken, gen, owner)

\* Deployment.create.  A paused Deployment gets no controller.
CreateDeployment(r, t) ==
  /\ t.op = "createDeployment"
  /\ Do(r, t, IF deployment # Gone THEN {} ELSE {Task("insertDeployment", None)})
  /\ UNCHANGED <<stored, issued>>

InsertDeployment(r, t) ==
  /\ t.op = "insertDeployment"
  /\ \E held \in Finalized : LET doc == Doc(FreshUid, held) IN
       /\ \/ deployment = Gone /\ deployment' = doc /\ UNCHANGED behind
          \/ deployment # Gone /\ behind' = [behind EXCEPT !.deployment = Append(@, doc)]
             /\ UNCHANGED deployment
       /\ Do(r, t, {Task("countControllers", Meta(doc))}) \/ Do(r, t, {})
  /\ issued' = [issued EXCEPT !.deployment = FreshUid]
  /\ UNCHANGED <<namespace, controllers, replicaSet, pods>>

\* A patch of the Deployment by its name, which makes doc of it.
Patched(doc) ==
  \/ deployment = Gone /\ UNCHANGED <<deployment, behind>>
  \/ deployment # Gone /\ IsReleased(doc)
     /\ deployment' = Second("deployment") /\ FirstGoes("deployment")
  \/ deployment # Gone /\ ~IsReleased(doc) /\ deployment' = doc /\ UNCHANGED behind

\* Deployment.update, which patches and counts at once; neither call touches
\* what the other reads.  The metadata is replaced whole: the body has the uid
\* that is stored, or none and gets another; its finalizers and its mark are
\* those that are stored, and it has no status.
UpdateDeployment(r, t) ==
  /\ t.op = "updateDeployment"
  /\ \/ deployment = Gone /\ Do(r, t, {}) /\ UNCHANGED <<deployment, behind, issued>>
     \/ /\ deployment # Gone
        /\ \E uid \in {deployment.uid, FreshUid} :
             LET doc == [deployment EXCEPT !.uid = uid] IN
             /\ Patched(doc)
             /\ issued' = [issued EXCEPT !.deployment = IF uid = FreshUid THEN uid ELSE @]
             /\ Do(r, t, {Task("countControllers", Meta(doc))}) \/ Do(r, t, {})
  /\ UNCHANGED <<namespace, controllers, replicaSet, pods>>

\* PATCH is the base class's, and makes no generation; it may put finalizers
\* on, or take them off.
PatchDeployment(r, t) ==
  /\ t.op = "patchDeployment"
  /\ \E held \in Finalized : Patched([deployment EXCEPT !.held = held])
  /\ Do(r, t, {}) /\ UNCHANGED <<namespace, controllers, replicaSet, pods, issued>>

\* The generation is how many controllers are found, plus one.
CountControllers(r, t) ==
  /\ t.op = "countControllers"
  /\ Do(r, t, {Task("createController", Controller(Cardinality(OfDeployment) + 1, t.of))})
  /\ UNCHANGED <<stored, issued>>

\* What a rollout has left: replicas, and of the batch in progress the pods to
\* create and the replicas to count.
Rollout(gen, uid, left) ==
  [op |-> "rollout", gen |-> gen, owner |-> uid, left |-> left,
   batch |-> 0, pods |-> 0, counts |-> 0]

\* A controller has the metadata of its Deployment, the uid and the finalizers
\* included.  Nothing is rolled out of no replicas.
CheckController(r, t) ==
  /\ t.op = "createController"
  /\ Do(r, t, IF Named(t.of.gen) # {} THEN {} ELSE {Task("insertController", t.of)})
  /\ UNCHANGED <<stored, issued>>

InsertController(r, t) ==
  /\ t.op = "insertController"
  /\ controllers' = Append(controllers, t.of)
  /\ Do(r, t, IF Replicas = 0 THEN {} ELSE {Rollout(t.of.gen, t.of.uid, Replicas)})
  /\ UNCHANGED <<namespace, deployment, replicaSet, behind, pods, issued>>

Ceil(n, d) == (n + d - 1) \div d
Larger(a, b) == IF a >= b THEN a ELSE b
Smaller(a, b) == IF a <= b THEN a ELSE b

BatchSize == IF Strategy = "Recreate" THEN Replicas
             ELSE Larger(1, Ceil(Replicas * MaxUnavailable, 100))

\* The previous generation is to be retired here, batch by batch; but the
\* controllers were asked for with the sort where the fields to return go,
\* came back without name and uid, and no pod is found for one of those.
StartBatch(r, t) ==
  /\ t.op = "rollout" /\ t.batch = 0
  /\ LET b == Smaller(BatchSize, t.left) IN
     Do(r, t, {[t EXCEPT !.batch = b, !.pods = b, !.counts = b]})
  /\ UNCHANGED <<stored, issued>>

\* Fault: the same promise in every slot of the batch.
OnePodForAll(r, t) ==
  /\ t.op = "rollout" /\ t.pods > 0
  /\ pods' = pods \cup {FreshPod(t.gen, t.owner)}
  /\ Do(r, t, {[t EXCEPT !.pods = 0]})
  /\ UNCHANGED <<namespace, deployment, controllers, replicaSet, behind, issued>>

\* createPods: a replica's pod is created and the replica counted at once.
CreatePod(r, t) ==
  /\ t.op = "rollout" /\ t.pods > 0
  /\ pods' = pods \cup {FreshPod(t.gen, t.owner)}
  /\ Do(r, t, {[t EXCEPT !.pods = @ - 1]})
  /\ UNCHANGED <<namespace, deployment, controllers, replicaSet, behind, issued>>

CountReplica(r, t) ==
  /\ t.op = "rollout" /\ t.counts > 0
  /\ controllers' = Count(t.gen, 1)
  /\ Do(r, t, {[t EXCEPT !.counts = @ - 1]})
  /\ UNCHANGED <<namespace, deployment, replicaSet, behind, pods, issued>>

\* With the batch there, the Deployment's own status is patched, by its name:
\* Recreate sets it, a rolling update adds to it.
Report(r, t) ==
  /\ t.op = "rollout" /\ t.batch > 0 /\ t.pods = 0 /\ t.counts = 0
  /\ Patched([deployment EXCEPT !.replicas =
                IF Strategy = "Recreate" THEN t.batch ELSE @ + t.batch])
  /\ Do(r, t, IF t.left = t.batch THEN {}
              ELSE {[t EXCEPT !.left = @ - t.batch, !.batch = 0]})
  /\ UNCHANGED <<namespace, controllers, replicaSet, pods, issued>>

-----------------------------------------------------------------------------
(* Deletions.                                                              *)

\* Deployment.delete: its controllers are found, then all goes at once.
DeleteDeployment(r, t) ==
  /\ t.op = "deleteDeployment"
  /\ Do(r, t, {Task("removeDeployment", t.of)}
         \cup UNION {DeleteController(controllers[i], "deployment", i) : i \in OfDeployment})
  /\ UNCHANGED <<stored, issued>>

RemoveDeployment(r, t) ==
  /\ t.op = "removeDeployment"
  /\ \/ t.of.act = "remove" /\ deployment' = Second("deployment") /\ FirstGoes("deployment")
     \/ t.of.act # "remove" /\ UNCHANGED behind
        /\ deployment' = IF deployment = Gone \/ t.of.act = "leave" THEN deployment
                         ELSE [deployment EXCEPT !.marked = TRUE]
  /\ Do(r, t, {}) /\ UNCHANGED <<namespace, controllers, replicaSet, pods, issued>>

\* DELETE of a controller, whichever.
DeleteOneController(r, t) ==
  /\ t.op = "deleteController"
  /\ \/ \E i \in 1..Len(controllers) : Do(r, t, DeleteController(controllers[i], "client", i))
     \/ controllers = <<>> /\ Do(r, t, {})
  /\ UNCHANGED <<stored, issued>>

RemoveController(r, t) ==
  /\ t.op = "removeController"
  /\ controllers' =
       CASE t.act = "remove" -> Without(t.of)
         [] t.act = "mark" /\ Named(t.of) # {} ->
              [controllers EXCEPT ![FirstNamed(t.of)].marked = TRUE]
         [] OTHER -> controllers
  /\ Do(r, t, {}) /\ UNCHANGED <<namespace, deployment, replicaSet, behind, pods, issued>>

\* deletePods: each pod it finds, and when that is gone, whether or not this
\* is the delete that removed it, it is counted off (here in one step: the
\* counters are read by nobody else).
ListPods(r, t) ==
  /\ t.op = "listPods"
  /\ Do(r, t, {Task("deletePod", [pod |-> p, gen |-> t.of.gen]) : p \in OwnedPods(t.of)})
  /\ UNCHANGED <<stored, issued>>

DeletePod(r, t) ==
  /\ t.op = "deletePod"
  /\ pods' \in WithoutPod(t.of.pod) /\ controllers' = Count(t.of.gen, -1)
  /\ Do(r, t, {})
  /\ UNCHANGED <<namespace, deployment, replicaSet, behind, issued>>

-----------------------------------------------------------------------------
(* ReplicaSets.                                                            *)

\* ReplicaSet.create answers while the pods are created in the background,
\* and reports them as if they were there.
CreateReplicaSet(r, t) ==
  /\ t.op = "createReplicaSet"
  /\ Do(r, t, IF replicaSet # Gone THEN {} ELSE {Task("insertReplicaSet", None)})
  /\ UNCHANGED <<stored, issued>>

InsertReplicaSet(r, t) ==
  /\ t.op = "insertReplicaSet"
  /\ LET uid == issued.replicaSet - 1 IN
     /\ \/ replicaSet = Gone /\ replicaSet' = Doc(uid, FALSE) /\ UNCHANGED behind
        \/ replicaSet # Gone /\ UNCHANGED replicaSet
           /\ behind' = [behind EXCEPT !.replicaSet = Append(@, Doc(uid, FALSE))]
     /\ issued' = [issued EXCEPT !.replicaSet = uid]
     /\ Do(r, t, {Task("reportReplicas", None)}
            \cup {Task("spawn", Pod(0, -i, uid)) : i \in 1..Replicas})
  /\ UNCHANGED <<namespace, deployment, controllers, pods>>

ReportReplicas(r, t) ==
  /\ t.op = "reportReplicas" /\ Do(r, t, {})
  /\ replicaSet' = IF replicaSet = Gone THEN Gone
                   ELSE [replicaSet EXCEPT !.replicas = Replicas]
  /\ UNCHANGED <<namespace, deployment, controllers, behind, pods, issued>>

\* These pods have their names from their ordinals: one that is there already
\* stays, and nobody hears of it.
Spawn(r, t) ==
  /\ t.op = "spawn"
  /\ Do(r, t, IF \E p \in pods : SameName(p, t.of) THEN {} ELSE {Task("insertPod", t.of)})
  /\ UNCHANGED <<stored, issued>>

InsertPod(r, t) ==
  /\ t.op = "insertPod" /\ Do(r, t, {})
  /\ pods' = pods \cup {t.of}
  /\ UNCHANGED <<namespace, deployment, controllers, replicaSet, behind, issued>>

\* ReplicaSet.delete: the pods it owns, and itself when they are gone.
DeleteReplicaSet(r, t) ==
  /\ t.op = "deleteReplicaSet"
  /\ Do(r, t, {Task("emptyReplicaSet", {p \in pods : p.owner = t.of})})
  /\ UNCHANGED <<stored, issued>>

EmptyReplicaSet(r, t) ==
  /\ t.op = "emptyReplicaSet"
  /\ IF t.of = {} THEN /\ replicaSet' = Second("replicaSet") /\ FirstGoes("replicaSet")
                       /\ Do(r, t, {}) /\ UNCHANGED pods
     ELSE \E p \in t.of : /\ pods' \in WithoutPod(p)
                          /\ Do(r, t, {[t EXCEPT !.of = @ \ {p}]})
                          /\ UNCHANGED <<replicaSet, behind>>
  /\ UNCHANGED <<namespace, deployment, controllers, issued>>

-----------------------------------------------------------------------------
(* The namespace.                                                          *)

\* Namespace.create.  The accounts that every namespace is given are left out.
CreateNamespace(r, t) ==
  /\ t.op = "createNamespace"
  /\ namespace' = TRUE /\ Do(r, t, {})
  /\ UNCHANGED <<deployment, controllers, replicaSet, behind, pods, issued>>

\* All that a find returns of a kind.
All(first, kind) ==
  IF first = Gone THEN {} ELSE {first} \cup {behind[kind][i] : i \in DOMAIN behind[kind]}

KnownDeletionOf(kind) ==
  CASE kind = "Deployment" ->
         {Task("deleteDeployment", Target(d)) : d \in All(deployment, "deployment")}
    [] kind = "ReplicationController" ->
         UNION {DeleteController(controllers[i], "namespace", i) : i \in 1..Len(controllers)}
    [] OTHER -> {Task("removePod", p) : p \in pods}

\* What Namespace.delete does about what it finds of a kind.  A ReplicaSet is
\* registered under another spelling than its kind, and is removed without
\* its own delete.
DeletionOf(kind) ==
  IF kind = "ReplicaSet"
  THEN {Task("removeReplicaSet", d.uid) : d \in All(replicaSet, "replicaSet")}
  ELSE KnownDeletionOf(kind)

Kinds == {"Deployment", "ReplicationController", "ReplicaSet", "Pod"}

\* Every kind is looked through, in any order, before anything is deleted.
DeleteNamespace(r, t) ==
  /\ t.op = "deleteNamespace"
  /\ Do(r, t, {[op |-> "list", left |-> Kinds, found |-> {Task("removeNamespace", None)}]})
  /\ UNCHANGED <<stored, issued>>

ListKind(r, t) ==
  /\ t.op = "list"
  /\ IF t.left = {} THEN Do(r, t, t.found)
     ELSE \E k \in t.left :
            Do(r, t, {[t EXCEPT !.left = @ \ {k}, !.found = @ \cup DeletionOf(k)]})
  /\ UNCHANGED <<stored, issued>>

RemovePod(r, t) ==
  /\ t.op = "removePod" /\ pods' \in WithoutPod(t.of)
  /\ Do(r, t, {})
  /\ UNCHANGED <<namespace, deployment, controllers, replicaSet, behind, issued>>

RemoveNamespace(r, t) ==
  /\ t.op = "removeNamespace" /\ namespace' = FALSE
  /\ Do(r, t, {}) /\ UNCHANGED <<deployment, controllers, replicaSet, behind, pods, issued>>

\* By the uid.
RemoveReplicaSet(r, t) ==
  /\ t.op = "removeReplicaSet"
  /\ \/ replicaSet.uid = t.of /\ replicaSet' = Second("replicaSet") /\ FirstGoes("replicaSet")
     \/ replicaSet.uid # t.of /\ UNCHANGED replicaSet
        /\ LET is == {i \in DOMAIN behind.replicaSet : behind.replicaSet[i].uid = t.of} IN
           \/ is = {} /\ UNCHANGED behind
           \/ \E i \in is : behind' = [behind EXCEPT !.replicaSet = CutAt(@, i)]
  /\ Do(r, t, {}) /\ UNCHANGED <<namespace, deployment, controllers, pods, issued>>

-----------------------------------------------------------------------------
\* namespaceCheck: what is addressed inside a namespace that is not there is
\* answered with a 404; so is a DELETE or a PUT of an object that is not.
Admitted(op) ==
  /\ op # "createNamespace" => namespace
  /\ op \in {"updateDeployment", "patchDeployment", "deleteDeployment"} => deployment # Gone
  /\ op = "deleteReplicaSet" => replicaSet # Gone
  /\ op = "deleteController" => controllers # <<>>

\* What the handler finds of the object before it calls it.
Found(op) == CASE op = "deleteReplicaSet" -> replicaSet.uid
               [] op = "deleteDeployment" -> Target(deployment)
               [] OTHER -> None

\* Creations and updates have met deletions, whole or in part.
Crosses(op) ==
  \E q \in Request : doing[q] # None /\ (doing[q] \in Deletions) # (op \in Deletions)

Ask(r, op) ==
  /\ tasks[r] = {} /\ asked < MaxRequests /\ Admitted(op)
  /\ tasks' = [tasks EXCEPT ![r] = {Task(op, Found(op))}]
  /\ doing' = [doing EXCEPT ![r] = op]
  /\ asked' = asked + 1 /\ deleted' = (deleted \/ op \in Deletions)
  /\ excuses' = IF Crosses(op) THEN excuses \cup {"crossed"} ELSE excuses
  /\ UNCHANGED <<stored, issued>>

Step(r, t) ==
  \/ CreateDeployment(r, t) \/ InsertDeployment(r, t) \/ UpdateDeployment(r, t)
  \/ PatchDeployment(r, t) \/ CountControllers(r, t)
  \/ CheckController(r, t) \/ InsertController(r, t)
  \/ StartBatch(r, t) \/ CreatePod(r, t) \/ CountReplica(r, t) \/ Report(r, t)
  \/ DeleteDeployment(r, t) \/ RemoveDeployment(r, t) \/ DeleteOneController(r, t)
  \/ RemoveController(r, t) \/ ListPods(r, t) \/ DeletePod(r, t)
  \/ CreateReplicaSet(r, t) \/ InsertReplicaSet(r, t) \/ ReportReplicas(r, t)
  \/ Spawn(r, t) \/ InsertPod(r, t)
  \/ DeleteReplicaSet(r, t) \/ EmptyReplicaSet(r, t)
  \/ CreateNamespace(r, t) \/ DeleteNamespace(r, t)
  \/ ListKind(r, t) \/ RemovePod(r, t) \/ RemoveNamespace(r, t) \/ RemoveReplicaSet(r, t)

\* Two objects have one name; something that has finalizers was told to go.
Twice == \E kind \in {"deployment", "replicaSet"} : behind[kind] # <<>>
Marked == deployment.marked \/ \E i \in 1..Len(controllers) : controllers[i].marked

Run(r) ==
  /\ \E t \in tasks[r] : Step(r, t)
  /\ doing' = [doing EXCEPT ![r] = IF tasks'[r] = {} THEN None ELSE @]
  /\ excuses' = excuses \cup (IF Twice' THEN {"twice"} ELSE {})
                        \cup (IF Marked' THEN {"held"} ELSE {})
  /\ UNCHANGED <<asked, deleted>>

Next == \E r \in Request : Run(r) \/ \E op \in Operation[r] : Ask(r, op)

Spec == Init /\ [][Next]_vars
=============================================================================
