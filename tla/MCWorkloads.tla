----------------------------- MODULE MCWorkloads ----------------------------
(***************************************************************************)
(* Any two requests at a time, on a namespace as it starts or on one where *)
(* a Deployment has been created already; and any one request where two    *)
(* controllers have the same name.                                         *)
(***************************************************************************)
EXTENDS WorkloadProperties, TLC

\* Requests differ in nothing but what is asked of them, and that is anything.
MCOperation == [r \in Request |-> Creations \cup Deletions]
Symmetry == Permutations(Request)

\* Everything about a Deployment, one request more, so that rollouts overlap
\* before something is deleted.
Deploying == [r \in Request |-> {"createDeployment", "updateDeployment",
                                 "patchDeployment", "deleteDeployment",
                                 "deleteController"}]

\* Everything about a ReplicaSet.
ReplicaSets == [r \in Request |-> {"createReplicaSet", "deleteReplicaSet"}]

\* What the creations lead to, one after the other.
Populated ==
  /\ namespace = TRUE
  /\ deployment = [Doc(1, FALSE) EXCEPT !.replicas = Replicas]
  /\ controllers = <<Lone, [Controller(1, Doc(1, FALSE)) EXCEPT !.replicas = Replicas]>>
  /\ behind = [deployment |-> <<>>, replicaSet |-> <<>>]
  /\ replicaSet = Gone
  /\ pods = {Bystander} \cup {Pod(i, 1, 1) : i \in 1..Replicas}
  /\ issued = [deployment |-> 1, replicaSet |-> 0]
  /\ tasks = [r \in Request |-> {}]
  /\ doing = [r \in Request |-> None] /\ asked = 0
  /\ deleted = FALSE /\ excuses = {}

\* What the creation and an update that overlaps it may lead to: both find no
\* controller and give theirs the same number.  One request is left.
Doubled ==
  /\ namespace = TRUE
  /\ deployment = [Doc(1, FALSE) EXCEPT !.replicas = 2 * Replicas]
  /\ controllers = <<Lone, [Controller(1, Doc(1, FALSE)) EXCEPT !.replicas = 2 * Replicas],
                     Controller(1, Doc(1, FALSE))>>
  /\ behind = [deployment |-> <<>>, replicaSet |-> <<>>]
  /\ replicaSet = Gone
  /\ pods = {Bystander} \cup {Pod(i, 1, 1) : i \in 1..2 * Replicas}
  /\ issued = [deployment |-> 1, replicaSet |-> 0]
  /\ tasks = [r \in Request |-> {}]
  /\ doing = [r \in Request |-> None] /\ asked = MaxRequests - 1
  /\ deleted = FALSE /\ excuses = {}

\* Where creations and deletions overlap nothing is promised.  The deletion of
\* the namespace, which has all the others in it, is explored by itself, on one
\* generation or one ReplicaSet and its pods.
Uncrossed ==
  /\ "crossed" \notin excuses
  /\ \A q, r \in Request : doing[q] = "deleteNamespace" /\ q # r =>
       /\ doing[r] = None
       /\ Len(controllers) <= 2 /\ Cardinality(pods) <= Replicas + 1

MCSpec == (Init \/ Populated \/ Doubled) /\ [][Next]_vars
=============================================================================
