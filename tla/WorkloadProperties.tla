------------------------- MODULE WorkloadProperties -------------------------
(***************************************************************************)
(* What Deployments, ReplicationControllers, ReplicaSets and namespaces    *)
(* owe their users.                                                        *)
(***************************************************************************)
EXTENDS Workloads

PodsOf(gen) == {p \in pods : p.made = gen}
Rolled == {p \in pods : p.made > 0}
OfReplicaSet == {p \in pods : p.made < 0}

\* While nobody deletes anything, whatever rollouts overlapped: the pods named
\* after a generation are as many as its controllers ask for (there are two if
\* two rollouts took one number), the first of these counts them all, and the
\* Deployment counts those of all generations ("status counts the replicas",
\* "one pod per replica", test/workload.js:70).
OnePodPerReplica ==
  Quiet /\ ~deleted =>
    /\ \A i \in 1..Len(controllers) : LET gen == controllers[i].gen IN
         gen > 0 => /\ Cardinality(PodsOf(gen)) = Replicas * Cardinality(Named(gen))
                    /\ controllers[FirstNamed(gen)].replicas = Cardinality(PodsOf(gen))
    /\ deployment # Gone /\ Strategy # "Recreate"
         => deployment.replicas = Cardinality(Rolled)

\* What is deleted takes with it what it made, unless something was created or
\* updated at the same time, or two objects were stored under one name, or it
\* had finalizers: "deleting the deployment deletes its pods"
\* (test/workload.js:115).
Cascaded ==
  /\ deployment = Gone => Rolled = {} /\ OfDeployment = {}
  /\ replicaSet = Gone => OfReplicaSet = {}
  /\ ~namespace => pods = {} /\ controllers = <<>> /\ deployment = Gone
                     /\ replicaSet = Gone

DeletionCascades == Quiet /\ excuses = {} => Cascaded

\* A pod without an owner and a controller of another name are taken only with
\* their namespace or by name: "a pod it does not own is left alone"
\* (test/workload.js:116).
BystandersKept ==
  [][/\ Bystander \in pods \ pods' => \E r \in Request : doing[r] = "deleteNamespace"
     /\ Named(0) # {} /\ Named(0)' = {} =>
          \E r \in Request : doing[r] \in {"deleteNamespace", "deleteController"}]_vars

\* Without the exceptions it does not hold, though "Deleting the deployment must
\* take its pods with it" (test/workload.js:107).  Not when a rollout was under
\* way; not when a Deployment was updated between its deletion and the patch
\* that took its finalizers off; and not when one of two ReplicaSets of one
\* name was deleted twice.
DeletionAlwaysCascades == Quiet /\ deployment = Gone => Rolled = {}
ReleaseCascades == Quiet /\ excuses = {"held"} /\ deployment = Gone => Rolled = {}
TwinsCascade == Quiet /\ excuses = {"twice"} => Cascaded

\* After an update only the pods of the newest generation are left: the others
\* are "retired" (deployment.js:270).
OldGenerationRetired ==
  Quiet /\ ~deleted => \A p, q \in Rolled : p.made = q.made
=============================================================================
